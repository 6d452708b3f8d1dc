-------------------------------- MODULE Ahci --------------------------------
(***************************************************************************)
(* AHCIDriver_Init (disks/sata.c): probe the host adapter's ports, stop    *)
(* each command engine, give it new lists, restart it and read a sector.   *)
(* One step is one access to a register, which the adapter may change      *)
(* between any two of them.  The adapter and the disks are external.  The  *)
(* heap is Heap's with nothing freed: malloc returns fresh memory, one     *)
(* block behind the other, and does not clear it.  It may begin above what *)
(* 32 bits address, which the pointers that Configure and Read take out of *)
(* the adapter's registers and headers are cut off to.                     *)
(***************************************************************************)
EXTENDS Integers, FiniteSets

CONSTANTS
    Ports,        \* how many ports the adapter implements, numbered from 0
    MaxPorts,     \* the length of AHCIDriver.ports (sata.h:129)
    SpinLimit,    \* the polls Read allows a busy device (sata.c:153)
    Garbage,      \* what malloc's memory may hold where portCount lies
    Bases,        \* where the heap may begin
    Word,         \* 2^32: the addresses below it fit a register of 32 bits
    None          \* not a port: an entry of AHCIDriver.ports never written

\* The count of ports is a byte.
ASSUME PortsAssumption     == MaxPorts \in 0 .. 255 /\ Ports \in 0 .. MaxPorts
ASSUME SpinLimitAssumption == SpinLimit \in Nat
ASSUME BasesAssumption     == Bases \subseteq Nat
ASSUME WordAssumption      == Word \in Nat \ {0}
ASSUME GarbageAssumption   == Garbage \subseteq 0 .. 255 /\ 0 \in Garbage
ASSUME NoneAssumption      == None \notin 0 .. (Ports - 1)

VARIABLES
    pc,           \* the statement the driver executes next
    i,            \* the index of the loop it is in
    driver,       \* the AHCIDriver: [ports, portCount]
    spin,         \* Read's counter
    kind,         \* what is attached to each port (external)
    hba,          \* each port's registers and engine (external)
    table,        \* each port's header and table 0: "junk" or "read"
    buffer,       \* each port's buffer
    result,       \* what Read returned for each port, "none" before
    heap,         \* the address malloc goes on from (last_valid_address)
    area,         \* where each part of a port's memory lies, 0 before
    dirty         \* history: portCount was not zero after the malloc

vars == <<pc, i, driver, spin, kind, hba, table, buffer, result, heap, area, dirty>>

Port == 0 .. (Ports - 1)

Kind == {"SATA", "SATAPI", "PM", "SEMB", "None"}

\* A port: its command register (st, fre are the driver's bits; fr, cr report
\* what the engines do), the two base registers, task file busy or data
\* request, TFES, command issue, and the command the device executes, or
\* "halted" after an error.
HbaPort == [st : BOOLEAN, fre : BOOLEAN, fr : BOOLEAN, cr : BOOLEAN,
            clb : {"firmware", "driver"}, fb : {"firmware", "driver"},
            busy : BOOLEAN, tfes : BOOLEAN, ci : BOOLEAN,
            command : {"none", "junk", "read", "halted"}]

cur == driver.ports[i]

\* What the adapter may access for a port: the list of 32 command headers, the
\* received FISes, the 32 command tables and the buffer.
Slots == 0 .. 31
Parts == {<<"list", 0>>, <<"fis", 0>>, <<"buffer", 0>>}
            \cup {<<"table", slot>> : slot \in Slots}

\* How many bytes of each: a table has a head of 128 and 8 entries; one sector
\* is transferred.
Length(part) ==
    CASE part[1] = "list"   -> 32 * 32
      [] part[1] = "fis"    -> 256
      [] part[1] = "table"  -> 128 + 8 * 16
      [] part[1] = "buffer" -> 512

\* malloc's blocks: a mem_control_blk of 16 bytes before what it returns.
Block(size) == 16 + size
Malloc(size, part) ==
    /\ heap' = heap + Block(size)
    /\ area' = [area EXCEPT ![driver.ports[i]][part] = heap + 16]

\* The header and the table of the command lie where 32 bits lead.
Within32(p) == area[p][<<"list", 0>>] < Word /\ area[p][<<"table", 0>>] < Word

Set(p, h) == hba' = [hba EXCEPT ![p] = h]

-----------------------------------------------------------------------------
(* ProbePorts.                                                              *)

\* CheckPortType, then a Port for a disk at ports[portCount]; the count is a
\* byte and ProbePorts goes by whatever it held (sata.c:174-179).
Attach ==
    IF driver.portCount < MaxPorts
      THEN /\ driver' = [ports |-> [driver.ports EXCEPT ![driver.portCount] = i],
                         portCount |-> (driver.portCount + 1) % 256]
           /\ i' = i + 1 /\ pc' = pc /\ heap' = heap + Block(32)
      ELSE pc' = "wild" /\ UNCHANGED <<driver, i, heap>>

\* Mutant of ProbePorts: every device that is present is taken for a disk.
ProbePorts_AnyDevice ==
    /\ pc = "probe"
    /\ CASE i = Ports -> pc' = "loop" /\ i' = 0 /\ UNCHANGED <<driver, heap>>
         [] i < Ports /\ kind[i] # "None" -> Attach
         [] OTHER -> i' = i + 1 /\ UNCHANGED <<pc, driver, heap>>
    /\ UNCHANGED <<spin, kind, hba, table, buffer, result, area, dirty>>

ProbePorts ==
    /\ pc = "probe"
    /\ CASE i = Ports -> pc' = "loop" /\ i' = 0 /\ UNCHANGED <<driver, heap>>
         [] i < Ports /\ kind[i] \in {"SATA", "SATAPI"} -> Attach
         [] OTHER -> i' = i + 1 /\ UNCHANGED <<pc, driver, heap>>
    /\ UNCHANGED <<spin, kind, hba, table, buffer, result, area, dirty>>

\* The loop of AHCIDriver_Init; an entry ProbePorts did not write is a wild
\* pointer.
NextPort ==
    /\ pc = "loop"
    /\ pc' = IF i >= driver.portCount          THEN "done"
             ELSE IF i >= MaxPorts \/ cur = None THEN "wild"
             ELSE "ClearST"
    /\ UNCHANGED <<i, driver, spin, kind, hba, table, buffer, result, heap, area, dirty>>

-----------------------------------------------------------------------------
(* Configure.                                                               *)

Configuring == UNCHANGED <<i, driver, spin, kind, buffer, result, dirty>>
NothingNew == UNCHANGED <<heap, area>>

\* StopCMD; clearing ST makes the adapter forget issued commands.
ClearST ==
    /\ pc = "ClearST" /\ pc' = "ClearFRE"
    /\ Set(cur, [hba[cur] EXCEPT !.st = FALSE, !.ci = FALSE])
    /\ Configuring /\ NothingNew /\ UNCHANGED table

ClearFRE ==
    /\ pc = "ClearFRE" /\ pc' = "FR"
    /\ Set(cur, [hba[cur] EXCEPT !.fre = FALSE])
    /\ Configuring /\ NothingNew /\ UNCHANGED table

\* while (1): neither test has a limit.
WaitFR ==
    /\ pc = "FR"
    /\ ~ hba[cur].fr /\ pc' = "CR"
    /\ Configuring /\ NothingNew /\ UNCHANGED <<hba, table>>

\* Mutant of WaitCR: StopCMD waits for FR only.
WaitCR_Skipped ==
    /\ pc = "CR" /\ pc' = "CLB"
    /\ Configuring /\ NothingNew /\ UNCHANGED <<hba, table>>

WaitCR ==
    /\ pc = "CR"
    /\ pc' = IF hba[cur].cr THEN "FR" ELSE "CLB"
    /\ Configuring /\ NothingNew /\ UNCHANGED <<hba, table>>

\* The command list and, below, the area for received FISes.  The list is
\* cleared through its low 32 bits: above 4 GiB other memory is, or a page that
\* is not there.
SetCLB ==
    /\ pc = "CLB"
    /\ \/ pc' = "FB"
       \/ heap + 16 >= Word /\ pc' = "wild"
    /\ Set(cur, [hba[cur] EXCEPT !.clb = "driver"])
    /\ Malloc(4096, <<"list", 0>>)
    /\ Configuring /\ UNCHANGED table

SetFB ==
    /\ pc = "FB" /\ pc' = "tables"
    /\ Set(cur, [hba[cur] EXCEPT !.fb = "driver"])
    /\ Malloc(4096, <<"fis", 0>>)
    /\ Configuring /\ UNCHANGED table

\* Table i lies i * 256 bytes into a block of its own.
Tables(size) ==
    /\ heap' = heap + 32 * Block(size)
    /\ area' = [area EXCEPT ![cur] =
        [part \in Parts |-> IF part[1] # "table" THEN @[part]
            ELSE heap + part[2] * Block(size) + 16 + part[2] * 256]]

\* Mutant of SetTables: blocks of the 256 bytes that are cleared.
SetTables_Tight ==
    /\ pc = "tables" /\ pc' = "start"
    /\ table' = [table EXCEPT ![cur] = "junk"]
    /\ Tables(256)
    /\ Configuring /\ UNCHANGED hba

SetTables ==
    /\ pc = "tables" /\ pc' = "start"
    /\ table' = [table EXCEPT ![cur] = "junk"]
    /\ Tables(4096)
    /\ Configuring /\ UNCHANGED hba

\* StartCMD.
WaitStart ==
    /\ pc = "start"
    /\ ~ hba[cur].cr /\ pc' = "SetFRE"
    /\ Configuring /\ NothingNew /\ UNCHANGED <<hba, table>>

SetFRE ==
    /\ pc = "SetFRE" /\ pc' = "SetST"
    /\ Set(cur, [hba[cur] EXCEPT !.fre = TRUE])
    /\ Configuring /\ NothingNew /\ UNCHANGED table

\* Mutant of SetST: FRE is set a second time, ST never.
SetST_Forgotten ==
    /\ pc = "SetST" /\ pc' = "ClearIS"
    /\ Set(cur, [hba[cur] EXCEPT !.fre = TRUE])
    /\ Configuring /\ NothingNew /\ UNCHANGED table

SetST ==
    /\ pc = "SetST" /\ pc' = "ClearIS"
    /\ Set(cur, [hba[cur] EXCEPT !.st = TRUE])
    /\ Configuring /\ NothingNew /\ UNCHANGED table

Configure ==
    \/ ClearST \/ ClearFRE \/ WaitFR \/ WaitCR \/ SetCLB \/ SetFB \/ SetTables
    \/ WaitStart \/ SetFRE \/ SetST

-----------------------------------------------------------------------------
(* Read.                                                                    *)

StillReading == UNCHANGED <<i, driver, kind, dirty>>
Reading == StillReading /\ UNCHANGED <<heap, area>>

\* Mutant of ClearIS: an old error stays recorded.
ClearIS_KeepsError ==
    /\ pc = "ClearIS" /\ pc' = "build"
    /\ buffer' = [buffer EXCEPT ![cur] = "zero"]
    /\ Malloc(4096, <<"buffer", 0>>)
    /\ StillReading /\ UNCHANGED <<spin, hba, table, result>>

\* The buffer is allocated and zeroed, then Read writes ones to the interrupt status, which
\* clears it.
ClearIS ==
    /\ pc = "ClearIS" /\ pc' = "build"
    /\ Set(cur, [hba[cur] EXCEPT !.tfes = FALSE])
    /\ buffer' = [buffer EXCEPT ![cur] = "zero"]
    /\ Malloc(4096, <<"buffer", 0>>)
    /\ StillReading /\ UNCHANGED <<spin, table, result>>

\* Mutant of BuildCommand: fills a table the header does not point to.
BuildCommand_OtherTable ==
    /\ pc = "build" /\ pc' = "spin"
    /\ spin' = 0
    /\ Reading /\ UNCHANGED <<hba, table, buffer, result>>

\* Header and table are reached through the low 32 bits of their addresses.
\* Above 4 GiB what is filled is not what the adapter fetches; and what is
\* taken for the header is what Configure has cleared, so its table would be at
\* 0, which faults, unless it is no memory at all.
BuildCommand ==
    /\ pc = "build"
    /\ \/ pc' = "spin"
       \/ area[cur][<<"list", 0>>] >= Word /\ pc' = "wild"
    /\ table' = IF Within32(cur) THEN [table EXCEPT ![cur] = "read"] ELSE table
    /\ spin' = 0
    /\ Reading /\ UNCHANGED <<hba, buffer, result>>

Return(r) == pc' = "print" /\ result' = [result EXCEPT ![cur] = r]

\* Mutants of Spin: one poll too many; the limit ends the loop but not Read.
Spin_OneMore ==
    /\ pc = "spin"
    /\ \/ /\ hba[cur].busy /\ spin <= SpinLimit
          /\ spin' = spin + 1 /\ UNCHANGED <<pc, result>>
       \/ /\ spin > SpinLimit
          /\ Return("0") /\ UNCHANGED spin
       \/ /\ ~ hba[cur].busy /\ spin <= SpinLimit
          /\ pc' = "issue" /\ UNCHANGED <<spin, result>>
    /\ Reading /\ UNCHANGED <<hba, table, buffer>>

Spin_IssuesAnyway ==
    /\ pc = "spin"
    /\ IF hba[cur].busy /\ spin < SpinLimit
         THEN spin' = spin + 1 /\ UNCHANGED pc
         ELSE pc' = "issue" /\ UNCHANGED spin
    /\ Reading /\ UNCHANGED <<hba, table, buffer, result>>

\* A poll of the task file; spin == limit returns 0 even if the last poll
\* found the device ready.
Spin ==
    /\ pc = "spin"
    /\ \/ /\ hba[cur].busy /\ spin < SpinLimit
          /\ spin' = spin + 1 /\ UNCHANGED <<pc, result>>
       \/ /\ spin = SpinLimit
          /\ Return("0") /\ UNCHANGED spin
       \/ /\ ~ hba[cur].busy /\ spin < SpinLimit
          /\ pc' = "issue" /\ UNCHANGED <<spin, result>>
    /\ Reading /\ UNCHANGED <<hba, table, buffer>>

\* The adapter takes an issue only while ST is set.
Issue ==
    /\ pc = "issue" /\ pc' = "CI"
    /\ Set(cur, [hba[cur] EXCEPT !.ci = @ \/ hba[cur].st])
    /\ Reading /\ UNCHANGED <<spin, table, buffer, result>>

PollCI ==
    /\ pc = "CI"
    /\ IF hba[cur].ci THEN pc' = "TFES" /\ UNCHANGED result ELSE Return("1")
    /\ Reading /\ UNCHANGED <<spin, hba, table, buffer>>

\* Mutant of PollTFES: an error is not looked for.
PollTFES_Ignored ==
    /\ pc = "TFES" /\ pc' = "CI"
    /\ Reading /\ UNCHANGED <<spin, hba, table, buffer, result>>

PollTFES ==
    /\ pc = "TFES"
    /\ IF hba[cur].tfes THEN Return("0") ELSE pc' = "CI" /\ UNCHANGED result
    /\ Reading /\ UNCHANGED <<spin, hba, table, buffer>>

\* printf of the buffer, whatever Read returned.
PrintBuffer ==
    /\ pc = "print" /\ pc' = "loop"
    /\ i' = i + 1
    /\ UNCHANGED <<driver, spin, kind, hba, table, buffer, result, heap, area, dirty>>

Read == ClearIS \/ BuildCommand \/ Spin \/ Issue \/ PollCI \/ PollTFES

AHCIDriver_Init == ProbePorts \/ NextPort \/ Configure \/ Read \/ PrintBuffer

-----------------------------------------------------------------------------
(* The adapter and its devices (external).                                  *)

Adapter == UNCHANGED <<pc, i, driver, spin, kind, table, result, heap, area, dirty>>

\* CR and FR follow ST and FRE; the engine stops between commands.
EngineFollows(p) ==
    /\ hba[p].cr # hba[p].st
    /\ Set(p, [hba[p] EXCEPT !.cr = hba[p].st, !.command = "none",
                             !.busy = @ /\ hba[p].command = "none"])
    /\ Adapter /\ UNCHANGED buffer

ReceiveFollows(p) ==
    /\ hba[p].fr # hba[p].fre
    /\ Set(p, [hba[p] EXCEPT !.fr = hba[p].fre])
    /\ Adapter /\ UNCHANGED buffer

\* A device that was busy at boot becomes ready (or never does).
DeviceReady(p) ==
    /\ hba[p].busy /\ hba[p].command = "none"
    /\ Set(p, [hba[p] EXCEPT !.busy = FALSE])
    /\ Adapter /\ UNCHANGED buffer

\* The engine fetches the issued command from the list it was given and
\* hands it to the device.
Fetch(p) ==
    LET h == hba[p] IN
    /\ h.cr /\ h.ci /\ h.command = "none"
    /\ Set(p, [h EXCEPT !.busy = TRUE,
                        !.command = IF h.clb = "driver" THEN table[p] ELSE "junk"])
    /\ Adapter /\ UNCHANGED buffer

\* A finished command: CI is cleared once the data is in memory; an error
\* sets TFES, leaves CI and halts the engine until ST is cleared, with none or
\* some of the data transferred.
Complete(p) ==
    /\ hba[p].command = "read"
    /\ Set(p, [hba[p] EXCEPT !.command = "none", !.busy = FALSE, !.ci = FALSE])
    /\ buffer' = [buffer EXCEPT ![p] = "sector"]
    /\ Adapter

Fail(p) ==
    /\ hba[p].command \in {"junk", "read"}
    /\ Set(p, [hba[p] EXCEPT !.command = "halted", !.busy = FALSE, !.tfes = TRUE])
    /\ \/ UNCHANGED buffer
       \/ buffer' = [buffer EXCEPT ![p] = "part"]
    /\ Adapter

Engine(p) == EngineFollows(p) \/ ReceiveFollows(p) \/ Fetch(p)

\* The firmware leaves each port idle or with both engines running on its own
\* lists, no command outstanding, an old error recorded or not.
Init ==
    /\ pc = "probe" /\ i = 0 /\ spin = 0
    /\ \E g \in Garbage :
        /\ driver = [ports |-> [j \in 0 .. (MaxPorts - 1) |-> None], portCount |-> g]
        /\ dirty = (g # 0)
    /\ kind \in [Port -> Kind]
    /\ \E on, busy, error \in [Port -> BOOLEAN] :
        hba = [p \in Port |->
            [st |-> on[p], fre |-> on[p], fr |-> on[p], cr |-> on[p],
             clb |-> "firmware", fb |-> "firmware", busy |-> busy[p],
             tfes |-> error[p], ci |-> FALSE, command |-> "none"]]
    /\ table = [p \in Port |-> "junk"]
    /\ buffer = [p \in Port |-> "none"]
    /\ result = [p \in Port |-> "none"]
    /\ heap \in Bases /\ area = [p \in Port |-> [part \in Parts |-> 0]]

Next ==
    \/ AHCIDriver_Init
    \/ \E p \in Port : Engine(p) \/ DeviceReady(p) \/ Complete(p) \/ Fail(p)

\* The driver runs; an engine follows its command register, and a command in
\* the device ends in one way or the other.  A busy device need not become
\* ready.
Spec ==
    /\ Init /\ [][Next]_vars /\ WF_vars(AHCIDriver_Init)
    /\ \A p \in Port : /\ WF_vars(EngineFollows(p)) /\ WF_vars(ReceiveFollows(p))
                       /\ WF_vars(Fetch(p)) /\ WF_vars(Complete(p) \/ Fail(p))

-----------------------------------------------------------------------------
(* Properties.                                                              *)

\* Every variable has its type.
TypeOK ==
    /\ pc \in {"probe", "loop", "ClearST", "ClearFRE", "FR", "CR", "CLB", "FB",
               "tables", "start", "SetFRE", "SetST", "ClearIS", "build", "spin",
               "issue", "CI", "TFES", "print", "done", "wild"}
    /\ i \in 0 .. 255 /\ spin \in 0 .. SpinLimit /\ dirty \in BOOLEAN
    /\ driver \in [ports : [0 .. (MaxPorts - 1) -> Port \cup {None}],
                   portCount : 0 .. 255]
    /\ kind \in [Port -> Kind]
    /\ hba \in [Port -> HbaPort]
    /\ table \in [Port -> {"junk", "read"}]
    /\ buffer \in [Port -> {"none", "zero", "part", "sector"}]
    /\ result \in [Port -> {"none", "0", "1"}]
    /\ heap \in Nat /\ area \in [Port -> [Parts -> Nat]]

\* The base registers change only while both engines of the port are off, so
\* neither follows an address that is half written (sata.c:66-76, 93-105).
BasesChangeWhenOff ==
    [][\A p \in Port :
        (hba[p].clb # hba'[p].clb \/ hba[p].fb # hba'[p].fb)
            => ~ hba[p].cr /\ ~ hba[p].fr]_vars

\* The device is given nothing but the finished read command: not the
\* firmware's list, not a table still being filled, and another table than the
\* one that was filled only if the port's memory is beyond 4 GiB, where the
\* code's 32-bit pointers do not lead (sata.c:66-78, 118-160).
FetchesTheRead ==
    \A p \in Port : hba[p].command = "junk" => ~ Within32(p)

\* A command is issued to a port that is running and whose device is ready
\* (sata.c:110-111, 153-160).
IssuesWhenReady ==
    [][\A p \in Port :
        (~ hba[p].ci /\ hba'[p].ci) => hba[p].st /\ hba[p].fre /\ ~ hba[p].busy]_vars

\* No two of the regions the adapter may access overlap, of one port or of two,
\* when a command is issued: not even the tables that lie past the end of their
\* block (sata.c:68-88, 130, 186).
MemoryApart ==
    LET given == {p \in Port : area[p][<<"buffer", 0>>] # 0}
        Behind(p, a, q, b) == area[p][a] + Length(a) <= area[q][b]
    IN  pc = "issue" =>
            \A p, q \in given : \A a, b \in Parts :
                <<p, a>> = <<q, b>> \/ Behind(p, a, q, b) \/ Behind(q, b, p, a)

\* Read returns 1 only with the sector in the buffer (sata.c:162-170).
SuccessHasTheSector ==
    \A p \in Port : result[p] = "1" => buffer[p] = "sector"

\* Once Read has returned the device writes no more to the buffer, which
\* AHCIDriver_Init prints whatever Read returned (sata.c:189-191).
NoLateTransfer ==
    [][\A p \in Port : result[p] # "none" => buffer'[p] = buffer[p]]_vars

\* Only ports with a disk are configured.  The driver follows a wild pointer
\* only if portCount was not zero in the memory malloc returned, which
\* ProbePorts never sets, or a command list is beyond 4 GiB (sata.c:55-59, 120).
OnlyDisksTouched ==
    /\ pc = "wild" => dirty \/ \E p \in Port : ~ Within32(p)
    /\ \A p \in Port : hba[p].clb = "driver" => kind[p] \in {"SATA", "SATAPI"}

\* AHCIDriver_Init returns, whether or not the devices become ready and the
\* commands succeed (sata.c:97-108, 153, 162-168), unless it went wild.
InitEnds == <>(pc \in {"done", "wild"})
=============================================================================
