----------------------------- MODULE AhciProofs -----------------------------
(***************************************************************************)
(* The safety of AHCIDriver_Init for any number of ports, any spin limit,  *)
(* any value the uninitialised count may have and a heap that begins       *)
(* anywhere, above 4 GiB included.                                         *)
(*                                                                         *)
(* At every moment a port is untouched, finished, the one the driver is    *)
(* working on or the one it went wild at; what its registers and its       *)
(* engine may do then follows from the statement the driver is at.  A      *)
(* second part follows the memory the ports are given.                     *)
(***************************************************************************)
EXTENDS Ahci, TLAPS

-----------------------------------------------------------------------------
(* The statements.                                                          *)

Stopped == {"CLB", "FB", "tables", "start", "SetFRE"}
Stopping == {"ClearFRE", "FR", "CR", "SetST"} \cup Stopped
Running == {"ClearIS", "build", "spin", "issue", "CI", "TFES", "print"}
AtPort  == {"ClearST"} \cup Stopping \cup Running

-----------------------------------------------------------------------------
(* The inductive invariant.                                                 *)

\* No command is outstanding.
Quiet(p) == ~ hba[p].ci /\ hba[p].command = "none"

\* A failed command has stopped the engine.
Halted(p) == hba[p].command = "halted" /\ hba[p].st /\ hba[p].cr

\* As the firmware left it.
Untouched(p) ==
    /\ Quiet(p) /\ result[p] = "none"
    /\ hba[p].clb = "firmware"
    /\ area[p][<<"buffer", 0>>] = 0

\* Restarted on the driver's lists.
Restarted(p) ==
    /\ kind[p] \in {"SATA", "SATAPI"}
    /\ hba[p].clb = "driver"
    /\ hba[p].st /\ hba[p].fre

\* Read has returned for it: nothing goes on any more.
Finished(p) ==
    /\ Restarted(p)
    /\ Quiet(p) \/ Halted(p)
    /\ result[p] # "none"
    /\ result[p] = "1" => buffer[p] = "sector"

\* The driver has faulted on it: it is given no command any more.
Abandoned(p) == kind[p] \in {"SATA", "SATAPI"} /\ Quiet(p) /\ result[p] = "none"

\* The command from its issue to its end: the read, unless another table was
\* filled than the one the header points to.
Commanded(p) ==
    \/ /\ hba[p].ci /\ ~ hba[p].tfes
       /\ \/ hba[p].command = "none"
          \/ hba[p].command = "read" /\ hba[p].cr
          \/ hba[p].command = "junk" /\ hba[p].cr /\ ~ Within32(p)
    \/ Halted(p) /\ hba[p].ci /\ hba[p].tfes
    \/ Quiet(p) /\ ~ hba[p].tfes /\ buffer[p] = "sector"

\* The port the driver is working on, while it is stopped and reconfigured ...
Configured(p) ==
    /\ pc = "ClearST" => Untouched(p)
    /\ pc \in Stopping =>
        /\ ~ hba[p].st /\ Quiet(p) /\ result[p] = "none"
        /\ pc \in {"FR", "CR"} \cup Stopped => ~ hba[p].fre
        /\ pc = "SetST" => hba[p].fre
        /\ pc \in {"CR"} \cup Stopped => ~ hba[p].fr
        /\ pc \in {"SetST"} \cup Stopped => ~ hba[p].cr
        /\ pc \notin {"ClearFRE", "FR", "CR", "CLB"} => hba[p].clb = "driver"

\* ... and while it is restarted and read from.
Reads(p) ==
    pc \in Running =>
        /\ Restarted(p)
        /\ pc \in {"ClearIS", "build", "spin", "issue"} => Quiet(p)
        /\ pc \in {"build", "spin", "issue"} => ~ hba[p].tfes
        /\ pc \notin {"ClearIS", "build"} => table[p] = "read" \/ ~ Within32(p)
        /\ pc = "issue" => ~ hba[p].busy
        /\ pc \in {"CI", "TFES"} => Commanded(p)
        /\ pc # "print" => result[p] = "none"
        /\ pc = "print" => Finished(p)

Entry == 0 .. (MaxPorts - 1)

\* What ProbePorts has written: each disk once, from the garbage up.
Probed ==
    /\ \A j \in Entry : driver.ports[j] # None =>
        /\ kind[driver.ports[j]] \in {"SATA", "SATAPI"}
        /\ \A k \in Entry : driver.ports[k] = driver.ports[j] => k = j
        /\ pc = "probe" => driver.ports[j] < i /\ j < driver.portCount
    /\ ~ dirty =>
        /\ driver.portCount <= Ports
        /\ pc = "probe" => driver.portCount <= i
        /\ \A j \in 0 .. (driver.portCount - 1) : driver.ports[j] # None

\* The two ways to a wild pointer.
Astray == pc = "wild" => dirty \/ \E p \in Port : ~ Within32(p)

\* Where the loop is, and which of the ports it has behind it.
Position ==
    /\ pc = "probe" => i <= Ports /\ \A p \in Port : Untouched(p)
    /\ pc = "loop" => i <= driver.portCount
    /\ pc \in AtPort => i < driver.portCount /\ i < MaxPorts /\ cur \in Port
    /\ \A j \in Entry :
        /\ driver.ports[j] # None
        /\ (pc = "loop" /\ j >= i) \/ (pc \in AtPort /\ j > i)
        => Untouched(driver.ports[j])

\* Every port is in one of the four states.
PortStates ==
    \A p \in Port :
        IF pc \in AtPort /\ p = cur
          THEN kind[p] \in {"SATA", "SATAPI"} /\ Configured(p) /\ Reads(p)
          ELSE Untouched(p) \/ Finished(p) \/ (pc = "wild" /\ Abandoned(p))

DriverInv == TypeOK /\ Probed /\ Astray /\ Position /\ PortStates

-----------------------------------------------------------------------------
(* Writing a register changes that port and no other.                       *)

LEMMA SetEffect ==
    ASSUME hba \in [Port -> HbaPort], NEW p \in Port, NEW h \in HbaPort, Set(p, h)
    PROVE  /\ hba' \in [Port -> HbaPort]
           /\ hba'[p] = h
           /\ \A q \in Port : q # p => hba'[q] = hba[q]
BY DEF Set

\* Every block that Configure and Read ask for is of one size.
Step == Block(4096)

List   == <<"list", 0>>
Fis    == <<"fis", 0>>
Buffer == <<"buffer", 0>>

\* malloc gives the port at hand a part, and no other port.
LEMMA MallocEffect ==
    ASSUME heap \in Nat, area \in [Port -> [Parts -> Nat]], cur \in Port,
           NEW part \in Parts, Malloc(4096, part)
    PROVE  /\ heap' = heap + Step /\ heap' \in Nat
           /\ area' \in [Port -> [Parts -> Nat]]
           /\ area'[cur][part] = heap + 16
           /\ \A b \in Parts : b # part => area'[cur][b] = area[cur][b]
           /\ \A q \in Port : q # cur => area'[q] = area[q]
<1>1. heap' = heap + Step /\ heap' \in Nat /\ heap + 16 \in Nat
  BY DEF Malloc, Block, Step
<1>2. area' = [area EXCEPT ![cur] = [area[cur] EXCEPT ![part] = heap + 16]]
  BY DEF Malloc, cur
<1>3. [area[cur] EXCEPT ![part] = heap + 16] \in [Parts -> Nat]
  BY <1>1
<1> QED
  BY <1>1, <1>2, <1>3

\* The port at hand, and what is known of it.
LEMMA AtHand ==
    ASSUME DriverInv, pc \in AtPort
    PROVE  /\ cur \in Port /\ hba[cur] \in HbaPort
           /\ i \in Entry /\ i < driver.portCount
           /\ kind[cur] \in {"SATA", "SATAPI"}
           /\ Configured(cur) /\ Reads(cur)
<1>1. cur \in Port /\ i < MaxPorts /\ i < driver.portCount
  BY DEF DriverInv, Position
<1>2. i \in 0 .. 255 /\ hba \in [Port -> HbaPort]
  BY DEF DriverInv, TypeOK
<1>3. i \in Entry /\ hba[cur] \in HbaPort
  BY <1>1, <1>2, PortsAssumption DEF Entry
<1>4. kind[cur] \in {"SATA", "SATAPI"} /\ Configured(cur) /\ Reads(cur)
  BY <1>1 DEF DriverInv, PortStates
<1> QED
  BY <1>1, <1>3, <1>4

\* A step of the driver at a port keeps the invariant if it leaves the other
\* ports alone and the port at hand fits the next statement.
LEMMA StepAtPort ==
    ASSUME DriverInv, pc \in AtPort, pc' \in AtPort,
           UNCHANGED <<i, driver, kind, dirty>>, TypeOK',
           \A p \in Port : p # cur =>
                /\ hba'[p] = hba[p] /\ buffer'[p] = buffer[p] /\ result'[p] = result[p]
                /\ area'[p] = area[p],
           Configured(cur)', Reads(cur)'
    PROVE  DriverInv'
<1>1. cur' = cur /\ cur \in Port /\ i \in Entry
  BY AtHand DEF cur
<1>2. \A p \in Port : p # cur =>
        /\ Untouched(p) => Untouched(p)'
        /\ Finished(p) => Finished(p)'
  BY DEF Untouched, Finished, Restarted, Quiet, Halted
<1>3. Probed'
  <2>1. pc' # "probe"
    BY DEF AtPort, Stopping, Stopped, Running
  <2>2. Probed
    BY DEF DriverInv
  <2> QED
    BY <2>1, <2>2 DEF Probed
<1>4. Position'
  <2>1. pc' \notin {"probe", "loop"} /\ pc \notin {"probe", "loop"}
    BY DEF AtPort, Stopping, Stopped, Running
  <2>2. ASSUME NEW j \in Entry, driver.ports[j] # None, j > i
        PROVE  Untouched(driver.ports[j])'
    <3>1. driver.ports[j] \in Port /\ Untouched(driver.ports[j])
      <4>1. driver.ports \in [Entry -> Port \cup {None}]
        BY DEF DriverInv, TypeOK, Entry
      <4>3. driver.ports[j] \in Port
        BY <2>2, <4>1
      <4>2. Untouched(driver.ports[j])
        BY <2>2 DEF DriverInv, Position
      <4> QED
        BY <4>2, <4>3
    <3>2. driver.ports[j] # cur
      <4>1. \A k \in Entry : driver.ports[k] = driver.ports[j] => k = j
        BY <2>2 DEF DriverInv, Probed
      <4> QED
        BY <2>2, <1>1, <4>1 DEF cur, Entry
    <3> QED
      BY <3>1, <3>2, <1>2
  <2> QED
    BY <1>1, <2>1, <2>2 DEF DriverInv, Position
<1>5. PortStates'
  <2>1. pc # "wild"
    BY DEF AtPort, Stopping, Stopped, Running
  <2> QED
    BY <1>1, <1>2, <2>1, AtHand DEF DriverInv, PortStates
<1>6. Astray'
  BY DEF Astray, AtPort, Stopping, Stopped, Running
<1> QED
  BY <1>3, <1>4, <1>5, <1>6 DEF DriverInv

\* So does one that goes wild there, if the port is left without a command and
\* its list is beyond 4 GiB.
LEMMA WildAtPort ==
    ASSUME DriverInv, pc \in AtPort, pc' = "wild",
           UNCHANGED <<i, driver, kind, dirty>>, TypeOK',
           \A p \in Port : p # cur =>
                /\ hba'[p] = hba[p] /\ buffer'[p] = buffer[p] /\ result'[p] = result[p]
                /\ area'[p] = area[p],
           Abandoned(cur)', ~ Within32(cur)'
    PROVE  DriverInv'
<1>1. cur' = cur /\ cur \in Port
  BY AtHand DEF cur
<1>2. pc # "wild" /\ pc' \notin AtPort /\ pc' \notin {"probe", "loop"}
  BY DEF AtPort, Stopping, Stopped, Running
<1>3. \A p \in Port : p # cur =>
        /\ Untouched(p) => Untouched(p)'
        /\ Finished(p) => Finished(p)'
  BY DEF Untouched, Finished, Restarted, Quiet, Halted
<1>4. Probed'
  BY <1>2 DEF DriverInv, Probed
<1>5. Astray'
  BY <1>1 DEF Astray
<1>6. Position'
  BY <1>2 DEF Position
<1>7. PortStates'
  BY <1>1, <1>2, <1>3 DEF DriverInv, PortStates
<1> QED
  BY <1>4, <1>5, <1>6, <1>7 DEF DriverInv

\* StopCMD's first write.
LEMMA ClearSTKeeps == DriverInv /\ ClearST => DriverInv'
<1> SUFFICES ASSUME DriverInv, ClearST PROVE DriverInv'
  OBVIOUS
<1> DEFINE h == [hba[cur] EXCEPT !.st = FALSE, !.ci = FALSE]
<1>1. pc \in AtPort /\ pc' \in AtPort
  BY DEF ClearST, AtPort, Stopping, Stopped, Running
<1>2. cur \in Port /\ hba[cur] \in HbaPort /\ Configured(cur) /\ Reads(cur)
      /\ kind[cur] \in {"SATA", "SATAPI"}
  BY <1>1, AtHand
<1>3. h \in HbaPort /\ ~ h.st
      /\ ~ h.ci
      /\ h.command = hba[cur].command
      /\ h.clb = hba[cur].clb
  BY <1>2 DEF HbaPort
<1>4. /\ hba' \in [Port -> HbaPort]
      /\ hba'[cur] = h
      /\ \A q \in Port : q # cur => hba'[q] = hba[q]
  <2>1. h \in HbaPort /\ Set(cur, h) /\ hba \in [Port -> HbaPort]
    BY <1>3 DEF ClearST, DriverInv, TypeOK
  <2> HIDE DEF h
  <2> QED
    BY <1>2, <2>1, SetEffect
<1> HIDE DEF h
<1>5. UNCHANGED <<heap, area>>
  BY DEF ClearST, NothingNew, Reading
<1>6. TypeOK'
  BY <1>2, <1>4, <1>5 DEF ClearST, Configuring, DriverInv, TypeOK
<1>7. cur' = cur
  BY DEF ClearST, Configuring, cur
<1>8. Configured(cur)' /\ Reads(cur)'
  BY <1>2, <1>3, <1>4, <1>7 DEF ClearST, Configuring, Configured, Reads,
     Untouched, Restarted, Commanded, Within32, Quiet, Halted, Stopping, Stopped, Running
<1> QED
  BY <1>1, <1>4, <1>5, <1>6, <1>8, StepAtPort DEF ClearST, Configuring, DriverInv, TypeOK

\* StopCMD's second write.
LEMMA ClearFREKeeps == DriverInv /\ ClearFRE => DriverInv'
<1> SUFFICES ASSUME DriverInv, ClearFRE PROVE DriverInv'
  OBVIOUS
<1> DEFINE h == [hba[cur] EXCEPT !.fre = FALSE]
<1>1. pc \in AtPort /\ pc' \in AtPort
  BY DEF ClearFRE, AtPort, Stopping, Stopped, Running
<1>2. cur \in Port /\ hba[cur] \in HbaPort /\ Configured(cur) /\ Reads(cur)
      /\ kind[cur] \in {"SATA", "SATAPI"}
  BY <1>1, AtHand
<1>3. h \in HbaPort /\ ~ h.fre
      /\ h.st = hba[cur].st
      /\ h.ci = hba[cur].ci
      /\ h.command = hba[cur].command
  BY <1>2 DEF HbaPort
<1>4. /\ hba' \in [Port -> HbaPort]
      /\ hba'[cur] = h
      /\ \A q \in Port : q # cur => hba'[q] = hba[q]
  <2>1. h \in HbaPort /\ Set(cur, h) /\ hba \in [Port -> HbaPort]
    BY <1>3 DEF ClearFRE, DriverInv, TypeOK
  <2> HIDE DEF h
  <2> QED
    BY <1>2, <2>1, SetEffect
<1> HIDE DEF h
<1>5. UNCHANGED <<heap, area>>
  BY DEF ClearFRE, NothingNew, Reading
<1>6. TypeOK'
  BY <1>2, <1>4, <1>5 DEF ClearFRE, Configuring, DriverInv, TypeOK
<1>7. cur' = cur
  BY DEF ClearFRE, Configuring, cur
<1>8. Configured(cur)' /\ Reads(cur)'
  BY <1>2, <1>3, <1>4, <1>7 DEF ClearFRE, Configuring, Configured, Reads,
     Untouched, Restarted, Commanded, Within32, Quiet, Halted, Stopping, Stopped, Running
<1> QED
  BY <1>1, <1>4, <1>5, <1>6, <1>8, StepAtPort DEF ClearFRE, Configuring, DriverInv, TypeOK

\* The new command list.
LEMMA SetCLBKeeps == DriverInv /\ SetCLB => DriverInv'
<1> SUFFICES ASSUME DriverInv, SetCLB PROVE DriverInv'
  OBVIOUS
<1> DEFINE h == [hba[cur] EXCEPT !.clb = "driver"]
<1>1. pc \in AtPort
  BY DEF SetCLB, AtPort, Stopping, Stopped, Running
<1>2. cur \in Port /\ hba[cur] \in HbaPort /\ Configured(cur) /\ Reads(cur)
      /\ kind[cur] \in {"SATA", "SATAPI"}
  BY <1>1, AtHand
<1>3. h \in HbaPort /\ h.clb = "driver"
      /\ h.st = hba[cur].st
      /\ h.fre = hba[cur].fre
      /\ h.fr = hba[cur].fr
      /\ h.cr = hba[cur].cr
      /\ h.ci = hba[cur].ci
      /\ h.command = hba[cur].command
  BY <1>2 DEF HbaPort
<1>4. /\ hba' \in [Port -> HbaPort]
      /\ hba'[cur] = h
      /\ \A q \in Port : q # cur => hba'[q] = hba[q]
  <2>1. h \in HbaPort /\ Set(cur, h) /\ hba \in [Port -> HbaPort]
    BY <1>3 DEF SetCLB, DriverInv, TypeOK
  <2> HIDE DEF h
  <2> QED
    BY <1>2, <2>1, SetEffect
<1> HIDE DEF h
<1>5. /\ heap' \in Nat /\ area' \in [Port -> [Parts -> Nat]]
      /\ \A q \in Port : q # cur => area'[q] = area[q]
      /\ area'[cur][List] = heap + 16
  <2>1. List \in Parts
    BY DEF Parts, List
  <2>2. heap \in Nat /\ area \in [Port -> [Parts -> Nat]]
    BY DEF DriverInv, TypeOK
  <2>3. Malloc(4096, List)
    BY DEF SetCLB, List
  <2> QED
    BY <1>2, <2>1, <2>2, <2>3, MallocEffect
<1>6. TypeOK'
  BY <1>2, <1>4, <1>5 DEF SetCLB, Configuring, DriverInv, TypeOK
<1>7. cur' = cur
  BY DEF SetCLB, Configuring, cur
<1>8. CASE pc' = "FB"
  <2>1. pc' \in AtPort
    BY <1>8 DEF AtPort, Stopping, Stopped
  <2>2. Configured(cur)' /\ Reads(cur)'
    BY <1>2, <1>3, <1>4, <1>7, <1>8 DEF SetCLB, Configuring, Configured, Reads,
       Untouched, Restarted, Commanded, Within32, Quiet, Halted, Stopping, Stopped, Running
  <2> QED
    BY <1>1, <1>4, <1>5, <1>6, <2>1, <2>2, StepAtPort DEF SetCLB, Configuring, DriverInv, TypeOK
<1>9. CASE heap + 16 >= Word /\ pc' = "wild"
  <2>1. Abandoned(cur)'
    BY <1>2, <1>3, <1>4, <1>7 DEF SetCLB, Configuring, Configured, Abandoned, Quiet, Stopping, Stopped
  <2>2. ~ Within32(cur)'
    BY <1>5, <1>7, <1>9, WordAssumption DEF Within32, List, DriverInv, TypeOK
  <2>3. UNCHANGED <<i, driver, kind, buffer, result, dirty>>
    BY DEF SetCLB, Configuring
  <2> QED
    BY <1>1, <1>4, <1>5, <1>6, <1>9, <2>1, <2>2, <2>3, WildAtPort
<1> QED
  BY <1>8, <1>9 DEF SetCLB

\* The new area for received FISes.
LEMMA SetFBKeeps == DriverInv /\ SetFB => DriverInv'
<1> SUFFICES ASSUME DriverInv, SetFB PROVE DriverInv'
  OBVIOUS
<1> DEFINE h == [hba[cur] EXCEPT !.fb = "driver"]
<1>1. pc \in AtPort /\ pc' \in AtPort
  BY DEF SetFB, AtPort, Stopping, Stopped, Running
<1>2. cur \in Port /\ hba[cur] \in HbaPort /\ Configured(cur) /\ Reads(cur)
      /\ kind[cur] \in {"SATA", "SATAPI"}
  BY <1>1, AtHand
<1>3. h \in HbaPort /\ h.clb = hba[cur].clb
      /\ h.st = hba[cur].st
      /\ h.fre = hba[cur].fre
      /\ h.fr = hba[cur].fr
      /\ h.cr = hba[cur].cr
      /\ h.ci = hba[cur].ci
      /\ h.command = hba[cur].command
  BY <1>2 DEF HbaPort
<1>4. /\ hba' \in [Port -> HbaPort]
      /\ hba'[cur] = h
      /\ \A q \in Port : q # cur => hba'[q] = hba[q]
  <2>1. h \in HbaPort /\ Set(cur, h) /\ hba \in [Port -> HbaPort]
    BY <1>3 DEF SetFB, DriverInv, TypeOK
  <2> HIDE DEF h
  <2> QED
    BY <1>2, <2>1, SetEffect
<1> HIDE DEF h
<1>5. /\ heap' \in Nat /\ area' \in [Port -> [Parts -> Nat]]
      /\ \A q \in Port : q # cur => area'[q] = area[q]
  <2>1. Fis \in Parts
    BY DEF Parts, Fis
  <2>2. heap \in Nat /\ area \in [Port -> [Parts -> Nat]]
    BY DEF DriverInv, TypeOK
  <2>3. Malloc(4096, Fis)
    BY DEF SetFB, Fis
  <2> QED
    BY <1>2, <2>1, <2>2, <2>3, MallocEffect
<1>6. TypeOK'
  BY <1>2, <1>4, <1>5 DEF SetFB, Configuring, DriverInv, TypeOK
<1>7. cur' = cur
  BY DEF SetFB, Configuring, cur
<1>8. Configured(cur)' /\ Reads(cur)'
  BY <1>2, <1>3, <1>4, <1>7 DEF SetFB, Configuring, Configured, Reads,
     Untouched, Restarted, Commanded, Within32, Quiet, Halted, Stopping, Stopped, Running
<1> QED
  BY <1>1, <1>4, <1>5, <1>6, <1>8, StepAtPort DEF SetFB, Configuring, DriverInv, TypeOK

\* StartCMD's first write.
LEMMA SetFREKeeps == DriverInv /\ SetFRE => DriverInv'
<1> SUFFICES ASSUME DriverInv, SetFRE PROVE DriverInv'
  OBVIOUS
<1> DEFINE h == [hba[cur] EXCEPT !.fre = TRUE]
<1>1. pc \in AtPort /\ pc' \in AtPort
  BY DEF SetFRE, AtPort, Stopping, Stopped, Running
<1>2. cur \in Port /\ hba[cur] \in HbaPort /\ Configured(cur) /\ Reads(cur)
      /\ kind[cur] \in {"SATA", "SATAPI"}
  BY <1>1, AtHand
<1>3. h \in HbaPort /\ h.fre
      /\ h.clb = hba[cur].clb
      /\ h.st = hba[cur].st
      /\ h.cr = hba[cur].cr
      /\ h.ci = hba[cur].ci
      /\ h.command = hba[cur].command
  BY <1>2 DEF HbaPort
<1>4. /\ hba' \in [Port -> HbaPort]
      /\ hba'[cur] = h
      /\ \A q \in Port : q # cur => hba'[q] = hba[q]
  <2>1. h \in HbaPort /\ Set(cur, h) /\ hba \in [Port -> HbaPort]
    BY <1>3 DEF SetFRE, DriverInv, TypeOK
  <2> HIDE DEF h
  <2> QED
    BY <1>2, <2>1, SetEffect
<1> HIDE DEF h
<1>5. UNCHANGED <<heap, area>>
  BY DEF SetFRE, NothingNew, Reading
<1>6. TypeOK'
  BY <1>2, <1>4, <1>5 DEF SetFRE, Configuring, DriverInv, TypeOK
<1>7. cur' = cur
  BY DEF SetFRE, Configuring, cur
<1>8. Configured(cur)' /\ Reads(cur)'
  BY <1>2, <1>3, <1>4, <1>7 DEF SetFRE, Configuring, Configured, Reads,
     Untouched, Restarted, Commanded, Within32, Quiet, Halted, Stopping, Stopped, Running
<1> QED
  BY <1>1, <1>4, <1>5, <1>6, <1>8, StepAtPort DEF SetFRE, Configuring, DriverInv, TypeOK

\* StartCMD's second write.
LEMMA SetSTKeeps == DriverInv /\ SetST => DriverInv'
<1> SUFFICES ASSUME DriverInv, SetST PROVE DriverInv'
  OBVIOUS
<1> DEFINE h == [hba[cur] EXCEPT !.st = TRUE]
<1>1. pc \in AtPort /\ pc' \in AtPort
  BY DEF SetST, AtPort, Stopping, Stopped, Running
<1>2. cur \in Port /\ hba[cur] \in HbaPort /\ Configured(cur) /\ Reads(cur)
      /\ kind[cur] \in {"SATA", "SATAPI"}
  BY <1>1, AtHand
<1>3. h \in HbaPort /\ h.st
      /\ h.clb = hba[cur].clb
      /\ h.fre = hba[cur].fre
      /\ h.ci = hba[cur].ci
      /\ h.command = hba[cur].command
  BY <1>2 DEF HbaPort
<1>4. /\ hba' \in [Port -> HbaPort]
      /\ hba'[cur] = h
      /\ \A q \in Port : q # cur => hba'[q] = hba[q]
  <2>1. h \in HbaPort /\ Set(cur, h) /\ hba \in [Port -> HbaPort]
    BY <1>3 DEF SetST, DriverInv, TypeOK
  <2> HIDE DEF h
  <2> QED
    BY <1>2, <2>1, SetEffect
<1> HIDE DEF h
<1>5. UNCHANGED <<heap, area>>
  BY DEF SetST, NothingNew, Reading
<1>6. TypeOK'
  BY <1>2, <1>4, <1>5 DEF SetST, Configuring, DriverInv, TypeOK
<1>7. cur' = cur
  BY DEF SetST, Configuring, cur
<1>8. Configured(cur)' /\ Reads(cur)'
  BY <1>2, <1>3, <1>4, <1>7 DEF SetST, Configuring, Configured, Reads,
     Untouched, Restarted, Commanded, Within32, Quiet, Halted, Stopping, Stopped, Running
<1> QED
  BY <1>1, <1>4, <1>5, <1>6, <1>8, StepAtPort DEF SetST, Configuring, DriverInv, TypeOK

\* Read clears the old errors.
LEMMA ClearISKeeps == DriverInv /\ ClearIS => DriverInv'
<1> SUFFICES ASSUME DriverInv, ClearIS PROVE DriverInv'
  OBVIOUS
<1> DEFINE h == [hba[cur] EXCEPT !.tfes = FALSE]
<1>1. pc \in AtPort /\ pc' \in AtPort
  BY DEF ClearIS, AtPort, Stopping, Stopped, Running
<1>2. cur \in Port /\ hba[cur] \in HbaPort /\ Configured(cur) /\ Reads(cur)
      /\ kind[cur] \in {"SATA", "SATAPI"}
  BY <1>1, AtHand
<1>3. h \in HbaPort /\ ~ h.tfes
      /\ h.clb = hba[cur].clb
      /\ h.st = hba[cur].st
      /\ h.fre = hba[cur].fre
      /\ h.ci = hba[cur].ci
      /\ h.command = hba[cur].command
  BY <1>2 DEF HbaPort
<1>4. /\ hba' \in [Port -> HbaPort]
      /\ hba'[cur] = h
      /\ \A q \in Port : q # cur => hba'[q] = hba[q]
  <2>1. h \in HbaPort /\ Set(cur, h) /\ hba \in [Port -> HbaPort]
    BY <1>3 DEF ClearIS, DriverInv, TypeOK
  <2> HIDE DEF h
  <2> QED
    BY <1>2, <2>1, SetEffect
<1> HIDE DEF h
<1>5. /\ heap' \in Nat /\ area' \in [Port -> [Parts -> Nat]]
      /\ \A q \in Port : q # cur => area'[q] = area[q]
  <2>1. Buffer \in Parts
    BY DEF Parts, Buffer
  <2>2. heap \in Nat /\ area \in [Port -> [Parts -> Nat]]
    BY DEF DriverInv, TypeOK
  <2>3. Malloc(4096, Buffer)
    BY DEF ClearIS, Buffer
  <2> QED
    BY <1>2, <2>1, <2>2, <2>3, MallocEffect
<1>6. TypeOK'
  <2>1. buffer' \in [Port -> {"none", "zero", "part", "sector"}]
    BY <1>2 DEF ClearIS, DriverInv, TypeOK
  <2> QED
    BY <1>2, <1>4, <1>5, <2>1 DEF ClearIS, StillReading, DriverInv, TypeOK
<1>7. cur' = cur
  BY DEF ClearIS, StillReading, cur
<1>8. Configured(cur)' /\ Reads(cur)'
  BY <1>2, <1>3, <1>4, <1>7 DEF ClearIS, StillReading, Configured, Reads,
     Untouched, Restarted, Commanded, Within32, Quiet, Halted, Stopping, Stopped, Running
<1> QED
  BY <1>1, <1>4, <1>5, <1>6, <1>8, StepAtPort DEF ClearIS, StillReading, DriverInv, TypeOK

\* The command is issued to a running, ready port.
LEMMA IssueKeeps == DriverInv /\ Issue => DriverInv'
<1> SUFFICES ASSUME DriverInv, Issue PROVE DriverInv'
  OBVIOUS
<1> DEFINE h == [hba[cur] EXCEPT !.ci = @ \/ hba[cur].st]
<1>1. pc \in AtPort /\ pc' \in AtPort
  BY DEF Issue, AtPort, Stopping, Stopped, Running
<1>2. cur \in Port /\ hba[cur] \in HbaPort /\ Configured(cur) /\ Reads(cur)
      /\ kind[cur] \in {"SATA", "SATAPI"}
  BY <1>1, AtHand
<1>3. h \in HbaPort /\ h.ci = (hba[cur].ci \/ hba[cur].st)
      /\ h.clb = hba[cur].clb
      /\ h.st = hba[cur].st
      /\ h.fre = hba[cur].fre
      /\ h.tfes = hba[cur].tfes
      /\ h.command = hba[cur].command
      /\ h.cr = hba[cur].cr
  BY <1>2 DEF HbaPort
<1>4. /\ hba' \in [Port -> HbaPort]
      /\ hba'[cur] = h
      /\ \A q \in Port : q # cur => hba'[q] = hba[q]
  <2>1. h \in HbaPort /\ Set(cur, h) /\ hba \in [Port -> HbaPort]
    BY <1>3 DEF Issue, DriverInv, TypeOK
  <2> HIDE DEF h
  <2> QED
    BY <1>2, <2>1, SetEffect
<1> HIDE DEF h
<1>5. UNCHANGED <<heap, area>>
  BY DEF Issue, NothingNew, Reading
<1>6. TypeOK'
  BY <1>2, <1>4, <1>5 DEF Issue, Reading, StillReading, DriverInv, TypeOK
<1>7. cur' = cur
  BY DEF Issue, Reading, StillReading, cur
<1>8. Configured(cur)' /\ Reads(cur)'
  BY <1>2, <1>3, <1>4, <1>7 DEF Issue, Reading, StillReading, Configured, Reads,
     Untouched, Restarted, Commanded, Within32, Quiet, Halted, Stopping, Stopped, Running
<1> QED
  BY <1>1, <1>4, <1>5, <1>6, <1>8, StepAtPort DEF Issue, Reading, StillReading, DriverInv, TypeOK

\* StopCMD has seen FR clear.
LEMMA WaitFRKeeps == DriverInv /\ WaitFR => DriverInv'
<1> SUFFICES ASSUME DriverInv, WaitFR PROVE DriverInv'
  OBVIOUS
<1>1. pc \in AtPort /\ pc' \in AtPort
  BY DEF WaitFR, AtPort, Stopping, Stopped, Running
<1>2. cur \in Port /\ hba[cur] \in HbaPort /\ Configured(cur) /\ Reads(cur)
  BY <1>1, AtHand
<1>3. TypeOK'
  BY <1>2 DEF WaitFR, Configuring, NothingNew, DriverInv, TypeOK
<1>4. cur' = cur
  BY DEF WaitFR, Configuring, NothingNew, cur
<1>5. Configured(cur)' /\ Reads(cur)'
  BY <1>2, <1>4 DEF WaitFR, Configuring, NothingNew, Configured, Reads,
     Untouched, Restarted, Commanded, Within32, Quiet, Halted, Stopping, Stopped, Running
<1> QED
  BY <1>1, <1>3, <1>5, StepAtPort DEF WaitFR, Configuring, NothingNew, DriverInv, TypeOK

\* StopCMD has seen CR clear, or looks at FR again.
LEMMA WaitCRKeeps == DriverInv /\ WaitCR => DriverInv'
<1> SUFFICES ASSUME DriverInv, WaitCR PROVE DriverInv'
  OBVIOUS
<1>1. pc \in AtPort /\ pc' \in AtPort
  BY DEF WaitCR, AtPort, Stopping, Stopped, Running
<1>2. cur \in Port /\ hba[cur] \in HbaPort /\ Configured(cur) /\ Reads(cur)
  BY <1>1, AtHand
<1>3. TypeOK'
  BY <1>2 DEF WaitCR, Configuring, NothingNew, DriverInv, TypeOK
<1>4. cur' = cur
  BY DEF WaitCR, Configuring, NothingNew, cur
<1>5. Configured(cur)' /\ Reads(cur)'
  BY <1>2, <1>4 DEF WaitCR, Configuring, NothingNew, Configured, Reads,
     Untouched, Restarted, Commanded, Within32, Quiet, Halted, Stopping, Stopped, Running
<1> QED
  BY <1>1, <1>3, <1>5, StepAtPort DEF WaitCR, Configuring, NothingNew, DriverInv, TypeOK

\* StartCMD has seen CR clear.
LEMMA WaitStartKeeps == DriverInv /\ WaitStart => DriverInv'
<1> SUFFICES ASSUME DriverInv, WaitStart PROVE DriverInv'
  OBVIOUS
<1>1. pc \in AtPort /\ pc' \in AtPort
  BY DEF WaitStart, AtPort, Stopping, Stopped, Running
<1>2. cur \in Port /\ hba[cur] \in HbaPort /\ Configured(cur) /\ Reads(cur)
  BY <1>1, AtHand
<1>3. TypeOK'
  BY <1>2 DEF WaitStart, Configuring, NothingNew, DriverInv, TypeOK
<1>4. cur' = cur
  BY DEF WaitStart, Configuring, NothingNew, cur
<1>5. Configured(cur)' /\ Reads(cur)'
  BY <1>2, <1>4 DEF WaitStart, Configuring, NothingNew, Configured, Reads,
     Untouched, Restarted, Commanded, Within32, Quiet, Halted, Stopping, Stopped, Running
<1> QED
  BY <1>1, <1>3, <1>5, StepAtPort DEF WaitStart, Configuring, NothingNew, DriverInv, TypeOK

\* The command tables are blocks of the port at hand.
LEMMA TablesEffect ==
    ASSUME heap \in Nat, area \in [Port -> [Parts -> Nat]], cur \in Port, Tables(4096)
    PROVE  /\ heap' = heap + 32 * Step /\ heap' \in Nat
           /\ area' \in [Port -> [Parts -> Nat]]
           /\ \A part \in Parts :
                area'[cur][part] = IF part[1] # "table" THEN area[cur][part]
                    ELSE heap + part[2] * Step + 16 + part[2] * 256
           /\ \A q \in Port : q # cur => area'[q] = area[q]
<1> DEFINE new == [part \in Parts |-> IF part[1] # "table" THEN area[cur][part]
                     ELSE heap + part[2] * Step + 16 + part[2] * 256]
<1>1. heap' = heap + 32 * Step /\ heap' \in Nat /\ Step \in Nat
  BY DEF Tables, Block, Step
<1>2. area' = [area EXCEPT ![cur] = new]
  BY DEF Tables, Step
<1>3. new \in [Parts -> Nat]
  <2>1. ASSUME NEW part \in Parts, part[1] = "table"
        PROVE  heap + part[2] * Step + 16 + part[2] * 256 \in Nat
    <3>1. part[2] \in 0 .. 31
      BY <2>1 DEF Parts, Slots
    <3>2. part[2] * Step \in Nat /\ part[2] * 256 \in Nat
      BY <3>1 DEF Step, Block
    <3> QED
      BY <3>2
  <2> QED
    BY <2>1
<1> QED
  BY <1>1, <1>2, <1>3

\* The command tables are allocated and filled later.
LEMMA SetTablesKeeps == DriverInv /\ SetTables => DriverInv'
<1> SUFFICES ASSUME DriverInv, SetTables PROVE DriverInv'
  OBVIOUS
<1>1. pc \in AtPort /\ pc' \in AtPort
  BY DEF SetTables, AtPort, Stopping, Stopped, Running
<1>2. cur \in Port /\ hba[cur] \in HbaPort /\ Configured(cur) /\ Reads(cur)
  BY <1>1, AtHand
<1>3. /\ heap' \in Nat /\ area' \in [Port -> [Parts -> Nat]]
      /\ \A q \in Port : q # cur => area'[q] = area[q]
  <2>1. heap \in Nat /\ area \in [Port -> [Parts -> Nat]] /\ Tables(4096)
    BY DEF SetTables, DriverInv, TypeOK
  <2> QED
    BY <1>2, <2>1, TablesEffect
<1>4. TypeOK'
  <2>1. table' \in [Port -> {"junk", "read"}]
    BY <1>2 DEF SetTables, DriverInv, TypeOK
  <2> QED
    BY <1>2, <1>3, <2>1 DEF SetTables, Configuring, DriverInv, TypeOK
<1>5. cur' = cur
  BY DEF SetTables, Configuring, cur
<1>6. Configured(cur)' /\ Reads(cur)'
  BY <1>2, <1>5 DEF SetTables, Configuring, Configured, Reads, Quiet,
     Stopping, Stopped, Running
<1> QED
  BY <1>1, <1>3, <1>4, <1>6, StepAtPort DEF SetTables, Configuring, DriverInv, TypeOK

\* The header and table of the read command are filled.
LEMMA BuildCommandKeeps == DriverInv /\ BuildCommand => DriverInv'
<1> SUFFICES ASSUME DriverInv, BuildCommand PROVE DriverInv'
  OBVIOUS
<1>1. pc = "build" /\ pc \in AtPort
  BY DEF BuildCommand, AtPort, Running
<1>2. cur \in Port /\ hba[cur] \in HbaPort /\ Configured(cur) /\ Reads(cur)
      /\ kind[cur] \in {"SATA", "SATAPI"}
  BY <1>1, AtHand
<1>3. table' \in [Port -> {"junk", "read"}] /\ (table'[cur] = "read" \/ ~ Within32(cur))
  BY <1>2 DEF BuildCommand, DriverInv, TypeOK
<1>4. TypeOK'
  BY <1>3, SpinLimitAssumption DEF BuildCommand, Reading, StillReading, DriverInv, TypeOK
<1>5. cur' = cur
  BY DEF BuildCommand, Reading, StillReading, cur
<1>6. CASE pc' = "spin"
  <2>1. pc' \in AtPort
    BY <1>6 DEF AtPort, Running
  <2>2. Configured(cur)' /\ Reads(cur)'
    BY <1>1, <1>2, <1>3, <1>5, <1>6 DEF BuildCommand, Reading, StillReading, Configured, Reads,
       Restarted, Quiet, Within32, Stopping, Stopped, Running
  <2> QED
    BY <1>1, <1>4, <2>1, <2>2, StepAtPort DEF BuildCommand, Reading, StillReading
<1>7. CASE area[cur][List] >= Word /\ pc' = "wild"
  <2>1. Abandoned(cur)'
    BY <1>1, <1>2, <1>5 DEF BuildCommand, Reading, StillReading, Reads, Abandoned, Quiet, Running
  <2>2. area[cur][List] \in Nat
    <3>1. area \in [Port -> [Parts -> Nat]]
      BY DEF DriverInv, TypeOK
    <3>2. List \in Parts
      BY DEF List, Parts
    <3> QED
      BY <1>2, <3>1, <3>2
  <2>3. ~ Within32(cur)'
    BY <1>5, <1>7, <2>2, WordAssumption DEF BuildCommand, Reading, Within32, List
  <2> QED
    BY <1>1, <1>4, <1>7, <2>1, <2>3, WildAtPort DEF BuildCommand, Reading, StillReading
<1> QED
  BY <1>6, <1>7 DEF BuildCommand, List

\* Read returns for the port at hand and no other.
LEMMA ReturnEffect ==
    ASSUME result \in [Port -> {"none", "0", "1"}], cur \in Port,
           NEW r \in {"0", "1"}, Return(r)
    PROVE  /\ result' \in [Port -> {"none", "0", "1"}]
           /\ result'[cur] = r
           /\ \A q \in Port : q # cur => result'[q] = result[q]
BY DEF Return

\* A poll of the task file; the limit ends Read with 0.
LEMMA SpinKeeps == DriverInv /\ Spin => DriverInv'
<1> SUFFICES ASSUME DriverInv, Spin PROVE DriverInv'
  OBVIOUS
<1>1. pc \in AtPort /\ pc' \in AtPort
  BY DEF Spin, Return, AtPort, Running
<1>2. cur \in Port /\ hba[cur] \in HbaPort /\ Configured(cur) /\ Reads(cur)
  BY <1>1, AtHand
<1>3. /\ result' \in [Port -> {"none", "0", "1"}]
      /\ \A q \in Port : q # cur => result'[q] = result[q]
  BY <1>2, ReturnEffect DEF Spin, DriverInv, TypeOK
<1>4. TypeOK'
  BY <1>3, SpinLimitAssumption DEF Spin, Return, Reading, StillReading, DriverInv, TypeOK
<1>5. cur' = cur
  BY DEF Spin, Reading, StillReading, cur
<1>6. pc' = "print" => result'[cur] # "none" /\ (result'[cur] = "1" => pc = "CI" /\ ~ hba[cur].ci)
  BY <1>2, ReturnEffect DEF Spin, DriverInv, TypeOK
<1>7. pc' # "print" => UNCHANGED result
  BY DEF Spin, Return
<1>8. Configured(cur)' /\ Reads(cur)'
  BY <1>2, <1>5, <1>6, <1>7 DEF Spin, Return, Reading, StillReading, Configured, Reads,
     Finished, Restarted, Commanded, Within32, Quiet, Halted, Stopping, Stopped, Running
<1> QED
  BY <1>1, <1>3, <1>4, <1>8, StepAtPort DEF Spin, Reading, StillReading

\* The loop of Read sees whether the command is done.
LEMMA PollCIKeeps == DriverInv /\ PollCI => DriverInv'
<1> SUFFICES ASSUME DriverInv, PollCI PROVE DriverInv'
  OBVIOUS
<1>1. pc \in AtPort /\ pc' \in AtPort
  BY DEF PollCI, Return, AtPort, Running
<1>2. cur \in Port /\ hba[cur] \in HbaPort /\ Configured(cur) /\ Reads(cur)
  BY <1>1, AtHand
<1>3. /\ result' \in [Port -> {"none", "0", "1"}]
      /\ \A q \in Port : q # cur => result'[q] = result[q]
  BY <1>2, ReturnEffect DEF PollCI, DriverInv, TypeOK
<1>4. TypeOK'
  BY <1>3, SpinLimitAssumption DEF PollCI, Return, Reading, StillReading, DriverInv, TypeOK
<1>5. cur' = cur
  BY DEF PollCI, Reading, StillReading, cur
<1>6. pc' = "print" => result'[cur] # "none" /\ (result'[cur] = "1" => pc = "CI" /\ ~ hba[cur].ci)
  BY <1>2, ReturnEffect DEF PollCI, DriverInv, TypeOK
<1>7. pc' # "print" => UNCHANGED result
  BY DEF PollCI, Return
<1>8. Configured(cur)' /\ Reads(cur)'
  BY <1>2, <1>5, <1>6, <1>7 DEF PollCI, Return, Reading, StillReading, Configured, Reads,
     Finished, Restarted, Commanded, Within32, Quiet, Halted, Stopping, Stopped, Running
<1> QED
  BY <1>1, <1>3, <1>4, <1>8, StepAtPort DEF PollCI, Reading, StillReading

\* The loop of Read sees whether the command has failed.
LEMMA PollTFESKeeps == DriverInv /\ PollTFES => DriverInv'
<1> SUFFICES ASSUME DriverInv, PollTFES PROVE DriverInv'
  OBVIOUS
<1>1. pc \in AtPort /\ pc' \in AtPort
  BY DEF PollTFES, Return, AtPort, Running
<1>2. cur \in Port /\ hba[cur] \in HbaPort /\ Configured(cur) /\ Reads(cur)
  BY <1>1, AtHand
<1>3. /\ result' \in [Port -> {"none", "0", "1"}]
      /\ \A q \in Port : q # cur => result'[q] = result[q]
  BY <1>2, ReturnEffect DEF PollTFES, DriverInv, TypeOK
<1>4. TypeOK'
  BY <1>3, SpinLimitAssumption DEF PollTFES, Return, Reading, StillReading, DriverInv, TypeOK
<1>5. cur' = cur
  BY DEF PollTFES, Reading, StillReading, cur
<1>6. pc' = "print" => result'[cur] # "none" /\ (result'[cur] = "1" => pc = "CI" /\ ~ hba[cur].ci)
  BY <1>2, ReturnEffect DEF PollTFES, DriverInv, TypeOK
<1>7. pc' # "print" => UNCHANGED result
  BY DEF PollTFES, Return
<1>8. Configured(cur)' /\ Reads(cur)'
  BY <1>2, <1>5, <1>6, <1>7 DEF PollTFES, Return, Reading, StillReading, Configured, Reads,
     Finished, Restarted, Commanded, Within32, Quiet, Halted, Stopping, Stopped, Running
<1> QED
  BY <1>1, <1>3, <1>4, <1>8, StepAtPort DEF PollTFES, Reading, StillReading

\* The index and the count are bytes, and so is the length of the array.
LEMMA Numbers ==
    ASSUME DriverInv
    PROVE  /\ i \in 0 .. 255 /\ i \in Int
           /\ driver.portCount \in 0 .. 255 /\ driver.portCount \in Int
           /\ MaxPorts \in Int /\ MaxPorts <= 255 /\ Ports \in Int /\ Ports <= MaxPorts
           /\ driver.ports \in [Entry -> Port \cup {None}]
<1>1. TypeOK
  BY DEF DriverInv
<1>2. i \in 0 .. 255
  BY <1>1 DEF TypeOK
<1>3. driver \in [ports : [Entry -> Port \cup {None}], portCount : 0 .. 255]
  BY <1>1 DEF TypeOK, Entry
<1> QED
  BY <1>2, <1>3, PortsAssumption

\* AHCIDriver_Init prints the buffer and goes on to the next entry.
LEMMA PrintBufferKeeps == DriverInv /\ PrintBuffer => DriverInv'
<1> SUFFICES ASSUME DriverInv, PrintBuffer PROVE DriverInv'
  OBVIOUS
<1>1. pc \in AtPort /\ pc' = "loop" /\ pc' \notin AtPort /\ pc = "print"
  BY DEF PrintBuffer, AtPort, Running, Stopping, Stopped
<1>2. cur \in Port /\ i \in Entry /\ i < driver.portCount /\ Finished(cur)
  BY <1>1, AtHand DEF Reads, Running
<1>3. TypeOK'
  BY <1>2, PortsAssumption DEF PrintBuffer, Entry, DriverInv, TypeOK
<1>4. /\ \A p \in Port : Untouched(p) => Untouched(p)'
      /\ \A p \in Port : Finished(p) => Finished(p)'
  BY DEF PrintBuffer, Untouched, Finished, Restarted, Quiet, Halted
<1>5. Probed'
  BY <1>1 DEF PrintBuffer, DriverInv, Probed
<1>6. Position'
  <2>1. i' <= driver'.portCount /\ i' = i + 1 /\ UNCHANGED driver
    BY <1>2, Numbers DEF PrintBuffer
  <2>2. ASSUME NEW j \in Entry, driver.ports[j] # None, j >= i + 1
        PROVE  Untouched(driver.ports[j])'
    <3>1. driver.ports[j] \in Port /\ j > i
      BY <2>2, Numbers DEF Entry
    <3>2. Untouched(driver.ports[j])
      BY <1>1, <2>2, <3>1 DEF DriverInv, Position
    <3> QED
      BY <3>1, <3>2, <1>4, <2>1
  <2> QED
    BY <1>1, <2>1, <2>2 DEF Position
<1>7. PortStates'
  BY <1>1, <1>2, <1>4 DEF DriverInv, PortStates
<1>8. Astray'
  BY <1>1 DEF Astray
<1> QED
  BY <1>3, <1>5, <1>6, <1>7, <1>8 DEF DriverInv

\* The loop of AHCIDriver_Init takes the next entry; with a clean count it is
\* never a wild one.
LEMMA NextPortKeeps == DriverInv /\ NextPort => DriverInv'
<1> SUFFICES ASSUME DriverInv, NextPort PROVE DriverInv'
  OBVIOUS
<1>1. pc = "loop" /\ pc \notin AtPort /\ pc' \in {"done", "wild", "ClearST"}
  BY DEF NextPort, AtPort, Running, Stopping, Stopped
<1>2. UNCHANGED <<i, driver, spin, kind, hba, table, buffer, result, heap, area, dirty>>
  BY DEF NextPort
<1>3. TypeOK'
  BY <1>1, <1>2 DEF DriverInv, TypeOK
<1>4. \A p \in Port : /\ Untouched(p)' = Untouched(p)
                      /\ Finished(p) => Finished(p)'
  BY <1>2 DEF Untouched, Finished, Restarted, Quiet, Halted
<1>5. \A p \in Port : Untouched(p) \/ Finished(p)
  BY <1>1 DEF DriverInv, PortStates
<1>6. i \in 0 .. 255 /\ driver.portCount \in 0 .. 255 /\ MaxPorts \in 0 .. 255
  BY PortsAssumption DEF DriverInv, TypeOK
<1>7. CASE pc' = "ClearST"
  <2>1. i < driver.portCount /\ i < MaxPorts /\ cur # None
    BY <1>1, <1>7, Numbers DEF NextPort
  <2>2. i \in Entry /\ cur \in Port /\ cur' = cur /\ pc' \in AtPort /\ pc' \notin {"probe", "loop", "wild"}
    BY <2>1, <1>2, <1>6, <1>7 DEF Entry, cur, DriverInv, TypeOK, AtPort
  <2>3. Untouched(cur) /\ kind[cur] \in {"SATA", "SATAPI"}
    <3>1. i \in Entry /\ i >= i /\ driver.ports[i] # None
      BY <2>1, <2>2, <1>6 DEF cur
    <3>2. Untouched(driver.ports[i])
      BY <1>1, <3>1 DEF DriverInv, Position
    <3>3. kind[driver.ports[i]] \in {"SATA", "SATAPI"}
      BY <3>1 DEF DriverInv, Probed
    <3> QED
      BY <3>2, <3>3 DEF cur
  <2>4. Probed'
    BY <1>2, <2>2 DEF DriverInv, Probed
  <2>5. Position'
    <3>1. ASSUME NEW j \in Entry, driver.ports[j] # None, j > i
          PROVE  Untouched(driver.ports[j])'
      <4>1. driver.ports[j] \in Port /\ j >= i
        BY <3>1, Numbers DEF Entry
      <4>2. Untouched(driver.ports[j])
        BY <4>1, <3>1, <1>1 DEF DriverInv, Position
      <4> QED
        BY <4>1, <4>2, <1>4, <1>2
    <3> QED
      BY <3>1, <1>2, <2>1, <2>2 DEF Position
  <2>6. Configured(cur)' /\ Reads(cur)'
    BY <1>7, <2>2, <2>3, <1>4 DEF Configured, Reads, Running, Stopping, Stopped
  <2>7. PortStates'
    BY <1>2, <1>4, <1>5, <2>2, <2>3, <2>6 DEF PortStates
  <2>8. Astray'
    BY <1>7 DEF Astray
  <2> QED
    BY <1>3, <2>4, <2>5, <2>7, <2>8 DEF DriverInv
<1>8. CASE pc' \in {"done", "wild"}
  <2>1. pc' \notin AtPort /\ pc' \notin {"probe", "loop"}
    BY <1>8 DEF AtPort, Running, Stopping, Stopped
  <2>2. ~ dirty => pc' # "wild"
    <3> SUFFICES ASSUME ~ dirty, pc' = "wild" PROVE FALSE
      OBVIOUS
    <3>1. ~ (i >= driver.portCount)
      BY <1>1 DEF NextPort
    <3>2. i >= MaxPorts \/ cur = None
      BY <1>1, <3>1 DEF NextPort
    <3>3. driver.portCount <= Ports /\ \A j \in 0 .. (driver.portCount - 1) : driver.ports[j] # None
      BY DEF DriverInv, Probed
    <3> QED
      BY <3>1, <3>2, <3>3, Numbers DEF cur
  <2>3. Probed' /\ Astray'
    BY <1>2, <2>1, <2>2 DEF DriverInv, Probed, Astray
  <2>4. Position' /\ PortStates'
    BY <2>1, <1>2, <1>4, <1>5 DEF Position, PortStates
  <2> QED
    BY <1>3, <2>3, <2>4 DEF DriverInv
<1> QED
  BY <1>1, <1>7, <1>8

\* ProbePorts writes each disk to an entry of its own, from the count that it
\* found in the memory; a clean count stays within the ports it has seen.
LEMMA ProbePortsKeeps == DriverInv /\ ProbePorts => DriverInv'
<1> SUFFICES ASSUME DriverInv, ProbePorts PROVE DriverInv'
  OBVIOUS
<1>1. pc = "probe" /\ UNCHANGED <<spin, kind, hba, table, buffer, result, area, dirty>>
  BY DEF ProbePorts
<1>2. /\ i \in 0 .. Ports /\ Ports \in 0 .. MaxPorts /\ MaxPorts \in 0 .. 255
      /\ driver \in [ports : [Entry -> Port \cup {None}], portCount : 0 .. 255]
      /\ \A p \in Port : Untouched(p)'
  BY <1>1, PortsAssumption DEF DriverInv, TypeOK, Position, Entry, Untouched, Quiet
<1>3. \A j \in Entry : driver.ports[j] # None =>
        /\ kind[driver.ports[j]] \in {"SATA", "SATAPI"}
        /\ \A k \in Entry : driver.ports[k] = driver.ports[j] => k = j
        /\ driver.ports[j] < i /\ j < driver.portCount
  BY <1>1 DEF DriverInv, Probed
<1>4. ~ dirty =>
        /\ driver.portCount <= i
        /\ \A j \in 0 .. (driver.portCount - 1) : driver.ports[j] # None
  BY <1>1 DEF DriverInv, Probed
<1>5. CASE pc' = "loop" /\ i' = 0 /\ UNCHANGED <<driver, heap>>
  <2>1. TypeOK'
    BY <1>1, <1>5 DEF DriverInv, TypeOK
  <2>2. Probed' /\ Astray'
    BY <1>1, <1>2, <1>3, <1>4, <1>5 DEF DriverInv, Probed, Astray
  <2>3. Position' /\ PortStates'
    BY <1>2, <1>5 DEF Position, PortStates, AtPort, Stopping, Stopped, Running
  <2> QED
    BY <2>1, <2>2, <2>3 DEF DriverInv
<1>6. CASE i < Ports /\ i' = i + 1 /\ UNCHANGED <<pc, driver, heap>>
  <2>1. TypeOK'
    <3>1. i' \in 0 .. 255
      BY <1>2, <1>6
    <3> QED
      BY <1>1, <1>6, <3>1 DEF DriverInv, TypeOK
  <2>2. Probed' /\ Astray'
    BY <1>1, <1>2, <1>3, <1>4, <1>6 DEF DriverInv, Probed, Astray, Port
  <2>3. Position' /\ PortStates'
    BY <1>1, <1>2, <1>6 DEF Position, PortStates, AtPort, Stopping, Stopped, Running
  <2> QED
    BY <2>1, <2>2, <2>3 DEF DriverInv
<1>7. CASE /\ i < Ports /\ kind[i] \in {"SATA", "SATAPI"}
           /\ driver.portCount >= MaxPorts /\ pc' = "wild" /\ UNCHANGED <<driver, i, heap>>
  <2>1. TypeOK'
    BY <1>1, <1>7 DEF DriverInv, TypeOK
  <2>2. dirty
    BY <1>2, <1>4, <1>7
  <2>3. Probed' /\ Astray'
    BY <1>1, <1>3, <1>7, <2>2 DEF Probed, Astray
  <2>4. Position' /\ PortStates'
    BY <1>2, <1>7 DEF Position, PortStates, AtPort, Stopping, Stopped, Running
  <2> QED
    BY <2>1, <2>3, <2>4 DEF DriverInv
<1>8. CASE /\ i < Ports /\ kind[i] \in {"SATA", "SATAPI"}
           /\ driver.portCount < MaxPorts /\ Attach
  <2> DEFINE n == driver.portCount
  <2>1. i \in Port /\ i # None /\ n \in Entry /\ (n + 1) % 256 = n + 1
    <3>1. i \in 0 .. (Ports - 1) /\ n \in 0 .. (MaxPorts - 1)
      BY <1>2, <1>8
    <3>2. n + 1 \in 0 .. 255
      BY <3>1, <1>2
    <3>3. (n + 1) % 256 = n + 1
      <4> HIDE DEF n
      <4> QED
        BY <3>2
    <3> QED
      BY <3>1, <3>3, NoneAssumption DEF Port, Entry
  <2>2. /\ driver' = [ports |-> [driver.ports EXCEPT ![n] = i], portCount |-> (n + 1) % 256]
        /\ i' = i + 1 /\ pc' = "probe" /\ heap' = heap + 48
    BY <1>1, <1>8 DEF Attach, Block
  <2>3. /\ driver' \in [ports : [Entry -> Port \cup {None}], portCount : 0 .. 255]
        /\ driver'.portCount = n + 1
        /\ driver'.ports[n] = i
        /\ \A j \in Entry : j # n => driver'.ports[j] = driver.ports[j]
    <3>1. n + 1 \in 0 .. 255 /\ driver.ports \in [Entry -> Port \cup {None}]
      BY <1>2, <1>8
    <3>2. [driver.ports EXCEPT ![n] = i] \in [Entry -> Port \cup {None}]
      BY <2>1, <3>1
    <3> HIDE DEF n
    <3> QED
      BY <2>1, <2>2, <3>1, <3>2
  <2>4. TypeOK'
    BY <1>1, <1>2, <1>8, <2>2, <2>3 DEF DriverInv, TypeOK, Entry
  <2>5. ASSUME NEW j \in Entry, driver'.ports[j] # None
        PROVE  /\ kind[driver'.ports[j]] \in {"SATA", "SATAPI"}
               /\ \A k \in Entry : driver'.ports[k] = driver'.ports[j] => k = j
               /\ driver'.ports[j] < i + 1 /\ j < n + 1
    <3>1. \A k \in Entry : k # n /\ driver.ports[k] # None => driver.ports[k] < i /\ driver.ports[k] # i
      BY <1>3, <1>2, <2>1 DEF Port
    <3>2. CASE j = n
      BY <3>1, <3>2, <2>1, <2>3, <1>2, <1>8
    <3>3. CASE j # n
      <4>1. driver'.ports[j] = driver.ports[j] /\ driver.ports[j] # None
        BY <3>3, <2>3, <2>5
      <4>2. /\ kind[driver.ports[j]] \in {"SATA", "SATAPI"}
            /\ driver.ports[j] < i /\ driver.ports[j] # i /\ j < n
        BY <4>1, <3>1, <3>3, <1>3
      <4>3. \A k \in Entry : driver'.ports[k] = driver.ports[j] => k = j
        BY <4>1, <4>2, <2>1, <2>3, <1>3
      <4>4. driver.ports[j] \in 0 .. (Ports - 1) /\ i \in Nat
        BY <4>1, <1>2 DEF Port
      <4> QED
        BY <4>1, <4>2, <4>3, <4>4, <2>1 DEF Entry
    <3> QED
      BY <3>2, <3>3
  <2>6. ~ dirty =>
          /\ n + 1 <= i + 1 /\ n + 1 <= Ports
          /\ \A j \in 0 .. n : driver'.ports[j] # None
    <3> SUFFICES ASSUME ~ dirty
                 PROVE  /\ n + 1 <= i + 1 /\ n + 1 <= Ports
                        /\ \A j \in 0 .. n : driver'.ports[j] # None
      OBVIOUS
    <3>1. n <= i /\ n + 1 <= Ports
      BY <1>2, <1>4, <1>8
    <3>2. ASSUME NEW j \in 0 .. n PROVE driver'.ports[j] # None
      <4>1. CASE j = n
        BY <4>1, <2>1, <2>3
      <4>2. CASE j # n
        <5>1. n \in 0 .. 255 /\ MaxPorts \in 0 .. 255 /\ n < MaxPorts
          BY <1>2, <1>8
        <5>2. j \in Entry /\ j \in 0 .. (n - 1)
          <6> HIDE DEF n
          <6> QED
            BY <5>1, <4>2, <3>2 DEF Entry
        <5> QED
          BY <5>2, <4>2, <1>4, <2>3
      <4> QED
        BY <4>1, <4>2
    <3> QED
      BY <3>1, <3>2, <1>2
  <2>7. Probed'
    <3>1. /\ dirty' = dirty /\ kind' = kind /\ i' = i + 1 /\ pc' = "probe"
          /\ driver'.portCount = n + 1 /\ n \in 0 .. 255
      BY <1>1, <1>2, <2>2, <2>3
    <3> HIDE DEF n
    <3>2. 0 .. (driver'.portCount - 1) = 0 .. n
      BY <3>1
    <3> QED
      BY <3>1, <3>2, <2>5, <2>6 DEF Probed
  <2>8. Position' /\ PortStates'
    BY <1>2, <1>8, <2>2 DEF Position, PortStates, AtPort, Stopping, Stopped, Running
  <2>9. Astray'
    BY <2>2 DEF Astray
  <2> QED
    BY <2>4, <2>7, <2>8, <2>9 DEF DriverInv
<1>9. i = Ports \/ (i < Ports /\ i # Ports)
  BY <1>2
<1>10. CASE i = Ports
  BY <1>5, <1>10, Numbers DEF ProbePorts
<1>11. CASE i < Ports /\ i # Ports
  <2>1. CASE kind[i] \in {"SATA", "SATAPI"}
    <3>1. Attach
      BY <2>1, <1>11 DEF ProbePorts
    <3>2. driver.portCount < MaxPorts \/ driver.portCount >= MaxPorts
      BY Numbers
    <3> QED
      BY <3>1, <3>2, <2>1, <1>7, <1>8, <1>11, Numbers DEF Attach
  <2>2. CASE kind[i] \notin {"SATA", "SATAPI"}
    BY <2>2, <1>6, <1>11 DEF ProbePorts
  <2> QED
    BY <2>1, <2>2
<1> QED
  BY <1>9, <1>10, <1>11

-----------------------------------------------------------------------------
(* The adapter and the devices.                                             *)

\* A step of the adapter keeps the invariant if the port it is about stays
\* untouched or finished, or still fits the statement the driver is at.
LEMMA AdapterStep ==
    ASSUME DriverInv, NEW p \in Port, NEW h \in HbaPort, Set(p, h), Adapter,
           buffer' \in [Port -> {"none", "zero", "part", "sector"}],
           \A q \in Port : q # p => buffer'[q] = buffer[q],
           Untouched(p) => Untouched(p)',
           Finished(p) => Finished(p)',
           Abandoned(p) => Abandoned(p)',
           Configured(p) /\ Reads(p) => Configured(p)' /\ Reads(p)'
    PROVE  DriverInv'
<1>1. /\ hba' \in [Port -> HbaPort]
      /\ \A q \in Port : q # p => hba'[q] = hba[q]
  BY SetEffect DEF DriverInv, TypeOK
<1>2. UNCHANGED <<pc, i, driver, spin, kind, table, result, heap, area, dirty>>
  BY DEF Adapter
<1>3. TypeOK'
  BY <1>1, <1>2 DEF DriverInv, TypeOK
<1>4. \A q \in Port :
        /\ Untouched(q) => Untouched(q)'
        /\ Finished(q) => Finished(q)'
        /\ Abandoned(q) => Abandoned(q)'
        /\ Configured(q) /\ Reads(q) => Configured(q)' /\ Reads(q)'
  <2> SUFFICES ASSUME NEW q \in Port, q # p
               PROVE  /\ Untouched(q) => Untouched(q)'
                      /\ Finished(q) => Finished(q)'
                      /\ Abandoned(q) => Abandoned(q)'
                      /\ Configured(q) /\ Reads(q) => Configured(q)' /\ Reads(q)'
    OBVIOUS
  <2>1. hba'[q] = hba[q] /\ buffer'[q] = buffer[q]
    BY <1>1
  <2> QED
    BY <1>2, <2>1 DEF Untouched, Finished, Abandoned, Restarted, Configured, Reads, Commanded,
       Within32, Quiet, Halted
<1>5. Probed' /\ Astray'
  BY <1>2 DEF DriverInv, Probed, Astray, Within32
<1>6. cur' = cur
  BY <1>2 DEF cur
<1>7. Position'
  <2>1. ASSUME NEW j \in Entry, driver.ports[j] # None
        PROVE  driver.ports[j] \in Port
    BY <2>1, Numbers
  <2> QED
    BY <1>2, <1>4, <1>6, <2>1 DEF DriverInv, Position
<1>8. PortStates'
  BY <1>2, <1>4, <1>6 DEF DriverInv, PortStates
<1> QED
  BY <1>3, <1>5, <1>7, <1>8 DEF DriverInv

\* The command engine follows ST: it starts or stops between commands.
LEMMA EngineFollowsKeeps ==
    ASSUME DriverInv, NEW p \in Port, EngineFollows(p)
    PROVE  DriverInv'
<1> DEFINE h == [hba[p] EXCEPT !.cr = hba[p].st, !.command = "none",
                              !.busy = @ /\ hba[p].command = "none"]
<1>1. hba[p] \in HbaPort /\ buffer[p] \in {"none", "zero", "part", "sector"}
  BY DEF DriverInv, TypeOK
<1>2. h \in HbaPort
      /\ h.cr = hba[p].st
      /\ h.command = "none"
      /\ h.busy = (hba[p].busy /\ hba[p].command = "none")
      /\ h.st = hba[p].st
      /\ h.fre = hba[p].fre
      /\ h.fr = hba[p].fr
      /\ h.clb = hba[p].clb
      /\ h.fb = hba[p].fb
      /\ h.tfes = hba[p].tfes
      /\ h.ci = hba[p].ci
  <2>1. h \in HbaPort
    BY <1>1 DEF HbaPort
  <2>2. /\ h.cr = hba[p].st /\ h.command = "none"
        /\ h.busy = (hba[p].busy /\ hba[p].command = "none")
    BY <1>1 DEF HbaPort
  <2>3. /\ h.st = hba[p].st /\ h.fre = hba[p].fre /\ h.fr = hba[p].fr
        /\ h.clb = hba[p].clb /\ h.fb = hba[p].fb /\ h.tfes = hba[p].tfes /\ h.ci = hba[p].ci
    BY <1>1 DEF HbaPort
  <2> HIDE DEF h
  <2> QED
    BY <2>1, <2>2, <2>3
<1>3. Set(p, h) /\ Adapter /\ hba[p].cr # hba[p].st
  BY DEF EngineFollows
<1> HIDE DEF h
<1>4. hba'[p] = h
  BY <1>2, <1>3, SetEffect DEF DriverInv, TypeOK
<1>5. /\ buffer' \in [Port -> {"none", "zero", "part", "sector"}]
      /\ \A q \in Port : q # p => buffer'[q] = buffer[q]
      /\ buffer'[p] = buffer[p]
  BY DEF EngineFollows, DriverInv, TypeOK
<1>6. Untouched(p) => Untouched(p)'
  BY <1>2, <1>3, <1>4, <1>5 DEF Adapter, Untouched, Quiet
<1>7. Finished(p) => Finished(p)'
  BY <1>2, <1>3, <1>4, <1>5 DEF Adapter, Finished, Restarted, Quiet, Halted
<1>8. Configured(p) /\ Reads(p) => Configured(p)' /\ Reads(p)'
  BY <1>2, <1>3, <1>4, <1>5, <1>6, <1>7 DEF Adapter, Configured, Reads, Restarted,
     Commanded, Within32, Quiet, Halted, Stopping, Stopped, Running
<1>9. Abandoned(p) => Abandoned(p)'
  BY <1>2, <1>3, <1>4, <1>5 DEF Adapter, Abandoned, Quiet
<1> QED
  BY <1>2, <1>3, <1>5, <1>6, <1>7, <1>8, <1>9, AdapterStep

\* The receive engine follows FRE.
LEMMA ReceiveFollowsKeeps ==
    ASSUME DriverInv, NEW p \in Port, ReceiveFollows(p)
    PROVE  DriverInv'
<1> DEFINE h == [hba[p] EXCEPT !.fr = hba[p].fre]
<1>1. hba[p] \in HbaPort /\ buffer[p] \in {"none", "zero", "part", "sector"}
  BY DEF DriverInv, TypeOK
<1>2. h \in HbaPort
      /\ h.fr = hba[p].fre
      /\ h.st = hba[p].st
      /\ h.fre = hba[p].fre
      /\ h.cr = hba[p].cr
      /\ h.clb = hba[p].clb
      /\ h.fb = hba[p].fb
      /\ h.busy = hba[p].busy
      /\ h.tfes = hba[p].tfes
      /\ h.ci = hba[p].ci
      /\ h.command = hba[p].command
  BY <1>1 DEF ReceiveFollows, HbaPort
<1>3. Set(p, h) /\ Adapter /\ hba[p].fr # hba[p].fre
  BY DEF ReceiveFollows
<1> HIDE DEF h
<1>4. hba'[p] = h
  BY <1>2, <1>3, SetEffect DEF DriverInv, TypeOK
<1>5. /\ buffer' \in [Port -> {"none", "zero", "part", "sector"}]
      /\ \A q \in Port : q # p => buffer'[q] = buffer[q]
      /\ buffer'[p] = buffer[p]
  BY DEF ReceiveFollows, DriverInv, TypeOK
<1>6. Untouched(p) => Untouched(p)'
  BY <1>2, <1>3, <1>4, <1>5 DEF Adapter, Untouched, Quiet
<1>7. Finished(p) => Finished(p)'
  BY <1>2, <1>3, <1>4, <1>5 DEF Adapter, Finished, Restarted, Quiet, Halted
<1>8. Configured(p) /\ Reads(p) => Configured(p)' /\ Reads(p)'
  BY <1>2, <1>3, <1>4, <1>5, <1>6, <1>7 DEF Adapter, Configured, Reads, Restarted,
     Commanded, Within32, Quiet, Halted, Stopping, Stopped, Running
<1>9. Abandoned(p) => Abandoned(p)'
  BY <1>2, <1>3, <1>4, <1>5 DEF Adapter, Abandoned, Quiet
<1> QED
  BY <1>2, <1>3, <1>5, <1>6, <1>7, <1>8, <1>9, AdapterStep

\* A device becomes ready.
LEMMA DeviceReadyKeeps ==
    ASSUME DriverInv, NEW p \in Port, DeviceReady(p)
    PROVE  DriverInv'
<1> DEFINE h == [hba[p] EXCEPT !.busy = FALSE]
<1>1. hba[p] \in HbaPort /\ buffer[p] \in {"none", "zero", "part", "sector"}
  BY DEF DriverInv, TypeOK
<1>2. h \in HbaPort
      /\ h.busy = FALSE
      /\ h.st = hba[p].st
      /\ h.fre = hba[p].fre
      /\ h.fr = hba[p].fr
      /\ h.cr = hba[p].cr
      /\ h.clb = hba[p].clb
      /\ h.fb = hba[p].fb
      /\ h.tfes = hba[p].tfes
      /\ h.ci = hba[p].ci
      /\ h.command = hba[p].command
  BY <1>1 DEF DeviceReady, HbaPort
<1>3. Set(p, h) /\ Adapter /\ hba[p].busy
  BY DEF DeviceReady
<1> HIDE DEF h
<1>4. hba'[p] = h
  BY <1>2, <1>3, SetEffect DEF DriverInv, TypeOK
<1>5. /\ buffer' \in [Port -> {"none", "zero", "part", "sector"}]
      /\ \A q \in Port : q # p => buffer'[q] = buffer[q]
      /\ buffer'[p] = buffer[p]
  BY DEF DeviceReady, DriverInv, TypeOK
<1>6. Untouched(p) => Untouched(p)'
  BY <1>2, <1>3, <1>4, <1>5 DEF Adapter, Untouched, Quiet
<1>7. Finished(p) => Finished(p)'
  BY <1>2, <1>3, <1>4, <1>5 DEF Adapter, Finished, Restarted, Quiet, Halted
<1>8. Configured(p) /\ Reads(p) => Configured(p)' /\ Reads(p)'
  BY <1>2, <1>3, <1>4, <1>5, <1>6, <1>7 DEF Adapter, Configured, Reads, Restarted,
     Commanded, Within32, Quiet, Halted, Stopping, Stopped, Running
<1>9. Abandoned(p) => Abandoned(p)'
  BY <1>2, <1>3, <1>4, <1>5 DEF Adapter, Abandoned, Quiet
<1> QED
  BY <1>2, <1>3, <1>5, <1>6, <1>7, <1>8, <1>9, AdapterStep

\* The engine fetches what has been issued: by then the table holds the read,
\* or the header points to another.
LEMMA FetchKeeps ==
    ASSUME DriverInv, NEW p \in Port, Fetch(p)
    PROVE  DriverInv'
<1> DEFINE h == [hba[p] EXCEPT !.busy = TRUE,
                   !.command = IF hba[p].clb = "driver" THEN table[p] ELSE "junk"]
<1>1. hba[p] \in HbaPort /\ buffer[p] \in {"none", "zero", "part", "sector"}
  BY DEF DriverInv, TypeOK
<1>0. table[p] \in {"junk", "read"}
  BY DEF DriverInv, TypeOK
<1>2. h \in HbaPort
      /\ h.command = (IF hba[p].clb = "driver" THEN table[p] ELSE "junk")
      /\ h.st = hba[p].st
      /\ h.fre = hba[p].fre
      /\ h.fr = hba[p].fr
      /\ h.cr = hba[p].cr
      /\ h.clb = hba[p].clb
      /\ h.fb = hba[p].fb
      /\ h.tfes = hba[p].tfes
      /\ h.ci = hba[p].ci
  BY <1>1, <1>0 DEF Fetch, HbaPort
<1>3. Set(p, h) /\ Adapter /\ hba[p].cr /\ hba[p].ci /\ hba[p].command = "none"
  BY DEF Fetch
<1> HIDE DEF h
<1>4. hba'[p] = h
  BY <1>2, <1>3, SetEffect DEF DriverInv, TypeOK
<1>5. /\ buffer' \in [Port -> {"none", "zero", "part", "sector"}]
      /\ \A q \in Port : q # p => buffer'[q] = buffer[q]
      /\ buffer'[p] = buffer[p]
  BY DEF Fetch, DriverInv, TypeOK
<1>6. Untouched(p) => Untouched(p)'
  BY <1>2, <1>3, <1>4, <1>5 DEF Adapter, Untouched, Quiet
<1>7. Finished(p) => Finished(p)'
  BY <1>2, <1>3, <1>4, <1>5 DEF Adapter, Finished, Restarted, Quiet, Halted
<1>8. Configured(p) /\ Reads(p) => Configured(p)' /\ Reads(p)'
  <2> SUFFICES ASSUME Configured(p), Reads(p) PROVE Configured(p)' /\ Reads(p)'
    OBVIOUS
  <2>1. Configured(p)'
    BY <1>2, <1>3, <1>4, <1>6 DEF Adapter, Configured, Quiet
  <2>2. pc \in Running => pc \in {"CI", "TFES"}
    BY <1>3, <1>7 DEF Reads, Running, Finished, Quiet, Halted
  <2>3. pc \in {"CI", "TFES"} => Restarted(p) /\ (table[p] = "read" \/ ~ Within32(p))
                                /\ Commanded(p) /\ result[p] = "none"
    BY DEF Reads, Running
  <2>4. Commanded(p) => ~ hba[p].tfes
    BY <1>3 DEF Commanded, Quiet, Halted
  <2>5. ASSUME pc \in {"CI", "TFES"}
        PROVE  \/ h.command = "read"
               \/ h.command = "junk" /\ ~ Within32(p)
    BY <1>0, <1>2, <2>3, <2>5 DEF Restarted
  <2>6. pc \in {"CI", "TFES"} => Restarted(p)' /\ Commanded(p)'
    BY <1>2, <1>3, <1>4, <2>3, <2>4, <2>5 DEF Adapter, Restarted, Commanded, Within32
  <2> QED
    BY <1>3, <2>1, <2>2, <2>3, <2>6 DEF Adapter, Reads, Within32
<1>9. Abandoned(p) => Abandoned(p)'
  BY <1>2, <1>3, <1>4, <1>5 DEF Adapter, Abandoned, Quiet
<1> QED
  BY <1>2, <1>3, <1>5, <1>6, <1>7, <1>8, <1>9, AdapterStep

\* The device finishes the read: the sector is in the buffer.
LEMMA CompleteKeeps ==
    ASSUME DriverInv, NEW p \in Port, Complete(p)
    PROVE  DriverInv'
<1> DEFINE h == [hba[p] EXCEPT !.command = "none", !.busy = FALSE, !.ci = FALSE]
<1>1. hba[p] \in HbaPort /\ buffer[p] \in {"none", "zero", "part", "sector"}
  BY DEF DriverInv, TypeOK
<1>2. h \in HbaPort
      /\ h.command = "none"
      /\ h.busy = FALSE
      /\ h.ci = FALSE
      /\ h.st = hba[p].st
      /\ h.fre = hba[p].fre
      /\ h.fr = hba[p].fr
      /\ h.cr = hba[p].cr
      /\ h.clb = hba[p].clb
      /\ h.fb = hba[p].fb
      /\ h.tfes = hba[p].tfes
  BY <1>1 DEF Complete, HbaPort
<1>3. Set(p, h) /\ Adapter /\ hba[p].command = "read"
  BY DEF Complete
<1> HIDE DEF h
<1>4. hba'[p] = h
  BY <1>2, <1>3, SetEffect DEF DriverInv, TypeOK
<1>5. /\ buffer' \in [Port -> {"none", "zero", "part", "sector"}]
      /\ \A q \in Port : q # p => buffer'[q] = buffer[q]
      /\ buffer'[p] = "sector"
  BY DEF Complete, DriverInv, TypeOK
<1>6. Untouched(p) => Untouched(p)'
  BY <1>2, <1>3, <1>4, <1>5 DEF Adapter, Untouched, Quiet
<1>7. Finished(p) => Finished(p)'
  BY <1>2, <1>3, <1>4, <1>5 DEF Adapter, Finished, Restarted, Quiet, Halted
<1>8. Configured(p) /\ Reads(p) => Configured(p)' /\ Reads(p)'
  BY <1>2, <1>3, <1>4, <1>5, <1>6, <1>7 DEF Adapter, Configured, Reads, Restarted,
     Commanded, Within32, Quiet, Halted, Stopping, Stopped, Running
<1>9. Abandoned(p) => Abandoned(p)'
  BY <1>2, <1>3, <1>4, <1>5 DEF Adapter, Abandoned, Quiet
<1> QED
  BY <1>2, <1>3, <1>5, <1>6, <1>7, <1>8, <1>9, AdapterStep

\* The device reports an error and the engine halts.
LEMMA FailKeeps ==
    ASSUME DriverInv, NEW p \in Port, Fail(p)
    PROVE  DriverInv'
<1> DEFINE h == [hba[p] EXCEPT !.command = "halted", !.busy = FALSE, !.tfes = TRUE]
<1>1. hba[p] \in HbaPort /\ buffer[p] \in {"none", "zero", "part", "sector"}
  BY DEF DriverInv, TypeOK
<1>2. h \in HbaPort
      /\ h.command = "halted"
      /\ h.busy = FALSE
      /\ h.tfes
      /\ h.st = hba[p].st
      /\ h.fre = hba[p].fre
      /\ h.fr = hba[p].fr
      /\ h.cr = hba[p].cr
      /\ h.clb = hba[p].clb
      /\ h.fb = hba[p].fb
      /\ h.ci = hba[p].ci
  BY <1>1 DEF Fail, HbaPort
<1>3. Set(p, h) /\ Adapter /\ hba[p].command \in {"junk", "read"}
  BY DEF Fail
<1> HIDE DEF h
<1>4. hba'[p] = h
  BY <1>2, <1>3, SetEffect DEF DriverInv, TypeOK
<1>5. /\ buffer' \in [Port -> {"none", "zero", "part", "sector"}]
      /\ \A q \in Port : q # p => buffer'[q] = buffer[q]
  BY DEF Fail, DriverInv, TypeOK
<1>6. Untouched(p) => Untouched(p)'
  BY <1>2, <1>3, <1>4, <1>5 DEF Adapter, Untouched, Quiet
<1>7. Finished(p) => Finished(p)'
  BY <1>2, <1>3, <1>4, <1>5 DEF Adapter, Finished, Restarted, Quiet, Halted
<1>8. Configured(p) /\ Reads(p) => Configured(p)' /\ Reads(p)'
  BY <1>2, <1>3, <1>4, <1>5, <1>6, <1>7 DEF Adapter, Configured, Reads, Restarted,
     Commanded, Within32, Quiet, Halted, Stopping, Stopped, Running
<1>9. Abandoned(p) => Abandoned(p)'
  BY <1>2, <1>3, <1>4, <1>5 DEF Adapter, Abandoned, Quiet
<1> QED
  BY <1>2, <1>3, <1>5, <1>6, <1>7, <1>8, <1>9, AdapterStep

-----------------------------------------------------------------------------
(* The invariant.                                                           *)

\* The firmware leaves every port untouched, whatever the count holds.
LEMMA DriverInvInit == Init => DriverInv
<1> SUFFICES ASSUME Init PROVE DriverInv
  OBVIOUS
<1>1. PICK g \in Garbage :
        /\ driver = [ports |-> [j \in 0 .. (MaxPorts - 1) |-> None], portCount |-> g]
        /\ dirty = (g # 0)
  BY DEF Init
<1>2. g \in 0 .. 255 /\ driver \in [ports : [Entry -> Port \cup {None}], portCount : 0 .. 255]
      /\ driver.portCount = g /\ \A j \in Entry : driver.ports[j] = None
  BY <1>1, GarbageAssumption DEF Entry
<1>3. PICK on, busy, error \in [Port -> BOOLEAN] :
        hba = [p \in Port |->
            [st |-> on[p], fre |-> on[p], fr |-> on[p], cr |-> on[p],
             clb |-> "firmware", fb |-> "firmware", busy |-> busy[p],
             tfes |-> error[p], ci |-> FALSE, command |-> "none"]]
  BY DEF Init
<1>4. hba \in [Port -> HbaPort]
      /\ \A p \in Port : ~ hba[p].ci /\ hba[p].command = "none" /\ hba[p].clb = "firmware"
  BY <1>3 DEF HbaPort
<1>5. TypeOK
  <2>1. heap \in Nat /\ area \in [Port -> [Parts -> Nat]]
    BY BasesAssumption DEF Init
  <2>2. dirty \in BOOLEAN /\ spin \in 0 .. SpinLimit /\ i \in 0 .. 255
    BY <1>1, SpinLimitAssumption DEF Init
  <2>3. /\ table \in [Port -> {"junk", "read"}]
        /\ buffer \in [Port -> {"none", "zero", "part", "sector"}]
        /\ result \in [Port -> {"none", "0", "1"}]
    BY DEF Init
  <2> QED
    BY <1>2, <1>4, <2>1, <2>2, <2>3 DEF Init, TypeOK, Entry
<1>6. \A p \in Port : Untouched(p)
  <2> SUFFICES ASSUME NEW p \in Port PROVE Untouched(p)
    OBVIOUS
  <2>1. area[p][<<"buffer", 0>>] = 0
    BY DEF Init, Parts
  <2>2. result[p] = "none"
    BY DEF Init
  <2> QED
    BY <1>4, <2>1, <2>2 DEF Untouched, Quiet
<1>7. Probed
  <2>1. ~ dirty => g = 0
    BY <1>1
  <2>2. 0 .. (0 - 1) = {}
    OBVIOUS
  <2> QED
    BY <1>2, <2>1, <2>2, PortsAssumption DEF Init, Probed
<1>8. Astray /\ Position /\ PortStates
  BY <1>2, <1>6, PortsAssumption DEF Init, Astray, Position, PortStates, AtPort, Stopping, Stopped, Running
<1> QED
  BY <1>5, <1>7, <1>8 DEF DriverInv

\* Nothing the driver and the adapter do, in any order, breaks it.
LEMMA DriverInvNext == DriverInv /\ [Next]_vars => DriverInv'
<1> SUFFICES ASSUME DriverInv, [Next]_vars PROVE DriverInv'
  OBVIOUS
<1>1. CASE Configure
  BY <1>1, ClearSTKeeps, ClearFREKeeps, WaitFRKeeps, WaitCRKeeps, SetCLBKeeps, SetFBKeeps,
     SetTablesKeeps, WaitStartKeeps, SetFREKeeps, SetSTKeeps DEF Configure
<1>2. CASE Read
  BY <1>2, ClearISKeeps, BuildCommandKeeps, SpinKeeps, IssueKeeps, PollCIKeeps, PollTFESKeeps
  DEF Read
<1>3. CASE ProbePorts \/ NextPort \/ PrintBuffer
  BY <1>3, ProbePortsKeeps, NextPortKeeps, PrintBufferKeeps
<1>4. ASSUME NEW p \in Port, Engine(p) \/ DeviceReady(p) \/ Complete(p) \/ Fail(p)
      PROVE  DriverInv'
  BY <1>4, EngineFollowsKeeps, ReceiveFollowsKeeps, FetchKeeps, DeviceReadyKeeps,
     CompleteKeeps, FailKeeps DEF Engine
<1>5. CASE UNCHANGED vars
  <2>1. /\ TypeOK' /\ Probed' /\ Astray' /\ cur' = cur
    BY <1>5 DEF vars, DriverInv, TypeOK, Probed, Astray, Within32, cur
  <2>2. \A p : /\ Untouched(p)' = Untouched(p) /\ Finished(p)' = Finished(p)
               /\ Configured(p)' = Configured(p) /\ Reads(p)' = Reads(p)
               /\ Abandoned(p)' = Abandoned(p)
    BY <1>5 DEF vars, Untouched, Finished, Abandoned, Restarted, Configured, Reads, Commanded, Within32, Quiet, Halted
  <2>3. Position' /\ PortStates'
    BY <1>5, <2>1, <2>2 DEF vars, DriverInv, Position, PortStates
  <2> QED
    BY <2>1, <2>3 DEF DriverInv
<1> QED
  BY <1>1, <1>2, <1>3, <1>4, <1>5 DEF Next, AHCIDriver_Init

\* DriverInv holds throughout.
LEMMA DriverInvAlways == Spec => []DriverInv
  BY DriverInvInit, DriverInvNext, PTL DEF Spec

-----------------------------------------------------------------------------
(* What follows from it.                                                    *)

\* In each of the four states a port is in.
LEMMA PortFacts ==
    ASSUME DriverInv, NEW p \in Port
    PROVE  /\ hba[p].command = "junk" => ~ Within32(p)
           /\ result[p] = "1" => buffer[p] = "sector"
           /\ hba[p].clb = "driver" => kind[p] \in {"SATA", "SATAPI"}
           /\ result[p] # "none" =>
                hba[p].command \notin {"junk", "read"} /\ ~ (pc = "ClearIS" /\ p = cur)
<1>1. CASE Untouched(p)
  BY <1>1 DEF Untouched, Quiet
<1>2. CASE Finished(p)
  <2>1. hba[p].command \notin {"junk", "read"} /\ kind[p] \in {"SATA", "SATAPI"}
    BY <1>2 DEF Finished, Restarted, Quiet, Halted
  <2>2. pc = "ClearIS" => p # cur
    <3>1. pc = "ClearIS" => Reads(cur) /\ pc \in AtPort /\ pc # "print"
      BY AtHand DEF AtPort, Running
    <3> QED
      BY <3>1, <1>2 DEF Reads, Running, Finished
  <2> QED
    BY <1>2, <2>1, <2>2 DEF Finished
<1>3. CASE pc \in AtPort /\ p = cur /\ ~ Finished(p) /\ ~ Untouched(p)
  <2>1. Configured(p) /\ Reads(p) /\ kind[p] \in {"SATA", "SATAPI"}
    BY <1>3, AtHand
  <2>2. CASE pc \in {"ClearST"} \cup Stopping
    BY <2>1, <2>2, <1>3 DEF Configured, Quiet
  <2>3. CASE pc \in Running
    BY <2>1, <2>3, <1>3 DEF Reads, Running, Quiet, Commanded, Halted
  <2> QED
    BY <1>3, <2>2, <2>3 DEF AtPort
<1>4. CASE pc = "wild" /\ Abandoned(p)
  BY <1>4 DEF Abandoned, Quiet
<1> QED
  BY <1>1, <1>2, <1>3, <1>4 DEF DriverInv, PortStates

\* Every variable has its type, for any number of ports and any count found.
THEOREM TypeCorrect == Spec => []TypeOK
<1>1. DriverInv => TypeOK
  BY DEF DriverInv
<1> QED
  BY <1>1, DriverInvAlways, PTL

\* The device is given the finished read command and nothing else, unless the
\* port's memory lies where the code's 32-bit pointers do not lead.
THEOREM OnlyTheReadIsFetched == Spec => []FetchesTheRead
<1>1. DriverInv => FetchesTheRead
  BY PortFacts DEF FetchesTheRead
<1> QED
  BY <1>1, DriverInvAlways, PTL

\* Read returns 1 only with the sector in the buffer.
THEOREM SuccessIsTheSector == Spec => []SuccessHasTheSector
<1>1. DriverInv => SuccessHasTheSector
  BY PortFacts DEF SuccessHasTheSector
<1> QED
  BY <1>1, DriverInvAlways, PTL

\* Only disks are reconfigured, and with a clean count and the ports' memory
\* below 4 GiB the driver follows no wild pointer.
THEOREM OnlyDisks == Spec => []OnlyDisksTouched
<1>1. DriverInv => OnlyDisksTouched
  <2> SUFFICES ASSUME DriverInv PROVE OnlyDisksTouched
    OBVIOUS
  <2> QED
    BY PortFacts DEF OnlyDisksTouched, DriverInv, Astray
<1> QED
  BY <1>1, DriverInvAlways, PTL

-----------------------------------------------------------------------------
(* What a step may do to a port's registers and its buffer.                 *)

\* Only Configure writes the base registers, only Read issues, and a buffer is
\* written by Read before the command and by the device during it.
LEMMA StepEffect ==
    ASSUME DriverInv, [Next]_vars, NEW p \in Port
    PROVE  /\ hba'[p].clb # hba[p].clb \/ hba'[p].fb # hba[p].fb
                => pc \in {"CLB", "FB"} /\ p = cur
           /\ ~ hba[p].ci /\ hba'[p].ci => pc = "issue" /\ p = cur
           /\ buffer'[p] # buffer[p]
                => (pc = "ClearIS" /\ p = cur) \/ hba[p].command \in {"junk", "read"}
<1> DEFINE Effect ==
        /\ hba'[p].clb # hba[p].clb \/ hba'[p].fb # hba[p].fb
             => pc \in {"CLB", "FB"} /\ p = cur
        /\ ~ hba[p].ci /\ hba'[p].ci => pc = "issue" /\ p = cur
        /\ buffer'[p] # buffer[p]
             => (pc = "ClearIS" /\ p = cur) \/ hba[p].command \in {"junk", "read"}
<1>1. hba \in [Port -> HbaPort] /\ hba[p] \in HbaPort
      /\ buffer \in [Port -> {"none", "zero", "part", "sector"}]
  BY DEF DriverInv, TypeOK
<1>2. CASE UNCHANGED <<hba, buffer>>
  BY <1>2
<1>3. CASE ClearST \/ ClearFRE \/ SetFRE \/ SetST
  <2>1. UNCHANGED buffer
    BY <1>3 DEF ClearST, ClearFRE, SetFRE, SetST, Configuring
  <2>2. /\ hba'[p].clb = hba[p].clb /\ hba'[p].fb = hba[p].fb
        /\ hba'[p].ci => hba[p].ci
    <3>1. CASE ClearST
      BY <1>1, <3>1 DEF ClearST, Set, HbaPort
    <3>2. CASE ClearFRE
      BY <1>1, <3>2 DEF ClearFRE, Set, HbaPort
    <3>3. CASE SetFRE
      BY <1>1, <3>3 DEF SetFRE, Set, HbaPort
    <3>4. CASE SetST
      BY <1>1, <3>4 DEF SetST, Set, HbaPort
    <3> QED
      BY <1>3, <3>1, <3>2, <3>3, <3>4
  <2> QED
    BY <2>1, <2>2
<1>4. CASE SetCLB \/ SetFB
  <2>1. UNCHANGED buffer /\ pc \in {"CLB", "FB"}
    BY <1>4 DEF SetCLB, SetFB, Configuring
  <2>2. hba'[p].ci = hba[p].ci /\ (p # cur => hba'[p] = hba[p])
    BY <1>1, <1>4 DEF SetCLB, SetFB, Set, HbaPort
  <2> QED
    BY <2>1, <2>2
<1>5. CASE ClearIS
  <2>1. pc = "ClearIS" /\ (p # cur => buffer'[p] = buffer[p])
    BY <1>1, <1>5 DEF ClearIS
  <2>2. hba'[p].clb = hba[p].clb /\ hba'[p].fb = hba[p].fb /\ hba'[p].ci = hba[p].ci
    BY <1>1, <1>5 DEF ClearIS, Set, HbaPort
  <2> QED
    BY <2>1, <2>2
<1>6. CASE Issue
  <2>1. UNCHANGED buffer /\ pc = "issue"
    BY <1>6 DEF Issue, Reading
  <2>2. hba'[p].clb = hba[p].clb /\ hba'[p].fb = hba[p].fb /\ (p # cur => hba'[p] = hba[p])
    BY <1>1, <1>6 DEF Issue, Set, HbaPort
  <2> QED
    BY <2>1, <2>2
<1>7. ASSUME NEW q \in Port, Engine(q) \/ DeviceReady(q) \/ Complete(q) \/ Fail(q)
      PROVE  Effect
  <2>1. hba[q] \in HbaPort
    BY <1>1
  <2>2. /\ hba'[q].clb = hba[q].clb /\ hba'[q].fb = hba[q].fb
        /\ hba'[q].ci => hba[q].ci
        /\ p # q => hba'[p] = hba[p]
    <3>1. CASE EngineFollows(q)
      BY <1>1, <2>1, <3>1 DEF EngineFollows, Set, HbaPort
    <3>2. CASE ReceiveFollows(q)
      BY <1>1, <2>1, <3>2 DEF ReceiveFollows, Set, HbaPort
    <3>3. CASE DeviceReady(q)
      BY <1>1, <2>1, <3>3 DEF DeviceReady, Set, HbaPort
    <3>4. CASE Fetch(q)
      <4>1. table[q] \in {"junk", "read"}
        BY DEF DriverInv, TypeOK
      <4> QED
        BY <1>1, <2>1, <3>4, <4>1 DEF Fetch, Set, HbaPort
    <3>5. CASE Complete(q)
      BY <1>1, <2>1, <3>5 DEF Complete, Set, HbaPort
    <3>6. CASE Fail(q)
      BY <1>1, <2>1, <3>6 DEF Fail, Set, HbaPort
    <3> QED
      BY <1>7, <3>1, <3>2, <3>3, <3>4, <3>5, <3>6 DEF Engine
  <2>3. /\ hba'[p].clb = hba[p].clb /\ hba'[p].fb = hba[p].fb
        /\ hba'[p].ci => hba[p].ci
    BY <2>2
  <2>4. buffer'[p] # buffer[p] => p = q /\ hba[q].command \in {"junk", "read"}
    BY <1>1, <1>7 DEF Engine, EngineFollows, ReceiveFollows, DeviceReady, Fetch, Complete, Fail
  <2> QED
    BY <2>3, <2>4
<1>8. CASE \/ ProbePorts \/ NextPort \/ PrintBuffer \/ WaitFR \/ WaitCR \/ SetTables
           \/ WaitStart \/ BuildCommand \/ Spin \/ PollCI \/ PollTFES \/ UNCHANGED vars
  BY <1>2, <1>8 DEF ProbePorts, NextPort, PrintBuffer, WaitFR, WaitCR, SetTables, WaitStart,
     BuildCommand, Spin, PollCI, PollTFES, Configuring, Reading, StillReading, vars
<1> QED
  BY <1>3, <1>4, <1>5, <1>6, <1>7, <1>8 DEF Next, AHCIDriver_Init, Configure, Read

\* The base registers change only while both engines of the port are off.
THEOREM BasesWhenOff == Spec => BasesChangeWhenOff
<1>1. DriverInv /\ [Next]_vars =>
        [\A p \in Port :
            (hba[p].clb # hba'[p].clb \/ hba[p].fb # hba'[p].fb)
                => ~ hba[p].cr /\ ~ hba[p].fr]_vars
  <2> SUFFICES ASSUME DriverInv, [Next]_vars, NEW p \in Port,
                      hba[p].clb # hba'[p].clb \/ hba[p].fb # hba'[p].fb
               PROVE  ~ hba[p].cr /\ ~ hba[p].fr
    OBVIOUS
  <2>1. pc \in {"CLB", "FB"} /\ p = cur
    BY StepEffect
  <2>2. Configured(cur)
    BY <2>1, AtHand DEF AtPort, Stopping, Stopped
  <2> QED
    BY <2>1, <2>2 DEF Configured, Stopping, Stopped
<1> QED
  BY <1>1, DriverInvAlways, PTL DEF Spec, BasesChangeWhenOff

\* A command is issued to a running port with a ready device.
THEOREM IssuedWhenReady == Spec => IssuesWhenReady
<1>1. DriverInv /\ [Next]_vars =>
        [\A p \in Port :
            (~ hba[p].ci /\ hba'[p].ci) => hba[p].st /\ hba[p].fre /\ ~ hba[p].busy]_vars
  <2> SUFFICES ASSUME DriverInv, [Next]_vars, NEW p \in Port, ~ hba[p].ci, hba'[p].ci
               PROVE  hba[p].st /\ hba[p].fre /\ ~ hba[p].busy
    OBVIOUS
  <2>1. pc = "issue" /\ p = cur
    BY StepEffect
  <2>2. Reads(cur)
    BY <2>1, AtHand DEF AtPort, Running
  <2> QED
    BY <2>1, <2>2 DEF Reads, Running, Restarted
<1> QED
  BY <1>1, DriverInvAlways, PTL DEF Spec, IssuesWhenReady

\* Once Read has returned for a port, its buffer does not change.
THEOREM NothingLate == Spec => NoLateTransfer
<1>1. DriverInv /\ [Next]_vars =>
        [\A p \in Port : result[p] # "none" => buffer'[p] = buffer[p]]_vars
  <2> SUFFICES ASSUME DriverInv, [Next]_vars, NEW p \in Port, result[p] # "none"
               PROVE  buffer'[p] = buffer[p]
    OBVIOUS
  <2> QED
    BY StepEffect, PortFacts
<1> QED
  BY <1>1, DriverInvAlways, PTL DEF Spec, NoLateTransfer

-----------------------------------------------------------------------------
(* The regions the adapter may access never overlap.  Every port has 35     *)
(* blocks in one piece, at known offsets; a table lies 256 bytes further    *)
(* behind its block's start than the one before, the last ones in the       *)
(* blocks behind their own.  The layout, as offsets from a port's first     *)
(* block:                                                                   *)

Span == 35 * Step

Base(p) == area[p][List] - 16

Offset(part) ==
    CASE part[1] = "list"   -> 16
      [] part[1] = "fis"    -> Step + 16
      [] part[1] = "table"  -> (2 + part[2]) * Step + 16 + part[2] * 256
      [] part[1] = "buffer" -> 34 * Step + 16

\* Read has allocated its buffer, the last part.
Given(p) == area[p][Buffer] # 0

LaidOut(p, parts) == \A part \in parts : area[p][part] = Base(p) + Offset(part)

Before(p, q) == Base(p) + Span <= Base(q)

\* The statements at which the port at hand has no buffer, and those at which
\* it has some parts: which, and how many blocks they take.
Bufferless == {"ClearST", "ClearIS"} \cup Stopping
Partial == {"FB", "tables", "start", "SetFRE", "SetST", "ClearIS"}

HasParts ==
    CASE pc = "FB" -> {List}
      [] pc = "tables" -> {List, Fis}
      [] OTHER -> Parts \ {Buffer}
HasBlocks == CASE pc = "FB" -> 1 [] pc = "tables" -> 2 [] OTHER -> 34

\* The ports with all their parts lie apart and below the heap's end ...
AllApart ==
    \A p \in Port : Given(p) =>
        /\ Base(p) >= 0 /\ Base(p) + Span <= heap
        /\ LaidOut(p, Parts)
        /\ \A q \in Port : Given(q) /\ p # q => Before(p, q) \/ Before(q, p)

\* ... and the port at hand gets its own behind them.
MemoryInv ==
    /\ AllApart
    /\ pc \in Bufferless => ~ Given(cur)
    /\ pc \in Partial =>
        /\ Base(cur) >= 0 /\ Base(cur) + HasBlocks * Step = heap
        /\ LaidOut(cur, HasParts)
        /\ \A q \in Port : Given(q) => Before(q, cur)

-----------------------------------------------------------------------------
(* The offsets.                                                             *)

\* Every region lies within the port's 35 blocks, behind the first header.
LEMMA OffsetInSpan ==
    ASSUME NEW a \in Parts
    PROVE  /\ Offset(a) \in Nat /\ Length(a) \in Nat
           /\ Offset(a) >= 16 /\ Offset(a) + Length(a) <= Span
<1>1. CASE a \in {List, Fis, Buffer}
  BY <1>1 DEF List, Fis, Buffer, Offset, Length, Span, Step, Block
<1>2. CASE \E s \in Slots : a = <<"table", s>>
  <2>1. PICK s \in 0 .. 31 : a = <<"table", s>>
    BY <1>2 DEF Slots
  <2>2. a[1] = "table" /\ a[2] = s
    BY <2>1
  <2>3. Offset(a) = (2 + s) * 4112 + 16 + s * 256 /\ Length(a) = 256
    BY <2>2 DEF Offset, Length, Step, Block
  <2> QED
    BY <2>3 DEF Span, Step, Block
<1> QED
  BY <1>1, <1>2 DEF Parts, List, Fis, Buffer

\* No two of one port overlap, the tables in foreign blocks included.
LEMMA OffsetsApart ==
    ASSUME NEW a \in Parts, NEW b \in Parts, a # b
    PROVE  \/ Offset(a) + Length(a) <= Offset(b)
           \/ Offset(b) + Length(b) <= Offset(a)
<1>1. \A c \in Parts : c \notin {List, Fis, Buffer} =>
        \E s \in 0 .. 31 : /\ c = <<"table", s>> /\ Length(c) = 256
                           /\ Offset(c) = (2 + s) * 4112 + 16 + s * 256
  <2> SUFFICES ASSUME NEW c \in Parts, c \notin {List, Fis, Buffer}
               PROVE  \E s \in 0 .. 31 : /\ c = <<"table", s>> /\ Length(c) = 256
                                         /\ Offset(c) = (2 + s) * 4112 + 16 + s * 256
    OBVIOUS
  <2>1. PICK s \in 0 .. 31 : c = <<"table", s>>
    BY DEF Parts, Slots, List, Fis, Buffer
  <2>2. c[1] = "table" /\ c[2] = s
    BY <2>1
  <2>3. Offset(c) = (2 + s) * 4112 + 16 + s * 256 /\ Length(c) = 256
    BY <2>2 DEF Offset, Length, Step, Block
  <2> QED
    BY <2>1, <2>3
<1>2. /\ Offset(List) = 16 /\ Length(List) = 1024
      /\ Offset(Fis) = 4128 /\ Length(Fis) = 256
      /\ Offset(Buffer) = 139824 /\ Length(Buffer) = 512
  BY DEF List, Fis, Buffer, Offset, Length, Step, Block
<1>3. CASE a \in {List, Fis, Buffer} /\ b \in {List, Fis, Buffer}
  BY <1>2, <1>3
<1>4. CASE a \in {List, Fis, Buffer} /\ b \notin {List, Fis, Buffer}
  <2>1. PICK s \in 0 .. 31 : Length(b) = 256 /\ Offset(b) = (2 + s) * 4112 + 16 + s * 256
    BY <1>1, <1>4
  <2> QED
    BY <1>2, <1>4, <2>1
<1>5. CASE a \notin {List, Fis, Buffer} /\ b \in {List, Fis, Buffer}
  <2>1. PICK s \in 0 .. 31 : Length(a) = 256 /\ Offset(a) = (2 + s) * 4112 + 16 + s * 256
    BY <1>1, <1>5
  <2> QED
    BY <1>2, <1>5, <2>1
<1>6. CASE a \notin {List, Fis, Buffer} /\ b \notin {List, Fis, Buffer}
  <2>1. PICK s \in 0 .. 31 : /\ a = <<"table", s>> /\ Length(a) = 256
                             /\ Offset(a) = (2 + s) * 4112 + 16 + s * 256
    BY <1>1, <1>6
  <2>2. PICK u \in 0 .. 31 : /\ b = <<"table", u>> /\ Length(b) = 256
                             /\ Offset(b) = (2 + u) * 4112 + 16 + u * 256
    BY <1>1, <1>6
  <2>3. s # u
    BY <2>1, <2>2
  <2> QED
    BY <2>1, <2>2, <2>3
<1> QED
  BY <1>3, <1>4, <1>5, <1>6

\* The parts and their addresses are what the lemmas below take them for.
LEMMA Areas ==
    ASSUME DriverInv
    PROVE  /\ heap \in Nat /\ area \in [Port -> [Parts -> Nat]]
           /\ {List, Fis, Buffer} \subseteq Parts
           /\ List # Fis /\ List # Buffer /\ Fis # Buffer
           /\ \A p \in Port : Base(p) \in Int
<1>1. heap \in Nat /\ area \in [Port -> [Parts -> Nat]]
  BY DEF DriverInv, TypeOK
<1>2. {List, Fis, Buffer} \subseteq Parts /\ List # Fis /\ List # Buffer /\ Fis # Buffer
  BY DEF Parts, List, Fis, Buffer
<1> QED
  BY <1>1, <1>2 DEF Base

-----------------------------------------------------------------------------
(* The steps.                                                               *)

\* A step that allocates nothing keeps the invariant, if it does not enter the
\* statements that need some parts.
LEMMA NothingAllocated ==
    ASSUME MemoryInv, UNCHANGED <<heap, area>>,
           pc' \in Bufferless => ~ Given(cur)',
           pc' \in Partial =>
             /\ pc \in Partial /\ cur' = cur
             /\ pc' = pc \/ {pc, pc'} \subseteq {"start", "SetFRE", "SetST", "ClearIS"}
    PROVE  MemoryInv'
<1>1. \A p : Given(p)' = Given(p) /\ Base(p)' = Base(p)
  BY DEF Given, Base
<1>2. AllApart'
  BY <1>1 DEF MemoryInv, AllApart, LaidOut, Before
<1>3. pc' \in Partial => HasParts' = HasParts /\ HasBlocks' = HasBlocks
  BY DEF HasParts, HasBlocks, Partial
<1> QED
  BY <1>1, <1>2, <1>3 DEF MemoryInv, LaidOut, Before

\* An allocation for a port without a buffer, which gets none of it, moves no
\* other port's memory.
LEMMA OthersStay ==
    ASSUME DriverInv, MemoryInv, cur \in Port, ~ Given(cur), heap' \in Nat, heap' >= heap,
           area'[cur][Buffer] = 0, \A q \in Port : q # cur => area'[q] = area[q]
    PROVE  /\ AllApart'
           /\ \A q \in Port : Given(q)' => q # cur /\ Given(q) /\ Base(q)' = Base(q)
                                           /\ Base(q) \in Int /\ Base(q) + Span <= heap
<1>1. \A q \in Port : Given(q)' => q # cur /\ Given(q) /\ Base(q)' = Base(q) /\ area'[q] = area[q]
  BY DEF Given, Base
<1>2. \A q \in Port : Given(q) => Base(q) \in Int /\ Base(q) >= 0 /\ Base(q) + Span <= heap
  BY Areas DEF MemoryInv, AllApart
<1>3. AllApart'
  <2> SUFFICES ASSUME NEW p \in Port, Given(p)'
               PROVE  /\ Base(p)' >= 0 /\ Base(p)' + Span <= heap'
                      /\ LaidOut(p, Parts)'
                      /\ \A q \in Port : Given(q)' /\ p # q => Before(p, q)' \/ Before(q, p)'
    BY DEF AllApart
  <2>1. Given(p) /\ Base(p)' = Base(p) /\ area'[p] = area[p]
    BY <1>1
  <2>2. Base(p)' >= 0 /\ Base(p)' + Span <= heap'
    BY <1>2, <2>1, Areas DEF Span, Step, Block
  <2>3. LaidOut(p, Parts)'
    BY <2>1 DEF MemoryInv, AllApart, LaidOut
  <2>4. ASSUME NEW q \in Port, Given(q)', p # q
        PROVE  Before(p, q)' \/ Before(q, p)'
    BY <1>1, <2>1, <2>4 DEF MemoryInv, AllApart, Before
  <2> QED
    BY <2>2, <2>3, <2>4
<1> QED
  BY <1>1, <1>2, <1>3

\* The command list begins the port's memory, behind all that was allocated.
LEMMA SetCLBMemory == DriverInv /\ MemoryInv /\ SetCLB => MemoryInv'
<1> SUFFICES ASSUME DriverInv, MemoryInv, SetCLB PROVE MemoryInv'
  OBVIOUS
<1>1. pc = "CLB" /\ pc' \in {"FB", "wild"} /\ cur' = cur /\ cur \in Port /\ ~ Given(cur)
  <2>1. pc = "CLB" /\ pc' \in {"FB", "wild"} /\ cur' = cur
    BY DEF SetCLB, Configuring, cur
  <2> QED
    BY <2>1, AtHand DEF AtPort, Stopping, Stopped, MemoryInv, Bufferless
<1>2. /\ heap' = heap + Step /\ heap' \in Nat /\ heap \in Nat
      /\ area' \in [Port -> [Parts -> Nat]] /\ area'[cur][List] = heap + 16
      /\ \A b \in Parts : b # List => area'[cur][b] = area[cur][b]
      /\ \A q \in Port : q # cur => area'[q] = area[q]
  <2>1. Malloc(4096, List)
    BY DEF SetCLB, List
  <2> QED
    BY <2>1, <1>1, Areas, MallocEffect
<1>3. area'[cur][Buffer] = 0
  BY <1>1, <1>2, Areas DEF Given
<1>4. heap' >= heap /\ Step = 4112
  BY <1>2 DEF Step, Block
<1>5. /\ AllApart'
      /\ \A q \in Port : Given(q)' => q # cur /\ Given(q) /\ Base(q)' = Base(q)
                                      /\ Base(q) \in Int /\ Base(q) + Span <= heap
  BY <1>1, <1>2, <1>3, <1>4, OthersStay
<1>6. Base(cur)' = heap
  BY <1>1, <1>2 DEF Base
<1>7. Offset(List) = 16 /\ (pc' = "FB" => HasBlocks' = 1 /\ HasParts' = {List})
  BY DEF Offset, List, HasBlocks, HasParts
<1>8. ~ Given(cur)'
  BY <1>1, <1>3 DEF Given
<1>9. pc' = "FB" => LaidOut(cur, HasParts)'
  BY <1>1, <1>2, <1>6, <1>7 DEF LaidOut
<1>10. \A q \in Port : Given(q)' => Before(q, cur)'
  BY <1>1, <1>5, <1>6 DEF Before
<1>11. pc' = "FB" \/ pc' \notin Bufferless \cup Partial
  BY <1>1 DEF Bufferless, Partial, Stopping, Stopped
<1> QED
  BY <1>2, <1>4, <1>5, <1>6, <1>7, <1>8, <1>9, <1>10, <1>11 DEF MemoryInv

\* The area for received FISes follows the list.
LEMMA SetFBMemory == DriverInv /\ MemoryInv /\ SetFB => MemoryInv'
<1> SUFFICES ASSUME DriverInv, MemoryInv, SetFB PROVE MemoryInv'
  OBVIOUS
<1>1. pc = "FB" /\ pc' = "tables" /\ cur' = cur /\ cur \in Port /\ ~ Given(cur)
  <2>1. pc = "FB" /\ pc' = "tables" /\ cur' = cur
    BY DEF SetFB, Configuring, cur
  <2> QED
    BY <2>1, AtHand DEF AtPort, Stopping, Stopped, MemoryInv, Bufferless
<1>2. /\ heap' = heap + Step /\ heap' \in Nat /\ heap \in Nat
      /\ area' \in [Port -> [Parts -> Nat]] /\ area'[cur][Fis] = heap + 16
      /\ \A b \in Parts : b # Fis => area'[cur][b] = area[cur][b]
      /\ \A q \in Port : q # cur => area'[q] = area[q]
  <2>1. Malloc(4096, Fis)
    BY DEF SetFB, Fis
  <2> QED
    BY <2>1, <1>1, Areas, MallocEffect
<1>3. area'[cur][Buffer] = 0 /\ area'[cur][List] = area[cur][List]
  BY <1>1, <1>2, Areas DEF Given
<1>4. heap' >= heap /\ Step = 4112
  BY <1>2 DEF Step, Block
<1>5. /\ AllApart'
      /\ \A q \in Port : Given(q)' => q # cur /\ Given(q) /\ Base(q)' = Base(q)
                                      /\ Base(q) \in Int /\ Base(q) + Span <= heap
  BY <1>1, <1>2, <1>3, <1>4, OthersStay
<1>6. Base(cur)' = Base(cur) /\ Base(cur) \in Int /\ Base(cur) >= 0 /\ Base(cur) + Step = heap
      /\ area[cur][List] = Base(cur) + 16
      /\ \A q \in Port : Given(q) => Before(q, cur)
  <2>1. HasBlocks = 1 /\ HasParts = {List} /\ Offset(List) = 16
    BY <1>1 DEF HasBlocks, HasParts, Offset, List
  <2>2. pc \in Partial
    BY <1>1 DEF Partial
  <2> QED
    BY <1>1, <1>3, <1>4, <2>1, <2>2, Areas DEF MemoryInv, LaidOut, Base
<1>7. Offset(List) = 16 /\ Offset(Fis) = 4128 /\ HasBlocks' = 2 /\ HasParts' = {List, Fis}
  BY <1>1, <1>4 DEF Offset, List, Fis, HasBlocks, HasParts
<1>8. ~ Given(cur)'
  BY <1>1, <1>3 DEF Given
<1>9. LaidOut(cur, HasParts)'
  BY <1>1, <1>2, <1>3, <1>4, <1>6, <1>7 DEF LaidOut
<1>10. \A q \in Port : Given(q)' => Before(q, cur)'
  BY <1>1, <1>5, <1>6 DEF Before
<1> QED
  BY <1>1, <1>2, <1>4, <1>5, <1>6, <1>7, <1>8, <1>9, <1>10 DEF MemoryInv

\* The command tables follow.
LEMMA SetTablesMemory == DriverInv /\ MemoryInv /\ SetTables => MemoryInv'
<1> SUFFICES ASSUME DriverInv, MemoryInv, SetTables PROVE MemoryInv'
  OBVIOUS
<1>1. pc = "tables" /\ pc' = "start" /\ cur' = cur /\ cur \in Port /\ ~ Given(cur)
  <2>1. pc = "tables" /\ pc' = "start" /\ cur' = cur
    BY DEF SetTables, Configuring, cur
  <2> QED
    BY <2>1, AtHand DEF AtPort, Stopping, Stopped, MemoryInv, Bufferless
<1>2. /\ heap' = heap + 32 * Step /\ heap' \in Nat /\ heap \in Nat
      /\ area' \in [Port -> [Parts -> Nat]]
      /\ \A part \in Parts :
           area'[cur][part] = IF part[1] # "table" THEN area[cur][part]
               ELSE heap + part[2] * Step + 16 + part[2] * 256
      /\ \A q \in Port : q # cur => area'[q] = area[q]
  <2>1. Tables(4096)
    BY DEF SetTables
  <2> QED
    BY <2>1, <1>1, Areas, TablesEffect
<1>3. /\ area'[cur][Buffer] = area[cur][Buffer]
      /\ area'[cur][List] = area[cur][List] /\ area'[cur][Fis] = area[cur][Fis]
      /\ area'[cur][Buffer] = 0
  <2>1. Buffer[1] # "table" /\ List[1] # "table" /\ Fis[1] # "table"
    BY DEF Buffer, List, Fis
  <2>2. /\ area'[cur][Buffer] = area[cur][Buffer]
        /\ area'[cur][List] = area[cur][List] /\ area'[cur][Fis] = area[cur][Fis]
    BY <1>2, <2>1, Areas
  <2> QED
    BY <1>1, <2>2 DEF Given
<1>4. heap' >= heap /\ Step = 4112
  BY <1>2 DEF Step, Block
<1>5. /\ AllApart'
      /\ \A q \in Port : Given(q)' => q # cur /\ Given(q) /\ Base(q)' = Base(q)
                                      /\ Base(q) \in Int /\ Base(q) + Span <= heap
  BY <1>1, <1>2, <1>3, <1>4, OthersStay
<1>6. /\ Base(cur)' = Base(cur) /\ Base(cur) \in Int /\ Base(cur) >= 0
      /\ Base(cur) + 2 * Step = heap
      /\ area[cur][List] = Base(cur) + Offset(List)
      /\ area[cur][Fis] = Base(cur) + Offset(Fis)
      /\ \A q \in Port : Given(q) => Before(q, cur)
  <2>1. HasBlocks = 2 /\ HasParts = {List, Fis}
    BY <1>1 DEF HasBlocks, HasParts
  <2>2. pc \in Partial
    BY <1>1 DEF Partial
  <2> QED
    BY <1>1, <1>3, <2>1, <2>2, Areas DEF MemoryInv, LaidOut, Base
<1>7. HasBlocks' = 34 /\ HasParts' = Parts \ {Buffer}
  BY <1>1 DEF HasBlocks, HasParts
<1>8. ~ Given(cur)'
  BY <1>1, <1>3 DEF Given
<1>9. LaidOut(cur, HasParts)'
  <2> SUFFICES ASSUME NEW part \in Parts, part # Buffer
               PROVE  area'[cur][part] = Base(cur) + Offset(part)
    BY <1>1, <1>6, <1>7 DEF LaidOut
  <2>1. CASE part \in {List, Fis}
    BY <1>3, <1>6, <2>1
  <2>2. CASE part \notin {List, Fis}
    <3>1. PICK s \in 0 .. 31 : part = <<"table", s>>
      BY <2>2 DEF Parts, Slots, List, Fis, Buffer
    <3>2. part[1] = "table" /\ part[2] = s
      BY <3>1
    <3>3. Offset(part) = (2 + s) * 4112 + 16 + s * 256
      BY <3>2, <1>4 DEF Offset
    <3>4. area'[cur][part] = heap + s * 4112 + 16 + s * 256
      BY <3>2, <1>2, <1>4
    <3> QED
      BY <3>3, <3>4, <1>4, <1>6
  <2> QED
    BY <2>1, <2>2
<1>10. \A q \in Port : Given(q)' => Before(q, cur)'
  BY <1>1, <1>5, <1>6 DEF Before
<1> QED
  BY <1>1, <1>2, <1>4, <1>5, <1>6, <1>7, <1>8, <1>9, <1>10 DEF MemoryInv

\* The buffer completes the port's memory.
LEMMA ClearISMemory == DriverInv /\ MemoryInv /\ ClearIS => MemoryInv'
<1> SUFFICES ASSUME DriverInv, MemoryInv, ClearIS PROVE MemoryInv'
  OBVIOUS
<1>1. pc = "ClearIS" /\ pc' = "build" /\ cur' = cur /\ cur \in Port /\ ~ Given(cur)
  <2>1. pc = "ClearIS" /\ pc' = "build" /\ cur' = cur
    BY DEF ClearIS, StillReading, cur
  <2> QED
    BY <2>1, AtHand DEF AtPort, Running, MemoryInv, Bufferless
<1>2. /\ heap' = heap + Step /\ heap' \in Nat /\ heap \in Nat
      /\ area' \in [Port -> [Parts -> Nat]] /\ area'[cur][Buffer] = heap + 16
      /\ \A b \in Parts : b # Buffer => area'[cur][b] = area[cur][b]
      /\ \A q \in Port : q # cur => area'[q] = area[q]
  <2>1. Malloc(4096, Buffer)
    BY DEF ClearIS, Buffer
  <2> QED
    BY <2>1, <1>1, Areas, MallocEffect
<1>3. Step = 4112 /\ Span = 143920 /\ Offset(Buffer) = 139824
  BY DEF Span, Step, Block, Offset, Buffer
<1>4. /\ Base(cur)' = Base(cur) /\ Base(cur) \in Int /\ Base(cur) >= 0
      /\ Base(cur) + 34 * 4112 = heap
      /\ \A part \in Parts \ {Buffer} : area[cur][part] = Base(cur) + Offset(part)
      /\ \A q \in Port : Given(q) => Base(q) + Span <= Base(cur)
  <2>1. HasBlocks = 34 /\ HasParts = Parts \ {Buffer} /\ pc \in Partial
    BY <1>1 DEF HasBlocks, HasParts, Partial
  <2>2. area'[cur][List] = area[cur][List]
    BY <1>2, Areas
  <2> QED
    BY <1>1, <1>3, <2>1, <2>2, Areas DEF MemoryInv, LaidOut, Base, Before
<1>5. \A q \in Port : Given(q)' /\ q # cur =>
        Given(q) /\ Base(q)' = Base(q) /\ Base(q) \in Int /\ area'[q] = area[q]
  BY <1>2, Areas DEF Given, Base
<1>6. AllApart'
  <2> SUFFICES ASSUME NEW p \in Port, Given(p)'
               PROVE  /\ Base(p)' >= 0 /\ Base(p)' + Span <= heap'
                      /\ LaidOut(p, Parts)'
                      /\ \A q \in Port : Given(q)' /\ p # q => Before(p, q)' \/ Before(q, p)'
    BY DEF AllApart
  <2>1. CASE p = cur
    <3>1. LaidOut(p, Parts)'
      BY <1>1, <1>2, <1>3, <1>4, <2>1 DEF LaidOut, Base
    <3>2. \A q \in Port : Given(q)' /\ p # q => Before(q, p)'
      BY <1>1, <1>4, <1>5, <2>1 DEF Before, Base
    <3>3. Base(p)' >= 0 /\ Base(p)' + Span <= heap'
      BY <1>1, <1>2, <1>3, <1>4, <2>1 DEF Base
    <3> QED
      BY <3>1, <3>2, <3>3
  <2>2. CASE p # cur
    <3>1. Given(p) /\ Base(p)' = Base(p) /\ Base(p) \in Int /\ area'[p] = area[p]
      BY <1>5, <2>2
    <3>2. Base(p) >= 0 /\ Base(p) + Span <= heap /\ LaidOut(p, Parts)
      BY <3>1 DEF MemoryInv, AllApart
    <3>3. LaidOut(p, Parts)'
      BY <3>1, <3>2 DEF LaidOut
    <3>4. ASSUME NEW q \in Port, Given(q)', p # q
          PROVE  Before(p, q)' \/ Before(q, p)'
      <4>1. CASE q = cur
        BY <1>1, <1>4, <3>1, <4>1 DEF Before, Base
      <4>2. CASE q # cur
        BY <1>5, <3>1, <3>4, <4>2 DEF MemoryInv, AllApart, Before
      <4> QED
        BY <4>1, <4>2
    <3> QED
      BY <1>2, <1>3, <3>1, <3>2, <3>3, <3>4
  <2> QED
    BY <2>1, <2>2
<1> QED
  BY <1>1, <1>6 DEF MemoryInv, Bufferless, Partial, Stopping, Stopped

-----------------------------------------------------------------------------
(* The invariant.                                                           *)

\* Nothing is allocated before the ports are probed.
LEMMA MemoryInvInit == Init => MemoryInv
<1> SUFFICES ASSUME Init PROVE MemoryInv
  OBVIOUS
<1>1. \A p \in Port : ~ Given(p)
  BY DEF Init, Given, Buffer, Parts
<1>2. pc = "probe"
  BY DEF Init
<1> QED
  BY <1>1, <1>2 DEF MemoryInv, AllApart, Bufferless, Partial, Stopping, Stopped

\* An untouched port has no buffer.
LEMMA UntouchedNotGiven == \A p \in Port : Untouched(p) => ~ Given(p)
BY DEF Untouched, Given, Buffer

\* No step of the driver or the adapter breaks it.
LEMMA MemoryInvNext == DriverInv /\ MemoryInv /\ [Next]_vars => MemoryInv'
<1> SUFFICES ASSUME DriverInv, MemoryInv, [Next]_vars PROVE MemoryInv'
  OBVIOUS
<1>1. CASE SetCLB \/ SetFB \/ SetTables \/ ClearIS
  BY <1>1, SetCLBMemory, SetFBMemory, SetTablesMemory, ClearISMemory
<1>2. CASE ClearST \/ ClearFRE \/ WaitFR \/ WaitCR \/ WaitStart \/ SetFRE \/ SetST
  <2>1. UNCHANGED <<heap, area>> /\ cur' = cur
    BY <1>2 DEF ClearST, ClearFRE, WaitFR, WaitCR, WaitStart, SetFRE, SetST, NothingNew,
       Configuring, cur
  <2>2. pc \in {"ClearST"} \cup Stopping /\ pc' \in Stopping \cup {"ClearIS"}
    BY <1>2 DEF ClearST, ClearFRE, WaitFR, WaitCR, WaitStart, SetFRE, SetST, Stopping, Stopped
  <2>3. pc' \in Partial => {pc, pc'} \subseteq {"start", "SetFRE", "SetST", "ClearIS"}
    BY <1>2 DEF ClearST, ClearFRE, WaitFR, WaitCR, WaitStart, SetFRE, SetST, Partial
  <2>4. pc' \in Partial => pc \in Partial
    BY <2>3 DEF Partial
  <2>5. ~ Given(cur)'
    BY <2>1, <2>2 DEF MemoryInv, Bufferless, Given
  <2> QED
    BY <2>1, <2>3, <2>4, <2>5, NothingAllocated
<1>3. CASE BuildCommand \/ Spin \/ Issue \/ PollCI \/ PollTFES \/ PrintBuffer
  <2>1. UNCHANGED <<heap, area>>
    BY <1>3 DEF BuildCommand, Spin, Issue, PollCI, PollTFES, PrintBuffer, Reading
  <2>2. pc' \in {"loop", "spin", "issue", "CI", "TFES", "print", "wild"}
    BY <1>3 DEF BuildCommand, Spin, Issue, PollCI, PollTFES, PrintBuffer, Return
  <2>3. pc' \notin Bufferless /\ pc' \notin Partial
    BY <2>2 DEF Bufferless, Partial, Stopping, Stopped
  <2> QED
    BY <2>1, <2>3, NothingAllocated
<1>4. CASE NextPort
  <2>1. UNCHANGED <<heap, area>> /\ pc' \in {"done", "wild", "ClearST"}
    BY <1>4 DEF NextPort
  <2>2. DriverInv'
    BY <1>4, NextPortKeeps
  <2>3. pc' = "ClearST" => ~ Given(cur)'
    <3> SUFFICES ASSUME pc' = "ClearST" PROVE ~ Given(cur)'
      OBVIOUS
    <3>1. pc' \in AtPort
      BY DEF AtPort
    <3>2. cur' \in Port
      BY <2>2, <3>1 DEF DriverInv, Position
    <3>3. Configured(cur)'
      BY <2>2, <3>1, <3>2 DEF DriverInv, PortStates
    <3> QED
      BY <3>3 DEF Configured, Untouched, Given, Buffer
  <2>4. pc' \in Bufferless => pc' = "ClearST"
    BY <2>1 DEF Bufferless, Stopping, Stopped
  <2>5. pc' \notin Partial
    BY <2>1 DEF Partial
  <2> QED
    BY <2>1, <2>3, <2>4, <2>5, NothingAllocated
<1>5. CASE ProbePorts
  <2>1. pc = "probe" /\ pc' \in {"probe", "loop", "wild"} /\ UNCHANGED area
    BY <1>5 DEF ProbePorts, Attach
  <2>2. \A p \in Port : ~ Given(p)
    BY <2>1, UntouchedNotGiven DEF DriverInv, Position
  <2>3. \A p \in Port : ~ Given(p)'
    BY <2>1, <2>2 DEF Given
  <2> QED
    BY <2>1, <2>3 DEF MemoryInv, AllApart, Bufferless, Partial, Stopping, Stopped
<1>6. CASE UNCHANGED <<pc, i, driver, heap, area>>
  <2>1. cur' = cur
    BY <1>6 DEF cur
  <2>2. Given(cur)' = Given(cur)
    BY <1>6, <2>1 DEF Given
  <2> QED
    BY <1>6, <2>1, <2>2, NothingAllocated DEF MemoryInv
<1>7. ASSUME NEW p \in Port, Engine(p) \/ DeviceReady(p) \/ Complete(p) \/ Fail(p)
      PROVE  UNCHANGED <<pc, i, driver, heap, area>>
  BY <1>7 DEF Engine, EngineFollows, ReceiveFollows, DeviceReady, Fetch, Complete, Fail, Adapter
<1>8. UNCHANGED vars => UNCHANGED <<pc, i, driver, heap, area>>
  BY DEF vars
<1> QED
  BY <1>1, <1>2, <1>3, <1>4, <1>5, <1>6, <1>7, <1>8 DEF Next, AHCIDriver_Init, Configure, Read

-----------------------------------------------------------------------------
(* What follows from it.                                                    *)

\* No two regions that the adapter may access overlap when a command is issued.
THEOREM MemoryIsApart == Spec => []MemoryApart
<1>1. DriverInv /\ MemoryInv => MemoryApart
  <2> SUFFICES ASSUME DriverInv, MemoryInv,
                      NEW p \in Port, Given(p), NEW q \in Port, Given(q),
                      NEW a \in Parts, NEW b \in Parts, <<p, a>> # <<q, b>>
               PROVE  \/ area[p][a] + Length(a) <= area[q][b]
                      \/ area[q][b] + Length(b) <= area[p][a]
    BY DEF MemoryApart, Given, Buffer
  <2>1. Base(p) \in Int /\ Base(q) \in Int
    BY Areas
  <2>2. area[p][a] = Base(p) + Offset(a) /\ area[q][b] = Base(q) + Offset(b)
    BY DEF MemoryInv, AllApart, LaidOut
  <2>3. /\ Offset(a) \in Nat /\ Length(a) \in Nat /\ Offset(b) \in Nat /\ Length(b) \in Nat
        /\ Offset(a) + Length(a) <= Span /\ Offset(b) + Length(b) <= Span
    BY OffsetInSpan
  <2>4. Span \in Nat
    BY DEF Span, Step, Block
  <2>5. CASE p = q
    <3>1. a # b
      BY <2>5
    <3>2. \/ Offset(a) + Length(a) <= Offset(b)
          \/ Offset(b) + Length(b) <= Offset(a)
      BY <3>1, OffsetsApart
    <3>3. area[q][b] = Base(p) + Offset(b)
      BY <2>2, <2>5
    <3> QED
      BY <2>1, <2>2, <2>3, <3>2, <3>3
  <2>6. CASE p # q
    <3>1. Base(p) + Span <= Base(q) \/ Base(q) + Span <= Base(p)
      BY <2>6 DEF MemoryInv, AllApart, Before
    <3> QED
      BY <2>1, <2>2, <2>3, <2>4, <3>1
  <2> QED
    BY <2>5, <2>6
<1>2. Spec => []MemoryInv
  BY MemoryInvInit, MemoryInvNext, DriverInvAlways, PTL DEF Spec
<1> QED
  BY <1>1, <1>2, DriverInvAlways, PTL
=============================================================================
