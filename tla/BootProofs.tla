----------------------------- MODULE BootProofs -----------------------------
(***************************************************************************)
(* The boot for any boot loader, memory map, archive and machine: it stops *)
(* short only for a cause, a driver that starts has a heap, the search for *)
(* devices finds each one once, and the headers taken from the archive are *)
(* those of its members.                                                   *)
(*                                                                         *)
(* The state is in the boot thread's place: what has been found out by     *)
(* then about the loader's responses decides which of them are still       *)
(* followed blindly.  The search and the ramdisk have invariants of their  *)
(* own.                                                                    *)
(***************************************************************************)
EXTENDS Boot, SequenceTheorems, FiniteSetTheorems, WellFoundedInduction, TLAPS

-----------------------------------------------------------------------------
(* The inductive invariant.                                                 *)

\* Where the gates are loaded.
Late == {"addresses", "hhdm", "ramdisk", "parse", "ACPI_Init", "scan", "AHCI", "idle",
         "panic"}

\* The log reaches a console that exists.
LogGoes ==
    /\ pc \in {"BOOT_CheckLoader", "FBCON_Init"} => writer = "COM_LogWrapper"
    /\ pc = "FBCON_Init" => (loaderID <=> loader.info # NULL)
    /\ pc \in Late \cup {"memmap", "module", "create_idt"} =>
        writer = IF loader.info # NULL THEN "FBCON_Write" ELSE "COM_LogWrapper"

\* The memory map's usable regions among the entries seen so far.
Usable(j) == j \in DOMAIN loader.memmap /\ loader.memmap[j].usable

HeapFollowsMap ==
    /\ entry \in Nat \ {0}
    /\ heap # NULL => \E j \in 1 .. (entry - 1) : Usable(j) /\ heap = loader.memmap[j].base
    /\ heap = NULL => \A j \in 1 .. (entry - 1) : ~ Usable(j)
    /\ pc \in Late \cup {"module", "create_idt"} =>
        loader.memmap # NULL /\ entry > Len(loader.memmap)

\* What was followed and taken before each place.
Followed ==
    /\ loader \in Loaders \cup {Usual.loader}
    /\ pc \in Late => idt
    /\ idt => pc \in Late \cup {"reset"}
    /\ pc \in Late \cup {"create_idt"} => initramfs
    /\ attached # << >> =>
        /\ pc \in {"scan", "AHCI", "idle", "panic", "reset"}
        /\ pc # "panic" => heap # NULL

BootInv == LogGoes /\ HeapFollowsMap /\ Followed /\ StopsForCause

\* The controllers the driver was started on are among the functions.
Started == attached \in Seq(DOMAIN space)

-----------------------------------------------------------------------------
(* The parts of the boot that other modules make up.                        *)

\* What the search for devices does to what the boot is about: a panic in it
\* is for want of an RSDT or an MCFG table, or at a class behind the table; and
\* it starts the driver on a function (acpi.c:42-78, pci.c:18-35, 78-80).
LEMMA ScanEffect ==
    ASSUME Scan!Next
    PROVE  /\ firmware' = firmware /\ space' = space
           /\ scanAt' = "panic" => ~ firmware.rsdt \/ mcfg' = NULL \/ AtUnnamedClass'
           /\ attached' = attached \/ \E slot \in DOMAIN space : attached' = Append(attached, slot)
<1>1. CASE Scan!CheckRSDP
  BY <1>1 DEF Scan!CheckRSDP, Scan!Acpi
<1>2. CASE Scan!CheckRSDT
  BY <1>2 DEF Scan!CheckRSDT, Scan!Acpi
<1>3. CASE Scan!NextTable
  BY <1>3 DEF Scan!NextTable, Scan!Acpi
<1>4. CASE Scan!LastTable
  BY <1>4 DEF Scan!LastTable, Scan!Acpi
<1>5. CASE Scan!EnumeratePCI
  BY <1>5 DEF Scan!EnumeratePCI, Scan!Pci
<1>6. CASE Scan!NextRange
  BY <1>6 DEF Scan!NextRange, Scan!Pci
<1>7. CASE Scan!EnumerateBus
  BY <1>7 DEF Scan!EnumerateBus, Scan!Pci
<1>8. CASE Scan!EnumerateDevice
  BY <1>8 DEF Scan!EnumerateDevice, Scan!Pci
<1>9. CASE Scan!EnumerateFunction
  <2> DEFINE slot == <<bus, device, function>>
  <2>1. UNCHANGED <<firmware, space, mcfg, bus>> /\ scanAt = "function"
    BY <1>9 DEF Scan!EnumerateFunction, Scan!Pci
  <2>2. \/ scanAt' # "panic" /\ attached' = attached
        \/ scanAt' # "panic" /\ slot \in DOMAIN space /\ attached' = Append(attached, slot)
        \/ /\ slot \in DOMAIN space /\ ~ Scan!ClassNamed(space[slot])
           /\ scanAt' = "panic" /\ UNCHANGED <<device, function, attached>>
    BY <1>9 DEF Scan!EnumerateFunction
  <2>3. ASSUME scanAt' = "panic" PROVE AtUnnamedClass'
    BY <2>1, <2>2, <2>3 DEF AtUnnamedClass
  <2> QED
    BY <2>1, <2>2, <2>3
<1> QED
  BY <1>1, <1>2, <1>3, <1>4, <1>5, <1>6, <1>7, <1>8, <1>9 DEF Scan!Next, Scan!ACPI_Init

-----------------------------------------------------------------------------
(* The steps.                                                               *)

\* The memory map does not change.
LEMMA SameMap ==
    ASSUME loader' = loader
    PROVE  \A j : Usable(j)' <=> Usable(j)
BY DEF Usable

\* A step that leaves the loader, the map's entry and the heap alone keeps
\* what the heap has to do with them, if it stays where it was or moves to a
\* place that asks no more.
LEMMA HeapKeeps ==
    ASSUME HeapFollowsMap, UNCHANGED <<loader, entry, heap>>,
           pc' \in Late \cup {"module", "create_idt"} =>
                loader.memmap # NULL /\ entry > Len(loader.memmap)
    PROVE  HeapFollowsMap'
BY SameMap DEF HeapFollowsMap

\* The log goes to the serial port.
LEMMA SetWriteFuncKeeps == BootInv /\ SetWriteFunc => BootInv'
<1> SUFFICES ASSUME BootInv, SetWriteFunc PROVE BootInv'
  OBVIOUS
<1>1. /\ pc = "init" /\ pc' = "BOOT_CheckLoader" /\ writer' = "COM_LogWrapper"
      /\ UNCHANGED <<loader, entry, loaderID, heap, initramfs, idt, attached>>
  BY DEF SetWriteFunc, Kept, scanVars
<1>2. LogGoes'
  BY <1>1 DEF BootInv, LogGoes, Late
<1>3. HeapFollowsMap'
  BY <1>1, HeapKeeps DEF BootInv, HeapFollowsMap, Late
<1>4. Followed'
  BY <1>1 DEF BootInv, Followed, Late
<1>5. StopsForCause'
  BY <1>1 DEF BootInv, StopsForCause
<1> QED
  BY <1>2, <1>3, <1>4, <1>5 DEF BootInv

\* The loader is found.
LEMMA BOOT_CheckLoaderKeeps == BootInv /\ BOOT_CheckLoader => BootInv'
<1> SUFFICES ASSUME BootInv, BOOT_CheckLoader PROVE BootInv'
  OBVIOUS
<1>1. /\ pc = "BOOT_CheckLoader" /\ pc' = "FBCON_Init" /\ (loaderID' <=> loader.info # NULL)
      /\ UNCHANGED <<loader, entry, writer, heap, initramfs, idt, attached>>
  BY DEF BOOT_CheckLoader, Kept, scanVars
<1>2. LogGoes'
  BY <1>1 DEF BootInv, LogGoes, Late
<1>3. HeapFollowsMap'
  BY <1>1, HeapKeeps DEF BootInv, HeapFollowsMap, Late
<1>4. Followed'
  BY <1>1 DEF BootInv, Followed, Late
<1>5. StopsForCause'
  BY <1>1 DEF BootInv, StopsForCause
<1> QED
  BY <1>2, <1>3, <1>4, <1>5 DEF BootInv

\* The console is taken, or followed to a reset.
LEMMA FBCON_InitKeeps == BootInv /\ FBCON_Init => BootInv'
<1> SUFFICES ASSUME BootInv, FBCON_Init PROVE BootInv'
  OBVIOUS
<1>1. /\ pc = "FBCON_Init" /\ UNCHANGED <<loader, entry, loaderID, heap, initramfs, idt, attached>>
      /\ pc' = (IF loaderID /\ ~ loader.framebuffer THEN Fault ELSE "memmap")
      /\ writer' = (IF loaderID /\ loader.framebuffer THEN "FBCON_Write" ELSE writer)
      /\ ~ idt /\ Fault = "reset"
  <2>1. ~ idt
    BY DEF FBCON_Init, BootInv, Followed, Late
  <2> QED
    BY <2>1 DEF FBCON_Init, Kept, scanVars, Fault
<1>2. LogGoes'
  <2>1. writer = "COM_LogWrapper" /\ (loaderID <=> loader.info # NULL)
    BY <1>1 DEF BootInv, LogGoes
  <2> QED
    BY <1>1, <2>1 DEF LogGoes, Late
<1>3. HeapFollowsMap'
  BY <1>1, HeapKeeps DEF BootInv, HeapFollowsMap, Late
<1>4. Followed'
  BY <1>1 DEF BootInv, Followed, Late
<1>5. StopsForCause'
  BY <1>1 DEF BootInv, LogGoes, Followed, Late, StopsForCause
<1> QED
  BY <1>2, <1>3, <1>4, <1>5 DEF BootInv

\* A usable region becomes the heap.
LEMMA MapEntryKeeps == BootInv /\ MapEntry => BootInv'
<1> SUFFICES ASSUME BootInv, MapEntry PROVE BootInv'
  OBVIOUS
<1>1. /\ pc = "memmap" /\ loader.memmap # NULL /\ entry <= Len(loader.memmap)
      /\ heap' = (IF loader.memmap[entry].usable THEN loader.memmap[entry].base ELSE heap)
      /\ entry' = entry + 1
      /\ UNCHANGED <<loader, pc, writer, loaderID, initramfs, idt, attached>>
  BY DEF MapEntry, Kept, scanVars
<1>2. LogGoes' /\ StopsForCause'
  BY <1>1 DEF BootInv, LogGoes, StopsForCause, Late
<1>3. HeapFollowsMap'
  <2>1. /\ entry \in Nat \ {0} /\ loader.memmap \in Seq([base : Nat, usable : BOOLEAN])
        /\ \A j \in DOMAIN loader.memmap :
              loader.memmap[j].usable => loader.memmap[j].base # 0
    BY <1>1, LoadersAssumption DEF BootInv, HeapFollowsMap, Followed, Responses
  <2>2. entry \in DOMAIN loader.memmap /\ loader.memmap[entry].base \in Nat
    <3>1. Len(loader.memmap) \in Nat /\ DOMAIN loader.memmap = 1 .. Len(loader.memmap)
      BY <2>1, LenProperties
    <3>2. entry \in 1 .. Len(loader.memmap)
      BY <1>1, <2>1, <3>1
    <3>3. loader.memmap[entry] \in [base : Nat, usable : BOOLEAN]
      BY <2>1, <3>2, ElementOfSeq
    <3> QED
      BY <3>1, <3>2, <3>3
  <2>3. loader.memmap[entry].base # NULL
    BY <2>2, NullAssumption
  <2>4. 1 .. (entry' - 1) = 1 .. (entry - 1) \cup {entry}
    BY <1>1, <2>1
  <2>5. \A j : Usable(j)' <=> Usable(j)
    BY <1>1, SameMap
  <2>6. Usable(entry) <=> loader.memmap[entry].usable
    BY <2>2 DEF Usable
  <2>7. entry' \in Nat \ {0} /\ entry \in 1 .. (entry' - 1)
    BY <1>1, <2>1
  <2>8. CASE loader.memmap[entry].usable
    <3>1. heap' = loader'.memmap[entry].base
      BY <1>1, <2>8
    <3>2. heap' # NULL
      BY <1>1, <2>3, <3>1
    <3>3. \E j \in 1 .. (entry' - 1) : Usable(j)' /\ heap' = loader'.memmap[j].base
      BY <2>5, <2>6, <2>7, <2>8, <3>1, Zenon
    <3>4. pc' \notin Late \cup {"module", "create_idt"}
      BY <1>1 DEF Late
    <3> QED
      BY <2>7, <3>2, <3>3, <3>4, Zenon DEF HeapFollowsMap
  <2>9. CASE ~ loader.memmap[entry].usable
    <3>1. heap' = heap
      BY <1>1, <2>9
    <3>2. heap # NULL => \E j \in 1 .. (entry' - 1) : Usable(j)' /\ heap = loader.memmap[j].base
      BY <2>4, <2>5 DEF BootInv, HeapFollowsMap
    <3>3. heap = NULL => \A j \in 1 .. (entry' - 1) : ~ Usable(j)'
      BY <2>4, <2>5, <2>6, <2>9 DEF BootInv, HeapFollowsMap
    <3> QED
      BY <1>1, <2>7, <3>1, <3>2, <3>3 DEF HeapFollowsMap, Late
  <2> QED
    BY <2>8, <2>9
<1>4. Followed'
  <2>1. attached = << >>
    BY <1>1 DEF BootInv, Followed
  <2> QED
    BY <1>1, <2>1 DEF BootInv, Followed
<1> QED
  BY <1>2, <1>3, <1>4 DEF BootInv

\* The map ends, or there was none.
LEMMA MapEndKeeps == BootInv /\ MapEnd => BootInv'
<1> SUFFICES ASSUME BootInv, MapEnd PROVE BootInv'
  OBVIOUS
<1>1. /\ pc = "memmap"
      /\ \/ loader.memmap = NULL /\ (~ idt => pc' = "reset") /\ (idt => pc' = "panic")
         \/ loader.memmap # NULL /\ entry > Len(loader.memmap) /\ pc' = "module"
      /\ UNCHANGED <<loader, entry, writer, loaderID, heap, initramfs, idt, attached>>
  BY DEF MapEnd, Kept, scanVars, Fault, globals
<1>2. LogGoes'
  <2>1. pc' \notin {"BOOT_CheckLoader", "FBCON_Init"} /\ pc' # "FBCON_Init"
    BY <1>1
  <2>2. writer = IF loader.info # NULL THEN "FBCON_Write" ELSE "COM_LogWrapper"
    BY <1>1 DEF BootInv, LogGoes
  <2>3. writer' = IF loader'.info # NULL THEN "FBCON_Write" ELSE "COM_LogWrapper"
    <3>1. writer' = writer /\ loader' = loader
      BY <1>1
    <3> QED
      BY <2>2, <3>1, Zenon
  <2> QED
    BY <2>1, <2>3, Zenon DEF LogGoes
<1>3. HeapFollowsMap'
  <2>1. ~ idt
    BY <1>1 DEF BootInv, Followed, Late
  <2> QED
    BY <1>1, <2>1, HeapKeeps DEF BootInv, Late
<1>4. Followed'
  BY <1>1 DEF BootInv, Followed, Late
<1>5. StopsForCause'
  BY <1>1 DEF BootInv, Followed, Late, StopsForCause
<1> QED
  BY <1>2, <1>3, <1>4, <1>5 DEF BootInv

\* The module's response is followed.
LEMMA TakeModuleKeeps == BootInv /\ TakeModule => BootInv'
<1> SUFFICES ASSUME BootInv, TakeModule PROVE BootInv'
  OBVIOUS
<1>1. /\ pc = "module" /\ (initramfs' = loader.module)
      /\ (loader.module => pc' = "create_idt")
      /\ (~ loader.module /\ ~ idt => pc' = "reset") /\ (~ loader.module /\ idt => pc' = "panic")
      /\ UNCHANGED <<loader, entry, writer, loaderID, heap, idt, attached>>
  BY DEF TakeModule, Kept, scanVars, Fault
<1>2. LogGoes'
  BY <1>1 DEF BootInv, LogGoes, Late
<1>3. HeapFollowsMap'
  BY <1>1, HeapKeeps DEF BootInv, HeapFollowsMap, Late
<1>4. Followed'
  BY <1>1 DEF BootInv, Followed, Late
<1>5. StopsForCause'
  BY <1>1 DEF BootInv, Followed, Late, StopsForCause
<1> QED
  BY <1>2, <1>3, <1>4, <1>5 DEF BootInv

\* From here on a fault panics.
LEMMA CreateIdtKeeps == BootInv /\ CreateIdt => BootInv'
<1> SUFFICES ASSUME BootInv, CreateIdt PROVE BootInv'
  OBVIOUS
<1>1. /\ pc = "create_idt" /\ pc' = "addresses" /\ idt'
      /\ UNCHANGED <<loader, entry, writer, loaderID, heap, initramfs, attached>>
  BY DEF CreateIdt, Kept, scanVars
<1>2. LogGoes'
  BY <1>1 DEF BootInv, LogGoes, Late
<1>3. HeapFollowsMap'
  BY <1>1, HeapKeeps DEF BootInv, HeapFollowsMap, Late
<1>4. Followed'
  BY <1>1 DEF BootInv, Followed, Late
<1>5. StopsForCause'
  BY <1>1 DEF BootInv, StopsForCause
<1> QED
  BY <1>2, <1>3, <1>4, <1>5 DEF BootInv

\* The kernel's address is asked for.
LEMMA TakeAddressesKeeps == BootInv /\ TakeAddresses => BootInv'
<1> SUFFICES ASSUME BootInv, TakeAddresses PROVE BootInv'
  OBVIOUS
<1>1. /\ pc = "addresses" /\ (loader.addresses => pc' = "hhdm") /\ (~ loader.addresses /\ idt => pc' = "panic")
      /\ (~ loader.addresses => pc' \in {"panic", "reset"})
      /\ UNCHANGED <<loader, entry, writer, loaderID, heap, initramfs, idt, attached>>
  BY DEF TakeAddresses, Kept, scanVars, Fault, globals
<1>2. LogGoes'
  BY <1>1 DEF BootInv, LogGoes, Late
<1>3. HeapFollowsMap'
  BY <1>1, HeapKeeps DEF BootInv, HeapFollowsMap, Late
<1>4. Followed'
  BY <1>1 DEF BootInv, Followed, Late
<1>5. StopsForCause'
  BY <1>1 DEF BootInv, Followed, LogGoes, Late, StopsForCause
<1> QED
  BY <1>2, <1>3, <1>4, <1>5 DEF BootInv

\* The direct map's offset is asked for.
LEMMA TakeHhdmKeeps == BootInv /\ TakeHhdm => BootInv'
<1> SUFFICES ASSUME BootInv, TakeHhdm PROVE BootInv'
  OBVIOUS
<1>1. /\ pc = "hhdm" /\ (loader.hhdm => pc' = "ramdisk") /\ (~ loader.hhdm /\ idt => pc' = "panic")
      /\ (~ loader.hhdm => pc' \in {"panic", "reset"})
      /\ UNCHANGED <<loader, entry, writer, loaderID, heap, initramfs, idt, attached>>
  BY DEF TakeHhdm, Kept, scanVars, Fault, globals
<1>2. LogGoes'
  BY <1>1 DEF BootInv, LogGoes, Late
<1>3. HeapFollowsMap'
  BY <1>1, HeapKeeps DEF BootInv, HeapFollowsMap, Late
<1>4. Followed'
  BY <1>1 DEF BootInv, Followed, Late
<1>5. StopsForCause'
  BY <1>1 DEF BootInv, Followed, LogGoes, Late, StopsForCause
<1> QED
  BY <1>2, <1>3, <1>4, <1>5 DEF BootInv

\* The RSDP's response is followed.
LEMMA EnterACPIKeeps == BootInv /\ EnterACPI => BootInv'
<1> SUFFICES ASSUME BootInv, EnterACPI PROVE BootInv'
  OBVIOUS
<1>1. /\ pc = "ACPI_Init" /\ (loader.rsdp => pc' = "scan") /\ (~ loader.rsdp /\ idt => pc' = "panic")
      /\ (~ loader.rsdp => pc' \in {"panic", "reset"})
      /\ UNCHANGED <<loader, entry, writer, loaderID, heap, initramfs, idt, attached>>
  BY DEF EnterACPI, Kept, scanVars, Fault, globals
<1>2. LogGoes'
  BY <1>1 DEF BootInv, LogGoes, Late
<1>3. HeapFollowsMap'
  BY <1>1, HeapKeeps DEF BootInv, HeapFollowsMap, Late
<1>4. Followed'
  BY <1>1 DEF BootInv, Followed, Late
<1>5. StopsForCause'
  BY <1>1 DEF BootInv, Followed, LogGoes, Late, StopsForCause
<1> QED
  BY <1>2, <1>3, <1>4, <1>5 DEF BootInv

\* The ramdisk is there.
LEMMA TestRamdiskKeeps == BootInv /\ TestRamdisk => BootInv'
<1> SUFFICES ASSUME BootInv, TestRamdisk PROVE BootInv'
  OBVIOUS
<1>1. /\ pc = "ramdisk" /\ (initramfs => pc' = "parse") /\ (~ initramfs => pc' = "panic")
      /\ UNCHANGED <<loader, entry, writer, loaderID, heap, initramfs, idt, attached>>
  BY DEF TestRamdisk, Kept, scanVars, globals
<1>2. LogGoes'
  BY <1>1 DEF BootInv, LogGoes, Late
<1>3. HeapFollowsMap'
  BY <1>1, HeapKeeps DEF BootInv, HeapFollowsMap, Late
<1>4. Followed'
  BY <1>1 DEF BootInv, Followed, Late
<1>5. StopsForCause'
  BY <1>1 DEF BootInv, Followed, Late, StopsForCause
<1> QED
  BY <1>2, <1>3, <1>4, <1>5 DEF BootInv

\* The ramdisk is parsed.
LEMMA ParseKeeps == BootInv /\ Parse => BootInv'
<1> SUFFICES ASSUME BootInv, Parse PROVE BootInv'
  OBVIOUS
<1>1. /\ pc = "parse" /\ pc' \in {"parse", "ACPI_Init"}
      /\ UNCHANGED <<loader, entry, writer, loaderID, heap, initramfs, idt, attached>>
  BY DEF Parse, Kept, scanVars, globals
<1>2. LogGoes'
  BY <1>1 DEF BootInv, LogGoes, Late
<1>3. HeapFollowsMap'
  BY <1>1, HeapKeeps DEF BootInv, HeapFollowsMap, Late
<1>4. Followed'
  BY <1>1 DEF BootInv, Followed, Late
<1>5. StopsForCause'
  BY <1>1 DEF BootInv, StopsForCause
<1> QED
  BY <1>2, <1>3, <1>4, <1>5 DEF BootInv

\* The boot is over.
LEMMA GreetKeeps == BootInv /\ Greet => BootInv'
<1> SUFFICES ASSUME BootInv, Greet PROVE BootInv'
  OBVIOUS
<1>1. /\ pc = "scan" /\ pc' = "idle"
      /\ UNCHANGED <<loader, entry, writer, loaderID, heap, initramfs, idt, attached>>
  BY DEF Greet, Kept, scanVars, globals
<1>2. LogGoes'
  BY <1>1 DEF BootInv, LogGoes, Late
<1>3. HeapFollowsMap'
  BY <1>1, HeapKeeps DEF BootInv, HeapFollowsMap, Late
<1>4. Followed'
  BY <1>1 DEF BootInv, Followed, Late
<1>5. StopsForCause'
  BY <1>1 DEF BootInv, StopsForCause
<1> QED
  BY <1>2, <1>3, <1>4, <1>5 DEF BootInv

\* The devices are searched; a driver without a heap panics, and one whose
\* pointers are wild may do anything.
LEMMA ScanStepKeeps == BootInv /\ Started /\ ScanStep => BootInv'
<1> SUFFICES ASSUME BootInv, Started, ScanStep PROVE BootInv'
  OBVIOUS
<1>0. pc = "scan" /\ idt /\ initramfs
  BY DEF ScanStep, BootInv, Followed, Late
<1>1. /\ UNCHANGED <<loader, residue, entry, writer, loaderID, heap, initramfs, idt>>
      /\ \/ pc' = "scan" /\ attached' = attached
         \/ pc' = "panic" /\ scanAt' = "panic"
         \/ pc' = "panic" /\ heap = NULL
         \/ pc' \in {"scan", "AHCI"} /\ heap # NULL
         \/ pc' \in {"panic", "reset"} /\ heap # NULL /\ Wild /\ attached' # attached
  <2>1. Fault = "panic"
    BY <1>0 DEF Fault
  <2>2. UNCHANGED <<loader, residue, entry, writer, loaderID, heap, initramfs, idt>>
    BY Zenon DEF ScanStep, globals
  <2>3. \/ scanAt' = "panic" /\ pc' = "panic"
        \/ attached' # attached /\ pc' \in DriverEnds
        \/ attached' = attached /\ pc' = "scan"
    BY Zenon DEF ScanStep
  <2>4. DriverEnds = IF heap = NULL THEN {"panic"}
                     ELSE {"scan", "AHCI"} \cup (IF Wild THEN {"panic", "reset"} ELSE {})
    BY <2>1 DEF DriverEnds
  <2> QED
    BY <2>2, <2>3, <2>4
<1>2. /\ firmware' = firmware
      /\ scanAt' = "panic" => ~ firmware.rsdt \/ mcfg' = NULL \/ AtUnnamedClass'
      /\ attached' # attached => attached' # << >>
  <2>1. Scan!Next
    BY DEF ScanStep
  <2>2. ASSUME NEW slot \in DOMAIN space, attached' = Append(attached, slot)
        PROVE  attached' # << >>
    <3>1. Len(Append(attached, slot)) = Len(attached) + 1 /\ Len(attached) \in Nat
      BY AppendProperties, LenProperties DEF Started
    <3>2. Len(<< >>) = 0
      OBVIOUS
    <3> QED
      BY <2>2, <3>1, <3>2
  <2> QED
    BY <2>1, <2>2, ScanEffect
<1>4. LogGoes'
  BY <1>1, <1>0 DEF BootInv, LogGoes, Late
<1>5. HeapFollowsMap'
  <2>1. loader.memmap # NULL /\ entry > Len(loader.memmap)
    BY <1>0, <1>1 DEF BootInv, HeapFollowsMap, Late
  <2> QED
    BY <1>1, <2>1, HeapKeeps DEF BootInv
<1>6. Followed'
  BY <1>1, <1>0 DEF BootInv, Followed, Late
<1>7. StopsForCause'
  <2>1. heap = NULL => \A j \in DOMAIN loader.memmap : ~ loader.memmap[j].usable
    <3>1. /\ entry \in Nat /\ loader.memmap # NULL /\ entry > Len(loader.memmap)
          /\ heap = NULL => \A j \in 1 .. (entry - 1) : ~ Usable(j)
      BY <1>0, <1>1 DEF BootInv, HeapFollowsMap, Late
    <3>2. loader.memmap \in Seq([base : Nat, usable : BOOLEAN])
      BY <3>1, LoadersAssumption DEF BootInv, Followed, Responses
    <3>3. \A j \in DOMAIN loader.memmap : j \in 1 .. (entry - 1)
      <4>1. Len(loader.memmap) \in Nat /\ DOMAIN loader.memmap = 1 .. Len(loader.memmap)
        BY <3>2, LenProperties
      <4> QED
        BY <3>1, <4>1
    <3> QED
      BY <3>1, <3>3 DEF Usable
  <2>2. writer' = IF loader.info # NULL THEN "FBCON_Write" ELSE "COM_LogWrapper"
    BY <1>0, <1>1 DEF BootInv, LogGoes, Late
  <2>3. heap # NULL /\ Wild /\ attached' # attached => WildDriver'
    BY <1>1, <1>2 DEF WildDriver, Wild
  <2>4. pc' = "panic" =>
          \/ ~ firmware'.rsdt \/ mcfg' = NULL \/ AtUnnamedClass' \/ WildDriver'
          \/ \A j \in DOMAIN loader'.memmap : ~ loader'.memmap[j].usable
    BY <1>1, <1>2, <2>1, <2>3
  <2>5. pc' = "reset" => WildDriver'
    BY <1>1, <2>3
  <2>6. writer' = IF loader'.info # NULL THEN "FBCON_Write" ELSE "COM_LogWrapper"
    BY <1>1, <2>2
  <2> QED
    BY <2>4, <2>5, <2>6, Zenon DEF StopsForCause
<1> QED
  BY <1>4, <1>5, <1>6, <1>7 DEF BootInv

\* The mouse panics the machine, but only once there are gates.
LEMMA MouseInterruptKeeps == BootInv /\ MouseInterrupt => BootInv'
<1> SUFFICES ASSUME BootInv, MouseInterrupt PROVE BootInv'
  OBVIOUS
<1>1. /\ idt /\ mouse' /\ pc \in Late /\ pc' = "panic"
      /\ UNCHANGED <<loader, entry, writer, loaderID, heap, initramfs, idt, attached>>
  BY DEF MouseInterrupt, Kept, scanVars, globals, BootInv, Followed
<1>2. LogGoes'
  BY <1>1 DEF BootInv, LogGoes, Late
<1>3. HeapFollowsMap'
  BY <1>1, HeapKeeps DEF BootInv, HeapFollowsMap, Late
<1>4. Followed'
  BY <1>1 DEF BootInv, Followed, Late
<1>5. StopsForCause'
  BY <1>1, <1>2 DEF LogGoes, Late, StopsForCause
<1> QED
  BY <1>2, <1>3, <1>4, <1>5 DEF BootInv

\* The calls from the idle loop leave all of it alone.
LEMMA OthersKeep == BootInv /\ (Call \/ Turn \/ UNCHANGED vars) => BootInv'
<1> SUFFICES ASSUME BootInv, Call \/ Turn \/ UNCHANGED vars PROVE BootInv'
  OBVIOUS
<1>1. UNCHANGED <<loader, residue, mouse, pc, entry, globals, scanVars>>
  <2>1. CASE Call
    BY <2>1, Zenon DEF Call
  <2>2. CASE Turn
    BY <2>2, Zenon DEF Turn
  <2>3. CASE UNCHANGED vars
    BY <2>3, Zenon DEF vars
  <2> QED
    BY <2>1, <2>2, <2>3
<1>2. UNCHANGED <<loader, pc, entry, writer, loaderID, heap, initramfs, idt, attached,
                  residue, mouse, firmware, space, scanAt, mcfg, bus, device, function>>
  BY <1>1 DEF globals, scanVars
<1>3. LogGoes'
  BY <1>2 DEF BootInv, LogGoes
<1>4. HeapFollowsMap'
  BY <1>2, HeapKeeps DEF BootInv, HeapFollowsMap
<1>5. Followed'
  BY <1>2 DEF BootInv, Followed
<1>6. StopsForCause'
  <2>1. (WildDriver' <=> WildDriver) /\ (AtUnnamedClass' <=> AtUnnamedClass)
    BY <1>2 DEF WildDriver, Wild, AtUnnamedClass
  <2> QED
    BY <1>2, <2>1 DEF BootInv, StopsForCause
<1> QED
  BY <1>3, <1>4, <1>5, <1>6 DEF BootInv

LEMMA InitInv == Init => BootInv
<1> SUFFICES ASSUME Init PROVE BootInv
  OBVIOUS
<1>1. loader \in Loaders \cup {Usual.loader}
  BY DEF Init, Environment
<1>2. /\ pc = "init" /\ entry = 1 /\ heap = NULL /\ idt = FALSE /\ attached = << >>
  BY DEF Init, Scan!Start
<1> QED
  BY <1>1, <1>2 DEF BootInv, LogGoes, HeapFollowsMap, Followed, StopsForCause, Late

LEMMA StepInv == BootInv /\ Started /\ [Next]_vars => BootInv'
<1> SUFFICES ASSUME BootInv, Started, [Next]_vars PROVE BootInv'
  OBVIOUS
<1>1. CASE BootStep
  BY <1>1, SetWriteFuncKeeps, BOOT_CheckLoaderKeeps, FBCON_InitKeeps, MapEntryKeeps,
     MapEndKeeps, TakeModuleKeeps, CreateIdtKeeps, TakeAddressesKeeps, TakeHhdmKeeps,
     TestRamdiskKeeps, ParseKeeps, EnterACPIKeeps, ScanStepKeeps, GreetKeeps DEF BootStep
<1>2. CASE Call \/ Turn \/ UNCHANGED vars
  BY <1>2, OthersKeep
<1> QED
  BY <1>1, <1>2, MouseInterruptKeeps DEF Next

\* Only the search starts the driver.
LEMMA OnlyTheScan ==
    ASSUME [Next]_vars, ~ ScanStep
    PROVE  UNCHANGED scanVars
<1>1. CASE BootStep
  BY <1>1, Zenon
     DEF BootStep, SetWriteFunc, BOOT_CheckLoader, FBCON_Init, MapEntry, MapEnd, TakeModule,
         CreateIdt, TakeAddresses, TakeHhdm, TestRamdisk, Parse, EnterACPI, Greet, Kept
<1>2. CASE MouseInterrupt \/ Call \/ Turn
  BY <1>2, Zenon DEF MouseInterrupt, Call, Turn, Kept
<1>3. CASE UNCHANGED vars
  BY <1>3, Zenon DEF vars
<1> QED
  BY <1>1, <1>2, <1>3 DEF Next

LEMMA StartedKeeps == Started /\ [Next]_vars => Started'
<1> SUFFICES ASSUME Started, [Next]_vars PROVE Started'
  OBVIOUS
<1>1. CASE ScanStep
  <2>1. space' = space
        /\ (attached' = attached \/ \E slot \in DOMAIN space : attached' = Append(attached, slot))
    BY <1>1, ScanEffect DEF ScanStep
  <2> QED
    BY <2>1, AppendProperties DEF Started
<1>2. CASE ~ ScanStep
  BY <1>2, OnlyTheScan DEF scanVars, Started
<1> QED
  BY <1>1, <1>2

-----------------------------------------------------------------------------
(* The walk of the devices: what has been printed are the functions that    *)
(* it is to find and has behind it, each once.                              *)

Walk == {"bus", "device", "function"}

\* The tables, and the variables of the loops.
Tables ==
    /\ firmware \in Firmwares /\ space \in Spaces
    /\ mcfg = NULL \/ (mcfg \in Seq(Scan!AddressRange) /\ Scan!Disjoint(mcfg))
    /\ scanAt \in Walk \cup {"range", "done"} => mcfg # NULL

InRange(j, b) == mcfg[j].start <= b /\ b < mcfg[j].end

Loops ==
    /\ scanIndex \in Nat \ {0}
    /\ bus \in 0 .. Buses /\ device \in 0 .. Devices /\ function \in 0 .. Functions
    /\ scanAt = "done" => scanIndex > Len(mcfg)
    /\ scanAt \in Walk => scanIndex <= Len(mcfg) /\ mcfg[scanIndex].start <= bus
    /\ scanAt \in {"device", "function"} =>
        bus < mcfg[scanIndex].end /\ Scan!Present(bus, 0, 0)
    /\ scanAt = "function" => device < Devices /\ Scan!Present(bus, device, 0)

\* Slot s lies in a range, and the walk has been there.
Behind(s) ==
    \/ \E j \in DOMAIN mcfg : j < scanIndex /\ InRange(j, s[1])
    \/ /\ scanAt \in Walk /\ InRange(scanIndex, s[1])
       /\ \/ s[1] < bus
          \/ scanAt # "bus" /\ s[1] = bus /\ s[2] < device
          \/ scanAt = "function" /\ s[1] = bus /\ s[2] = device /\ s[3] < function

Covered == {s \in Scan!Reachable : Behind(s)}

Line == [slot : Scan!Slot, shown : UNION {Scan!Shown(k) : k \in Scan!ConfigHeader}]

Lines ==
    /\ printed \in Seq(Line) /\ attached \in Seq(Scan!Slot)
    /\ IF scanAt \in Walk \cup {"range", "done"}
         THEN /\ \A s \in Scan!Slot :
                  s \in Covered <=> \E j \in DOMAIN printed : printed[j].slot = s
              /\ \A s \in Scan!Slot :
                  s \in Covered /\ Scan!IsAhci(space[s])
                    <=> \E j \in DOMAIN attached : attached[j] = s
         ELSE scanAt # "panic" => printed = << >> /\ attached = << >>
    /\ \A j, k \in DOMAIN printed : j # k => printed[j].slot # printed[k].slot
    /\ \A j, k \in DOMAIN attached : j # k => attached[j] # attached[k]

ScanInv == Tables /\ Loops /\ Lines

LEMMA SizesAre == Buses \in Nat /\ Devices \in Nat /\ Functions \in Nat
                  /\ Buses > 0 /\ Devices > 0 /\ Functions > 0
<1>1. Buses \in Nat \ {0} /\ Devices \in Nat \ {0} /\ Functions \in Nat \ {0}
  BY SizesAssumption, Zenon DEF Scan!SizesAssumption
<1> QED
  BY <1>1

LEMMA SpaceIs ==
    ASSUME space \in Spaces
    PROVE  /\ DOMAIN space \subseteq Scan!Slot
           /\ \A s \in DOMAIN space : space[s] \in Scan!ConfigHeader
BY SpacesAssumption, Zenon DEF Scan!SpacesAssumption

\* The parts of a slot are numbers.
LEMMA SlotParts ==
    ASSUME NEW s \in Scan!Slot
    PROVE  /\ s = <<s[1], s[2], s[3]>>
           /\ s[1] \in Nat /\ s[2] \in Nat /\ s[3] \in Nat
           /\ s[1] < Buses /\ s[2] < Devices /\ s[3] < Functions
<1>1. PICK b \in 0 .. Buses - 1, d \in 0 .. Devices - 1, f \in 0 .. Functions - 1 :
          s = <<b, d, f>>
  BY DEF Scan!Slot
<1> QED
  BY <1>1, SizesAre

\* The ranges of the table.
LEMMA RangesAre ==
    ASSUME Tables, mcfg # NULL
    PROVE  /\ Len(mcfg) \in Nat /\ DOMAIN mcfg = 1 .. Len(mcfg)
           /\ \A j \in DOMAIN mcfg : mcfg[j].start \in 0 .. Buses /\ mcfg[j].end \in 0 .. Buses
           /\ Scan!Disjoint(mcfg)
<1>1. mcfg \in Seq(Scan!AddressRange) /\ Scan!Disjoint(mcfg)
  BY DEF Tables
<1>2. Len(mcfg) \in Nat /\ DOMAIN mcfg = 1 .. Len(mcfg)
  BY <1>1, LenProperties
<1>3. \A j \in DOMAIN mcfg : mcfg[j] \in Scan!AddressRange
  BY <1>1, <1>2, ElementOfSeq
<1> QED
  BY <1>1, <1>2, <1>3 DEF Scan!AddressRange

\* What the walk is to find does not change.
LEMMA ReachableStays ==
    ASSUME UNCHANGED <<space, mcfg>>
    PROVE  Scan!Reachable' = Scan!Reachable
BY DEF Scan!Reachable, Scan!Present

\* A slot to be found lies in a range, on a bus and a device that are present.
LEMMA ReachableIs ==
    ASSUME NEW s \in Scan!Slot
    PROVE  s \in Scan!Reachable <=>
               /\ s \in DOMAIN space
               /\ \E j \in DOMAIN mcfg : InRange(j, s[1])
               /\ Scan!Present(s[1], 0, 0) /\ Scan!Present(s[1], s[2], 0)
BY DEF Scan!Reachable, InRange

-----------------------------------------------------------------------------
(* A step that prints nothing has nothing new to find behind it.            *)

Walking == scanAt \in Walk \cup {"range", "done"}

LEMMA LinesStay ==
    ASSUME Lines, Walking, Walking', UNCHANGED <<space, printed, attached>>,
           \A s \in Scan!Slot : (s \in Covered)' <=> s \in Covered
    PROVE  Lines'
<1>1. /\ \A s \in Scan!Slot :
            (s \in Covered)' <=> \E j \in DOMAIN printed : printed[j].slot = s
      /\ \A s \in Scan!Slot :
            (s \in Covered)' /\ Scan!IsAhci(space[s]) <=> \E j \in DOMAIN attached : attached[j] = s
  BY DEF Lines, Walking
<1> QED
  BY <1>1 DEF Lines, Walking

\* Whether a slot to be found is behind the walk, as far as it matters.
LEMMA CoveredStays ==
    ASSUME UNCHANGED <<space, mcfg>>,
           NEW s \in Scan!Slot, s \in Scan!Reachable => (Behind(s)' <=> Behind(s))
    PROVE  (s \in Covered)' <=> s \in Covered
BY ReachableStays DEF Covered

LEMMA EnumeratePCIWalks ==
    ASSUME ScanInv, Scan!EnumeratePCI
    PROVE  ScanInv'
<1>1. /\ scanAt = "PCI" /\ UNCHANGED <<firmware, space, mcfg, bus, device, function>>
      /\ UNCHANGED <<printed, attached>>
      /\ IF mcfg = NULL THEN scanAt' = "panic" /\ UNCHANGED scanIndex
                        ELSE scanAt' = "range" /\ scanIndex' = 1
  BY DEF Scan!EnumeratePCI, Scan!Pci
<1>2. Tables'
  BY <1>1 DEF ScanInv, Tables, Walk
<1>3. Loops'
  BY <1>1 DEF ScanInv, Loops, Walk
<1>4. Lines'
  <2>1. printed = << >> /\ attached = << >> /\ printed' = << >> /\ attached' = << >>
    BY <1>1 DEF ScanInv, Lines, Walk
  <2>2. CASE mcfg = NULL
    BY <1>1, <2>1, <2>2 DEF ScanInv, Lines, Walk
  <2>3. CASE mcfg # NULL
    <3>1. \A s \in Scan!Slot : s \notin Covered'
      <4> SUFFICES ASSUME NEW s \in Scan!Slot PROVE ~ Behind(s)'
        BY DEF Covered
      <4>1. DOMAIN mcfg' = 1 .. Len(mcfg') /\ Len(mcfg') \in Nat
        BY <1>1, <2>3, RangesAre DEF ScanInv
      <4> QED
        BY <1>1, <2>3, <4>1 DEF Behind, Walk
    <3>2. DOMAIN printed' = {} /\ DOMAIN attached' = {}
      BY <2>1
    <3>3. printed' \in Seq(Line) /\ attached' \in Seq(Scan!Slot)
      BY <2>1, EmptySeq
    <3> QED
      BY <3>1, <3>2, <3>3 DEF Lines
  <2> QED
    BY <2>2, <2>3
<1> QED
  BY <1>2, <1>3, <1>4 DEF ScanInv

LEMMA NextRangeWalks ==
    ASSUME ScanInv, Scan!NextRange
    PROVE  ScanInv'
<1>1. /\ scanAt = "range"
      /\ UNCHANGED <<firmware, space, mcfg, scanIndex, device, function, printed, attached>>
      /\ IF scanIndex > Len(mcfg) THEN scanAt' = "done" /\ UNCHANGED bus
                                  ELSE scanAt' = "bus" /\ bus' = mcfg[scanIndex].start
  BY DEF Scan!NextRange, Scan!Pci
<1>2. mcfg # NULL /\ scanIndex \in Nat \ {0}
  BY <1>1 DEF ScanInv, Tables, Loops
<1>3. /\ Len(mcfg) \in Nat /\ DOMAIN mcfg = 1 .. Len(mcfg)
      /\ \A j \in DOMAIN mcfg : mcfg[j].start \in 0 .. Buses /\ mcfg[j].end \in 0 .. Buses
  BY <1>2, RangesAre DEF ScanInv
<1>4. Tables'
  BY <1>1, <1>2 DEF ScanInv, Tables
<1>5. Loops'
  <2>1. CASE scanIndex > Len(mcfg)
    BY <1>1, <2>1 DEF ScanInv, Loops, Walk
  <2>2. CASE ~ scanIndex > Len(mcfg)
    <3>1. scanIndex \in DOMAIN mcfg /\ scanIndex <= Len(mcfg)
      BY <1>2, <1>3, <2>2
    <3>2. mcfg[scanIndex].start \in 0 .. Buses
      BY <1>3, <3>1
    <3>3. bus' = mcfg[scanIndex].start /\ scanAt' = "bus" /\ mcfg[scanIndex].start <= bus'
      BY <1>1, <2>2, <3>2, SizesAre
    <3> QED
      BY <1>1, <3>1, <3>2, <3>3 DEF ScanInv, Loops, Walk
  <2> QED
    BY <2>1, <2>2
<1>6. Lines'
  <2>1. \A s \in Scan!Slot : (s \in Covered)' <=> s \in Covered
    <3> SUFFICES ASSUME NEW s \in Scan!Slot, s \in Scan!Reachable
                 PROVE  Behind(s)' <=> Behind(s)
      BY <1>1, CoveredStays
    <3>1. s[1] \in Nat
      BY SlotParts
    <3>2. Behind(s) <=> \E j \in DOMAIN mcfg : j < scanIndex /\ InRange(j, s[1])
      BY <1>1 DEF Behind, Walk
    <3>3. Behind(s)' <=> \E j \in DOMAIN mcfg : j < scanIndex /\ InRange(j, s[1])
      <4>1. CASE scanIndex > Len(mcfg)
        BY <1>1, <4>1 DEF Behind, Walk, InRange
      <4>2. CASE ~ scanIndex > Len(mcfg)
        <5>1. scanIndex \in DOMAIN mcfg
          BY <1>2, <1>3, <4>2
        <5>2. mcfg[scanIndex].start \in 0 .. Buses
          BY <1>3, <5>1
        <5>3. InRange(scanIndex, s[1])' => ~ s[1] < bus'
          BY <1>1, <3>1, <4>2, <5>2, SizesAre DEF InRange
        <5> QED
          BY <1>1, <4>2, <5>3 DEF Behind, InRange
      <4> QED
        BY <4>1, <4>2
    <3> QED
      BY <3>2, <3>3
  <2> QED
    BY <1>1, <2>1, LinesStay DEF ScanInv, Walking, Walk
<1> QED
  BY <1>4, <1>5, <1>6 DEF ScanInv

LEMMA EnumerateBusWalks ==
    ASSUME ScanInv, Scan!EnumerateBus
    PROVE  ScanInv'
<1>1. /\ scanAt = "bus"
      /\ UNCHANGED <<firmware, space, mcfg, function, printed, attached>>
      /\ \/ /\ bus >= mcfg[scanIndex].end
            /\ scanAt' = "range" /\ scanIndex' = scanIndex + 1 /\ UNCHANGED <<bus, device>>
         \/ /\ bus < mcfg[scanIndex].end /\ Scan!Present(bus, 0, 0)
            /\ scanAt' = "device" /\ device' = 0 /\ UNCHANGED <<scanIndex, bus>>
         \/ /\ bus < mcfg[scanIndex].end /\ ~ Scan!Present(bus, 0, 0)
            /\ bus' = bus + 1 /\ UNCHANGED <<scanAt, scanIndex, device>>
  BY DEF Scan!EnumerateBus, Scan!Pci
<1>2. /\ mcfg # NULL /\ scanIndex \in Nat \ {0} /\ scanIndex <= Len(mcfg)
      /\ bus \in 0 .. Buses /\ mcfg[scanIndex].start <= bus
  BY <1>1 DEF ScanInv, Tables, Loops, Walk
<1>3. /\ Len(mcfg) \in Nat /\ DOMAIN mcfg = 1 .. Len(mcfg)
      /\ \A j \in DOMAIN mcfg : mcfg[j].start \in 0 .. Buses /\ mcfg[j].end \in 0 .. Buses
  BY <1>2, RangesAre DEF ScanInv
<1>4. scanIndex \in DOMAIN mcfg
  BY <1>2, <1>3
<1>5. mcfg[scanIndex].start \in 0 .. Buses /\ mcfg[scanIndex].end \in 0 .. Buses
  BY <1>3, <1>4
<1>6. Tables'
  BY <1>1, <1>2 DEF ScanInv, Tables
<1>7. Loops'
  <2>1. bus' \in 0 .. Buses /\ mcfg[scanIndex].start <= bus'
    BY <1>1, <1>2, <1>5, SizesAre
  <2>2. device' \in 0 .. Devices /\ function' \in 0 .. Functions
    BY <1>1, SizesAre DEF ScanInv, Loops
  <2>3. scanIndex' \in Nat \ {0}
    BY <1>1, <1>2
  <2>4. CASE scanAt' = "range"
    BY <2>1, <2>2, <2>3, <2>4 DEF Loops, Walk
  <2>5. CASE scanAt' = "bus"
    BY <1>1, <1>2, <2>1, <2>2, <2>3, <2>5 DEF Loops, Walk
  <2>6. CASE scanAt' = "device"
    BY <1>1, <1>2, <2>1, <2>2, <2>3, <2>6 DEF Loops, Walk, Scan!Present
  <2> QED
    BY <1>1, <2>4, <2>5, <2>6
<1>8. Lines'
  <2>1. \A s \in Scan!Slot : (s \in Covered)' <=> s \in Covered
    <3> SUFFICES ASSUME NEW s \in Scan!Slot, s \in Scan!Reachable
                 PROVE  Behind(s)' <=> Behind(s)
      BY <1>1, CoveredStays
    <3>1. s[1] \in Nat /\ s[2] \in Nat /\ s[3] \in Nat
      BY SlotParts
    <3>2. Scan!Present(s[1], 0, 0)
      BY ReachableIs
    <3> DEFINE Passed(n) == \E j \in DOMAIN mcfg : j < n /\ InRange(j, s[1])
    <3>3. Behind(s) <=> Passed(scanIndex) \/ (InRange(scanIndex, s[1]) /\ s[1] < bus)
      BY <1>1 DEF Behind, Walk
    <3>4. CASE scanAt' = "range"
      <4>1. bus >= mcfg[scanIndex].end /\ scanIndex' = scanIndex + 1
        BY <1>1, <3>4
      <4>2. Behind(s)' <=> Passed(scanIndex + 1)
        BY <1>1, <3>4, <4>1 DEF Behind, Walk, InRange
      <4>3. Passed(scanIndex + 1) <=> Passed(scanIndex) \/ InRange(scanIndex, s[1])
        BY <1>2, <1>3, <1>4
      <4>4. InRange(scanIndex, s[1]) => s[1] < bus
        BY <1>2, <1>5, <3>1, <4>1, SizesAre DEF InRange
      <4> QED
        BY <3>3, <4>2, <4>3, <4>4
    <3>5. CASE scanAt' = "device"
      <4>1. device' = 0 /\ UNCHANGED <<scanIndex, bus>>
        BY <1>1, <3>5
      <4>2. Behind(s)' <=>
              Passed(scanIndex) \/ (InRange(scanIndex, s[1])
                                    /\ (s[1] < bus \/ (s[1] = bus /\ s[2] < 0)))
        BY <1>1, <3>5, <4>1 DEF Behind, Walk, InRange
      <4> QED
        BY <3>1, <3>3, <4>2
    <3>6. CASE scanAt' = "bus"
      <4>1. ~ Scan!Present(bus, 0, 0) /\ bus' = bus + 1 /\ scanIndex' = scanIndex
        BY <1>1, <3>6
      <4>2. Behind(s)' <=> Passed(scanIndex) \/ (InRange(scanIndex, s[1]) /\ s[1] < bus + 1)
        BY <1>1, <3>6, <4>1 DEF Behind, Walk, InRange
      <4>3. s[1] # bus
        BY <3>2, <4>1
      <4>4. s[1] < bus + 1 <=> s[1] < bus
        BY <1>2, <3>1, <4>3, SizesAre
      <4> QED
        BY <3>3, <4>2, <4>4
    <3> QED
      BY <1>1, <3>4, <3>5, <3>6
  <2> QED
    BY <1>1, <2>1, LinesStay DEF ScanInv, Walking, Walk
<1> QED
  BY <1>6, <1>7, <1>8 DEF ScanInv

\* Where the walk is in a range.
LEMMA InTheRange ==
    ASSUME ScanInv, scanAt \in {"device", "function"}
    PROVE  /\ mcfg # NULL /\ scanIndex \in Nat \ {0} /\ scanIndex <= Len(mcfg)
           /\ scanIndex \in DOMAIN mcfg
           /\ bus \in 0 .. Buses /\ device \in 0 .. Devices /\ function \in 0 .. Functions
           /\ mcfg[scanIndex].start <= bus /\ bus < mcfg[scanIndex].end
           /\ bus < Buses /\ Scan!Present(bus, 0, 0)
<1>1. /\ mcfg # NULL /\ scanIndex \in Nat \ {0} /\ scanIndex <= Len(mcfg)
      /\ bus \in 0 .. Buses /\ device \in 0 .. Devices /\ function \in 0 .. Functions
      /\ mcfg[scanIndex].start <= bus /\ bus < mcfg[scanIndex].end
      /\ Scan!Present(bus, 0, 0)
  BY DEF ScanInv, Tables, Loops, Walk
<1>2. /\ Len(mcfg) \in Nat /\ DOMAIN mcfg = 1 .. Len(mcfg)
      /\ \A j \in DOMAIN mcfg : mcfg[j].start \in 0 .. Buses /\ mcfg[j].end \in 0 .. Buses
  BY <1>1, RangesAre DEF ScanInv
<1>3. scanIndex \in DOMAIN mcfg
  BY <1>1, <1>2
<1>4. mcfg[scanIndex].end \in 0 .. Buses
  BY <1>2, <1>3
<1>5. bus < Buses
  BY <1>1, <1>4, SizesAre
<1> QED
  BY <1>1, <1>3, <1>5

LEMMA EnumerateDeviceWalks ==
    ASSUME ScanInv, Scan!EnumerateDevice
    PROVE  ScanInv'
<1>1. /\ scanAt = "device"
      /\ UNCHANGED <<firmware, space, mcfg, scanIndex, printed, attached>>
      /\ \/ /\ device = Devices
            /\ scanAt' = "bus" /\ bus' = bus + 1 /\ UNCHANGED <<device, function>>
         \/ /\ device < Devices /\ Scan!Present(bus, device, 0)
            /\ scanAt' = "function" /\ function' = 0 /\ UNCHANGED <<bus, device>>
         \/ /\ device < Devices /\ ~ Scan!Present(bus, device, 0)
            /\ device' = device + 1 /\ UNCHANGED <<scanAt, bus, function>>
  BY DEF Scan!EnumerateDevice, Scan!Pci
<1>2. /\ mcfg # NULL /\ scanIndex \in Nat \ {0} /\ scanIndex <= Len(mcfg)
      /\ bus \in 0 .. Buses /\ device \in 0 .. Devices /\ function \in 0 .. Functions
      /\ mcfg[scanIndex].start <= bus /\ bus < mcfg[scanIndex].end
      /\ bus < Buses /\ Scan!Present(bus, 0, 0)
  BY <1>1, InTheRange
<1>3. /\ Len(mcfg) \in Nat /\ DOMAIN mcfg = 1 .. Len(mcfg)
      /\ \A j \in DOMAIN mcfg : mcfg[j].start \in 0 .. Buses /\ mcfg[j].end \in 0 .. Buses
  BY <1>2, RangesAre DEF ScanInv
<1>4. mcfg[scanIndex].start \in 0 .. Buses
  BY <1>2, <1>3
<1>5. Tables'
  BY <1>1, <1>2 DEF ScanInv, Tables
<1>6. Loops'
  <2>1. /\ bus' \in 0 .. Buses /\ mcfg[scanIndex].start <= bus'
        /\ device' \in 0 .. Devices /\ function' \in 0 .. Functions
    BY <1>1, <1>2, <1>4, SizesAre
  <2>2. CASE scanAt' = "bus"
    BY <1>1, <1>2, <2>1, <2>2 DEF Loops, Walk
  <2>3. CASE scanAt' = "function"
    BY <1>1, <1>2, <2>1, <2>3 DEF Loops, Walk, Scan!Present
  <2>4. CASE scanAt' = "device"
    BY <1>1, <1>2, <2>1, <2>4 DEF Loops, Walk, Scan!Present
  <2> QED
    BY <1>1, <2>2, <2>3, <2>4
<1>7. Lines'
  <2>1. \A s \in Scan!Slot : (s \in Covered)' <=> s \in Covered
    <3> SUFFICES ASSUME NEW s \in Scan!Slot, s \in Scan!Reachable
                 PROVE  Behind(s)' <=> Behind(s)
      BY <1>1, CoveredStays
    <3>1. s[1] \in Nat /\ s[2] \in Nat /\ s[3] \in Nat /\ s[2] < Devices
      BY SlotParts
    <3>2. Scan!Present(s[1], s[2], 0)
      BY ReachableIs
    <3> DEFINE Passed == \E j \in DOMAIN mcfg : j < scanIndex /\ InRange(j, s[1])
               Now    == InRange(scanIndex, s[1])
    <3>3. Behind(s) <=> Passed \/ (Now /\ (s[1] < bus \/ (s[1] = bus /\ s[2] < device)))
      BY <1>1 DEF Behind, Walk
    <3>4. CASE scanAt' = "bus"
      <4>1. device = Devices /\ bus' = bus + 1
        BY <1>1, <3>4
      <4>2. Behind(s)' <=> Passed \/ (Now /\ s[1] < bus + 1)
        BY <1>1, <3>4, <4>1 DEF Behind, Walk, InRange
      <4>3. s[1] < bus + 1 <=> s[1] < bus \/ (s[1] = bus /\ s[2] < device)
        BY <1>2, <3>1, <4>1, SizesAre
      <4> QED
        BY <3>3, <4>2, <4>3
    <3>5. CASE scanAt' = "function"
      <4>1. function' = 0 /\ UNCHANGED <<bus, device>>
        BY <1>1, <3>5
      <4>2. Behind(s)' <=>
              Passed \/ (Now /\ (s[1] < bus \/ (s[1] = bus /\ s[2] < device)
                                 \/ (s[1] = bus /\ s[2] = device /\ s[3] < 0)))
        BY <1>1, <3>5, <4>1 DEF Behind, Walk, InRange
      <4> QED
        BY <3>1, <3>3, <4>2
    <3>6. CASE scanAt' = "device"
      <4>1. ~ Scan!Present(bus, device, 0) /\ device' = device + 1 /\ bus' = bus
        BY <1>1, <3>6
      <4>2. Behind(s)' <=> Passed \/ (Now /\ (s[1] < bus \/ (s[1] = bus /\ s[2] < device + 1)))
        BY <1>1, <3>6, <4>1 DEF Behind, Walk, InRange
      <4>3. ~ (s[1] = bus /\ s[2] = device)
        BY <3>2, <4>1
      <4>4. s[1] = bus => (s[2] < device + 1 <=> s[2] < device)
        BY <1>2, <3>1, <4>3, SizesAre
      <4> QED
        BY <3>3, <4>2, <4>4
    <3> QED
      BY <1>1, <3>4, <3>5, <3>6
  <2> QED
    BY <1>1, <2>1, LinesStay DEF ScanInv, Walking, Walk
<1> QED
  BY <1>5, <1>6, <1>7 DEF ScanInv

\* A sequence of different elements with one more is one.
LEMMA AppendOne ==
    ASSUME NEW S, NEW q \in Seq(S), NEW e \in S
    PROVE  /\ Append(q, e) \in Seq(S)
           /\ DOMAIN q = 1 .. Len(q) /\ Len(q) \in Nat
           /\ DOMAIN Append(q, e) = 1 .. (Len(q) + 1)
           /\ \A j \in DOMAIN q : j \in DOMAIN Append(q, e) /\ j # Len(q) + 1
                                  /\ Append(q, e)[j] = q[j]
           /\ \A j \in DOMAIN Append(q, e) : j \in DOMAIN q \/ j = Len(q) + 1
           /\ Append(q, e)[Len(q) + 1] = e
<1>1. /\ Append(q, e) \in Seq(S) /\ Len(Append(q, e)) = Len(q) + 1
      /\ \A j \in 1 .. Len(q) : Append(q, e)[j] = q[j]
      /\ Append(q, e)[Len(q) + 1] = e
  BY AppendProperties
<1>2. DOMAIN q = 1 .. Len(q) /\ Len(q) \in Nat
      /\ DOMAIN Append(q, e) = 1 .. Len(Append(q, e))
  BY <1>1, LenProperties
<1> QED
  BY <1>1, <1>2

Here == <<bus, device, function>>

\* The function that the walk is at is not behind it, in this range or another.
LEMMA HereIsNew ==
    ASSUME ScanInv, scanAt = "function", function < Functions
    PROVE  /\ Here \in Scan!Slot /\ ~ Behind(Here)
           /\ Here \in Scan!Reachable <=> Here \in DOMAIN space
<1>1. /\ mcfg # NULL /\ scanIndex \in Nat \ {0} /\ scanIndex \in DOMAIN mcfg
      /\ bus \in 0 .. Buses /\ device \in 0 .. Devices /\ function \in 0 .. Functions
      /\ mcfg[scanIndex].start <= bus /\ bus < mcfg[scanIndex].end
      /\ bus < Buses /\ Scan!Present(bus, 0, 0)
  BY InTheRange
<1>2. device < Devices /\ Scan!Present(bus, device, 0)
  BY DEF ScanInv, Loops
<1>3. Here \in Scan!Slot
  <2>1. bus \in 0 .. Buses - 1 /\ device \in 0 .. Devices - 1
        /\ function \in 0 .. Functions - 1
    BY <1>1, <1>2, SizesAre
  <2> QED
    BY <2>1 DEF Here, Scan!Slot
<1>4. Here[1] = bus /\ Here[2] = device /\ Here[3] = function
  BY DEF Here
<1>5. ~ Behind(Here)
  <2>1. \A j \in DOMAIN mcfg : j < scanIndex => ~ InRange(j, bus)
    <3> SUFFICES ASSUME NEW j \in DOMAIN mcfg, j < scanIndex, InRange(j, bus) PROVE FALSE
      OBVIOUS
    <3>1. /\ Scan!Disjoint(mcfg)
          /\ \A k \in DOMAIN mcfg : mcfg[k].start \in 0 .. Buses /\ mcfg[k].end \in 0 .. Buses
      BY <1>1, RangesAre DEF ScanInv
    <3>2. j # scanIndex
      BY <1>1
    <3>3. mcfg[j].end <= mcfg[scanIndex].start \/ mcfg[scanIndex].end <= mcfg[j].start
      BY <1>1, <3>1, <3>2 DEF Scan!Disjoint
    <3>4. /\ mcfg[j].start \in Int /\ mcfg[j].end \in Int
          /\ mcfg[scanIndex].start \in Int /\ mcfg[scanIndex].end \in Int /\ bus \in Int
      BY <1>1, <3>1, SizesAre
    <3> QED
      BY <1>1, <3>3, <3>4 DEF InRange
  <2>2. ~ bus < bus /\ ~ device < device /\ ~ function < function
    BY <1>1, SizesAre
  <2> QED
    BY <1>4, <2>1, <2>2 DEF Behind
<1>6. InRange(scanIndex, bus)
  BY <1>1 DEF InRange
<1>7. Here \in Scan!Reachable <=> Here \in DOMAIN space
  BY <1>1, <1>2, <1>3, <1>4, <1>6, ReachableIs
<1> QED
  BY <1>3, <1>5, <1>7

\* One function further.
LEMMA OneMoreBehind ==
    ASSUME ScanInv, scanAt = "function", function < Functions,
           UNCHANGED <<space, mcfg, scanAt, scanIndex, bus, device>>, function' = function + 1,
           NEW s \in Scan!Slot
    PROVE  (s \in Covered)' <=> s \in Covered \/ (s = Here /\ Here \in DOMAIN space)
<1>1. /\ bus \in 0 .. Buses /\ device \in 0 .. Devices /\ function \in 0 .. Functions
      /\ mcfg[scanIndex].start <= bus /\ bus < mcfg[scanIndex].end
  BY InTheRange
<1>2. s = <<s[1], s[2], s[3]>> /\ s[1] \in Nat /\ s[2] \in Nat /\ s[3] \in Nat
  BY SlotParts
<1>3. s = Here <=> s[1] = bus /\ s[2] = device /\ s[3] = function
  BY <1>2 DEF Here
<1> DEFINE Passed == \E j \in DOMAIN mcfg : j < scanIndex /\ InRange(j, s[1])
           Now    == InRange(scanIndex, s[1])
           Earlier == s[1] < bus \/ (s[1] = bus /\ s[2] < device)
<1>4. Behind(s) <=>
        Passed \/ (Now /\ (Earlier \/ (s[1] = bus /\ s[2] = device /\ s[3] < function)))
  BY DEF Behind, Walk
<1>5. Behind(s)' <=>
        Passed \/ (Now /\ (Earlier \/ (s[1] = bus /\ s[2] = device /\ s[3] < function + 1)))
  BY DEF Behind, Walk, InRange
<1>6. s[3] < function + 1 <=> s[3] < function \/ s[3] = function
  BY <1>1, <1>2, SizesAre
<1>7. s = Here => Now
  BY <1>1, <1>3 DEF InRange
<1> HIDE DEF Passed, Now, Earlier
<1>8. Behind(s)' <=> Behind(s) \/ s = Here
  BY <1>3, <1>4, <1>5, <1>6, <1>7
<1>9. Scan!Reachable' = Scan!Reachable
  BY ReachableStays
<1>10. Here \in Scan!Reachable <=> Here \in DOMAIN space
  BY HereIsNew
<1>11. (s \in Covered)' <=> s \in Scan!Reachable /\ Behind(s)'
  BY <1>9 DEF Covered
<1> QED
  BY <1>8, <1>10, <1>11 DEF Covered

LEMMA EnumerateFunctionWalks ==
    ASSUME ScanInv, Scan!EnumerateFunction
    PROVE  ScanInv'
<1>1. /\ scanAt = "function"
      /\ UNCHANGED <<firmware, space, mcfg, scanIndex, bus>>
      /\ \/ /\ function = Functions
            /\ scanAt' = "device" /\ device' = device + 1
            /\ UNCHANGED <<function, printed, attached>>
         \/ /\ function < Functions /\ Here \notin DOMAIN space
            /\ function' = function + 1
            /\ UNCHANGED <<scanAt, device, printed, attached>>
         \/ /\ function < Functions /\ Here \in DOMAIN space
            /\ function' = function + 1
            /\ \E s \in Scan!Shown(space[Here]) :
                  printed' = Append(printed, [slot |-> Here, shown |-> s])
            /\ attached' = IF Scan!IsAhci(space[Here]) THEN Append(attached, Here)
                           ELSE attached
            /\ UNCHANGED <<scanAt, device>>
         \/ scanAt' = "panic" /\ UNCHANGED <<device, function, printed, attached>>
  BY DEF Scan!EnumerateFunction, Scan!Pci, Here
<1>2. /\ mcfg # NULL /\ scanIndex \in Nat \ {0} /\ scanIndex <= Len(mcfg)
      /\ bus \in 0 .. Buses /\ device \in 0 .. Devices /\ function \in 0 .. Functions
      /\ mcfg[scanIndex].start <= bus /\ bus < mcfg[scanIndex].end
      /\ Scan!Present(bus, 0, 0)
  BY <1>1, InTheRange
<1>3. device < Devices /\ Scan!Present(bus, device, 0)
  BY <1>1 DEF ScanInv, Loops
<1>4. Tables'
  BY <1>1, <1>2 DEF ScanInv, Tables
<1>5. Loops'
  <2>1. device' \in 0 .. Devices /\ function' \in 0 .. Functions
    BY <1>1, <1>2, <1>3, SizesAre
  <2>2. CASE scanAt' = "device"
    BY <1>1, <1>2, <2>1, <2>2 DEF Loops, Walk, Scan!Present
  <2>3. CASE scanAt' = "function"
    BY <1>1, <1>2, <1>3, <2>1, <2>3 DEF Loops, Walk, Scan!Present
  <2>4. CASE scanAt' = "panic"
    BY <1>1, <1>2, <2>1, <2>4 DEF Loops, Walk
  <2> QED
    BY <1>1, <2>2, <2>3, <2>4
<1>9. CASE scanAt' = "panic"
  <2>1. UNCHANGED <<device, function, printed, attached>>
    BY <1>1, <1>9
  <2>2. Lines'
    BY <1>9, <2>1 DEF ScanInv, Lines, Walk
  <2> QED
    BY <1>4, <1>5, <2>2 DEF ScanInv
<1>6. CASE function = Functions /\ scanAt' # "panic"
  <2>1. scanAt' = "device" /\ device' = device + 1 /\ UNCHANGED <<function, printed, attached>>
    BY <1>1, <1>6, SizesAre
  <2>2. \A s \in Scan!Slot : (s \in Covered)' <=> s \in Covered
    <3> SUFFICES ASSUME NEW s \in Scan!Slot
                 PROVE  Behind(s)' <=> Behind(s)
      BY <1>1, CoveredStays
    <3>1. s[1] \in Nat /\ s[2] \in Nat /\ s[3] \in Nat /\ s[3] < Functions
      BY SlotParts
    <3> DEFINE Passed == \E j \in DOMAIN mcfg : j < scanIndex /\ InRange(j, s[1])
               Now    == InRange(scanIndex, s[1])
    <3>2. Behind(s) <=>
            Passed \/ (Now /\ (s[1] < bus \/ (s[1] = bus /\ s[2] < device)
                               \/ (s[1] = bus /\ s[2] = device /\ s[3] < function)))
      BY <1>1 DEF Behind, Walk
    <3>3. Behind(s)' <=>
            Passed \/ (Now /\ (s[1] < bus \/ (s[1] = bus /\ s[2] < device + 1)))
      BY <1>1, <2>1 DEF Behind, Walk, InRange
    <3>4. s[2] < device + 1 <=> s[2] < device \/ (s[2] = device /\ s[3] < function)
      BY <1>2, <1>6, <3>1, SizesAre
    <3> QED
      BY <3>2, <3>3, <3>4
  <2>3. Lines'
    BY <1>1, <2>1, <2>2, LinesStay DEF ScanInv, Walking, Walk
  <2> QED
    BY <1>4, <1>5, <2>3 DEF ScanInv
<1>7. CASE function < Functions /\ Here \notin DOMAIN space /\ scanAt' # "panic"
  <2>1. function' = function + 1 /\ UNCHANGED <<scanAt, device, printed, attached>>
    BY <1>1, <1>7, SizesAre
  <2>2. \A s \in Scan!Slot : (s \in Covered)' <=> s \in Covered
    BY <1>1, <1>7, <2>1, OneMoreBehind
  <2>3. Lines'
    BY <1>1, <2>1, <2>2, LinesStay DEF ScanInv, Walking, Walk
  <2> QED
    BY <1>4, <1>5, <2>3 DEF ScanInv
<1>8. CASE function < Functions /\ Here \in DOMAIN space /\ scanAt' # "panic"
  <2>1. /\ function' = function + 1 /\ UNCHANGED <<scanAt, device>>
        /\ attached' = IF Scan!IsAhci(space[Here]) THEN Append(attached, Here) ELSE attached
    BY <1>1, <1>8, SizesAre
  <2>2. PICK line \in Line : line.slot = Here /\ printed' = Append(printed, line)
    <3>1. PICK s \in Scan!Shown(space[Here]) :
              printed' = Append(printed, [slot |-> Here, shown |-> s])
      <4>1. function # Functions
        BY <1>8, SizesAre
      <4> QED
        BY <1>1, <1>8, <4>1, Zenon
    <3>2. space[Here] \in Scan!ConfigHeader
      BY <1>8, SpaceIs DEF ScanInv, Tables
    <3>3. s \in UNION {Scan!Shown(k) : k \in Scan!ConfigHeader}
      BY <3>1, <3>2, Zenon
    <3>4. Here \in Scan!Slot
      BY <1>1, <1>8, HereIsNew
    <3>5. [slot |-> Here, shown |-> s] \in Line
      BY <3>3, <3>4 DEF Line
    <3> QED
      BY <3>1, <3>5
  <2>3. /\ Here \in Scan!Slot /\ Here \notin Covered
        /\ \A s \in Scan!Slot : (s \in Covered)' <=> s \in Covered \/ s = Here
    <3>1. Here \in Scan!Slot /\ ~ Behind(Here)
      BY <1>1, <1>8, HereIsNew
    <3>2. \A s \in Scan!Slot : (s \in Covered)' <=> s \in Covered \/ s = Here
      BY <1>1, <1>8, <2>1, OneMoreBehind
    <3> QED
      BY <3>1, <3>2 DEF Covered
  <2>4. /\ printed \in Seq(Line) /\ attached \in Seq(Scan!Slot)
        /\ \A s \in Scan!Slot : s \in Covered <=> \E j \in DOMAIN printed : printed[j].slot = s
        /\ \A s \in Scan!Slot :
              s \in Covered /\ Scan!IsAhci(space[s]) <=> \E j \in DOMAIN attached : attached[j] = s
        /\ \A j, k \in DOMAIN printed : j # k => printed[j].slot # printed[k].slot
        /\ \A j, k \in DOMAIN attached : j # k => attached[j] # attached[k]
    BY <1>1 DEF ScanInv, Lines, Walk
  <2>5. /\ printed' \in Seq(Line)
        /\ DOMAIN printed' = 1 .. (Len(printed) + 1)
        /\ \A j \in DOMAIN printed : j \in DOMAIN printed' /\ j # Len(printed) + 1
                                     /\ printed'[j] = printed[j]
        /\ \A j \in DOMAIN printed' : j \in DOMAIN printed \/ j = Len(printed) + 1
        /\ Len(printed) + 1 \in DOMAIN printed'
        /\ printed'[Len(printed) + 1] = line
    BY <2>2, <2>4, AppendOne
  <2>6. \A s \in Scan!Slot : (s \in Covered)' <=> \E j \in DOMAIN printed' : printed'[j].slot = s
    BY <2>2, <2>3, <2>4, <2>5
  <2>7. \A j, k \in DOMAIN printed' : j # k => printed'[j].slot # printed'[k].slot
    <3>1. \A j \in DOMAIN printed : printed[j].slot # Here
      BY <2>3, <2>4
    <3> QED
      BY <2>2, <2>4, <2>5, <3>1
  <2>8. /\ attached' \in Seq(Scan!Slot)
        /\ \A s \in Scan!Slot :
              (s \in Covered)' /\ Scan!IsAhci(space[s])
                <=> \E j \in DOMAIN attached' : attached'[j] = s
        /\ \A j, k \in DOMAIN attached' : j # k => attached'[j] # attached'[k]
    <3>1. CASE ~ Scan!IsAhci(space[Here])
      BY <2>1, <2>3, <2>4, <3>1
    <3>2. CASE Scan!IsAhci(space[Here])
      <4>1. /\ attached' \in Seq(Scan!Slot)
            /\ DOMAIN attached' = 1 .. (Len(attached) + 1)
            /\ \A j \in DOMAIN attached : j \in DOMAIN attached' /\ j # Len(attached) + 1
                                          /\ attached'[j] = attached[j]
            /\ \A j \in DOMAIN attached' : j \in DOMAIN attached \/ j = Len(attached) + 1
            /\ Len(attached) + 1 \in DOMAIN attached'
            /\ attached'[Len(attached) + 1] = Here
        BY <2>1, <2>3, <2>4, <3>2, AppendOne
      <4>2. \A j \in DOMAIN attached : attached[j] # Here
        BY <2>3, <2>4
      <4>3. ASSUME NEW s \in Scan!Slot
            PROVE  (s \in Covered)' /\ Scan!IsAhci(space[s])
                     <=> \E j \in DOMAIN attached' : attached'[j] = s
        <5>1. (s \in Covered)' <=> s \in Covered \/ s = Here
          BY <2>3
        <5>2. (\E j \in DOMAIN attached' : attached'[j] = s)
                <=> (\E j \in DOMAIN attached : attached[j] = s) \/ s = Here
          BY <4>1
        <5>3. s \in Covered /\ Scan!IsAhci(space[s]) <=> \E j \in DOMAIN attached : attached[j] = s
          BY <2>4
        <5> QED
          BY <3>2, <5>1, <5>2, <5>3, Zenon
      <4>4. \A j, k \in DOMAIN attached' : j # k => attached'[j] # attached'[k]
        BY <2>4, <4>1, <4>2
      <4> QED
        BY <4>1, <4>3, <4>4
    <3> QED
      BY <3>1, <3>2
  <2>9. Lines'
    BY <1>1, <2>1, <2>5, <2>6, <2>7, <2>8 DEF Lines, Walk
  <2> QED
    BY <1>4, <1>5, <2>9 DEF ScanInv
<1> QED
  BY <1>1, <1>6, <1>7, <1>8, <1>9

\* Before the walk: the MCFG table taken is one the firmware has.
LEMMA AcpiInitWalks ==
    ASSUME ScanInv, Scan!ACPI_Init
    PROVE  ScanInv'
<1>1. /\ UNCHANGED <<firmware, space, bus, device, function, printed, attached>>
      /\ scanAt \in {"RSDP", "RSDT", "table"}
      /\ scanAt' \in {"RSDP", "RSDT", "table", "PCI", "panic"}
      /\ \/ UNCHANGED <<scanIndex, mcfg>>
         \/ /\ scanAt = "table" /\ scanIndex <= Len(firmware.tables)
            /\ scanIndex' = scanIndex + 1
            /\ mcfg' = IF firmware.tables[scanIndex].sig = "MCFG"
                         THEN firmware.tables[scanIndex].ranges ELSE mcfg
  BY DEF Scan!ACPI_Init, Scan!CheckRSDP, Scan!CheckRSDT, Scan!NextTable, Scan!LastTable,
         Scan!Acpi
<1>2. Tables'
  <2>1. scanAt' \notin Walk \cup {"range", "done"}
    BY <1>1 DEF Walk
  <2>2. mcfg' = NULL \/ (mcfg' \in Seq(Scan!AddressRange) /\ Scan!Disjoint(mcfg'))
    <3>1. CASE mcfg' = mcfg
      BY <3>1 DEF ScanInv, Tables
    <3>2. CASE mcfg' # mcfg
      <4>1. /\ scanIndex \in Nat \ {0} /\ scanIndex <= Len(firmware.tables)
            /\ firmware.tables[scanIndex].sig = "MCFG"
            /\ mcfg' = firmware.tables[scanIndex].ranges
        BY <1>1, <3>2 DEF ScanInv, Loops
      <4>2. /\ firmware.tables \in Seq(Scan!Table)
            /\ \A j \in DOMAIN firmware.tables :
                  firmware.tables[j].sig = "MCFG" => Scan!Disjoint(firmware.tables[j].ranges)
        BY FirmwaresAssumption DEF Scan!FirmwaresAssumption, ScanInv, Tables
      <4>3. scanIndex \in 1 .. Len(firmware.tables)
            /\ DOMAIN firmware.tables = 1 .. Len(firmware.tables)
        BY <4>1, <4>2, LenProperties
      <4>4. firmware.tables[scanIndex] \in Scan!Table
        BY <4>2, <4>3, ElementOfSeq
      <4>5. firmware.tables[scanIndex].ranges \in Seq(Scan!AddressRange)
        BY <4>1, <4>4 DEF Scan!Table
      <4> QED
        BY <4>1, <4>2, <4>3, <4>5
    <3> QED
      BY <3>1, <3>2
  <2> QED
    BY <1>1, <2>1, <2>2 DEF ScanInv, Tables
<1>3. Loops'
  BY <1>1 DEF ScanInv, Loops, Walk
<1>4. Lines'
  BY <1>1 DEF ScanInv, Lines, Walk
<1> QED
  BY <1>2, <1>3, <1>4 DEF ScanInv

LEMMA ScanInvNext == ScanInv /\ [Next]_vars => ScanInv'
<1> SUFFICES ASSUME ScanInv, [Next]_vars PROVE ScanInv'
  OBVIOUS
<1>1. CASE ScanStep
  BY <1>1, AcpiInitWalks, EnumeratePCIWalks, NextRangeWalks, EnumerateBusWalks,
     EnumerateDeviceWalks, EnumerateFunctionWalks DEF ScanStep, Scan!Next
<1>2. CASE UNCHANGED scanVars
  <2>1. UNCHANGED <<firmware, space, scanAt, scanIndex, mcfg, bus, device, function,
                    printed, attached>>
    BY <1>2 DEF scanVars
  <2>2. Tables' /\ Loops'
    BY <2>1 DEF ScanInv, Tables, Loops, Scan!Present
  <2>3. \A s \in Scan!Slot : (s \in Covered)' <=> s \in Covered
    BY <2>1, CoveredStays DEF Behind, InRange
  <2>4. Lines'
    <3>1. CASE Walking
      BY <2>1, <2>3, <3>1, LinesStay DEF ScanInv, Walking
    <3>2. CASE ~ Walking
      BY <2>1, <3>2 DEF ScanInv, Lines, Walking
    <3> QED
      BY <3>1, <3>2
  <2> QED
    BY <2>2, <2>4 DEF ScanInv
<1>3. ~ ScanStep => UNCHANGED scanVars
  BY OnlyTheScan
<1> QED
  BY <1>1, <1>2, <1>3

LEMMA ScanInvInit == Init => ScanInv
<1> SUFFICES ASSUME Init PROVE ScanInv
  OBVIOUS
<1>1. firmware \in Firmwares /\ space \in Spaces
  BY UsualAssumption, Zenon DEF Init, Environment, Scan!Machine
<1>2. /\ scanAt = "RSDP" /\ scanIndex = 1 /\ mcfg = NULL
      /\ bus = 0 /\ device = 0 /\ function = 0
      /\ printed = << >> /\ attached = << >>
  BY DEF Init, Scan!Start
<1>3. Tables /\ Loops
  BY <1>1, <1>2, SizesAre DEF Tables, Loops, Walk
<1>4. Lines
  BY <1>2, EmptySeq DEF Lines, Walk
<1> QED
  BY <1>3, <1>4 DEF ScanInv

\* The scan counts as everybody does.
LEMMA SameCardinality == \A S : Scan!Cardinality(S) = Cardinality(S)
BY Zenon DEF Scan!Cardinality, Cardinality

\* A sequence with every element of a set once is as long as that has elements.
LEMMA OnceEach ==
    ASSUME NEW S, NEW n \in Nat, NEW f \in [1 .. n -> S],
           \A x \in S : \E j \in 1 .. n : f[j] = x,
           \A j, k \in 1 .. n : j # k => f[j] # f[k]
    PROVE  n = Cardinality(S)
<1>1. f \in Injection(1 .. n, S)
  BY DEF Injection, IsInjective
<1>2. f \in Surjection(1 .. n, S)
  BY DEF Surjection
<1>3. ExistsBijection(1 .. n, S)
  BY <1>1, <1>2 DEF Bijection, ExistsBijection
<1> QED
  BY <1>3, FS_CountingElements

-----------------------------------------------------------------------------
(* Induction over data: a set of naturals has a least member, hence a        *)
(* function may be defined step by step.                                    *)

\* A set of naturals that is not empty has a least member.
LEMMA LeastNatural ==
    ASSUME NEW T \in SUBSET Nat, T # {}
    PROVE  \E m \in T : \A y \in T : m <= y
<1>1. PICK m \in T : \A y \in T : ~ (<<y, m>> \in OpToRel(<, Nat))
  BY NatLessThanWellFounded, WFMin
<1>2. \A y \in T : ~ (y < m)
  <2>1. ASSUME NEW y \in T, y < m PROVE FALSE
    <3>1. y \in Nat /\ m \in Nat
      OBVIOUS
    <3> QED
      BY <1>1, <2>1, <3>1, Zenon DEF OpToRel
  <2> QED
    BY <2>1
<1> QED
  BY <1>2

\* Induction, for a set of naturals.
LEMMA EveryNatural ==
    ASSUME NEW T \in SUBSET Nat, 0 \in T, \A n \in T : n + 1 \in T
    PROVE  T = Nat
<1> SUFFICES ASSUME Nat \ T # {} PROVE FALSE
  OBVIOUS
<1>1. PICK m \in Nat \ T : \A y \in Nat \ T : m <= y
  <2> DEFINE U == Nat \ T
  <2>1. U \in SUBSET Nat /\ U # {}
    OBVIOUS
  <2> HIDE DEF U
  <2>2. \E m \in U : \A y \in U : m <= y
    BY <2>1, LeastNatural
  <2> QED
    BY <2>2 DEF U
<1>2. m - 1 \in Nat /\ ~ (m <= m - 1) /\ (m - 1) + 1 = m
  BY <1>1
<1>3. m - 1 \in T
  BY <1>1, <1>2
<1> QED
  BY <1>1, <1>2, <1>3

\* The functions with the value base at 0 and the given steps.
Stepwise(n, V, base, step) ==
    {f \in [0 .. n -> V] :
        f[0] = base /\ \A k \in 0 .. (n - 1) : f[k + 1] = step[<<k, f[k]>>]}

\* There is one.
LEMMA Recursion ==
    ASSUME NEW n \in Nat, NEW V, NEW base \in V,
           NEW step \in [(0 .. (n - 1)) \X V -> V]
    PROVE  Stepwise(n, V, base, step) # {}
<1> DEFINE Until(m, f) ==
                f[0] = base /\ \A k \in 0 .. (m - 1) : f[k + 1] = step[<<k, f[k]>>]
           T == {m \in Nat : m <= n => \E f \in [0 .. m -> V] : Until(m, f)}
<1>1. 0 \in T
  <2> DEFINE f == [k \in 0 .. 0 |-> base]
  <2>1. f \in [0 .. 0 -> V] /\ Until(0, f)
    OBVIOUS
  <2> QED
    BY <2>1
<1>2. ASSUME NEW m \in T PROVE m + 1 \in T
  <2>1. m \in Nat
    OBVIOUS
  <2> SUFFICES ASSUME m + 1 <= n PROVE \E f \in [0 .. (m + 1) -> V] : Until(m + 1, f)
    BY <2>1
  <2>2. PICK f \in [0 .. m -> V] : Until(m, f)
    BY <2>1
  <2> DEFINE last == step[<<m, f[m]>>]
             g == [k \in 0 .. (m + 1) |-> IF k = m + 1 THEN last ELSE f[k]]
  <2>3. f[m] \in V /\ <<m, f[m]>> \in (0 .. (n - 1)) \X V
    BY <2>1
  <2>4. last \in V
    BY <2>3
  <2>5. g \in [0 .. (m + 1) -> V]
    BY <2>1, <2>4
  <2>6. g[0] = base /\ \A k \in 0 .. m : g[k] = f[k] /\ g[m + 1] = last
    BY <2>1, <2>2
  <2> HIDE DEF last, g
  <2>7. ASSUME NEW k \in 0 .. ((m + 1) - 1) PROVE g[k + 1] = step[<<k, g[k]>>]
    <3>1. CASE k = m
      <4>1. g[m] = f[m] /\ g[m + 1] = last
        BY <2>1, <2>6
      <4>2. last = step[<<m, f[m]>>]
        BY DEF last
      <4> QED
        BY <3>1, <4>1, <4>2, Zenon
    <3>2. CASE k # m
      <4>1. k \in 0 .. (m - 1) /\ k \in 0 .. m /\ k + 1 \in 0 .. m
        BY <2>1, <3>2
      <4> QED
        BY <2>2, <2>6, <4>1
    <3> QED
      BY <3>1, <3>2
  <2> QED
    BY <2>5, <2>6, <2>7
<1> HIDE DEF T
<1>3. T = Nat
  <2>1. T \in SUBSET Nat
    BY DEF T
  <2> QED
    BY <1>1, <1>2, <2>1, EveryNatural
<1> QED
  BY <1>3 DEF T, Stepwise

-----------------------------------------------------------------------------
(* Numbers in octal digits, and where the headers of an archive are.        *)

\* An octal number, digit by digit.
LEMMA OctalUnfolds ==
    ASSUME NEW digits \in Seq(0 .. 7)
    PROVE  \E value \in [0 .. Len(digits) -> Nat] :
               /\ value[0] = 0
               /\ \A k \in 1 .. Len(digits) : value[k] = 8 * value[k - 1] + digits[k]
               /\ Fs!Octal(digits) = value[Len(digits)]
<1> DEFINE n == Len(digits)
           Body(f) == [k \in 0 .. n |-> IF k = 0 THEN 0 ELSE 8 * f[k - 1] + digits[k]]
           step == [p \in (0 .. (n - 1)) \X Nat |-> 8 * p[2] + digits[p[1] + 1]]
<1>1. n \in Nat /\ \A k \in 1 .. n : digits[k] \in 0 .. 7
  OBVIOUS
<1>2. Fs!Octal(digits) = (CHOOSE f : f = Body(f))[n]
  BY Zenon DEF Fs!Octal
<1> HIDE DEF n
<1>3. step \in [(0 .. (n - 1)) \X Nat -> Nat]
  <2>1. ASSUME NEW p \in (0 .. (n - 1)) \X Nat PROVE 8 * p[2] + digits[p[1] + 1] \in Nat
    <3>1. p[1] + 1 \in 1 .. n /\ p[2] \in Nat
      BY <1>1
    <3>2. digits[p[1] + 1] \in 0 .. 7
      BY <1>1, <3>1
    <3> QED
      BY <3>1, <3>2
  <2> QED
    BY <2>1
<1>4. PICK f \in [0 .. n -> Nat] :
          f[0] = 0 /\ \A k \in 0 .. (n - 1) : f[k + 1] = step[<<k, f[k]>>]
  <2>1. 0 \in Nat
    OBVIOUS
  <2> HIDE DEF step
  <2>2. Stepwise(n, Nat, 0, step) # {}
    BY <1>1, <1>3, <2>1, Recursion
  <2> QED
    BY <2>2 DEF Stepwise
<1>5. ASSUME NEW k \in 1 .. n PROVE f[k] = 8 * f[k - 1] + digits[k]
  <2>1. k - 1 \in 0 .. (n - 1) /\ (k - 1) + 1 = k /\ f[k - 1] \in Nat
    BY <1>1
  <2>2. f[k] = step[<<k - 1, f[k - 1]>>]
    BY <1>4, <2>1
  <2> QED
    BY <2>1, <2>2
<1> HIDE DEF step
<1>6. f = Body(f)
  <2>1. \A k \in 0 .. n : k = 0 \/ k \in 1 .. n
    BY <1>1
  <2> QED
    BY <1>4, <1>5, <2>1
<1> DEFINE g == CHOOSE h : h = Body(h)
<1>7. g = Body(g)
  <2> HIDE DEF Body
  <2> QED
    BY <1>6, Zenon
<1> HIDE DEF g
<1>8. g[0] = 0 /\ \A k \in 1 .. n : g[k] = 8 * g[k - 1] + digits[k]
  BY <1>1, <1>7
<1>9. g \in [0 .. n -> Nat]
  <2> DEFINE T == {k \in Nat : k <= n => g[k] \in Nat}
  <2>1. 0 \in T
    BY <1>8
  <2>2. ASSUME NEW k \in T PROVE k + 1 \in T
    <3> SUFFICES ASSUME k + 1 <= n PROVE g[k + 1] \in Nat
      OBVIOUS
    <3>1. k + 1 \in 1 .. n /\ (k + 1) - 1 = k /\ g[k] \in Nat
      BY <1>1
    <3>2. digits[k + 1] \in Nat /\ g[k + 1] = 8 * g[(k + 1) - 1] + digits[k + 1]
      <4>1. digits[k + 1] \in 0 .. 7
        BY <1>1, <3>1
      <4> QED
        BY <1>8, <3>1, <4>1
    <3> QED
      BY <3>1, <3>2
  <2>3. T = Nat
    <3>1. T \in SUBSET Nat
      OBVIOUS
    <3> HIDE DEF T
    <3> QED
      BY <2>1, <2>2, <3>1, EveryNatural
  <2>4. ASSUME NEW k \in 0 .. n PROVE g[k] \in Nat
    <3>1. k \in Nat /\ k <= n
      BY <1>1
    <3>2. k \in T
      BY <2>3, <3>1, Zenon
    <3> QED
      BY <3>1, <3>2
  <2>5. g = [k \in 0 .. n |-> g[k]]
    BY <1>7
  <2> QED
    BY <2>4, <2>5
<1> QED
  BY <1>2, <1>8, <1>9 DEF g, n

\* What a member takes up: its header, and its contents in whole blocks.
Extent(a, k) == Block * (1 + Fs!Blocks(Fs!Octal(a[k].size)))

\* The sizes of the archive.
LEMMA SizesOfFs == Block \in Nat /\ Block > 0 /\ MaxHeaders \in Nat
<1>1. Block \in Nat \ {0} /\ MaxHeaders \in Nat
  BY BlockAssumption, Zenon DEF Fs!BlockAssumption
<1> QED
  BY <1>1

\* What the archives are.
LEMMA ArchiveIs ==
    ASSUME NEW a \in Archives
    PROVE  /\ a \in Seq(Fs!Member) /\ Len(a) \in Nat /\ Len(a) < MaxHeaders
           /\ DOMAIN a = 1 .. Len(a)
           /\ \A k \in 1 .. Len(a) : /\ a[k] \in Fs!Member
                                     /\ a[k].name \in Seq(1 .. 127) /\ a[k].name # << >>
                                     /\ a[k].size \in Seq(0 .. 7)
<1>1. a \in Seq(Fs!Member) /\ Len(a) < MaxHeaders
  BY ArchivesAssumption, Zenon DEF Fs!ArchivesAssumption
<1>2. \A k \in 1 .. Len(a) : a[k] \in Fs!Member
  BY <1>1
<1> QED
  BY <1>1, <1>2 DEF Fs!Member

\* Whole blocks.
LEMMA BlocksAre ==
    ASSUME NEW n \in Nat
    PROVE  Fs!Blocks(n) \in Nat
<1>1. n + Block - 1 \in Nat /\ Block \in Nat /\ Block > 0
  BY SizesOfFs
<1>2. (n + Block - 1) \div Block \in Nat
  BY <1>1
<1> QED
  BY <1>2 DEF Fs!Blocks

\* A member takes up something.
LEMMA ExtentIs ==
    ASSUME NEW a \in Archives, NEW k \in 1 .. Len(a)
    PROVE  Extent(a, k) \in Nat /\ Extent(a, k) > 0
<1> DEFINE size == Fs!Octal(a[k].size)
           blocks == Fs!Blocks(size)
<1>1. a[k].size \in Seq(0 .. 7)
  BY ArchiveIs
<1>2. size \in Nat
  <2> DEFINE d == a[k].size
             n == Len(d)
  <2>1. d \in Seq(0 .. 7) /\ n \in Nat
    BY <1>1
  <2> HIDE DEF d
  <2>2. PICK value \in [0 .. Len(d) -> Nat] : Fs!Octal(d) = value[Len(d)]
    BY <2>1, OctalUnfolds
  <2>3. value[Len(d)] \in Nat
    BY <2>1, <2>2
  <2> QED
    BY <2>2, <2>3 DEF d
<1> HIDE DEF size
<1>3. blocks \in Nat
  BY <1>2, BlocksAre
<1>4. Extent(a, k) = Block * (1 + blocks)
  BY DEF Extent, blocks, size
<1> HIDE DEF blocks
<1>5. Block * (1 + blocks) = Block + Block * blocks /\ Block * blocks \in Nat
  BY <1>3, SizesOfFs
<1> QED
  BY <1>4, <1>5, SizesOfFs

\* One header is behind the other.
LEMMA HeaderAtUnfolds ==
    ASSUME NEW a \in Archives
    PROVE  /\ \A k \in 1 .. (Len(a) + 1) : Fs!HeaderAt(a, k) \in Nat
           /\ Fs!HeaderAt(a, 1) = 0
           /\ \A k \in 1 .. Len(a) :
                 Fs!HeaderAt(a, k + 1) = Fs!HeaderAt(a, k) + Extent(a, k)
<1> DEFINE n == Len(a)
           E(j) == Extent(a, j)
           Body(f) == [j \in 1 .. (n + 1) |-> IF j = 1 THEN 0 ELSE f[j - 1] + E(j - 1)]
           step == [p \in (0 .. (n - 1)) \X Nat |-> p[2] + E(p[1] + 1)]
           at == CHOOSE f : f = Body(f)
<1>1. n \in Nat /\ \A k \in 1 .. n : E(k) \in Nat
  BY ArchiveIs, ExtentIs
<1>2. \A k : Fs!HeaderAt(a, k) = at[k]
  BY Zenon DEF Fs!HeaderAt, Extent
<1> HIDE DEF n, E, at
<1>3. step \in [(0 .. (n - 1)) \X Nat -> Nat]
  <2>1. ASSUME NEW p \in (0 .. (n - 1)) \X Nat PROVE p[2] + E(p[1] + 1) \in Nat
    <3>1. p[1] + 1 \in 1 .. n /\ p[2] \in Nat
      BY <1>1
    <3>2. E(p[1] + 1) \in Nat
      BY <1>1, <3>1
    <3> QED
      BY <3>1, <3>2
  <2> QED
    BY <2>1
<1>4. PICK f \in [0 .. n -> Nat] :
          f[0] = 0 /\ \A k \in 0 .. (n - 1) : f[k + 1] = step[<<k, f[k]>>]
  <2>1. 0 \in Nat
    OBVIOUS
  <2> HIDE DEF step
  <2>2. Stepwise(n, Nat, 0, step) # {}
    BY <1>1, <1>3, <2>1, Recursion
  <2> QED
    BY <2>2 DEF Stepwise
<1> DEFINE g == [j \in 1 .. (n + 1) |-> f[j - 1]]
<1>5. ASSUME NEW j \in 1 .. (n + 1), j # 1 PROVE g[j] = g[j - 1] + E(j - 1)
  <2>1. /\ j - 2 \in 0 .. (n - 1) /\ (j - 2) + 1 = j - 1 /\ (j - 1) - 1 = j - 2
        /\ j - 1 \in 1 .. (n + 1) /\ f[j - 2] \in Nat
    BY <1>1, <1>5
  <2>2. f[j - 1] = step[<<j - 2, f[j - 2]>>]
    BY <1>4, <2>1
  <2>3. step[<<j - 2, f[j - 2]>>] = f[j - 2] + E((j - 2) + 1)
    BY <2>1
  <2> HIDE DEF step
  <2> QED
    BY <2>1, <2>2, <2>3
<1>6. g[1] = 0
  BY <1>1, <1>4
<1>7. g = Body(g)
  <2>1. g = [j \in 1 .. (n + 1) |-> g[j]]
    OBVIOUS
  <2> HIDE DEF g
  <2> QED
    BY <1>5, <1>6, <2>1
<1>8. at = Body(at)
  <2> HIDE DEF Body
  <2> QED
    BY <1>7, Zenon DEF at
<1>9. at[1] = 0 /\ \A k \in 1 .. n : at[k + 1] = at[k] + E(k)
  <2>1. at[1] = 0
    BY <1>1, <1>8
  <2>2. ASSUME NEW k \in 1 .. n PROVE at[k + 1] = at[k] + E(k)
    <3>1. k + 1 \in 1 .. (n + 1) /\ k + 1 # 1 /\ (k + 1) - 1 = k
      BY <1>1
    <3>2. at[k + 1] = at[(k + 1) - 1] + E((k + 1) - 1)
      BY <1>8, <3>1
    <3> QED
      BY <3>1, <3>2
  <2> QED
    BY <2>1, <2>2
<1>10. \A k \in 1 .. (n + 1) : at[k] \in Nat
  <2> DEFINE T == {k \in Nat : k <= n => at[k + 1] \in Nat}
  <2>1. 0 \in T
    BY <1>9
  <2>2. ASSUME NEW k \in T PROVE k + 1 \in T
    <3> SUFFICES ASSUME k + 1 <= n PROVE at[(k + 1) + 1] \in Nat
      OBVIOUS
    <3>1. k + 1 \in 1 .. n /\ at[k + 1] \in Nat
      BY <1>1
    <3>2. at[(k + 1) + 1] = at[k + 1] + E(k + 1) /\ E(k + 1) \in Nat
      BY <1>1, <1>9, <3>1
    <3> QED
      BY <3>1, <3>2
  <2>3. T = Nat
    <3>1. T \in SUBSET Nat
      OBVIOUS
    <3> HIDE DEF T
    <3> QED
      BY <2>1, <2>2, <3>1, EveryNatural
  <2>4. ASSUME NEW k \in 1 .. (n + 1) PROVE at[k] \in Nat
    <3>1. k - 1 \in Nat /\ k - 1 <= n /\ (k - 1) + 1 = k
      BY <1>1
    <3>2. at[(k - 1) + 1] \in Nat
      BY <2>3, <3>1
    <3> QED
      BY <3>1, <3>2
  <2> QED
    BY <2>4
<1> HIDE DEF Body
<1> QED
  BY <1>2, <1>9, <1>10 DEF n, E

\* parse's getsize reads what the digits say (ramfs.c:29-39): after turn t the
\* first digits' number is still to be taken count times.
LEMMA GetsizeIsOctal ==
    ASSUME NEW digits \in Seq(0 .. 7)
    PROVE  Fs!getsize(digits) = Fs!Octal(digits) /\ Fs!Octal(digits) \in Nat
<1> DEFINE n == Len(digits)
           Loop == [size : Nat, count : Nat]
           first == [size |-> 0, count |-> 1]
           After(r, d) == [size |-> r.size + d * r.count, count |-> r.count * 8]
           Body(f) == [t \in 0 .. n |-> IF t = 0 THEN first
                                        ELSE After(f[t - 1], digits[n + 1 - t])]
           step == [p \in (0 .. (n - 1)) \X Loop |-> After(p[2], digits[n + 1 - (p[1] + 1)])]
           turn == CHOOSE f : f = Body(f)
<1>1. n \in Nat /\ \A k \in 1 .. n : digits[k] \in Nat
  <2>1. \A k \in 1 .. n : digits[k] \in 0 .. 7
    OBVIOUS
  <2> QED
    BY <2>1
<1>2. PICK value \in [0 .. Len(digits) -> Nat] :
          /\ value[0] = 0
          /\ \A k \in 1 .. Len(digits) : value[k] = 8 * value[k - 1] + digits[k]
          /\ Fs!Octal(digits) = value[Len(digits)]
  BY OctalUnfolds
<1>3. value \in [0 .. n -> Nat] /\ value[0] = 0
      /\ (\A k \in 1 .. n : value[k] = 8 * value[k - 1] + digits[k])
      /\ Fs!Octal(digits) = value[n]
  BY <1>2
<1>4. Fs!getsize(digits) = turn[n].size
  BY Zenon DEF Fs!getsize
<1> HIDE DEF n, turn
<1>5. \A r \in Loop, d \in Nat : After(r, d) \in Loop
  OBVIOUS
<1>6. first \in Loop
  OBVIOUS
<1> HIDE DEF After, Loop, first
<1>7. step \in [(0 .. (n - 1)) \X Loop -> Loop]
  <2>1. ASSUME NEW p \in (0 .. (n - 1)) \X Loop
        PROVE  After(p[2], digits[n + 1 - (p[1] + 1)]) \in Loop
    <3>1. n + 1 - (p[1] + 1) \in 1 .. n /\ p[2] \in Loop
      BY <1>1
    <3> QED
      BY <1>1, <1>5, <3>1
  <2> QED
    BY <2>1
<1>8. PICK f \in [0 .. n -> Loop] :
          f[0] = first /\ \A k \in 0 .. (n - 1) : f[k + 1] = step[<<k, f[k]>>]
  <2> HIDE DEF step
  <2>1. Stepwise(n, Loop, first, step) # {}
    BY <1>1, <1>6, <1>7, Recursion
  <2> QED
    BY <2>1 DEF Stepwise
<1>9. ASSUME NEW t \in 1 .. n PROVE f[t] = After(f[t - 1], digits[n + 1 - t])
  <2>1. t - 1 \in 0 .. (n - 1) /\ (t - 1) + 1 = t /\ f[t - 1] \in Loop
    BY <1>1
  <2>2. f[t] = step[<<t - 1, f[t - 1]>>]
    BY <1>8, <2>1
  <2>3. step[<<t - 1, f[t - 1]>>] = After(f[t - 1], digits[n + 1 - ((t - 1) + 1)])
    BY <2>1
  <2> QED
    BY <2>1, <2>2, <2>3
<1> HIDE DEF step
<1>10. f = Body(f)
  <2>1. \A t \in 0 .. n : t = 0 \/ t \in 1 .. n
    BY <1>1
  <2> QED
    BY <1>8, <1>9, <2>1
<1>11. turn = Body(turn)
  <2> HIDE DEF Body
  <2> QED
    BY <1>10, Zenon DEF turn
<1>12. turn[0] = first /\ \A t \in 1 .. n : turn[t] = After(turn[t - 1], digits[n + 1 - t])
  BY <1>1, <1>11
<1> HIDE DEF Body
<1> DEFINE Left(t) == value[n - t] * turn[t].count + turn[t].size
           T == {t \in Nat : t <= n => turn[t] \in Loop /\ Left(t) = value[n]}
<1>13. 0 \in T
  <2>1. turn[0] = [size |-> 0, count |-> 1] /\ turn[0] \in Loop
    BY <1>6, <1>12 DEF first
  <2>2. turn[0].count = 1 /\ turn[0].size = 0 /\ value[n] \in Nat /\ n - 0 = n
    BY <1>1, <1>3, <2>1
  <2>3. Left(0) = value[n]
    BY <2>2
  <2> QED
    BY <2>1, <2>3
<1>14. ASSUME NEW t \in T PROVE t + 1 \in T
  <2> SUFFICES ASSUME t + 1 <= n
               PROVE  turn[t + 1] \in Loop /\ Left(t + 1) = value[n]
    OBVIOUS
  <2>1. turn[t] \in Loop /\ Left(t) = value[n]
    BY <1>1
  <2> DEFINE k == n - t
             d == digits[k]
             r == turn[t]
  <2>2. /\ t + 1 \in 1 .. n /\ (t + 1) - 1 = t /\ n + 1 - (t + 1) = k /\ k \in 1 .. n
        /\ n - (t + 1) = k - 1 /\ k - 1 \in 0 .. n
    BY <1>1
  <2>3. turn[t + 1] = After(r, d)
    <3>1. turn[t + 1] = After(turn[(t + 1) - 1], digits[n + 1 - (t + 1)])
      BY <1>12, <2>2
    <3> QED
      BY <2>2, <3>1
  <2>4. d \in Nat /\ value[k] = 8 * value[k - 1] + d /\ value[k - 1] \in Nat
    BY <1>1, <1>3, <2>2
  <2>5. value[k] * r.count + r.size = value[n]
    BY <2>1
  <2>6. r.count \in Nat /\ r.size \in Nat
    BY <2>1 DEF Loop
  <2>7. turn[t + 1].count = r.count * 8 /\ turn[t + 1].size = r.size + d * r.count
    BY <2>3 DEF After
  <2>8. Left(t + 1) = value[k - 1] * (r.count * 8) + (r.size + d * r.count)
    BY <2>2, <2>7
  <2> DEFINE v == value[k - 1]
             c == r.count
             z == r.size
  <2>9. v \in Nat /\ c \in Nat /\ z \in Nat /\ d \in Nat
    BY <2>4, <2>6
  <2>10. Left(t + 1) = v * (c * 8) + (z + d * c) /\ (8 * v + d) * c + z = value[n]
    BY <2>4, <2>5, <2>8
  <2>11. turn[t + 1] \in Loop
    BY <1>5, <2>1, <2>3, <2>4
  <2> HIDE DEF v, c, z, d, k, r, Left
  <2>12. v * (c * 8) + (z + d * c) = (8 * v + d) * c + z
    BY <2>9
  <2> QED
    BY <2>10, <2>11, <2>12
<1>15. n \in T
  <2>1. T \in SUBSET Nat
    OBVIOUS
  <2> HIDE DEF T
  <2>2. T = Nat
    BY <1>13, <1>14, <2>1, EveryNatural
  <2> QED
    BY <1>1, <2>2
<1>16. turn[n] \in Loop /\ value[n - n] * turn[n].count + turn[n].size = value[n]
  BY <1>1, <1>15
<1>17. turn[n].count \in Nat /\ turn[n].size \in Nat /\ n - n = 0
  BY <1>1, <1>16 DEF Loop
<1>18. turn[n].size = value[n]
  BY <1>3, <1>16, <1>17
<1> QED
  BY <1>1, <1>3, <1>4, <1>18

\* What parse adds to the address is what the member takes up (ramfs.c:19-24).
LEMMA SkipsTheExtent ==
    ASSUME NEW n \in Nat
    PROVE  ((n \div Block) + 1) * Block + (IF n % Block # 0 THEN Block ELSE 0)
               = Block * (1 + Fs!Blocks(n))
<1> DEFINE b == Block
           q == n \div b
           r == n % b
           m == n + b - 1
           p == m \div b
           s == m % b
<1>1. b \in Nat /\ b > 0 /\ m \in Nat
  BY SizesOfFs
<1> HIDE DEF b, m
<1>2. q \in Int /\ r \in Int /\ n = b * q + r /\ 0 <= r /\ r < b
  BY <1>1
<1>3. p \in Int /\ s \in Int /\ m = b * p + s /\ 0 <= s /\ s < b
  BY <1>1
<1>4. m = n + b - 1 /\ Fs!Blocks(n) = p
  BY DEF Fs!Blocks, m, b
<1> HIDE DEF q, r, p, s
<1>5. b * p + s = b * q + r + b - 1
  BY <1>1, <1>2, <1>3, <1>4
<1>6. CASE r = 0
  <2>1. p = q
    BY <1>1, <1>2, <1>3, <1>5, <1>6
  <2> QED
    BY <1>1, <1>2, <1>4, <1>6, <2>1 DEF b, q, r
<1>7. CASE r # 0
  <2>1. p = q + 1
    BY <1>1, <1>2, <1>3, <1>5, <1>7
  <2> QED
    BY <1>1, <1>2, <1>4, <1>7, <2>1 DEF b, q, r
<1> QED
  BY <1>6, <1>7

\* Headers are in the order of their members.
LEMMA HeadersInOrder ==
    ASSUME NEW a \in Archives, NEW j \in 1 .. (Len(a) + 1), NEW k \in 1 .. (Len(a) + 1),
           j < k
    PROVE  Fs!HeaderAt(a, j) < Fs!HeaderAt(a, k)
<1> DEFINE n == Len(a)
           H(m) == Fs!HeaderAt(a, m)
           T == {d \in Nat : j + 1 + d <= n + 1 => H(j) < H(j + 1 + d)}
<1>1. /\ n \in Nat /\ \A m \in 1 .. (n + 1) : H(m) \in Nat
      /\ \A m \in 1 .. n : H(m) < H(m + 1)
  <2>1. ASSUME NEW m \in 1 .. n PROVE H(m) < H(m + 1)
    <3>1. H(m + 1) = H(m) + Extent(a, m) /\ H(m) \in Nat
      BY HeaderAtUnfolds, ArchiveIs
    <3>2. Extent(a, m) \in Nat /\ Extent(a, m) > 0
      BY ExtentIs
    <3> HIDE DEF H
    <3> QED
      BY <3>1, <3>2
  <2> QED
    BY <2>1, HeaderAtUnfolds, ArchiveIs
<1>2. j \in 1 .. (n + 1) /\ k \in 1 .. (n + 1) /\ j < k
  OBVIOUS
<1> HIDE DEF n, H
<1>3. 0 \in T
  BY <1>1, <1>2
<1>4. ASSUME NEW d \in T PROVE d + 1 \in T
  <2> SUFFICES ASSUME j + 1 + (d + 1) <= n + 1 PROVE H(j) < H(j + 1 + (d + 1))
    OBVIOUS
  <2>1. j + 1 + d \in 1 .. n /\ j + 1 + (d + 1) = (j + 1 + d) + 1
    BY <1>1, <1>2
  <2>2. H(j) < H(j + 1 + d) /\ H(j + 1 + d) < H((j + 1 + d) + 1)
    BY <1>1, <2>1
  <2>3. H(j) \in Nat /\ H(j + 1 + d) \in Nat /\ H((j + 1 + d) + 1) \in Nat
    BY <1>1, <1>2, <2>1
  <2> QED
    BY <2>1, <2>2, <2>3
<1>5. k - (j + 1) \in T
  <2>1. T \in SUBSET Nat
    OBVIOUS
  <2> HIDE DEF T
  <2>2. T = Nat
    BY <1>3, <1>4, <2>1, EveryNatural
  <2> QED
    BY <1>1, <1>2, <2>2
<1>6. j + 1 + (k - (j + 1)) = k
  BY <1>1, <1>2
<1> QED
  BY <1>1, <1>2, <1>5, <1>6 DEF H

\* The archive in memory.
LEMMA ImageIs ==
    ASSUME NEW a \in Archives
    PROVE  /\ DOMAIN Fs!ImageOf(a) = {Fs!HeaderAt(a, k) : k \in 1 .. (Len(a) + 1)}
           /\ \A k \in 1 .. Len(a) : Fs!ImageOf(a)[Fs!HeaderAt(a, k)] = a[k]
           /\ Fs!ImageOf(a)[Fs!HeaderAt(a, Len(a) + 1)] = Fs!Zeros
<1> DEFINE n == Len(a)
           H(m) == Fs!HeaderAt(a, m)
           M == 1 .. (n + 1)
           At(x) == CHOOSE k \in M : H(k) = x
           Content(x) == IF At(x) <= n THEN a[At(x)] ELSE Fs!Zeros
<1>1. n \in Nat
  BY ArchiveIs
<1>2. Fs!ImageOf(a) = [x \in {H(k) : k \in M} |-> Content(x)]
  BY Zenon DEF Fs!ImageOf
<1>3. \A j, k \in M : H(j) = H(k) => j = k
  <2> SUFFICES ASSUME NEW j \in M, NEW k \in M, H(j) = H(k), j # k PROVE FALSE
    OBVIOUS
  <2>1. H(j) \in Nat /\ H(k) \in Nat
    BY HeaderAtUnfolds
  <2>2. j < k \/ k < j
    BY <1>1
  <2>3. j < k => H(j) < H(k)
    BY HeadersInOrder
  <2>4. k < j => H(k) < H(j)
    BY HeadersInOrder
  <2> HIDE DEF H
  <2> QED
    BY <2>1, <2>2, <2>3, <2>4
<1>4. \A k \in M : At(H(k)) = k
  <2> HIDE DEF H
  <2> QED
    BY <1>3
<1> HIDE DEF At, H
<1>5. \A k \in M : Fs!ImageOf(a)[H(k)] = IF k <= n THEN a[k] ELSE Fs!Zeros
  BY <1>2, <1>4
<1>6. \A k \in 1 .. n : k \in M /\ k <= n
  BY <1>1
<1>7. n + 1 \in M /\ ~ (n + 1 <= n)
  BY <1>1
<1>8. DOMAIN Fs!ImageOf(a) = {H(k) : k \in M}
  BY <1>2
<1> QED
  BY <1>5, <1>6, <1>7, <1>8 DEF H

-----------------------------------------------------------------------------
(* The ramdisk: headers has the members' headers.                           *)

\* Archive a is in memory, and headers has the first of its members' headers:
\* those behind which parse is, and in the end all of them.
Parsed(a) ==
    /\ archive = Fs!ImageOf(a)
    /\ headers \in Seq(Nat) /\ Len(headers) <= Len(a) + 1
    /\ \A j \in 1 .. Len(headers) : headers[j] = Fs!HeaderAt(a, j)
    /\ IF fsAt = "parse"
         THEN /\ Len(headers) <= Len(a)
              /\ fsIndex = Len(headers) /\ address = Fs!HeaderAt(a, fsIndex + 1)
         ELSE Len(headers) = Len(a) + 1

\* What readFile and ls are about.
Calls ==
    /\ fsAt \in {"parse", "ready", "readFile", "ls", "wild"}
    /\ fsIndex \in Nat /\ fsIndex <= Len(headers) /\ address \in Nat
    /\ name \in Wanted \cup {<< >>} /\ found \in Nat \cup {-1}
    /\ listed \in Seq(Seq(Nat)) /\ Len(listed) <= Len(headers)
    /\ fsAt = "ls" => fsIndex > 0 /\ Len(listed) < fsIndex

FsInv == (\E a \in Archives : Parsed(a)) /\ Calls

\* One Cardinality.
LEMMA SameFsCardinality == \A S : Fs!Cardinality(S) = Cardinality(S)
BY Zenon DEF Fs!Cardinality, Cardinality, Fs!IsFiniteSet, IsFiniteSet

\* The first m headers are m addresses.
LEMMA HeadersCounted ==
    ASSUME NEW a \in Archives, NEW m \in Nat, m <= Len(a) + 1
    PROVE  Cardinality({Fs!HeaderAt(a, k) : k \in 1 .. m}) = m
<1> DEFINE H(k) == Fs!HeaderAt(a, k)
           S == {H(k) : k \in 1 .. m}
           f == [k \in 1 .. m |-> H(k)]
<1>1. \A k \in 1 .. m : k \in 1 .. (Len(a) + 1) /\ H(k) \in Nat
  BY ArchiveIs, HeaderAtUnfolds
<1>2. f \in [1 .. m -> S] /\ \A x \in S : \E j \in 1 .. m : f[j] = x
  OBVIOUS
<1>3. ASSUME NEW j \in 1 .. m, NEW k \in 1 .. m, j # k PROVE f[j] # f[k]
  <2>1. H(j) \in Nat /\ H(k) \in Nat
    BY <1>1
  <2>2. j < k \/ k < j
    BY <1>3
  <2>3. j < k => H(j) < H(k)
    BY <1>1, HeadersInOrder
  <2>4. k < j => H(k) < H(j)
    BY <1>1, HeadersInOrder
  <2>5. f[j] = H(j) /\ f[k] = H(k)
    OBVIOUS
  <2> HIDE DEF H, f
  <2> QED
    BY <2>1, <2>2, <2>3, <2>4, <2>5
<1> HIDE DEF f, S
<1>4. m = Cardinality(S)
  BY <1>2, <1>3, OnceEach
<1> QED
  BY <1>4 DEF S

\* The headers of an archive before one of them are those of the members before.
LEMMA HeadersBefore ==
    ASSUME NEW a \in Archives, NEW j \in 1 .. (Len(a) + 1)
    PROVE  {x \in DOMAIN Fs!ImageOf(a) : x < Fs!HeaderAt(a, j)}
               = {Fs!HeaderAt(a, k) : k \in 1 .. (j - 1)}
<1> DEFINE H(k) == Fs!HeaderAt(a, k)
           n == Len(a)
<1>1. n \in Nat /\ DOMAIN Fs!ImageOf(a) = {H(k) : k \in 1 .. (n + 1)}
  BY ArchiveIs, ImageIs
<1>2. \A k \in 1 .. (n + 1) : H(k) \in Nat
  BY HeaderAtUnfolds
<1>3. \A k \in 1 .. (n + 1), m \in 1 .. (n + 1) : k < m => H(k) < H(m)
  BY HeadersInOrder
<1>4. j \in 1 .. (n + 1)
  OBVIOUS
<1> HIDE DEF H, n
<1>5. ASSUME NEW k \in 1 .. (n + 1), H(k) < H(j) PROVE k \in 1 .. (j - 1)
  <2>1. ~ (j < k) /\ k # j
    BY <1>2, <1>3, <1>4, <1>5
  <2> QED
    BY <1>1, <1>4, <2>1
<1>6. \A k \in 1 .. (j - 1) : k \in 1 .. (n + 1) /\ H(k) < H(j)
  BY <1>1, <1>3, <1>4
<1>7. {x \in DOMAIN Fs!ImageOf(a) : x < H(j)} = {H(k) : k \in 1 .. (j - 1)}
  BY <1>1, <1>5, <1>6
<1> QED
  BY <1>7 DEF H

\* The invariant says what headers has (ramfs.c:8-39).
LEMMA FsInvMembers == FsInv => HeadersAreMembers
<1> SUFFICES ASSUME FsInv PROVE HeadersAreMembers
  OBVIOUS
<1>1. PICK a \in Archives : Parsed(a)
  BY DEF FsInv
<1> DEFINE n == Len(a)
           m == Len(headers)
<1>2. n \in Nat /\ m \in Nat /\ m <= n + 1 /\ DOMAIN headers = 1 .. m
  BY <1>1, ArchiveIs DEF Parsed
<1>3. \A j \in 1 .. m : headers[j] = Fs!HeaderAt(a, j)
  BY <1>1 DEF Parsed
<1>4. archive = Fs!ImageOf(a) /\ (fsAt # "parse" => m = n + 1)
  BY <1>1 DEF Parsed
<1>5. n = Len(a) /\ m = Len(headers)
  OBVIOUS
<1> HIDE DEF n, m
<1>6. ASSUME NEW j \in 1 .. m
      PROVE  /\ headers[j] \in DOMAIN archive
             /\ Cardinality({x \in DOMAIN archive : x < headers[j]}) = j - 1
  <2>1. j \in 1 .. (n + 1) /\ j - 1 \in Nat /\ j - 1 <= n + 1
    BY <1>2
  <2>2. headers[j] \in DOMAIN archive
    BY <1>3, <1>4, <1>5, <2>1, ImageIs
  <2>3. {x \in DOMAIN archive : x < headers[j]} = {Fs!HeaderAt(a, k) : k \in 1 .. (j - 1)}
    BY <1>3, <1>4, <1>5, <2>1, HeadersBefore
  <2>4. Cardinality({Fs!HeaderAt(a, k) : k \in 1 .. (j - 1)}) = j - 1
    BY <1>5, <2>1, HeadersCounted
  <2> QED
    BY <2>2, <2>3, <2>4
<1>7. Cardinality(DOMAIN archive) = n + 1
  <2>1. DOMAIN archive = {Fs!HeaderAt(a, k) : k \in 1 .. (n + 1)}
    BY <1>4, <1>5, ImageIs
  <2>2. n + 1 \in Nat /\ n + 1 <= Len(a) + 1
    BY <1>2, <1>5
  <2> QED
    BY <2>1, <2>2, HeadersCounted
<1>8. fsAt \in {"ready", "readFile", "ls"} => Len(headers) = Cardinality(DOMAIN archive)
  BY <1>4, <1>5, <1>7
<1> QED
  BY <1>2, <1>6, <1>8, SameFsCardinality, Zenon DEF HeadersAreMembers, Fs!HeadersAreMembers

\* And the types.
LEMMA FsInvTypes == FsInv => Fs!TypeOK
<1> SUFFICES ASSUME FsInv PROVE Fs!TypeOK
  OBVIOUS
<1>1. PICK a \in Archives : Parsed(a)
  BY DEF FsInv
<1>2. Len(a) \in Nat /\ Len(a) < MaxHeaders /\ MaxHeaders \in Nat
  BY ArchiveIs, SizesOfFs
<1>3. headers \in Seq(Nat) /\ Len(headers) <= Len(a) + 1
  BY <1>1 DEF Parsed
<1>4. Len(headers) \in Nat /\ \A j \in DOMAIN headers : headers[j] \in Nat
  BY <1>3
<1>5. Len(headers) <= MaxHeaders
  BY <1>2, <1>3, <1>4
<1>6. /\ fsAt \in {"parse", "ready", "readFile", "ls", "wild"}
      /\ fsIndex \in Nat /\ fsIndex <= Len(headers) /\ address \in Nat
      /\ name \in Wanted \cup {<< >>} /\ found \in Nat \cup {-1}
      /\ listed \in Seq(Seq(Nat)) /\ Len(listed) <= Len(headers)
  BY DEF FsInv, Calls
<1>7. fsIndex \in 0 .. MaxHeaders /\ Len(listed) <= MaxHeaders
  <2>1. Len(listed) \in Nat
    BY <1>6
  <2> QED
    BY <1>2, <1>4, <1>5, <1>6, <2>1
<1>8. ASSUME NEW j \in DOMAIN listed, NEW k \in DOMAIN listed[j] PROVE listed[j][k] \in Nat
  <2>1. listed[j] \in Seq(Nat)
    BY <1>6
  <2> QED
    BY <2>1
<1> QED
  BY <1>4, <1>5, <1>6, <1>7, <1>8 DEF Fs!TypeOK

\* What is in memory where a header is.
LEMMA MemberAtHeader ==
    ASSUME NEW a \in Archives, archive = Fs!ImageOf(a), NEW j \in 1 .. (Len(a) + 1)
    PROVE  /\ j <= Len(a) =>
                /\ Fs!NameAt(Fs!HeaderAt(a, j)) = a[j].name
                /\ Fs!SizeAt(Fs!HeaderAt(a, j)) = a[j].size
           /\ j = Len(a) + 1 => Fs!NameAt(Fs!HeaderAt(a, j)) = << >>
<1>1. Fs!HeaderAt(a, j) \in DOMAIN archive
  BY ImageIs
<1>2. /\ Fs!NameAt(Fs!HeaderAt(a, j)) = archive[Fs!HeaderAt(a, j)].name
      /\ Fs!SizeAt(Fs!HeaderAt(a, j)) = archive[Fs!HeaderAt(a, j)].size
  BY <1>1 DEF Fs!NameAt, Fs!SizeAt
<1>3. ASSUME j <= Len(a) PROVE archive[Fs!HeaderAt(a, j)] = a[j]
  <2>1. j \in 1 .. Len(a)
    BY <1>3, ArchiveIs
  <2> QED
    BY <2>1, ImageIs
<1>4. j = Len(a) + 1 => archive[Fs!HeaderAt(a, j)] = Fs!Zeros
  BY ImageIs
<1> QED
  BY <1>2, <1>3, <1>4 DEF Fs!Zeros

\* The parts of a name are names (string.c's strsplit).
LEMMA PartsAreNames ==
    ASSUME NEW str \in Seq(Nat), NEW split
    PROVE  Fs!strsplit(str, split).a \in Seq(Nat) /\ Fs!strsplit(str, split).b \in Seq(Nat)
<1> DEFINE n == Len(str)
           At == {k \in DOMAIN str : str[k] = split} \cup {n + 1}
           k == CHOOSE k \in At : \A m \in At : k <= m
           first == SubSeq(str, 1, k - 1)
           rest == SubSeq(str, k + 1, n)
<1>1. n \in Nat /\ DOMAIN str = 1 .. n
  OBVIOUS
<1>2. At \in SUBSET Nat /\ At # {} /\ At \subseteq 1 .. (n + 1)
  BY <1>1
<1>3. Fs!strsplit(str, split) = [a |-> first, b |-> rest]
  BY Zenon DEF Fs!strsplit
<1> HIDE DEF At, first, rest
<1>4. \E m \in At : \A y \in At : m <= y
  BY <1>2, LeastNatural
<1>5. k \in 1 .. (n + 1)
  BY <1>2, <1>4
<1> HIDE DEF k
<1>6. first \in Seq(Nat)
  <2>1. \A i \in 1 .. (k - 1) : str[i] \in Nat
    BY <1>1, <1>5
  <2> QED
    BY <1>1, <1>5, <2>1, SubSeqProperties DEF first
<1>7. rest \in Seq(Nat)
  BY <1>1, <1>5, SubSeqProperties DEF rest
<1> QED
  BY <1>3, <1>6, <1>7

\* So is the part that ls prints.
LEMMA NamesInPath ==
    ASSUME NEW path \in Seq(Nat)
    PROVE  Fs!NameInPath(path) \in Seq(Nat)
<1>1. Fs!strsplit(path, Fs!Slash).b \in Seq(Nat)
  BY PartsAreNames
<1> QED
  BY <1>1, PartsAreNames DEF Fs!NameInPath

\* One turn of parse goes from a header to the next (ramfs.c:12-25).
LEMMA ParseFsKeeps ==
    ASSUME FsInv, Fs!Parse
    PROVE  FsInv'
<1>1. PICK a \in Archives : Parsed(a)
  BY DEF FsInv
<1> DEFINE n == Len(a)
           i == fsIndex
           size == Fs!getsize(Fs!SizeAt(address))
           extent == ((size \div Block) + 1) * Block + (IF size % Block # 0 THEN Block ELSE 0)
<1>2. fsAt = "parse" /\ UNCHANGED <<archive, name, found, listed>>
  BY DEF Fs!Parse
<1>3. /\ archive = Fs!ImageOf(a) /\ headers \in Seq(Nat) /\ Len(headers) = i /\ i <= n
      /\ i \in Nat /\ n \in Nat /\ n < MaxHeaders /\ MaxHeaders \in Nat
      /\ address = Fs!HeaderAt(a, i + 1)
      /\ \A j \in 1 .. i : headers[j] = Fs!HeaderAt(a, j)
  BY <1>1, <1>2, ArchiveIs, SizesOfFs DEF FsInv, Calls, Parsed
<1>4. n = Len(a)
  OBVIOUS
<1> HIDE DEF n
<1>5. i # MaxHeaders /\ i + 1 \in 1 .. (n + 1)
  BY <1>3
<1>6. /\ headers' = Append(headers, address)
      /\ IF Fs!NameAt(address) = << >>
           THEN fsAt' = "ready" /\ UNCHANGED <<fsIndex, address>>
           ELSE /\ address' = address + ((size \div Block) + 1) * Block
                                + (IF size % Block # 0 THEN Block ELSE 0)
                /\ fsIndex' = fsIndex + 1 /\ fsAt' = fsAt
  BY <1>5, Zenon DEF Fs!Parse
<1>7. address \in Nat
  BY DEF FsInv, Calls
<1>8. /\ headers' \in Seq(Nat) /\ Len(headers') = i + 1
      /\ \A j \in 1 .. (i + 1) : headers'[j] = Fs!HeaderAt(a, j)
  <2>1. headers' \in Seq(Nat) /\ Len(headers') = i + 1
    BY <1>3, <1>6, <1>7
  <2>2. \A j \in 1 .. i : headers'[j] = headers[j]
    BY <1>3, <1>6, <1>7
  <2>3. headers'[i + 1] = address
    BY <1>3, <1>6, <1>7
  <2>4. \A j \in 1 .. (i + 1) : j \in 1 .. i \/ j = i + 1
    BY <1>3
  <2> QED
    BY <1>3, <2>1, <2>2, <2>3, <2>4
<1>9. /\ name' \in Wanted \cup {<< >>} /\ found' \in Nat \cup {-1}
      /\ listed' \in Seq(Seq(Nat)) /\ Len(listed') <= Len(headers')
  <2>1. /\ name \in Wanted \cup {<< >>} /\ found \in Nat \cup {-1}
        /\ listed \in Seq(Seq(Nat)) /\ Len(listed) <= Len(headers)
    BY DEF FsInv, Calls
  <2>2. Len(listed) \in Nat
    BY <2>1
  <2> QED
    BY <1>2, <1>3, <1>8, <2>1, <2>2
<1>10. CASE i = n
  <2>1. Fs!NameAt(address) = << >>
    BY <1>3, <1>4, <1>5, <1>10, MemberAtHeader
  <2>2. fsAt' = "ready" /\ UNCHANGED <<fsIndex, address>>
    BY <1>6, <2>1
  <2>3. Parsed(a)'
    BY <1>2, <1>3, <1>4, <1>8, <1>10, <2>2 DEF Parsed
  <2>4. Calls'
    BY <1>3, <1>7, <1>8, <1>9, <2>2 DEF Calls
  <2> QED
    BY <2>3, <2>4 DEF FsInv
<1>11. CASE i # n
  <2>1. i + 1 \in 1 .. n /\ i + 1 <= n /\ (i + 1) + 1 \in 1 .. (n + 1)
    BY <1>3, <1>11
  <2>2. /\ Fs!NameAt(address) = a[i + 1].name /\ Fs!SizeAt(address) = a[i + 1].size
        /\ a[i + 1].name # << >> /\ a[i + 1].size \in Seq(0 .. 7)
    <3>1. /\ Fs!NameAt(address) = a[i + 1].name /\ Fs!SizeAt(address) = a[i + 1].size
      BY <1>3, <1>4, <1>5, <2>1, MemberAtHeader
    <3> QED
      BY <1>4, <2>1, <3>1, ArchiveIs
  <2>3. size = Fs!Octal(a[i + 1].size) /\ size \in Nat
    BY <2>2, GetsizeIsOctal
  <2>4. extent = Extent(a, i + 1)
    <3> HIDE DEF size
    <3>1. extent = Block * (1 + Fs!Blocks(size))
      BY <2>3, SkipsTheExtent
    <3> QED
      BY <2>3, <3>1 DEF Extent
  <2>5. address' = address + extent
    <3>1. address' = address + ((size \div Block) + 1) * Block
                                + (IF size % Block # 0 THEN Block ELSE 0)
      BY <1>6, <2>2
    <3> DEFINE x == ((size \div Block) + 1) * Block
               y == IF size % Block # 0 THEN Block ELSE 0
    <3>2. x \in Int /\ y \in Int
      <4> HIDE DEF size
      <4>1. size \div Block \in Int
        BY <2>3, SizesOfFs
      <4> QED
        BY <4>1, SizesOfFs
    <3>3. address' = address + x + y /\ extent = x + y
      BY <3>1
    <3> HIDE DEF x, y, extent
    <3> QED
      BY <1>7, <3>2, <3>3
  <2>6. address' = Fs!HeaderAt(a, (i + 1) + 1) /\ address' \in Nat
    <3>1. Fs!HeaderAt(a, (i + 1) + 1) = Fs!HeaderAt(a, i + 1) + Extent(a, i + 1)
      BY <1>4, <2>1, HeaderAtUnfolds
    <3>2. Fs!HeaderAt(a, (i + 1) + 1) \in Nat
      BY <1>4, <2>1, HeaderAtUnfolds
    <3> QED
      BY <1>3, <2>4, <2>5, <3>1, <3>2
  <2>7. fsIndex' = i + 1 /\ fsAt' = "parse"
    BY <1>2, <1>6, <2>2
  <2>8. Parsed(a)'
    BY <1>2, <1>3, <1>4, <1>8, <2>1, <2>6, <2>7 DEF Parsed
  <2>9. Calls'
    BY <1>3, <1>8, <1>9, <2>6, <2>7 DEF Calls
  <2> QED
    BY <2>8, <2>9 DEF FsInv
<1> QED
  BY <1>10, <1>11

\* Names of characters are names of numbers.
LEMMA CharactersAreNumbers == \A s \in Seq(1 .. 127) : s \in Seq(Nat)
<1>1. 1 .. 127 \subseteq Nat
  OBVIOUS
<1> QED
  BY <1>1, SeqMonotonic, Zenon

\* Behind parse every entry of headers has a name.
LEMMA HeadersNamed ==
    ASSUME FsInv, fsAt # "parse", NEW j \in 1 .. Len(headers)
    PROVE  headers[j] \in Nat /\ Fs!NameAt(headers[j]) \in Seq(Nat)
<1>1. PICK a \in Archives : Parsed(a)
  BY DEF FsInv
<1>2. /\ archive = Fs!ImageOf(a) /\ Len(headers) = Len(a) + 1 /\ headers \in Seq(Nat)
      /\ headers[j] = Fs!HeaderAt(a, j) /\ Len(a) \in Nat
  BY <1>1, ArchiveIs DEF Parsed
<1>3. j \in 1 .. (Len(a) + 1)
  BY <1>2
<1>4. CASE j <= Len(a)
  <2>1. j \in 1 .. Len(a)
    BY <1>2, <1>3, <1>4
  <2>2. Fs!NameAt(headers[j]) = a[j].name
    BY <1>2, <1>3, <1>4, MemberAtHeader
  <2>3. a[j].name \in Seq(1 .. 127)
    BY <2>1, ArchiveIs
  <2>4. a[j].name \in Seq(Nat)
    BY <2>3, CharactersAreNumbers
  <2> QED
    BY <1>2, <2>2, <2>4
<1>5. CASE j = Len(a) + 1
  <2>1. Fs!NameAt(headers[j]) = << >>
    BY <1>2, <1>3, <1>5, MemberAtHeader
  <2> QED
    BY <1>2, <2>1
<1> QED
  BY <1>2, <1>3, <1>4, <1>5

\* How many there are.
LEMMA HeadersLength == FsInv => Len(headers) \in Nat
BY DEF FsInv, Parsed

\* The archive and headers stay as parse has left them.
LEMMA BehindParse ==
    ASSUME FsInv, fsAt # "parse", fsAt' # "parse", UNCHANGED <<archive, headers>>, Calls'
    PROVE  FsInv'
<1>1. PICK a \in Archives : Parsed(a)
  BY DEF FsInv
<1>2. Parsed(a)'
  BY <1>1 DEF Parsed
<1> QED
  BY <1>2 DEF FsInv

\* readFile begins at the first header (ramfs.c:41-45).
LEMMA ReadFileKeeps ==
    ASSUME FsInv, NEW n \in Wanted, Fs!ReadFile(n)
    PROVE  FsInv'
<1>1. /\ fsAt = "ready" /\ fsAt' = "readFile" /\ fsIndex' = 0 /\ name' = n
      /\ UNCHANGED <<archive, address, headers, found, listed>>
  BY DEF Fs!ReadFile
<1>2. Len(headers) \in Nat
  BY HeadersLength
<1>3. Calls'
  BY <1>1, <1>2 DEF FsInv, Calls
<1> QED
  BY <1>1, <1>3, BehindParse

\* What it finds is behind a header (ramfs.c:45-54).
LEMMA TryHeaderKeeps ==
    ASSUME FsInv, Fs!TryHeader
    PROVE  FsInv'
<1>1. /\ fsAt = "readFile" /\ UNCHANGED <<archive, address, headers, name, listed>>
      /\ \/ /\ fsIndex >= Len(headers) /\ fsAt' = "wild" /\ UNCHANGED <<fsIndex, found>>
         \/ /\ ~ (fsIndex >= Len(headers)) /\ fsAt' = "ready"
            /\ found' = headers[fsIndex + 1] + Block /\ UNCHANGED fsIndex
         \/ /\ ~ (fsIndex >= Len(headers)) /\ fsIndex' = fsIndex + 1
            /\ UNCHANGED <<fsAt, found>>
  BY Zenon DEF Fs!TryHeader
<1>2. Len(headers) \in Nat /\ fsIndex \in Nat
  BY HeadersLength DEF FsInv, Calls
<1>3. CASE fsAt' = "wild" /\ UNCHANGED <<fsIndex, found>>
  <2>1. Calls'
    BY <1>1, <1>3 DEF FsInv, Calls
  <2> QED
    BY <1>1, <1>3, <2>1, BehindParse
<1>4. CASE /\ ~ (fsIndex >= Len(headers)) /\ fsAt' = "ready"
           /\ found' = headers[fsIndex + 1] + Block /\ UNCHANGED fsIndex
  <2>1. fsIndex + 1 \in 1 .. Len(headers)
    BY <1>2, <1>4
  <2>2. headers[fsIndex + 1] \in Nat
    BY <1>1, <2>1, HeadersNamed
  <2>3. found' \in Nat
    BY <1>4, <2>2, SizesOfFs
  <2>4. Calls'
    BY <1>1, <1>4, <2>3 DEF FsInv, Calls
  <2> QED
    BY <1>1, <1>4, <2>4, BehindParse
<1>5. CASE ~ (fsIndex >= Len(headers)) /\ fsIndex' = fsIndex + 1 /\ UNCHANGED <<fsAt, found>>
  <2>1. fsIndex + 1 \in Nat /\ fsIndex + 1 <= Len(headers)
    BY <1>2, <1>5
  <2>2. Calls'
    BY <1>1, <1>5, <2>1 DEF FsInv, Calls
  <2> QED
    BY <1>1, <1>5, <2>2, BehindParse
<1> QED
  BY <1>1, <1>3, <1>4, <1>5

\* ls begins at the second header (ramfs.c:62-63).
LEMMA LsKeeps ==
    ASSUME FsInv, Fs!Ls
    PROVE  FsInv'
<1>1. /\ fsAt = "ready" /\ fsAt' = "ls" /\ fsIndex' = 1 /\ listed' = << >>
      /\ UNCHANGED <<archive, address, headers, name, found>>
  BY DEF Fs!Ls
<1>2. 1 <= Len(headers)
  <2>1. PICK a \in Archives : Parsed(a)
    BY DEF FsInv
  <2>2. Len(headers) = Len(a) + 1 /\ Len(a) \in Nat
    BY <1>1, <2>1, ArchiveIs DEF Parsed
  <2> QED
    BY <2>2
<1>3. Len(headers) \in Nat /\ listed' \in Seq(Seq(Nat)) /\ Len(listed') = 0
  BY <1>1, HeadersLength
<1>4. Calls'
  BY <1>1, <1>2, <1>3 DEF FsInv, Calls
<1> QED
  BY <1>1, <1>4, BehindParse

\* It prints a name for each header at most (ramfs.c:63-86).
LEMMA ListHeaderKeeps ==
    ASSUME FsInv, Fs!ListHeader
    PROVE  FsInv'
<1> DEFINE path == Fs!NameAt(headers[fsIndex + 1])
           more == Append(listed, Fs!NameInPath(path))
<1>1. /\ fsAt = "ls" /\ UNCHANGED <<archive, address, headers, name, found>>
      /\ \/ fsIndex >= Len(headers) /\ fsAt' = "wild" /\ UNCHANGED <<fsIndex, listed>>
         \/ fsAt' = "ready" /\ UNCHANGED <<fsIndex, listed>>
         \/ /\ ~ (fsIndex >= Len(headers)) /\ fsIndex' = fsIndex + 1 /\ UNCHANGED fsAt
            /\ listed' = more \/ listed' = listed
  BY Zenon DEF Fs!ListHeader
<1>2. /\ Len(headers) \in Nat /\ fsIndex \in Nat /\ Len(listed) \in Nat
      /\ listed \in Seq(Seq(Nat)) /\ Len(listed) < fsIndex
  BY <1>1, HeadersLength DEF FsInv, Calls
<1>3. CASE fsAt' \in {"wild", "ready"} /\ UNCHANGED <<fsIndex, listed>>
  <2>1. Calls'
    BY <1>1, <1>3 DEF FsInv, Calls
  <2> QED
    BY <1>1, <1>3, <2>1, BehindParse
<1>4. CASE /\ ~ (fsIndex >= Len(headers)) /\ fsIndex' = fsIndex + 1 /\ UNCHANGED fsAt
           /\ listed' = more \/ listed' = listed
  <2>1. fsIndex + 1 \in 1 .. Len(headers) /\ fsIndex + 1 \in Nat
    BY <1>2, <1>4
  <2>2. path \in Seq(Nat)
    BY <1>1, <2>1, HeadersNamed
  <2> HIDE DEF path
  <2>3. Fs!NameInPath(path) \in Seq(Nat)
    BY <2>2, NamesInPath
  <2>4. more \in Seq(Seq(Nat)) /\ Len(more) = Len(listed) + 1
    BY <1>2, <2>3
  <2> HIDE DEF more
  <2>5. /\ listed' \in Seq(Seq(Nat)) /\ Len(listed') <= Len(listed) + 1
        /\ Len(listed') \in Nat
    BY <1>2, <1>4, <2>4
  <2>6. Len(listed') < fsIndex + 1 /\ Len(listed') <= Len(headers)
    BY <1>2, <2>1, <2>5
  <2>7. Calls'
    BY <1>1, <1>4, <2>1, <2>5, <2>6 DEF FsInv, Calls
  <2> QED
    BY <1>1, <1>4, <2>7, BehindParse
<1> QED
  BY <1>1, <1>3, <1>4

\* The other steps leave the ramdisk alone.
LEMMA FsUnchanged == FsInv /\ UNCHANGED fsVars => FsInv'
BY DEF FsInv, Parsed, Calls, fsVars

\* Every step keeps the ramdisk's invariant.
LEMMA FsInvNext == FsInv /\ [Next]_vars => FsInv'
<1> SUFFICES ASSUME FsInv, [Next]_vars PROVE FsInv'
  OBVIOUS
<1>1. CASE Parse
  <2>1. Fs!Parse \/ UNCHANGED fsVars
    BY <1>1, Zenon DEF Parse
  <2> QED
    BY <2>1, ParseFsKeeps, FsUnchanged
<1>2. CASE Call
  <2>1. Fs!Ls \/ \E n \in Wanted : Fs!ReadFile(n)
    BY <1>2, Zenon DEF Call
  <2> QED
    BY <2>1, LsKeeps, ReadFileKeeps
<1>3. CASE Turn
  <2>1. Fs!TryHeader \/ Fs!ListHeader
    BY <1>3, Zenon DEF Turn
  <2> QED
    BY <2>1, TryHeaderKeeps, ListHeaderKeeps
<1>4. CASE (BootStep /\ ~ Parse) \/ MouseInterrupt
  <2>1. UNCHANGED fsVars
    BY <1>4, Zenon DEF BootStep, SetWriteFunc, BOOT_CheckLoader, FBCON_Init, MapEntry, MapEnd,
       TakeModule, CreateIdt, TakeAddresses, TakeHhdm, TestRamdisk, EnterACPI, ScanStep,
       Greet, MouseInterrupt, Kept
  <2> QED
    BY <2>1, FsUnchanged
<1>5. CASE UNCHANGED vars
  <2>1. UNCHANGED fsVars
    BY <1>5, Zenon DEF vars
  <2> QED
    BY <2>1, FsUnchanged
<1> QED
  BY <1>1, <1>2, <1>3, <1>4, <1>5 DEF Next

\* At first nothing has been parsed.
LEMMA FsInvInit == Init => FsInv
<1> SUFFICES ASSUME Init PROVE FsInv
  OBVIOUS
<1>1. PICK a \in Archives : archive = Fs!ImageOf(a)
  BY UsualAssumption, Zenon DEF Init, Environment
<1>2. /\ fsAt = "parse" /\ fsIndex = 0 /\ address = 0 /\ headers = << >>
      /\ name = << >> /\ found = -1 /\ listed = << >>
  BY DEF Init, Fs!Start
<1>3. Len(headers) = 0 /\ headers \in Seq(Nat) /\ listed \in Seq(Seq(Nat)) /\ Len(listed) = 0
  BY <1>2
<1>4. Parsed(a)
  <2>1. Fs!HeaderAt(a, 0 + 1) = 0 /\ Len(a) \in Nat
    BY HeaderAtUnfolds, ArchiveIs
  <2> QED
    BY <1>1, <1>2, <1>3, <2>1 DEF Parsed
<1>5. Calls
  BY <1>2, <1>3 DEF Calls
<1> QED
  BY <1>4, <1>5 DEF FsInv

-----------------------------------------------------------------------------
(* The types of the rest.                                                   *)

Globals ==
    /\ writer \in {"none", "COM_LogWrapper", "FBCON_Write"}
    /\ loaderID \in BOOLEAN /\ initramfs \in BOOLEAN /\ idt \in BOOLEAN
    /\ loaderName \in [name : 0 .. NameSize, version : 0 .. NameSize]
    /\ physical \in BOOLEAN /\ virtual \in BOOLEAN /\ hhdm_offset \in BOOLEAN
    /\ residue \in BOOLEAN /\ mouse \in BOOLEAN

Places ==
    /\ pc \in {"init", "BOOT_CheckLoader", "FBCON_Init", "memmap", "module", "create_idt",
               "addresses", "hhdm", "ramdisk", "parse", "ACPI_Init", "scan", "AHCI",
               "idle", "panic", "reset"}
    /\ scanAt \in {"RSDP", "RSDT", "table", "PCI", "range", "bus", "device",
                   "function", "done", "panic"}

\* What the globals are set to.
LEMMA ResponsesAre ==
    ASSUME BootInv
    PROVE  /\ loader.module \in BOOLEAN /\ loader.addresses \in BOOLEAN
           /\ loader.hhdm \in BOOLEAN
           /\ loader.info # NULL =>
                loader.info \in [name : 0 .. NameSize, version : 0 .. NameSize]
<1>1. loader \in Responses
  BY LoadersAssumption, Zenon DEF BootInv, Followed
<1>2. /\ loader.module \in BOOLEAN /\ loader.addresses \in BOOLEAN
      /\ loader.hhdm \in BOOLEAN
  BY <1>1, Zenon DEF Responses
<1>3. loader.info \in {NULL} \cup [name : 0 .. (NameSize - 1), version : 0 .. (NameSize - 1)]
  BY <1>1 DEF Responses
<1>4. 0 .. (NameSize - 1) \subseteq 0 .. NameSize
  BY NameSizeAssumption
<1> QED
  BY <1>2, <1>3, <1>4

\* Every step keeps the globals' types.
LEMMA GlobalsKeep ==
    ASSUME BootInv, Globals, [Next]_vars
    PROVE  Globals'
<1>0. UNCHANGED <<residue, mouse>>
  <2>1. CASE BootStep
    BY <2>1, Zenon
       DEF BootStep, SetWriteFunc, BOOT_CheckLoader, FBCON_Init, MapEntry, MapEnd, TakeModule,
           CreateIdt, TakeAddresses, TakeHhdm, TestRamdisk, Parse, EnterACPI, ScanStep, Greet,
           Kept
  <2>2. CASE MouseInterrupt \/ Call \/ Turn
    BY <2>2, Zenon DEF MouseInterrupt, Call, Turn, Kept
  <2>3. CASE UNCHANGED vars
    BY <2>3, Zenon DEF vars
  <2> QED
    BY <2>1, <2>2, <2>3 DEF Next
<1>1. /\ loader.module \in BOOLEAN /\ loader.addresses \in BOOLEAN
      /\ loader.hhdm \in BOOLEAN
      /\ loader.info # NULL =>
                loader.info \in [name : 0 .. NameSize, version : 0 .. NameSize]
  BY ResponsesAre
<1>2. CASE SetWriteFunc
  BY <1>0, <1>2 DEF SetWriteFunc, Globals
<1>3. CASE BOOT_CheckLoader
  <2>1. /\ loaderID' = (loader.info # NULL)
        /\ loaderName' = IF loader.info # NULL THEN loader.info ELSE loaderName
        /\ UNCHANGED <<writer, heap, initramfs, idt, physical, virtual, hhdm_offset>>
    BY <1>3, Zenon DEF BOOT_CheckLoader
  <2>2. loaderName' \in [name : 0 .. NameSize, version : 0 .. NameSize]
    BY <1>1, <2>1 DEF Globals
  <2>3. loaderID' \in BOOLEAN
    BY <2>1, Zenon
  <2> QED
    BY <1>0, <2>1, <2>2, <2>3 DEF Globals
<1>4. CASE FBCON_Init
  BY <1>0, <1>4 DEF FBCON_Init, Globals
<1>5. CASE MapEntry
  BY <1>0, <1>5 DEF MapEntry, Globals
<1>6. CASE TakeModule
  BY <1>0, <1>1, <1>6, Zenon DEF TakeModule, Globals
<1>7. CASE CreateIdt
  BY <1>0, <1>7 DEF CreateIdt, Globals
<1>8. CASE TakeAddresses
  BY <1>0, <1>1, <1>8, Zenon DEF TakeAddresses, Globals
<1>9. CASE TakeHhdm
  BY <1>0, <1>1, <1>9, Zenon DEF TakeHhdm, Globals
<1>10. CASE \/ MapEnd \/ TestRamdisk \/ Parse \/ EnterACPI \/ ScanStep \/ Greet
            \/ MouseInterrupt \/ Call \/ Turn \/ UNCHANGED vars
  <2>1. UNCHANGED globals
    BY <1>10, Zenon DEF MapEnd, TestRamdisk, Parse, EnterACPI, ScanStep, Greet,
       MouseInterrupt, Call, Turn, vars
  <2> QED
    BY <1>0, <2>1 DEF globals, Globals
<1> QED
  BY <1>2, <1>3, <1>4, <1>5, <1>6, <1>7, <1>8, <1>9, <1>10 DEF Next, BootStep

\* Where the search is.
LEMMA ScanPlaces ==
    ASSUME Scan!Next
    PROVE  scanAt' \in {"RSDP", "RSDT", "table", "PCI", "range", "bus", "device",
                        "function", "done", "panic"}
<1>1. CASE Scan!ACPI_Init
  BY <1>1 DEF Scan!ACPI_Init, Scan!CheckRSDP, Scan!CheckRSDT, Scan!NextTable, Scan!LastTable
<1>2. CASE Scan!EnumeratePCI \/ Scan!NextRange \/ Scan!EnumerateBus
  BY <1>2 DEF Scan!EnumeratePCI, Scan!NextRange, Scan!EnumerateBus
<1>3. CASE Scan!EnumerateDevice
  BY <1>3 DEF Scan!EnumerateDevice
<1>4. CASE Scan!EnumerateFunction
  BY <1>4 DEF Scan!EnumerateFunction
<1> QED
  BY <1>1, <1>2, <1>3, <1>4 DEF Scan!Next

\* Where the boot thread is.
LEMMA PlacesKeep ==
    ASSUME Places, [Next]_vars
    PROVE  Places'
<1> DEFINE P == {"init", "BOOT_CheckLoader", "FBCON_Init", "memmap", "module", "create_idt",
                 "addresses", "hhdm", "ramdisk", "parse", "ACPI_Init", "scan", "AHCI",
                 "idle", "panic", "reset"}
<1>1. pc' \in P
  <2>1. Fault \in {"panic", "reset"} /\ pc \in P
    BY DEF Fault, Places
  <2>2. CASE \/ SetWriteFunc \/ BOOT_CheckLoader \/ MapEntry \/ CreateIdt \/ Call \/ Turn
             \/ UNCHANGED vars
    BY <2>1, <2>2 DEF SetWriteFunc, BOOT_CheckLoader, MapEntry, CreateIdt, Call, Turn, vars
  <2>3. CASE \/ FBCON_Init \/ MapEnd \/ TakeModule \/ TakeAddresses \/ TakeHhdm
             \/ TestRamdisk \/ EnterACPI \/ ScanStep \/ Greet \/ Parse \/ MouseInterrupt
    <3>1. \/ pc' \in {Fault, "memmap", "module", "create_idt", "hhdm", "ramdisk", "parse",
                      "ACPI_Init", "scan", "AHCI", "idle", "panic", "reset"}
          \/ pc' = pc
      BY <2>3 DEF FBCON_Init, MapEnd, TakeModule, TakeAddresses, TakeHhdm, TestRamdisk,
         EnterACPI, ScanStep, DriverEnds, Greet, Parse, MouseInterrupt
    <3> QED
      BY <2>1, <3>1
  <2> QED
    BY <2>2, <2>3 DEF Next, BootStep
<1>2. CASE ScanStep
  <2>1. Scan!Next
    BY <1>2 DEF ScanStep
  <2> QED
    BY <1>1, <2>1, ScanPlaces DEF Places
<1>3. CASE ~ ScanStep
  <2>1. scanAt' = scanAt
    <3>1. UNCHANGED scanVars
      BY <1>3, OnlyTheScan
    <3> QED
      BY <3>1 DEF scanVars
  <2> QED
    BY <1>1, <2>1 DEF Places
<1> QED
  BY <1>2, <1>3

\* The types hold at first.
LEMMA TypesInit == Init => Globals /\ Places
<1> SUFFICES ASSUME Init PROVE Globals /\ Places
  OBVIOUS
<1>1. /\ pc = "init" /\ writer = "none" /\ loaderID = FALSE
      /\ loaderName = [name |-> 0, version |-> 0] /\ initramfs = FALSE /\ idt = FALSE
      /\ physical = FALSE /\ virtual = FALSE /\ hhdm_offset = FALSE /\ scanAt = "RSDP"
      /\ residue \in BOOLEAN /\ mouse \in BOOLEAN
  BY Zenon DEF Init, Environment, Scan!Start
<1>2. loaderName \in [name : 0 .. NameSize, version : 0 .. NameSize]
  BY <1>1, NameSizeAssumption
<1> QED
  BY <1>1, <1>2 DEF Globals, Places

\* The search's invariant has the types of its variables.
LEMMA ScanInvTypes ==
    ASSUME ScanInv, Places
    PROVE  Scan!TypeOK
<1>1. DOMAIN space \subseteq Scan!Slot /\ firmware \in Firmwares
  BY SpaceIs DEF ScanInv, Tables
<1>2. printed \in Seq(Line) /\ attached \in Seq(Scan!Slot)
  BY DEF ScanInv, Lines
<1>3. \A j \in DOMAIN printed : printed[j].slot \in Scan!Slot
  <2>1. \A j \in DOMAIN printed : printed[j] \in Line
    BY <1>2, LenProperties, ElementOfSeq
  <2> QED
    BY <2>1 DEF Line
<1>4. \A j \in DOMAIN attached : attached[j] \in Scan!Slot
  BY <1>2, LenProperties, ElementOfSeq
<1>5. /\ scanIndex \in Nat
      /\ bus \in 0 .. Buses /\ device \in 0 .. Devices /\ function \in 0 .. Functions
  BY DEF ScanInv, Loops
<1> QED
  BY <1>1, <1>3, <1>4, <1>5 DEF Scan!TypeOK, Places

-----------------------------------------------------------------------------
(* The theorems.                                                            *)

\* The invariant holds in every state (init.c:18-53).
THEOREM InvariantHolds == Spec => []BootInv
<1>1. Init => BootInv /\ Started
  BY InitInv DEF Init, Scan!Start, Started
<1>2. BootInv /\ Started /\ [Next]_vars => (BootInv /\ Started)'
  BY StepInv, StartedKeeps
<1> QED
  BY <1>1, <1>2, PTL DEF Spec

\* A boot that stops short lacks a response, a table or a heap, or met a class
\* behind the table, the mouse or a wild driver; and a panic is seen on whatever
\* console there is (init.c:18-53, idt.c:36-49, acpi.c:42-78, pci.c:18, 78-80,
\* sata.c:48-62, 173-191).
THEOREM StopsOnlyForCause == Spec => []StopsForCause
<1>1. BootInv => StopsForCause
  BY DEF BootInv
<1> QED
  BY <1>1, InvariantHolds, PTL

\* A driver that runs has a heap in usable memory (init.c:22-27, sata.c:174).
THEOREM TheDriverHasMemory == Spec => []DriverHasMemory
<1>1. BootInv => DriverHasMemory
  <2> SUFFICES ASSUME BootInv, attached # << >>, pc # "panic"
               PROVE  \E j \in DOMAIN loader.memmap :
                          loader.memmap[j].usable /\ heap = loader.memmap[j].base
    BY DEF DriverHasMemory
  <2>1. heap # NULL
    BY DEF BootInv, Followed
  <2> QED
    BY <2>1 DEF BootInv, HeapFollowsMap, Usable
<1> QED
  BY <1>1, InvariantHolds, PTL

\* When the walk is over it has printed every function that is there to be
\* found, and started the driver once for each controller (pci.c:6-90).
THEOREM TheWalkIsComplete == Spec => []ScanIsComplete
<1>1. ScanInv => ScanIsComplete
  <2> SUFFICES ASSUME ScanInv, scanAt = "done"
               PROVE  /\ {printed[j].slot : j \in DOMAIN printed} = Scan!Reachable
                      /\ {attached[j] : j \in DOMAIN attached}
                           = {s \in Scan!Reachable : Scan!IsAhci(space[s])}
                      /\ Len(printed) = Cardinality(Scan!Reachable)
                      /\ \A j, k \in DOMAIN attached : j # k => attached[j] # attached[k]
    BY SameCardinality, Zenon DEF ScanIsComplete, Scan!ScanIsComplete
  <2>1. /\ printed \in Seq(Line) /\ attached \in Seq(Scan!Slot)
        /\ \A s \in Scan!Slot : s \in Covered <=> \E j \in DOMAIN printed : printed[j].slot = s
        /\ \A s \in Scan!Slot :
              s \in Covered /\ Scan!IsAhci(space[s]) <=> \E j \in DOMAIN attached : attached[j] = s
        /\ \A j, k \in DOMAIN printed : j # k => printed[j].slot # printed[k].slot
        /\ \A j, k \in DOMAIN attached : j # k => attached[j] # attached[k]
    BY DEF ScanInv, Lines
  <2>2. /\ Len(printed) \in Nat /\ DOMAIN printed = 1 .. Len(printed)
        /\ DOMAIN attached = 1 .. Len(attached)
        /\ \A j \in DOMAIN printed : printed[j].slot \in Scan!Slot
        /\ \A j \in DOMAIN attached : attached[j] \in Scan!Slot
    <3>1. /\ Len(printed) \in Nat /\ DOMAIN printed = 1 .. Len(printed)
          /\ DOMAIN attached = 1 .. Len(attached)
      BY <2>1, LenProperties
    <3>2. \A j \in DOMAIN printed : printed[j] \in Line
      BY <2>1, <3>1, ElementOfSeq
    <3>3. \A j \in DOMAIN attached : attached[j] \in Scan!Slot
      BY <2>1, <3>1, ElementOfSeq
    <3> QED
      BY <3>1, <3>2, <3>3 DEF Line
  <2>3. Scan!Reachable \subseteq Scan!Slot
    BY SpaceIs DEF Scan!Reachable, ScanInv, Tables
  <2>4. Covered = Scan!Reachable
    <3>1. ASSUME NEW s \in Scan!Reachable PROVE Behind(s)
      <4>1. PICK j \in DOMAIN mcfg : InRange(j, s[1])
        BY <2>3, ReachableIs
      <4>2. j < scanIndex
        <5>1. mcfg # NULL /\ scanIndex > Len(mcfg) /\ scanIndex \in Nat
          BY DEF ScanInv, Tables, Loops
        <5>2. Len(mcfg) \in Nat /\ DOMAIN mcfg = 1 .. Len(mcfg)
          BY <5>1, RangesAre DEF ScanInv
        <5> QED
          BY <5>1, <5>2
      <4> QED
        BY <4>1, <4>2 DEF Behind
    <3> QED
      BY <3>1 DEF Covered
  <2>5. {printed[j].slot : j \in DOMAIN printed} = Scan!Reachable
    BY <2>1, <2>2, <2>3, <2>4
  <2>6. {attached[j] : j \in DOMAIN attached} = {s \in Scan!Reachable : Scan!IsAhci(space[s])}
    BY <2>1, <2>2, <2>3, <2>4
  <2>7. Len(printed) = Cardinality(Scan!Reachable)
    <3> DEFINE f == [j \in 1 .. Len(printed) |-> printed[j].slot]
    <3>1. f \in [1 .. Len(printed) -> Scan!Reachable]
      BY <2>2, <2>5
    <3>2. \A x \in Scan!Reachable : \E j \in 1 .. Len(printed) : f[j] = x
      BY <2>2, <2>5
    <3>3. \A j, k \in 1 .. Len(printed) : j # k => f[j] # f[k]
      BY <2>1, <2>2
    <3> HIDE DEF f
    <3> QED
      BY <2>2, <3>1, <3>2, <3>3, OnceEach
  <2> QED
    BY <2>1, <2>5, <2>6, <2>7
<1> QED
  BY <1>1, ScanInvInit, ScanInvNext, PTL DEF Spec

\* Every entry of headers is the header of its member, whatever the members'
\* sizes, and when parse returns there is one for each and one for the end
\* (ramfs.c:8-39).
THEOREM HeadersFound == Spec => []HeadersAreMembers
BY FsInvInit, FsInvNext, FsInvMembers, PTL DEF Spec

\* Every variable of the boot, of the ramdisk and of the search has its type
\* (init.c:18-53, ramfs.c:6-86, pci.c:6-90).
THEOREM TypeCorrect == Spec => []TypeOK
<1>1. BootInv /\ Started /\ ScanInv /\ FsInv /\ Globals /\ Places => TypeOK
  <2> SUFFICES ASSUME BootInv, Started, ScanInv, FsInv, Globals, Places PROVE TypeOK
    OBVIOUS
  <2>1. Fs!TypeOK /\ Scan!TypeOK
    BY FsInvTypes, ScanInvTypes
  <2>2. entry \in Nat \ {0}
    BY DEF BootInv, HeapFollowsMap
  <2> QED
    BY <2>1, <2>2, Zenon DEF TypeOK, Globals, Places
<1>2. Init => BootInv /\ Started /\ ScanInv /\ FsInv /\ Globals /\ Places
  BY InitInv, ScanInvInit, FsInvInit, TypesInit DEF Init, Scan!Start, Started
<1>3. /\ BootInv /\ Started /\ ScanInv /\ FsInv /\ Globals /\ Places /\ [Next]_vars
      => (BootInv /\ Started /\ ScanInv /\ FsInv /\ Globals /\ Places)'
  BY StepInv, StartedKeeps, ScanInvNext, FsInvNext, GlobalsKeep, PlacesKeep
<1> QED
  BY <1>1, <1>2, <1>3, PTL DEF Spec
=============================================================================
