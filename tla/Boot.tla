--------------------------------- MODULE Boot ---------------------------------
(***************************************************************************)
(* The boot thread from _start to its idle loop: init (init.c) with the    *)
(* boot loader's responses (boot/), the initial ramdisk (Ramfs) and the    *)
(* search for devices (PciScan), each called where init calls it.          *)
(*                                                                         *)
(* The loader's responses are external: a null response is FALSE or NULL.  *)
(* Following one is a page fault: page 0 is not mapped.  Before create_idt *)
(* has loaded the gates a fault resets the machine; from then on its       *)
(* handler panics.  So does an interrupt that has no gate, the mouse's.    *)
(*                                                                         *)
(* The console's characters, the gates and the PICs, the driver's commands *)
(* and the heap's blocks are in Console, Interrupts, Ahci and Heap.  The   *)
(* driver is one step here, with every end that it may have.               *)
(***************************************************************************)
EXTENDS Integers, Sequences, FiniteSets

CONSTANTS
    Buses, Devices, Functions, Spaces, Firmwares,  \* see PciScan
    Block, MaxHeaders, Archives, Wanted,           \* see Ramfs
    Loaders,      \* the loader's responses, see Responses
    Usual,        \* the loader, archive, firmware and space that the others
                  \* are combined with
    NameSize,     \* sizeof BOOT_LoaderName, and BOOT_LoaderVersion
    Roomy,        \* the regions, by their bases, where the driver's memory fits
                  \* and lies below 4 GiB
    NULL

VARIABLES
    loader,       \* the responses
    residue,      \* what malloc returns is not zero where the driver's portCount
                  \* lies (external)
    mouse,        \* a mouse that reports (external)
    pc,           \* where the boot thread is
    entry,        \* the memory-map entry that is next
    writer,       \* TTY_WriteFunc, "none" before it is set
    loaderID,     \* BOOT_LoaderID: a loader was found
    loaderName,   \* BOOT_LoaderName and BOOT_LoaderVersion, as [name, version]
    heap,         \* kernieHeap_space, or NULL
    initramfs,    \* the module was taken
    idt,          \* the interrupt descriptor table is loaded
    physical, virtual, hhdm_offset,   \* these were taken from a response

    archive, fsAt, fsIndex, address, headers, name, found, listed,
    firmware, space, scanAt, scanIndex, mcfg, bus, device, function, printed, attached

Fs   == INSTANCE Ramfs WITH pc <- fsAt, i <- fsIndex
Scan == INSTANCE PciScan WITH pc <- scanAt, i <- scanIndex

ASSUME SizesAssumption     == Scan!SizesAssumption
ASSUME SpacesAssumption    == Scan!SpacesAssumption
ASSUME FirmwaresAssumption == Scan!FirmwaresAssumption
ASSUME BlockAssumption     == Fs!BlockAssumption
ASSUME ArchivesAssumption  == Fs!ArchivesAssumption
ASSUME WantedAssumption    == Fs!WantedAssumption
\* The loader's responses: the lengths of its name and version, its memory map,
\* and whether the others are there.
Responses ==
    [info : {NULL} \cup [name : 0 .. (NameSize - 1), version : 0 .. (NameSize - 1)],
     memmap : {NULL} \cup Seq([base : Nat, usable : BOOLEAN]),
     framebuffer : BOOLEAN, module : BOOLEAN, addresses : BOOLEAN, hhdm : BOOLEAN,
     rsdp : BOOLEAN]

\* The names fit their arrays, and together the log's str[128] with its 61
\* other characters: the code does not ask the latter and errs by one on the
\* former.  The loader never calls page 0 usable.
ASSUME LoadersAssumption   ==
    \A l \in Loaders \cup {Usual.loader} :
        /\ l \in Responses
        /\ l.info # NULL => 61 + l.info.name + l.info.version < 128
        /\ l.memmap # NULL =>
              \A j \in DOMAIN l.memmap : l.memmap[j].usable => l.memmap[j].base # 0
ASSUME NameSizeAssumption  == NameSize \in Nat \ {0}
ASSUME NullAssumption      == NULL \notin Nat
ASSUME RoomyAssumption     == Roomy \subseteq Nat
ASSUME UsualAssumption     ==
    Usual.firmware \in Firmwares /\ Usual.space \in Spaces /\ Usual.archive \in Archives

globals == <<writer, loaderID, loaderName, heap, initramfs, idt, physical, virtual,
             hhdm_offset>>
fsVars   == <<archive, fsAt, fsIndex, address, headers, name, found, listed>>
scanVars == <<firmware, space, scanAt, scanIndex, mcfg, bus, device, function, printed,
              attached>>
vars == <<loader, residue, mouse, pc, entry, globals, fsVars, scanVars>>

\* What only Parse, Call, Turn and ScanStep change, or nothing does.
Kept == UNCHANGED <<loader, residue, mouse, fsVars, scanVars>>

\* Where a null response is followed.
Fault == IF idt THEN "panic" ELSE "reset"

-----------------------------------------------------------------------------
(* init, before create_idt.                                                 *)

SetWriteFunc ==
    /\ pc = "init" /\ pc' = "BOOT_CheckLoader"
    /\ writer' = "COM_LogWrapper"
    /\ Kept /\ UNCHANGED <<entry, loaderID, loaderName, heap, initramfs, idt, physical,
                           virtual, hhdm_offset>>

\* strcpy of a name that fits: its characters and the terminator.
BOOT_CheckLoader ==
    /\ pc = "BOOT_CheckLoader" /\ pc' = "FBCON_Init"
    /\ loaderID' = (loader.info # NULL)
    /\ loaderName' = IF loader.info # NULL THEN loader.info ELSE loaderName
    /\ Kept /\ UNCHANGED <<entry, writer, heap, initramfs, idt, physical, virtual, hhdm_offset>>

\* LM_GetFramebuffer follows the response, but only if the loader was found;
\* without it the log stays on the serial port.
FBCON_Init ==
    /\ pc = "FBCON_Init"
    /\ pc' = IF loaderID /\ ~ loader.framebuffer THEN Fault ELSE "memmap"
    /\ writer' = IF loaderID /\ loader.framebuffer THEN "FBCON_Write" ELSE writer
    /\ Kept /\ UNCHANGED <<entry, loaderID, loaderName, heap, initramfs, idt, physical,
                           virtual, hhdm_offset>>

\* Mutant of MapEntry: the last region is taken, whatever its type.
MapEntry_AnyType ==
    /\ pc = "memmap" /\ loader.memmap # NULL /\ entry <= Len(loader.memmap)
    /\ heap' = loader.memmap[entry].base
    /\ entry' = entry + 1
    /\ Kept /\ UNCHANGED <<pc, writer, loaderID, loaderName, initramfs, idt, physical,
                           virtual, hhdm_offset>>

\* A turn of the loop over the memory map: MEM_Init for a usable region.
MapEntry ==
    /\ pc = "memmap" /\ loader.memmap # NULL /\ entry <= Len(loader.memmap)
    /\ heap' = IF loader.memmap[entry].usable THEN loader.memmap[entry].base ELSE heap
    /\ entry' = entry + 1
    /\ Kept /\ UNCHANGED <<pc, writer, loaderID, loaderName, initramfs, idt, physical,
                           virtual, hhdm_offset>>

MapEnd ==
    /\ pc = "memmap"
    /\ \/ loader.memmap = NULL /\ pc' = Fault
       \/ loader.memmap # NULL /\ entry > Len(loader.memmap) /\ pc' = "module"
    /\ Kept /\ UNCHANGED <<entry, globals>>

\* module.response is followed before anything tests it.
TakeModule ==
    /\ pc = "module"
    /\ pc' = IF loader.module THEN "create_idt" ELSE Fault
    /\ initramfs' = loader.module
    /\ Kept /\ UNCHANGED <<entry, writer, loaderID, loaderName, heap, idt, physical,
                           virtual, hhdm_offset>>

\* Mutant of CreateIdt: the table is filled but not loaded.
CreateIdt_NoLoad ==
    /\ pc = "create_idt" /\ pc' = "addresses"
    /\ Kept /\ UNCHANGED <<entry, globals>>

\* LoadGDT and create_idt.
CreateIdt ==
    /\ pc = "create_idt" /\ pc' = "addresses"
    /\ idt' = TRUE
    /\ Kept /\ UNCHANGED <<entry, writer, loaderID, loaderName, heap, initramfs, physical,
                           virtual, hhdm_offset>>

-----------------------------------------------------------------------------
(* init, from create_idt on.                                                *)

TakeAddresses ==
    /\ pc = "addresses"
    /\ pc' = IF loader.addresses THEN "hhdm" ELSE Fault
    /\ physical' = loader.addresses /\ virtual' = loader.addresses
    /\ Kept /\ UNCHANGED <<entry, writer, loaderID, loaderName, heap, initramfs, idt,
                           hhdm_offset>>

TakeHhdm ==
    /\ pc = "hhdm"
    /\ pc' = IF loader.hhdm THEN "ramdisk" ELSE Fault
    /\ hhdm_offset' = loader.hhdm
    /\ Kept /\ UNCHANGED <<entry, writer, loaderID, loaderName, heap, initramfs, idt,
                           physical, virtual>>

\* The test for the ramdisk, too late to find it missing.
TestRamdisk ==
    /\ pc = "ramdisk"
    /\ pc' = IF initramfs THEN "parse" ELSE "panic"
    /\ Kept /\ UNCHANGED <<entry, globals>>

Parse ==
    /\ pc = "parse"
    /\ IF fsAt = "parse" THEN Fs!Parse /\ UNCHANGED pc
                         ELSE pc' = "ACPI_Init" /\ UNCHANGED fsVars
    /\ UNCHANGED <<loader, residue, mouse, entry, globals, scanVars>>

EnterACPI ==
    /\ pc = "ACPI_Init"
    /\ pc' = IF loader.rsdp THEN "scan" ELSE Fault
    /\ Kept /\ UNCHANGED <<entry, globals>>

\* Where the driver's pointers lead is not known: portCount starts from what
\* malloc's memory held, or the memory is beyond the 4 GiB that 32 bits reach,
\* or beyond its region.
Wild == residue \/ heap \notin Roomy

\* How AHCIDriver_Init ends.  It begins with a malloc, which without a heap
\* stores its header at address 0.  An adapter that does not follow keeps it in
\* its loops (Ahci); a wild pointer may do anything.
DriverEnds ==
    IF heap = NULL THEN {Fault}
    ELSE {"scan", "AHCI"} \cup (IF Wild THEN {"panic", "reset"} ELSE {})

\* ACPI_Init and EnumeratePCI.
ScanStep ==
    /\ pc = "scan" /\ Scan!Next
    /\ IF scanAt' = "panic" THEN pc' = "panic"
       ELSE IF attached' # attached THEN pc' \in DriverEnds
       ELSE pc' = "scan"
    /\ UNCHANGED <<loader, residue, mouse, entry, globals, fsVars>>

\* init returns, _start greets and halts for good.
Greet ==
    /\ pc = "scan" /\ scanAt = "done"
    /\ pc' = "idle"
    /\ Kept /\ UNCHANGED <<entry, globals>>

BootStep ==
    \/ SetWriteFunc \/ BOOT_CheckLoader \/ FBCON_Init \/ MapEntry \/ MapEnd \/ TakeModule
    \/ CreateIdt \/ TakeAddresses \/ TakeHhdm \/ TestRamdisk \/ Parse \/ EnterACPI
    \/ ScanStep \/ Greet

\* IRQ 12 is open and has no gate: the fault that follows is a double fault.
MouseInterrupt ==
    /\ idt /\ mouse /\ pc \notin {"panic", "reset"}
    /\ pc' = "panic"
    /\ Kept /\ UNCHANGED <<entry, globals>>

-----------------------------------------------------------------------------
(* readFile and ls are what the headers are for.  Nothing calls them yet;   *)
(* their calls are taken from the idle loop.                                *)

Call ==
    /\ pc = "idle"
    /\ Fs!Ls \/ \E n \in Wanted : Fs!ReadFile(n)
    /\ UNCHANGED <<loader, residue, mouse, pc, entry, globals, scanVars>>

Turn ==
    /\ pc = "idle"
    /\ Fs!TryHeader \/ Fs!ListHeader
    /\ UNCHANGED <<loader, residue, mouse, pc, entry, globals, scanVars>>

-----------------------------------------------------------------------------

\* Every loader, with a mouse and residue or without; every archive; and every
\* machine: each with the usual others.
Environment ==
    \/ /\ loader \in Loaders /\ residue \in BOOLEAN /\ mouse \in BOOLEAN
       /\ archive = Fs!ImageOf(Usual.archive)
       /\ firmware = Usual.firmware /\ space = Usual.space
    \/ /\ \E a \in Archives : archive = Fs!ImageOf(a)
       /\ loader = Usual.loader /\ residue = FALSE /\ mouse = FALSE
       /\ firmware = Usual.firmware /\ space = Usual.space
    \/ /\ Scan!Machine
       /\ loader = Usual.loader /\ residue = FALSE /\ mouse = FALSE
       /\ archive = Fs!ImageOf(Usual.archive)

Init ==
    /\ Environment
    /\ pc = "init" /\ entry = 1 /\ writer = "none"
    /\ loaderID = FALSE /\ loaderName = [name |-> 0, version |-> 0]
    /\ heap = NULL /\ initramfs = FALSE /\ idt = FALSE
    /\ physical = FALSE /\ virtual = FALSE /\ hhdm_offset = FALSE
    /\ Fs!Start /\ Scan!Start

Next == BootStep \/ MouseInterrupt \/ Call \/ Turn

\* The boot thread runs, and a call that has begun goes on; nobody need call.
Spec == Init /\ [][Next]_vars /\ WF_vars(BootStep) /\ WF_vars(Turn)

-----------------------------------------------------------------------------
(* Properties.                                                              *)

\* Every variable has its type.
TypeOK ==
    /\ pc \in {"init", "BOOT_CheckLoader", "FBCON_Init", "memmap", "module", "create_idt",
               "addresses", "hhdm", "ramdisk", "parse", "ACPI_Init", "scan", "AHCI",
               "idle", "panic", "reset"}
    /\ entry \in Nat \ {0} /\ {residue, mouse} \subseteq BOOLEAN
    /\ writer \in {"none", "COM_LogWrapper", "FBCON_Write"}
    /\ loaderID \in BOOLEAN /\ initramfs \in BOOLEAN /\ idt \in BOOLEAN
    /\ loaderName \in [name : 0 .. NameSize, version : 0 .. NameSize]
    /\ {physical, virtual, hhdm_offset} \subseteq BOOLEAN
    /\ Fs!TypeOK /\ Scan!TypeOK

\* The function whose line is printed has a class that is not in the table.
AtUnnamedClass ==
    LET slot == <<bus, device, function>> IN
    scanAt = "panic" /\ slot \in DOMAIN space /\ ~ Scan!ClassNamed(space[slot])

\* The driver was started on a heap, and its pointers may lead anywhere.
WildDriver == attached # << >> /\ heap # NULL /\ Wild

\* The boot stops short only for a cause.  It resets only for want of a
\* response that is followed before the IDT is loaded, the module's (whose
\* absence init.c:44 means to report) among them, or by a wild driver.  It
\* panics only for want of a later response, of an RSDT or an MCFG table or of
\* memory for the driver, at a class behind the table, by the mouse, or by a
\* wild driver; and the panic has a console to be read on (init.c:18-53,
\* fbcon.c:93-125, idt.c:36-49, acpi.c:42-78, pci.c:18, 78-80, sata.c:48-62,
\* 173-191).
StopsForCause ==
    /\ pc = "reset" =>
        \/ loader.memmap = NULL \/ ~ loader.module
        \/ loader.info # NULL /\ ~ loader.framebuffer
        \/ WildDriver
    /\ pc = "panic" =>
        /\ \/ ~ loader.addresses \/ ~ loader.hhdm \/ ~ loader.rsdp
           \/ ~ firmware.rsdt \/ mcfg = NULL
           \/ \A j \in DOMAIN loader.memmap : ~ loader.memmap[j].usable
           \/ AtUnnamedClass \/ mouse \/ WildDriver
        /\ writer = IF loader.info # NULL THEN "FBCON_Write" ELSE "COM_LogWrapper"

\* A driver that starts and does not fault has a heap in usable memory
\* (init.c:22-27, mem.c, sata.c:174).
DriverHasMemory ==
    attached # << >> /\ pc # "panic" =>
        \E j \in DOMAIN loader.memmap : loader.memmap[j].usable /\ heap = loader.memmap[j].base

\* When the walk ends it has printed every function it is to find, and started
\* the driver once for each AHCI controller among them (pci.c:6-90).
ScanIsComplete == Scan!ScanIsComplete

\* Every entry of headers is the header of its member, and once parse has
\* returned the last is the end (ramfs.c:8-39).
HeadersAreMembers == Fs!HeadersAreMembers

\* The boot ends: idle with everything found that it looked for, in a panic, in
\* a reset, or in the loops of a driver whose adapter does not follow
\* (init.c:18-53, kernel.c:23-36, sata.c:93-112, 162-168).
BootEnds ==
    <>(\/ pc = "idle" /\ scanAt = "done" /\ fsAt = "ready" /\ idt /\ mcfg # NULL
       \/ pc \in {"panic", "reset"} \/ (pc = "AHCI" /\ attached # << >>))

\* parse, readFile and ls return, none of them having left headers: parse by the
\* archive's size, readFile because the last header's name is empty and differs
\* from any other, ls because it stops there (ramfs.c:12, 45-50, 63-86); unless
\* the mouse panics the machine first.
RamfsReturns ==
    (fsAt \in {"readFile", "ls", "wild"}) ~> (fsAt = "ready" \/ (mouse /\ pc = "panic"))
=============================================================================
