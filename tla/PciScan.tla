------------------------------- MODULE PciScan -------------------------------
(***************************************************************************)
(* Finding the devices: ACPI_Init looks for the MCFG table, EnumeratePCI   *)
(* walks buses, devices and functions, prints a line for each function and *)
(* starts the AHCI driver (Ahci) on the controllers.  The firmware's       *)
(* tables and the configuration space are external and do not change.      *)
(***************************************************************************)
EXTENDS Integers, Sequences, FiniteSets

CONSTANTS
    Buses, Devices, Functions,   \* how many there are of each: 32 devices
                                 \* and 8 functions in the code
    Spaces,       \* the configuration spaces: the configuration header at
                  \* each slot where a function is
    Firmwares,    \* what ACPI can hold: [rsdp, rsdt : BOOLEAN, tables]
    NULL

SizesAssumption == {Buses, Devices, Functions} \subseteq Nat \ {0}

AddressRange == [start : 0 .. Buses, end : 0 .. Buses]

Table ==
    [sig : {"FACP", "other"}] \cup [sig : {"MCFG"}, ranges : Seq(AddressRange)]

\* The ranges are of one segment group, and no bus is in two of them: a slot
\* has no base address.
Disjoint(ranges) ==
    \A j, k \in DOMAIN ranges :
        j # k => ranges[j].end <= ranges[k].start \/ ranges[k].end <= ranges[j].start

FirmwaresAssumption ==
    \A f \in Firmwares :
        /\ f.tables \in Seq(Table)
        /\ \A j \in DOMAIN f.tables :
            f.tables[j].sig = "MCFG" => Disjoint(f.tables[j].ranges)

VARIABLES
    firmware,     \* the ACPI tables
    space,        \* the functions present: its space (external)
    pc,           \* where the boot thread is
    i,            \* ACPI_Init's index, then EnumeratePCI's
    mcfg,         \* the global mcfg: the address ranges of the table, or NULL
    bus, device, function,
    printed,      \* history: the lines printed, [slot, shown]
    attached      \* history: the slots AHCIDriver_Init was called for

vars == <<firmware, space, pc, i, mcfg, bus, device, function, printed, attached>>

Slot == (0 .. Buses - 1) \X (0 .. Devices - 1) \X (0 .. Functions - 1)

ConfigHeader ==
    [vendor : 0 .. 65535, device : 1 .. 65534, class : 0 .. 255,
     subclass : 0 .. 255, progIF : 0 .. 255]

SpacesAssumption ==
    \A s \in Spaces :
        DOMAIN s \subseteq Slot /\ \A slot \in DOMAIN s : s[slot] \in ConfigHeader

Present(b, d, f) == <<b, d, f>> \in DOMAIN space

-----------------------------------------------------------------------------
(* ACPI_Init.                                                               *)

Acpi == UNCHANGED <<firmware, space, bus, device, function, printed, attached>>

\* Without the RSDP it returns, and leaves mcfg as it was.
CheckRSDP ==
    /\ pc = "RSDP"
    /\ pc' = IF firmware.rsdp THEN "RSDT" ELSE "PCI"
    /\ Acpi /\ UNCHANGED <<i, mcfg>>

CheckRSDT ==
    /\ pc = "RSDT"
    /\ pc' = IF firmware.rsdt THEN "table" ELSE "panic"
    /\ Acpi /\ UNCHANGED <<i, mcfg>>

\* A table with the right signature is taken without its checksum.
NextTable ==
    /\ pc = "table" /\ i <= Len(firmware.tables)
    /\ i' = i + 1
    /\ mcfg' = IF firmware.tables[i].sig = "MCFG" THEN firmware.tables[i].ranges
               ELSE mcfg
    /\ Acpi /\ UNCHANGED pc

LastTable ==
    /\ pc = "table" /\ i > Len(firmware.tables)
    /\ pc' = "PCI"
    /\ Acpi /\ UNCHANGED <<i, mcfg>>

ACPI_Init == CheckRSDP \/ CheckRSDT \/ NextTable \/ LastTable

-----------------------------------------------------------------------------
(* EnumeratePCI.                                                            *)

Pci == UNCHANGED <<firmware, space, mcfg>>

EnumeratePCI ==
    /\ pc = "PCI"
    /\ IF mcfg = NULL THEN pc' = "panic" /\ UNCHANGED i
                      ELSE pc' = "range" /\ i' = 1
    /\ Pci /\ UNCHANGED <<bus, device, function, printed, attached>>

NextRange ==
    /\ pc = "range"
    /\ IF i > Len(mcfg) THEN pc' = "done" /\ UNCHANGED bus
                        ELSE pc' = "bus" /\ bus' = mcfg[i].start
    /\ Pci /\ UNCHANGED <<i, device, function, printed, attached>>

\* Mutant of EnumerateBus: an absent bus is skipped without being counted.
EnumerateBus_Stuck ==
    /\ pc = "bus"
    /\ \/ /\ bus >= mcfg[i].end
          /\ pc' = "range" /\ i' = i + 1 /\ UNCHANGED <<bus, device>>
       \/ /\ bus < mcfg[i].end /\ Present(bus, 0, 0)
          /\ pc' = "device" /\ device' = 0 /\ UNCHANGED <<i, bus>>
    /\ Pci /\ UNCHANGED <<function, printed, attached>>

\* bus < EndBus: the last bus of a range is not walked.  A bus whose device 0
\* is absent is skipped.
EnumerateBus ==
    /\ pc = "bus"
    /\ \/ /\ bus >= mcfg[i].end
          /\ pc' = "range" /\ i' = i + 1 /\ UNCHANGED <<bus, device>>
       \/ /\ bus < mcfg[i].end /\ Present(bus, 0, 0)
          /\ pc' = "device" /\ device' = 0 /\ UNCHANGED <<i, bus>>
       \/ /\ bus < mcfg[i].end /\ ~ Present(bus, 0, 0)
          /\ bus' = bus + 1 /\ UNCHANGED <<pc, i, device>>
    /\ Pci /\ UNCHANGED <<function, printed, attached>>

\* A device whose function 0 is absent is skipped.
EnumerateDevice ==
    /\ pc = "device"
    /\ \/ /\ device = Devices
          /\ pc' = "bus" /\ bus' = bus + 1 /\ UNCHANGED <<device, function>>
       \/ /\ device < Devices /\ Present(bus, device, 0)
          /\ pc' = "function" /\ function' = 0 /\ UNCHANGED <<bus, device>>
       \/ /\ device < Devices /\ ~ Present(bus, device, 0)
          /\ device' = device + 1 /\ UNCHANGED <<pc, bus, function>>
    /\ Pci /\ UNCHANGED <<i, printed, attached>>

\* DeviceClasses has 20 texts and is indexed without a bound.
ClassNamed(k) == k.class < 20

\* The numbers that pciDesc.c has a text for (a fixed "Unknown" is one).
VendorNamed(k) == k.vendor \in {\h8086, \h1022, \h10DE}
DeviceNamed(k) ==
    k.vendor = \h8086 /\ k.device \in {\h29C0, \h2918, \h2922, \h2930}

MassStorageSubclasses == 0 .. 8 \cup {128}
SerialBusSubclasses   == 0 .. 9 \cup {128}
BridgeSubclasses      == 0 .. 10 \cup {128}

SubclassNamed(k) ==
    CASE k.class = 1  -> k.subclass \in MassStorageSubclasses
      [] k.class = 3  -> TRUE
      [] k.class = 6  -> k.subclass \in BridgeSubclasses
      [] k.class = 12 -> k.subclass \in SerialBusSubclasses
      [] OTHER        -> FALSE

ProgIFNamed(k) == k.class \in {1, 3} \/ (k.class = 12 /\ k.subclass = 3)

\* The other numbers are shown in hexadecimal, by to_hstring.
Numbers(k) ==
    {f \in {"vendor", "device", "subclass", "progIF"} :
        ~ (CASE f = "vendor"   -> VendorNamed(k)
             [] f = "device"   -> DeviceNamed(k)
             [] f = "subclass" -> SubclassNamed(k)
             [] f = "progIF"   -> ProgIFNamed(k))}

\* to_hstring returns the same buffer for all of them, although string.h:33 says
\* that it is the value's own string: whichever argument of printf is evaluated
\* last shows in every place.
Shown(k) ==
    IF Numbers(k) = {} THEN {<< >>}
    ELSE {[f \in Numbers(k) |-> k[g]] : g \in Numbers(k)}

IsAhci(k) == k.class = 1 /\ k.subclass = 6 /\ k.progIF = 1

\* Mutants of EnumerateFunction: one function too many, or one too few.
EnumerateFunction_OneMore ==
    /\ pc = "function"
    /\ IF function > Functions
         THEN pc' = "device" /\ device' = device + 1 /\ UNCHANGED function
         ELSE function' = function + 1 /\ UNCHANGED <<pc, device>>
    /\ Pci /\ UNCHANGED <<i, bus, printed, attached>>

EnumerateFunction_OneLess ==
    LET slot == <<bus, device, function>> IN
    /\ pc = "function"
    /\ IF function = Functions - 1
         THEN /\ pc' = "device" /\ device' = device + 1
              /\ UNCHANGED <<function, printed, attached>>
         ELSE /\ printed' = Append(printed, [slot |-> slot, shown |-> << >>])
              /\ attached' = IF IsAhci(space[slot]) THEN Append(attached, slot)
                             ELSE attached
              /\ function' = function + 1 /\ UNCHANGED <<pc, device>>
    /\ Pci /\ UNCHANGED <<i, bus>>

\* A line for every function that is there, and the driver for AHCI 1.0.  For a
\* class of 20 or more the pointer behind the table is whatever lies there: it
\* leads to some text, or following it is a fault.
EnumerateFunction ==
    LET slot == <<bus, device, function>> IN
    /\ pc = "function"
    /\ \/ /\ function = Functions
          /\ pc' = "device" /\ device' = device + 1
          /\ UNCHANGED <<function, printed, attached>>
       \/ /\ function < Functions /\ slot \notin DOMAIN space
          /\ function' = function + 1
          /\ UNCHANGED <<pc, device, printed, attached>>
       \/ /\ function < Functions /\ slot \in DOMAIN space
          /\ function' = function + 1
          /\ \E s \in Shown(space[slot]) :
                printed' = Append(printed, [slot |-> slot, shown |-> s])
          /\ attached' = IF IsAhci(space[slot]) THEN Append(attached, slot) ELSE attached
          /\ UNCHANGED <<pc, device>>
       \/ /\ function < Functions /\ slot \in DOMAIN space
          /\ ~ ClassNamed(space[slot])
          /\ pc' = "panic"
          /\ UNCHANGED <<device, function, printed, attached>>
    /\ Pci /\ UNCHANGED <<i, bus>>

Machine ==
    /\ firmware \in Firmwares
    /\ space \in Spaces

Start ==
    /\ pc = "RSDP" /\ i = 1 /\ mcfg = NULL
    /\ bus = 0 /\ device = 0 /\ function = 0
    /\ printed = << >> /\ attached = << >>

Init == Machine /\ Start

Next ==
    \/ ACPI_Init \/ EnumeratePCI \/ NextRange
    \/ EnumerateBus \/ EnumerateDevice \/ EnumerateFunction

\* The scan by itself; Boot runs it as part of init.
Spec == Init /\ [][Next]_vars

-----------------------------------------------------------------------------
(* Properties.                                                              *)

\* Every variable has its type.
TypeOK ==
    /\ firmware \in Firmwares
    /\ DOMAIN space \subseteq Slot
    /\ pc \in {"RSDP", "RSDT", "table", "PCI", "range", "bus", "device",
               "function", "done", "panic"}
    /\ i \in Nat
    /\ bus \in 0 .. Buses /\ device \in 0 .. Devices /\ function \in 0 .. Functions
    /\ \A j \in DOMAIN printed : printed[j].slot \in Slot
    /\ \A j \in DOMAIN attached : attached[j] \in Slot

\* What the walk is to find: the functions of the devices that are present on
\* the buses that are present in a range, short of its last.
Reachable ==
    {s \in DOMAIN space :
        /\ \E j \in DOMAIN mcfg : mcfg[j].start <= s[1] /\ s[1] < mcfg[j].end
        /\ Present(s[1], 0, 0) /\ Present(s[1], s[2], 0)}

\* When the walk ends it has printed every function it is to find, and started
\* the driver once for each AHCI controller among them (pci.c:6-90).
ScanIsComplete ==
    pc = "done" =>
        /\ {printed[j].slot : j \in DOMAIN printed} = Reachable
        /\ {attached[j] : j \in DOMAIN attached} = {s \in Reachable : IsAhci(space[s])}
        /\ Len(printed) = Cardinality(Reachable)
        /\ \A j, k \in DOMAIN attached : j # k => attached[j] # attached[k]
=============================================================================
