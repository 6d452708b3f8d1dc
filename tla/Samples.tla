------------------------------ MODULE Samples ------------------------------
(***************************************************************************)
(* The ramdisks and the machines of the small instances.  Archives have up *)
(* to 3 members, named "./a", "./a/b" and "./b", of 0, 4 (one block of 4)  *)
(* and 9 (11 in octal) characters.  Machines have up to two buses,         *)
(* devices and functions; their firmware lacks the RSDP, the RSDT or the   *)
(* MCFG, or has an MCFG of one range, or two of which the last has two.    *)
(***************************************************************************)
EXTENDS Integers, Sequences

MCNames == {<<46, 47, 97>>, <<46, 47, 97, 47, 98>>, <<46, 47, 98>>}
MCSizes == {<<0, 0>>, <<0, 4>>, <<1, 1>>}

MCMembers == [name : MCNames, size : MCSizes]

MCArchives ==
    {a \in UNION {[1 .. n -> MCMembers] : n \in 1 .. 3} :
        \A j, k \in DOMAIN a : j # k => a[j].name # a[k].name}

MCWanted == MCNames \cup {<<99>>}

-----------------------------------------------------------------------------

BusRange(first, last) == [start |-> first, end |-> last]
Mcfg(ranges) == [sig |-> "MCFG", ranges |-> ranges]
Facp == [sig |-> "FACP"]

MCFirmwares ==
    {[rsdp |-> FALSE, rsdt |-> TRUE, tables |-> << >>],
     [rsdp |-> TRUE, rsdt |-> FALSE, tables |-> << >>],
     [rsdp |-> TRUE, rsdt |-> TRUE, tables |-> <<Facp>>],
     [rsdp |-> TRUE, rsdt |-> TRUE, tables |-> <<Facp, Mcfg(<<BusRange(0, 1)>>)>>],
     [rsdp |-> TRUE, rsdt |-> TRUE,
      tables |-> <<Mcfg(<< >>), Mcfg(<<BusRange(0, 1), BusRange(1, 2)>>)>>]}

PciFunction(v, d, c, s, p) ==
    [vendor |-> v, device |-> d, class |-> c, subclass |-> s, progIF |-> p]

\* The machine QEMU emulates: its host bridge and AHCI controller.
Bridge     == PciFunction(\h8086, \h29C0, 6, 0, 0)
Controller == PciFunction(\h8086, \h2922, 1, 6, 1)

Slots == (0 .. 1) \X (0 .. 1) \X (0 .. 1)

\* A class that DeviceClasses has no text for.
Coprocessor == PciFunction(\h8086, \h2918, 64, 0, 0)

\* Every set of functions, bridges and controllers alternating either way, or
\* with coprocessors in the place of the bridges.
MCSpaces ==
    {[s \in S |-> IF (s[1] + s[2] + s[3]) % 2 = odd THEN Controller ELSE other] :
        S \in SUBSET Slots, odd \in {0, 1}, other \in {Bridge, Coprocessor}}
=============================================================================
