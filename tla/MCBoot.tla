------------------------------ MODULE MCBoot ------------------------------
(***************************************************************************)
(* Small instance of Boot: every combination of missing responses, and the *)
(* archives and machines of Samples.                                       *)
(***************************************************************************)
EXTENDS Boot, Samples

Region(base, usable) == [base |-> base, usable |-> usable]

MCMemmaps ==
    {NULL, <<Region(1, FALSE)>>,
     <<Region(1, TRUE), Region(2, FALSE), Region(3, TRUE), Region(4, FALSE)>>,
     <<Region(1, TRUE), Region(5, TRUE)>>}

\* The driver's memory does not fit in the region at 5.
MCRoomy == {1, 2, 3, 4}

MCLoaders ==
    [info : {NULL, [name |-> 6, version |-> 60]}, memmap : MCMemmaps,
     framebuffer : BOOLEAN, module : BOOLEAN, addresses : BOOLEAN, hhdm : BOOLEAN, rsdp : BOOLEAN]

MCUsual ==
    [loader   |-> [info |-> [name |-> 6, version |-> 6],
                   memmap |-> <<Region(1, TRUE), Region(2, FALSE)>>, framebuffer |-> TRUE,
                   module |-> TRUE, addresses |-> TRUE, hhdm |-> TRUE, rsdp |-> TRUE],
     archive  |-> <<[name |-> <<46, 47, 97>>, size |-> <<1, 1>>]>>,
     firmware |-> [rsdp |-> TRUE, rsdt |-> TRUE,
                   tables |-> <<Facp, Mcfg(<<BusRange(0, 1)>>)>>],
     space    |-> [s \in {<<0, 0, 0>>, <<0, 1, 0>>} |->
                      IF s[2] = 0 THEN Bridge ELSE Controller]]
=============================================================================
