------------------------------- MODULE MCHeap -------------------------------
(* Small instance of Heap: two usable regions of which the second wins.     *)
EXTENDS Heap, TLC

MCMemMap == << [base |-> 1, usable |-> TRUE],
               [base |-> 0, usable |-> FALSE],
               [base |-> 2, usable |-> TRUE] >>

MCSymmetry == Permutations(Data)
=============================================================================
