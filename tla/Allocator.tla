------------------------------ MODULE Allocator ------------------------------
(***************************************************************************)
(* What kernel/memory/malloc.c promises its callers, whatever it does with *)
(* headers and addresses: a live block is a function from offsets to cells *)
(* that only its owner's stores and realloc's copy ever change.  Distinct  *)
(* live blocks are independent, which is what "disjoint" means to a caller.*)
(* A pointer may be reused once its block is no longer live.               *)
(***************************************************************************)
EXTENDS Integers

CONSTANT Ptr                  \* what malloc may return

VARIABLE live                 \* live[p][i]: the cell at offset i of block p

\* Every other block of live keeps its extent and its contents.
OthersKept(S) ==
    \A q \in DOMAIN live \ S : live'[q] = live[q]

Alloc ==
    \E p \in Ptr \ DOMAIN live :
        /\ DOMAIN live' = DOMAIN live \cup {p}
        /\ OthersKept({})

Release ==
    \E p \in DOMAIN live :
        /\ DOMAIN live' = DOMAIN live \ {p}
        /\ OthersKept({p})

\* The block moves; the offsets that both blocks have keep their cells.
Resize ==
    \E p \in DOMAIN live, q \in Ptr \ DOMAIN live :
        /\ DOMAIN live' = (DOMAIN live \ {p}) \cup {q}
        /\ OthersKept({p})
        /\ \A i \in DOMAIN live[p] \cap DOMAIN live'[q] :
               live'[q][i] = live[p][i]

Write ==
    \E p \in DOMAIN live : \E i \in DOMAIN live[p] :
        /\ DOMAIN live' = DOMAIN live
        /\ OthersKept({p})
        /\ DOMAIN live'[p] = DOMAIN live[p]
        /\ \A j \in DOMAIN live[p] \ {i} : live'[p][j] = live[p][j]

Init == DOMAIN live = {}

Next == Alloc \/ Release \/ Resize \/ Write

Spec == Init /\ [][Next]_live
=============================================================================
