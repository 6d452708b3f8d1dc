----------------------------- MODULE LineEditor -----------------------------
(* What the keyboard handler maintains: a line being typed.                 *)
EXTENDS Integers, Sequences

VARIABLE line

CONSTANT Char

Type(c) == line' = Append(line, c)

Erase ==
    /\ line # << >>
    /\ line' = SubSeq(line, 1, Len(line) - 1)

Submit == line' = << >>

Init == line = << >>

Next == Erase \/ Submit \/ \E c \in Char : Type(c)

Spec == Init /\ [][Next]_line
=============================================================================
