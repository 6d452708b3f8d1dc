------------------------------ MODULE LineInput ------------------------------
(***************************************************************************)
(* Typing at the console once _start has printed its greeting and halts:   *)
(* only the keyboard interrupt runs (kernel.c:28-35).  The row the cursor  *)
(* is on is followed cell by cell from what the handler draws.             *)
(***************************************************************************)
EXTENDS Keyboard

VARIABLES
    kb,         \* keyboard.c's state
    con,        \* the console
    row,        \* the glyphs on the cursor's row
    wrapped,    \* history: the line being typed reached the right edge
    lost        \* history: something was erased from it when it had a %

vars == <<kb, con, row, wrapped, lost>>

Typed == [j \in 1 .. kb.i |-> kb.input[j - 1]]

\* The positions before j of the characters of b's line that were echoed, and
\* with it the column of the one at j.
Echoed(b, j)   == {m \in 0 .. (j - 1) : b.input[m] # "%"}
ColumnOf(b, j) == Cardinality(Echoed(b, j))

Blank == [x \in 0 .. (Width - 1) |-> " "]

\* The row after the glyphs of a call are drawn on it.
Paint(r, drawn) ==
    [x \in DOMAIN r |->
        LET Hits == {j \in DOMAIN drawn : drawn[j][1] = x}
        IN  IF Hits = {} THEN r[x] ELSE drawn[Max(Hits)][2]]

Key(k) ==
    LET done == HandleKeyboard(kb, con, k)
        wraps == k \in DOMAIN Keycap /\ Echo(kb, k) # << >> /\ done.con.x = 0
    IN  /\ Room(kb, k)
        /\ kb' = done.kb
        /\ con' = done.con
        /\ row' = IF k = "Enter" \/ wraps THEN Blank ELSE Paint(row, done.con.drawn)
        /\ wrapped' = (k # "Enter" /\ (wrapped \/ wraps))
        /\ lost' = (k # "Enter" /\ (lost \/ (k = "Backspace" /\ Echoed(kb, kb.i) # 0 .. (kb.i - 1))))

Init ==
    /\ kb = KeyboardAtBoot
    /\ con = FBCON_Reset(ConsoleAtBoot)
    /\ row = Blank
    /\ wrapped = FALSE /\ lost = FALSE

Next == \E k \in Scancode : Key(k)

Spec == Init /\ [][Next]_vars

-----------------------------------------------------------------------------
(* Properties.                                                             *)

\* Every variable has its type.
TypeOK ==
    /\ kb \in Keyboard
    /\ con \in Console
    /\ row \in [0 .. (Width - 1) -> Char]
    /\ wrapped \in BOOLEAN /\ lost \in BOOLEAN

\* input is the typed line and NUL from there on, whatever was typed, erased
\* and submitted before: no stale character follows it (keyboard.c:33-57).
InputTerminated ==
    \A j \in -1 .. (InputSize - 1) : kb.input[j] = "NUL" <=> j \notin 0 .. (kb.i - 1)

\* Until a line reaches the right edge, the screen shows what it echoed: the
\* cursor stands behind it and nothing else is on its row, backspaces at
\* column 0 included.  A % is stored but not echoed, so that from the first
\* backspace on the cursor is no longer where the line ends (keyboard.c:42-57,
\* fbcon.c:37-46).
EchoMatches ==
    ~ wrapped /\ ~ lost =>
        /\ con.x = ColumnOf(kb, kb.i)
        /\ \A j \in Echoed(kb, kb.i) : row[ColumnOf(kb, j)] = kb.input[j]
        /\ \A x \in con.x .. (Width - 1) : row[x] = " "

Editor == INSTANCE LineEditor WITH line <- Typed

\* The buffer behaves as a line editor; Backspace on an empty line does
\* nothing to it (keyboard.c:33-57).
LineEditorContract == Editor!Spec
=============================================================================
