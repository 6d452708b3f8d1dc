------------------------------ MODULE Keyboard ------------------------------
(***************************************************************************)
(* userinput/keyboard.c: what the IRQ 1 handler does with one scan code.   *)
(* Its state is a record:                                                  *)
(*   left, right   the two shift flags                                     *)
(*   input, i      the input line and its length; position -1 stands for   *)
(*                 the byte in front of the array                          *)
(* Characters go to the console through putchar: printf(str) is putchar    *)
(* for every character but %, with which it prints nothing (Printf's       *)
(* CutOff).                                                                *)
(***************************************************************************)
EXTENDS Tty

CONSTANT InputSize    \* sizeof input

ASSUME InputSizeAssumption == InputSize \in Nat \ {0}

\* The two characters of the keys that have one, without and with shift.
Keycap ==
    [k \in {"KeyA", "KeyM", "Key5", "KeyBracket"} |->
        CASE k = "KeyA" -> <<"a", "A">>  [] k = "KeyM" -> <<"m", "M">>
          [] k = "Key5" -> <<"5", "%">>  [] k = "KeyBracket" -> <<"[", "{">>]

\* Scan codes: keys with a character, the keys the handler knows by name, and
\* a key whose code has no character (Escape, or the release of any key).
Scancode ==
    DOMAIN Keycap \cup
    {"Enter", "Backspace", "LeftDown", "LeftUp", "RightDown", "RightUp", "Other"}

Keyboard ==
    [left : BOOLEAN, right : BOOLEAN,
     input : [-1 .. (InputSize - 1) -> Char], i : 0 .. InputSize]

KeyboardAtBoot ==
    [left |-> FALSE, right |-> FALSE,
     input |-> [j \in -1 .. (InputSize - 1) |-> "NUL"], i |-> 0]

\* The character of a scan code under the shift flags as they were before it.
get_us_qwerty_char_from_scan_code(kb, k) ==
    IF k \notin DOMAIN Keycap THEN "NUL"
    ELSE Keycap[k][IF kb.left \/ kb.right THEN 2 ELSE 1]

Shift(kb, k) ==
    CASE k = "LeftDown"  -> [kb EXCEPT !.left = TRUE]
      [] k = "LeftUp"    -> [kb EXCEPT !.left = FALSE]
      [] k = "RightDown" -> [kb EXCEPT !.right = TRUE]
      [] k = "RightUp"   -> [kb EXCEPT !.right = FALSE]
      [] OTHER -> kb

\* Mutant of ClearLine: the length is not reset.
ClearLine_KeepsLength(kb) ==
    [kb EXCEPT !.input = [j \in DOMAIN @ |-> IF j < 0 THEN @[j] ELSE "NUL"]]

ClearLine(kb) ==
    [kb EXCEPT !.i = 0,
               !.input = [j \in DOMAIN @ |-> IF j < 0 THEN @[j] ELSE "NUL"]]

\* Mutants of EraseChar: the length is not brought back to 0; the terminator
\* goes to the old end of the line.
EraseChar_NoClamp(kb) == [kb EXCEPT !.input[kb.i - 1] = "NUL", !.i = @ - 1]

EraseChar_OldEnd(kb) ==
    [kb EXCEPT !.input = IF kb.i < InputSize THEN [@ EXCEPT ![kb.i] = "NUL"] ELSE @,
               !.i = IF @ - 1 < 0 THEN 0 ELSE @ - 1]

\* The terminator goes one below the old length, below the array if that was
\* 0, and only then is the length brought back to 0.
EraseChar(kb) ==
    [kb EXCEPT !.input[kb.i - 1] = "NUL",
               !.i = IF @ - 1 < 0 THEN 0 ELSE @ - 1]

AddChar(kb, c) == [kb EXCEPT !.input[kb.i] = c, !.i = @ + 1]

\* The keyboard state after scan code k.
Input(kb, k) ==
    LET c == get_us_qwerty_char_from_scan_code(kb, k)
    IN  CASE k = "Enter"     -> ClearLine(kb)
          [] k = "Backspace" -> EraseChar(kb)
          [] OTHER -> IF c = "NUL" THEN Shift(kb, k) ELSE AddChar(kb, c)

\* What the handler prints for it.
Echo(kb, k) ==
    LET c == get_us_qwerty_char_from_scan_code(kb, k)
    IN  CASE k = "Enter"     -> <<"LF">>
          [] k = "Backspace" -> <<"BS">>
          [] OTHER -> IF c \in {"NUL", "%"} THEN << >> ELSE <<c>>

\* The bound on typing: the code has none (input[i] = c at any i).
Room(kb, k) ==
    kb.i < InputSize \/ get_us_qwerty_char_from_scan_code(kb, k) = "NUL"

\* HandleKeyboard runs with interrupts off, so it is one step.
HandleKeyboard(kb, con, k) ==
    [kb |-> Input(kb, k), con |-> puts([con EXCEPT !.drawn = << >>], Echo(kb, k))]
=============================================================================
