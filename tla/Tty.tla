--------------------------------- MODULE Tty ---------------------------------
(***************************************************************************)
(* The console as the code sees it: tty.c's globals, the escape parser of  *)
(* video/ansi.c, the framebuffer writer of video/fbcon.c and the serial    *)
(* writer of serial/comout.c, each a function of a console state.          *)
(*                                                                         *)
(* A console is a record:                                                  *)
(*   esc             fbcon.c's flag: an escape sequence is being read      *)
(*   buf, len, done  ansi.c's escapeSequence, its length, escapeCompleted  *)
(*   x               TTY_CursorX                                           *)
(*   fg, bg, bold    TTY_Color, TTY_BgColor, TTY_Bold                      *)
(*   drawn           the glyphs the last call drew, <<column, character>>  *)
(* TTY_CursorY is left out: no decision of the code depends on it.         *)
(***************************************************************************)
EXTENDS Integers, Sequences, SequencesExt

CONSTANTS
    Width,        \* TTY_Width, in characters
    BufSize       \* sizeof escapeSequence

ASSUME WidthAssumption   == Width \in Nat \ {0}
ASSUME BufSizeAssumption == BufSize \in Nat \ {0}

\* The characters that occur, with their codes.
Ascii ==
    [c \in {"NUL", "BS", "LF", "CR", "ESC", " ", "!", "%", "0", "1", "3", "5", "6",
            "7", ";", "A", "F", "M", "[", "]", "a", "m", "{"} |->
        CASE c = "NUL" -> 0  [] c = "BS" -> 8   [] c = "LF" -> 10 [] c = "CR" -> 13
          [] c = "ESC" -> 27 [] c = " " -> 32   [] c = "!" -> 33  [] c = "%" -> 37
          [] c = "0" -> 48   [] c = "1" -> 49   [] c = "3" -> 51  [] c = "5" -> 53
          [] c = "6" -> 54   [] c = "7" -> 55   [] c = ";" -> 59
          [] c = "A" -> 65   [] c = "F" -> 70   [] c = "M" -> 77  [] c = "[" -> 91
          [] c = "]" -> 93   [] c = "a" -> 97   [] c = "m" -> 109 [] c = "{" -> 123]

Char == DOMAIN Ascii

Word16 == 65536   \* the cursor is a uint16_t

Color == {"BLACK", "RED", "GREEN", "YELLOW", "BLUE", "PURPLE", "CYAN", "LGRAY"}

Console ==
    [esc : BOOLEAN, buf : [0 .. (BufSize - 1) -> Char], len : 0 .. (BufSize - 1),
     done : BOOLEAN, x : 0 .. (Word16 - 1), fg : Color, bg : Color,
     bold : BOOLEAN, drawn : Seq((0 .. (Word16 - 1)) \X Char)]

\* Before anything runs: .bss is zero, and COLOR_BLACK is 0.
ConsoleAtBoot ==
    [esc |-> FALSE, buf |-> [j \in 0 .. (BufSize - 1) |-> "NUL"], len |-> 0,
     done |-> FALSE, x |-> 0, fg |-> "BLACK", bg |-> "BLACK", bold |-> FALSE,
     drawn |-> << >>]

-----------------------------------------------------------------------------
(* ansi.c, step by step.                                                   *)

\* A byte that makes TTY_HandleEsc look for a complete sequence.
IsFinal(ch) == Ascii[ch] \in 64 .. 126

\* The first position at or after j that holds c before the terminating NUL
\* (strstr with a one-character needle), or BufSize if there is none.
Find(buf, j, c) ==
    LET Hits == {k \in j .. (BufSize - 1) :
                    buf[k] = c /\ \A i \in j .. k : buf[i] # "NUL"}
    IN  IF Hits = {} THEN BufSize ELSE Min(Hits)

\* Where the code of a sequence starts (after '[') and where its 'm' is.
CodeStart(buf) == Find(buf, 0, "[") + 1
CodeEnd(buf)   == IF CodeStart(buf) > BufSize THEN BufSize
                  ELSE Find(buf, CodeStart(buf), "m")

IsComplete(buf) == CodeEnd(buf) < BufSize

\* string.c's atoi: every character counts, digit or not.
atoi(s) == FoldLeft(LAMBDA res, c : res * 10 + (Ascii[c] - 48), 0, s)

\* The code read from positions first .. last - 1 of the buffer.
CodeAt(buf, first, last) ==
    atoi([k \in 1 .. (last - first) |-> buf[first + k - 1]])

Palette == <<"BLACK", "RED", "GREEN", "YELLOW", "BLUE", "PURPLE", "CYAN", "LGRAY">>

\* The switch over the code; an unknown code changes nothing.
ApplyCode(con, code) ==
    CASE code = 0         -> [con EXCEPT !.fg = "LGRAY", !.bg = "BLACK", !.bold = FALSE]
      [] code = 1         -> [con EXCEPT !.bold = TRUE]
      [] code = 22        -> [con EXCEPT !.bold = FALSE]
      [] code \in 30 .. 37 -> [con EXCEPT !.fg = Palette[code - 29]]
      [] code \in 40 .. 47 -> [con EXCEPT !.bg = Palette[code - 39]]
      [] OTHER            -> con

\* TTY_HandleEsc(ch) run without interruption; its result is the negation of
\* the new esc (fbcon.c:30).
TTY_HandleEsc(con, ch) ==
    LET got   == [con EXCEPT !.buf[con.len] = ch,
                             !.buf[con.len + 1] = "NUL",
                             !.len = @ + 1]
        found == IsFinal(ch) /\ IsComplete(got.buf)
        acted == IF found
                   THEN ApplyCode(got, CodeAt(got.buf, CodeStart(got.buf), CodeEnd(got.buf)))
                   ELSE got
    IN  IF found \/ con.done
          THEN [acted EXCEPT !.done = FALSE, !.len = 0, !.esc = FALSE]
          ELSE [acted EXCEPT !.esc = TRUE]

-----------------------------------------------------------------------------
(* fbcon.c.                                                                *)

\* Mutant of Draw: wraps one column late.
Draw_LateWrap(con, x, ch) ==
    LET next == (con.x + 1) % Word16
    IN  [con EXCEPT !.x = IF next > Width THEN 0 ELSE next,
                    !.drawn = Append(@, <<x, ch>>)]

\* A glyph at column x, then the cursor one on, wrapping at the right edge.
Draw(con, x, ch) ==
    LET next == (con.x + 1) % Word16
    IN  [con EXCEPT !.x = IF next >= Width THEN 0 ELSE next,
                    !.drawn = Append(@, <<x, ch>>)]

\* Mutant of Back: a cursor that is not 16 bits wide.
Back_Signed(con) == [con EXCEPT !.x = @ - 1]

Back(con) == [con EXCEPT !.x = (@ - 1) % Word16]

\* Mutant of Backspace: does not step back over the space.
Backspace_Once(con) ==
    IF con.x = 0 THEN con ELSE Draw(Back(con), Back(con).x, " ")

\* Step back, overwrite with a space (putchar), step back over the space.
Backspace(con) ==
    IF con.x = 0 THEN con
    ELSE Back(Draw(Back(con), Back(con).x, " "))

\* FBCON_Write(ch, x, ...) run without interruption.
FBCON_Write(con, ch, x) ==
    CASE ch = "ESC" -> [con EXCEPT !.esc = TRUE]
      [] ch # "ESC" /\ con.esc -> TTY_HandleEsc(con, ch)
      [] ch = "CR" /\ ~ con.esc -> [con EXCEPT !.x = 0]
      [] ch = "BS" /\ ~ con.esc -> Backspace(con)
      [] ch = "LF" /\ ~ con.esc -> [con EXCEPT !.x = 0]
      [] OTHER -> Draw(con, x, ch)

\* What FBCON_Init resets; the background is not among it.
FBCON_Reset(con) == [con EXCEPT !.x = 0, !.fg = "LGRAY", !.bold = FALSE]

\* serial/comout.c's writer: it only counts columns.
COM_LogWrapper(con, ch) ==
    CASE ch = "CR" -> [con EXCEPT !.x = 0]
      [] ch = "LF" -> con
      [] OTHER -> [con EXCEPT !.x = (@ + 1) % Word16]

\* putchar while fbcon.c is the write function.
putchar(con, ch) == FBCON_Write(con, ch, con.x)

puts(con, s) == FoldLeft(putchar, con, s)

-----------------------------------------------------------------------------
(* log.c: one line of the log.                                             *)

Sgr(code) == <<"ESC", "[">> \o code \o <<"m">>

\* log.c's ansiColors, by level.  An error's is one code to atoi, which takes a
\* semicolon for a digit, and not a colour.
LevelColor ==
    [verbose |-> Sgr(<<"0">>),
     debug   |-> Sgr(<<"0">>),
     info    |-> Sgr(<<"3", "7">>),
     warn    |-> Sgr(<<"3", "3">>),
     error   |-> Sgr(<<"0", ";", "3", "1">>),
     fatal   |-> Sgr(<<"3", "1">>) \o <<" ", "!", " ">>]

LogLine(module, level, msg) ==
    Sgr(<<"1">>) \o Sgr(<<"3", "3">>) \o <<"[">> \o Sgr(<<"3", "6">>) \o module
    \o Sgr(<<"1">>) \o Sgr(<<"3", "3">>) \o <<"]">>
    \o LevelColor[level] \o <<" ">> \o msg
    \o (IF level = "fatal" THEN <<" ", "!">> ELSE << >>)
    \o Sgr(<<"0">>) \o <<"CR", "LF">>

\* What log prints: a new line first when the cursor is not at its start.
LogText(con, module, level, msg) ==
    (IF con.x # 0 THEN <<"CR", "LF">> ELSE << >>) \o LogLine(module, level, msg)
=============================================================================
