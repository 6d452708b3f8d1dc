--------------------------- MODULE KeyboardProofs ---------------------------
(***************************************************************************)
(* What the functions of Tty and Keyboard return, preserve and bound, for  *)
(* every width of the console and every size of the buffers: the lemmas    *)
(* that the proofs about LineInput and about Console both rest on.         *)
(***************************************************************************)
EXTENDS Keyboard, TLAPS

\* The keyboard's state as every call of the handler finds it.
WellFormed(b) ==
    /\ b \in Keyboard
    /\ \A j \in -1 .. (InputSize - 1) : b.input[j] = "NUL" <=> j \notin 0 .. (b.i - 1)

LineOf(b) == [j \in 1 .. b.i |-> b.input[j - 1]]

-----------------------------------------------------------------------------
(* The keys.                                                                *)

\* Every character of a key is one, and neither the terminator nor one that
\* moves the cursor (keyboard.c:65-72, 74-83).
LEMMA KeycapHasCharacters ==
    \A k \in DOMAIN Keycap : \A s \in {1, 2} :
        Keycap[k][s] \in Char /\ Keycap[k][s] \notin {"NUL", "ESC", "CR", "LF", "BS"}
<1>1. DOMAIN Keycap = {"KeyA", "KeyM", "Key5", "KeyBracket"}
  BY DEF Keycap
<1>2. /\ Keycap["KeyA"][1] = "a" /\ Keycap["KeyA"][2] = "A"
      /\ Keycap["KeyM"][1] = "m" /\ Keycap["KeyM"][2] = "M"
      /\ Keycap["Key5"][1] = "5" /\ Keycap["Key5"][2] = "%"
      /\ Keycap["KeyBracket"][1] = "[" /\ Keycap["KeyBracket"][2] = "{"
  BY DEF Keycap
<1>3. {"a", "A", "m", "M", "5", "%", "[", "{"} \subseteq Char
  BY DEF Char, Ascii
<1> QED
  BY <1>1, <1>2, <1>3

\* The terminator is a character.
LEMMA NulIsChar == "NUL" \in Char
BY DEF Char, Ascii

\* A key that has no character, as Enter and Backspace, gives none.
LEMMA CharacterOfKey ==
    ASSUME NEW b, NEW k,
           get_us_qwerty_char_from_scan_code(b, k) # "NUL"
    PROVE  /\ get_us_qwerty_char_from_scan_code(b, k) \in Char
           /\ k \in DOMAIN Keycap
BY KeycapHasCharacters DEF get_us_qwerty_char_from_scan_code

-----------------------------------------------------------------------------
(* What each branch of the handler does to the line.                        *)

Updated(b, in, n) == [b EXCEPT !.input = in, !.i = n]

\* Replacing the array and the length by others leaves a state.
LEMMA UpdateIsState ==
    ASSUME NEW b \in Keyboard,
           NEW in \in [-1 .. (InputSize - 1) -> Char], NEW n \in 0 .. InputSize
    PROVE  Updated(b, in, n) \in Keyboard
BY DEF Updated, Keyboard

\* The line is a sequence of as many characters as its length says.
LEMMA LineIsSeq ==
    ASSUME NEW b \in Keyboard
    PROVE  LineOf(b) \in Seq(Char) /\ Len(LineOf(b)) = b.i
<1>1. b.i \in 0 .. InputSize /\ b.input \in [-1 .. (InputSize - 1) -> Char]
  BY DEF Keyboard
<1>2. \A j \in 1 .. b.i : b.input[j - 1] \in Char
  BY <1>1, InputSizeAssumption
<1> QED
  BY <1>1, <1>2, InputSizeAssumption DEF LineOf

\* Enter empties the line (keyboard.c:33-41).
LEMMA ClearKeeps ==
    ASSUME NEW b, WellFormed(b)
    PROVE  /\ WellFormed(ClearLine(b))
           /\ LineOf(ClearLine(b)) = << >>
<1>1. b \in Keyboard
  BY DEF WellFormed
<1>2. ClearLine(b) \in Keyboard
  <2> DEFINE in == [j \in DOMAIN b.input |-> IF j < 0 THEN b.input[j] ELSE "NUL"]
  <2>1. in \in [-1 .. (InputSize - 1) -> Char]
    BY <1>1, NulIsChar, InputSizeAssumption DEF Keyboard
  <2>2. ClearLine(b) = Updated(b, in, 0)
    BY <1>1 DEF Updated, ClearLine, Keyboard
  <2>3. 0 \in 0 .. InputSize
    BY InputSizeAssumption
  <2> HIDE DEF in
  <2> QED
    BY <1>1, <2>1, <2>2, <2>3, UpdateIsState
<1>3. \A j \in -1 .. (InputSize - 1) :
        ClearLine(b).input[j] = "NUL" <=> j \notin 0 .. (ClearLine(b).i - 1)
  BY <1>1, InputSizeAssumption DEF WellFormed, ClearLine, Keyboard
<1>4. LineOf(ClearLine(b)) = << >>
  BY <1>1 DEF LineOf, ClearLine, Keyboard
<1> QED
  BY <1>2, <1>3, <1>4 DEF WellFormed

\* Backspace takes the last character off; on an empty line it stores a NUL
\* in front of the array, where there is one already (keyboard.c:42-50).
LEMMA EraseKeeps ==
    ASSUME NEW b, WellFormed(b)
    PROVE  /\ WellFormed(EraseChar(b))
           /\ LineOf(EraseChar(b)) =
                IF b.i = 0 THEN LineOf(b) ELSE SubSeq(LineOf(b), 1, Len(LineOf(b)) - 1)
<1>1. /\ b \in Keyboard
      /\ b.i \in 0 .. InputSize
      /\ b.input \in [-1 .. (InputSize - 1) -> Char]
  BY DEF WellFormed, Keyboard
<1>2. EraseChar(b).i = (IF b.i = 0 THEN 0 ELSE b.i - 1)
  BY <1>1, InputSizeAssumption DEF EraseChar, Keyboard
<1>3. EraseChar(b).input = [b.input EXCEPT ![b.i - 1] = "NUL"]
  BY <1>1 DEF EraseChar, Keyboard
<1>4. EraseChar(b) \in Keyboard
  <2> DEFINE in == [b.input EXCEPT ![b.i - 1] = "NUL"]
             n  == IF b.i - 1 < 0 THEN 0 ELSE b.i - 1
  <2>1. in \in [-1 .. (InputSize - 1) -> Char] /\ n \in 0 .. InputSize
    BY <1>1, NulIsChar, InputSizeAssumption
  <2>2. EraseChar(b) = Updated(b, in, n)
    BY <1>1 DEF Updated, EraseChar, Keyboard
  <2> HIDE DEF in, n
  <2> QED
    BY <1>1, <2>1, <2>2, UpdateIsState
<1>5. \A j \in -1 .. (InputSize - 1) :
        EraseChar(b).input[j] = "NUL" <=> j \notin 0 .. (EraseChar(b).i - 1)
  BY <1>1, <1>2, <1>3, InputSizeAssumption DEF WellFormed
<1>6. CASE b.i = 0
  BY <1>1, <1>2, <1>4, <1>5, <1>6 DEF WellFormed, LineOf
<1>7. CASE b.i # 0
  <2>1. LineOf(b) \in Seq(Char) /\ Len(LineOf(b)) = b.i
    BY <1>1, LineIsSeq
  <2>2. LineOf(EraseChar(b)) = [j \in 1 .. (b.i - 1) |-> b.input[j - 1]]
    BY <1>1, <1>2, <1>3, <1>7, InputSizeAssumption DEF LineOf
  <2>3. SubSeq(LineOf(b), 1, b.i - 1) = [j \in 1 .. (b.i - 1) |-> b.input[j - 1]]
    BY <2>1, <1>1, <1>7, InputSizeAssumption DEF LineOf
  <2> QED
    BY <1>4, <1>5, <1>7, <2>1, <2>2, <2>3 DEF WellFormed
<1> QED
  BY <1>6, <1>7

\* A character goes behind the line (keyboard.c:52-57).
LEMMA AddKeeps ==
    ASSUME NEW b, WellFormed(b), b.i < InputSize, NEW c \in Char, c # "NUL"
    PROVE  /\ WellFormed(AddChar(b, c))
           /\ LineOf(AddChar(b, c)) = Append(LineOf(b), c)
<1>1. /\ b \in Keyboard
      /\ b.i \in 0 .. InputSize
      /\ b.input \in [-1 .. (InputSize - 1) -> Char]
  BY DEF WellFormed, Keyboard
<1>2. /\ AddChar(b, c).i = b.i + 1
      /\ AddChar(b, c).input = [b.input EXCEPT ![b.i] = c]
  BY <1>1 DEF AddChar, Keyboard
<1>3. AddChar(b, c) \in Keyboard
  <2> DEFINE in == [b.input EXCEPT ![b.i] = c]
  <2>1. in \in [-1 .. (InputSize - 1) -> Char] /\ b.i + 1 \in 0 .. InputSize
    BY <1>1, InputSizeAssumption
  <2>2. AddChar(b, c) = Updated(b, in, b.i + 1)
    BY <1>1 DEF Updated, AddChar, Keyboard
  <2> HIDE DEF in
  <2> QED
    BY <1>1, <2>1, <2>2, UpdateIsState
<1>4. \A j \in -1 .. (InputSize - 1) :
        AddChar(b, c).input[j] = "NUL" <=> j \notin 0 .. (AddChar(b, c).i - 1)
  BY <1>1, <1>2, InputSizeAssumption DEF WellFormed
<1>5. LineOf(b) \in Seq(Char) /\ Len(LineOf(b)) = b.i
  BY <1>1, LineIsSeq
<1>6. LineOf(AddChar(b, c)) =
        [j \in 1 .. (b.i + 1) |-> IF j = b.i + 1 THEN c ELSE b.input[j - 1]]
  BY <1>1, <1>2, InputSizeAssumption DEF LineOf
<1>7. Append(LineOf(b), c) =
        [j \in 1 .. (b.i + 1) |-> IF j = b.i + 1 THEN c ELSE b.input[j - 1]]
  BY <1>1, <1>5, InputSizeAssumption DEF LineOf
<1> QED
  BY <1>3, <1>4, <1>6, <1>7 DEF WellFormed

\* The shift keys leave the line alone (keyboard.c:14-30).
LEMMA ShiftKeeps ==
    ASSUME NEW b, NEW k, WellFormed(b)
    PROVE  WellFormed(Shift(b, k)) /\ LineOf(Shift(b, k)) = LineOf(b)
<1>1. b \in Keyboard
  BY DEF WellFormed
<1>2. Shift(b, k) \in Keyboard /\ Shift(b, k).input = b.input /\ Shift(b, k).i = b.i
  BY <1>1 DEF Shift, Keyboard
<1> QED
  BY <1>2 DEF WellFormed, LineOf

-----------------------------------------------------------------------------

\* One interrupt: the state stays well formed, and the line takes a step of
\* the editor's or none (keyboard.c:11-58).
LEMMA InputRefines ==
    ASSUME NEW b, NEW k \in Scancode, WellFormed(b), Room(b, k)
    PROVE  /\ WellFormed(Input(b, k))
           /\ \/ LineOf(Input(b, k)) = LineOf(b)
              \/ LineOf(Input(b, k)) = << >>
              \/ /\ LineOf(b) # << >>
                 /\ LineOf(Input(b, k)) = SubSeq(LineOf(b), 1, Len(LineOf(b)) - 1)
              \/ \E c \in Char : LineOf(Input(b, k)) = Append(LineOf(b), c)
<1> DEFINE c == get_us_qwerty_char_from_scan_code(b, k)
<1>1. CASE k = "Enter"
  BY <1>1, ClearKeeps DEF Input
<1>2. CASE k = "Backspace"
  <2>1. Input(b, k) = EraseChar(b)
    BY <1>2 DEF Input
  <2>2. CASE b.i = 0
    BY <2>1, <2>2, EraseKeeps
  <2>3. CASE b.i # 0
    <3>1. b.i \in 0 .. InputSize
      BY DEF WellFormed, Keyboard
    <3>2. LineOf(b) # << >>
      BY <2>3, <3>1, InputSizeAssumption DEF LineOf
    <3> QED
      BY <2>1, <2>3, <3>2, EraseKeeps
  <2> QED
    BY <2>2, <2>3
<1>3. CASE k \notin {"Enter", "Backspace"} /\ c = "NUL"
  BY <1>3, ShiftKeeps DEF Input
<1>4. CASE k \notin {"Enter", "Backspace"} /\ c # "NUL"
  <2>1. c \in Char /\ b.i < InputSize
    BY <1>4, CharacterOfKey DEF Room
  <2>2. Input(b, k) = AddChar(b, c)
    BY <1>4 DEF Input
  <2> QED
    BY <1>4, <2>1, <2>2, AddKeeps
<1> QED
  BY <1>1, <1>2, <1>3, <1>4

-----------------------------------------------------------------------------
(* Texts of at most one character.                                          *)

\* puts prints a text of one character with one putchar (renderer.c:15-22).
LEMMA PutsOne ==
    ASSUME NEW c, NEW ch
    PROVE  puts(c, << ch >>) = putchar(c, ch)
<1> DEFINE D == DOMAIN << ch >>
           Body(g, s) == IF s = {} THEN c ELSE putchar(g[s \ {Max(s)}], << ch >>[Max(s)])
           G == [s \in SUBSET D |-> IF s = {} THEN c ELSE putchar(c, ch)]
           iter == CHOOSE g : g = [s \in SUBSET D |-> Body(g, s)]
<1>1. puts(c, << ch >>) = iter[D]
  BY Zenon DEF puts, FoldLeft, MapThenFoldSet
<1>2. D = {1} /\ << ch >>[1] = ch
  OBVIOUS
<1>3. Max({1}) = 1
  BY DEF Max
<1>4. {1} \ {1} = {} /\ {1} # {}
  OBVIOUS
<1>5. SUBSET D = {{}, {1}}
  BY <1>2
<1> HIDE DEF D
<1>6. \A g : Body(g, {}) = c /\ Body(g, {1}) = putchar(g[{}], ch)
  BY <1>2, <1>3, <1>4
<1>7. G[{}] = c /\ G[{1}] = putchar(c, ch)
  BY <1>4, <1>5
<1>8. Body(G, {}) = c /\ Body(G, {1}) = putchar(c, ch)
  BY <1>6, <1>7
<1> HIDE DEF Body
<1>9. G = [s \in SUBSET D |-> Body(G, s)]
  BY <1>4, <1>5, <1>8
<1>10. iter = [s \in SUBSET D |-> Body(iter, s)]
  BY <1>9
<1> HIDE DEF iter, G
<1>11. iter[{}] = c
  BY <1>10, <1>5, <1>6
<1>12. iter[{1}] = Body(iter, {1})
  BY <1>10, <1>5
<1> QED
  BY <1>1, <1>2, <1>6, <1>11, <1>12

\* An empty text prints nothing (renderer.c:15-22).
LEMMA PutsNone ==
    ASSUME NEW c
    PROVE  puts(c, << >>) = c
<1> DEFINE D == DOMAIN << >>
           Body(g, s) == IF s = {} THEN c ELSE putchar(g[s \ {Max(s)}], << >>[Max(s)])
           G == [s \in SUBSET D |-> c]
           iter == CHOOSE g : g = [s \in SUBSET D |-> Body(g, s)]
<1>1. puts(c, << >>) = iter[D]
  BY Zenon DEF puts, FoldLeft, MapThenFoldSet
<1>2. D = {}
  OBVIOUS
<1>3. SUBSET D = {{}}
  BY <1>2
<1> HIDE DEF D
<1>4. \A g : Body(g, {}) = c
  OBVIOUS
<1> HIDE DEF Body
<1>5. G = [s \in SUBSET D |-> Body(G, s)]
  BY <1>3, <1>4
<1>6. iter = [s \in SUBSET D |-> Body(iter, s)]
  BY <1>5
<1> HIDE DEF iter
<1> QED
  BY <1>1, <1>2, <1>3, <1>4, <1>6

-----------------------------------------------------------------------------
(* The console.                                                             *)

Column == 0 .. (Word16 - 1)

Glyphs == Seq(Column \X Char)

\* Everything drawn, and the cursor, is inside the row.
OnRow(c) == c.x < Width /\ \A j \in DOMAIN c.drawn : c.drawn[j][1] < Width

Placed(c, x, d) == [c EXCEPT !.x = x, !.drawn = d]

\* A cursor of 16 bits wraps to one.
LEMMA Wraps ==
    /\ \A n \in Int : n % Word16 \in Column
    /\ \A n \in Column : n % Word16 = n
    /\ 0 \in Column /\ Word16 \in Nat
<1>1. Word16 \in Nat /\ Word16 > 0
  BY DEF Word16
<1>2. ASSUME NEW n \in Int PROVE n % Word16 \in Column
  BY <1>1 DEF Column
<1>3. ASSUME NEW n \in Column PROVE n % Word16 = n
  <2>1. n \in Int /\ 0 <= n /\ n < Word16
    BY <1>1, <1>3 DEF Column
  <2> QED
    BY <2>1 DEF Word16
<1>4. 0 \in Column
  BY <1>1 DEF Column
<1> QED
  BY <1>1, <1>2, <1>3, <1>4

\* Moving the cursor and drawing leave the rest of the console alone.
LEMMA PlacedIsConsole ==
    ASSUME NEW c \in Console, NEW x \in Column, NEW d \in Glyphs
    PROVE  /\ Placed(c, x, d) \in Console
           /\ Placed(c, x, d).x = x /\ Placed(c, x, d).drawn = d
           /\ Placed(c, x, d).len = c.len /\ (~ c.esc => ~ Placed(c, x, d).esc)
           /\ (~ c.done => ~ Placed(c, x, d).done)
BY DEF Placed, Console, Column, Glyphs

\* The parts of a console.
LEMMA ConsoleParts ==
    ASSUME NEW c \in Console
    PROVE  /\ c.x \in Column /\ c.x \in Nat /\ c.drawn \in Glyphs
           /\ c.len \in 0 .. (BufSize - 1)
           /\ c.buf \in [0 .. (BufSize - 1) -> Char]
           /\ c.esc \in BOOLEAN /\ c.done \in BOOLEAN
BY DEF Console, Column, Glyphs

\* A glyph drawn inside the row leaves the cursor inside it (fbcon.c:83-87).
LEMMA DrawFacts ==
    ASSUME NEW c \in Console, NEW x \in Column, NEW ch \in Char
    PROVE  /\ Draw(c, x, ch) \in Console
           /\ Draw(c, x, ch).len = c.len /\ (~ c.esc => ~ Draw(c, x, ch).esc)
           /\ (~ c.done => ~ Draw(c, x, ch).done)
           /\ Draw(c, x, ch).x = IF (c.x + 1) % Word16 >= Width THEN 0 ELSE (c.x + 1) % Word16
           /\ Draw(c, x, ch).drawn = Append(c.drawn, <<x, ch>>)
           /\ OnRow(c) /\ x < Width => OnRow(Draw(c, x, ch))
<1> DEFINE y == IF (c.x + 1) % Word16 >= Width THEN 0 ELSE (c.x + 1) % Word16
           d == Append(c.drawn, <<x, ch>>)
<1>1. y \in Column
  BY ConsoleParts, Wraps
<1>2. d \in Glyphs
  BY ConsoleParts DEF Glyphs
<1>3. Draw(c, x, ch) = Placed(c, y, d)
  BY DEF Draw, Placed, Console
<1>4. y < Width
  BY <1>1, ConsoleParts, Wraps, WidthAssumption DEF Column
<1>5. ASSUME OnRow(c), x < Width PROVE OnRow(Placed(c, y, d))
  <2>1. \A j \in DOMAIN d : d[j][1] < Width
    BY <1>5, ConsoleParts DEF OnRow, Glyphs
  <2> HIDE DEF y, d
  <2> QED
    BY <1>1, <1>2, <1>4, <2>1, PlacedIsConsole DEF OnRow
<1> HIDE DEF d
<1>6. Placed(c, y, d).x = y /\ Placed(c, y, d).drawn = d
  BY <1>1, <1>2, PlacedIsConsole
<1>7. /\ Placed(c, y, d) \in Console /\ Placed(c, y, d).len = c.len
      /\ (~ c.esc => ~ Placed(c, y, d).esc) /\ (~ c.done => ~ Placed(c, y, d).done)
  BY <1>1, <1>2, PlacedIsConsole
<1> QED
  BY <1>3, <1>5, <1>6, <1>7 DEF d

\* Stepping back from a column that is not the first (fbcon.c:39, 45).
LEMMA BackFacts ==
    ASSUME NEW c \in Console
    PROVE  /\ Back(c) \in Console
           /\ Back(c).drawn = c.drawn /\ Back(c).len = c.len
           /\ (~ c.esc => ~ Back(c).esc) /\ (~ c.done => ~ Back(c).done)
           /\ c.x # 0 => Back(c).x = c.x - 1
<1> DEFINE y == (c.x - 1) % Word16
<1>1. y \in Column /\ c.drawn \in Glyphs
  BY ConsoleParts, Wraps
<1>2. Back(c) = Placed(c, y, c.drawn)
  BY DEF Back, Placed, Console
<1>3. c.x # 0 => c.x - 1 \in Column
  <2>1. Word16 \in Nat /\ c.x \in 0 .. (Word16 - 1)
    BY ConsoleParts, Wraps DEF Column
  <2> QED
    BY <2>1 DEF Column
<1>4. c.x # 0 => y = c.x - 1
  BY <1>3, Wraps
<1> HIDE DEF y
<1> QED
  BY <1>1, <1>2, <1>4, PlacedIsConsole

\* A space of the console's.
LEMMA SpaceIsChar == " " \in Char
BY DEF Char, Ascii

\* A backspace clears the glyph in front of the cursor and stands on it: the
\* putchar in between does not wrap (fbcon.c:37-46).
LEMMA BackspaceFacts ==
    ASSUME NEW c \in Console
    PROVE  /\ Backspace(c) \in Console
           /\ Backspace(c).len = c.len /\ (~ c.esc => ~ Backspace(c).esc)
           /\ (~ c.done => ~ Backspace(c).done)
           /\ OnRow(c) => OnRow(Backspace(c))
           /\ c.x = 0 => Backspace(c) = c
           /\ c.x # 0 /\ OnRow(c) =>
                /\ Backspace(c).x = c.x - 1
                /\ Backspace(c).drawn = Append(c.drawn, <<c.x - 1, " ">>)
<1>1. CASE c.x = 0
  BY <1>1 DEF Backspace
<1>2. CASE c.x # 0
  <2> DEFINE space == " "
             b == Back(c)
             d == Draw(b, b.x, space)
  <2>1. Backspace(c) = Back(d) /\ space \in Char
    BY <1>2, SpaceIsChar, Zenon DEF Backspace
  <2>a. Append(c.drawn, <<c.x - 1, " ">>) = Append(c.drawn, <<c.x - 1, space>>)
    OBVIOUS
  <2>2. /\ b \in Console /\ b.drawn = c.drawn /\ b.len = c.len /\ b.x = c.x - 1
        /\ (~ c.esc => ~ b.esc) /\ (~ c.done => ~ b.done)
    BY <1>2, BackFacts
  <2> HIDE DEF space, b
  <2>3. b.x \in Column
    BY <2>2, ConsoleParts
  <2>4. /\ d \in Console /\ d.len = c.len /\ (~ c.esc => ~ d.esc)
        /\ (~ c.done => ~ d.done)
        /\ d.x = IF (b.x + 1) % Word16 >= Width THEN 0 ELSE (b.x + 1) % Word16
        /\ d.drawn = Append(c.drawn, <<c.x - 1, space>>)
        /\ OnRow(b) /\ b.x < Width => OnRow(d)
    <3>1. /\ d \in Console /\ d.len = b.len /\ (~ b.esc => ~ d.esc)
          /\ (~ b.done => ~ d.done)
          /\ d.x = IF (b.x + 1) % Word16 >= Width THEN 0 ELSE (b.x + 1) % Word16
          /\ d.drawn = Append(b.drawn, <<b.x, space>>)
          /\ OnRow(b) /\ b.x < Width => OnRow(d)
      BY <2>1, <2>2, <2>3, DrawFacts
    <3> HIDE DEF d
    <3> QED
      BY <3>1, <2>2
  <2> HIDE DEF d
  <2>5. /\ Back(d) \in Console /\ Back(d).len = c.len /\ Back(d).drawn = d.drawn
        /\ (~ c.esc => ~ Back(d).esc) /\ (~ c.done => ~ Back(d).done)
    BY <2>4, BackFacts
  <2>6. ASSUME OnRow(c)
        PROVE  Back(d).x = c.x - 1 /\ OnRow(Back(d))
    <3>1. c.x \in Column /\ c.x < Width
      BY <2>6, ConsoleParts DEF OnRow
    <3>2. b.x + 1 = c.x /\ b.x < Width
      BY <2>2, <3>1, ConsoleParts, WidthAssumption
    <3>3. d.x = c.x
      BY <2>4, <3>1, <3>2, ConsoleParts, WidthAssumption, Wraps
    <3>4. Back(d).x = c.x - 1
      BY <1>2, <2>4, <3>3, BackFacts
    <3>5. OnRow(d)
      BY <2>2, <2>4, <2>6, <3>2 DEF OnRow
    <3> QED
      BY <2>5, <3>4, <3>5, <3>1, ConsoleParts, WidthAssumption DEF OnRow
  <2> QED
    BY <1>2, <2>1, <2>a, <2>4, <2>5, <2>6
<1> QED
  BY <1>1, <1>2

\* The colours of the palette are colours (ansi.c:37-120).
LEMMA PaletteHasColors == \A j \in 1 .. 8 : Palette[j] \in Color
BY DEF Palette, Color

\* Every case of the switch changes attributes only (ansi.c:37-120).
LEMMA ApplyCodeFacts ==
    ASSUME NEW c \in Console, NEW code
    PROVE  /\ ApplyCode(c, code) \in Console
           /\ ApplyCode(c, code).x = c.x /\ ApplyCode(c, code).drawn = c.drawn
           /\ ApplyCode(c, code).len = c.len /\ ApplyCode(c, code).done = c.done
<1> DEFINE Kept(d) == /\ d \in Console /\ d.x = c.x /\ d.drawn = c.drawn
                      /\ d.len = c.len /\ d.done = c.done
<1>1. CASE code = 0
  <2>1. ApplyCode(c, code) = [c EXCEPT !.fg = "LGRAY", !.bg = "BLACK", !.bold = FALSE]
    BY <1>1 DEF ApplyCode
  <2>3. Kept([c EXCEPT !.fg = "LGRAY", !.bg = "BLACK", !.bold = FALSE])
    BY DEF Console, Color
  <2> HIDE DEF Kept
  <2>4. Kept(ApplyCode(c, code))
    BY <2>1, <2>3
  <2> QED
    BY <2>4 DEF Kept
<1>2. CASE code = 1
  <2>1. ApplyCode(c, code) = [c EXCEPT !.bold = TRUE]
    BY <1>2 DEF ApplyCode
  <2>3. Kept([c EXCEPT !.bold = TRUE])
    BY DEF Console, Color
  <2> HIDE DEF Kept
  <2>4. Kept(ApplyCode(c, code))
    BY <2>1, <2>3
  <2> QED
    BY <2>4 DEF Kept
<1>3. CASE code = 22
  <2>1. ApplyCode(c, code) = [c EXCEPT !.bold = FALSE]
    BY <1>3 DEF ApplyCode
  <2>3. Kept([c EXCEPT !.bold = FALSE])
    BY DEF Console, Color
  <2> HIDE DEF Kept
  <2>4. Kept(ApplyCode(c, code))
    BY <2>1, <2>3
  <2> QED
    BY <2>4 DEF Kept
<1>4. CASE code \in 30 .. 37
  <2>1. ApplyCode(c, code) = [c EXCEPT !.fg = Palette[code - 29]]
    BY <1>4 DEF ApplyCode
  <2>2. Palette[code - 29] \in Color
    BY <1>4, PaletteHasColors
  <2>3. Kept([c EXCEPT !.fg = Palette[code - 29]])
    BY <2>2 DEF Console
  <2> HIDE DEF Kept
  <2>4. Kept(ApplyCode(c, code))
    BY <2>1, <2>3
  <2> QED
    BY <2>4 DEF Kept
<1>5. CASE code \in 40 .. 47
  <2>1. ApplyCode(c, code) = [c EXCEPT !.bg = Palette[code - 39]]
    BY <1>5 DEF ApplyCode
  <2>2. Palette[code - 39] \in Color
    BY <1>5, PaletteHasColors
  <2>3. Kept([c EXCEPT !.bg = Palette[code - 39]])
    BY <2>2 DEF Console
  <2> HIDE DEF Kept
  <2>4. Kept(ApplyCode(c, code))
    BY <2>1, <2>3
  <2> QED
    BY <2>4 DEF Kept
<1>6. CASE code \notin {0, 1, 22} \cup (30 .. 37) \cup (40 .. 47)
  BY <1>6 DEF ApplyCode
<1> QED
  BY <1>1, <1>2, <1>3, <1>4, <1>5, <1>6

\* TTY_HandleEsc touches neither the cursor nor the screen (ansi.c:9-127).
LEMMA HandleEscFacts ==
    ASSUME NEW c \in Console, NEW ch \in Char, c.len < BufSize - 1
    PROVE  /\ TTY_HandleEsc(c, ch) \in Console
           /\ TTY_HandleEsc(c, ch).x = c.x /\ TTY_HandleEsc(c, ch).drawn = c.drawn
           /\ TTY_HandleEsc(c, ch).len <= c.len + 1 /\ ~ TTY_HandleEsc(c, ch).done
<1> DEFINE buf == [[c.buf EXCEPT ![c.len] = ch] EXCEPT ![c.len + 1] = "NUL"]
           got == [c EXCEPT !.buf[c.len] = ch, !.buf[c.len + 1] = "NUL", !.len = @ + 1]
           found == IsFinal(ch) /\ IsComplete(got.buf)
           code == CodeAt(got.buf, CodeStart(got.buf), CodeEnd(got.buf))
           acted == IF found THEN ApplyCode(got, code) ELSE got
           cleared == [acted EXCEPT !.done = FALSE, !.len = 0, !.esc = FALSE]
           kept == [acted EXCEPT !.esc = TRUE]
<1>1. TTY_HandleEsc(c, ch) = IF found \/ c.done THEN cleared ELSE kept
  BY Zenon DEF TTY_HandleEsc
<1>2. /\ buf \in [0 .. (BufSize - 1) -> Char] /\ c.len + 1 \in 0 .. (BufSize - 1)
      /\ c.done \in BOOLEAN /\ c.esc \in BOOLEAN
  BY ConsoleParts, NulIsChar, BufSizeAssumption
<1>3. /\ got \in Console /\ got.x = c.x /\ got.drawn = c.drawn /\ got.len = c.len + 1
      /\ got.done = c.done
  <2> DEFINE n == c.len + 1
  <2>1. got = [c EXCEPT !.buf = buf, !.len = n]
    BY DEF Console
  <2> HIDE DEF buf, n
  <2>2. /\ [c EXCEPT !.buf = buf, !.len = n] \in Console
        /\ [c EXCEPT !.buf = buf, !.len = n].x = c.x
        /\ [c EXCEPT !.buf = buf, !.len = n].drawn = c.drawn
        /\ [c EXCEPT !.buf = buf, !.len = n].len = n
        /\ [c EXCEPT !.buf = buf, !.len = n].done = c.done
    BY <1>2 DEF Console, n
  <2> HIDE DEF got
  <2> QED
    BY <2>1, <2>2 DEF n
<1> HIDE DEF got, code, found
<1>4. /\ acted \in Console /\ acted.x = c.x /\ acted.drawn = c.drawn
      /\ acted.len = c.len + 1 /\ acted.done = c.done
  BY <1>3, ApplyCodeFacts
<1> HIDE DEF acted
<1>5. /\ cleared \in Console /\ cleared.x = c.x /\ cleared.drawn = c.drawn
      /\ cleared.len = 0 /\ ~ cleared.done
  <2> DEFINE n == 0
  <2>1. n \in 0 .. (BufSize - 1)
    BY BufSizeAssumption
  <2> HIDE DEF n
  <2>2. cleared = [acted EXCEPT !.done = FALSE, !.len = n, !.esc = FALSE]
    BY DEF n
  <2>3. /\ cleared \in Console /\ cleared.x = acted.x
        /\ cleared.drawn = acted.drawn /\ cleared.len = n /\ ~ cleared.done
    BY <1>4, <2>1, <2>2 DEF Console
  <2> QED
    BY <1>4, <2>3 DEF n
<1>6. /\ kept \in Console /\ kept.x = c.x /\ kept.drawn = c.drawn
      /\ kept.len = c.len + 1 /\ (~ c.done => ~ kept.done)
  BY <1>4 DEF Console
<1> HIDE DEF cleared, kept
<1> QED
  BY <1>1, <1>5, <1>6, ConsoleParts

\* What putchar does outside an escape sequence (fbcon.c:25-90).
LEMMA PlainPutchar ==
    ASSUME NEW c, ~ c.esc, NEW ch, ch # "ESC"
    PROVE  putchar(c, ch) = CASE ch \in {"CR", "LF"} -> [c EXCEPT !.x = 0]
                              [] ch = "BS" -> Backspace(c)
                              [] OTHER -> Draw(c, c.x, ch)
BY DEF putchar, FBCON_Write

\* The first column is inside the row.
LEMMA HomeFacts ==
    ASSUME NEW c \in Console
    PROVE  /\ [c EXCEPT !.x = 0] \in Console
           /\ [c EXCEPT !.x = 0].x = 0
           /\ [c EXCEPT !.x = 0].drawn = c.drawn
           /\ [c EXCEPT !.x = 0].len = c.len
           /\ (~ c.esc => ~ [c EXCEPT !.x = 0].esc)
           /\ (~ c.done => ~ [c EXCEPT !.x = 0].done)
           /\ OnRow(c) => OnRow([c EXCEPT !.x = 0])
<1> DEFINE d == [c EXCEPT !.x = 0]
<1>1. d = Placed(c, 0, c.drawn)
  BY DEF Placed, Console
<1>2. /\ d \in Console /\ d.x = 0 /\ d.drawn = c.drawn /\ d.len = c.len
      /\ (~ c.esc => ~ d.esc) /\ (~ c.done => ~ d.done)
  BY <1>1, Wraps, ConsoleParts, PlacedIsConsole
<1> HIDE DEF d
<1>3. OnRow(c) => OnRow(d)
  BY <1>2, WidthAssumption DEF OnRow
<1> QED
  BY <1>2, <1>3 DEF d

\* Whatever it prints, putchar leaves a console, adds at most one character to
\* the pending sequence, and stays inside the row (renderer.c:12-14,
\* fbcon.c:25-90).
LEMMA PutcharFacts ==
    ASSUME NEW c \in Console, NEW ch \in Char, c.len < BufSize - 1
    PROVE  /\ putchar(c, ch) \in Console
           /\ putchar(c, ch).len <= c.len + 1
           /\ OnRow(c) => OnRow(putchar(c, ch))
           /\ ~ c.esc /\ ch # "ESC" => ~ putchar(c, ch).esc /\ putchar(c, ch).len = c.len
           /\ ~ c.done => ~ putchar(c, ch).done
<1>1. c.x \in Column /\ c.len \in Nat
  BY ConsoleParts
<1>2. CASE ch = "ESC"
  <2>1. putchar(c, ch) = [c EXCEPT !.esc = TRUE]
    BY <1>2 DEF putchar, FBCON_Write
  <2>2. /\ [c EXCEPT !.esc = TRUE] \in Console
        /\ [c EXCEPT !.esc = TRUE].x = c.x /\ [c EXCEPT !.esc = TRUE].drawn = c.drawn
        /\ [c EXCEPT !.esc = TRUE].len = c.len
        /\ ~ c.done => ~ [c EXCEPT !.esc = TRUE].done
    BY DEF Console
  <2> DEFINE d == [c EXCEPT !.esc = TRUE]
  <2>3. /\ d \in Console /\ d.x = c.x /\ d.drawn = c.drawn /\ d.len = c.len
        /\ ~ c.done => ~ d.done
    BY <2>2
  <2> HIDE DEF d
  <2>4. OnRow(c) => OnRow(d)
    BY <2>3 DEF OnRow
  <2>5. putchar(c, ch) = d
    BY <2>1 DEF d
  <2> QED
    BY <1>1, <1>2, <2>3, <2>4, <2>5
<1>3. CASE ch # "ESC" /\ c.esc
  <2>1. putchar(c, ch) = TTY_HandleEsc(c, ch)
    BY <1>3 DEF putchar, FBCON_Write
  <2> QED
    BY <1>3, <2>1, HandleEscFacts DEF OnRow
<1>4. CASE ch # "ESC" /\ ~ c.esc
  <2>1. CASE ch \in {"CR", "LF"}
    <3>1. putchar(c, ch) = [c EXCEPT !.x = 0]
      BY <1>4, <2>1, PlainPutchar
    <3> QED
      BY <1>1, <1>4, <3>1, HomeFacts
  <2>2. CASE ch = "BS"
    <3>1. putchar(c, ch) = Backspace(c)
      BY <1>4, <2>2, PlainPutchar
    <3> QED
      <4>1. /\ Backspace(c) \in Console /\ Backspace(c).len = c.len
            /\ (~ c.esc => ~ Backspace(c).esc)
            /\ (~ c.done => ~ Backspace(c).done) /\ (OnRow(c) => OnRow(Backspace(c)))
        BY BackspaceFacts
      <4> QED
        BY <1>1, <1>4, <3>1, <4>1
  <2>3. CASE ch \notin {"CR", "LF", "BS"}
    <3>1. putchar(c, ch) = Draw(c, c.x, ch)
      BY <1>4, <2>3, PlainPutchar
    <3>2. OnRow(c) => c.x < Width
      BY DEF OnRow
    <3> QED
      BY <1>1, <1>4, <3>1, <3>2, DrawFacts
  <2> QED
    BY <2>1, <2>2, <2>3
<1> QED
  BY <1>2, <1>3, <1>4

-----------------------------------------------------------------------------
(* The handler as a whole.                                                  *)

\* Forgetting what was drawn before leaves the rest of the console alone.
LEMMA FreshConsole ==
    ASSUME NEW c \in Console
    PROVE  /\ [c EXCEPT !.drawn = << >>] \in Console
           /\ [c EXCEPT !.drawn = << >>].x = c.x
           /\ [c EXCEPT !.drawn = << >>].len = c.len
           /\ [c EXCEPT !.drawn = << >>].drawn = << >>
           /\ (~ c.esc => ~ [c EXCEPT !.drawn = << >>].esc)
           /\ (~ c.done => ~ [c EXCEPT !.drawn = << >>].done)
           /\ (c.x < Width => OnRow([c EXCEPT !.drawn = << >>]))
<1> DEFINE d == [c EXCEPT !.drawn = << >>]
<1>1. << >> \in Glyphs
  BY DEF Glyphs
<1>2. d = Placed(c, c.x, << >>)
  BY DEF Placed, Console
<1>3. /\ d \in Console /\ d.x = c.x /\ d.len = c.len /\ d.drawn = << >>
      /\ (~ c.esc => ~ d.esc) /\ (~ c.done => ~ d.done)
  BY <1>1, <1>2, ConsoleParts, PlacedIsConsole
<1> HIDE DEF d
<1>4. c.x < Width => OnRow(d)
  BY <1>3 DEF OnRow
<1> QED
  BY <1>3, <1>4 DEF d

\* A key is echoed by one character or none, and never by an escape
\* (keyboard.c:33-57, 65-83).
LEMMA EchoFacts ==
    ASSUME NEW b, NEW k \in Scancode
    PROVE  \/ Echo(b, k) = << >>
           \/ \E ch \in Char : ch # "ESC" /\ Echo(b, k) = << ch >>
<1> DEFINE ch == get_us_qwerty_char_from_scan_code(b, k)
<1>1. ch # "NUL" => ch \in Char /\ ch # "ESC"
  BY CharacterOfKey, KeycapHasCharacters DEF get_us_qwerty_char_from_scan_code
<1>2. {"LF", "BS"} \subseteq Char
  BY DEF Char, Ascii
<1> QED
  BY <1>1, <1>2 DEF Echo

\* One scan code: the line stays well formed, the console stays one, and the
\* cursor and the glyphs stay inside the row (keyboard.c:12-63).
LEMMA HandlerFacts ==
    ASSUME NEW b, WellFormed(b), NEW c \in Console, c.len < BufSize - 1,
           NEW k \in Scancode, Room(b, k)
    PROVE  /\ WellFormed(HandleKeyboard(b, c, k).kb)
           /\ HandleKeyboard(b, c, k).con \in Console
           /\ HandleKeyboard(b, c, k).con.len <= c.len + 1
           /\ c.x < Width => OnRow(HandleKeyboard(b, c, k).con)
           /\ ~ c.esc => /\ ~ HandleKeyboard(b, c, k).con.esc
                         /\ HandleKeyboard(b, c, k).con.len = c.len
           /\ ~ c.done => ~ HandleKeyboard(b, c, k).con.done
<1> DEFINE d == [c EXCEPT !.drawn = << >>]
           e == puts(d, Echo(b, k))
<1>1. /\ HandleKeyboard(b, c, k).kb = Input(b, k)
      /\ HandleKeyboard(b, c, k).con = e
  BY DEF HandleKeyboard
<1>2. /\ d \in Console /\ d.len = c.len /\ (~ c.esc => ~ d.esc)
      /\ (~ c.done => ~ d.done) /\ (c.x < Width => OnRow(d))
      /\ c.len \in Nat
  BY FreshConsole, ConsoleParts
<1> HIDE DEF d
<1>3. CASE Echo(b, k) = << >>
  <2>1. e = d
    BY <1>3, PutsNone
  <2> HIDE DEF e
  <2> QED
    BY <1>1, <1>2, <2>1, InputRefines
<1>4. CASE \E ch \in Char : ch # "ESC" /\ Echo(b, k) = << ch >>
  <2>1. PICK ch \in Char : ch # "ESC" /\ Echo(b, k) = << ch >>
    BY <1>4
  <2>2. e = putchar(d, ch)
    BY <2>1, PutsOne
  <2> HIDE DEF e
  <2>3. /\ putchar(d, ch) \in Console /\ putchar(d, ch).len <= d.len + 1
        /\ OnRow(d) => OnRow(putchar(d, ch))
        /\ ~ d.esc => ~ putchar(d, ch).esc /\ putchar(d, ch).len = d.len
        /\ ~ d.done => ~ putchar(d, ch).done
    BY <1>2, <2>1, PutcharFacts
  <2> QED
    BY <1>1, <1>2, <2>2, <2>3, InputRefines
<1> QED
  BY <1>3, <1>4, EchoFacts

-----------------------------------------------------------------------------
(* The other functions of the console.                                      *)

\* A keyboard starts with an empty line (keyboard.c:5-10).
LEMMA KeyboardStarts == WellFormed(KeyboardAtBoot)
<1>1. KeyboardAtBoot \in Keyboard
  BY NulIsChar, InputSizeAssumption DEF KeyboardAtBoot, Keyboard
<1>2. \A j \in -1 .. (InputSize - 1) : KeyboardAtBoot.input[j] = "NUL"
  BY InputSizeAssumption DEF KeyboardAtBoot
<1>3. KeyboardAtBoot.i = 0
  BY DEF KeyboardAtBoot
<1> QED
  BY <1>1, <1>2, <1>3 DEF WellFormed

\* A console starts empty (tty.c, ansi.c).
LEMMA ConsoleStarts ==
    /\ ConsoleAtBoot \in Console
    /\ ConsoleAtBoot.len = 0 /\ ~ ConsoleAtBoot.esc /\ ConsoleAtBoot.drawn = << >>
    /\ ~ ConsoleAtBoot.done
<1> DEFINE n == 0
           blank == [j \in 0 .. (BufSize - 1) |-> "NUL"]
           none == << >>
<1>1. /\ n \in 0 .. (BufSize - 1) /\ n \in 0 .. (Word16 - 1)
      /\ none \in Seq((0 .. (Word16 - 1)) \X Char)
  BY BufSizeAssumption DEF Word16
<1>2. blank \in [0 .. (BufSize - 1) -> Char]
  BY NulIsChar
<1>3. ConsoleAtBoot = [esc |-> FALSE, buf |-> blank, len |-> n, done |-> FALSE, x |-> n,
                       fg |-> "BLACK", bg |-> "BLACK", bold |-> FALSE, drawn |-> none]
  BY Zenon DEF ConsoleAtBoot
<1> HIDE DEF n, blank, none
<1>4. ConsoleAtBoot \in Console
  BY <1>1, <1>2, <1>3 DEF Console, Color
<1> QED
  BY <1>4, <1>3 DEF n, none

\* FBCON_Init homes the cursor (fbcon.c:107-113).
LEMMA ResetFacts ==
    ASSUME NEW c \in Console
    PROVE  /\ FBCON_Reset(c) \in Console
           /\ FBCON_Reset(c).x = 0 /\ FBCON_Reset(c).drawn = c.drawn
           /\ FBCON_Reset(c).len = c.len /\ (~ c.esc => ~ FBCON_Reset(c).esc)
           /\ (~ c.done => ~ FBCON_Reset(c).done)
<1> DEFINE n == 0
<1>1. n \in 0 .. (Word16 - 1) /\ "LGRAY" \in Color
  BY DEF Word16, Color
<1>2. FBCON_Reset(c) = [c EXCEPT !.x = n, !.fg = "LGRAY", !.bold = FALSE]
  BY DEF FBCON_Reset
<1> HIDE DEF n
<1>3. FBCON_Reset(c) \in Console
  BY <1>1, <1>2 DEF Console
<1>4. /\ FBCON_Reset(c).x = n /\ FBCON_Reset(c).drawn = c.drawn
      /\ FBCON_Reset(c).len = c.len /\ (~ c.esc => ~ FBCON_Reset(c).esc)
      /\ (~ c.done => ~ FBCON_Reset(c).done)
  BY <1>2 DEF Console
<1> QED
  BY <1>3, <1>4 DEF n

\* The serial writer counts columns; a carriage return goes back to the first,
\* and a line feed stays (comout.c:28-45).
LEMMA SerialFacts ==
    ASSUME NEW c \in Console, NEW ch \in Char
    PROVE  /\ COM_LogWrapper(c, ch) \in Console
           /\ COM_LogWrapper(c, ch).drawn = c.drawn /\ COM_LogWrapper(c, ch).len = c.len
           /\ ~ c.done => ~ COM_LogWrapper(c, ch).done
           /\ ch = "CR" => COM_LogWrapper(c, ch).x = 0
           /\ ch = "LF" => COM_LogWrapper(c, ch).x = c.x
<1>1. CASE ch = "CR"
  <2>1. COM_LogWrapper(c, ch) = [c EXCEPT !.x = 0]
    BY <1>1 DEF COM_LogWrapper
  <2> QED
    BY <1>1, <2>1, HomeFacts
<1>2. CASE ch = "LF"
  BY <1>2 DEF COM_LogWrapper
<1>3. CASE ch \notin {"CR", "LF"}
  <2> DEFINE y == (c.x + 1) % Word16
  <2>1. COM_LogWrapper(c, ch) = Placed(c, y, c.drawn)
    BY <1>3 DEF COM_LogWrapper, Placed, Console
  <2>2. y \in Column
    BY ConsoleParts, Wraps
  <2> HIDE DEF y
  <2> QED
    BY <1>3, <2>1, <2>2, ConsoleParts, PlacedIsConsole
<1> QED
  BY <1>1, <1>2, <1>3
=============================================================================
