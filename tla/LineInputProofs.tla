-------------------------- MODULE LineInputProofs --------------------------
(***************************************************************************)
(* For every width of the console and every length of input: the typed     *)
(* line is terminated and nothing stale follows it, the handler implements *)
(* the line editor, and the screen shows the line.  The first two need     *)
(* only keyboard.c's state.                                                *)
(***************************************************************************)
EXTENDS LineInput, KeyboardProofs, FiniteSetTheorems

\* The inductive invariant of the line.
LineInv == WellFormed(kb)

LEMMA KeyIsInput ==
    ASSUME NEW k \in Scancode, Key(k)
    PROVE  Room(kb, k) /\ kb' = Input(kb, k)
BY DEF Key, HandleKeyboard

LEMMA LineInvInit == Init => LineInv
BY KeyboardStarts DEF Init, LineInv

LEMMA LineInvNext == LineInv /\ [Next]_vars => LineInv'
<1> SUFFICES ASSUME LineInv, [Next]_vars PROVE LineInv'
  OBVIOUS
<1>1. CASE Next
  <2>1. PICK k \in Scancode : Key(k)
    BY <1>1 DEF Next
  <2> QED
    BY <2>1, KeyIsInput, InputRefines DEF LineInv
<1>2. CASE UNCHANGED vars
  BY <1>2 DEF vars, LineInv
<1> QED
  BY <1>1, <1>2

LEMMA LineInvariant == Spec => []LineInv
BY LineInvInit, LineInvNext, PTL DEF Spec

\* input is terminated at every moment a line could be read, whatever was
\* typed, erased and submitted before (keyboard.c:33-57).
THEOREM InputStaysTerminated == Spec => []InputTerminated
<1>1. LineInv => InputTerminated
  BY DEF LineInv, WellFormed, InputTerminated
<1> QED
  BY <1>1, LineInvariant, PTL

\* The handler implements the line editor: Backspace on an empty line is a
\* stutter, as are the shift keys (keyboard.c:33-57).
THEOREM LineInputImplementsLineEditor == Spec => LineEditorContract
<1>1. Typed = LineOf(kb)
  BY DEF Typed, LineOf
<1>2. Init => Editor!Init
  <2> SUFFICES ASSUME Init PROVE Typed = << >>
    BY DEF Editor!Init
  <2>1. kb.i = 0
    BY DEF Init, KeyboardAtBoot
  <2> QED
    BY <2>1 DEF Typed
<1>3. LineInv /\ [Next]_vars => [Editor!Next]_Typed
  <2> SUFFICES ASSUME LineInv, [Next]_vars PROVE [Editor!Next]_Typed
    OBVIOUS
  <2>1. CASE UNCHANGED vars
    BY <2>1 DEF vars, Typed
  <2>2. CASE Next
    <3>1. PICK k \in Scancode : Key(k)
      BY <2>2 DEF Next
    <3>2. Typed' = LineOf(Input(kb, k))
      BY <3>1, KeyIsInput DEF Typed, LineOf
    <3>3. \/ Typed' = Typed
          \/ Typed' = << >>
          \/ Typed # << >> /\ Typed' = SubSeq(Typed, 1, Len(Typed) - 1)
          \/ \E c \in Char : Typed' = Append(Typed, c)
      BY <1>1, <3>1, <3>2, KeyIsInput, InputRefines DEF LineInv
    <3> QED
      BY <3>3 DEF Editor!Next, Editor!Erase, Editor!Submit, Editor!Type
  <2> QED
    BY <2>1, <2>2
<1> QED
  BY <1>2, <1>3, LineInvariant, PTL DEF Spec, LineEditorContract, Editor!Spec

-----------------------------------------------------------------------------
(* The columns of the echoed characters.                                    *)

Percent == "%"
Space   == " "

\* Neither ends a line.
LEMMA SpecialCharacters == Percent # "NUL" /\ Space \in Char
BY SpaceIsChar, Zenon DEF Percent, Space

LEMMA EchoedIs == \A b, j : Echoed(b, j) = {m \in 0 .. (j - 1) : b.input[m] # Percent}
BY Zenon DEF Echoed, Percent

\* A character takes a column if it is echoed.
LEMMA ColumnFacts ==
    ASSUME NEW b, NEW j \in Nat
    PROVE  /\ IsFiniteSet(Echoed(b, j)) /\ ColumnOf(b, j) \in Nat
           /\ b.input[j] = Percent => ColumnOf(b, j + 1) = ColumnOf(b, j)
           /\ b.input[j] # Percent => ColumnOf(b, j + 1) = ColumnOf(b, j) + 1
           /\ Echoed(b, j) = 0 .. (j - 1) => ColumnOf(b, j) = j
<1>1. Echoed(b, j) \in SUBSET (0 .. (j - 1)) /\ IsFiniteSet(0 .. (j - 1))
      /\ Cardinality(0 .. (j - 1)) = j
  BY EchoedIs, FS_Interval
<1>2. IsFiniteSet(Echoed(b, j))
  BY <1>1, FS_Subset
<1>3. ColumnOf(b, j) \in Nat
  BY <1>2, FS_CardinalityType DEF ColumnOf
<1>4. ASSUME b.input[j] = Percent PROVE ColumnOf(b, j + 1) = ColumnOf(b, j)
  <2>1. ASSUME NEW m PROVE m \in Echoed(b, j + 1) <=> m \in Echoed(b, j)
    <3>1. m \in 0 .. (j + 1 - 1) <=> m \in 0 .. (j - 1) \/ m = j
      OBVIOUS
    <3>2. m \in Echoed(b, j + 1) <=> m \in 0 .. (j + 1 - 1) /\ b.input[m] # Percent
      BY EchoedIs
    <3>3. m \in Echoed(b, j) <=> m \in 0 .. (j - 1) /\ b.input[m] # Percent
      BY EchoedIs, Zenon
    <3> QED
      BY <1>4, <3>1, <3>2, <3>3
  <2>2. Echoed(b, j + 1) = Echoed(b, j)
    BY <2>1, Zenon
  <2> QED
    BY <2>2 DEF ColumnOf
<1>5. ASSUME b.input[j] # Percent PROVE ColumnOf(b, j + 1) = ColumnOf(b, j) + 1
  <2>1. Echoed(b, j + 1) = Echoed(b, j) \cup {j} /\ j \notin Echoed(b, j)
    BY <1>5, EchoedIs
  <2> QED
    BY <1>2, <2>1, FS_AddElement DEF ColumnOf
<1> QED
  BY <1>1, <1>2, <1>3, <1>4, <1>5 DEF ColumnOf

\* No two echoed characters share a column.
LEMMA ColumnGrows ==
    ASSUME NEW b, NEW n \in Nat, NEW j \in Echoed(b, n)
    PROVE  ColumnOf(b, j) \in Nat /\ ColumnOf(b, j) < ColumnOf(b, n)
<1>1. j \in Nat /\ j < n /\ b.input[j] # Percent
  BY EchoedIs
<1>2. Echoed(b, j + 1) \in SUBSET Echoed(b, n)
  BY <1>1, EchoedIs
<1>3. ColumnOf(b, j + 1) <= ColumnOf(b, n)
  BY <1>2, ColumnFacts, FS_Subset DEF ColumnOf
<1>4. /\ ColumnOf(b, j) \in Nat /\ ColumnOf(b, j + 1) = ColumnOf(b, j) + 1
      /\ ColumnOf(b, n) \in Nat
  BY <1>1, ColumnFacts
<1> QED
  BY <1>3, <1>4

\* The columns depend on the line alone.
LEMMA SameColumns ==
    ASSUME NEW b, NEW d, NEW n \in Nat, \A m \in 0 .. (n - 1) : b.input[m] = d.input[m]
    PROVE  \A j \in 0 .. n : Echoed(d, j) = Echoed(b, j) /\ ColumnOf(d, j) = ColumnOf(b, j)
<1> SUFFICES ASSUME NEW j \in 0 .. n
             PROVE  Echoed(d, j) = Echoed(b, j) /\ ColumnOf(d, j) = ColumnOf(b, j)
  OBVIOUS
<1>1. Echoed(d, j) = Echoed(b, j)
  BY EchoedIs
<1> QED
  BY <1>1 DEF ColumnOf

-----------------------------------------------------------------------------
(* The row and the handler.                                                 *)

\* Row r with ch in cell x.
Drawn(r, x, ch) == [y \in 0 .. (Width - 1) |-> IF y = x THEN ch ELSE r[y]]

\* A call that draws nothing leaves the row, and one glyph changes one cell.
LEMMA PaintFacts ==
    ASSUME NEW r \in [0 .. (Width - 1) -> Char], NEW x, NEW ch
    PROVE  /\ Paint(r, << >>) = r
           /\ Paint(r, << <<x, ch>> >>) = Drawn(r, x, ch)
           /\ ch \in Char => Drawn(r, x, ch) \in [0 .. (Width - 1) -> Char]
<1>1. Paint(r, << >>) = r
  BY DEF Paint
<1>2. Paint(r, << <<x, ch>> >>) = Drawn(r, x, ch)
  <2> DEFINE d == << <<x, ch>> >>
             Hits(y) == {j \in DOMAIN d : d[j][1] = y}
  <2>1. DOMAIN d = {1} /\ d[1][1] = x /\ d[1][2] = ch
    OBVIOUS
  <2>2. Paint(r, d) = [y \in DOMAIN r |->
                         IF Hits(y) = {} THEN r[y] ELSE d[Max(Hits(y))][2]]
    BY Zenon DEF Paint
  <2> HIDE DEF d
  <2>3. \A y : Hits(y) = IF y = x THEN {1} ELSE {}
    BY <2>1
  <2>4. Max({1}) = 1
    BY DEF Max
  <2> HIDE DEF Hits
  <2> QED
    BY <2>1, <2>2, <2>3, <2>4 DEF d, Drawn
<1>3. ch \in Char => Drawn(r, x, ch) \in [0 .. (Width - 1) -> Char]
  BY DEF Drawn
<1> QED
  BY <1>1, <1>2, <1>3

\* What becomes of the cursor, and what is drawn, when key k with character ch
\* finds line b and console c and leaves console e.
EchoesKey(b, c, k, ch, e) ==
    /\ k = "Enter" => e.x = 0
    /\ k = "Backspace" /\ c.x = 0 => e.x = 0 /\ e.drawn = << >>
    /\ k = "Backspace" /\ c.x # 0 =>
         e.x = c.x - 1 /\ e.drawn = << <<c.x - 1, Space>> >>
    /\ k \notin {"Enter", "Backspace"} /\ ch \in {"NUL", Percent} =>
         Echo(b, k) = << >> /\ e.x = c.x /\ e.drawn = << >>
    /\ k \notin {"Enter", "Backspace"} /\ ch \notin {"NUL", Percent} =>
         /\ Echo(b, k) # << >>
         /\ e.x \in {0, c.x + 1} /\ e.drawn = << <<c.x, ch>> >>

\* Outside an escape sequence the handler moves the cursor by the character it
\* echoes (keyboard.c:33-57, fbcon.c:33-90).
LEMMA HandlerEchoes ==
    ASSUME NEW b, NEW c \in Console, ~ c.esc, c.x < Width, NEW k \in Scancode,
           NEW e, e = HandleKeyboard(b, c, k).con,
           NEW ch, ch = get_us_qwerty_char_from_scan_code(b, k)
    PROVE  /\ e \in Console /\ ~ e.esc /\ e.x < Width
           /\ EchoesKey(b, c, k, ch, e)
<1> DEFINE d == [c EXCEPT !.drawn = << >>]
<1>1. e = puts(d, Echo(b, k))
  BY DEF HandleKeyboard
<1>2. /\ d \in Console /\ d.x = c.x /\ d.drawn = << >> /\ ~ d.esc /\ OnRow(d)
      /\ c.x \in Nat /\ c.x \in Column
  BY FreshConsole, ConsoleParts
<1> HIDE DEF d
<1>3. CASE k = "Enter"
  <2>1. Echo(b, k) = << "LF" >>
    BY <1>3 DEF Echo
  <2>2. e = [d EXCEPT !.x = 0]
    BY <1>1, <1>2, <2>1, PutsOne, PlainPutchar
  <2>3. e \in Console /\ e.x = 0 /\ ~ e.esc
    BY <1>2, <2>2, HomeFacts
  <2> QED
    BY <1>3, <2>3, WidthAssumption DEF EchoesKey
<1>4. CASE k = "Backspace"
  <2>1. Echo(b, k) = << "BS" >>
    BY <1>4 DEF Echo
  <2>2. e = Backspace(d)
    BY <1>1, <1>2, <2>1, PutsOne, PlainPutchar
  <2>3. /\ e \in Console /\ ~ e.esc /\ OnRow(e)
        /\ d.x = 0 => e = d
    BY <1>2, <2>2, BackspaceFacts
  <2>4. d.x # 0 => e.x = d.x - 1 /\ e.drawn = << <<d.x - 1, Space>> >>
    <3>1. d.x # 0 => e.x = d.x - 1 /\ e.drawn = Append(d.drawn, <<d.x - 1, Space>>)
      BY <1>2, <2>2, BackspaceFacts, Zenon DEF Space
    <3>2. \A z : Append(<< >>, z) = << z >>
      OBVIOUS
    <3> QED
      BY <1>2, <3>1, <3>2
  <2> QED
    BY <1>2, <1>4, <2>3, <2>4 DEF OnRow, EchoesKey
<1>5. CASE k \notin {"Enter", "Backspace"} /\ ch \in {"NUL", Percent}
  <2>1. Echo(b, k) = << >>
    BY <1>5, Zenon DEF Echo, Percent
  <2>2. e = d
    BY <1>1, <2>1, PutsNone
  <2> QED
    BY <1>2, <1>5, <2>1, <2>2 DEF EchoesKey
<1>6. CASE k \notin {"Enter", "Backspace"} /\ ch \notin {"NUL", Percent}
  <2>1. Echo(b, k) = << ch >>
    BY <1>6, Zenon DEF Echo, Percent
  <2>2. ch \in Char /\ ch \notin {"ESC", "CR", "LF", "BS"}
    BY <1>6, CharacterOfKey, KeycapHasCharacters DEF get_us_qwerty_char_from_scan_code
  <2>3. e = Draw(d, d.x, ch)
    BY <1>1, <1>2, <2>1, <2>2, PutsOne, PlainPutchar
  <2>4. d.x \in Column /\ d.x < Width
    BY <1>2 DEF OnRow
  <2>5. /\ e \in Console /\ ~ e.esc /\ OnRow(e)
        /\ e.x = IF (d.x + 1) % Word16 >= Width THEN 0 ELSE (d.x + 1) % Word16
        /\ e.drawn = Append(d.drawn, <<d.x, ch>>)
    <3> DEFINE f == Draw(d, d.x, ch)
    <3>1. /\ f \in Console /\ ~ f.esc /\ OnRow(f)
          /\ f.x = IF (d.x + 1) % Word16 >= Width THEN 0 ELSE (d.x + 1) % Word16
          /\ f.drawn = Append(d.drawn, <<d.x, ch>>)
      BY <1>2, <2>2, <2>4, DrawFacts
    <3> HIDE DEF f
    <3>2. e = f
      BY <2>3 DEF f
    <3> QED
      BY <3>1, <3>2
  <2>6. (d.x + 1) % Word16 \in {0, d.x + 1}
    <3>1. d.x + 1 \in 0 .. Word16 /\ Word16 \in Nat
      BY <2>4, Wraps DEF Column
    <3>2. CASE d.x + 1 = Word16
      BY <3>2 DEF Word16
    <3>3. CASE d.x + 1 # Word16
      BY <3>1, <3>3, Wraps DEF Column
    <3> QED
      BY <3>2, <3>3
  <2>7. e.x \in {0, c.x + 1}
    BY <1>2, <2>5, <2>6
  <2>8. e.drawn = << <<c.x, ch>> >>
    BY <1>2, <2>5
  <2>9. Echo(b, k) # << >>
    BY <2>1
  <2> QED
    BY <1>6, <2>5, <2>7, <2>8, <2>9 DEF OnRow, EchoesKey
<1> QED
  BY <1>3, <1>4, <1>5, <1>6

-----------------------------------------------------------------------------
(* The screen.                                                              *)

\* The screen shows b's line: the consequence of EchoMatches.
Shows(b, c, r) ==
    /\ c.x = ColumnOf(b, b.i)
    /\ \A j \in Echoed(b, b.i) : r[ColumnOf(b, j)] = b.input[j]
    /\ \A x \in c.x .. (Width - 1) : r[x] = Space

\* An empty line on an empty row.
LEMMA ShowsNothing ==
    ASSUME NEW b, b.i = 0, NEW c, c.x = 0, NEW r,
           \A x \in 0 .. (Width - 1) : r[x] = Space
    PROVE  Shows(b, c, r)
<1>1. Echoed(b, 0) = {}
  BY EchoedIs
<1>2. ColumnOf(b, 0) = 0
  BY <1>1, FS_EmptySet DEF ColumnOf
<1> QED
  BY <1>1, <1>2 DEF Shows

\* A % takes a place in the line and none on the screen.
LEMMA ShowsPercent ==
    ASSUME NEW b, b.i \in Nat, NEW d, d.i = b.i + 1,
           \A m \in 0 .. (b.i - 1) : b.input[m] = d.input[m], d.input[b.i] = Percent,
           NEW c, NEW e, e.x = c.x, NEW r, Shows(b, c, r)
    PROVE  Shows(d, e, r)
<1> DEFINE n == b.i
<1>1. \A j \in 0 .. n : Echoed(d, j) = Echoed(b, j) /\ ColumnOf(d, j) = ColumnOf(b, j)
  BY SameColumns
<1>2. ColumnOf(d, n + 1) = ColumnOf(d, n)
  BY ColumnFacts
<1>3. Echoed(d, n + 1) = Echoed(b, n)
  <2> SUFFICES ASSUME NEW m PROVE m \in Echoed(d, n + 1) <=> m \in Echoed(b, n)
    BY Zenon
  <2>1. m \in Echoed(d, n + 1) <=> m \in 0 .. n /\ d.input[m] # Percent
    BY EchoedIs
  <2>2. m \in Echoed(d, n) <=> m \in 0 .. (n - 1) /\ d.input[m] # Percent
    BY EchoedIs
  <2>3. Echoed(d, n) = Echoed(b, n)
    BY <1>1
  <2> QED
    BY <2>1, <2>2, <2>3
<1>4. \A j \in Echoed(b, n) : j \in 0 .. n /\ d.input[j] = b.input[j]
  BY EchoedIs
<1>5. e.x = ColumnOf(d, d.i)
  BY <1>1, <1>2 DEF Shows
<1>6. \A j \in Echoed(d, d.i) : r[ColumnOf(d, j)] = d.input[j]
  BY <1>1, <1>3, <1>4 DEF Shows
<1> QED
  BY <1>5, <1>6 DEF Shows

\* Another character takes the cell at the cursor.
LEMMA ShowsCharacter ==
    ASSUME NEW b, b.i \in Nat, NEW d, d.i = b.i + 1,
           \A m \in 0 .. (b.i - 1) : b.input[m] = d.input[m],
           NEW ch, d.input[b.i] = ch, ch # Percent,
           NEW c, c.x \in Nat, c.x < Width, NEW e, e.x = c.x + 1,
           NEW r, Shows(b, c, r)
    PROVE  Shows(d, e, Drawn(r, c.x, ch))
<1> DEFINE n == b.i
           s == Drawn(r, c.x, ch)
<1>0. s = [y \in 0 .. (Width - 1) |-> IF y = c.x THEN ch ELSE r[y]]
  BY DEF Drawn
<1> HIDE DEF s
<1>1. \A j \in 0 .. n : Echoed(d, j) = Echoed(b, j) /\ ColumnOf(d, j) = ColumnOf(b, j)
  BY SameColumns
<1>2. ColumnOf(d, n + 1) = ColumnOf(d, n) + 1
  BY ColumnFacts
<1>3. \A m : m \in Echoed(d, n + 1) => m \in Echoed(b, n) \/ m = n
  <2> SUFFICES ASSUME NEW m, m \in Echoed(d, n + 1) PROVE m \in Echoed(b, n) \/ m = n
    OBVIOUS
  <2>1. m \in Echoed(d, n + 1) <=> m \in 0 .. n /\ d.input[m] # Percent
    BY EchoedIs
  <2>2. m \in Echoed(d, n) <=> m \in 0 .. (n - 1) /\ d.input[m] # Percent
    BY EchoedIs
  <2>3. Echoed(d, n) = Echoed(b, n)
    BY <1>1
  <2> QED
    BY <2>1, <2>2, <2>3
<1>4. \A j \in Echoed(b, n) : j \in 0 .. n /\ d.input[j] = b.input[j]
  BY EchoedIs
<1>5. c.x = ColumnOf(b, n) /\ n \in 0 .. n
  BY DEF Shows
<1>6. e.x = ColumnOf(d, d.i)
  BY <1>1, <1>2, <1>5
<1>7. ASSUME NEW j \in Echoed(d, d.i) PROVE s[ColumnOf(d, j)] = d.input[j]
  <2>1. CASE j = n
    <3>1. ColumnOf(d, j) = c.x
      BY <1>1, <1>5, <2>1
    <3>2. c.x \in 0 .. (Width - 1)
      BY WidthAssumption
    <3> QED
      BY <1>0, <2>1, <3>1, <3>2
  <2>2. CASE j # n
    <3>1. j \in Echoed(b, n)
      BY <1>3, <1>7, <2>2
    <3>2. ColumnOf(b, j) \in Nat /\ ColumnOf(b, j) < c.x
      BY <1>5, <3>1, ColumnGrows
    <3>3. s[ColumnOf(b, j)] = r[ColumnOf(b, j)]
      BY <1>0, <3>2, WidthAssumption
    <3>4. ColumnOf(d, j) = ColumnOf(b, j) /\ d.input[j] = b.input[j]
      BY <1>1, <1>4, <3>1
    <3> QED
      BY <3>1, <3>3, <3>4 DEF Shows
  <2> QED
    BY <2>1, <2>2
<1>8. ASSUME NEW x \in e.x .. (Width - 1) PROVE s[x] = Space
  BY <1>8, <1>0, WidthAssumption DEF Shows
<1> QED
  BY <1>6, <1>7, <1>8 DEF Shows, s

\* Without a % in the line, erasing the last character clears its cell.
LEMMA ShowsErased ==
    ASSUME NEW b, b.i \in Nat \ {0}, Echoed(b, b.i) = 0 .. (b.i - 1),
           NEW d, d.i = b.i - 1, \A m \in 0 .. (b.i - 2) : b.input[m] = d.input[m],
           NEW c, c.x < Width, NEW e, e.x = c.x - 1, NEW r, Shows(b, c, r)
    PROVE  Shows(d, e, Drawn(r, c.x - 1, Space))
<1> DEFINE n == b.i - 1
           s == Drawn(r, c.x - 1, Space)
<1>0. s = [y \in 0 .. (Width - 1) |-> IF y = c.x - 1 THEN Space ELSE r[y]]
  BY DEF Drawn
<1> HIDE DEF s
<1>1. /\ n \in Nat /\ b.i = n + 1 /\ d.i = n
      /\ \A m \in 0 .. (n - 1) : b.input[m] = d.input[m]
  OBVIOUS
<1>2. \A j \in 0 .. n : Echoed(d, j) = Echoed(b, j) /\ ColumnOf(d, j) = ColumnOf(b, j)
  BY <1>1, SameColumns
<1>3. \A j \in 0 .. n : b.input[j] # Percent
  BY <1>1, EchoedIs
<1>4. \A j \in 0 .. (n + 1) : ColumnOf(b, j) = j
  <2> SUFFICES ASSUME NEW j \in 0 .. (n + 1) PROVE ColumnOf(b, j) = j
    OBVIOUS
  <2>1. Echoed(b, j) = 0 .. (j - 1)
    <3> SUFFICES ASSUME NEW m PROVE m \in Echoed(b, j) <=> m \in 0 .. (j - 1)
      BY Zenon
    <3>1. m \in Echoed(b, j) <=> m \in 0 .. (j - 1) /\ b.input[m] # Percent
      BY EchoedIs
    <3>2. m \in 0 .. (j - 1) => m \in 0 .. n
      BY <1>1
    <3> QED
      BY <1>3, <3>1, <3>2
  <2> QED
    BY <1>1, <2>1, ColumnFacts
<1>5. c.x = n + 1
  BY <1>1, <1>4 DEF Shows
<1> HIDE DEF n
<1>6. e.x = ColumnOf(d, d.i)
  BY <1>1, <1>2, <1>4, <1>5
<1>7. ASSUME NEW j \in Echoed(d, d.i) PROVE s[ColumnOf(d, j)] = d.input[j]
  <2>1. j \in 0 .. (n - 1)
    BY <1>1, EchoedIs
  <2>2. ColumnOf(d, j) = j /\ ColumnOf(b, j) = j
    BY <1>1, <1>2, <1>4, <2>1
  <2>3. j \in Echoed(b, b.i) /\ d.input[j] = b.input[j]
    BY <1>1, <2>1
  <2>4. s[j] = r[j]
    BY <1>1, <1>5, <1>0, <2>1, WidthAssumption
  <2> QED
    BY <2>2, <2>3, <2>4 DEF Shows
<1>8. ASSUME NEW x \in e.x .. (Width - 1) PROVE s[x] = Space
  BY <1>1, <1>5, <1>8, <1>0, WidthAssumption DEF Shows
<1> QED
  BY <1>6, <1>7, <1>8 DEF Shows, s

-----------------------------------------------------------------------------
(* The inductive invariant of the screen.                                   *)

EchoInv ==
    /\ TypeOK /\ WellFormed(kb)
    /\ ~ con.esc /\ con.x < Width
    /\ ~ wrapped /\ ~ lost => Shows(kb, con, row)

\* One key, as the lemmas above take it.
LEMMA KeyFacts ==
    ASSUME EchoInv, NEW k \in Scancode, Key(k),
           NEW ch, ch = get_us_qwerty_char_from_scan_code(kb, k)
    PROVE  /\ kb' = Input(kb, k) /\ WellFormed(kb)' /\ kb' \in Keyboard
           /\ con' \in Console /\ ~ con'.esc /\ con'.x < Width
           /\ EchoesKey(kb, con, k, ch, con')
<1>1. kb' = Input(kb, k) /\ con' = HandleKeyboard(kb, con, k).con /\ Room(kb, k)
  BY DEF Key, HandleKeyboard
<1>2. WellFormed(Input(kb, k))
  BY <1>1, InputRefines DEF EchoInv
<1>3. WellFormed(kb)' /\ kb' \in Keyboard
  BY <1>1, <1>2 DEF WellFormed
<1>4. con \in Console /\ ~ con.esc /\ con.x < Width
  BY DEF EchoInv, TypeOK
<1>5. /\ con' \in Console /\ ~ con'.esc /\ con'.x < Width
      /\ EchoesKey(kb, con, k, ch, con')
  BY <1>1, <1>4, HandlerEchoes
<1> QED
  BY <1>1, <1>3, <1>5

\* A blank row is one.
LEMMA BlankFacts ==
    Blank \in [0 .. (Width - 1) -> Char] /\ \A x \in 0 .. (Width - 1) : Blank[x] = Space
<1>1. Blank = [x \in 0 .. (Width - 1) |-> Space]
  BY Zenon DEF Blank, Space
<1> QED
  BY <1>1, SpecialCharacters

\* A key that changes neither the line nor the screen.
LEMMA ShowsSame ==
    ASSUME NEW b, b.i \in Nat, NEW d, d.i = b.i, d.input = b.input,
           NEW c, NEW e, e.x = c.x, NEW r, Shows(b, c, r)
    PROVE  Shows(d, e, r)
<1>1. \A j : Echoed(d, j) = Echoed(b, j)
  BY EchoedIs
<1> QED
  BY <1>1 DEF Shows, ColumnOf

\* The handler keeps the screen in step with the line (keyboard.c:12-63).
LEMMA KeyKeeps ==
    ASSUME EchoInv, NEW k \in Scancode, Key(k)
    PROVE  EchoInv'
<1> DEFINE ch == get_us_qwerty_char_from_scan_code(kb, k)
           wraps == k \in DOMAIN Keycap /\ Echo(kb, k) # << >> /\ con'.x = 0
           row1 == IF k = "Enter" \/ wraps THEN Blank ELSE Paint(row, con'.drawn)
           lost1 == k # "Enter" /\ (lost \/ (k = "Backspace" /\ Echoed(kb, kb.i) # 0 .. (kb.i - 1)))
           wrapped1 == k # "Enter" /\ (wrapped \/ wraps)
<1>1. row' = row1 /\ wrapped' = wrapped1 /\ lost' = lost1 /\ Room(kb, k)
  BY DEF Key, HandleKeyboard
<1>2. /\ kb' = Input(kb, k) /\ WellFormed(kb)' /\ kb' \in Keyboard
      /\ con' \in Console /\ ~ con'.esc /\ con'.x < Width
      /\ EchoesKey(kb, con, k, ch, con')
  BY KeyFacts
<1>3. /\ kb \in Keyboard /\ con \in Console /\ row \in [0 .. (Width - 1) -> Char]
      /\ kb.i \in Nat /\ con.x \in Nat /\ con.x < Width
      /\ kb.input \in [-1 .. (InputSize - 1) -> Char] /\ kb.i \in 0 .. InputSize
  BY ConsoleParts, InputSizeAssumption DEF EchoInv, TypeOK, Keyboard
<1>4. ~ wrapped /\ ~ lost => Shows(kb, con, row)
  BY DEF EchoInv
<1>5. wrapped' \in BOOLEAN /\ lost' \in BOOLEAN
  BY <1>1, Zenon
<1>6. ~ wrapped' /\ ~ lost' => k = "Enter" \/ (~ wrapped /\ ~ lost /\ ~ wraps)
  BY <1>1, Zenon
<1> HIDE DEF ch
<1>7. ASSUME NEW r, row' = r, r \in [0 .. (Width - 1) -> Char],
             ~ wrapped' /\ ~ lost' => Shows(kb', con', r)
      PROVE  EchoInv'
  BY <1>2, <1>5, <1>7 DEF EchoInv, TypeOK
<1>8. CASE k = "Enter"
  <2>1. kb'.i = 0
    BY <1>2, <1>3, <1>8 DEF Input, ClearLine, Keyboard
  <2>2. con'.x = 0
    BY <1>2, <1>8 DEF EchoesKey
  <2>3. row' = Blank
    BY <1>1, <1>8
  <2> QED
    BY <1>7, <2>1, <2>2, <2>3, BlankFacts, ShowsNothing
<1>9. CASE k = "Backspace" /\ con.x = 0
  <2>1. con'.x = 0 /\ con'.drawn = << >>
    BY <1>2, <1>9 DEF EchoesKey
  <2>2. k \notin DOMAIN Keycap
    BY <1>9 DEF Keycap
  <2>3. row' = row
    BY <1>1, <1>3, <1>9, <2>1, <2>2, PaintFacts
  <2>4. ASSUME ~ wrapped', ~ lost' PROVE Shows(kb', con', row)
    <3>1. Shows(kb, con, row) /\ Echoed(kb, kb.i) = 0 .. (kb.i - 1)
      BY <1>1, <1>4, <1>6, <1>9, <2>4
    <3>2. kb.i = 0
      BY <1>3, <1>9, <3>1, ColumnFacts DEF Shows
    <3>3. kb'.i = 0
      <4>1. kb' = EraseChar(kb)
        BY <1>2, <1>9 DEF Input
      <4> QED
        BY <1>3, <3>2, <4>1 DEF EraseChar, Keyboard
    <3>4. \A x \in 0 .. (Width - 1) : row[x] = Space
      BY <1>9, <3>1 DEF Shows
    <3> QED
      BY <2>1, <3>3, <3>4, ShowsNothing
  <2> QED
    BY <1>3, <1>7, <2>3, <2>4
<1>10. CASE k = "Backspace" /\ con.x # 0
  <2> DEFINE s == Drawn(row, con.x - 1, Space)
  <2>1. con'.x = con.x - 1 /\ con'.drawn = << <<con.x - 1, Space>> >>
    BY <1>2, <1>10 DEF EchoesKey
  <2>2. k \notin DOMAIN Keycap
    BY <1>10 DEF Keycap
  <2>3. row' = Paint(row, << <<con.x - 1, Space>> >>)
    BY <1>1, <1>10, <2>1, <2>2
  <2>4. row' = s /\ s \in [0 .. (Width - 1) -> Char]
    BY <1>3, <2>3, PaintFacts, SpecialCharacters
  <2>5. ASSUME ~ wrapped', ~ lost' PROVE Shows(kb', con', s)
    <3>1. Shows(kb, con, row) /\ Echoed(kb, kb.i) = 0 .. (kb.i - 1)
      BY <1>1, <1>4, <1>6, <1>10, <2>5
    <3>2. kb.i # 0
      BY <1>3, <1>10, <3>1, ColumnFacts DEF Shows
    <3>3. kb'.i = kb.i - 1 /\ kb'.input = [kb.input EXCEPT ![kb.i - 1] = "NUL"]
      <4>1. kb' = EraseChar(kb)
        BY <1>2, <1>10 DEF Input
      <4> QED
        BY <1>3, <3>2, <4>1 DEF EraseChar, Keyboard
    <3>4. \A m \in 0 .. (kb.i - 2) : kb.input[m] = kb'.input[m]
      BY <1>3, <3>3
    <3>5. kb.i \in Nat \ {0} /\ kb'.i = kb.i - 1
      BY <1>3, <3>2, <3>3
    <3> QED
      BY <1>3, <2>1, <3>1, <3>4, <3>5, ShowsErased
  <2> HIDE DEF s
  <2> QED
    BY <1>7, <2>4, <2>5
<1>11. CASE k \notin {"Enter", "Backspace"} /\ ch = "NUL"
  <2>1. Echo(kb, k) = << >> /\ con'.x = con.x /\ con'.drawn = << >>
    BY <1>2, <1>11 DEF EchoesKey
  <2>2. row' = row
    BY <1>1, <1>3, <1>11, <2>1, PaintFacts
  <2>3. kb'.i = kb.i /\ kb'.input = kb.input
    BY <1>2, <1>3, <1>11 DEF Input, Shift, Keyboard, ch
  <2>4. ~ wrapped' /\ ~ lost' => Shows(kb, con, row)
    BY <1>4, <1>6, <1>11
  <2> QED
    BY <1>3, <1>7, <2>1, <2>2, <2>3, <2>4, ShowsSame
<1>12. CASE k \notin {"Enter", "Backspace"} /\ ch # "NUL"
  <2>1. ch \in Char /\ k \in DOMAIN Keycap /\ kb.i < InputSize
    BY <1>1, <1>12, CharacterOfKey DEF Room, ch
  <2>2. kb'.i = kb.i + 1 /\ kb'.input = [kb.input EXCEPT ![kb.i] = ch]
    BY <1>2, <1>3, <1>12 DEF Input, AddChar, Keyboard, ch
  <2>3. /\ \A m \in 0 .. (kb.i - 1) : kb.input[m] = kb'.input[m]
        /\ kb'.input[kb.i] = ch
    BY <1>3, <2>1, <2>2, InputSizeAssumption
  <2>4. CASE ch = Percent
    <3>1. Echo(kb, k) = << >> /\ con'.x = con.x /\ con'.drawn = << >>
      BY <1>2, <1>12, <2>4 DEF EchoesKey
    <3>2. row' = row
      BY <1>1, <1>3, <1>12, <3>1, PaintFacts
    <3>3. ~ wrapped' /\ ~ lost' => Shows(kb, con, row)
      BY <1>4, <1>6, <1>12
    <3>4. ~ wrapped' /\ ~ lost' => Shows(kb', con', row)
      BY <1>3, <2>2, <2>3, <2>4, <3>1, <3>3, ShowsPercent
    <3> QED
      BY <1>3, <1>7, <3>2, <3>4
  <2>5. CASE ch # Percent
    <3> DEFINE s == Drawn(row, con.x, ch)
    <3>1. /\ Echo(kb, k) # << >> /\ con'.x \in {0, con.x + 1}
          /\ con'.drawn = << <<con.x, ch>> >>
      BY <1>2, <1>12, <2>5 DEF EchoesKey
    <3>2. CASE con'.x = 0
      <4>1. row' = Blank /\ wrapped'
        BY <1>1, <1>12, <2>1, <3>1, <3>2, Zenon
      <4> QED
        BY <1>7, <4>1, BlankFacts
    <3>3. CASE con'.x # 0
      <4>1. row' = Paint(row, << <<con.x, ch>> >>) /\ con'.x = con.x + 1
        BY <1>1, <1>12, <3>1, <3>3
      <4>2. row' = s /\ s \in [0 .. (Width - 1) -> Char]
        BY <1>3, <2>1, <4>1, PaintFacts
      <4>3. ~ wrapped' /\ ~ lost' => Shows(kb, con, row)
        BY <1>4, <1>6, <1>12
      <4>4. ~ wrapped' /\ ~ lost' => Shows(kb', con', s)
        BY <1>3, <2>2, <2>3, <2>5, <4>1, <4>3, ShowsCharacter
      <4> HIDE DEF s
      <4> QED
        BY <1>7, <4>2, <4>4
    <3> QED
      BY <3>2, <3>3
  <2> QED
    BY <2>4, <2>5
<1> QED
  BY <1>8, <1>9, <1>10, <1>11, <1>12

LEMMA EchoInvInit == Init => EchoInv
<1> SUFFICES ASSUME Init PROVE EchoInv
  OBVIOUS
<1>1. /\ kb = KeyboardAtBoot /\ con = FBCON_Reset(ConsoleAtBoot) /\ row = Blank
      /\ wrapped = FALSE /\ lost = FALSE
  BY DEF Init
<1>2. con \in Console /\ con.x = 0 /\ ~ con.esc
  BY <1>1, ConsoleStarts, ResetFacts
<1>3. WellFormed(kb) /\ kb \in Keyboard /\ kb.i = 0
  BY <1>1, KeyboardStarts DEF WellFormed, KeyboardAtBoot
<1>4. wrapped \in BOOLEAN /\ lost \in BOOLEAN
  BY <1>1, Zenon
<1>5. Shows(kb, con, row)
  BY <1>1, <1>2, <1>3, BlankFacts, ShowsNothing
<1> QED
  BY <1>1, <1>2, <1>3, <1>4, <1>5, BlankFacts, WidthAssumption DEF EchoInv, TypeOK

LEMMA EchoInvNext == EchoInv /\ [Next]_vars => EchoInv'
<1> SUFFICES ASSUME EchoInv, [Next]_vars PROVE EchoInv'
  OBVIOUS
<1>1. CASE Next
  BY <1>1, KeyKeeps DEF Next
<1>2. CASE UNCHANGED vars
  BY <1>2 DEF vars, EchoInv, TypeOK
<1> QED
  BY <1>1, <1>2

\* keyboard.c's line, the console and the row keep their types: no character
\* is stored outside the array, and none drawn outside the row
\* (keyboard.c:33-57, fbcon.c:37-90).
THEOREM TypeCorrect == Spec => []TypeOK
<1>1. EchoInv => TypeOK
  BY DEF EchoInv
<1> QED
  BY <1>1, EchoInvInit, EchoInvNext, PTL DEF Spec

\* Until a line reaches the right edge, the screen shows what it echoed, for
\* every width of the row and every length of the line (keyboard.c:33-57,
\* fbcon.c:37-46).
THEOREM ScreenShowsTheLine == Spec => []EchoMatches
<1>1. EchoInv => EchoMatches
  <2>1. Shows(kb, con, row) =>
          /\ con.x = ColumnOf(kb, kb.i)
          /\ \A j \in Echoed(kb, kb.i) : row[ColumnOf(kb, j)] = kb.input[j]
          /\ \A x \in con.x .. (Width - 1) : row[x] = " "
    BY Zenon DEF Shows, Space
  <2> QED
    BY <2>1, Zenon DEF EchoInv, EchoMatches
<1> QED
  BY <1>1, EchoInvInit, EchoInvNext, PTL DEF Spec
=============================================================================
