---------------------------- MODULE ConsoleProofs ----------------------------
(***************************************************************************)
(* For every program of calls in the order of init(), every width, every   *)
(* size of the escape buffer and any number of keys: the console keeps its *)
(* type under interrupts between any two accesses, and as long as none     *)
(* arrives inside FBCON_Write every glyph is drawn on the row. A log line  *)
(* that no scan code interrupts heals the console, whatever interrupts     *)
(* and earlier output had made of the escape parser.                       *)
(***************************************************************************)
EXTENDS Console, KeyboardProofs, WellFoundedInduction

-----------------------------------------------------------------------------
(* The inductive invariant.                                                 *)

EndsLine(t) == Len(t) >= 2 /\ t[Len(t) - 1] = "CR" /\ t[Len(t)] = "LF"

\* Between two characters nothing is loaded; inside FBCON_Write there is a
\* character at hand, and room for the one that is being appended.
Places ==
    /\ pc \in {"return", "putchar"} => reg = NoReg
    /\ pc \in Inside => writer = "FBCON_Write" /\ text # << >>
    /\ pc = "storeLen" => reg.len < BufSize - 1
    /\ pc # "return" => call <= Len(Program) /\ Program[call].op \in {"log", "printf"}

\* Where the framebuffer takes over the cursor is homed: by FBCON_Init, or by
\* the end of a log line on the serial port.
Writers ==
    /\ iflag => writer = "FBCON_Write"
    /\ call = 1 => writer = "none"
    /\ \A k \in 1 .. (call - 1) : Sets(k, "FBCON_Write") => writer = "FBCON_Write"
    /\ writer # "FBCON_Write" =>
        /\ con.drawn = << >>
        /\ pc = "return" /\ call > 1 /\ Program[call - 1].op \in {"FBCON_Init", "log"}
             => con.x = 0
        /\ pc = "putchar" /\ Program[call].op = "log"
             => EndsLine(text) \/ (text \in {<< >>, <<"LF">>} /\ con.x = 0)

\* The cursor is off the row only between its increment and the test of it.
InRow ==
    ~ raced /\ writer = "FBCON_Write" =>
        /\ \A j \in DOMAIN con.drawn : con.drawn[j][1] < Width
        /\ reg.x < Width
        /\ pc = "edge" => con.x <= Width
        /\ pc \notin {"edge", "wrap"} => con.x < Width

ConsoleInv == TypeOK /\ WellFormed(kb) /\ Places /\ Writers /\ InRow

-----------------------------------------------------------------------------
(* Texts.                                                                   *)

\* A text with more behind it is one, and ends as that does.
LEMMA TextsJoin ==
    ASSUME NEW s \in Seq(Char), NEW t \in Seq(Char)
    PROVE  s \o t \in Seq(Char) /\ (EndsLine(t) => EndsLine(s \o t))
<1>1. s \o t \in Seq(Char) /\ Len(s \o t) = Len(s) + Len(t)
  OBVIOUS
<1>2. \A j \in 1 .. Len(t) : (s \o t)[Len(s) + j] = t[j]
  OBVIOUS
<1>3. ASSUME EndsLine(t) PROVE EndsLine(s \o t)
  <2> DEFINE n == Len(t)
             m == Len(s)
             u == s \o t
  <2>1. n \in Nat /\ m \in Nat /\ n >= 2 /\ Len(u) = m + n
    BY <1>1, <1>3 DEF EndsLine
  <2>2. u[m + (n - 1)] = t[n - 1] /\ u[m + n] = t[n]
    BY <1>2, <2>1
  <2>3. t[n - 1] = "CR" /\ t[n] = "LF"
    BY <1>3 DEF EndsLine
  <2> HIDE DEF n, m, u
  <2>4. m + (n - 1) = m + n - 1 /\ m + n >= 2
    BY <2>1
  <2>5. u[Len(u) - 1] = "CR" /\ u[Len(u)] = "LF" /\ Len(u) >= 2
    BY <2>1, <2>2, <2>3, <2>4
  <2> QED
    BY <2>5 DEF EndsLine, u
<1> QED
  BY <1>1, <1>3

\* The characters of a log line's frame.
LEMMA FrameCharacters ==
    {"NUL", "LF", "CR", "ESC", " ", "!", "0", "1", "3", "6", "7", ";", "[", "]", "m"}
        \subseteq Char
BY DEF Char, Ascii

\* A text of one character, or of two or three.
LEMMA ShortTexts ==
    ASSUME NEW a \in Char, NEW b \in Char, NEW c \in Char
    PROVE  << a >> \in Seq(Char) /\ << a, b >> \in Seq(Char) /\ << a, b, c >> \in Seq(Char)
OBVIOUS

\* A text of four.
LEMMA TextOfFour ==
    ASSUME NEW a \in Char, NEW b \in Char, NEW c \in Char, NEW d \in Char
    PROVE  << a, b, c, d >> \in Seq(Char)
OBVIOUS

\* An attribute sequence of a text.
LEMMA SgrIsText ==
    ASSUME NEW s \in Seq(Char)
    PROVE  Sgr(s) \in Seq(Char)
<1> DEFINE open == <<"ESC", "[">>
           close == <<"m">>
<1>1. open \in Seq(Char) /\ close \in Seq(Char)
  BY FrameCharacters, ShortTexts, Zenon
<1>2. Sgr(s) = (open \o s) \o close
  BY Zenon DEF Sgr
<1> HIDE DEF open, close
<1> QED
  BY <1>1, <1>2, TextsJoin

\* Every level has a text of its own (log.c:15-22).
LEMMA LevelIsText == \A level \in DOMAIN LevelColor : LevelColor[level] \in Seq(Char)
<1> DEFINE zero   == << "0" >>
           grey   == << "3", "7" >>
           yellow == << "3", "3" >>
           mixed  == << "0", ";", "3", "1" >>
           red    == << "3", "1" >>
           bang   == << " ", "!", " " >>
<1>1. /\ zero \in Seq(Char) /\ grey \in Seq(Char) /\ yellow \in Seq(Char)
      /\ mixed \in Seq(Char) /\ red \in Seq(Char) /\ bang \in Seq(Char)
  BY FrameCharacters, ShortTexts, TextOfFour, Zenon
<1>2. LevelColor = [verbose |-> Sgr(zero), debug |-> Sgr(zero), info |-> Sgr(grey),
                    warn |-> Sgr(yellow), error |-> Sgr(mixed), fatal |-> Sgr(red) \o bang]
  BY Zenon DEF LevelColor
<1> HIDE DEF zero, grey, yellow, mixed, red, bang
<1>3. /\ Sgr(zero) \in Seq(Char) /\ Sgr(grey) \in Seq(Char) /\ Sgr(yellow) \in Seq(Char)
      /\ Sgr(mixed) \in Seq(Char) /\ Sgr(red) \o bang \in Seq(Char)
  BY <1>1, SgrIsText, TextsJoin
<1> DEFINE a == Sgr(zero)
           b == Sgr(grey)
           c == Sgr(yellow)
           d == Sgr(mixed)
           e == Sgr(red) \o bang
<1> HIDE DEF a, b, c, d, e
<1>4. LevelColor = [verbose |-> a, debug |-> a, info |-> b, warn |-> c, error |-> d, fatal |-> e]
  BY <1>2 DEF a, b, c, d, e
<1>5. /\ a \in Seq(Char) /\ b \in Seq(Char) /\ c \in Seq(Char) /\ d \in Seq(Char)
      /\ e \in Seq(Char)
  BY <1>3 DEF a, b, c, d, e
<1> QED
  BY <1>4, <1>5

\* A log line is a text that ends with a carriage return and a line feed
\* (log.c:23-45).
LEMMA LogIsText ==
    ASSUME NEW c, NEW module \in Seq(Char), NEW level \in DOMAIN LevelColor,
           NEW msg \in Seq(Char)
    PROVE  LogText(c, module, level, msg) \in Seq(Char)
           /\ EndsLine(LogText(c, module, level, msg))
<1> DEFINE one    == << "1" >>
           yellow == << "3", "3" >>
           cyan   == << "3", "6" >>
           zero   == << "0" >>
           open   == << "[" >>
           shut   == << "]" >>
           space  == << " " >>
           bang   == << " ", "!" >>
           crlf   == << "CR", "LF" >>
           none   == << >>
           tail   == IF level = "fatal" THEN bang ELSE none
           first  == IF c.x # 0 THEN crlf ELSE none
<1>1. /\ one \in Seq(Char) /\ yellow \in Seq(Char) /\ cyan \in Seq(Char)
      /\ zero \in Seq(Char) /\ open \in Seq(Char) /\ shut \in Seq(Char)
      /\ space \in Seq(Char) /\ bang \in Seq(Char) /\ crlf \in Seq(Char)
  BY FrameCharacters, ShortTexts, Zenon
<1>2. none \in Seq(Char)
  OBVIOUS
<1>3. tail \in Seq(Char) /\ first \in Seq(Char)
  BY <1>1, <1>2, Zenon
<1>4. EndsLine(crlf)
  BY DEF EndsLine
<1>5. LogText(c, module, level, msg) =
        first \o (((((((((((((Sgr(one) \o Sgr(yellow)) \o open) \o Sgr(cyan)) \o module)
          \o Sgr(one)) \o Sgr(yellow)) \o shut) \o LevelColor[level]) \o space) \o msg)
          \o tail) \o Sgr(zero)) \o crlf)
  BY Zenon DEF LogText, LogLine
<1> HIDE DEF one, yellow, cyan, zero, open, shut, space, bang, crlf, none, tail, first
<1>6. /\ Sgr(one) \in Seq(Char) /\ Sgr(yellow) \in Seq(Char) /\ Sgr(cyan) \in Seq(Char)
      /\ Sgr(zero) \in Seq(Char) /\ LevelColor[level] \in Seq(Char)
  BY <1>1, SgrIsText, LevelIsText
<1> DEFINE head == ((((((((((Sgr(one) \o Sgr(yellow)) \o open) \o Sgr(cyan)) \o module)
                      \o Sgr(one)) \o Sgr(yellow)) \o shut) \o LevelColor[level])
                      \o space) \o msg)
           body == (head \o tail) \o Sgr(zero)
<1>7. \A s, t \in Seq(Char) : s \o t \in Seq(Char)
  BY TextsJoin
<1>8. head \in Seq(Char)
  BY <1>1, <1>6, <1>7, Zenon
<1> HIDE DEF head
<1>9. body \in Seq(Char)
  BY <1>3, <1>6, <1>7, <1>8, Zenon
<1> HIDE DEF body
<1>10. body \o crlf \in Seq(Char) /\ EndsLine(body \o crlf)
  BY <1>1, <1>4, <1>9, TextsJoin
<1>11. first \o (body \o crlf) \in Seq(Char) /\ EndsLine(first \o (body \o crlf))
  BY <1>3, <1>10, TextsJoin
<1> QED
  BY <1>5, <1>11, Zenon DEF head, body

\* What init() prints consists of the console's characters.
LEMMA MessagesAreTexts == Message \subseteq Seq(Char) /\ Line \subseteq Seq(Char)
BY DEF Message, Line

-----------------------------------------------------------------------------
(* The scan of the escape buffer.                                           *)

\* A set of naturals that is not empty has a least member.
LEMMA LeastMember ==
    ASSUME NEW T \in SUBSET Nat, T # {}
    PROVE  Min(T) \in T /\ \A y \in T : Min(T) <= y
<1>1. PICK m \in T : \A y \in T : ~ (<<y, m>> \in OpToRel(<, Nat))
  BY NatLessThanWellFounded, WFMin
<1>2. \A y \in T : ~ (y < m)
  <2>1. ASSUME NEW y \in T, y < m PROVE FALSE
    <3>1. y \in Nat /\ m \in Nat
      OBVIOUS
    <3> QED
      BY <1>1, <2>1, <3>1, Zenon DEF OpToRel
  <2> QED
    BY <2>1
<1>3. \A y \in T : m <= y
  BY <1>2
<1> QED
  BY <1>3, Zenon DEF Min

\* strstr with a needle of one character stays inside the buffer
\* (ansi.c:19, string.c:50-69).
LEMMA FindBounds ==
    ASSUME NEW buf, NEW j \in Nat, NEW c
    PROVE  Find(buf, j, c) \in 0 .. BufSize
<1> DEFINE Hits == {k \in j .. (BufSize - 1) :
                      buf[k] = c /\ \A m \in j .. k : buf[m] # "NUL"}
<1>1. Find(buf, j, c) = IF Hits = {} THEN BufSize ELSE Min(Hits)
  BY DEF Find
<1>2. Hits \subseteq 0 .. (BufSize - 1) /\ Hits \subseteq Nat
  BY BufSizeAssumption
<1> HIDE DEF Hits
<1>3. CASE Hits = {}
  BY <1>1, <1>3, BufSizeAssumption
<1>4. CASE Hits # {}
  <2>1. Min(Hits) \in 0 .. (BufSize - 1)
    BY <1>2, <1>4, LeastMember, Zenon
  <2>2. Find(buf, j, c) = Min(Hits)
    BY <1>1, <1>4, Zenon
  <2> QED
    BY <2>1, <2>2, BufSizeAssumption
<1> QED
  BY <1>3, <1>4

LEMMA CodeBounds ==
    ASSUME NEW buf
    PROVE  CodeStart(buf) \in 0 .. (BufSize + 1) /\ CodeEnd(buf) \in 0 .. BufSize
<1> DEFINE open == "["
           close == "m"
<1>1. /\ CodeStart(buf) = Find(buf, 0, open) + 1
      /\ CodeEnd(buf) = IF CodeStart(buf) > BufSize THEN BufSize
                        ELSE Find(buf, CodeStart(buf), close)
  BY Zenon DEF CodeStart, CodeEnd
<1> HIDE DEF open, close
<1>2. CodeStart(buf) \in 0 .. (BufSize + 1) /\ CodeStart(buf) \in Nat
  BY <1>1, FindBounds, BufSizeAssumption
<1>3. Find(buf, CodeStart(buf), close) \in 0 .. BufSize
  BY <1>2, FindBounds, Zenon
<1>4. CodeEnd(buf) \in 0 .. BufSize
  BY <1>1, <1>3, BufSizeAssumption
<1> QED
  BY <1>2, <1>4

-----------------------------------------------------------------------------
(* Steps.                                                                   *)

\* What is left of a text after its first character.
LEMMA TailFacts ==
    ASSUME NEW t \in Seq(Char), t # << >>
    PROVE  /\ Tail(t) \in Seq(Char) /\ Head(t) \in Char
           /\ EndsLine(t) => \/ EndsLine(Tail(t))
                             \/ Head(t) = "CR" /\ Tail(t) = <<"LF">>
           /\ t = <<"LF">> => Head(t) = "LF" /\ Tail(t) = << >>
<1>1. Tail(t) \in Seq(Char) /\ Head(t) \in Char
  OBVIOUS
<1>2. t = <<"LF">> => Head(t) = "LF" /\ Tail(t) = << >>
  OBVIOUS
<1>3. /\ Len(t) \in Nat /\ Len(t) # 0 /\ Head(t) = t[1] /\ Len(Tail(t)) = Len(t) - 1
      /\ \A j \in 1 .. (Len(t) - 1) : Tail(t)[j] = t[j + 1]
  OBVIOUS
<1>4. ASSUME EndsLine(t), Len(t) = 2 PROVE Head(t) = "CR" /\ Tail(t) = <<"LF">>
  <2>1. t[1] = "CR" /\ t[2] = "LF"
    BY <1>4 DEF EndsLine
  <2>2. Len(Tail(t)) = 1 /\ 1 \in 1 .. (Len(t) - 1) /\ 1 + 1 = 2
    BY <1>4, <1>3
  <2>3. \A u \in Seq(Char) : Len(u) = 1 => u = << u[1] >>
    OBVIOUS
  <2>4. Tail(t)[1] = t[2]
    BY <1>3, <2>2, Zenon
  <2>5. Tail(t) = << Tail(t)[1] >>
    BY <1>1, <2>2, <2>3
  <2> QED
    BY <1>3, <2>1, <2>4, <2>5
<1>5. ASSUME EndsLine(t), Len(t) # 2 PROVE EndsLine(Tail(t))
  <2> DEFINE n == Len(t)
             u == Tail(t)
  <2>1. /\ n \in Nat /\ n > 2 /\ Len(u) = n - 1
        /\ \A j \in 1 .. (n - 1) : u[j] = t[j + 1]
        /\ t[n - 1] = "CR" /\ t[n] = "LF"
    BY <1>5, <1>3 DEF EndsLine
  <2> HIDE DEF n, u
  <2>2. u[n - 2] = t[n - 2 + 1] /\ u[n - 1] = t[n - 1 + 1]
    BY <2>1
  <2>3. n - 2 + 1 = n - 1 /\ n - 1 + 1 = n /\ Len(u) - 1 = n - 2 /\ Len(u) >= 2
    BY <2>1
  <2>4. u[Len(u) - 1] = "CR" /\ u[Len(u)] = "LF"
    BY <2>1, <2>2, <2>3
  <2> QED
    BY <2>3, <2>4 DEF EndsLine, u
<1> QED
  BY <1>1, <1>2, <1>4, <1>5

\* With the registers empty, and a cursor that is inside the row.
LEMMA NoRegFacts == NoReg \in Registers /\ NoReg.x = 0
<1> DEFINE n == 0
<1>1. NoReg = [x |-> n, len |-> n, first |-> n, last |-> n, ret |-> FALSE]
  BY Zenon DEF NoReg
<1>2. /\ n \in 0 .. (Word16 - 1) /\ n \in 0 .. (BufSize - 1)
      /\ n \in 0 .. (BufSize + 1) /\ n \in 0 .. BufSize
  BY Wraps, BufSizeAssumption DEF Column
<1> HIDE DEF n
<1>3. NoReg \in Registers /\ NoReg.x = n
  BY <1>1, <1>2 DEF Registers
<1> QED
  BY <1>3 DEF n

\* A step between two places inside FBCON_Write keeps the invariant when what
\* it stores and loads does.
LEMMA StepKeeps ==
    ASSUME ConsoleInv, NEW from, NEW to \in Inside, NEW c \in Console,
           NEW r \in Registers,
           writer = "FBCON_Write", text # << >>, pc # "return",
           to = "storeLen" => r.len < BufSize - 1,
           ~ raced => /\ \A j \in DOMAIN c.drawn : c.drawn[j][1] < Width
                      /\ r.x < Width
                      /\ to = "edge" => c.x <= Width
                      /\ to \notin {"edge", "wrap"} => c.x < Width,
           Step(from, to, c, r)
    PROVE  ConsoleInv'
<1>1. /\ pc' = to /\ con' = c /\ reg' = r
      /\ UNCHANGED <<text, clean, writer, iflag, call, kb, keys, raced>>
  BY DEF Step, vars_setup, vars_irq
<1>2. to # "return" /\ to # "putchar"
  BY DEF Inside
<1>3. TypeOK'
  BY <1>1 DEF ConsoleInv, TypeOK
<1>4. Places'
  BY <1>1, <1>2 DEF ConsoleInv, Places
<1>5. Writers'
  BY <1>1 DEF ConsoleInv, Writers
<1>6. InRow'
  BY <1>1 DEF ConsoleInv, InRow
<1>7. WellFormed(kb)'
  BY <1>1 DEF ConsoleInv
<1> QED
  BY <1>3, <1>4, <1>5, <1>6, <1>7 DEF ConsoleInv

\* The last step for a character keeps the invariant when it leaves everything
\* inside the row.
LEMMA DoneKeeps ==
    ASSUME ConsoleInv, NEW from \in Inside, NEW c \in Console,
           ~ raced => OnRow(c),
           Done(from, c)
    PROVE  ConsoleInv'
<1>1. /\ pc = from /\ pc' = "putchar" /\ con' = c /\ reg' = NoReg /\ text' = Tail(text)
      /\ UNCHANGED <<clean, writer, iflag, call, kb, keys, raced>>
  BY DEF Done, vars_setup, vars_irq
<1>2. writer = "FBCON_Write" /\ text # << >> /\ pc # "return"
  BY <1>1 DEF ConsoleInv, Places, Inside
<1>3. Tail(text) \in Seq(Char)
  BY <1>2, TailFacts DEF ConsoleInv, TypeOK
<1>4. TypeOK'
  BY <1>1, <1>3, NoRegFacts DEF ConsoleInv, TypeOK
<1>5. Places'
  BY <1>1, <1>2 DEF ConsoleInv, Places, Inside
<1>6. Writers'
  BY <1>1, <1>2 DEF ConsoleInv, Writers
<1>7. InRow'
  BY <1>1, NoRegFacts, WidthAssumption DEF InRow, OnRow
<1>8. WellFormed(kb)'
  BY <1>1 DEF ConsoleInv
<1> QED
  BY <1>4, <1>5, <1>6, <1>7, <1>8 DEF ConsoleInv

\* What the invariant says inside FBCON_Write.
LEMMA InsideFacts ==
    ASSUME ConsoleInv, pc \in Inside
    PROVE  /\ writer = "FBCON_Write" /\ text # << >> /\ pc # "return" /\ Ch \in Char
           /\ con \in Console /\ reg \in Registers
           /\ ~ raced => /\ \A j \in DOMAIN con.drawn : con.drawn[j][1] < Width
                         /\ reg.x < Width
                         /\ pc = "edge" => con.x <= Width
                         /\ pc \notin {"edge", "wrap"} => con.x < Width
<1>1. writer = "FBCON_Write" /\ text # << >> /\ pc # "return"
  BY DEF ConsoleInv, Places, Inside
<1>2. Ch \in Char
  BY <1>1, TailFacts DEF ConsoleInv, TypeOK, Ch
<1> QED
  BY <1>1, <1>2 DEF ConsoleInv, TypeOK, InRow

\* A step inside the escape parser: neither the cursor nor the screen moves.
LEMMA QuietKeeps ==
    ASSUME ConsoleInv, NEW from \in Inside \ {"edge", "wrap"},
           NEW to \in Inside \ {"edge", "wrap"},
           NEW c \in Console, c.x = con.x, c.drawn = con.drawn,
           NEW r \in Registers, r.x = reg.x,
           to = "storeLen" => r.len < BufSize - 1,
           Step(from, to, c, r)
    PROVE  ConsoleInv'
<1>1. pc = from /\ pc \in Inside /\ pc \notin {"edge", "wrap"} /\ to \notin {"edge", "wrap"}
  BY DEF Step
<1>2. /\ writer = "FBCON_Write" /\ text # << >> /\ pc # "return"
      /\ ~ raced => /\ \A j \in DOMAIN con.drawn : con.drawn[j][1] < Width
                    /\ reg.x < Width /\ con.x < Width
  BY <1>1, InsideFacts
<1>3. ~ raced => /\ \A j \in DOMAIN c.drawn : c.drawn[j][1] < Width
                 /\ r.x < Width /\ c.x < Width
  BY <1>2
<1> QED
  BY <1>1, <1>2, <1>3, StepKeeps

\* The loads and stores of the escape parser (fbcon.c:26-31, ansi.c:9-127).
LEMMA ParserKeeps ==
    ASSUME ConsoleInv,
           \/ LoadEsc \/ LoadLen \/ StoreLen \/ StoreCh \/ LoadEnd \/ StoreNul
           \/ Scan \/ SetDone \/ Apply \/ Test \/ ClearDone \/ ClearLen
    PROVE  ConsoleInv'
<1> DEFINE Quietly(from, to, c, r) ==
             /\ from \in Inside \ {"edge", "wrap"} /\ to \in Inside \ {"edge", "wrap"}
             /\ c \in Console /\ c.x = con.x /\ c.drawn = con.drawn
             /\ r \in Registers /\ r.x = reg.x
             /\ to = "storeLen" => r.len < BufSize - 1
             /\ Step(from, to, c, r)
<1> SUFFICES \E from, to, c, r : Quietly(from, to, c, r)
  BY QuietKeeps
<1>1. pc \in Inside
  BY DEF LoadEsc, LoadLen, StoreLen, StoreCh, LoadEnd, StoreNul, Scan, SetDone, Apply,
         Test, ClearDone, ClearLen, Step, Inside
<1>2. con \in Console /\ reg \in Registers /\ Ch \in Char
  BY <1>1, InsideFacts
<1>3. /\ con.len \in 0 .. (BufSize - 1) /\ con.buf \in [0 .. (BufSize - 1) -> Char]
      /\ con.done \in BOOLEAN /\ reg.len \in 0 .. (BufSize - 1)
  BY <1>2, ConsoleParts DEF Registers
<1>4. CASE LoadEsc
  <2>1. Quietly("enter", IF con.esc THEN "loadLen" ELSE "plain", con, reg)
    BY <1>2, <1>4 DEF LoadEsc, Inside
  <2> QED
    BY <2>1
<1>5. CASE LoadLen
  <2>1. /\ [reg EXCEPT !.len = con.len] \in Registers
        /\ [reg EXCEPT !.len = con.len].x = reg.x
        /\ [reg EXCEPT !.len = con.len].len = con.len
    BY <1>2, <1>3 DEF Registers
  <2>2. con.len < BufSize - 1
    BY <1>3, <1>5, BufSizeAssumption DEF LoadLen, Fits
  <2>3. Quietly("loadLen", "storeLen", con, [reg EXCEPT !.len = con.len])
    BY <1>2, <1>5, <2>1, <2>2 DEF LoadLen, Inside
  <2> QED
    BY <2>3
<1>6. CASE StoreLen
  <2>1. reg.len + 1 \in 0 .. (BufSize - 1)
    BY <1>3, <1>6, BufSizeAssumption DEF StoreLen, Step, ConsoleInv, Places
  <2>2. /\ [con EXCEPT !.len = reg.len + 1] \in Console
        /\ [con EXCEPT !.len = reg.len + 1].x = con.x
        /\ [con EXCEPT !.len = reg.len + 1].drawn = con.drawn
    BY <1>2, <2>1 DEF Console
  <2>3. Quietly("storeLen", "storeCh", [con EXCEPT !.len = reg.len + 1], reg)
    BY <1>2, <1>6, <2>2 DEF StoreLen, Inside
  <2> QED
    BY <2>3
<1>7. CASE StoreCh
  <2>1. /\ [con EXCEPT !.buf[reg.len] = Ch] \in Console
        /\ [con EXCEPT !.buf[reg.len] = Ch].x = con.x
        /\ [con EXCEPT !.buf[reg.len] = Ch].drawn = con.drawn
    BY <1>2, <1>3 DEF Console
  <2>2. Quietly("storeCh", "loadEnd", [con EXCEPT !.buf[reg.len] = Ch], reg)
    BY <1>2, <1>7, <2>1 DEF StoreCh, Inside
  <2> QED
    BY <2>2
<1>8. CASE LoadEnd
  <2>1. /\ [reg EXCEPT !.len = con.len] \in Registers
        /\ [reg EXCEPT !.len = con.len].x = reg.x
    BY <1>2, <1>3 DEF Registers
  <2>2. Quietly("loadEnd", "storeNul", con, [reg EXCEPT !.len = con.len])
    BY <1>2, <1>8, <2>1 DEF LoadEnd, Inside
  <2> QED
    BY <2>2
<1>9. CASE StoreNul
  <2> DEFINE nul == "NUL"
  <2>1. nul \in Char
    BY NulIsChar
  <2> HIDE DEF nul
  <2>2. /\ [con EXCEPT !.buf[reg.len] = nul] \in Console
        /\ [con EXCEPT !.buf[reg.len] = nul].x = con.x
        /\ [con EXCEPT !.buf[reg.len] = nul].drawn = con.drawn
    BY <1>2, <1>3, <2>1 DEF Console
  <2>3. Step("storeNul", IF IsFinal(Ch) THEN "scan" ELSE "test",
             [con EXCEPT !.buf[reg.len] = nul], reg)
    BY <1>9 DEF StoreNul, nul
  <2>4. Quietly("storeNul", IF IsFinal(Ch) THEN "scan" ELSE "test",
                [con EXCEPT !.buf[reg.len] = nul], reg)
    BY <1>2, <2>2, <2>3 DEF Inside
  <2> QED
    BY <2>4
<1>10. CASE Scan
  <2> DEFINE a == CodeStart(con.buf)
             b == CodeEnd(con.buf)
  <2>1. a \in 0 .. (BufSize + 1) /\ b \in 0 .. BufSize
    BY CodeBounds
  <2>2. Step("scan", IF IsComplete(con.buf) THEN "setDone" ELSE "test", con,
             [reg EXCEPT !.first = a, !.last = b])
    BY <1>10 DEF Scan
  <2> HIDE DEF a, b
  <2>3. /\ [reg EXCEPT !.first = a, !.last = b] \in Registers
        /\ [reg EXCEPT !.first = a, !.last = b].x = reg.x
    BY <1>2, <2>1 DEF Registers
  <2>4. Quietly("scan", IF IsComplete(con.buf) THEN "setDone" ELSE "test", con,
                [reg EXCEPT !.first = a, !.last = b])
    BY <1>2, <2>2, <2>3 DEF Inside
  <2> QED
    BY <2>4
<1>11. CASE SetDone
  <2>1. /\ [con EXCEPT !.done = TRUE] \in Console
        /\ [con EXCEPT !.done = TRUE].x = con.x
        /\ [con EXCEPT !.done = TRUE].drawn = con.drawn
    BY <1>2 DEF Console
  <2>2. Quietly("setDone", "apply", [con EXCEPT !.done = TRUE], reg)
    BY <1>2, <1>11, <2>1 DEF SetDone, Inside
  <2> QED
    BY <2>2
<1>12. CASE Apply
  <2> DEFINE code == CodeAt(con.buf, reg.first, reg.last)
  <2> HIDE DEF code
  <2>1. /\ ApplyCode(con, code) \in Console
        /\ ApplyCode(con, code).x = con.x
        /\ ApplyCode(con, code).drawn = con.drawn
    BY <1>2, ApplyCodeFacts
  <2>2. Quietly("apply", "test", ApplyCode(con, code), reg)
    BY <1>2, <1>12, <2>1 DEF Apply, Inside, code
  <2> QED
    BY <2>2
<1>13. CASE Test
  <2>1. /\ [reg EXCEPT !.ret = con.done] \in Registers
        /\ [reg EXCEPT !.ret = con.done].x = reg.x
    BY <1>2, <1>3 DEF Registers
  <2>2. Quietly("test", IF con.done THEN "clearDone" ELSE "setEsc", con,
                [reg EXCEPT !.ret = con.done])
    BY <1>2, <1>13, <2>1 DEF Test, Inside
  <2> QED
    BY <2>2
<1>14. CASE ClearDone
  <2>1. /\ [con EXCEPT !.done = FALSE] \in Console
        /\ [con EXCEPT !.done = FALSE].x = con.x
        /\ [con EXCEPT !.done = FALSE].drawn = con.drawn
    BY <1>2 DEF Console
  <2>2. Quietly("clearDone", "clearLen", [con EXCEPT !.done = FALSE], reg)
    BY <1>2, <1>14, <2>1 DEF ClearDone, Inside
  <2> QED
    BY <2>2
<1>15. CASE ClearLen
  <2> DEFINE n == 0
  <2>1. n \in 0 .. (BufSize - 1)
    BY BufSizeAssumption
  <2> HIDE DEF n
  <2>2. /\ [con EXCEPT !.len = n] \in Console
        /\ [con EXCEPT !.len = n].x = con.x
        /\ [con EXCEPT !.len = n].drawn = con.drawn
    BY <1>2, <2>1 DEF Console
  <2>3. Quietly("clearLen", "setEsc", [con EXCEPT !.len = n], reg)
    BY <1>2, <1>15, <2>2 DEF ClearLen, Inside, n
  <2> QED
    BY <2>3
<1> QED
  BY <1>4, <1>5, <1>6, <1>7, <1>8, <1>9, <1>10, <1>11, <1>12, <1>13, <1>14, <1>15

\* The first access for a character, and those that draw and move the cursor
\* (renderer.c:12-14, fbcon.c:33-36, 48-87).
LEMMA DrawingKeeps ==
    ASSUME ConsoleInv, Putchar \/ Glyph \/ LoadX \/ StoreX \/ AtEdge
    PROVE  ConsoleInv'
<1>1. con \in Console /\ con.x \in Column /\ reg \in Registers /\ reg.x \in Column
  BY ConsoleParts DEF ConsoleInv, TypeOK, Registers, Column
<1>2. CASE Putchar
  <2> DEFINE r == [NoReg EXCEPT !.x = con.x]
  <2>1. text # << >> /\ writer = "FBCON_Write" /\ Step("putchar", "enter", Quiet, r)
    BY <1>2 DEF Putchar
  <2>2. pc = "putchar"
    BY <2>1 DEF Step
  <2>3. r \in Registers /\ r.x = con.x
    BY <1>1, NoRegFacts DEF Registers, Column
  <2>4. /\ Quiet \in Console /\ Quiet.x = con.x
        /\ (con.x < Width => OnRow(Quiet))
    BY <1>1, FreshConsole DEF Quiet
  <2>5. ~ raced => con.x < Width
    BY <2>1, <2>2 DEF ConsoleInv, InRow
  <2> HIDE DEF r
  <2>6. "enter" \in Inside /\ pc # "return"
    BY <2>2 DEF Inside
  <2> QED
    BY <2>1, <2>3, <2>4, <2>5, <2>6, StepKeeps DEF OnRow
<1>3. CASE Glyph
  <2> DEFINE d == << <<reg.x, Ch>> >>
             c == [con EXCEPT !.drawn = d]
  <2>1. Step("plain", "loadX", c, reg) /\ pc = "plain"
    BY <1>3 DEF Glyph
  <2>2. /\ writer = "FBCON_Write" /\ text # << >> /\ pc # "return" /\ Ch \in Char
        /\ ~ raced => reg.x < Width /\ con.x < Width
    BY <2>1, InsideFacts DEF Inside
  <2>3. d \in Glyphs /\ (~ raced => \A j \in DOMAIN d : d[j][1] < Width)
    BY <1>1, <2>2 DEF Glyphs
  <2> HIDE DEF d
  <2>4. c = Placed(con, con.x, d)
    BY <1>1 DEF Placed, Console
  <2>5. c \in Console /\ c.x = con.x /\ c.drawn = d
    BY <1>1, <2>3, <2>4, PlacedIsConsole
  <2> HIDE DEF c
  <2>6. "loadX" \in Inside
    BY DEF Inside
  <2> QED
    BY <1>1, <2>1, <2>2, <2>3, <2>5, <2>6, StepKeeps
<1>4. CASE LoadX
  <2> DEFINE r == [reg EXCEPT !.x = con.x]
  <2>1. Step("loadX", "storeX", con, r) /\ pc = "loadX"
    BY <1>4 DEF LoadX, Step
  <2>2. /\ writer = "FBCON_Write" /\ text # << >> /\ pc # "return"
        /\ ~ raced => /\ \A j \in DOMAIN con.drawn : con.drawn[j][1] < Width
                      /\ con.x < Width
    BY <2>1, InsideFacts DEF Inside
  <2>3. r \in Registers /\ r.x = con.x
    BY <1>1 DEF Registers, Column
  <2> HIDE DEF r
  <2>4. "storeX" \in Inside
    BY DEF Inside
  <2> QED
    BY <1>1, <2>1, <2>2, <2>3, <2>4, StepKeeps
<1>5. CASE StoreX
  <2> DEFINE y == (reg.x + 1) % Word16
             c == [con EXCEPT !.x = y]
  <2>1. Step("storeX", "edge", c, reg) /\ pc = "storeX"
    BY <1>5 DEF StoreX, Step
  <2>2. /\ writer = "FBCON_Write" /\ text # << >> /\ pc # "return"
        /\ ~ raced => /\ \A j \in DOMAIN con.drawn : con.drawn[j][1] < Width
                      /\ reg.x < Width
    BY <2>1, InsideFacts DEF Inside
  <2>3. y \in Column /\ (reg.x < Width => y <= Width)
    <3>1. y \in Column
      BY <1>1, Wraps DEF Column
    <3>2. ASSUME reg.x < Width PROVE y <= Width
      <4>1. reg.x + 1 \in 0 .. Word16 /\ Word16 \in Nat
        BY <1>1, Wraps DEF Column
      <4>2. CASE reg.x + 1 = Word16
        <5>1. y = 0
          BY <4>2 DEF Word16
        <5> QED
          BY <5>1, WidthAssumption
      <4>3. CASE reg.x + 1 # Word16
        <5>1. reg.x + 1 \in Column
          BY <4>1, <4>3 DEF Column
        <5>2. y = reg.x + 1
          BY <5>1, Wraps
        <5> QED
          BY <1>1, <3>2, <5>1, <5>2, Wraps, WidthAssumption DEF Column
      <4> QED
        BY <4>2, <4>3
    <3> QED
      BY <3>1, <3>2
  <2> HIDE DEF y
  <2>4. c = Placed(con, y, con.drawn)
    BY <1>1 DEF Placed, Console
  <2>5. c \in Console /\ c.x = y /\ c.drawn = con.drawn
    BY <1>1, <2>3, <2>4, ConsoleParts, PlacedIsConsole
  <2> HIDE DEF c
  <2>6. "edge" \in Inside
    BY DEF Inside
  <2> QED
    BY <1>1, <2>1, <2>2, <2>3, <2>5, <2>6, StepKeeps
<1>6. CASE AtEdge
  <2>1. Step("edge", "wrap", con, reg) /\ pc = "edge"
    BY <1>6 DEF AtEdge, Step
  <2>2. /\ writer = "FBCON_Write" /\ text # << >> /\ pc # "return"
        /\ ~ raced => /\ \A j \in DOMAIN con.drawn : con.drawn[j][1] < Width
                      /\ reg.x < Width
    BY <2>1, InsideFacts DEF Inside
  <2>3. "wrap" \in Inside
    BY DEF Inside
  <2> QED
    BY <1>1, <2>1, <2>2, <2>3, StepKeeps
<1> QED
  BY <1>2, <1>3, <1>4, <1>5, <1>6

\* The last access for a character (fbcon.c:27-36, 80-90).
LEMMA LastKeeps ==
    ASSUME ConsoleInv, StoreEsc \/ SetEsc \/ Home \/ InsideRow \/ Wrap
    PROVE  ConsoleInv'
<1> SUFFICES \E from \in Inside, c \in Console : (~ raced => OnRow(c)) /\ Done(from, c)
  BY DoneKeeps
<1>1. pc \in Inside
  BY DEF StoreEsc, SetEsc, Home, InsideRow, Wrap, Done, Inside
<1>2. /\ con \in Console /\ reg \in Registers
      /\ ~ raced => /\ \A j \in DOMAIN con.drawn : con.drawn[j][1] < Width
                    /\ pc \notin {"edge", "wrap"} => con.x < Width
  BY <1>1, InsideFacts
<1>3. /\ [con EXCEPT !.x = 0] \in Console /\ [con EXCEPT !.x = 0].x = 0
      /\ [con EXCEPT !.x = 0].drawn = con.drawn
  BY <1>2, HomeFacts
<1>4. ~ raced => OnRow([con EXCEPT !.x = 0])
  BY <1>2, <1>3, WidthAssumption DEF OnRow
<1>5. CASE StoreEsc
  <2> DEFINE c == [con EXCEPT !.esc = TRUE]
  <2>1. c \in Console /\ c.x = con.x /\ c.drawn = con.drawn
    BY <1>2 DEF Console
  <2>2. pc = "enter" /\ Done("enter", c)
    BY <1>5 DEF StoreEsc
  <2> HIDE DEF c
  <2> QED
    BY <1>1, <1>2, <2>1, <2>2 DEF OnRow
<1>6. CASE SetEsc
  <2> DEFINE c == [con EXCEPT !.esc = ~ reg.ret]
  <2>1. c \in Console /\ c.x = con.x /\ c.drawn = con.drawn
    BY <1>2 DEF Console, Registers
  <2>2. pc = "setEsc" /\ Done("setEsc", c)
    BY <1>6 DEF SetEsc, Done
  <2> HIDE DEF c
  <2> QED
    BY <1>1, <1>2, <2>1, <2>2 DEF OnRow
<1>7. CASE Home
  BY <1>1, <1>3, <1>4, <1>7 DEF Home
<1>8. CASE InsideRow
  <2>1. con.x < Width /\ pc = "edge" /\ Done("edge", con)
    BY <1>8 DEF InsideRow, Done
  <2> QED
    BY <1>1, <1>2, <2>1 DEF OnRow
<1>9. CASE Wrap
  <2>1. pc = "wrap" /\ Done("wrap", [con EXCEPT !.x = 0])
    BY <1>9 DEF Wrap, Done
  <2> QED
    BY <1>1, <1>3, <1>4, <2>1
<1> QED
  BY <1>5, <1>6, <1>7, <1>8, <1>9

-----------------------------------------------------------------------------
(* The calls of init().                                                     *)

\* The parts of a call, and where it stands in the program.
LEMMA CallFacts ==
    ASSUME NEW j \in 1 .. Len(Program)
    PROVE  /\ Program[j].op = "TTY_SetWriteFunc" =>
                Program[j].func \in {"COM_LogWrapper", "FBCON_Write"}
           /\ Program[j].op = "log" =>
                /\ Program[j].module \in Line /\ Program[j].msg \in Line
                /\ Program[j].level \in DOMAIN LevelColor
           /\ Program[j].op = "printf" => Program[j].msg \in Message
           /\ Sets(j, "COM_LogWrapper") => j = 1
           /\ Sets(j, "FBCON_Write") => j > 1 /\ Program[j - 1].op \in {"FBCON_Init", "log"}
           /\ Program[j].op = "create_idt" => \E k \in 1 .. (j - 1) : Sets(k, "FBCON_Write")
<1>1. Program[j] \in Call /\ j \in DOMAIN Program
  BY ProgramAssumption
<1>2. /\ Program[j].op = "TTY_SetWriteFunc" =>
            Program[j].func \in {"COM_LogWrapper", "FBCON_Write"}
      /\ Program[j].op = "log" =>
            /\ Program[j].module \in Line /\ Program[j].msg \in Line
            /\ Program[j].level \in DOMAIN LevelColor
      /\ Program[j].op = "printf" => Program[j].msg \in Message
  BY <1>1 DEF Call
<1>3. /\ Sets(j, "COM_LogWrapper") => j = 1
      /\ Sets(j, "FBCON_Write") => j > 1 /\ Program[j - 1].op \in {"FBCON_Init", "log"}
      /\ Program[j].op = "create_idt" => \E k \in 1 .. (j - 1) : Sets(k, "FBCON_Write")
  BY <1>1, ProgramAssumption
<1> QED
  BY <1>2, <1>3

\* Between two calls: the next one, and what the invariant says there.
LEMMA IdleFacts ==
    ASSUME ConsoleInv, pc = "return"
    PROVE  /\ reg = NoReg /\ call \in 1 .. (Len(Program) + 1) /\ Len(Program) \in Nat
           /\ ~ raced /\ writer = "FBCON_Write" => OnRow(con)
<1>1. Len(Program) \in Nat
  BY ProgramAssumption
<1>2. ~ raced /\ writer = "FBCON_Write" => OnRow(con)
  BY DEF ConsoleInv, InRow, OnRow
<1> QED
  BY <1>1, <1>2 DEF ConsoleInv, TypeOK, Places

\* The framebuffer takes over with the cursor at the start of the row
\* (init.c:20, fbcon.c:107-118).
LEMMA SetWriteFuncKeeps ==
    ASSUME ConsoleInv, SetWriteFunc
    PROVE  ConsoleInv'
<1> DEFINE f == Program[call].func
<1>1. /\ pc = "return" /\ call <= Len(Program) /\ Program[call].op = "TTY_SetWriteFunc"
      /\ writer' = f /\ call' = call + 1
      /\ UNCHANGED <<text, pc, reg, iflag, con, clean, kb, keys, raced>>
  BY DEF SetWriteFunc, Calling, Idle, vars_irq
<1>2. /\ reg = NoReg /\ call \in 1 .. Len(Program) /\ Len(Program) \in Nat
      /\ ~ raced /\ writer = "FBCON_Write" => OnRow(con)
  BY <1>1, IdleFacts
<1>3. /\ f \in {"COM_LogWrapper", "FBCON_Write"}
      /\ f = "COM_LogWrapper" => call = 1
      /\ f = "FBCON_Write" => call > 1 /\ Program[call - 1].op \in {"FBCON_Init", "log"}
  BY <1>1, <1>2, CallFacts DEF Sets
<1>4. TypeOK'
  BY <1>1, <1>2, <1>3 DEF ConsoleInv, TypeOK
<1>5. Places'
  BY <1>1, <1>2 DEF ConsoleInv, Places, Inside
<1>6. /\ iflag => writer = "FBCON_Write"
      /\ call = 1 => writer = "none"
      /\ \A k \in 1 .. (call - 1) : Sets(k, "FBCON_Write") => writer = "FBCON_Write"
      /\ writer # "FBCON_Write" =>
            con.drawn = << >>
            /\ (call > 1 /\ Program[call - 1].op \in {"FBCON_Init", "log"} => con.x = 0)
  BY <1>1 DEF ConsoleInv, Writers
<1>7. CASE f = "COM_LogWrapper"
  <2>1. call = 1 /\ ~ iflag /\ con.drawn = << >>
    BY <1>3, <1>6, <1>7
  <2>2. \A k \in 1 .. 1 : ~ Sets(k, "FBCON_Write")
    BY <1>7, <2>1 DEF Sets
  <2>3. Writers'
    BY <1>1, <1>7, <2>1, <2>2 DEF Writers, Sets
  <2>4. InRow'
    BY <1>1, <1>7 DEF InRow
  <2> QED
    BY <1>1, <1>4, <1>5, <2>3, <2>4 DEF ConsoleInv
<1>8. CASE f = "FBCON_Write"
  <2>1. ~ raced => OnRow(con)
    BY <1>2, <1>3, <1>6, <1>8, WidthAssumption DEF OnRow
  <2>2. Writers'
    BY <1>1, <1>2, <1>8 DEF Writers
  <2>3. InRow'
    BY <1>1, <1>2, <1>8, <2>1, NoRegFacts, WidthAssumption DEF InRow, OnRow
  <2> QED
    BY <1>1, <1>4, <1>5, <2>2, <2>3 DEF ConsoleInv
<1> QED
  BY <1>3, <1>7, <1>8

\* FBCON_Init homes the cursor (fbcon.c:107-113).
LEMMA ResetKeeps ==
    ASSUME ConsoleInv, Reset
    PROVE  ConsoleInv'
<1> DEFINE c == FBCON_Reset(con)
<1>1. /\ pc = "return" /\ call <= Len(Program) /\ Program[call].op = "FBCON_Init"
      /\ con' = c /\ call' = call + 1
      /\ UNCHANGED <<text, pc, reg, writer, iflag, clean, kb, keys, raced>>
  BY DEF Reset, Calling, Idle, vars_irq
<1>2. /\ reg = NoReg /\ call \in 1 .. Len(Program) /\ Len(Program) \in Nat
      /\ ~ raced /\ writer = "FBCON_Write" => OnRow(con)
  BY <1>1, IdleFacts
<1>3. c \in Console /\ c.x = 0 /\ c.drawn = con.drawn
  BY ResetFacts DEF ConsoleInv, TypeOK
<1> HIDE DEF c
<1>4. TypeOK'
  BY <1>1, <1>2, <1>3 DEF ConsoleInv, TypeOK
<1>5. Places'
  BY <1>1, <1>2 DEF ConsoleInv, Places, Inside
<1>6. Writers'
  <2>1. \A k \in 1 .. (call' - 1) : Sets(k, "FBCON_Write") => writer = "FBCON_Write"
    <3>1. ~ Sets(call, "FBCON_Write")
      BY <1>1 DEF Sets
    <3> QED
      BY <1>1, <1>2, <3>1 DEF ConsoleInv, Writers
  <2> QED
    BY <1>1, <1>2, <1>3, <2>1 DEF ConsoleInv, Writers, Sets
<1>7. InRow'
  BY <1>1, <1>2, <1>3, NoRegFacts, WidthAssumption DEF InRow, OnRow
<1> QED
  BY <1>1, <1>4, <1>5, <1>6, <1>7 DEF ConsoleInv

\* Interrupts are enabled behind the framebuffer (init.c:20-29).
LEMMA EnableInterruptsKeeps ==
    ASSUME ConsoleInv, EnableInterrupts
    PROVE  ConsoleInv'
<1>1. /\ pc = "return" /\ call <= Len(Program) /\ Program[call].op = "create_idt"
      /\ iflag' = TRUE /\ call' = call + 1
      /\ UNCHANGED <<text, pc, reg, writer, con, clean, kb, keys, raced>>
  BY DEF EnableInterrupts, Calling, Idle, vars_irq
<1>2. reg = NoReg /\ call \in 1 .. Len(Program) /\ Len(Program) \in Nat
  BY <1>1, IdleFacts
<1>3. writer = "FBCON_Write"
  BY <1>1, <1>2, CallFacts DEF ConsoleInv, Writers
<1>4. iflag' \in BOOLEAN
  BY <1>1, Zenon
<1>5. TypeOK'
  BY <1>1, <1>2, <1>4 DEF ConsoleInv, TypeOK
<1>6. Places'
  BY <1>1, <1>2 DEF ConsoleInv, Places, Inside
<1>7. Writers'
  BY <1>1, <1>2, <1>3 DEF Writers
<1>8. InRow'
  BY <1>1 DEF ConsoleInv, InRow
<1> QED
  BY <1>1, <1>5, <1>6, <1>7, <1>8 DEF ConsoleInv

\* log and printf make a text of characters, and a log line ends with a
\* carriage return (log.c:23-45).
LEMMA StartPrintingKeeps ==
    ASSUME ConsoleInv, StartPrinting
    PROVE  ConsoleInv'
<1> DEFINE t == IF Program[call].op = "printf" THEN Program[call].msg
                ELSE LogText(con, Program[call].module, Program[call].level,
                             Program[call].msg)
<1>1. /\ pc = "return" /\ call <= Len(Program) /\ Program[call].op \in {"log", "printf"}
      /\ text' = t /\ pc' = "putchar" /\ clean' = Unbroken(con)
      /\ UNCHANGED <<reg, con, writer, iflag, call, kb, keys, raced>>
  BY DEF StartPrinting, Calling, Idle, vars_irq, vars_setup
<1>2. /\ reg = NoReg /\ call \in 1 .. Len(Program) /\ Len(Program) \in Nat
      /\ ~ raced /\ writer = "FBCON_Write" => OnRow(con)
  BY <1>1, IdleFacts
<1>3. t \in Seq(Char) /\ (Program[call].op = "log" => EndsLine(t))
  <2>1. CASE Program[call].op = "printf"
    BY <1>2, <2>1, CallFacts, MessagesAreTexts
  <2>2. CASE Program[call].op = "log"
    <3>1. /\ Program[call].module \in Seq(Char) /\ Program[call].msg \in Seq(Char)
          /\ Program[call].level \in DOMAIN LevelColor
      BY <1>2, <2>2, CallFacts, MessagesAreTexts
    <3> QED
      BY <2>2, <3>1, LogIsText
  <2> QED
    BY <1>1, <2>1, <2>2
<1> HIDE DEF t
<1>4. clean' \in BOOLEAN
  BY <1>1, Zenon DEF Unbroken
<1>5. TypeOK'
  BY <1>1, <1>3, <1>4 DEF ConsoleInv, TypeOK
<1>6. Places'
  BY <1>1, <1>2 DEF ConsoleInv, Places, Inside
<1>7. Writers'
  BY <1>1, <1>3 DEF ConsoleInv, Writers
<1>8. InRow'
  BY <1>1, <1>2, NoRegFacts, WidthAssumption DEF InRow, OnRow
<1> QED
  BY <1>1, <1>5, <1>6, <1>7, <1>8 DEF ConsoleInv

\* A log line on the serial port leaves the cursor at the start of the row.
LEMMA ReturnKeeps ==
    ASSUME ConsoleInv, Return
    PROVE  ConsoleInv'
<1>1. /\ pc = "putchar" /\ text = << >> /\ pc' = "return" /\ call' = call + 1
      /\ UNCHANGED <<text, reg, writer, iflag, con, clean, kb, keys, raced>>
  BY DEF Return, vars_irq
<1>2. /\ reg = NoReg /\ call <= Len(Program) /\ Program[call].op \in {"log", "printf"}
      /\ call \in 1 .. (Len(Program) + 1) /\ Len(Program) \in Nat
  BY <1>1, ProgramAssumption DEF ConsoleInv, Places, TypeOK
<1>3. ~ Sets(call, "FBCON_Write")
  BY <1>2 DEF Sets
<1>4. TypeOK'
  BY <1>1, <1>2 DEF ConsoleInv, TypeOK
<1>5. Places'
  BY <1>1, <1>2 DEF ConsoleInv, Places, Inside
<1>6. ~ EndsLine(text)
  BY <1>1 DEF EndsLine
<1>7. Writers'
  <2>1. \A k \in 1 .. (call' - 1) : Sets(k, "FBCON_Write") => writer = "FBCON_Write"
    BY <1>1, <1>2, <1>3 DEF ConsoleInv, Writers
  <2>2. writer # "FBCON_Write" =>
          con.drawn = << >> /\ (Program[call].op = "log" => con.x = 0)
    BY <1>1, <1>6 DEF ConsoleInv, Writers
  <2>3. call' - 1 = call /\ call' # 1
    BY <1>1, <1>2
  <2> QED
    BY <1>1, <1>2, <2>1, <2>2, <2>3 DEF ConsoleInv, Writers, Sets
<1>8. InRow'
  BY <1>1 DEF ConsoleInv, InRow
<1> QED
  BY <1>1, <1>4, <1>5, <1>7, <1>8 DEF ConsoleInv

\* The serial port: the line feed behind the carriage return of a log line
\* does not move the cursor (comout.c:28-45).
LEMMA PutcharSerialKeeps ==
    ASSUME ConsoleInv, PutcharSerial
    PROVE  ConsoleInv'
<1> DEFINE c == COM_LogWrapper(Quiet, Ch)
<1>1. /\ text # << >> /\ writer = "COM_LogWrapper" /\ pc = "putchar" /\ pc' = "putchar"
      /\ con' = c /\ reg' = NoReg /\ text' = Tail(text)
      /\ UNCHANGED <<clean, writer, iflag, call, kb, keys, raced>>
  BY DEF PutcharSerial, Done, vars_setup, vars_irq
<1>2. text \in Seq(Char) /\ con \in Console
  BY DEF ConsoleInv, TypeOK
<1>3. /\ Tail(text) \in Seq(Char) /\ Ch \in Char
      /\ EndsLine(text) => EndsLine(Tail(text)) \/ (Ch = "CR" /\ Tail(text) = <<"LF">>)
      /\ text = <<"LF">> => Ch = "LF" /\ Tail(text) = << >>
  BY <1>1, <1>2, TailFacts DEF Ch
<1>4. Quiet \in Console /\ Quiet.x = con.x /\ Quiet.drawn = << >>
  BY <1>2, FreshConsole DEF Quiet
<1>5. /\ c \in Console /\ c.drawn = << >>
      /\ Ch = "CR" => c.x = 0
      /\ Ch = "LF" => c.x = con.x
  BY <1>3, <1>4, SerialFacts
<1> HIDE DEF c
<1>6. TypeOK'
  BY <1>1, <1>3, <1>5, NoRegFacts DEF ConsoleInv, TypeOK
<1>7. Places'
  BY <1>1 DEF ConsoleInv, Places, Inside
<1>8. Program[call].op = "log" =>
        EndsLine(text) \/ (text \in {<< >>, <<"LF">>} /\ con.x = 0)
  BY <1>1 DEF ConsoleInv, Writers
<1>9. Program[call].op = "log" =>
        EndsLine(Tail(text)) \/ (Tail(text) \in {<< >>, <<"LF">>} /\ c.x = 0)
  BY <1>1, <1>3, <1>5, <1>8
<1>10. Writers'
  BY <1>1, <1>5, <1>9 DEF ConsoleInv, Writers
<1>11. InRow'
  BY <1>1 DEF InRow
<1> QED
  BY <1>1, <1>6, <1>7, <1>10, <1>11 DEF ConsoleInv

-----------------------------------------------------------------------------
(* The interrupt and the theorems.                                          *)

\* The handler, between any two accesses of the boot thread, leaves a console
\* and a keyboard; between two characters it stays inside the row
\* (keyboard.c:12-63).
LEMMA InterruptKeeps ==
    ASSUME ConsoleInv, NEW k \in Typeable, Interrupt(k)
    PROVE  ConsoleInv'
<1> DEFINE h == HandleKeyboard(kb, con, k)
<1>1. /\ iflag /\ keys < MaxKeys /\ con.len < BufSize - 3 /\ Room(kb, k)
      /\ kb' = h.kb /\ con' = h.con /\ keys' = keys + 1 /\ clean' = FALSE
      /\ raced' = (raced \/ pc \in Inside)
      /\ UNCHANGED <<text, pc, reg, writer, iflag, call>>
  BY DEF Interrupt, vars_setup, Fits
<1>2. /\ con \in Console /\ WellFormed(kb) /\ con.len \in Int
      /\ con.len < BufSize - 1 /\ k \in Scancode
      /\ writer = "FBCON_Write"
  BY <1>1, ConsoleParts, BufSizeAssumption, TypeableAssumption
     DEF ConsoleInv, TypeOK, Writers
<1>3. /\ WellFormed(h.kb) /\ h.con \in Console
      /\ con.x < Width => OnRow(h.con)
  BY <1>1, <1>2, HandlerFacts
<1> HIDE DEF h
<1>4. raced' \in BOOLEAN /\ clean' \in BOOLEAN
  BY <1>1, Zenon DEF ConsoleInv, TypeOK
<1>5. keys' \in 0 .. MaxKeys
  BY <1>1, MaxKeysAssumption DEF ConsoleInv, TypeOK
<1>6. TypeOK'
  BY <1>1, <1>3, <1>4, <1>5 DEF ConsoleInv, TypeOK, WellFormed
<1>7. Places'
  BY <1>1 DEF ConsoleInv, Places
<1>8. Writers'
  BY <1>1, <1>2 DEF ConsoleInv, Writers
<1>9. InRow'
  <2>1. CASE raced'
    BY <2>1 DEF InRow
  <2>2. CASE ~ raced'
    <3>1. ~ raced /\ pc \notin Inside
      BY <1>1, <2>2, Zenon
    <3>2. pc \in {"return", "putchar"}
      BY <3>1 DEF ConsoleInv, TypeOK
    <3>3. con.x < Width /\ reg.x < Width
      BY <1>2, <3>1, <3>2 DEF ConsoleInv, InRow
    <3> QED
      BY <1>1, <1>3, <3>2, <3>3 DEF InRow, OnRow
  <2> QED
    BY <2>1, <2>2
<1> QED
  BY <1>1, <1>3, <1>6, <1>7, <1>8, <1>9 DEF ConsoleInv

LEMMA ConsoleInvInit == Init => ConsoleInv
<1> SUFFICES ASSUME Init PROVE ConsoleInv
  OBVIOUS
<1>1. /\ call = 1 /\ text = << >> /\ pc = "return" /\ reg = NoReg /\ writer = "none"
      /\ con = ConsoleAtBoot /\ kb = KeyboardAtBoot /\ keys = 0
      /\ iflag = FALSE /\ raced = FALSE /\ clean = FALSE
  BY DEF Init
<1>2. iflag \in BOOLEAN /\ raced \in BOOLEAN /\ clean \in BOOLEAN
  BY <1>1, Zenon
<1>3. Len(Program) \in Nat
  BY ProgramAssumption
<1>4. TypeOK
  BY <1>1, <1>2, <1>3, NoRegFacts, ConsoleStarts, KeyboardStarts, MaxKeysAssumption
     DEF TypeOK, WellFormed
<1>5. WellFormed(kb) /\ Places /\ Writers /\ InRow
  BY <1>1, ConsoleStarts, KeyboardStarts DEF Places, Writers, InRow, Inside
<1> QED
  BY <1>4, <1>5 DEF ConsoleInv

LEMMA ConsoleInvNext == ConsoleInv /\ [Next]_vars => ConsoleInv'
<1> SUFFICES ASSUME ConsoleInv, [Next]_vars PROVE ConsoleInv'
  OBVIOUS
<1>1. CASE SetWriteFunc
  BY <1>1, SetWriteFuncKeeps
<1>2. CASE Reset
  BY <1>2, ResetKeeps
<1>3. CASE EnableInterrupts
  BY <1>3, EnableInterruptsKeeps
<1>4. CASE StartPrinting
  BY <1>4, StartPrintingKeeps
<1>5. CASE Return
  BY <1>5, ReturnKeeps
<1>6. CASE PutcharSerial
  BY <1>6, PutcharSerialKeeps
<1>7. CASE Putchar \/ Glyph \/ LoadX \/ StoreX \/ AtEdge
  BY <1>7, DrawingKeeps
<1>8. CASE \/ LoadEsc \/ LoadLen \/ StoreLen \/ StoreCh \/ LoadEnd \/ StoreNul
           \/ Scan \/ SetDone \/ Apply \/ Test \/ ClearDone \/ ClearLen
  BY <1>8, ParserKeeps
<1>9. CASE StoreEsc \/ SetEsc \/ Home \/ InsideRow \/ Wrap
  BY <1>9, LastKeeps
<1>10. CASE \E k \in Typeable : Interrupt(k)
  BY <1>10, InterruptKeeps
<1>11. CASE UNCHANGED vars
  BY <1>11 DEF vars, ConsoleInv, TypeOK, Places, Writers, InRow
<1> QED
  BY <1>1, <1>2, <1>3, <1>4, <1>5, <1>6, <1>7, <1>8, <1>9, <1>10, <1>11
     DEF Next, BootThread

\* Whatever is typed, and wherever in FBCON_Write or TTY_HandleEsc the
\* interrupt comes, the globals of tty.c, ansi.c and keyboard.c and what the
\* interrupted code has loaded of them keep their types: no index leaves its
\* array (fbcon.c:25-90, ansi.c:9-127, keyboard.c:12-63).
THEOREM TypeCorrect == Spec => []TypeOK
<1>1. ConsoleInv => TypeOK
  BY DEF ConsoleInv
<1> QED
  BY <1>1, ConsoleInvInit, ConsoleInvNext, PTL DEF Spec

\* As long as no scan code arrives inside FBCON_Write, no glyph is drawn off
\* the row (fbcon.c:37-46, 83-87).
THEOREM GlyphsOnRow == Spec => []DrawsOnRow
<1>1. ConsoleInv => DrawsOnRow
  BY DEF ConsoleInv, InRow, DrawsOnRow
<1> QED
  BY <1>1, ConsoleInvInit, ConsoleInvNext, PTL DEF Spec

-----------------------------------------------------------------------------
(* A log line heals the console: what is left of its text.                  *)

Bracket == "["
InCode  == {"0", "1", "3", "5", "6", "7", ";"}

\* What is behind an ESC at position j is an attribute sequence.
SequenceAt(t, j) ==
    \E e \in (j + 2) .. Len(t) :
        t[j + 1] = Bracket /\ t[e] = "m" /\ \A k \in (j + 2) .. (e - 1) : t[k] \in InCode

Sane(t) == \A j \in 1 .. Len(t) : t[j] = "ESC" => SequenceAt(t, j)

\* The text ends with ESC [ 0 m CR LF, or with what is left of that.
ResetTail == <<"ESC", Bracket, "0", "m", "CR", "LF">>
EndsReset(t) == \A k \in 0 .. 5 : k < Len(t) => t[Len(t) - k] = ResetTail[6 - k]

\* The text begins with ESC [ 1 m, or with a new line before that.
Begins(t, p) ==
    /\ p + 3 <= Len(t)
    /\ t[p] = "ESC" /\ t[p + 1] = Bracket /\ t[p + 2] = "1" /\ t[p + 3] = "m"
Opens(t) ==
    \E p \in 1 .. Len(t) :
        Begins(t, p) /\ \A j \in 1 .. (p - 1) : t[j] \in {"CR", "LF"}

\* The characters of the attribute sequences are characters of a text.
LEMMA CharacterFacts ==
    /\ Bracket \in Char /\ Bracket \notin {"ESC", "NUL", "m", "CR", "LF"}
    /\ InCode \subseteq Char
    /\ \A c \in InCode : c \notin {"ESC", "NUL", "m", "CR", "LF"} /\ c # Bracket
<1>1. Bracket \in Char /\ Bracket \notin {"ESC", "NUL", "m", "CR", "LF"}
  BY FrameCharacters, Zenon DEF Bracket
<1>2. InCode \subseteq Char
  BY Zenon DEF InCode, Char, Ascii
<1>3. \A c \in InCode : c \notin {"ESC", "NUL", "m", "CR", "LF"} /\ c # Bracket
  BY Zenon DEF InCode, Bracket
<1> QED
  BY <1>1, <1>2, <1>3

\* A sequence stays one where the text around it is moved by d.
LEMMA SequenceMoves ==
    ASSUME NEW s \in Seq(Char), NEW t \in Seq(Char), NEW d \in Int, NEW j \in Nat,
           \A k \in j .. Len(s) : k + d <= Len(t) /\ t[k + d] = s[k],
           SequenceAt(s, j)
    PROVE  SequenceAt(t, j + d)
<1> DEFINE m == Len(s)
           n == Len(t)
<1>1. m \in Nat /\ n \in Nat
  OBVIOUS
<1>2. PICK e \in (j + 2) .. m :
        s[j + 1] = Bracket /\ s[e] = "m" /\ \A k \in (j + 2) .. (e - 1) : s[k] \in InCode
  BY DEF SequenceAt
<1>3. \A k \in j .. m : k + d <= n /\ t[k + d] = s[k]
  OBVIOUS
<1> HIDE DEF m, n
<1>4. e + d \in (j + d + 2) .. n /\ t[e + d] = "m"
  BY <1>1, <1>2, <1>3
<1>5. t[j + d + 1] = Bracket
  <2>1. j + 1 \in j .. m /\ (j + 1) + d = j + d + 1
    BY <1>1, <1>2
  <2> QED
    BY <1>2, <1>3, <2>1
<1>6. ASSUME NEW k \in (j + d + 2) .. (e + d - 1) PROVE t[k] \in InCode
  <2>1. k - d \in (j + 2) .. (e - 1) /\ k - d \in j .. m /\ (k - d) + d = k
    BY <1>1, <1>2
  <2>2. t[(k - d) + d] = s[k - d] /\ s[k - d] \in InCode
    BY <1>2, <1>3, <2>1
  <2> QED
    BY <2>1, <2>2
<1> QED
  BY <1>4, <1>5, <1>6 DEF SequenceAt, n

\* Two texts one behind the other.
LEMMA SaneJoin ==
    ASSUME NEW s \in Seq(Char), NEW t \in Seq(Char), Sane(s), Sane(t)
    PROVE  Sane(s \o t)
<1> DEFINE m == Len(s)
           n == Len(t)
           u == s \o t
<1>1. /\ m \in Nat /\ n \in Nat /\ u \in Seq(Char) /\ Len(u) = m + n
      /\ \A k \in 1 .. m : u[k] = s[k]
      /\ \A k \in 1 .. n : u[m + k] = t[k]
  OBVIOUS
<1>2. /\ \A j \in 1 .. m : s[j] = "ESC" => SequenceAt(s, j)
      /\ \A j \in 1 .. n : t[j] = "ESC" => SequenceAt(t, j)
  BY DEF Sane
<1>3. m = Len(s) /\ n = Len(t)
  OBVIOUS
<1> HIDE DEF m, n, u
<1>4. ASSUME NEW j \in 1 .. (m + n), u[j] = "ESC" PROVE SequenceAt(u, j)
  <2>1. CASE j <= m
    <3>1. \A k \in j .. Len(s) : k + 0 <= Len(u) /\ u[k + 0] = s[k]
      BY <1>1, <1>3
    <3>2. SequenceAt(s, j) /\ j \in Nat
      BY <1>1, <1>2, <1>4, <2>1
    <3>3. SequenceAt(u, j + 0)
      <4>1. 0 \in Int
        OBVIOUS
      <4> QED
        BY <1>1, <3>1, <3>2, <4>1, SequenceMoves, Zenon
    <3> QED
      BY <1>4, <3>3
  <2>2. CASE j > m
    <3> DEFINE i == j - m
    <3>1. i \in 1 .. n /\ m + i = j /\ i + m = j /\ i \in Nat
      BY <1>1, <2>2
    <3> HIDE DEF i
    <3>2. t[i] = "ESC"
      BY <1>1, <1>4, <3>1
    <3>3. \A k \in i .. Len(t) : k + m <= Len(u) /\ u[k + m] = t[k]
      <4> TAKE k \in i .. Len(t)
      <4>1. k \in 1 .. n /\ k + m = m + k
        BY <1>1, <1>3, <3>1
      <4> QED
        BY <1>1, <4>1
    <3>4. SequenceAt(u, i + m)
      <4>1. m \in Int /\ SequenceAt(t, i)
        BY <1>1, <1>2, <3>1, <3>2
      <4> QED
        BY <1>1, <3>1, <3>3, <4>1, SequenceMoves, Zenon
    <3> QED
      BY <3>1, <3>4
  <2> QED
    BY <1>1, <2>1, <2>2
<1> QED
  BY <1>1, <1>4 DEF Sane, u

\* What is left of a text after its first character.
LEMMA TailShifts ==
    ASSUME NEW t \in Seq(Char), t # << >>
    PROVE  /\ Tail(t) \in Seq(Char) /\ Head(t) = t[1] /\ Head(t) \in Char
           /\ Len(t) \in Nat /\ Len(t) > 0 /\ Len(Tail(t)) = Len(t) - 1
           /\ \A j \in 1 .. (Len(t) - 1) : Tail(t)[j] = t[j + 1]
OBVIOUS

\* What is left of a text that ends with the reset still does.
LEMMA SaneTail ==
    ASSUME NEW t \in Seq(Char), t # << >>, Sane(t), EndsReset(t)
    PROVE  Sane(Tail(t)) /\ EndsReset(Tail(t))
<1> DEFINE n == Len(t)
           u == Tail(t)
<1>1. /\ n \in Nat /\ n > 0 /\ u \in Seq(Char) /\ Len(u) = n - 1
      /\ \A j \in 1 .. (n - 1) : u[j] = t[j + 1]
  BY TailShifts
<1>2. n = Len(t) /\ u = Tail(t)
  OBVIOUS
<1>3. \A j \in 1 .. n : t[j] = "ESC" => SequenceAt(t, j)
  BY DEF Sane
<1>4. \A k \in 0 .. 5 : k < n => t[n - k] = ResetTail[6 - k]
  BY DEF EndsReset
<1> HIDE DEF n, u
<1>5. ASSUME NEW j \in 1 .. (n - 1), u[j] = "ESC" PROVE SequenceAt(u, j)
  <2> DEFINE i == j + 1
             d == 0 - 1
  <2>1. i \in 1 .. n /\ i \in Nat /\ i + d = j /\ t[i] = "ESC" /\ d \in Int
    BY <1>1, <1>5
  <2>2. \A k \in i .. n : k + d <= Len(u) /\ u[k + d] = t[k]
    <3> TAKE k \in i .. n
    <3>1. k - 1 \in 1 .. (n - 1) /\ k + d = k - 1 /\ (k - 1) + 1 = k
      BY <1>1
    <3>2. u[k - 1] = t[(k - 1) + 1]
      BY <1>1, <3>1
    <3> QED
      BY <1>1, <3>1, <3>2
  <2> HIDE DEF i, d
  <2>3. SequenceAt(u, i + d)
    BY <1>1, <1>2, <1>3, <2>1, <2>2, SequenceMoves
  <2> QED
    BY <2>1, <2>3
<1>6. ASSUME NEW k \in 0 .. 5, k < n - 1 PROVE u[(n - 1) - k] = ResetTail[6 - k]
  <2>1. (n - 1) - k \in 1 .. (n - 1) /\ ((n - 1) - k) + 1 = n - k /\ k < n
    BY <1>1, <1>6
  <2> QED
    BY <1>1, <1>4, <2>1
<1>7. Sane(u)
  BY <1>1, <1>5 DEF Sane
<1>8. EndsReset(u)
  BY <1>1, <1>6 DEF EndsReset
<1> QED
  BY <1>2, <1>7, <1>8

\* The last characters of a text that ends with the reset.
LEMMA LastCharacters ==
    ASSUME NEW t \in Seq(Char), EndsReset(t)
    PROVE  /\ Len(t) = 6 => t[1] = "ESC" /\ t[2] = Bracket /\ t[3] = "0"
           /\ Len(t) = 5 => t[1] = Bracket
           /\ Len(t) = 4 => t[1] = "0"
           /\ Len(t) = 3 => t[1] = "m"
           /\ Len(t) = 2 => t[1] = "CR"
           /\ Len(t) = 1 => t[1] = "LF"
<1> DEFINE n == Len(t)
<1>1. n \in Nat /\ \A k \in 0 .. 5 : k < n => t[n - k] = ResetTail[6 - k]
  BY DEF EndsReset
<1>2. /\ ResetTail[1] = "ESC" /\ ResetTail[2] = Bracket /\ ResetTail[3] = "0"
      /\ ResetTail[4] = "m" /\ ResetTail[5] = "CR" /\ ResetTail[6] = "LF"
  BY DEF ResetTail
<1> HIDE DEF n
<1>3. n = 6 => t[6 - 5] = ResetTail[6 - 5] /\ t[6 - 4] = ResetTail[6 - 4]
               /\ t[6 - 3] = ResetTail[6 - 3]
  BY <1>1
<1>4. /\ n = 5 => t[5 - 4] = ResetTail[6 - 4]
      /\ n = 4 => t[4 - 3] = ResetTail[6 - 3]
      /\ n = 3 => t[3 - 2] = ResetTail[6 - 2]
      /\ n = 2 => t[2 - 1] = ResetTail[6 - 1]
      /\ n = 1 => t[1 - 0] = ResetTail[6 - 0]
  BY <1>1
<1>5. n = 6 => t[1] = "ESC" /\ t[2] = Bracket /\ t[3] = "0"
  BY <1>2, <1>3
<1>6. /\ n = 5 => t[1] = Bracket
      /\ n = 4 => t[1] = "0"
      /\ n = 3 => t[1] = "m"
      /\ n = 2 => t[1] = "CR"
      /\ n = 1 => t[1] = "LF"
  BY <1>2, <1>4
<1> QED
  BY <1>5, <1>6 DEF n

\* Two texts one behind the other, and texts of one character and of two.
LEMMA Joined ==
    ASSUME NEW s \in Seq(Char), NEW t \in Seq(Char)
    PROVE  /\ s \o t \in Seq(Char)
           /\ Len(s) \in Nat /\ Len(t) \in Nat /\ Len(s \o t) = Len(s) + Len(t)
           /\ \A k \in 1 .. Len(s) : (s \o t)[k] = s[k]
           /\ \A k \in 1 .. Len(t) : (s \o t)[Len(s) + k] = t[k]
OBVIOUS

LEMMA OneAndTwo ==
    ASSUME NEW a \in Char, NEW b \in Char
    PROVE  /\ << a >> \in Seq(Char) /\ Len(<< a >>) = 1 /\ << a >>[1] = a
           /\ << a, b >> \in Seq(Char) /\ Len(<< a, b >>) = 2
           /\ << a, b >>[1] = a /\ << a, b >>[2] = b
OBVIOUS

\* A text without an escape sequence.
LEMMA SaneWithout ==
    ASSUME NEW t \in Seq(Char), \A j \in 1 .. Len(t) : t[j] # "ESC"
    PROVE  Sane(t)
BY DEF Sane

\* What the callers of log pass has no escape sequence of its own.
LEMMA LinesAreSane == \A t \in Line : t \in Seq(Char) /\ Sane(t)
<1> SUFFICES ASSUME NEW t \in Line PROVE t \in Seq(Char) /\ Sane(t)
  OBVIOUS
<1>1. t \in Seq(Char) /\ \A j \in 1 .. Len(t) : t[j] # "ESC"
  BY DEF Line
<1> QED
  BY <1>1, SaneWithout

\* An attribute sequence, character by character.
LEMMA SgrCharacters ==
    ASSUME NEW s \in Seq(Char)
    PROVE  /\ Len(Sgr(s)) = Len(s) + 3
           /\ Sgr(s)[1] = "ESC" /\ Sgr(s)[2] = Bracket
           /\ \A k \in 1 .. Len(s) : Sgr(s)[k + 2] = s[k]
           /\ Sgr(s)[Len(s) + 3] = "m"
<1> DEFINE open == <<"ESC", Bracket>>
           close == <<"m">>
           v == open \o s
           u == v \o close
           m == Len(s)
<1>1. Sgr(s) = u
  BY Zenon DEF Sgr, Bracket
<1>2. /\ open \in Seq(Char) /\ Len(open) = 2 /\ open[1] = "ESC" /\ open[2] = Bracket
      /\ close \in Seq(Char) /\ Len(close) = 1 /\ close[1] = "m"
  BY FrameCharacters, CharacterFacts, OneAndTwo, Zenon
<1>3. m \in Nat /\ m = Len(s)
  OBVIOUS
<1> HIDE DEF open, close
<1>4. /\ v \in Seq(Char) /\ Len(v) = 2 + Len(s)
      /\ \A k \in 1 .. 2 : v[k] = open[k]
      /\ \A k \in 1 .. Len(s) : v[2 + k] = s[k]
  <2>1. /\ v \in Seq(Char) /\ Len(v) = Len(open) + Len(s)
        /\ \A k \in 1 .. Len(open) : v[k] = open[k]
        /\ \A k \in 1 .. Len(s) : v[Len(open) + k] = s[k]
    BY <1>2, Joined, Zenon
  <2> QED
    BY <1>2, <2>1, Zenon
<1> HIDE DEF v
<1>5. /\ Len(u) = Len(v) + 1
      /\ \A k \in 1 .. Len(v) : u[k] = v[k]
      /\ \A k \in 1 .. 1 : u[Len(v) + k] = close[k]
  <2>1. /\ Len(u) = Len(v) + Len(close)
        /\ \A k \in 1 .. Len(v) : u[k] = v[k]
        /\ \A k \in 1 .. Len(close) : u[Len(v) + k] = close[k]
    BY <1>2, <1>4, Joined, Zenon
  <2> QED
    BY <1>2, <2>1, Zenon
<1> HIDE DEF u, m
<1>6. Len(v) = 2 + m
  BY <1>3, <1>4
<1>7. Len(u) = m + 3 /\ u[m + 3] = "m"
  <2>1. Len(v) + 1 = m + 3 /\ 1 \in 1 .. 1
    BY <1>3, <1>6
  <2> QED
    BY <1>2, <1>5, <2>1
<1>8. u[1] = "ESC" /\ u[2] = Bracket
  BY <1>2, <1>3, <1>4, <1>5, <1>6
<1>9. ASSUME NEW k \in 1 .. m PROVE u[k + 2] = s[k]
  <2>1. k + 2 \in 1 .. Len(v) /\ 2 + k = k + 2
    BY <1>3, <1>6
  <2>2. u[k + 2] = v[2 + k]
    BY <1>5, <2>1
  <2>3. v[2 + k] = s[k]
    BY <1>3, <1>4
  <2> QED
    BY <2>2, <2>3
<1> QED
  BY <1>1, <1>3, <1>7, <1>8, <1>9

\* log's attribute sequences are complete (log.c:15-36).
LEMMA SgrIsSane ==
    ASSUME NEW s \in Seq(Char), \A k \in 1 .. Len(s) : s[k] \in InCode
    PROVE  Sane(Sgr(s))
<1> DEFINE m == Len(s)
           u == Sgr(s)
<1>1. /\ m \in Nat /\ Len(u) = m + 3
      /\ u[1] = "ESC" /\ u[2] = Bracket /\ u[m + 3] = "m"
      /\ \A k \in 1 .. m : u[k + 2] = s[k] /\ s[k] \in InCode
  BY SgrCharacters
<1> HIDE DEF m, u
<1>2. \A k \in 3 .. (m + 2) : u[k] \in InCode
  <2> TAKE k \in 3 .. (m + 2)
  <2>1. k - 2 \in 1 .. m /\ (k - 2) + 2 = k
    BY <1>1
  <2> QED
    BY <1>1, <2>1
<1>3. SequenceAt(u, 1)
  <2>1. /\ m + 3 \in (1 + 2) .. Len(u) /\ u[1 + 1] = Bracket
        /\ \A k \in (1 + 2) .. ((m + 3) - 1) : u[k] \in InCode
    BY <1>1, <1>2
  <2> QED
    BY <1>1, <2>1 DEF SequenceAt
<1>4. ASSUME NEW j \in 1 .. (m + 3), u[j] = "ESC" PROVE j = 1
  BY <1>1, <1>2, <1>4, CharacterFacts
<1> QED
  BY <1>1, <1>3, <1>4 DEF Sane, u

\* Sequences of one, two and four characters.
LEMMA SgrTexts ==
    ASSUME NEW a \in InCode, NEW b \in InCode, NEW c \in InCode, NEW d \in InCode
    PROVE  /\ Sgr(<< a >>) \in Seq(Char) /\ Sane(Sgr(<< a >>))
           /\ Sgr(<< a, b >>) \in Seq(Char) /\ Sane(Sgr(<< a, b >>))
           /\ Sgr(<< a, b, c, d >>) \in Seq(Char) /\ Sane(Sgr(<< a, b, c, d >>))
<1> DEFINE one  == << a >>
           two  == << a, b >>
           four == << a, b, c, d >>
<1>1. a \in Char /\ b \in Char /\ c \in Char /\ d \in Char
  BY CharacterFacts
<1>2. /\ one \in Seq(Char) /\ \A k \in 1 .. Len(one) : one[k] \in InCode
      /\ two \in Seq(Char) /\ \A k \in 1 .. Len(two) : two[k] \in InCode
      /\ four \in Seq(Char) /\ \A k \in 1 .. Len(four) : four[k] \in InCode
  BY <1>1
<1> HIDE DEF one, two, four
<1>3. /\ Sgr(one) \in Seq(Char) /\ Sane(Sgr(one))
      /\ Sgr(two) \in Seq(Char) /\ Sane(Sgr(two))
      /\ Sgr(four) \in Seq(Char) /\ Sane(Sgr(four))
  BY <1>2, SgrIsText, SgrIsSane
<1> QED
  BY <1>3 DEF one, two, four

\* A text that begins with a sequence, with more behind it.
LEMMA BeginsJoin ==
    ASSUME NEW s \in Seq(Char), NEW t \in Seq(Char), Begins(s, 1)
    PROVE  Begins(s \o t, 1)
<1> DEFINE m == Len(s)
           u == s \o t
<1>1. /\ m \in Nat /\ m >= 4 /\ s[1] = "ESC" /\ s[2] = Bracket /\ s[3] = "1" /\ s[4] = "m"
  BY DEF Begins
<1>2. Len(u) = m + Len(t) /\ Len(t) \in Nat /\ \A k \in 1 .. m : u[k] = s[k]
  OBVIOUS
<1> HIDE DEF m, u
<1>3. u[1] = s[1] /\ u[2] = s[2] /\ u[3] = s[3] /\ u[4] = s[4] /\ Len(u) >= 4
  BY <1>1, <1>2
<1> QED
  BY <1>1, <1>3 DEF Begins, u

\* A new line may come first.
LEMMA NewLineOpens ==
    ASSUME NEW first \in {<< >>, <<"CR", "LF">>}, NEW t \in Seq(Char), Begins(t, 1)
    PROVE  Opens(first \o t) /\ first \o t \in Seq(Char)
<1>1. /\ Len(t) \in Nat /\ Len(t) >= 4
      /\ t[1] = "ESC" /\ t[2] = Bracket /\ t[3] = "1" /\ t[4] = "m"
  BY DEF Begins
<1>2. CASE first = << >>
  <2>1. first \o t = t
    BY <1>2
  <2>2. 1 \in 1 .. Len(t) /\ \A j \in 1 .. (1 - 1) : t[j] \in {"CR", "LF"}
    BY <1>1
  <2>3. Opens(t)
    BY <2>2, Zenon DEF Opens
  <2> QED
    BY <2>1, <2>3, Zenon
<1>3. CASE first = <<"CR", "LF">>
  <2> DEFINE m == Len(t)
             u == first \o t
  <2>1. first \in Seq(Char) /\ Len(first) = 2 /\ first[1] = "CR" /\ first[2] = "LF"
    BY <1>3, FrameCharacters, OneAndTwo, Zenon
  <2>2. /\ u \in Seq(Char) /\ Len(u) = 2 + m /\ m \in Nat /\ m >= 4
        /\ \A k \in 1 .. 2 : u[k] = first[k]
        /\ \A k \in 1 .. m : u[2 + k] = t[k]
    BY <1>1, <2>1, Joined, Zenon
  <2> HIDE DEF m, u
  <2>3. u[2 + 1] = t[1] /\ u[2 + 2] = t[2] /\ u[2 + 3] = t[3] /\ u[2 + 4] = t[4]
    BY <2>2
  <2>4. 3 + 3 <= Len(u) /\ 3 \in 1 .. Len(u)
    BY <2>2
  <2>5. Begins(u, 3)
    BY <1>1, <2>3, <2>4 DEF Begins
  <2>6. \A j \in 1 .. (3 - 1) : u[j] \in {"CR", "LF"}
    BY <2>1, <2>2
  <2>7. Opens(u)
    BY <2>4, <2>5, <2>6 DEF Opens
  <2> QED
    BY <2>2, <2>7 DEF u
<1> QED
  BY <1>2, <1>3

\* A text in front of the reset.
LEMMA ResetJoin ==
    ASSUME NEW s \in Seq(Char)
    PROVE  EndsReset((s \o Sgr(<<"0">>)) \o <<"CR", "LF">>)
<1> DEFINE z == <<"0">>
           g == Sgr(z)
           e == <<"CR", "LF">>
           v == s \o g
           u == v \o e
           m == Len(s)
<1>1. z \in Seq(Char) /\ Len(z) = 1 /\ z[1] = "0"
  BY FrameCharacters, OneAndTwo, Zenon
<1>2. e \in Seq(Char) /\ Len(e) = 2 /\ e[1] = "CR" /\ e[2] = "LF"
  BY FrameCharacters, OneAndTwo, Zenon
<1> HIDE DEF z, e
<1>3. /\ g \in Seq(Char) /\ Len(g) = 4
      /\ g[1] = "ESC" /\ g[2] = Bracket /\ g[3] = "0" /\ g[4] = "m"
  <2>1. g \in Seq(Char) /\ Len(g) = Len(z) + 3 /\ g[1] = "ESC" /\ g[2] = Bracket
        /\ g[1 + 2] = z[1] /\ g[Len(z) + 3] = "m"
    <3>1. 1 \in 1 .. Len(z)
      BY <1>1
    <3> QED
      BY <1>1, <3>1, SgrIsText, SgrCharacters, Zenon
  <2>2. 1 + 2 = 3 /\ Len(z) + 3 = 4
    BY <1>1
  <2> QED
    BY <1>1, <2>1, <2>2, Zenon
<1> HIDE DEF g
<1>4. /\ v \in Seq(Char) /\ Len(v) = Len(s) + 4 /\ Len(s) \in Nat
      /\ \A k \in 1 .. 4 : v[Len(s) + k] = g[k]
  <2>1. /\ v \in Seq(Char) /\ Len(v) = Len(s) + Len(g) /\ Len(s) \in Nat
        /\ \A k \in 1 .. Len(g) : v[Len(s) + k] = g[k]
    BY <1>3, Joined, Zenon
  <2> QED
    BY <1>3, <2>1, Zenon
<1> HIDE DEF v
<1>5. /\ Len(u) = Len(v) + 2 /\ \A k \in 1 .. Len(v) : u[k] = v[k]
      /\ \A k \in 1 .. 2 : u[Len(v) + k] = e[k]
  <2>1. /\ Len(u) = Len(v) + Len(e) /\ \A k \in 1 .. Len(v) : u[k] = v[k]
        /\ \A k \in 1 .. Len(e) : u[Len(v) + k] = e[k]
    BY <1>2, <1>4, Joined, Zenon
  <2> QED
    BY <1>2, <2>1, Zenon
<1>6. m \in Nat /\ Len(v) = m + 4 /\ \A k \in 1 .. 4 : v[m + k] = g[k]
  BY <1>4
<1> HIDE DEF u, m
<1>7. Len(u) = m + 6
  BY <1>5, <1>6
<1>8. /\ u[m + 1] = v[m + 1] /\ u[m + 2] = v[m + 2] /\ u[m + 3] = v[m + 3]
      /\ u[m + 4] = v[m + 4]
  BY <1>5, <1>6
<1>9. /\ v[m + 1] = g[1] /\ v[m + 2] = g[2] /\ v[m + 3] = g[3] /\ v[m + 4] = g[4]
  BY <1>6
<1>10. u[m + 5] = e[1] /\ u[m + 6] = e[2]
  <2>1. Len(v) + 1 = m + 5 /\ Len(v) + 2 = m + 6
    BY <1>6
  <2>2. u[Len(v) + 1] = e[1] /\ u[Len(v) + 2] = e[2]
    BY <1>5
  <2> QED
    BY <2>1, <2>2
<1>11. /\ u[m + 1] = "ESC" /\ u[m + 2] = Bracket /\ u[m + 3] = "0" /\ u[m + 4] = "m"
       /\ u[m + 5] = "CR" /\ u[m + 6] = "LF"
  BY <1>2, <1>3, <1>8, <1>9, <1>10
<1>12. /\ ResetTail[1] = "ESC" /\ ResetTail[2] = Bracket /\ ResetTail[3] = "0"
       /\ ResetTail[4] = "m" /\ ResetTail[5] = "CR" /\ ResetTail[6] = "LF"
  BY DEF ResetTail
<1>13. ASSUME NEW k \in 0 .. 5 PROVE u[Len(u) - k] = ResetTail[6 - k]
  <2>1. Len(u) - k = m + (6 - k)
    BY <1>6, <1>7
  <2>2. 6 - k \in 1 .. 6
    OBVIOUS
  <2>3. \A i \in 1 .. 6 : u[m + i] = ResetTail[i]
    <3> TAKE i \in 1 .. 6
    <3>1. i = 1 \/ i = 2 \/ i = 3 \/ i = 4 \/ i = 5 \/ i = 6
      OBVIOUS
    <3> QED
      BY <1>11, <1>12, <3>1
  <2> QED
    BY <2>1, <2>2, <2>3
<1>14. EndsReset(u)
  BY <1>13 DEF EndsReset
<1> QED
  BY <1>14 DEF u, v, g, e, z

\* More in front of it changes nothing.
LEMMA EndsJoin ==
    ASSUME NEW s \in Seq(Char), NEW t \in Seq(Char), EndsReset(t), Len(t) >= 6
    PROVE  EndsReset(s \o t)
<1> DEFINE m == Len(s)
           n == Len(t)
           u == s \o t
<1>1. /\ m \in Nat /\ n \in Nat /\ n >= 6 /\ Len(u) = m + n
      /\ \A k \in 1 .. n : u[m + k] = t[k]
  OBVIOUS
<1>2. \A k \in 0 .. 5 : k < n => t[n - k] = ResetTail[6 - k]
  BY DEF EndsReset
<1> HIDE DEF m, n, u
<1>3. ASSUME NEW k \in 0 .. 5 PROVE u[Len(u) - k] = ResetTail[6 - k]
  <2>1. n - k \in 1 .. n /\ k < n
    BY <1>1
  <2>2. Len(u) - k = m + (n - k)
    BY <1>1
  <2> QED
    BY <1>1, <1>2, <2>1, <2>2
<1> QED
  BY <1>3 DEF EndsReset, u

\* So are the colours of the levels (log.c:15-22).
LEMMA LevelIsSane == \A level \in DOMAIN LevelColor : Sane(LevelColor[level])
<1> DEFINE zero   == << "0" >>
           grey   == << "3", "7" >>
           yellow == << "3", "3" >>
           mixed  == << "0", ";", "3", "1" >>
           red    == << "3", "1" >>
           bang   == << " ", "!", " " >>
<1>1. /\ Sane(Sgr(zero)) /\ Sane(Sgr(grey)) /\ Sane(Sgr(yellow)) /\ Sane(Sgr(mixed))
      /\ Sgr(red) \in Seq(Char) /\ Sane(Sgr(red))
  <2>1. "0" \in InCode /\ "1" \in InCode /\ "3" \in InCode /\ "7" \in InCode /\ ";" \in InCode
    BY Zenon DEF InCode
  <2> QED
    BY <2>1, SgrTexts, Zenon
<1>2. bang \in Seq(Char) /\ Sane(bang)
  <2> DEFINE a == " "
             b == "!"
  <2>1. a \in Char /\ b \in Char /\ a # "ESC" /\ b # "ESC"
    BY FrameCharacters, Zenon
  <2> HIDE DEF a, b
  <2>2. /\ << a, b, a >> \in Seq(Char)
        /\ \A j \in 1 .. Len(<< a, b, a >>) : << a, b, a >>[j] # "ESC"
    BY <2>1
  <2>3. Sane(<< a, b, a >>)
    BY <2>2, SaneWithout
  <2> QED
    BY <2>2, <2>3, Zenon DEF a, b
<1>3. LevelColor = [verbose |-> Sgr(zero), debug |-> Sgr(zero), info |-> Sgr(grey),
                    warn |-> Sgr(yellow), error |-> Sgr(mixed), fatal |-> Sgr(red) \o bang]
  BY Zenon DEF LevelColor
<1> HIDE DEF zero, grey, yellow, mixed, red, bang
<1>4. Sane(Sgr(red) \o bang)
  BY <1>1, <1>2, SaneJoin
<1> DEFINE a == Sgr(zero)
           b == Sgr(grey)
           c == Sgr(yellow)
           d == Sgr(mixed)
           e == Sgr(red) \o bang
<1>5. /\ LevelColor = [verbose |-> a, debug |-> a, info |-> b, warn |-> c, error |-> d,
                       fatal |-> e]
      /\ Sane(a) /\ Sane(b) /\ Sane(c) /\ Sane(d) /\ Sane(e)
  BY <1>1, <1>3, <1>4
<1> HIDE DEF a, b, c, d, e
<1> QED
  BY <1>5

\* A log line: its escape sequences are complete, it begins with one and ends
\* with the reset (log.c:23-45).
LEMMA LogHeals ==
    ASSUME NEW c, NEW module \in Line, NEW level \in DOMAIN LevelColor, NEW msg \in Line
    PROVE  /\ Sane(LogText(c, module, level, msg))
           /\ EndsReset(LogText(c, module, level, msg))
           /\ Opens(LogText(c, module, level, msg))
<1> DEFINE one    == << "1" >>
           yellow == << "3", "3" >>
           cyan   == << "3", "6" >>
           zero   == << "0" >>
           open   == << "[" >>
           shut   == << "]" >>
           space  == << " " >>
           bang   == << " ", "!" >>
           crlf   == << "CR", "LF" >>
           none   == << >>
           tail   == IF level = "fatal" THEN bang ELSE none
           first  == IF c.x # 0 THEN crlf ELSE none
           Piece(t) == t \in Seq(Char) /\ Sane(t)
           More(s) == Piece(s) /\ Begins(s, 1)
<1>1. Piece(open) /\ Piece(shut) /\ Piece(space) /\ Piece(bang) /\ Piece(crlf)
  <2>1. \A a \in Char : a # "ESC" => Piece(<< a >>)
    <3> TAKE a \in Char
    <3>1. /\ << a >> \in Seq(Char)
          /\ (a # "ESC" => \A j \in 1 .. Len(<< a >>) : << a >>[j] # "ESC")
      OBVIOUS
    <3> QED
      BY <3>1, SaneWithout, Zenon
  <2>2. \A a, b \in Char : a # "ESC" /\ b # "ESC" => Piece(<< a, b >>)
    <3> TAKE a, b \in Char
    <3>1. << a, b >> \in Seq(Char)
          /\ (a # "ESC" /\ b # "ESC" =>
                \A j \in 1 .. Len(<< a, b >>) : << a, b >>[j] # "ESC")
      OBVIOUS
    <3> QED
      BY <3>1, SaneWithout, Zenon
  <2> HIDE DEF Piece
  <2>3. /\ "[" # "ESC" /\ "]" # "ESC" /\ " " # "ESC"
        /\ "!" # "ESC" /\ "CR" # "ESC" /\ "LF" # "ESC"
    BY Zenon
  <2>4. Piece(open) /\ Piece(shut) /\ Piece(space)
    BY <2>1, <2>3, FrameCharacters, Zenon
  <2>5. Piece(bang) /\ Piece(crlf)
    BY <2>2, <2>3, FrameCharacters, Zenon
  <2> QED
    BY <2>4, <2>5
<1>2. Piece(none)
  <2>1. none \in Seq(Char) /\ \A j \in 1 .. Len(none) : none[j] # "ESC"
    OBVIOUS
  <2> QED
    BY <2>1, SaneWithout, Zenon
<1>3. Piece(Sgr(one)) /\ Piece(Sgr(yellow)) /\ Piece(Sgr(cyan)) /\ Piece(Sgr(zero))
  <2>1. "0" \in InCode /\ "1" \in InCode /\ "3" \in InCode /\ "6" \in InCode
    BY Zenon DEF InCode
  <2> QED
    BY <2>1, SgrTexts, Zenon
<1>4. Piece(module) /\ Piece(msg) /\ Piece(LevelColor[level])
  BY LinesAreSane, LevelIsSane, LevelIsText, Zenon
<1>5. Begins(Sgr(one), 1)
  <2>1. one \in Seq(Char) /\ Len(one) = 1 /\ one[1] = "1" /\ 1 \in 1 .. Len(one)
    <3>1. one \in Seq(Char) /\ Len(one) = 1 /\ one[1] = "1"
      BY FrameCharacters, OneAndTwo, Zenon
    <3> QED
      BY <3>1
  <2> HIDE DEF one
  <2>2. /\ Len(Sgr(one)) = Len(one) + 3
        /\ Sgr(one)[1] = "ESC" /\ Sgr(one)[2] = Bracket
        /\ Sgr(one)[1 + 2] = one[1] /\ Sgr(one)[Len(one) + 3] = "m"
    BY <2>1, SgrCharacters, Zenon
  <2> QED
    BY <2>1, <2>2 DEF Begins
<1>6. Piece(tail) /\ first \in {<< >>, <<"CR", "LF">>}
  BY <1>1, <1>2, Zenon
<1>7. LogText(c, module, level, msg) =
        first \o (((((((((((((Sgr(one) \o Sgr(yellow)) \o open) \o Sgr(cyan)) \o module)
          \o Sgr(one)) \o Sgr(yellow)) \o shut) \o LevelColor[level]) \o space) \o msg)
          \o tail) \o Sgr(zero)) \o crlf)
  BY Zenon DEF LogText, LogLine
<1> HIDE DEF one, yellow, cyan, open, shut, space, bang, none, tail, first
<1>8. \A s, t : More(s) /\ Piece(t) => More(s \o t)
  <2> SUFFICES ASSUME NEW s, NEW t, More(s), Piece(t) PROVE More(s \o t)
    BY Zenon
  <2>1. s \o t \in Seq(Char)
    BY TextsJoin
  <2> QED
    BY <2>1, SaneJoin, BeginsJoin
<1>9. More(Sgr(one))
  BY <1>3, <1>5
<1> DEFINE head == ((((((((((Sgr(one) \o Sgr(yellow)) \o open) \o Sgr(cyan)) \o module)
                      \o Sgr(one)) \o Sgr(yellow)) \o shut) \o LevelColor[level])
                      \o space) \o msg)
           front == head \o tail
           line == (front \o Sgr(zero)) \o crlf
<1> HIDE DEF Piece, More
<1>10. More((((Sgr(one) \o Sgr(yellow)) \o open) \o Sgr(cyan)) \o module)
  BY <1>1, <1>3, <1>4, <1>8, <1>9, Zenon
<1>11. More(((((((Sgr(one) \o Sgr(yellow)) \o open) \o Sgr(cyan)) \o module)
                      \o Sgr(one)) \o Sgr(yellow)) \o shut)
  BY <1>1, <1>3, <1>8, <1>10, Zenon
<1>12. More(head)
  BY <1>1, <1>4, <1>8, <1>11, Zenon
<1> HIDE DEF head
<1>13. More(front)
  BY <1>6, <1>8, <1>12, Zenon
<1> HIDE DEF front
<1>14. More(line)
  BY <1>1, <1>3, <1>8, <1>13, Zenon
<1>15. front \in Seq(Char) /\ Len(front) \in Nat
  BY <1>13 DEF More, Piece
<1>16. EndsReset(line)
  BY <1>15, ResetJoin, Zenon DEF zero, crlf
<1>17. Len(line) >= 6
  <2>1. Sgr(zero) \in Seq(Char) /\ crlf \in Seq(Char)
    BY <1>1, <1>3 DEF Piece
  <2>2. /\ front \o Sgr(zero) \in Seq(Char)
        /\ Len(front \o Sgr(zero)) = Len(front) + Len(Sgr(zero))
    BY <1>15, <2>1, Joined, Zenon
  <2>3. Len(line) = Len(front \o Sgr(zero)) + Len(crlf)
    BY <2>1, <2>2, Joined, Zenon
  <2>4. Len(crlf) = 2
    BY DEF crlf
  <2>5. zero \in Seq(Char) /\ Len(zero) = 1
    BY FrameCharacters, OneAndTwo, Zenon DEF zero
  <2>6. Len(Sgr(zero)) = Len(zero) + 3
    BY <2>5, SgrCharacters, Zenon
  <2> DEFINE n == Len(line)
             m == Len(front \o Sgr(zero))
             k == Len(Sgr(zero))
  <2>7. n = m + 2 /\ m = Len(front) + k /\ k = 1 + 3
    BY <2>2, <2>3, <2>4, <2>5, <2>6, Zenon
  <2> HIDE DEF n, m, k
  <2>8. n >= 6
    BY <1>15, <2>7
  <2> QED
    BY <2>8 DEF n
<1> HIDE DEF line, zero, crlf
<1>18. line \in Seq(Char) /\ Sane(line) /\ Begins(line, 1)
  BY <1>14, Zenon DEF More, Piece
<1>19. Opens(first \o line)
  BY <1>6, <1>18, NewLineOpens, Zenon
<1>20. first \in Seq(Char) /\ Sane(first)
  BY <1>1, <1>2, Zenon DEF Piece, first, crlf, none
<1>21. Sane(first \o line) /\ EndsReset(first \o line)
  BY <1>16, <1>17, <1>18, <1>20, SaneJoin, EndsJoin, Zenon
<1> QED
  BY <1>7, <1>19, <1>21, Zenon DEF line, front, head

\* The bytes that make the parser look for a complete sequence (ansi.c:17).
LEMMA FinalBytes == IsFinal("m") /\ ~ IsFinal("0") /\ Ascii["0"] = 48
<1>1. Ascii["m"] = 109 /\ Ascii["0"] = 48
  <2>1. "m" \in Char /\ "0" \in Char
    BY FrameCharacters, Zenon
  <2> QED
    BY <2>1 DEF Char, Ascii
<1> QED
  BY <1>1 DEF IsFinal

\* The search finds the first occurrence, when no NUL is in front of one, and
\* nothing from a NUL on (string.c:50-69).
LEMMA FindFirst ==
    ASSUME NEW buf, NEW j \in Nat, NEW c, NEW k \in j .. (BufSize - 1), buf[k] = c,
           \A i \in j .. k : buf[i] # "NUL"
    PROVE  /\ Find(buf, j, c) \in j .. k
           /\ buf[Find(buf, j, c)] = c
<1> DEFINE Hits == {i \in j .. (BufSize - 1) :
                      buf[i] = c /\ \A m \in j .. i : buf[m] # "NUL"}
<1>1. Find(buf, j, c) = IF Hits = {} THEN BufSize ELSE Min(Hits)
  BY DEF Find
<1>2. k \in Hits
  OBVIOUS
<1>3. Hits \in SUBSET Nat /\ Hits # {} /\ \A i \in Hits : i >= j /\ buf[i] = c
  BY <1>2, BufSizeAssumption
<1> HIDE DEF Hits
<1>4. Min(Hits) \in Hits /\ Min(Hits) <= k
  BY <1>2, <1>3, LeastMember
<1>5. Find(buf, j, c) = Min(Hits)
  BY <1>1, <1>3, Zenon
<1>6. Min(Hits) \in Nat /\ Min(Hits) >= j /\ buf[Min(Hits)] = c
  BY <1>3, <1>4
<1>7. k \in Int
  OBVIOUS
<1> QED
  BY <1>4, <1>5, <1>6, <1>7

\* What is not in the buffer is not found.
LEMMA FindNothing ==
    ASSUME NEW buf, NEW j \in Nat, NEW c, buf[j] = "NUL"
    PROVE  Find(buf, j, c) = BufSize
<1> DEFINE Hits == {i \in j .. (BufSize - 1) :
                      buf[i] = c /\ \A m \in j .. i : buf[m] # "NUL"}
<1>1. Find(buf, j, c) = IF Hits = {} THEN BufSize ELSE Min(Hits)
  BY DEF Find
<1>2. ASSUME NEW i \in Hits PROVE FALSE
  <2>1. j \in j .. i
    BY BufSizeAssumption
  <2> QED
    BY <2>1
<1>3. Hits = {}
  BY <1>2
<1> QED
  BY <1>1, <1>3, Zenon

\* What is searched for.
LEMMA SearchDefs ==
    ASSUME NEW buf
    PROVE  /\ CodeStart(buf) = Find(buf, 0, Bracket) + 1
           /\ CodeEnd(buf) = IF CodeStart(buf) > BufSize THEN BufSize
                             ELSE Find(buf, CodeStart(buf), "m")
BY Zenon DEF CodeStart, CodeEnd, Bracket

\* An 'm' behind a '[' completes the sequence (ansi.c:17-25).
LEMMA CompleteAtEnd ==
    ASSUME NEW buf, NEW n \in 0 .. (BufSize - 1), NEW j \in 0 .. (n - 1),
           \A i \in 0 .. (n - 1) : buf[i] # "NUL", buf[j] = Bracket, buf[n] = "m"
    PROVE  IsComplete(buf)
<1> DEFINE a == Find(buf, 0, Bracket)
           end == "m"
<1>1. n \in Nat /\ j \in Nat /\ j < n /\ j \in 0 .. (BufSize - 1) /\ BufSize \in Nat
  BY BufSizeAssumption
<1>2. a \in 0 .. j
  BY <1>1, FindFirst
<1>3. CodeStart(buf) = a + 1 /\ a + 1 \in Nat /\ a + 1 <= n /\ ~ (a + 1 > BufSize)
  BY <1>1, <1>2, SearchDefs
<1>4. buf[n] # "NUL"
  BY Zenon
<1>5. \A i \in (a + 1) .. n : buf[i] # "NUL"
  <2> TAKE i \in (a + 1) .. n
  <2>1. i = n \/ i \in 0 .. (n - 1)
    BY <1>1, <1>2
  <2> QED
    BY <1>4, <2>1
<1>6. CodeEnd(buf) = Find(buf, a + 1, end)
  BY <1>3, SearchDefs, Zenon
<1> HIDE DEF a
<1>7. buf[n] = end /\ n \in (a + 1) .. (BufSize - 1)
  BY <1>1, <1>3
<1> HIDE DEF end
<1>8. Find(buf, a + 1, end) \in (a + 1) .. n
  BY <1>3, <1>5, <1>7, FindFirst
<1> QED
  BY <1>1, <1>6, <1>8 DEF IsComplete

\* A '[' alone is not a sequence.
LEMMA BracketAlone ==
    ASSUME NEW buf, 1 < BufSize, buf[0] = Bracket, buf[1] = "NUL"
    PROVE  ~ IsComplete(buf)
<1>1. 0 \in 0 .. (BufSize - 1) /\ \A i \in 0 .. 0 : buf[i] # "NUL"
  BY CharacterFacts, BufSizeAssumption
<1>2. Find(buf, 0, Bracket) \in 0 .. 0
  BY <1>1, FindFirst
<1>3. CodeStart(buf) = 1 /\ ~ (1 > BufSize)
  BY <1>2, SearchDefs, BufSizeAssumption
<1>4. CodeEnd(buf) = Find(buf, 1, "m")
  BY <1>3, SearchDefs, Zenon
<1>5. Find(buf, 1, "m") = BufSize
  BY FindNothing
<1> QED
  BY <1>4, <1>5, BufSizeAssumption DEF IsComplete

\* ESC [ 0 m: the code stands at position 1 of the buffer.
LEMMA ResetComplete ==
    ASSUME NEW buf, 2 < BufSize, buf[0] = Bracket, buf[1] = "0", buf[2] = "m"
    PROVE  CodeStart(buf) = 1 /\ CodeEnd(buf) = 2
<1> DEFINE end == "m"
<1>1. /\ 0 \in 0 .. (BufSize - 1) /\ \A i \in 0 .. 0 : buf[i] # "NUL"
      /\ BufSize \in Nat
  BY CharacterFacts, BufSizeAssumption
<1>2. Find(buf, 0, Bracket) \in 0 .. 0
  BY <1>1, FindFirst
<1>3. CodeStart(buf) = 1 /\ ~ (1 > BufSize)
  BY <1>1, <1>2, SearchDefs
<1>4. CodeEnd(buf) = Find(buf, 1, end)
  BY <1>3, SearchDefs, Zenon
<1>5. buf[1] # "NUL" /\ buf[2] # "NUL" /\ buf[2] = end /\ buf[1] # end
  BY Zenon
<1>6. \A i \in 1 .. 2 : buf[i] # "NUL"
  BY <1>5
<1> HIDE DEF end
<1>7. 2 \in 1 .. (BufSize - 1)
  BY <1>1
<1>8. Find(buf, 1, end) \in 1 .. 2 /\ buf[Find(buf, 1, end)] = end
  BY <1>5, <1>6, <1>7, FindFirst
<1>9. Find(buf, 1, end) # 1
  BY <1>5, <1>8, Zenon
<1> QED
  BY <1>3, <1>4, <1>8, <1>9

\* The number a text of one digit stands for (string.c's atoi).
LEMMA AtoiOne ==
    ASSUME NEW s, DOMAIN s = {1}, Ascii[s[1]] = 48
    PROVE  atoi(s) = 0
<1> DEFINE D == DOMAIN s
           Op(res, c) == res * 10 + (Ascii[c] - 48)
           Body(g, t) == IF t = {} THEN 0 ELSE Op(g[t \ {Max(t)}], s[Max(t)])
           G == [t \in SUBSET D |-> 0]
           iter == CHOOSE g : g = [t \in SUBSET D |-> Body(g, t)]
<1>1. atoi(s) = iter[D]
  BY Zenon DEF atoi, FoldLeft, MapThenFoldSet
<1>2. D = {1}
  OBVIOUS
<1>3. Max({1}) = 1
  BY DEF Max
<1>4. {1} \ {1} = {} /\ {1} # {}
  OBVIOUS
<1>5. SUBSET D = {{}, {1}}
  BY <1>2
<1> HIDE DEF D
<1>6. \A g : Body(g, {}) = 0 /\ Body(g, {1}) = Op(g[{}], s[1])
  BY <1>3, <1>4
<1>7. Op(0, s[1]) = 0
  OBVIOUS
<1> HIDE DEF Op
<1>8. G[{}] = 0 /\ G[{1}] = 0
  BY <1>5
<1>9. Body(G, {}) = 0 /\ Body(G, {1}) = 0
  BY <1>6, <1>7, <1>8
<1> HIDE DEF Body
<1>10. G = [t \in SUBSET D |-> Body(G, t)]
  BY <1>5, <1>9
<1>11. iter = [t \in SUBSET D |-> Body(iter, t)]
  BY <1>10
<1> HIDE DEF iter, G
<1>12. iter[{}] = 0
  BY <1>11, <1>5, <1>6
<1>13. iter[{1}] = Body(iter, {1})
  BY <1>11, <1>5
<1> QED
  BY <1>1, <1>2, <1>6, <1>7, <1>12, <1>13

\* The code of the reset is 0.
LEMMA ResetCode ==
    ASSUME NEW buf, buf[1] = "0"
    PROVE  CodeAt(buf, 1, 2) = 0
<1> DEFINE s == [k \in 1 .. (2 - 1) |-> buf[1 + k - 1]]
<1>1. CodeAt(buf, 1, 2) = atoi(s)
  BY Zenon DEF CodeAt
<1>2. DOMAIN s = {1}
  OBVIOUS
<1>3. s[1] = buf[1]
  OBVIOUS
<1> HIDE DEF s
<1>4. Ascii[s[1]] = 48
  BY <1>3, FinalBytes, Zenon
<1> QED
  BY <1>1, <1>2, <1>4, AtoiOne

\* The default attributes.
Default(c) == c.fg = "LGRAY" /\ c.bg = "BLACK" /\ ~ c.bold

\* Code 0 restores them (ansi.c:35-40).
LEMMA ResetRestores == ASSUME NEW c \in Console PROVE Default(ApplyCode(c, 0))
<1>1. ApplyCode(c, 0) = [c EXCEPT !.fg = "LGRAY", !.bg = "BLACK", !.bold = FALSE]
  BY DEF ApplyCode
<1> QED
  BY <1>1 DEF Default, Console

\* The first len characters of the buffer hold no NUL.
Whole(buf, len) == \A j \in 0 .. (len - 1) : buf[j] # "NUL"

\* A sequence is being read, and the text goes on with the rest of it.
Middle(t, buf, len) ==
    /\ Whole(buf, len)
    /\ t[1] = Bracket \/ \E j \in 0 .. (len - 1) : buf[j] = Bracket
    /\ \E e \in 1 .. Len(t) :
        t[e] = "m" /\ \A k \in 1 .. (e - 1) : t[k] \in InCode \/ (k = 1 /\ t[k] = Bracket)

\* Where the escape parser is, with len characters in the buffer, when t has
\* still to be printed.  Before the reset: outside a sequence, inside one that
\* the text completes, or with anything the first sequence of the line will
\* complete.  In the reset itself: exactly the characters of it.
Heals(t, c, len) ==
    IF Len(t) > 5 THEN \/ ~ c.esc /\ len = 0
                       \/ c.esc /\ Middle(t, c.buf, len)
                       \/ Whole(c.buf, len) /\ Opens(t)
    ELSE /\ Len(t) = 5 => c.esc /\ len = 0
         /\ Len(t) = 4 => c.esc /\ len = 1 /\ c.buf[0] = Bracket
         /\ Len(t) = 3 => c.esc /\ len = 2 /\ c.buf[0] = Bracket /\ c.buf[1] = "0"
         /\ Len(t) <= 2 => ~ c.esc /\ len = 0

\* It depends on the characters in the buffer only.
LEMMA HealsSame ==
    ASSUME NEW t, NEW c, NEW d, NEW len \in Nat, Heals(t, c, len),
           c.esc <=> d.esc, \A j \in 0 .. (len - 1) : d.buf[j] = c.buf[j]
    PROVE  Heals(t, d, len)
<1>1. Whole(c.buf, len) => Whole(d.buf, len)
  BY DEF Whole
<1>2. Middle(t, c.buf, len) => Middle(t, d.buf, len)
  BY <1>1 DEF Middle
<1>3. /\ len = 1 => d.buf[0] = c.buf[0]
      /\ len = 2 => d.buf[0] = c.buf[0] /\ d.buf[1] = c.buf[1]
  BY Z3
<1> QED
  BY <1>1, <1>2, <1>3 DEF Heals

\* An opening or the rest of a sequence, one character further on.
LEMMA OpensTail ==
    ASSUME NEW t \in Seq(Char), t # << >>, Opens(t)
    PROVE  /\ t[1] \in {"CR", "LF", "ESC"}
           /\ t[1] # "ESC" => Opens(Tail(t))
           /\ t[1] = "ESC" => t[2] = Bracket /\ t[3] = "1"
                              /\ \A buf, len : Whole(buf, len) => Middle(Tail(t), buf, len)
<1> DEFINE u == Tail(t)
           n == Len(t)
<1>1. n \in Nat /\ n > 0 /\ Len(u) = n - 1 /\ \A j \in 1 .. (n - 1) : u[j] = t[j + 1]
  BY TailShifts
<1>2. PICK p \in 1 .. n : Begins(t, p) /\ \A j \in 1 .. (p - 1) : t[j] \in {"CR", "LF"}
  BY DEF Opens
<1>3. /\ p + 3 <= n
      /\ t[p] = "ESC" /\ t[p + 1] = Bracket /\ t[p + 2] = "1" /\ t[p + 3] = "m"
  BY <1>2 DEF Begins
<1> HIDE DEF u, n
<1>4. CASE p = 1
  <2>1. t[1] = "ESC" /\ t[2] = Bracket /\ t[3] = "1" /\ t[4] = "m"
    BY <1>3, <1>4
  <2>2. u[1] = t[1 + 1] /\ u[2] = t[2 + 1] /\ u[3] = t[3 + 1] /\ 3 \in 1 .. Len(u)
    BY <1>1, <1>3, <1>4
  <2>3. u[1] = Bracket /\ u[2] = "1" /\ u[3] = "m"
    BY <2>1, <2>2
  <2>4. "1" \in InCode
    BY Zenon DEF InCode
  <2>5. \A k \in 1 .. (3 - 1) : u[k] \in InCode \/ (k = 1 /\ u[k] = Bracket)
    BY <2>3, <2>4
  <2>6. \A buf, len : Whole(buf, len) => Middle(u, buf, len)
    BY <2>2, <2>3, <2>5, Zenon DEF Middle
  <2> QED
    BY <2>1, <2>6 DEF u
<1>5. CASE p # 1
  <2>1. 1 \in 1 .. (p - 1)
    BY <1>1, <1>2, <1>5
  <2>2. t[1] \in {"CR", "LF"}
    BY <1>2, <2>1
  <2> DEFINE q == p - 1
  <2>3. /\ q \in 1 .. Len(u) /\ q + 3 <= Len(u)
        /\ u[q] = t[q + 1] /\ u[q + 1] = t[q + 1 + 1] /\ u[q + 2] = t[q + 2 + 1]
        /\ u[q + 3] = t[q + 3 + 1]
    BY <1>1, <1>2, <1>3, <1>5
  <2>4. q + 1 = p /\ q + 1 + 1 = p + 1 /\ q + 2 + 1 = p + 2 /\ q + 3 + 1 = p + 3
    BY <1>1, <1>2
  <2>5. Begins(u, q)
    BY <1>3, <2>3, <2>4 DEF Begins
  <2>6. \A j \in 1 .. (q - 1) : u[j] \in {"CR", "LF"}
    <3> TAKE j \in 1 .. (q - 1)
    <3>1. j \in 1 .. (n - 1) /\ j + 1 \in 1 .. (p - 1)
      BY <1>1, <1>2, <1>3
    <3> QED
      BY <1>1, <1>2, <3>1
  <2>7. Opens(u)
    BY <2>3, <2>5, <2>6, Zenon DEF Opens
  <2> QED
    BY <2>2, <2>7 DEF u
<1> QED
  BY <1>4, <1>5

\* A sequence that goes on behind the next character.
LEMMA MiddleTail ==
    ASSUME NEW t \in Seq(Char), t # << >>, NEW buf, NEW len \in Nat,
           Middle(t, buf, len), buf[len] = t[1]
    PROVE  /\ t[1] \in {Bracket, "m"} \cup InCode
           /\ t[1] # "m" => Middle(Tail(t), buf, len + 1)
           /\ t[1] = "m" => \E j \in 0 .. (len - 1) : buf[j] = Bracket
           /\ Whole(buf, len + 1)
<1> DEFINE u == Tail(t)
           n == Len(t)
<1>1. n \in Nat /\ n > 0 /\ Len(u) = n - 1 /\ \A j \in 1 .. (n - 1) : u[j] = t[j + 1]
  BY TailShifts
<1>2. PICK e \in 1 .. n :
        t[e] = "m" /\ \A k \in 1 .. (e - 1) : t[k] \in InCode \/ (k = 1 /\ t[k] = Bracket)
  BY DEF Middle
<1>3. /\ Whole(buf, len)
      /\ t[1] = Bracket \/ \E j \in 0 .. (len - 1) : buf[j] = Bracket
  BY DEF Middle
<1> HIDE DEF u, n
<1>4. t[1] \in {Bracket, "m"} \cup InCode
  <2>1. e = 1 \/ 1 \in 1 .. (e - 1)
    BY <1>1, <1>2
  <2> QED
    BY <1>2, <2>1
<1>5. Whole(buf, len + 1)
  <2>1. t[1] # "NUL"
    BY <1>4, CharacterFacts
  <2>2. \A j \in 0 .. ((len + 1) - 1) : j = len \/ j \in 0 .. (len - 1)
    OBVIOUS
  <2> QED
    BY <1>3, <2>1, <2>2 DEF Whole
<1>6. ASSUME t[1] = "m" PROVE \E j \in 0 .. (len - 1) : buf[j] = Bracket
  BY <1>3, <1>6, CharacterFacts
<1>7. ASSUME t[1] # "m" PROVE Middle(u, buf, len + 1)
  <2>1. e - 1 \in 1 .. Len(u) /\ u[e - 1] = t[(e - 1) + 1] /\ (e - 1) + 1 = e
    BY <1>1, <1>2, <1>7
  <2>2. \A k \in 1 .. ((e - 1) - 1) : u[k] \in InCode \/ (k = 1 /\ u[k] = Bracket)
    <3> TAKE k \in 1 .. ((e - 1) - 1)
    <3>1. k \in 1 .. (n - 1) /\ k + 1 \in 1 .. (e - 1) /\ k + 1 # 1
      BY <1>1, <1>2
    <3>2. t[k + 1] \in InCode
      BY <1>2, <3>1
    <3> QED
      BY <1>1, <3>1, <3>2
  <2>3. \E j \in 0 .. ((len + 1) - 1) : buf[j] = Bracket
    <3>1. CASE t[1] = Bracket
      <4>1. len \in 0 .. ((len + 1) - 1)
        OBVIOUS
      <4> QED
        BY <3>1, <4>1, Zenon
    <3>2. CASE t[1] # Bracket
      <4>1. PICK j \in 0 .. (len - 1) : buf[j] = Bracket
        BY <1>3, <3>2
      <4>2. j \in 0 .. ((len + 1) - 1)
        OBVIOUS
      <4> QED
        BY <4>1, <4>2, Zenon
    <3> QED
      BY <3>1, <3>2
  <2> QED
    BY <1>2, <1>5, <2>1, <2>2, <2>3, Zenon DEF Middle
<1> QED
  BY <1>4, <1>5, <1>6, <1>7 DEF u

\* No ESC, carriage return or line feed is inside a sequence.
LEMMA MiddleFirst ==
    ASSUME NEW t, NEW buf, NEW len, Middle(t, buf, len), Len(t) \in Nat
    PROVE  t[1] \in {Bracket, "m"} \cup InCode
<1>1. PICK e \in 1 .. Len(t) :
        t[e] = "m" /\ \A k \in 1 .. (e - 1) : t[k] \in InCode \/ (k = 1 /\ t[k] = Bracket)
  BY DEF Middle
<1>2. e = 1 \/ 1 \in 1 .. (e - 1)
  BY <1>1
<1> QED
  BY <1>1, <1>2

\* A text with its sequences complete and the reset at its end, not yet empty.
Mending(t) == t \in Seq(Char) /\ t # << >> /\ Sane(t) /\ EndsReset(t)

\* ESC begins the sequence, or goes on with the one that never ended
\* (fbcon.c:25-28).
LEMMA EscStep ==
    ASSUME NEW t, Mending(t), NEW c, NEW d, NEW len \in Nat,
           Heals(t, c, len), t[1] = "ESC", d.esc, d.buf = c.buf
    PROVE  Heals(Tail(t), d, len) /\ Len(Tail(t)) > 2
<1> DEFINE u == Tail(t)
           n == Len(t)
<1>1. /\ t \in Seq(Char) /\ n \in Nat /\ n > 0 /\ Len(u) = n - 1
      /\ \A j \in 1 .. (n - 1) : u[j] = t[j + 1]
  BY TailShifts DEF Mending
<1>2. /\ n = 6 => t[2] = Bracket /\ t[3] = "0"
      /\ n = 5 => t[1] = Bracket
      /\ n = 4 => t[1] = "0"
      /\ n = 3 => t[1] = "m"
      /\ n = 2 => t[1] = "CR"
      /\ n = 1 => t[1] = "LF"
  BY LastCharacters DEF Mending
<1>3. n > 5
  <2> HIDE DEF n
  <2>1. n > 5 \/ n = 5 \/ n = 4 \/ n = 3 \/ n = 2 \/ n = 1
    <3>1. n \in Nat /\ n > 0
      BY <1>1
    <3> QED
      BY <3>1
  <2>2. Bracket # "ESC" /\ "0" # "ESC" /\ "m" # "ESC" /\ "CR" # "ESC" /\ "LF" # "ESC"
    BY CharacterFacts, Zenon
  <2> QED
    BY <1>2, <2>1, <2>2, Zenon
<1>4. ~ Middle(t, c.buf, len)
  <2>1. t[1] \notin {Bracket, "m"} \cup InCode
    BY CharacterFacts
  <2> QED
    BY <1>1, <2>1, MiddleFirst
<1>5. \/ ~ c.esc /\ len = 0
      \/ Whole(c.buf, len) /\ Opens(t)
  BY <1>3, <1>4 DEF Heals
<1>6. SequenceAt(t, 1)
  BY <1>1 DEF Mending, Sane
<1>7. PICK e \in (1 + 2) .. n :
        t[1 + 1] = Bracket /\ t[e] = "m" /\ \A k \in (1 + 2) .. (e - 1) : t[k] \in InCode
  BY <1>6 DEF SequenceAt
<1> HIDE DEF u, n
<1>8. ASSUME Opens(t), Whole(c.buf, len) PROVE Middle(u, c.buf, len) /\ n # 6
  <2>1. t[2] = Bracket /\ t[3] = "1" /\ Middle(u, c.buf, len)
    BY <1>1, <1>8, OpensTail DEF Mending, u
  <2> QED
    BY <1>2, <2>1
<1>9. ASSUME len = 0 PROVE Middle(u, c.buf, len)
  <2>1. Whole(c.buf, len)
    BY <1>9 DEF Whole
  <2>2. e - 1 \in 1 .. Len(u) /\ u[e - 1] = t[(e - 1) + 1] /\ (e - 1) + 1 = e
    BY <1>1, <1>7
  <2>3. u[1] = Bracket
    BY <1>1, <1>7
  <2>4. \A k \in 1 .. ((e - 1) - 1) : u[k] \in InCode \/ (k = 1 /\ u[k] = Bracket)
    <3> TAKE k \in 1 .. ((e - 1) - 1)
    <3>1. CASE k = 1
      BY <2>3, <3>1
    <3>2. CASE k # 1
      <4>1. k \in 1 .. (n - 1) /\ k + 1 \in (1 + 2) .. (e - 1)
        BY <1>1, <1>7, <3>2
      <4> QED
        BY <1>1, <1>7, <4>1
    <3> QED
      BY <3>1, <3>2
  <2> QED
    BY <1>7, <2>1, <2>2, <2>3, <2>4, Zenon DEF Middle
<1>10. CASE n = 6
  <2>1. len = 0
    BY <1>5, <1>8, <1>10
  <2>2. Len(u) = 5
    BY <1>1, <1>10
  <2>3. Heals(u, d, len) /\ Len(u) > 2
    BY <2>1, <2>2 DEF Heals
  <2> QED
    BY <2>3 DEF u
<1>11. CASE n > 6
  <2>1. Middle(u, d.buf, len)
    BY <1>5, <1>8, <1>9
  <2> QED
    BY <1>1, <1>11, <2>1 DEF Heals, u
<1> QED
  BY <1>1, <1>3, <1>10, <1>11

\* A character outside a sequence is drawn or moves the cursor: the parser
\* stays where it is.
LEMMA PlainStep ==
    ASSUME NEW t, Mending(t), NEW c, NEW d, NEW len \in Nat,
           Heals(t, c, len), t[1] # "ESC", ~ c.esc, ~ d.esc, d.buf = c.buf
    PROVE  /\ Heals(Tail(t), d, len)
           /\ Len(t) > 6 \/ (Len(t) <= 2 /\ t[1] \in {"CR", "LF"})
<1> DEFINE u == Tail(t)
           n == Len(t)
<1>1. t \in Seq(Char) /\ n \in Nat /\ n > 0 /\ Len(u) = n - 1
  BY TailShifts DEF Mending
<1>2. n # 6 /\ (n = 2 => t[1] = "CR") /\ (n = 1 => t[1] = "LF")
  BY LastCharacters DEF Mending
<1>3. Opens(t) => Opens(u)
  BY <1>1, OpensTail DEF Mending
<1> HIDE DEF u, n
<1>4. CASE n > 5
  <2>1. n > 6
    BY <1>1, <1>2, <1>4
  <2>2. len = 0 \/ (Whole(c.buf, len) /\ Opens(u))
    BY <1>3, <1>4 DEF Heals, n
  <2>3. Heals(u, d, len)
    BY <1>1, <2>1, <2>2 DEF Heals
  <2> QED
    BY <2>1, <2>3 DEF u, n
<1>5. CASE n <= 5
  <2>1. n <= 2 /\ len = 0
    BY <1>1, <1>5 DEF Heals, n
  <2>2. Heals(u, d, len)
    BY <1>1, <2>1 DEF Heals
  <2>3. t[1] \in {"CR", "LF"}
    <3>1. n = 2 \/ n = 1
      BY <1>1, <2>1
    <3> QED
      BY <1>2, <3>1, Zenon
  <2> QED
    BY <2>1, <2>2, <2>3, Zenon DEF u, n
<1> QED
  BY <1>1, <1>4, <1>5

\* A character that does not complete the sequence (ansi.c:12-25, 121-126).
LEMMA AppendStep ==
    ASSUME NEW t, Mending(t), NEW c, NEW len \in Nat, len < BufSize,
           Heals(t, c, len), t[1] # "ESC", c.esc,
           c.buf[len] = t[1], c.buf[len + 1] = "NUL",
           IsFinal(t[1]) => ~ IsComplete(c.buf)
    PROVE  Heals(Tail(t), c, len + 1) /\ Len(t) > 3
<1> DEFINE u == Tail(t)
           n == Len(t)
<1>1. t \in Seq(Char) /\ n \in Nat /\ n > 0 /\ Len(u) = n - 1
  BY TailShifts DEF Mending
<1>2. /\ n # 6 /\ (n = 5 => t[1] = Bracket) /\ (n = 4 => t[1] = "0")
      /\ n = 3 => t[1] = "m"
  BY LastCharacters DEF Mending
<1>3. Opens(t) => Opens(u) /\ t[1] \in {"CR", "LF"}
  BY <1>1, OpensTail DEF Mending
<1>4. ASSUME Middle(t, c.buf, len) PROVE Middle(u, c.buf, len + 1)
  <2>1. /\ t[1] # "m" => Middle(u, c.buf, len + 1)
        /\ t[1] = "m" => \E j \in 0 .. (len - 1) : c.buf[j] = Bracket
        /\ Whole(c.buf, len)
    BY <1>1, <1>4, MiddleTail DEF Mending, Middle
  <2>2. ASSUME t[1] = "m" PROVE FALSE
    <3>1. PICK j \in 0 .. (len - 1) : c.buf[j] = Bracket
      BY <2>1, <2>2
    <3>2. c.buf[len] = "m" /\ len \in 0 .. (BufSize - 1)
          /\ \A i \in 0 .. (len - 1) : c.buf[i] # "NUL"
      BY <2>1, <2>2, BufSizeAssumption DEF Whole
    <3>3. IsComplete(c.buf)
      BY <3>1, <3>2, CompleteAtEnd
    <3> QED
      BY <2>2, <3>3, FinalBytes
  <2> QED
    BY <2>1, <2>2
<1>5. ASSUME Whole(c.buf, len), Opens(t) PROVE Whole(c.buf, len + 1) /\ Opens(u)
  <2>1. t[1] # "NUL"
    BY <1>3, <1>5
  <2>2. \A j \in 0 .. ((len + 1) - 1) : j = len \/ j \in 0 .. (len - 1)
    OBVIOUS
  <2> QED
    BY <1>3, <1>5, <2>1, <2>2 DEF Whole
<1>6. n # 3
  <2> SUFFICES ASSUME n = 3 PROVE FALSE
    OBVIOUS
  <2>1. t[1] = "m" /\ len = 2 /\ c.buf[0] = Bracket /\ c.buf[1] = "0"
    BY <1>2 DEF Heals
  <2>2. Bracket # "NUL" /\ c.buf[1] # "NUL"
    BY <2>1, CharacterFacts
  <2>3. /\ len \in 0 .. (BufSize - 1) /\ 0 \in 0 .. (len - 1)
        /\ \A i \in 0 .. (len - 1) : c.buf[i] # "NUL"
    BY <2>1, <2>2, BufSizeAssumption
  <2>4. IsComplete(c.buf)
    BY <2>1, <2>3, CompleteAtEnd
  <2> QED
    BY <2>1, <2>4, FinalBytes
<1> HIDE DEF u, n
<1>7. CASE n > 5
  <2>1. n > 6
    BY <1>1, <1>2, <1>7
  <2>2. Middle(u, c.buf, len + 1) \/ (Whole(c.buf, len + 1) /\ Opens(u))
    BY <1>4, <1>5, <1>7 DEF Heals, n
  <2>3. Heals(u, c, len + 1)
    BY <1>1, <2>1, <2>2 DEF Heals
  <2> QED
    BY <1>1, <2>1, <2>3 DEF u, n
<1>8. CASE n = 5
  <2>1. len = 0 /\ t[1] = Bracket
    BY <1>2, <1>8 DEF Heals, n
  <2>2. Heals(u, c, len + 1)
    BY <1>1, <1>8, <2>1 DEF Heals
  <2> QED
    BY <1>8, <2>2 DEF u, n
<1>9. CASE n = 4
  <2>1. len = 1 /\ t[1] = "0" /\ c.buf[0] = Bracket
    BY <1>2, <1>9 DEF Heals, n
  <2>2. Heals(u, c, len + 1)
    BY <1>1, <1>9, <2>1 DEF Heals
  <2> QED
    BY <1>9, <2>2 DEF u, n
<1>10. CASE n <= 2
  BY <1>10 DEF Heals, n
<1> QED
  BY <1>1, <1>6, <1>7, <1>8, <1>9, <1>10

\* A character that completes the sequence: it is not inside the reset, or it
\* is the end of it (ansi.c:17-40).
LEMMA CompleteStep ==
    ASSUME NEW t, Mending(t), NEW c, NEW len \in Nat, len < BufSize,
           Heals(t, c, len), t[1] # "ESC", c.esc,
           c.buf[len] = t[1], c.buf[len + 1] = "NUL", len + 1 < BufSize,
           IsFinal(t[1]), IsComplete(c.buf)
    PROVE  \/ Len(t) > 6
           \/ Len(t) = 3 /\ CodeStart(c.buf) = 1 /\ CodeEnd(c.buf) = 2 /\ c.buf[1] = "0"
<1> DEFINE n == Len(t)
<1>1. t \in Seq(Char) /\ n \in Nat /\ n > 0
  BY TailShifts DEF Mending
<1>2. /\ n # 6 /\ (n = 5 => t[1] = Bracket) /\ (n = 4 => t[1] = "0")
      /\ n = 3 => t[1] = "m"
  BY LastCharacters DEF Mending
<1>3. /\ n = 5 => len = 0
      /\ n = 3 => len = 2 /\ c.buf[0] = Bracket /\ c.buf[1] = "0"
      /\ ~ (n <= 2)
  <2> HIDE DEF n
  <2>1. n > 5 \/ n <= 5
    BY <1>1
  <2>2. CASE n > 5
    BY <1>1, <2>2
  <2>3. CASE n <= 5
    <3>1. ~ (n > 5)
      BY <1>1, <2>3
    <3> QED
      BY <1>1, <3>1, Zenon DEF Heals, n
  <2> QED
    BY <2>1, <2>2, <2>3
<1>4. n # 5
  <2> SUFFICES ASSUME n = 5 PROVE FALSE
    OBVIOUS
  <2>1. c.buf[0] = Bracket /\ c.buf[1] = "NUL" /\ 1 < BufSize
    BY <1>2, <1>3
  <2> QED
    BY <2>1, BracketAlone
<1>5. n # 4
  BY <1>2, FinalBytes
<1>6. n = 3 => CodeStart(c.buf) = 1 /\ CodeEnd(c.buf) = 2
  <2> SUFFICES ASSUME n = 3 PROVE CodeStart(c.buf) = 1 /\ CodeEnd(c.buf) = 2
    OBVIOUS
  <2>1. c.buf[0] = Bracket /\ c.buf[1] = "0" /\ c.buf[2] = "m" /\ 2 < BufSize
    BY <1>2, <1>3
  <2> QED
    BY <2>1, ResetComplete
<1> HIDE DEF n
<1>7. n > 6 \/ n = 3
  BY <1>1, <1>2, <1>3, <1>4, <1>5
<1> QED
  BY <1>3, <1>6, <1>7 DEF n

\* Behind a complete sequence (ansi.c:121-125).
LEMMA SettledStep ==
    ASSUME NEW t, Mending(t), NEW d, ~ d.esc, Len(t) > 6 \/ Len(t) = 3
    PROVE  Heals(Tail(t), d, 0)
<1>1. Len(t) \in Nat /\ Len(Tail(t)) = Len(t) - 1
  BY TailShifts DEF Mending
<1> QED
  BY <1>1 DEF Heals

\* What is known while a log line is printed without interrupts, place by place.
Reading == Ch # "ESC" /\ con.esc

Awaits ==
    /\ pc \in {"putchar", "enter"} => Heals(text, con, con.len)
    /\ pc \in {"loadLen", "storeLen"} =>
        /\ Reading /\ Heals(text, con, con.len)
        /\ pc = "storeLen" => reg.len = con.len

Appends ==
    /\ pc \in {"storeCh", "loadEnd"} =>
        /\ Reading /\ con.len = reg.len + 1 /\ Heals(text, con, reg.len)
        /\ pc = "loadEnd" => con.buf[reg.len] = Ch
    /\ pc \in {"storeNul", "scan"} =>
        /\ Reading /\ con.len > 0 /\ con.buf[con.len - 1] = Ch
        /\ Heals(text, con, con.len - 1)
        /\ pc = "storeNul" => reg.len = con.len
        /\ pc = "scan" => con.buf[con.len] = "NUL" /\ IsFinal(Ch)

Completes ==
    /\ pc \in {"setDone", "apply"} =>
        \/ Len(text) > 6
        \/ Len(text) = 3 /\ reg.first = 1 /\ reg.last = 2 /\ con.buf[1] = "0"
    /\ pc = "apply" => con.done
    /\ \/ pc = "test" /\ con.done
       \/ pc \in {"clearDone", "clearLen"}
       \/ pc = "setEsc" /\ reg.ret
       => Len(text) > 6 \/ (Len(text) = 3 /\ Default(con))
    /\ pc \in {"clearDone", "clearLen"} => reg.ret
    /\ pc = "setEsc" /\ reg.ret => con.len = 0

GoesOn ==
    (pc = "test" /\ ~ con.done) \/ (pc = "setEsc" /\ ~ reg.ret) =>
        con.esc /\ Heals(Tail(text), con, con.len) /\ Len(text) > 3

Draws ==
    pc \in {"plain", "loadX", "storeX", "edge", "wrap"} =>
        /\ Ch # "ESC" /\ ~ con.esc /\ Heals(text, con, con.len)
        /\ pc # "plain" => Ch \notin {"CR", "LF"}

Ends ==
    /\ Len(text) <= 2 => Default(con)
    /\ text = << >> => con.x = 0

Mends ==
    Sane(text) /\ EndsReset(text) /\ Awaits /\ Appends /\ Completes /\ GoesOn /\ Draws /\ Ends

\* What holds at every place inside FBCON_Write.
LEMMA MendsInside ==
    ASSUME ConsoleInv, Mends, pc \in Inside
    PROVE  /\ Mending(text) /\ Ch = text[1] /\ Len(text) \in Nat /\ Len(text) > 0
           /\ con \in Console /\ reg \in Registers /\ Ch \in Char
           /\ con.len \in Nat /\ con.len < BufSize /\ reg.len \in Nat /\ reg.len < BufSize
           /\ con.buf \in [0 .. (BufSize - 1) -> Char] /\ con.done \in BOOLEAN
           /\ con.esc \in BOOLEAN
<1>1. text # << >> /\ con \in Console /\ reg \in Registers /\ Ch \in Char
  BY InsideFacts
<1>2. text \in Seq(Char)
  BY DEF ConsoleInv, TypeOK
<1>3. Ch = text[1] /\ Len(text) \in Nat /\ Len(text) > 0
  BY <1>1, <1>2, TailShifts DEF Ch
<1>4. con.len \in 0 .. (BufSize - 1) /\ reg.len \in 0 .. (BufSize - 1)
      /\ con.buf \in [0 .. (BufSize - 1) -> Char] /\ con.done \in BOOLEAN
      /\ con.esc \in BOOLEAN
  BY <1>1, ConsoleParts DEF Registers
<1> QED
  BY <1>1, <1>2, <1>3, <1>4, BufSizeAssumption DEF Mends, Mending

\* A step inside FBCON_Write that changes the parser's state to c, place to.
LEMMA StepMends ==
    ASSUME Mends, NEW from, NEW to, NEW c, NEW r, Step(from, to, c, r),
           text # << >>,
           Len(text) <= 2 => Default(c),
           Awaits', Appends', Completes', GoesOn', Draws'
    PROVE  Mends'
<1>1. text' = text /\ con' = c
  BY DEF Step
<1>2. Ends'
  BY <1>1 DEF Ends, Default
<1> QED
  BY <1>1, <1>2 DEF Mends

\* Outside a sequence the character is drawn (fbcon.c:29-33).
LEMMA LoadEscMends ==
    ASSUME ConsoleInv, Mends, LoadEsc
    PROVE  Mends'
<1> DEFINE to == IF con.esc THEN "loadLen" ELSE "plain"
<1>1. Step("enter", to, con, reg) /\ pc = "enter" /\ Ch # "ESC"
  BY DEF LoadEsc
<1>2. pc' = to /\ con' = con /\ reg' = reg /\ text' = text /\ Ch' = Ch
  BY <1>1 DEF Step, Ch
<1>3. pc \in Inside
  BY <1>1 DEF Inside
<1>4. Heals(text, con, con.len) /\ (Len(text) <= 2 => Default(con))
  BY <1>1 DEF Mends, Awaits, Ends
<1>5. text # << >> /\ con.esc \in BOOLEAN
  BY <1>3, MendsInside, InsideFacts
<1>6. Awaits' /\ Appends' /\ Completes' /\ GoesOn' /\ Draws'
  BY <1>1, <1>2, <1>4, <1>5 DEF Awaits, Appends, Completes, GoesOn, Draws, Reading
<1> HIDE DEF to
<1> QED
  BY <1>1, <1>4, <1>5, <1>6, StepMends

\* ansi.c:13: the index of the append is read.
LEMMA LoadLenMends ==
    ASSUME ConsoleInv, Mends, LoadLen
    PROVE  Mends'
<1> DEFINE r == [reg EXCEPT !.len = con.len]
<1>1. Step("loadLen", "storeLen", con, r) /\ pc = "loadLen"
  BY DEF LoadLen, Step
<1>2. pc \in Inside
  BY <1>1 DEF Inside
<1>3. text # << >> /\ reg \in Registers
  BY <1>2, InsideFacts
<1>4. r.len = con.len
  BY <1>3 DEF Registers
<1> HIDE DEF r
<1>5. pc' = "storeLen" /\ con' = con /\ reg' = r /\ text' = text /\ Ch' = Ch
  BY <1>1 DEF Step, Ch
<1>6. Reading /\ Heals(text, con, con.len) /\ (Len(text) <= 2 => Default(con))
  BY <1>1 DEF Mends, Awaits, Ends
<1>7. Awaits' /\ Appends' /\ Completes' /\ GoesOn' /\ Draws'
  BY <1>4, <1>5, <1>6 DEF Awaits, Appends, Completes, GoesOn, Draws, Reading
<1> QED
  BY <1>1, <1>3, <1>6, <1>7, StepMends

\* ansi.c:13: the index is stored.
LEMMA StoreLenMends ==
    ASSUME ConsoleInv, Mends, StoreLen
    PROVE  Mends'
<1> DEFINE c == [con EXCEPT !.len = reg.len + 1]
<1>1. Step("storeLen", "storeCh", c, reg) /\ pc = "storeLen"
  BY DEF StoreLen, Step
<1>2. pc \in Inside
  BY <1>1 DEF Inside
<1>3. text # << >> /\ con \in Console /\ con.len \in Nat
  BY <1>2, InsideFacts, MendsInside
<1>4. /\ c.len = reg.len + 1 /\ c.buf = con.buf /\ (c.esc <=> con.esc)
      /\ (Default(con) => Default(c))
  BY <1>3 DEF Console, Default
<1> HIDE DEF c
<1>5. pc' = "storeCh" /\ con' = c /\ reg' = reg /\ text' = text /\ Ch' = Ch
  BY <1>1 DEF Step, Ch
<1>6. Reading /\ Heals(text, con, con.len) /\ (Len(text) <= 2 => Default(con))
      /\ reg.len = con.len
  BY <1>1 DEF Mends, Awaits, Ends
<1>7. Heals(text, c, reg.len)
  BY <1>3, <1>4, <1>6, HealsSame
<1>8. Awaits' /\ Appends' /\ Completes' /\ GoesOn' /\ Draws'
  BY <1>4, <1>5, <1>6, <1>7 DEF Awaits, Appends, Completes, GoesOn, Draws, Reading
<1> QED
  BY <1>1, <1>3, <1>4, <1>6, <1>8, StepMends

\* ansi.c:13: the character is stored at the index that was read.
LEMMA StoreChMends ==
    ASSUME ConsoleInv, Mends, StoreCh
    PROVE  Mends'
<1> DEFINE c == [con EXCEPT !.buf[reg.len] = Ch]
<1>1. Step("storeCh", "loadEnd", c, reg) /\ pc = "storeCh"
  BY DEF StoreCh, Step
<1>2. pc \in Inside
  BY <1>1 DEF Inside
<1>3. /\ text # << >> /\ con \in Console /\ reg.len \in Nat
      /\ reg.len \in 0 .. (BufSize - 1) /\ con.buf \in [0 .. (BufSize - 1) -> Char]
  BY <1>2, InsideFacts, MendsInside, BufSizeAssumption
<1>4. /\ c.len = con.len /\ c.buf[reg.len] = Ch /\ (c.esc <=> con.esc)
      /\ \A j \in 0 .. (reg.len - 1) : c.buf[j] = con.buf[j]
      /\ (Default(con) => Default(c))
  <2>1. /\ c.len = con.len /\ c.buf = [con.buf EXCEPT ![reg.len] = Ch]
        /\ (c.esc <=> con.esc) /\ (Default(con) => Default(c))
    BY <1>3 DEF Console, Default
  <2> HIDE DEF c
  <2>2. c.buf[reg.len] = Ch
    BY <1>3, <2>1
  <2>3. ASSUME NEW j \in 0 .. (reg.len - 1) PROVE c.buf[j] = con.buf[j]
    BY <1>3, <2>1
  <2> QED
    BY <2>1, <2>2, <2>3
<1> HIDE DEF c
<1>5. pc' = "loadEnd" /\ con' = c /\ reg' = reg /\ text' = text /\ Ch' = Ch
  BY <1>1 DEF Step, Ch
<1>6. Reading /\ Heals(text, con, reg.len) /\ (Len(text) <= 2 => Default(con))
      /\ con.len = reg.len + 1
  BY <1>1 DEF Mends, Appends, Ends
<1>7. Heals(text, c, reg.len)
  BY <1>3, <1>4, <1>6, HealsSame
<1>8. Awaits' /\ Appends' /\ Completes' /\ GoesOn' /\ Draws'
  BY <1>4, <1>5, <1>6, <1>7 DEF Awaits, Appends, Completes, GoesOn, Draws, Reading
<1> QED
  BY <1>1, <1>3, <1>4, <1>6, <1>8, StepMends

\* ansi.c:14: the index is read again for the terminator.
LEMMA LoadEndMends ==
    ASSUME ConsoleInv, Mends, LoadEnd
    PROVE  Mends'
<1> DEFINE r == [reg EXCEPT !.len = con.len]
<1>1. Step("loadEnd", "storeNul", con, r) /\ pc = "loadEnd"
  BY DEF LoadEnd, Step
<1>2. pc \in Inside
  BY <1>1 DEF Inside
<1>3. text # << >> /\ reg \in Registers /\ reg.len \in Nat
  BY <1>2, InsideFacts, MendsInside
<1>4. r.len = con.len
  BY <1>3 DEF Registers
<1> HIDE DEF r
<1>5. pc' = "storeNul" /\ con' = con /\ reg' = r /\ text' = text /\ Ch' = Ch
  BY <1>1 DEF Step, Ch
<1>6. Reading /\ Heals(text, con, reg.len) /\ (Len(text) <= 2 => Default(con))
      /\ con.len = reg.len + 1 /\ con.buf[reg.len] = Ch
  BY <1>1 DEF Mends, Appends, Ends
<1>7. con.len > 0 /\ con.len - 1 = reg.len
  BY <1>3, <1>6
<1>8. Awaits' /\ Appends' /\ Completes' /\ GoesOn' /\ Draws'
  BY <1>4, <1>5, <1>6, <1>7 DEF Awaits, Appends, Completes, GoesOn, Draws, Reading
<1> QED
  BY <1>1, <1>3, <1>6, <1>8, StepMends

\* The character is in the buffer, with a NUL behind it, and does not complete
\* the sequence.
LEMMA GoesOnBehind ==
    ASSUME ConsoleInv, Mends, pc \in {"storeNul", "scan"},
           NEW c, c.esc, c.len = con.len, c.buf[con.len - 1] = Ch, c.buf[con.len] = "NUL",
           Heals(text, c, con.len - 1),
           IsFinal(Ch) => ~ IsComplete(c.buf)
    PROVE  Heals(Tail(text), c, c.len) /\ Len(text) > 3
<1> DEFINE len == con.len - 1
<1>1. pc \in Inside
  BY DEF Inside
<1>2. Reading /\ con.len > 0
  BY DEF Mends, Appends
<1>3. /\ Mending(text) /\ Ch = text[1] /\ len \in Nat /\ len < BufSize /\ len + 1 = con.len
  BY <1>1, <1>2, MendsInside, BufSizeAssumption
<1>4. text[1] # "ESC" /\ c.buf[len] = text[1] /\ Heals(text, c, len)
      /\ (IsFinal(text[1]) => ~ IsComplete(c.buf))
  BY <1>2, <1>3 DEF Reading
<1> HIDE DEF len
<1>5. c.buf[len + 1] = "NUL"
  BY <1>3
<1>6. Heals(Tail(text), c, len + 1) /\ Len(text) > 3
  BY <1>3, <1>4, <1>5, AppendStep
<1> QED
  BY <1>3, <1>6

\* ansi.c:14-17: the terminator, and a character that ends nothing.
LEMMA StoreNulMends ==
    ASSUME ConsoleInv, Mends, StoreNul, ~ con.done
    PROVE  Mends'
<1> DEFINE nul == "NUL"
           c == [con EXCEPT !.buf[reg.len] = nul]
           to == IF IsFinal(Ch) THEN "scan" ELSE "test"
<1>1. Step("storeNul", to, c, reg) /\ pc = "storeNul"
  BY DEF StoreNul, Step
<1>2. pc \in Inside
  BY <1>1 DEF Inside
<1>3. /\ Reading /\ con.len > 0 /\ con.buf[con.len - 1] = Ch
      /\ Heals(text, con, con.len - 1) /\ reg.len = con.len
      /\ (Len(text) <= 2 => Default(con))
  BY <1>1 DEF Mends, Appends, Ends
<1>4. /\ text # << >> /\ con \in Console /\ con.len \in Nat
      /\ reg.len \in 0 .. (BufSize - 1) /\ con.buf \in [0 .. (BufSize - 1) -> Char]
  BY <1>2, InsideFacts, MendsInside, BufSizeAssumption
<1> HIDE DEF nul
<1>5. /\ c.len = con.len /\ (c.esc <=> con.esc) /\ (Default(con) => Default(c))
      /\ c.buf[con.len] = nul /\ (c.done <=> con.done)
      /\ \A j \in 0 .. (con.len - 1) : c.buf[j] = con.buf[j]
  <2>1. /\ c.len = con.len /\ c.buf = [con.buf EXCEPT ![reg.len] = nul]
        /\ (c.esc <=> con.esc) /\ (c.done <=> con.done) /\ (Default(con) => Default(c))
    BY <1>4 DEF Console, Default
  <2> HIDE DEF c
  <2>2. c.buf[con.len] = nul
    BY <1>3, <1>4, <2>1
  <2>3. ASSUME NEW j \in 0 .. (con.len - 1) PROVE c.buf[j] = con.buf[j]
    BY <1>3, <1>4, <2>1
  <2> QED
    BY <2>1, <2>2, <2>3
<1> HIDE DEF c
<1>6. pc' = to /\ con' = c /\ reg' = reg /\ text' = text /\ Ch' = Ch
  BY <1>1 DEF Step, Ch
<1>7. con.len - 1 \in Nat /\ con.len - 1 \in 0 .. (con.len - 1)
      /\ \A j \in 0 .. ((con.len - 1) - 1) : j \in 0 .. (con.len - 1)
  BY <1>3, <1>4
<1>8. Heals(text, c, con.len - 1) /\ c.buf[con.len - 1] = Ch /\ c.esc
  BY <1>3, <1>5, <1>7, HealsSame DEF Reading
<1>9. CASE IsFinal(Ch)
  <2>1. pc' = "scan"
    BY <1>6, <1>9
  <2>2. Awaits' /\ Appends' /\ Completes' /\ GoesOn' /\ Draws'
    BY <1>3, <1>5, <1>6, <1>8, <1>9, <2>1
       DEF Awaits, Appends, Completes, GoesOn, Draws, Reading, nul
  <2> HIDE DEF to
  <2> QED
    BY <1>1, <1>3, <1>4, <1>5, <2>2, StepMends
<1>10. CASE ~ IsFinal(Ch)
  <2>1. pc' = "test"
    BY <1>6, <1>10
  <2>2. Heals(Tail(text), c, c.len) /\ Len(text) > 3
    BY <1>1, <1>5, <1>8, <1>10, GoesOnBehind DEF nul
  <2>3. Awaits' /\ Appends' /\ Completes' /\ GoesOn' /\ Draws'
    BY <1>3, <1>5, <1>6, <1>8, <2>1, <2>2
       DEF Awaits, Appends, Completes, GoesOn, Draws
  <2> HIDE DEF to
  <2> QED
    BY <1>1, <1>3, <1>4, <1>5, <2>3, StepMends
<1> QED
  BY <1>9, <1>10

\* ansi.c:20-23: what is searched for is found in a whole sequence.
LEMMA ScanMends ==
    ASSUME ConsoleInv, Mends, Scan, ~ con.done
    PROVE  Mends'
<1> DEFINE a == CodeStart(con.buf)
           b == CodeEnd(con.buf)
           r == [reg EXCEPT !.first = a, !.last = b]
           to == IF IsComplete(con.buf) THEN "setDone" ELSE "test"
           len == con.len - 1
<1>1. Step("scan", to, con, r) /\ pc = "scan"
  BY DEF Scan, Step
<1>2. pc \in Inside
  BY <1>1 DEF Inside
<1>3. /\ Reading /\ con.len > 0 /\ con.buf[con.len - 1] = Ch
      /\ Heals(text, con, con.len - 1) /\ con.buf[con.len] = "NUL" /\ IsFinal(Ch)
      /\ (Len(text) <= 2 => Default(con))
  BY <1>1 DEF Mends, Appends, Ends
<1>4. /\ text # << >> /\ reg \in Registers /\ con.len \in Nat /\ con.len < BufSize
      /\ Mending(text) /\ Ch = text[1]
  BY <1>2, InsideFacts, MendsInside
<1> HIDE DEF a, b
<1>5. r.first = a /\ r.last = b /\ (r.ret <=> reg.ret)
  BY <1>4 DEF Registers
<1> HIDE DEF r
<1>6. pc' = to /\ con' = con /\ reg' = r /\ text' = text /\ Ch' = Ch
  BY <1>1 DEF Step, Ch
<1>7. CASE IsComplete(con.buf)
  <2>1. pc' = "setDone"
    BY <1>6, <1>7
  <2>2. len \in Nat /\ len < BufSize /\ len + 1 < BufSize /\ len + 1 = con.len
    BY <1>3, <1>4, BufSizeAssumption
  <2>3. text[1] # "ESC" /\ con.esc /\ con.buf[len] = text[1] /\ Heals(text, con, len)
        /\ IsFinal(text[1])
    BY <1>3, <1>4 DEF Reading
  <2> HIDE DEF len
  <2>4. con.buf[len + 1] = "NUL"
    BY <1>3, <2>2
  <2>5. \/ Len(text) > 6
        \/ Len(text) = 3 /\ a = 1 /\ b = 2 /\ con.buf[1] = "0"
    BY <1>4, <1>7, <2>2, <2>3, <2>4, CompleteStep DEF a, b
  <2>6. Awaits' /\ Appends' /\ Completes' /\ GoesOn' /\ Draws'
    BY <1>5, <1>6, <2>1, <2>5 DEF Awaits, Appends, Completes, GoesOn, Draws
  <2> HIDE DEF to
  <2> QED
    BY <1>1, <1>3, <1>4, <2>6, StepMends
<1>8. CASE ~ IsComplete(con.buf)
  <2>1. pc' = "test"
    BY <1>6, <1>8
  <2>2. Heals(Tail(text), con, con.len) /\ Len(text) > 3
    BY <1>1, <1>3, <1>8, GoesOnBehind DEF Reading
  <2>3. Awaits' /\ Appends' /\ Completes' /\ GoesOn' /\ Draws'
    BY <1>3, <1>6, <2>1, <2>2 DEF Awaits, Appends, Completes, GoesOn, Draws, Reading
  <2> HIDE DEF to
  <2> QED
    BY <1>1, <1>3, <1>4, <2>3, StepMends
<1> QED
  BY <1>7, <1>8

\* ansi.c:25: the sequence is complete.
LEMMA SetDoneMends ==
    ASSUME ConsoleInv, Mends, SetDone
    PROVE  Mends'
<1> DEFINE c == [con EXCEPT !.done = TRUE]
<1>1. Step("setDone", "apply", c, reg) /\ pc = "setDone"
  BY DEF SetDone, Step
<1>2. pc \in Inside
  BY <1>1 DEF Inside
<1>3. text # << >> /\ con \in Console
  BY <1>2, InsideFacts
<1>4. c.done /\ c.buf = con.buf /\ (Default(con) => Default(c))
  BY <1>3 DEF Console, Default
<1> HIDE DEF c
<1>5. pc' = "apply" /\ con' = c /\ reg' = reg /\ text' = text /\ Ch' = Ch
  BY <1>1 DEF Step, Ch
<1>6. /\ \/ Len(text) > 6
         \/ Len(text) = 3 /\ reg.first = 1 /\ reg.last = 2 /\ con.buf[1] = "0"
      /\ (Len(text) <= 2 => Default(con))
  BY <1>1 DEF Mends, Completes, Ends
<1>7. Awaits' /\ Appends' /\ Completes' /\ GoesOn' /\ Draws'
  BY <1>4, <1>5, <1>6 DEF Awaits, Appends, Completes, GoesOn, Draws
<1> QED
  BY <1>1, <1>3, <1>4, <1>6, <1>7, StepMends

\* The code of the reset is 0 (ansi.c:26-40).
LEMMA ApplyMends ==
    ASSUME ConsoleInv, Mends, Apply
    PROVE  Mends'
<1> DEFINE code == CodeAt(con.buf, reg.first, reg.last)
           c == ApplyCode(con, code)
<1>1. Step("apply", "test", c, reg) /\ pc = "apply"
  BY DEF Apply, Step
<1>2. pc \in Inside
  BY <1>1 DEF Inside
<1>3. text # << >> /\ con \in Console
  BY <1>2, InsideFacts
<1>4. /\ con.done
      /\ \/ Len(text) > 6
         \/ Len(text) = 3 /\ reg.first = 1 /\ reg.last = 2 /\ con.buf[1] = "0"
  BY <1>1 DEF Mends, Completes
<1>5. Len(text) = 3 => code = 0
  BY <1>2, <1>4, MendsInside, ResetCode
<1> HIDE DEF code
<1>6. c.done = con.done /\ (code = 0 => Default(c))
  BY <1>3, ApplyCodeFacts, ResetRestores
<1> HIDE DEF c
<1>7. pc' = "test" /\ con' = c /\ reg' = reg /\ text' = text /\ Ch' = Ch
  BY <1>1 DEF Step, Ch
<1>8. c.done /\ (Len(text) > 6 \/ (Len(text) = 3 /\ Default(c)))
  BY <1>4, <1>5, <1>6
<1>9. Awaits' /\ Appends' /\ Completes' /\ GoesOn' /\ Draws'
  BY <1>7, <1>8 DEF Awaits, Appends, Completes, GoesOn, Draws
<1>10. ~ (Len(text) <= 2)
  <2>1. Len(text) \in Nat
    BY <1>2, MendsInside
  <2> QED
    BY <1>8, <2>1
<1> QED
  BY <1>1, <1>3, <1>9, <1>10, StepMends

\* ansi.c:121: a complete sequence leads to its end, another one goes on.
LEMMA TestMends ==
    ASSUME ConsoleInv, Mends, Test
    PROVE  Mends'
<1> DEFINE r == [reg EXCEPT !.ret = con.done]
           to == IF con.done THEN "clearDone" ELSE "setEsc"
<1>1. Step("test", to, con, r) /\ pc = "test"
  BY DEF Test, Step
<1>2. pc \in Inside
  BY <1>1 DEF Inside
<1>3. text # << >> /\ reg \in Registers /\ con.done \in BOOLEAN
  BY <1>2, InsideFacts, MendsInside
<1>4. r.ret = con.done
  BY <1>3 DEF Registers
<1> HIDE DEF r
<1>5. pc' = to /\ con' = con /\ reg' = r /\ text' = text /\ Ch' = Ch
  BY <1>1 DEF Step, Ch
<1>6. /\ con.done => Len(text) > 6 \/ (Len(text) = 3 /\ Default(con))
      /\ ~ con.done => con.esc /\ Heals(Tail(text), con, con.len) /\ Len(text) > 3
      /\ (Len(text) <= 2 => Default(con))
  BY <1>1 DEF Mends, Completes, GoesOn, Ends
<1>7. Awaits' /\ Appends' /\ Completes' /\ GoesOn' /\ Draws'
  BY <1>3, <1>4, <1>5, <1>6 DEF Awaits, Appends, Completes, GoesOn, Draws
<1> HIDE DEF to
<1> QED
  BY <1>1, <1>3, <1>6, <1>7, StepMends

\* ansi.c:122: the flag is cleared.
LEMMA ClearDoneMends ==
    ASSUME ConsoleInv, Mends, ClearDone
    PROVE  Mends'
<1> DEFINE c == [con EXCEPT !.done = FALSE]
<1>1. Step("clearDone", "clearLen", c, reg) /\ pc = "clearDone"
  BY DEF ClearDone, Step
<1>2. pc \in Inside
  BY <1>1 DEF Inside
<1>3. text # << >> /\ con \in Console
  BY <1>2, InsideFacts
<1>4. Default(con) => Default(c)
  BY <1>3 DEF Console, Default
<1> HIDE DEF c
<1>5. pc' = "clearLen" /\ con' = c /\ reg' = reg /\ text' = text /\ Ch' = Ch
  BY <1>1 DEF Step, Ch
<1>6. /\ Len(text) > 6 \/ (Len(text) = 3 /\ Default(con))
      /\ reg.ret /\ (Len(text) <= 2 => Default(con))
  BY <1>1 DEF Mends, Completes, Ends
<1>7. Awaits' /\ Appends' /\ Completes' /\ GoesOn' /\ Draws'
  BY <1>4, <1>5, <1>6 DEF Awaits, Appends, Completes, GoesOn, Draws
<1> QED
  BY <1>1, <1>3, <1>4, <1>6, <1>7, StepMends

\* ansi.c:123: the buffer is empty.
LEMMA ClearLenMends ==
    ASSUME ConsoleInv, Mends, ClearLen
    PROVE  Mends'
<1> DEFINE n == 0
           c == [con EXCEPT !.len = n]
<1>1. Step("clearLen", "setEsc", c, reg) /\ pc = "clearLen"
  BY DEF ClearLen, Step
<1>2. pc \in Inside
  BY <1>1 DEF Inside
<1>3. text # << >> /\ con \in Console
  BY <1>2, InsideFacts
<1>4. c.len = 0 /\ (Default(con) => Default(c))
  BY <1>3 DEF Console, Default
<1> HIDE DEF c, n
<1>5. pc' = "setEsc" /\ con' = c /\ reg' = reg /\ text' = text /\ Ch' = Ch
  BY <1>1 DEF Step, Ch
<1>6. /\ Len(text) > 6 \/ (Len(text) = 3 /\ Default(con))
      /\ reg.ret /\ (Len(text) <= 2 => Default(con))
  BY <1>1 DEF Mends, Completes, Ends
<1>7. Awaits' /\ Appends' /\ Completes' /\ GoesOn' /\ Draws'
  BY <1>4, <1>5, <1>6 DEF Awaits, Appends, Completes, GoesOn, Draws
<1> QED
  BY <1>1, <1>3, <1>4, <1>6, <1>7, StepMends

\* Steps that move the cursor or draw: the parser does not move.
LEMMA DrawingMends ==
    ASSUME ConsoleInv, Mends, Putchar \/ Glyph \/ LoadX \/ StoreX \/ AtEdge
    PROVE  Mends'
<1> DEFINE Kept(c) == /\ c.len = con.len /\ c.buf = con.buf /\ (c.esc <=> con.esc)
                      /\ (Default(con) => Default(c))
<1>1. con \in Console /\ con.len \in Nat
  BY ConsoleParts, BufSizeAssumption DEF ConsoleInv, TypeOK
<1>2. Kept([con EXCEPT !.drawn = << >>])
  BY <1>1 DEF Console, Default
<1>3. ASSUME NEW c, Kept(c), NEW to \in {"loadX", "storeX", "edge", "wrap"}, NEW r,
             Step(pc, to, c, r), pc \in {"plain", "loadX", "storeX", "edge"},
             Ch \notin {"CR", "LF"}
      PROVE  Mends'
  <2>1. pc' = to /\ con' = c /\ text' = text /\ Ch' = Ch
    BY <1>3 DEF Step, Ch
  <2>2. /\ Ch # "ESC" /\ ~ con.esc /\ Heals(text, con, con.len)
        /\ (Len(text) <= 2 => Default(con))
    BY <1>3 DEF Mends, Draws, Ends
  <2>3. pc \in Inside
    BY <1>3 DEF Inside
  <2>4. text # << >>
    BY <2>3, InsideFacts
  <2>5. Heals(text, c, con.len)
    BY <1>1, <1>3, <2>2, HealsSame
  <2>6. Awaits' /\ Appends' /\ Completes' /\ GoesOn' /\ Draws'
    BY <1>3, <2>1, <2>2, <2>5 DEF Awaits, Appends, Completes, GoesOn, Draws
  <2> QED
    BY <1>3, <2>2, <2>4, <2>6, StepMends
<1>4. CASE Putchar
  <2> DEFINE r == [NoReg EXCEPT !.x = con.x]
             c == [con EXCEPT !.drawn = << >>]
  <2>1. text # << >> /\ Step("putchar", "enter", c, r) /\ pc = "putchar"
    BY <1>4 DEF Putchar, Step, Quiet
  <2> HIDE DEF r, c
  <2>2. pc' = "enter" /\ con' = c /\ text' = text /\ Ch' = Ch
    BY <2>1 DEF Step, Ch
  <2>3. Heals(text, con, con.len) /\ (Len(text) <= 2 => Default(con))
    BY <2>1 DEF Mends, Awaits, Ends
  <2>4. Kept(c)
    BY <1>2 DEF c
  <2>5. Heals(text, c, con.len)
    BY <1>1, <2>3, <2>4, HealsSame
  <2>6. Awaits' /\ Appends' /\ Completes' /\ GoesOn' /\ Draws'
    BY <2>2, <2>4, <2>5 DEF Awaits, Appends, Completes, GoesOn, Draws
  <2> QED
    BY <2>1, <2>3, <2>4, <2>6, StepMends
<1>5. CASE Glyph
  <2> DEFINE d == << <<reg.x, Ch>> >>
             c == [con EXCEPT !.drawn = d]
  <2>1. Step(pc, "loadX", c, reg) /\ pc = "plain" /\ Ch \notin {"CR", "LF"}
    BY <1>5 DEF Glyph, Step
  <2> HIDE DEF d
  <2>2. Kept(c)
    BY <1>1 DEF Console, Default
  <2> HIDE DEF c, Kept
  <2> QED
    BY <1>3, <2>1, <2>2
<1>6. CASE LoadX
  <2> DEFINE r == [reg EXCEPT !.x = con.x]
  <2>1. Step(pc, "storeX", con, r) /\ pc = "loadX"
    BY <1>6 DEF LoadX, Step
  <2>2. Ch \notin {"CR", "LF"} /\ Kept(con)
    BY <2>1 DEF Mends, Draws
  <2> HIDE DEF r, Kept
  <2> QED
    BY <1>3, <2>1, <2>2
<1>7. CASE StoreX
  <2> DEFINE y == (reg.x + 1) % Word16
             c == [con EXCEPT !.x = y]
  <2>1. Step(pc, "edge", c, reg) /\ pc = "storeX"
    BY <1>7 DEF StoreX, Step
  <2> HIDE DEF y
  <2>2. Kept(c) /\ Ch \notin {"CR", "LF"}
    BY <1>1, <2>1 DEF Console, Default, Mends, Draws
  <2> HIDE DEF c, Kept
  <2> QED
    BY <1>3, <2>1, <2>2
<1>8. CASE AtEdge
  <2>1. Step(pc, "wrap", con, reg) /\ pc = "edge"
    BY <1>8 DEF AtEdge, Step
  <2>2. Ch \notin {"CR", "LF"} /\ Kept(con)
    BY <2>1 DEF Mends, Draws
  <2> HIDE DEF Kept
  <2> QED
    BY <1>3, <2>1, <2>2
<1> QED
  BY <1>4, <1>5, <1>6, <1>7, <1>8

\* The last access for a character.
LEMMA DoneMends ==
    ASSUME Mends, Mending(text), NEW from, NEW c, Done(from, c),
           Heals(Tail(text), c, c.len),
           Len(Tail(text)) <= 2 => Default(c),
           Len(text) = 1 => c.x = 0
    PROVE  Mends'
<1>1. pc' = "putchar" /\ con' = c /\ text' = Tail(text)
  BY DEF Done
<1>2. Sane(text') /\ EndsReset(text')
  BY <1>1, SaneTail DEF Mending
<1>3. Awaits' /\ Appends' /\ Completes' /\ GoesOn' /\ Draws'
  BY <1>1 DEF Awaits, Appends, Completes, GoesOn, Draws
<1>4. Tail(text) = << >> => Len(text) = 1
  <2> DEFINE n == Len(text)
             m == Len(Tail(text))
  <2>1. m = n - 1 /\ n \in Nat /\ (Tail(text) = << >> => m = 0)
    BY TailShifts DEF Mending
  <2> HIDE DEF n, m
  <2>2. m = 0 => n = 1
    BY <2>1
  <2> QED
    BY <2>1, <2>2 DEF n
<1>5. Ends'
  BY <1>1, <1>4 DEF Ends, Default
<1> QED
  BY <1>2, <1>3, <1>5 DEF Mends

\* Lengths, without the text.
LEMMA OneShorter ==
    ASSUME NEW n \in Nat, NEW m, m = n - 1
    PROVE  /\ m > 2 => ~ (m <= 2) /\ n # 1
           /\ n > 3 => ~ (m <= 2) /\ n # 1
           /\ n > 6 => ~ (m <= 2) /\ n # 1
           /\ n = 3 => n # 1
OBVIOUS

\* The accesses behind which the next character is taken up (fbcon.c:22-62).
LEMMA LastMends ==
    ASSUME ConsoleInv, Mends, StoreEsc \/ SetEsc \/ Home \/ InsideRow \/ Wrap
    PROVE  Mends'
<1> DEFINE Kept(c) == /\ c.len = con.len /\ c.buf = con.buf
                      /\ (Default(con) => Default(c))
<1>1. pc \in Inside
  BY DEF StoreEsc, SetEsc, Home, InsideRow, Wrap, Done, Inside
<1>2. /\ Mending(text) /\ Ch = text[1] /\ Len(text) \in Nat /\ Len(text) > 0
      /\ con \in Console /\ con.len \in Nat /\ Len(Tail(text)) = Len(text) - 1
  BY <1>1, MendsInside, TailShifts DEF Mending
<1>3. Len(text) <= 2 => Default(con)
  BY DEF Mends, Ends
<1>4. /\ Len(Tail(text)) > 2 => ~ (Len(Tail(text)) <= 2) /\ Len(text) # 1
      /\ Len(text) > 3 => ~ (Len(Tail(text)) <= 2) /\ Len(text) # 1
      /\ Len(text) > 6 => ~ (Len(Tail(text)) <= 2) /\ Len(text) # 1
      /\ Len(text) = 3 => Len(text) # 1
  BY <1>2, OneShorter, Zenon
<1>5. CASE StoreEsc
  <2> DEFINE c == [con EXCEPT !.esc = TRUE]
  <2>1. Done("enter", c) /\ Ch = "ESC" /\ pc = "enter"
    BY <1>5 DEF StoreEsc
  <2>2. Kept(c) /\ c.esc
    BY <1>2 DEF Console, Default
  <2> HIDE DEF c
  <2>3. Heals(text, con, con.len)
    BY <2>1 DEF Mends, Awaits
  <2>4. Heals(Tail(text), c, con.len) /\ Len(Tail(text)) > 2
    BY <1>2, <2>1, <2>2, <2>3, EscStep
  <2>5. ~ (Len(Tail(text)) <= 2) /\ Len(text) # 1
    BY <1>4, <2>4, Zenon
  <2> QED
    BY <1>2, <2>1, <2>2, <2>4, <2>5, DoneMends
<1>6. CASE SetEsc
  <2> DEFINE c == [con EXCEPT !.esc = ~ reg.ret]
  <2>1. Done("setEsc", c) /\ pc = "setEsc"
    BY <1>6 DEF SetEsc, Done
  <2>2. Kept(c) /\ (c.esc <=> ~ reg.ret)
    BY <1>2 DEF Console, Default
  <2> HIDE DEF c
  <2>3. CASE reg.ret
    <3>1. /\ Len(text) > 6 \/ (Len(text) = 3 /\ Default(con))
          /\ con.len = 0
      BY <2>1, <2>3 DEF Mends, Completes
    <3>2. Heals(Tail(text), c, 0) /\ c.len = 0
      BY <1>2, <2>2, <2>3, <3>1, SettledStep
    <3>3. Len(text) # 1 /\ (Len(Tail(text)) <= 2 => Default(c))
      BY <1>4, <2>2, <3>1, Zenon
    <3> QED
      BY <1>2, <2>1, <3>2, <3>3, DoneMends
  <2>4. CASE ~ reg.ret
    <3>1. con.esc /\ Heals(Tail(text), con, con.len) /\ Len(text) > 3
      BY <2>1, <2>4 DEF Mends, GoesOn
    <3>2. Heals(Tail(text), c, con.len)
      BY <1>2, <2>2, <2>4, <3>1, HealsSame
    <3>3. ~ (Len(Tail(text)) <= 2) /\ Len(text) # 1
      BY <1>4, <3>1, Zenon
    <3> QED
      BY <1>2, <2>1, <2>2, <3>2, <3>3, DoneMends
  <2> QED
    BY <2>3, <2>4
<1>7. ASSUME NEW c, Kept(c), ~ c.esc, Done(pc, c),
             pc \in {"plain", "loadX", "storeX", "edge", "wrap"},
             Ch \in {"CR", "LF"} => c.x = 0
      PROVE  Mends'
  <2>1. Ch # "ESC" /\ ~ con.esc /\ Heals(text, con, con.len)
    BY <1>7 DEF Mends, Draws
  <2>2. /\ Heals(Tail(text), c, con.len)
        /\ Len(text) > 6 \/ (Len(text) <= 2 /\ Ch \in {"CR", "LF"})
    BY <1>2, <1>7, <2>1, PlainStep
  <2>3. Len(Tail(text)) <= 2 => Default(c)
    BY <1>2, <1>3, <1>7, <2>2
  <2>4. Len(text) = 1 => c.x = 0
    BY <1>7, <2>2
  <2> QED
    BY <1>2, <1>7, <2>2, <2>3, <2>4, DoneMends
<1>8. /\ Kept([con EXCEPT !.x = 0]) /\ ([con EXCEPT !.x = 0].esc <=> con.esc)
      /\ [con EXCEPT !.x = 0].x = 0
  BY <1>2 DEF Console, Default
<1>9. CASE Home
  <2>1. Done(pc, [con EXCEPT !.x = 0]) /\ pc = "plain"
    BY <1>9 DEF Home
  <2>2. ~ con.esc
    BY <2>1 DEF Mends, Draws
  <2> HIDE DEF Kept
  <2> QED
    BY <1>7, <1>8, <2>1, <2>2
<1>10. CASE InsideRow
  <2>1. Done(pc, con) /\ pc = "edge"
    BY <1>10 DEF InsideRow, Done
  <2>2. ~ con.esc /\ Ch \notin {"CR", "LF"} /\ Kept(con)
    BY <2>1 DEF Mends, Draws
  <2> HIDE DEF Kept
  <2> QED
    BY <1>7, <2>1, <2>2
<1>11. CASE Wrap
  <2>1. Done(pc, [con EXCEPT !.x = 0]) /\ pc = "wrap"
    BY <1>11 DEF Wrap, Done
  <2>2. ~ con.esc
    BY <2>1 DEF Mends, Draws
  <2> HIDE DEF Kept
  <2> QED
    BY <1>7, <1>8, <2>1, <2>2
<1> QED
  BY <1>5, <1>6, <1>9, <1>10, <1>11

\* A log line begins with whatever interrupts left behind (log.c:23-45).
LEMMA StartMends ==
    ASSUME ConsoleInv, StartPrinting, Program[call].op = "log", clean'
    PROVE  Mends'
<1> DEFINE t == LogText(con, Program[call].module, Program[call].level, Program[call].msg)
<1>1. /\ pc = "return" /\ call <= Len(Program)
      /\ text' = t /\ pc' = "putchar" /\ (clean' <=> Unbroken(con)) /\ con' = con
  BY DEF StartPrinting, Calling, Idle
<1>2. call \in 1 .. Len(Program)
  BY <1>1, IdleFacts
<1>3. Program[call].module \in Line /\ Program[call].msg \in Line
      /\ Program[call].level \in DOMAIN LevelColor
  BY <1>2, CallFacts
<1>4. Sane(t) /\ EndsReset(t) /\ Opens(t)
  BY <1>3, LogHeals
<1>5. t \in Seq(Char)
  BY <1>3, LogIsText, MessagesAreTexts
<1> HIDE DEF t
<1>6. Whole(con.buf, con.len)
  BY <1>1 DEF Unbroken, Whole
<1>7. Len(t) > 5
  <2> DEFINE n == Len(t)
  <2>1. n \in Nat
    BY <1>5
  <2>2. PICK p \in 1 .. n : p + 3 <= n /\ t[p] = "ESC"
    BY <1>4 DEF Opens, Begins
  <2>3. n # 0 /\ n > 3
    BY <2>1, <2>2
  <2>4. /\ t # << >>
        /\ t[1] \in {"CR", "LF", "ESC"}
        /\ t[1] = "ESC" => t[2] = Bracket /\ t[3] = "1"
    BY <1>4, <1>5, <2>3, OpensTail
  <2>5. (n = 5 => t[1] = Bracket) /\ (n = 4 => t[1] = "0")
    BY <1>4, <1>5, LastCharacters
  <2>6. Bracket \notin {"CR", "LF", "ESC"} /\ "0" \notin {"CR", "LF", "ESC"}
    BY CharacterFacts, Zenon
  <2>7. n # 5 /\ n # 4
    BY <2>4, <2>5, <2>6, Zenon
  <2> HIDE DEF n
  <2>8. n > 5
    BY <2>1, <2>3, <2>7
  <2> QED
    BY <2>8 DEF n
<1>8. Heals(t, con, con.len)
  BY <1>4, <1>6, <1>7, Zenon DEF Heals
<1>9. Awaits' /\ Appends' /\ Completes' /\ GoesOn' /\ Draws'
  BY <1>1, <1>8 DEF Awaits, Appends, Completes, GoesOn, Draws
<1>10. Ends'
  <2>1. ~ (Len(t) <= 2) /\ t # << >>
    BY <1>5, <1>7
  <2> QED
    BY <1>1, <2>1 DEF Ends
<1> QED
  BY <1>1, <1>4, <1>9, <1>10 DEF Mends

Logging == clean /\ writer = "FBCON_Write" /\ pc # "return" /\ Program[call].op = "log"

Finishing == con.done => pc \in {"apply", "test", "clearDone"}

Healing == Finishing /\ (Logging => Mends) /\ HealsTheConsole

\* The flag of a complete sequence is only set while it is applied, whether
\* interrupts come or not (ansi.c:25, 122).
LEMMA FinishingKeeps ==
    ASSUME ConsoleInv, Finishing, [Next]_vars
    PROVE  Finishing'
<1>1. text # << >> => Ch \in Char
  BY TailFacts DEF ConsoleInv, TypeOK, Ch
<1>2. con \in Console
  BY DEF ConsoleInv, TypeOK
<1> DEFINE Kept(c) == ~ con.done => ~ c.done
<1>3. ASSUME NEW c, Kept(c), con' = c, pc \notin {"apply", "test", "clearDone"} \/ pc' = pc
      PROVE  Finishing'
  BY <1>3 DEF Finishing
<1>4. CASE \/ SetWriteFunc \/ EnableInterrupts \/ StartPrinting \/ Return \/ LoadEsc
           \/ LoadLen \/ LoadEnd \/ Scan \/ LoadX \/ AtEdge \/ InsideRow
           \/ UNCHANGED vars
  <2>1. con' = con /\ (pc \notin {"apply", "test", "clearDone"} \/ pc' = pc)
    BY <1>4 DEF SetWriteFunc, EnableInterrupts, StartPrinting, Return, LoadEsc, LoadLen,
       LoadEnd, Scan, LoadX, AtEdge, InsideRow, Calling, Idle, Step, Done, vars
  <2> QED
    BY <2>1 DEF Finishing
<1>5. CASE Reset
  <2>1. con' = FBCON_Reset(con) /\ pc = "return"
    BY <1>5 DEF Reset, Calling, Idle
  <2> QED
    BY <1>2, <1>3, <2>1, ResetFacts
<1>6. CASE PutcharSerial
  <2>1. con' = COM_LogWrapper(Quiet, Ch) /\ pc = "putchar" /\ text # << >>
    BY <1>6 DEF PutcharSerial, Done
  <2>2. Quiet \in Console /\ Kept(Quiet)
    BY <1>2, FreshConsole DEF Quiet
  <2> QED
    BY <1>1, <1>3, <2>1, <2>2, SerialFacts
<1>7. CASE Putchar
  <2>1. con' = Quiet /\ pc = "putchar"
    BY <1>7 DEF Putchar, Step
  <2>2. Kept(Quiet)
    BY <1>2, FreshConsole DEF Quiet
  <2> QED
    BY <1>3, <2>1, <2>2
<1>8. CASE \/ StoreEsc \/ StoreLen \/ StoreCh \/ StoreNul \/ ClearLen \/ SetEsc
           \/ Home \/ Glyph \/ StoreX \/ Wrap
  <2>1. con'.done = con.done /\ pc \notin {"apply", "test", "clearDone"}
    BY <1>2, <1>8 DEF StoreEsc, StoreLen, StoreCh, StoreNul, ClearLen, SetEsc, Home,
       Glyph, StoreX, Wrap, Step, Done, Console
  <2> QED
    BY <2>1 DEF Finishing
<1>9. CASE SetDone
  BY <1>9 DEF SetDone, Step, Finishing
<1>10. CASE Apply \/ Test
  BY <1>10 DEF Apply, Test, Step, Finishing
<1>11. CASE ClearDone
  <2>1. con' = [con EXCEPT !.done = FALSE]
    BY <1>11 DEF ClearDone, Step
  <2>2. ~ con'.done
    BY <1>2, <2>1 DEF Console
  <2> QED
    BY <2>2 DEF Finishing
<1>12. ASSUME NEW k \in Typeable, Interrupt(k) PROVE Finishing'
  <2>1. /\ con' = HandleKeyboard(kb, con, k).con /\ pc' = pc /\ Room(kb, k)
        /\ con.len < BufSize - 3
    BY <1>12 DEF Interrupt, Fits
  <2>2. WellFormed(kb) /\ con.len < BufSize - 1 /\ k \in Scancode
    BY <1>2, <2>1, ConsoleParts, BufSizeAssumption, TypeableAssumption DEF ConsoleInv
  <2>3. Kept(HandleKeyboard(kb, con, k).con)
    BY <1>2, <2>1, <2>2, HandlerFacts
  <2> QED
    BY <2>1, <2>3 DEF Finishing
<1> QED
  BY <1>4, <1>5, <1>6, <1>7, <1>8, <1>9, <1>10, <1>11, <1>12 DEF Next, BootThread

\* Between two accesses without an interrupt.
LEMMA MendsKeeps ==
    ASSUME ConsoleInv, Finishing, Mends,
           \/ Putchar \/ StoreEsc \/ LoadEsc \/ LoadLen \/ StoreLen \/ StoreCh
           \/ LoadEnd \/ StoreNul \/ Scan \/ SetDone \/ Apply \/ Test \/ ClearDone
           \/ ClearLen \/ SetEsc \/ Home \/ Glyph \/ LoadX \/ StoreX \/ InsideRow
           \/ AtEdge \/ Wrap
    PROVE  Mends'
<1>1. CASE StoreNul
  <2>1. ~ con.done
    BY <1>1 DEF StoreNul, Step, Finishing
  <2> QED
    BY <1>1, <2>1, StoreNulMends
<1>2. CASE Scan
  <2>1. ~ con.done
    BY <1>2 DEF Scan, Step, Finishing
  <2> QED
    BY <1>2, <2>1, ScanMends
<1>3. CASE Putchar \/ Glyph \/ LoadX \/ StoreX \/ AtEdge
  BY <1>3, DrawingMends
<1>4. CASE StoreEsc \/ SetEsc \/ Home \/ InsideRow \/ Wrap
  BY <1>4, LastMends
<1> QED
  BY <1>1, <1>2, <1>3, <1>4, LoadEscMends, LoadLenMends, StoreLenMends, StoreChMends,
     LoadEndMends, SetDoneMends, ApplyMends, TestMends, ClearDoneMends, ClearLenMends

\* At the end of a log line nothing is left of it.
LEMMA ReturnHeals ==
    ASSUME ConsoleInv, Finishing, Logging => Mends, Return
    PROVE  HealsTheConsole'
<1>1. /\ pc = "putchar" /\ text = << >> /\ call' = call + 1
      /\ UNCHANGED <<text, writer, con, clean>>
  BY DEF Return
<1>2. call \in Nat /\ (call + 1) - 1 = call
  <2>1. call \in 1 .. (Len(Program) + 1)
    BY DEF ConsoleInv, TypeOK
  <2> QED
    BY <2>1
<1>3. ~ con.done
  BY <1>1 DEF Finishing
<1>4. ASSUME Logging PROVE con.x = 0 /\ ~ con.esc /\ con.len = 0 /\ Default(con)
  <2>1. Heals(text, con, con.len) /\ Default(con) /\ con.x = 0
    <3>1. Len(text) <= 2
      BY <1>1
    <3> QED
      BY <1>1, <1>4, <3>1 DEF Mends, Awaits, Ends
  <2>2. ~ con.esc /\ con.len = 0
    <3>1. ~ (Len(text) > 5) /\ Len(text) <= 2
      BY <1>1
    <3> QED
      BY <2>1, <3>1, Zenon DEF Heals
  <2> QED
    BY <2>1, <2>2
<1>5. clean /\ writer = "FBCON_Write" /\ Program[call].op = "log" => Logging
  BY <1>1 DEF Logging
<1> QED
  BY <1>1, <1>2, <1>3, <1>4, <1>5 DEF HealsTheConsole, Default

\* Every step keeps the invariant; an interrupt makes the line unclean.
LEMMA HealingKeeps ==
    ASSUME ConsoleInv, Healing, [Next]_vars
    PROVE  Healing'
<1>1. Finishing'
  BY FinishingKeeps DEF Healing
<1> DEFINE Inner == \/ Putchar \/ StoreEsc \/ LoadEsc \/ LoadLen \/ StoreLen \/ StoreCh
                    \/ LoadEnd \/ StoreNul \/ Scan \/ SetDone \/ Apply \/ Test
                    \/ ClearDone \/ ClearLen \/ SetEsc \/ Home \/ Glyph \/ LoadX
                    \/ StoreX \/ InsideRow \/ AtEdge \/ Wrap
<1>2. CASE Inner
  <2>1. pc # "return" /\ pc' # "return" /\ UNCHANGED <<clean, writer, call>>
    BY <1>2 DEF Putchar, StoreEsc, LoadEsc, LoadLen, StoreLen, StoreCh, LoadEnd, StoreNul,
       Scan, SetDone, Apply, Test, ClearDone, ClearLen, SetEsc, Home, Glyph, LoadX,
       StoreX, InsideRow, AtEdge, Wrap, Step, Done, vars_setup
  <2>2. Logging' => Logging
    BY <2>1 DEF Logging
  <2>3. Logging' => Mends'
    BY <1>2, <2>2, MendsKeeps DEF Healing
  <2>4. HealsTheConsole'
    BY <2>1 DEF HealsTheConsole
  <2> QED
    BY <1>1, <2>3, <2>4 DEF Healing
<1>3. CASE SetWriteFunc \/ Reset \/ EnableInterrupts
  <2>1. /\ pc = "return" /\ pc' = "return" /\ call' = call + 1
        /\ Program[call].op \in {"TTY_SetWriteFunc", "FBCON_Init", "create_idt"}
    BY <1>3 DEF SetWriteFunc, Reset, EnableInterrupts, Calling, Idle
  <2>2. (call + 1) - 1 = call
    <3>1. call \in 1 .. (Len(Program) + 1)
      BY DEF ConsoleInv, TypeOK
    <3> QED
      BY <3>1
  <2>3. ~ Logging' /\ HealsTheConsole'
    BY <2>1, <2>2 DEF Logging, HealsTheConsole
  <2> QED
    BY <1>1, <2>3 DEF Healing
<1>4. CASE StartPrinting
  <2>1. pc' = "putchar" /\ UNCHANGED <<writer, call>>
    BY <1>4 DEF StartPrinting, vars_setup
  <2>2. Logging' => Mends'
    BY <1>4, <2>1, StartMends DEF Logging
  <2>3. HealsTheConsole'
    BY <2>1 DEF HealsTheConsole
  <2> QED
    BY <1>1, <2>2, <2>3 DEF Healing
<1>5. CASE Return
  <2>1. ~ Logging'
    BY <1>5 DEF Return, Logging
  <2> QED
    BY <1>1, <1>5, <2>1, ReturnHeals DEF Healing
<1>6. CASE PutcharSerial
  <2>1. writer' # "FBCON_Write"
    BY <1>6 DEF PutcharSerial, Done, vars_setup
  <2> QED
    BY <1>1, <2>1 DEF Healing, Logging, HealsTheConsole
<1>7. ASSUME NEW k \in Typeable, Interrupt(k) PROVE Healing'
  <2>1. ~ clean'
    BY <1>7 DEF Interrupt
  <2> QED
    BY <1>1, <2>1 DEF Healing, Logging, HealsTheConsole
<1>8. CASE UNCHANGED vars
  BY <1>1, <1>8 DEF vars, Healing, Logging, Mends, Awaits, Appends, Completes, GoesOn,
     Draws, Ends, Reading, Ch, HealsTheConsole
<1> QED
  BY <1>2, <1>3, <1>4, <1>5, <1>6, <1>7, <1>8 DEF Next, BootThread

\* At boot nothing is printed yet.
LEMMA HealingInit == Init => Healing
<1> SUFFICES ASSUME Init PROVE Healing
  OBVIOUS
<1>1. pc = "return" /\ con = ConsoleAtBoot /\ clean = FALSE
  BY DEF Init
<1> QED
  BY <1>1, ConsoleStarts DEF Healing, Finishing, Logging, HealsTheConsole

\* A log line that no scan code interrupts leaves the console outside an
\* escape sequence, at the first column and with the default attributes,
\* whatever interrupts and earlier output had made of it (log.c:23-45,
\* fbcon.c:25-31, ansi.c:9-127).
THEOREM LogLineHeals == Spec => []HealsTheConsole
<1>1. Healing => HealsTheConsole
  BY DEF Healing
<1>2. Init => ConsoleInv /\ Healing
  BY ConsoleInvInit, HealingInit
<1>3. ConsoleInv /\ Healing /\ [Next]_vars => (ConsoleInv /\ Healing)'
  BY ConsoleInvNext, HealingKeeps
<1> QED
  BY <1>1, <1>2, <1>3, PTL DEF Spec

=============================================================================
