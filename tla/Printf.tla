------------------------------- MODULE Printf -------------------------------
(***************************************************************************)
(* video/printf.c: printf to the console, sprintf and snprintf to an       *)
(* array.  One step is one turn of formatStringLoop.  The functions on an  *)
(* outputGadget_t take a gadget and return it as they leave it:            *)
(*   fn       it hands characters to a function, else it has a buffer      *)
(*   max      max_chars                                                    *)
(*   pos      the characters counted so far                                *)
(*   cells    the caller's array                                           *)
(*   text     history: every character passed to putcharViaGadget          *)
(*   past     history: a write behind the caller's array                   *)
(* Flags are the set of the format's flag characters and of "precision",   *)
(* "upper", "signed", "pointer", "long", "long long", "short", "char".     *)
(* Arguments are numbers, characters or strings; a number that needs more  *)
(* than 31 bits, and a conversion that is switched off (f, e, g), is left  *)
(* out, the latter but for its default case.                               *)
(***************************************************************************)
EXTENDS Conversions

CONSTANTS
    IntegerBuffer,   \* PRINTF_INTEGER_BUFFER_SIZE
    MaxBuffer,       \* PRINTF_MAX_POSSIBLE_BUFFER_SIZE
    Calls            \* the calls: [pieces, fn : BOOLEAN, max, size], size
                     \* being the length of the caller's array

ASSUME IntegerBufferAssumption == IntegerBuffer \in Nat \ {0}
ASSUME MaxBufferAssumption     == MaxBuffer \in Nat
ASSUME CallsAssumption         ==
    \A c \in Calls : c.fn \in BOOLEAN /\ c.max \in Nat /\ c.size \in Nat

VARIABLES
    call,       \* the call that is made
    pc,         \* "loop", "term", "done", or "wild" behind the format's end
    format, at, \* the format and the place in it, from 1
    args,       \* the arguments va_arg has not taken yet
    gadget,
    stored      \* what %n stored last, -1 before

vars == <<call, pc, format, at, args, gadget, stored>>

-----------------------------------------------------------------------------
(* The gadget.                                                              *)

putcharViaGadget(g, c) ==
    LET stores == ~ g.fn /\ g.pos < g.max
    IN  [g EXCEPT !.pos = @ + 1, !.text = Append(@, c),
                  !.cells = IF stores /\ g.pos \in DOMAIN @
                              THEN [@ EXCEPT ![g.pos] = c] ELSE @,
                  !.past = @ \/ (stores /\ g.pos \notin DOMAIN g.cells)]

putAll(g, s) ==
    LET put[n \in 0 .. Len(s)] == IF n = 0 THEN g ELSE putcharViaGadget(put[n - 1], s[n])
    IN  put[Len(s)]

\* Mutant of appendTermWithGadget: the terminator always goes behind the text.
appendTermWithGadget_Behind(g) ==
    IF g.fn \/ g.max = 0 THEN g
    ELSE [g EXCEPT !.cells = IF g.pos \in DOMAIN @ THEN [@ EXCEPT ![g.pos] = "NUL"] ELSE @,
                   !.past = @ \/ g.pos \notin DOMAIN g.cells]

appendTermWithGadget(g) ==
    LET last == IF g.pos < g.max THEN g.pos ELSE g.max - 1
    IN  IF g.fn \/ g.max = 0 THEN g
        ELSE [g EXCEPT !.cells = IF last \in DOMAIN @ THEN [@ EXCEPT ![last] = "NUL"] ELSE @,
                       !.past = @ \/ last \notin DOMAIN g.cells]

\* functionGadget and bufferGadget.
GadgetOf(c) ==
    [fn |-> c.fn, max |-> IF c.fn \/ c.max > MaxBuffer THEN MaxBuffer ELSE c.max,
     pos |-> 0, cells |-> [j \in 0 .. (c.size - 1) |-> "old"],
     text |-> << >>, past |-> FALSE]

-----------------------------------------------------------------------------
(* Numbers.  buf holds the digits from the last one up.                     *)

outRev_(g, buf, width, flags) ==
    LET padded  == IF {"-", "0"} \cap flags = {}
                     THEN putAll(g, Repeat(" ", width - Len(buf))) ELSE g
        printed == putAll(padded, Reverse(buf))
    IN  IF "-" \in flags
          THEN putAll(printed, Repeat(" ", width - (printed.pos - g.pos))) ELSE printed

\* buf filled up with zeros to n, or to the buffer's end.
FillZeros(buf, n) ==
    buf \o Repeat("0", (IF n < IntegerBuffer THEN n ELSE IntegerBuffer) - Len(buf))

Room(buf) == Len(buf) < IntegerBuffer

AppendIf(buf, condition, c) == IF condition THEN Append(buf, c) ELSE buf

\* Takes back the padding zeros that the prefix is to replace.
TakeBack(buf, unpadded, base, precision, width, flags) ==
    LET exact == "precision" \notin flags /\ buf # << >> /\ Len(buf) \in {precision, width}
        one   == exact /\ unpadded < Len(buf)
        left  == Len(buf) - (IF one THEN 1 ELSE 0)
        two   == exact /\ left # 0 /\ base \in {2, 16} /\ unpadded < left
    IN  SubSeq(buf, 1, left - (IF two THEN 1 ELSE 0))

BaseLetter(base, flags) ==
    CASE base = 2 -> "b" [] base = 16 /\ "upper" \in flags -> "X" [] OTHER -> "x"

\* 0x, 0X, 0b or 0, from the last character up.
AppendBase(buf, unpadded, base, precision, width, flags) ==
    LET short  == TakeBack(buf, unpadded, base, precision, width, flags)
        letter == AppendIf(short, base \in {2, 16} /\ Room(short), BaseLetter(base, flags))
    IN  AppendIf(letter, Room(letter), "0")

AppendSign(buf, negative, flags) ==
    LET sign == IF negative THEN "-" ELSE IF "+" \in flags THEN "+" ELSE " "
    IN  AppendIf(buf, Room(buf) /\ (negative \/ flags \cap {"+", " "} # {}), sign)

\* Mutant of printIntegerFinalization: no column is kept for the sign.
printIntegerFinalization_NoColumn(g, buf, negative, base, precision, width, flags) ==
    LET zeros == IF "0" \in flags /\ "-" \notin flags THEN FillZeros(buf, width) ELSE buf
    IN  outRev_(g, AppendSign(FillZeros(zeros, precision), negative, flags), width, flags)

printIntegerFinalization(g, buf, negative, base, precision, width, flags) ==
    LET filling == "0" \in flags /\ "-" \notin flags
        columns == IF filling /\ width # 0 /\ (negative \/ {"+", " "} \cap flags # {})
                     THEN width - 1 ELSE width
        zeros   == IF filling THEN FillZeros(buf, columns) ELSE buf
        digits  == FillZeros(zeros, precision)
        octal   == base = 8 /\ Len(digits) > Len(buf)
        alternate == "pointer" \in flags \/ ("#" \in flags /\ ~ octal)
        based   == IF alternate
                     THEN AppendBase(digits, Len(buf), base, precision, columns, flags)
                     ELSE digits
    IN  outRev_(g, AppendSign(based, negative, flags), columns, flags)

printInt(g, value, negative, base, precision, width, flags) ==
    LET reversed[n \in Nat] ==
            IF n = 0 THEN << >> ELSE <<Numeral[(n % base) + 1]>> \o reversed[n \div base]
        digits == IF value = 0 /\ "precision" \notin flags THEN <<"0">> ELSE reversed[value]
        kept   == IF value = 0 /\ ("precision" \notin flags \/ base = 16)
                    THEN flags \ {"#"} ELSE flags
        buf    == SubSeq(digits, 1, IF Room(digits) THEN Len(digits) ELSE IntegerBuffer)
    IN  printIntegerFinalization(g, buf, negative, base, precision, width, kept)

-----------------------------------------------------------------------------
(* Reading a field: a record [at, args, flags, width, precision, stop] that *)
(* each part of formatStringLoop passes on, unless the format has ended.    *)

CharAt(k) == IF k <= Len(format) THEN format[k] ELSE "NUL"

\* Mutant of Advance: without PRINTF_CHECK_FOR_NUL_IN_FORMAT_SPECIFIER.
Advance_Blind(f) == [f EXCEPT !.at = @ + 1]

\* ADVANCE_IN_FORMAT_STRING.
Advance(f) == [f EXCEPT !.at = @ + 1, !.stop = CharAt(f.at + 1) = "NUL"]

IsDigit(c) == c \in {"0", "1", "2", "3", "4", "5", "6", "7", "8", "9"}

DigitValue(c) == CHOOSE d \in 0 .. 9 : Numeral[d + 1] = c

\* The first place from k on whose character is not in the set.
SkipFrom(k, set) ==
    LET Ends == {j \in k .. (Len(format) + 1) : CharAt(j) \notin set}
    IN  CHOOSE j \in Ends : \A m \in Ends : j <= m

\* The number that the digits from k to the one before last make.
atou_(k, last) ==
    FoldLeft(LAMBDA n, c : n * 10 + DigitValue(c), 0, SubSeq(format, k, last - 1))

DigitCharacters == {Numeral[d] : d \in 1 .. 10}

parseFlags(f) ==
    LET last == SkipFrom(f.at, {"0", "-", "+", " ", "#"})
    IN  [f EXCEPT !.at = last, !.flags = {format[j] : j \in f.at .. (last - 1)}]

ReadWidth(f) ==
    LET last == SkipFrom(f.at, DigitCharacters)
        w    == Head(f.args)
    IN  CASE IsDigit(CharAt(f.at)) -> [f EXCEPT !.width = atou_(f.at, last), !.at = last]
          [] CharAt(f.at) = "*" ->
                Advance([f EXCEPT !.args = Tail(@), !.width = IF w < 0 THEN -w ELSE w,
                                  !.flags = IF w < 0 THEN @ \cup {"-"} ELSE @])
          [] OTHER -> f

ReadPrecision(f) ==
    LET dot  == Advance([f EXCEPT !.flags = @ \cup {"precision"}])
        last == SkipFrom(dot.at, DigitCharacters)
        p    == Head(f.args)
    IN  CASE CharAt(f.at) # "." -> f
          [] CharAt(f.at) = "." /\ IsDigit(CharAt(dot.at)) ->
                [dot EXCEPT !.precision = atou_(dot.at, last), !.at = last]
          [] CharAt(f.at) = "." /\ CharAt(dot.at) = "*" ->
                Advance([dot EXCEPT !.args = Tail(@), !.precision = IF p > 0 THEN p ELSE 0])
          [] OTHER -> dot

LengthFlag == [l |-> "long", h |-> "short", t |-> "long", j |-> "long", z |-> "long"]
DoubleFlag == [l |-> "long long", h |-> "char"]

ReadLength(f) ==
    LET c    == CharAt(f.at)
        next == Advance([f EXCEPT !.flags = @ \cup {LengthFlag[c]}])
    IN  CASE c \notin DOMAIN LengthFlag -> f
          [] c \in DOMAIN DoubleFlag /\ ~ next.stop /\ CharAt(next.at) = c ->
                Advance([next EXCEPT !.flags = @ \cup {DoubleFlag[c]}])
          [] OTHER -> next

\* Each part is left out once the format has ended.
Unless(f, g) == IF f.stop THEN f ELSE g

ReadField ==
    LET start  == Advance([at |-> at, args |-> args, flags |-> {}, width |-> 0,
                           precision |-> 0, stop |-> FALSE])
        flags  == Unless(start, parseFlags(start))
        width  == Unless(flags, ReadWidth(flags))
        prec   == Unless(width, ReadPrecision(width))
    IN  Unless(prec, ReadLength(prec))

-----------------------------------------------------------------------------
(* Printing a field: the gadget after it.                                   *)

\* The argument as the type its length names; int, long and long long hold it.
Signed(v, flags) ==
    CASE "char" \in flags  -> ((v + 128) % 256) - 128
      [] "char" \notin flags /\ "short" \in flags -> ((v + 32768) % 65536) - 32768
      [] OTHER -> v

Unsigned(v, flags) ==
    CASE "char" \in flags  -> v % 256
      [] "char" \notin flags /\ "short" \in flags -> v % 65536
      [] OTHER -> v

BaseOf(c) == CASE c \in {"x", "X"} -> 16 [] c = "o" -> 8 [] c = "b" -> 2 [] OTHER -> 10

PrintNumber(g, c, f, arg) ==
    LET base   == BaseOf(c)
        signed == c \in {"d", "i"}
        value  == IF signed THEN Signed(arg, f.flags) ELSE Unsigned(arg, f.flags)
        flags  == (f.flags \cup (IF c = "X" THEN {"upper"} ELSE {}))
                  \ ((IF base = 10 THEN {"#"} ELSE {})
                     \cup (IF "precision" \in f.flags THEN {"0"} ELSE {})
                     \cup (IF signed THEN {} ELSE {"+", " "}))
    IN  printInt(g, IF value < 0 THEN -value ELSE value, value < 0, base,
                 f.precision, f.width, flags)

\* s with spaces in front of it or, with '-', behind it.
PrintPadded(g, f, s) ==
    LET spaces == Repeat(" ", f.width - Len(s))
    IN  IF "-" \in f.flags THEN putAll(putAll(g, s), spaces)
                           ELSE putAll(putAll(g, spaces), s)

\* The precision bounds what is printed; the null pointer has a text.
PrintString(g, f, p) ==
    IF p = NullString THEN outRev_(g, Reverse(<<"(", "n", "u", "l", "l", ")">>), f.width, f.flags)
    ELSE PrintPadded(g, f, IF "precision" \in f.flags /\ f.precision < Len(p)
                             THEN SubSeq(p, 1, f.precision) ELSE p)

PrintPointer(g, f, p) ==
    printInt(g, p, FALSE, 16, f.precision, 18, f.flags \cup {"0", "pointer"})

\* The gadget after the specifier at the field's end; any other character
\* stands for itself, the format's terminator too.
PrintField(f) ==
    LET c == CharAt(f.at)
    IN  CASE c \in DOMAIN Base -> PrintNumber(gadget, c, f, Head(f.args))
          [] c = "c" -> PrintPadded(gadget, f, <<Head(f.args)>>)
          [] c = "s" -> PrintString(gadget, f, Head(f.args))
          [] c = "p" -> PrintPointer(gadget, f, Head(f.args))
          [] c = "n" -> gadget
          [] OTHER   -> putcharViaGadget(gadget, c)

TakesArgument(c) == c \in DOMAIN Base \cup {"c", "s", "p", "n"}

-----------------------------------------------------------------------------
(* formatStringLoop.                                                        *)

Regular ==
    /\ pc = "loop" /\ CharAt(at) \notin {"NUL", "%"}
    /\ gadget' = putcharViaGadget(gadget, CharAt(at))
    /\ at' = at + 1
    /\ UNCHANGED <<call, pc, format, args, stored>>

\* A field that the format's end cuts off returns from the loop if the end
\* comes where ADVANCE_IN_FORMAT_STRING looks for it.
CutOff ==
    /\ pc = "loop" /\ CharAt(at) = "%" /\ ReadField.stop
    /\ pc' = "term"
    /\ at' = ReadField.at /\ args' = ReadField.args
    /\ UNCHANGED <<call, format, gadget, stored>>

\* If the end is where the specifier should be, it is printed, and the format
\* pointer moves on behind it.
Field ==
    /\ pc = "loop" /\ CharAt(at) = "%"
    /\ LET f == ReadField IN
       /\ ~ f.stop
       /\ gadget' = PrintField(f)
       /\ args' = IF TakesArgument(CharAt(f.at)) THEN Tail(f.args) ELSE f.args
       /\ stored' = IF CharAt(f.at) = "n" THEN gadget.pos ELSE stored
       /\ at' = f.at + 1
       /\ pc' = IF CharAt(f.at) = "NUL" THEN "wild" ELSE pc
    /\ UNCHANGED <<call, format>>

EndOfFormat ==
    /\ pc = "loop" /\ CharAt(at) = "NUL"
    /\ pc' = "term"
    /\ UNCHANGED <<call, format, at, args, gadget, stored>>

formatStringLoop == Regular \/ CutOff \/ Field \/ EndOfFormat

\* vsnprintf_impl: the terminator, and the number of characters is returned.
Terminate ==
    /\ pc = "term" /\ pc' = "done"
    /\ gadget' = appendTermWithGadget(gadget)
    /\ UNCHANGED <<call, format, at, args, stored>>

Init ==
    /\ call \in Calls
    /\ pc = "loop" /\ at = 1 /\ stored = -1
    /\ format = FormatOf(call.pieces)
    /\ args = ArgumentsOf(call.pieces)
    /\ gadget = GadgetOf(call)

Next == formatStringLoop \/ Terminate

Spec == Init /\ [][Next]_vars

-----------------------------------------------------------------------------
(* Properties.                                                              *)

\* What a call prints is what its format means: each field gets its own
\* argument and has the digits, prefix, sign and padding asked for, as long
\* as it fits the number buffer; every argument is taken (printf.c:156-295,
\* 724-1029).
PrintsTheMeaning ==
    pc = "done" => /\ gadget.text = MeaningOf(call.pieces)
                   /\ stored = CountOf(call.pieces)
                   /\ args = << >>

\* The array holds as much of the text as max_chars allows, terminated, the
\* cells behind it are untouched, and the length returned is that of the
\* whole text (printf.c:77-108, 1060-1069).  Nothing is ever written behind the
\* array, by snprintf for any text and by sprintf for what the kernel prints
\* (acpi.c:49-101, checkLoader.c:32).
ArrayHoldsThePrefix ==
    /\ ~ gadget.past
    /\ pc = "done" =>
        LET n == IF gadget.pos < gadget.max THEN gadget.pos ELSE gadget.max - 1
        IN  /\ gadget.pos = Len(gadget.text)
            /\ \A j \in DOMAIN gadget.cells :
                gadget.cells[j] =
                    CASE gadget.fn \/ gadget.max = 0 \/ j > n -> "old"
                      [] ~ gadget.fn /\ gadget.max # 0 /\ j < n -> gadget.text[j + 1]
                      [] OTHER -> "NUL"

\* The format's last character is a flag or a digit of a field that it cuts off.
EndsInFlagOrDigit ==
    LET last == call.pieces[Len(call.pieces)]
    IN  last.kind = "cut" /\ last.text[Len(last.text)] \in DigitCharacters \cup {"-", "+", " ", "#"}

\* A format that is cut off anywhere else, behind the %, the point, a star or a
\* first or second length letter, is not read behind its end; nor is a whole
\* one, however its fields follow each other (printf.c:740-744, 755-850).
CutsAreSeen == pc = "wild" \/ at > Len(format) + 1 => EndsInFlagOrDigit

\* printf.h:75: "Be extra-safe, and don't assume format specifiers are
\* completed correctly before the format string end."  No format is read
\* behind its end (printf.c:740-744).
StaysInFormat == pc # "wild"
=============================================================================
