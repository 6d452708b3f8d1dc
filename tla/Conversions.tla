----------------------------- MODULE Conversions -----------------------------
(***************************************************************************)
(* What a format string asks for, as the C standard says it (C11           *)
(* 7.21.6.1), for the conversions that video/printf.c offers.  The         *)
(* standard leaves the form of a pointer open and has no b; these two are  *)
(* the library's own.  A format is a sequence of pieces: text to be        *)
(* copied, fields, and a field that the format's end cuts off.  A field is *)
(* a record:                                                               *)
(*   flags       a subset of {"0", "-", "+", " ", "#"}                     *)
(*   width       0 stands for none; negative only with star                *)
(*   prec        -1 stands for none                                        *)
(*   star        width and precision are arguments                         *)
(*   length      "", "hh", "h", "l" or "ll"                                *)
(*   spec, arg   the conversion and its argument                           *)
(* Both x and X are taken to ask for capitals, which is what the code's    *)
(* callers get.                                                            *)
(***************************************************************************)
EXTENDS Integers, Sequences, SequencesExt

Base == [c \in {"d", "i", "u", "x", "X", "o", "b"} |->
            CASE c \in {"x", "X"} -> 16 [] c = "o" -> 8 [] c = "b" -> 2 [] OTHER -> 10]

Numeral == <<"0", "1", "2", "3", "4", "5", "6", "7", "8", "9",
             "A", "B", "C", "D", "E", "F">>

\* The digits of a natural number, the most significant first.
Digits(value, base) ==
    LET digits[n \in Nat] ==
            IF n < base THEN <<Numeral[n + 1]>>
            ELSE Append(digits[n \div base], Numeral[(n % base) + 1])
    IN  digits[value]

Repeat(c, n) == IF n <= 0 THEN << >> ELSE [j \in 1 .. n |-> c]

-----------------------------------------------------------------------------
(* The format as written.                                                   *)

Text(s) == [kind |-> "text", text |-> s]
\* With the arguments that its stars take.
Cut(s, args) == [kind |-> "cut", text |-> s, args |-> args]

Letters(length) ==
    CASE length = "" -> << >> [] length = "hh" -> <<"h", "h">>
      [] length = "ll" -> <<"l", "l">> [] OTHER -> <<length>>

Amount(n, star) == IF star THEN <<"*">> ELSE Digits(n, 10)

Written(piece) ==
    IF piece.kind # "field" THEN piece.text
    ELSE <<"%">>
         \o SelectSeq(<<"0", "-", "+", " ", "#">>, LAMBDA c : c \in piece.flags)
         \o (IF piece.width = 0 THEN << >> ELSE Amount(piece.width, piece.star))
         \o (IF piece.prec = -1 THEN << >> ELSE <<".">> \o Amount(piece.prec, piece.star))
         \o Letters(piece.length) \o <<piece.spec>>

Arguments(piece) ==
    CASE piece.kind = "text" -> << >>
      [] piece.kind = "cut"  -> piece.args
      [] OTHER ->
         (IF piece.star /\ piece.width # 0 THEN <<piece.width>> ELSE << >>)
         \o (IF piece.star /\ piece.prec # -1 THEN <<piece.prec>> ELSE << >>)
         \o (IF piece.spec = "%" THEN << >> ELSE <<piece.arg>>)

-----------------------------------------------------------------------------
(* What it stands for.                                                      *)

FieldWidth(f) == IF f.width < 0 THEN -f.width ELSE f.width
LeftAdjusted(f) == "-" \in f.flags \/ f.width < 0

\* s in a field of the asked width, spaces on one side.
Adjusted(f, s) ==
    LET spaces == Repeat(" ", FieldWidth(f) - Len(s))
    IN  IF LeftAdjusted(f) THEN s \o spaces ELSE spaces \o s

Modulus == [hh |-> 256, h |-> 65536]

\* The argument as a value of the type that the length names.
Converted(f) ==
    CASE f.length \notin DOMAIN Modulus -> f.arg
      [] f.length \in DOMAIN Modulus /\ f.spec \in {"d", "i"} ->
            LET m == Modulus[f.length] IN ((f.arg + (m \div 2)) % m) - (m \div 2)
      [] OTHER -> f.arg % Modulus[f.length]

Magnitude(f) == IF Converted(f) < 0 THEN -Converted(f) ELSE Converted(f)

\* The digits, at least as many as the precision; # makes an octal number
\* start with 0.
NumberDigits(f) ==
    LET plain  == IF Magnitude(f) = 0 /\ f.prec = 0 THEN << >>
                  ELSE Digits(Magnitude(f), Base[f.spec])
        digits == Repeat("0", f.prec - Len(plain)) \o plain
    IN  IF f.spec = "o" /\ "#" \in f.flags /\ (digits = << >> \/ Head(digits) # "0")
          THEN <<"0">> \o digits ELSE digits

NumberPrefix(f) ==
    CASE f.spec \in {"d", "i"} ->
            (CASE Converted(f) < 0 -> <<"-">>
               [] Converted(f) >= 0 /\ "+" \in f.flags -> <<"+">>
               [] Converted(f) >= 0 /\ "+" \notin f.flags /\ " " \in f.flags -> <<" ">>
               [] OTHER -> << >>)
      [] f.spec \in {"x", "X"} /\ "#" \in f.flags /\ Magnitude(f) # 0 -> <<"0", f.spec>>
      [] f.spec = "b" /\ "#" \in f.flags /\ (Magnitude(f) # 0 \/ f.prec # -1) -> <<"0", "b">>
      [] OTHER -> << >>

Number(f) ==
    LET prefix == NumberPrefix(f)
        digits == NumberDigits(f)
        zeros  == Repeat("0", FieldWidth(f) - Len(prefix) - Len(digits))
    IN  IF "0" \in f.flags /\ ~ LeftAdjusted(f) /\ f.prec = -1
          THEN prefix \o zeros \o digits
          ELSE Adjusted(f, prefix \o digits)

\* A pointer shows all of its 16 hexadecimal digits.
Pointer(f) ==
    LET digits == Digits(f.arg, 16)
    IN  <<"0", "x">> \o Repeat("0", 16 - Len(digits)) \o digits

\* The null pointer, which the code shows as a string of its own.
NullString == <<"NUL">>

String(f) ==
    IF f.arg = NullString THEN <<"(", "n", "u", "l", "l", ")">>
    ELSE IF f.prec = -1 \/ Len(f.arg) <= f.prec THEN f.arg ELSE SubSeq(f.arg, 1, f.prec)

Meaning(piece) ==
    CASE piece.kind = "text" -> piece.text
      [] piece.kind = "cut"  -> << >>
      [] OTHER ->
            (CASE piece.spec \in DOMAIN Base -> Number(piece)
               [] piece.spec = "p" -> Pointer(piece)
               [] piece.spec = "c" -> Adjusted(piece, <<piece.arg>>)
               [] piece.spec = "s" -> Adjusted(piece, String(piece))
               [] piece.spec = "n" -> << >>
               [] piece.spec = "%" -> <<"%">>)

\* Concatenations over a sequence of pieces.
FormatOf(pieces)    == FlattenSeq([j \in 1 .. Len(pieces) |-> Written(pieces[j])])
ArgumentsOf(pieces) == FlattenSeq([j \in 1 .. Len(pieces) |-> Arguments(pieces[j])])
MeaningOf(pieces)   == FlattenSeq([j \in 1 .. Len(pieces) |-> Meaning(pieces[j])])

\* What the last n stores: the length of the text in front of it, or -1.
CountOf(pieces) ==
    LET Ns == {j \in DOMAIN pieces : pieces[j].kind = "field" /\ pieces[j].spec = "n"}
    IN  IF Ns = {} THEN -1 ELSE Len(MeaningOf(SubSeq(pieces, 1, Max(Ns) - 1)))
=============================================================================
