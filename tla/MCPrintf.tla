------------------------------ MODULE MCPrintf ------------------------------
(***************************************************************************)
(* Instances of Printf.  MCCalls: every set of flags with a width and a    *)
(* precision below and above the number of digits, for every integer       *)
(* conversion; lengths, stars, characters, strings, pointers, n; formats   *)
(* cut off behind each part of a field; numbers that just fill the number  *)
(* buffer; snprintf to arrays shorter than, as long as and longer than the *)
(* text; and the kernel's sprintf calls that come closest to their arrays. *)
(***************************************************************************)
EXTENDS Printf

Conv(flags, width, prec, spec, arg) ==
    [kind |-> "field", flags |-> flags, width |-> width, prec |-> prec, star |-> FALSE,
     length |-> "", spec |-> spec, arg |-> arg]

Starred(f) == [f EXCEPT !.star = TRUE]
Long(f, length) == [f EXCEPT !.length = length]

ToConsole(pieces)          == [pieces |-> pieces, fn |-> TRUE, max |-> 0, size |-> 0]
ToArray(pieces, max, size) == [pieces |-> pieces, fn |-> FALSE, max |-> max, size |-> size]

Flags == SUBSET {"0", "-", "+", " ", "#"}

Numbers ==
    {Conv(flags, width, prec, spec, arg) :
        flags \in Flags, width \in {0, 2, 3, 6}, prec \in {-1, 0, 1, 3, 6},
        spec \in {"d", "u", "x", "o", "b"}, arg \in {0, 1, 26}}
    \cup
    {Conv(flags, width, prec, "i", -7) :
        flags \in Flags, width \in {0, 2, 3, 6}, prec \in {-1, 0, 1, 3, 6}}

Lengths ==
    {Long(Conv({}, 0, -1, spec, arg), length) :
        spec \in {"d", "u", "X"}, length \in {"hh", "h"}, arg \in {0, 127, 200, 300, 40000, 70000}}
    \cup
    {Long(Conv({"#"}, 4, -1, spec, 300), length) :
        spec \in {"d", "u", "X"}, length \in {"l", "ll", "z", "j", "t"}}

Stars ==
    {Starred(Conv(flags, width, prec, "d", arg)) :
        flags \in {{}, {"0"}, {"-", "+"}}, width \in {-6, 0, 6}, prec \in {-1, 0, 3},
        arg \in {-7, 26}}

MCString == <<"a", "b", "c">>

Strings ==
    {Conv(flags, width, prec, "s", arg) :
        flags \in {{}, {"-"}}, width \in {0, 2, 6}, prec \in {-1, 0, 2, 6},
        arg \in {<< >>, MCString}}
    \cup
    {Conv(flags, width, -1, "s", NullString) : flags \in {{}, {"-"}}, width \in {0, 8}}

Others ==
    {Conv(flags, width, -1, "c", "q") : flags \in {{}, {"-"}}, width \in {0, 1, 4}}
    \cup {Conv({}, 0, -1, "p", 0), Conv({}, 0, -1, "p", 26), Conv({}, 0, -1, "%", 0)}

\* As many characters as the number buffer has.
Limits ==
    {Conv({"0", "+"}, 32, -1, "d", 26), Conv({"0"}, 32, -1, "d", -7),
     Conv({}, 0, 31, "d", -7), Conv({"0", "#"}, 32, -1, "x", 26), Conv({}, 0, 32, "u", 7)}

\* Fields cut off behind the %, flags, a width, the point, a precision, a star
\* and a length, of one letter or two.
Cuts ==
    {Cut(<<"%">> \o s, << >>) :
        s \in {<< >>, <<"-">>, <<"0">>, <<"+", " ">>, <<"#">>, <<"5">>, <<"-", "1", "2">>, <<".">>,
               <<"5", ".">>, <<".", "3">>, <<"l">>, <<"l", "l">>, <<"h">>, <<"h", "h">>,
               <<"z">>, <<"j">>, <<"t">>, <<"4", "l">>, <<"-", ".", "2", "h">>}}
    \cup {Cut(<<"%", "*">>, <<4>>), Cut(<<"%", ".", "*">>, <<2>>),
          Cut(<<"%", "0", "*", ".", "*">>, <<-4, 2>>), Cut(<<"%", "*", "l">>, <<4>>)}

Several ==
    {<<Text(MCString), f, Text(<<" ">>), g>> :
        f \in {Conv({}, 0, 0, "d", 0), Conv({"-"}, 4, 2, "s", MCString),
               Conv({}, 0, -1, "n", 0)},
        g \in {Conv({}, 3, -1, "s", <<"d">>), Conv({}, 0, -1, "n", 0),
               Conv({}, 0, -1, "%", 0)} \cup Cuts}

\* Seven characters.
Line == <<Text(MCString), Conv({}, 4, -1, "d", -26)>>

\* checkLoader.c:32 with the names Limine gives, acpi.c:75 with a signature
\* of four characters and acpi.c:49, each literal as its number of characters.
KernelCalls ==
    {ToArray(<<Text(Repeat("x", 43)), Conv({}, 0, -1, "s", Repeat("L", 6)),
               Text(Repeat("x", 17)), Conv({}, 0, -1, "s", Repeat("5", 12)),
               Text(<<"x">>)>>, MaxBuffer, 128),
     ToArray(<<Text(Repeat("x", 58)), Conv({"-"}, 4, -1, "s", MCString), Text(<<"x">>)>>,
             MaxBuffer, 64),
     ToArray(<<Text(Repeat("x", 29)), Conv({}, 0, -1, "p", 26), Text(<<"x">>)>>,
             MaxBuffer, 64)}

MCCalls ==
    {ToConsole(<<f>>) : f \in Numbers \cup Lengths \cup Stars}
    \cup {ToConsole(<<f>>) : f \in Strings}
    \cup {ToConsole(<<f>>) : f \in Others}
    \cup {ToConsole(<<f>>) : f \in Limits}
    \cup {ToConsole(ps) : ps \in Several} \cup {ToConsole(<<f>>) : f \in Cuts}
    \cup {ToArray(Line, n, n) : n \in 0 .. 9} \cup {ToArray(Line, 0, 2)}
    \cup KernelCalls
=============================================================================
