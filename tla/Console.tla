------------------------------- MODULE Console -------------------------------
(***************************************************************************)
(* The boot thread printing while IRQ 1 interrupts it.                     *)
(*                                                                         *)
(* The kernel is built without optimisation, so in FBCON_Write and         *)
(* TTY_HandleEsc every access to a global is a step of its own: a step     *)
(* below loads or stores at most one of them.  What is loaded stays in     *)
(* reg.  The handler runs with interrupts off and is one step.             *)
(*                                                                         *)
(* Three groups of accesses are taken at one instant: the loads of         *)
(* putchar's arguments (renderer.c:13), the scan of the escape buffer by   *)
(* strstr, and the stores of one case of the switch over the code.         *)
(***************************************************************************)
EXTENDS Keyboard

CONSTANTS
    Program,      \* the calls of init() and _start that reach the console
    Typeable,     \* the scan codes that arrive
    MaxKeys       \* bound: how many of them

ASSUME MaxKeysAssumption  == MaxKeys \in Nat
ASSUME TypeableAssumption == Typeable \subseteq Scancode

\* The kernel prints C strings, and none with a backspace.  In a log line the
\* only escape sequences are log's own (log.c:14-46).
Message == Seq(Char \ {"NUL", "BS"})
Line    == Seq(Char \ {"NUL", "BS", "ESC"})

Call ==
    [op : {"TTY_SetWriteFunc"}, func : {"COM_LogWrapper", "FBCON_Write"}]
    \cup [op : {"FBCON_Init", "create_idt"}]
    \cup [op : {"log"}, module : Line, level : DOMAIN LevelColor, msg : Line]
    \cup [op : {"printf"}, msg : Message]

Sets(j, func) == Program[j].op = "TTY_SetWriteFunc" /\ Program[j].func = func

\* The order of init() on a machine with a framebuffer: the serial port first,
\* the framebuffer where the cursor has just been homed, interrupts behind it
\* (init.c:19-37, fbcon.c:107-118).
ASSUME ProgramAssumption ==
    /\ Program \in Seq(Call)
    /\ \A j \in DOMAIN Program :
        /\ Sets(j, "COM_LogWrapper") => j = 1
        /\ Sets(j, "FBCON_Write") => j > 1 /\ Program[j - 1].op \in {"FBCON_Init", "log"}
        /\ Program[j].op = "create_idt" => \E k \in 1 .. (j - 1) : Sets(k, "FBCON_Write")

VARIABLES
    call,         \* index into Program
    text,         \* what the current call has still to print
    pc,           \* where the boot thread is inside FBCON_Write
    reg,          \* what it has loaded: [x, len, first, last, ret]
    writer,       \* TTY_WriteFunc
    iflag,        \* interrupts are enabled
    con, kb,      \* the console and the keyboard
    keys,         \* how many scan codes have arrived
    raced,        \* history: one arrived inside FBCON_Write
    clean         \* history: none arrived since this call began, which found
                  \* no NUL inside the pending escape sequence

vars == <<call, text, pc, reg, writer, iflag, con, kb, keys, raced, clean>>

vars_irq   == <<kb, keys, raced>>
vars_setup == <<writer, iflag, call>>

\* The places inside FBCON_Write and TTY_HandleEsc.
Inside == {"enter", "loadLen", "storeLen", "storeCh", "loadEnd", "storeNul", "scan",
           "setDone", "apply", "test", "clearDone", "clearLen", "setEsc", "plain",
           "loadX", "storeX", "edge", "wrap"}

Registers ==
    [x : 0 .. (Word16 - 1), len : 0 .. (BufSize - 1),
     first : 0 .. (BufSize + 1), last : 0 .. BufSize, ret : BOOLEAN]

NoReg == [x |-> 0, len |-> 0, first |-> 0, last |-> 0, ret |-> FALSE]

Ch == Head(text)

\* The escape sequence being read holds no NUL before its end.
Unbroken(c) == \A j \in 0 .. (c.len - 1) : c.buf[j] # "NUL"

-----------------------------------------------------------------------------
(* The calls.                                                              *)

Idle == pc = "return"

Calling(op) == Idle /\ call <= Len(Program) /\ Program[call].op = op

SetWriteFunc ==
    /\ Calling("TTY_SetWriteFunc")
    /\ writer' = Program[call].func
    /\ call' = call + 1
    /\ UNCHANGED <<text, pc, reg, iflag, con, clean, vars_irq>>

\* FBCON_Init's assignments, before its two log lines.
Reset ==
    /\ Calling("FBCON_Init")
    /\ con' = FBCON_Reset(con)
    /\ call' = call + 1
    /\ UNCHANGED <<text, pc, reg, writer, iflag, clean, vars_irq>>

\* create_idt ends with sti.
EnableInterrupts ==
    /\ Calling("create_idt")
    /\ iflag' = TRUE
    /\ call' = call + 1
    /\ UNCHANGED <<text, pc, reg, writer, con, clean, vars_irq>>

\* log and printf: the text is made, then printed character by character.
StartPrinting ==
    /\ Calling("log") \/ Calling("printf")
    /\ text' = IF Program[call].op = "printf" THEN Program[call].msg
               ELSE LogText(con, Program[call].module, Program[call].level,
                            Program[call].msg)
    /\ pc' = "putchar"
    /\ clean' = Unbroken(con)
    /\ UNCHANGED <<reg, con, vars_setup, vars_irq>>

Return ==
    /\ pc = "putchar"
    /\ text = << >>
    /\ pc' = "return"
    /\ call' = call + 1
    /\ UNCHANGED <<text, reg, writer, iflag, con, clean, vars_irq>>

-----------------------------------------------------------------------------
(* FBCON_Write and TTY_HandleEsc, access by access.                        *)

\* A step from one label to another that changes the console to c and the
\* registers to r.
Step(from, to, c, r) ==
    /\ pc = from
    /\ pc' = to
    /\ con' = c
    /\ reg' = r
    /\ UNCHANGED <<text, clean, vars_setup, vars_irq>>

\* The last access for a character.
Done(from, c) ==
    /\ pc = from
    /\ pc' = "putchar"
    /\ con' = c
    /\ reg' = NoReg
    /\ text' = Tail(text)
    /\ UNCHANGED <<clean, vars_setup, vars_irq>>

\* The bound on a pending sequence: the code has none.
Fits == con.len < BufSize - 3

Quiet == [con EXCEPT !.drawn = << >>]

\* Serial output happens only before interrupts are on.
PutcharSerial ==
    /\ text # << >>
    /\ writer = "COM_LogWrapper"
    /\ Done("putchar", COM_LogWrapper(Quiet, Ch))

Putchar ==
    /\ text # << >>
    /\ writer = "FBCON_Write"
    /\ Step("putchar", "enter", Quiet, [NoReg EXCEPT !.x = con.x])

StoreEsc == pc = "enter" /\ Ch = "ESC" /\ Done("enter", [con EXCEPT !.esc = TRUE])

LoadEsc ==
    /\ pc = "enter" /\ Ch # "ESC"
    /\ Step("enter", IF con.esc THEN "loadLen" ELSE "plain", con, reg)

\* escapeSequence[escapeSequenceLength++] = ch
LoadLen  == Fits /\ Step("loadLen", "storeLen", con, [reg EXCEPT !.len = con.len])
StoreLen == Step("storeLen", "storeCh", [con EXCEPT !.len = reg.len + 1], reg)
StoreCh  == Step("storeCh", "loadEnd", [con EXCEPT !.buf[reg.len] = Ch], reg)

\* escapeSequence[escapeSequenceLength] = '\0'
LoadEnd  == Step("loadEnd", "storeNul", con, [reg EXCEPT !.len = con.len])
StoreNul == Step("storeNul", IF IsFinal(Ch) THEN "scan" ELSE "test",
                 [con EXCEPT !.buf[reg.len] = "NUL"], reg)

Scan ==
    Step("scan", IF IsComplete(con.buf) THEN "setDone" ELSE "test", con,
         [reg EXCEPT !.first = CodeStart(con.buf), !.last = CodeEnd(con.buf)])

SetDone == Step("setDone", "apply", [con EXCEPT !.done = TRUE], reg)

Apply == Step("apply", "test",
              ApplyCode(con, CodeAt(con.buf, reg.first, reg.last)), reg)

\* if (escapeCompleted) { escapeCompleted = false; length = 0; return true; }
Test == Step("test", IF con.done THEN "clearDone" ELSE "setEsc", con,
             [reg EXCEPT !.ret = con.done])

ClearDone == Step("clearDone", "clearLen", [con EXCEPT !.done = FALSE], reg)
\* Mutant of ClearLen: the length of the sequence survives it.
ClearLen_Keeps == Step("clearLen", "setEsc", con, reg)

ClearLen  == Step("clearLen", "setEsc", [con EXCEPT !.len = 0], reg)

\* esc = !TTY_HandleEsc(ch)
SetEsc == Done("setEsc", [con EXCEPT !.esc = ~ reg.ret])

Home == pc = "plain" /\ Ch \in {"CR", "LF"} /\ Done("plain", [con EXCEPT !.x = 0])

\* The glyph goes where the cursor was when putchar was called.
Glyph ==
    /\ pc = "plain" /\ Ch \notin {"CR", "LF"}
    /\ Step("plain", "loadX", [con EXCEPT !.drawn = << <<reg.x, Ch>> >>], reg)

LoadX  == Step("loadX", "storeX", con, [reg EXCEPT !.x = con.x])
StoreX == Step("storeX", "edge", [con EXCEPT !.x = (reg.x + 1) % Word16], reg)

InsideRow == con.x < Width /\ Done("edge", con)
AtEdge    == con.x >= Width /\ Step("edge", "wrap", con, reg)
Wrap      == Done("wrap", [con EXCEPT !.x = 0])

BootThread ==
    \/ SetWriteFunc \/ Reset \/ EnableInterrupts \/ StartPrinting \/ Return
    \/ PutcharSerial \/ Putchar \/ StoreEsc \/ LoadEsc
    \/ LoadLen \/ StoreLen \/ StoreCh \/ LoadEnd \/ StoreNul
    \/ Scan \/ SetDone \/ Apply \/ Test \/ ClearDone \/ ClearLen \/ SetEsc
    \/ Home \/ Glyph \/ LoadX \/ StoreX \/ InsideRow \/ AtEdge \/ Wrap

\* IRQ 1: the whole handler, between any two accesses of the boot thread.
Interrupt(k) ==
    LET h == HandleKeyboard(kb, con, k)
    IN  /\ iflag
        /\ keys < MaxKeys /\ Fits
        /\ Room(kb, k)
        /\ kb' = h.kb
        /\ con' = h.con
        /\ keys' = keys + 1
        /\ raced' = (raced \/ pc \in Inside)
        /\ clean' = FALSE
        /\ UNCHANGED <<text, pc, reg, vars_setup>>

Init ==
    /\ call = 1
    /\ text = << >>
    /\ pc = "return"
    /\ reg = NoReg
    /\ writer = "none"
    /\ iflag = FALSE
    /\ con = ConsoleAtBoot
    /\ kb = KeyboardAtBoot
    /\ keys = 0
    /\ raced = FALSE
    /\ clean = FALSE

Next == BootThread \/ \E k \in Typeable : Interrupt(k)

Spec == Init /\ [][Next]_vars

-----------------------------------------------------------------------------
(* Properties.                                                             *)

\* Every variable has its type.
TypeOK ==
    /\ call \in 1 .. (Len(Program) + 1)
    /\ text \in Seq(Char)
    /\ pc \in {"return", "putchar"} \cup Inside
    /\ reg \in Registers
    /\ writer \in {"none", "COM_LogWrapper", "FBCON_Write"}
    /\ con \in Console
    /\ kb \in Keyboard
    /\ keys \in 0 .. MaxKeys
    /\ iflag \in BOOLEAN /\ raced \in BOOLEAN /\ clean \in BOOLEAN

\* As long as no scan code arrives inside FBCON_Write, no glyph is drawn off
\* the row, whatever is typed between two characters (fbcon.c:37-46, 83-87).
DrawsOnRow ==
    (~ raced /\ writer = "FBCON_Write") =>
        \A j \in DOMAIN con.drawn : con.drawn[j][1] < Width

\* A log line heals the console.  Whatever interrupts did to it before, when
\* one is printed without any and did not find a NUL inside the pending
\* sequence, then the console ends at column 0, outside escape state, with an
\* empty sequence and the default attributes (log.c:23-45, ansi.c:9-127).
HealsTheConsole ==
    (pc = "return" /\ clean /\ writer = "FBCON_Write"
        /\ call > 1 /\ Program[call - 1].op = "log") =>
        /\ con.x = 0
        /\ ~ con.esc /\ ~ con.done /\ con.len = 0
        /\ con.fg = "LGRAY" /\ con.bg = "BLACK" /\ ~ con.bold

\* ansi.c:16: "Check if the escape sequence has completed".  The check sees an
\* 'm' that was just appended behind the '[' of its sequence.
CompleteIsRecognised ==
    [][(Scan /\ Ch = "m" /\ con.len > 0 /\ con.buf[con.len - 1] = "m"
            /\ \E j \in 0 .. (con.len - 2) : con.buf[j] = "[")
        => pc' = "setDone"]_vars
=============================================================================
