-------------------------- MODULE InterruptsProofs --------------------------
(***************************************************************************)
(* The safety of the interrupt setup and of the keyboard's handler, for    *)
(* any devices, any exceptions and any number of scan codes.               *)
(*                                                                         *)
(* Until sti the state follows from the program counter: nothing is in     *)
(* service, no handler runs.  From then on it follows from what the        *)
(* running handler has left to do.                                         *)
(***************************************************************************)
EXTENDS Interrupts, SequenceTheorems, TLAPS

-----------------------------------------------------------------------------
(* The inductive invariant.                                                 *)

\* Each PIC's position in its initialisation, and what it has been given.
Programmed ==
    /\ pic.master.icw = 2 <=> pc \in {11, 12}
    /\ pic.master.icw = 3 <=> pc \in {13, 14}
    /\ pic.master.icw = 4 <=> pc \in {15, 16}
    /\ pic.slave.icw = 2 <=> pc \in {12, 13}
    /\ pic.slave.icw = 3 <=> pc \in {14, 15}
    /\ pic.slave.icw = 4 <=> pc \in {16, 17}
    /\ pc > 12 => pic.master.base = 32
    /\ pc > 13 => pic.slave.base = 40
    /\ pc > 20 => pic.master.imr = MasterMask
    /\ pc > 21 => pic.slave.imr = SlaveMask

Vectors == {14, 0, 8, 13, 33, 105}

Entries ==
    /\ gates \subseteq Vectors
    /\ pc > 1 => 14 \in gates
    /\ pc > 2 => 0 \in gates
    /\ pc > 3 => 8 \in gates
    /\ pc > 4 => 13 \in gates
    /\ pc > 5 => 33 \in gates
    /\ pc > 6 => 105 \in gates
    /\ pc > 7 => idtLoaded

\* Only the lines of the three devices ever rise.
Requested == pic.master.irr \subseteq {0, 1} /\ pic.slave.irr \subseteq {4}

\* What a handler has left to do: the keyboard's, or panic.
Remainders ==
    { << >>, <<"panic">>, Keyboard_Handler, <<"EOI", "EOI", "iret">>,
      <<"EOI", "iret">>, <<"iret">> }

\* What is in service while it does that.
Serving ==
    /\ handler \in Remainders
    /\ pc <= Len(create_idt) =>
        handler = << >> /\ state = "running" /\ ~ iflag /\ served = << >>
    /\ handler # << >> => state = "running" /\ ~ iflag
    /\ handler \notin {Keyboard_Handler, <<"EOI", "EOI", "iret">>, <<"panic">>}
         /\ state = "running" => pic.master.isr = {}
    /\ handler \in {Keyboard_Handler, <<"EOI", "EOI", "iret">>} => pic.master.isr = {1}
    /\ handler # <<"panic">> /\ state = "running" => pic.slave.isr = {}

\* Where the next scan code is: the request is pending only while the buffer
\* holds a byte, and the handler that reads it has taken that request.
NextByte ==
    /\ Len(served) <= kbc.arrived
    /\ \A j \in DOMAIN served : served[j] = j
    /\ kbc.full = 0 => kbc.arrived = Len(served)
    /\ kbc.full # 0 => kbc.full = Len(served) + 1 /\ kbc.full <= kbc.arrived
    /\ 1 \in pic.master.irr => kbc.full # 0
    /\ handler = Keyboard_Handler => kbc.full # 0 /\ 1 \notin pic.master.irr

InterruptsInv ==
    TypeOK /\ state # "reset" /\ Programmed /\ Entries /\ Requested /\ Serving /\ NextByte

-----------------------------------------------------------------------------
(* The program.                                                             *)

Ins ==
    [op : {"gate"}, vector : Vectors] \cup [op : {"lidt", "sti"}]
    \cup [op : {"save", "restore"}, chip : {"master", "slave"}]
    \cup [op : {"command"}, chip : {"master", "slave"}, value : {"ICW1"}]
    \cup [op : {"data"}, chip : {"master", "slave"},
          value : {1, 2, 4, 32, 40, MasterMask, SlaveMask}]

\* w is what s and u make together.
Joins(s, u, w) ==
    /\ w \in Seq(Ins) /\ Len(w) = Len(s) + Len(u)
    /\ \A j \in 1 .. Len(s) : w[j] = s[j]
    /\ \A j \in 1 .. Len(u) : w[Len(s) + j] = u[j]

\* What a concatenation consists of.
LEMMA Joined ==
    ASSUME NEW s \in Seq(Ins), NEW u \in Seq(Ins)
    PROVE  Joins(s, u, s \o u)
<1>1. /\ s \o u \in Seq(Ins) /\ Len(s \o u) = Len(s) + Len(u)
      /\ \A k \in 1 .. Len(s) + Len(u) :
           (s \o u)[k] = IF k <= Len(s) THEN s[k] ELSE u[k - Len(s)]
  BY ConcatProperties, Zenon
<1>2. Len(s) \in Nat /\ Len(u) \in Nat
  OBVIOUS
<1>3. ASSUME NEW j \in 1 .. Len(u) PROVE (s \o u)[Len(s) + j] = u[j]
  <2>1. Len(s) + j \in 1 .. Len(s) + Len(u) /\ ~ (Len(s) + j <= Len(s)) /\ Len(s) + j - Len(s) = j
    BY <1>2
  <2> QED
    BY <1>1, <2>1
<1>4. ASSUME NEW j \in 1 .. Len(s) PROVE (s \o u)[j] = s[j]
  <2>1. j \in 1 .. Len(s) + Len(u) /\ j <= Len(s)
    BY <1>2
  <2> QED
    BY <1>1, <2>1
<1> QED
  BY <1>1, <1>3, <1>4 DEF Joins

\* create_idt is 22 instructions: six gates, lidt, the remapping of the PICs,
\* their masks, sti.
LEMMA Program ==
    /\ Len(create_idt) = 22
    /\ create_idt[1] = Gate(14) /\ create_idt[2] = Gate(0) /\ create_idt[3] = Gate(8)
    /\ create_idt[4] = Gate(13) /\ create_idt[5] = Gate(33) /\ create_idt[6] = Gate(105)
    /\ create_idt[7] = [op |-> "lidt"]
    /\ create_idt[8] = Save("master") /\ create_idt[9] = Save("slave")
    /\ create_idt[10] = Out("master", "ICW1") /\ create_idt[11] = Out("slave", "ICW1")
    /\ create_idt[12] = Data("master", 32) /\ create_idt[13] = Data("slave", 40)
    /\ create_idt[14] = Data("master", 4) /\ create_idt[15] = Data("slave", 2)
    /\ create_idt[16] = Data("master", 1) /\ create_idt[17] = Data("slave", 1)
    /\ create_idt[18] = Restore("master") /\ create_idt[19] = Restore("slave")
    /\ create_idt[20] = Data("master", MasterMask)
    /\ create_idt[21] = Data("slave", SlaveMask)
    /\ create_idt[22] = [op |-> "sti"]
<1> DEFINE lidt == << [op |-> "lidt"] >>
           last == << Data("master", MasterMask), Data("slave", SlaveMask), [op |-> "sti"] >>
           head == CreateEntries \o lidt
           body == head \o remap_interrupts_for_io
<1>1. /\ CreateEntries \in Seq(Ins) /\ Len(CreateEntries) = 6
      /\ CreateEntries[1] = Gate(14) /\ CreateEntries[2] = Gate(0) /\ CreateEntries[3] = Gate(8)
      /\ CreateEntries[4] = Gate(13) /\ CreateEntries[5] = Gate(33)
      /\ CreateEntries[6] = Gate(105)
  <2>1. \A j \in 1 .. 6 : <<14, 0, 8, 13, 33, 105>>[j] \in Vectors
    BY DEF Vectors
  <2>2. \A j \in 1 .. 6 : CreateEntries[j] \in Ins
    BY <2>1 DEF CreateEntries, Gate, Ins
  <2>3. CreateEntries \in [1 .. 6 -> Ins]
    BY <2>2 DEF CreateEntries
  <2> QED
    BY <2>3 DEF CreateEntries
<1>2. lidt \in Seq(Ins) /\ Len(lidt) = 1 /\ lidt[1] = [op |-> "lidt"]
  <2>1. [op |-> "lidt"] \in Ins
    BY DEF Ins
  <2> QED
    BY <2>1
<1>3. last \in Seq(Ins) /\ Len(last) = 3
  <2>1. /\ Data("master", MasterMask) \in Ins /\ Data("slave", SlaveMask) \in Ins
        /\ [op |-> "sti"] \in Ins
    BY DEF Ins, Data
  <2> QED
    BY <2>1
<1>4. remap_interrupts_for_io \in Seq(Ins) /\ Len(remap_interrupts_for_io) = 12
  <2>1. /\ \A c \in {"master", "slave"} :
             /\ Save(c) \in Ins /\ Restore(c) \in Ins /\ Out(c, "ICW1") \in Ins
             /\ \A w \in {1, 2, 4, 32, 40} : Data(c, w) \in Ins
    BY DEF Ins, Save, Restore, Out, Data
  <2> HIDE DEF Ins
  <2> QED
    BY <2>1 DEF remap_interrupts_for_io
<1> HIDE DEF lidt, last, head, body
<1>5. /\ head \in Seq(Ins) /\ Len(head) = 7
      /\ \A j \in 1 .. 6 : head[j] = CreateEntries[j]
      /\ \A j \in 1 .. 1 : head[6 + j] = lidt[j]
  <2>1. head = CreateEntries \o lidt
    BY DEF head
  <2>2. CreateEntries \in Seq(Ins) /\ lidt \in Seq(Ins) /\ Len(CreateEntries) = 6 /\ Len(lidt) = 1
    BY <1>1, <1>2
  <2>3. Joins(CreateEntries, lidt, CreateEntries \o lidt)
    BY <2>2, Joined
  <2>4. Joins(CreateEntries, lidt, head)
    BY <2>1, <2>3
  <2> QED
    BY <2>2, <2>4 DEF Joins
<1>6. /\ body \in Seq(Ins) /\ Len(body) = 19
      /\ \A j \in 1 .. 7 : body[j] = head[j]
      /\ \A j \in 1 .. 12 : body[7 + j] = remap_interrupts_for_io[j]
  <2>1. body = head \o remap_interrupts_for_io
    BY DEF body
  <2>2. head \in Seq(Ins) /\ remap_interrupts_for_io \in Seq(Ins) /\ Len(head) = 7 /\ Len(remap_interrupts_for_io) = 12
    BY <1>4, <1>5
  <2>3. Joins(head, remap_interrupts_for_io, head \o remap_interrupts_for_io)
    BY <2>2, Joined
  <2>4. Joins(head, remap_interrupts_for_io, body)
    BY <2>1, <2>3
  <2> QED
    BY <2>2, <2>4 DEF Joins
<1>7. /\ create_idt \in Seq(Ins) /\ Len(create_idt) = 22
      /\ \A j \in 1 .. 19 : create_idt[j] = body[j]
      /\ \A j \in 1 .. 3 : create_idt[19 + j] = last[j]
  <2>1. create_idt = body \o last
    BY DEF create_idt, body, head, lidt, last
  <2>2. body \in Seq(Ins) /\ last \in Seq(Ins) /\ Len(body) = 19 /\ Len(last) = 3
    BY <1>3, <1>6
  <2>3. Joins(body, last, body \o last)
    BY <2>2, Joined
  <2>4. Joins(body, last, create_idt)
    BY <2>1, <2>3
  <2> QED
    BY <2>2, <2>4 DEF Joins
<1> QED
  BY <1>1, <1>2, <1>5, <1>6, <1>7 DEF last, remap_interrupts_for_io

-----------------------------------------------------------------------------
(* Up to sti.                                                               *)

\* Before sti no handler runs and nothing is in service.
LEMMA Preparing ==
    ASSUME InterruptsInv, ~ InStart
    PROVE  /\ pc \in 1 .. 22 /\ handler = << >> /\ state = "running" /\ ~ iflag
           /\ pic \in [master : Chip, slave : Chip]
           /\ saved \in [master : SUBSET Line, slave : SUBSET Line]
           /\ pic.master.isr = {} /\ pic.slave.isr = {} /\ served = << >>
           /\ Programmed /\ Entries
<1>1. pc \in 1 .. 22
  BY Program DEF InterruptsInv, TypeOK, InStart
<1>2. handler = << >> /\ state = "running" /\ ~ iflag /\ served = << >>
  <2>1. pc <= Len(create_idt)
    BY <1>1, Program
  <2> QED
    BY <2>1, Zenon DEF InterruptsInv, Serving
<1>3. << >> \notin {Keyboard_Handler, <<"EOI", "EOI", "iret">>, <<"panic">>}
  BY DEF Keyboard_Handler
<1>4. /\ pic \in [master : Chip, slave : Chip]
      /\ saved \in [master : SUBSET Line, slave : SUBSET Line]
      /\ Programmed /\ Entries /\ Serving
  BY Zenon DEF InterruptsInv, TypeOK
<1>5. handler = << >>
  BY <1>2, <1>1, <1>4 DEF Serving
<1>6. pic.master.isr = {} /\ pic.slave.isr = {}
  BY <1>2, <1>3, <1>4, <1>5 DEF Serving
<1> QED
  BY <1>1, <1>2, <1>4, <1>5, <1>6

\* An instruction of create_idt keeps the invariant if it leaves the PICs
\* where the next one expects them, raises no request and serves none.
LEMMA ProgramStep ==
    ASSUME InterruptsInv, Instruction,
           pic' \in [master : Chip, slave : Chip],
           saved' \in [master : SUBSET Line, slave : SUBSET Line],
           pic'.master.irr \subseteq pic.master.irr, pic'.slave.irr \subseteq pic.slave.irr,
           pic'.master.isr = {}, pic'.slave.isr = {},
           Programmed', Entries', pc' <= 22 => ~ iflag'
    PROVE  InterruptsInv'
<1>1. /\ pc \in 1 .. 22 /\ pc' = pc + 1 /\ handler = << >> /\ state = "running"
      /\ served = << >> /\ UNCHANGED <<handler, state, kbc, served>>
  BY Preparing DEF Instruction
<1>2. TypeOK'
  <2>1. iflag' \in BOOLEAN /\ idtLoaded' \in BOOLEAN /\ stuck' \in BOOLEAN
    BY DEF Instruction, InterruptsInv, TypeOK
  <2>2. gates' \subseteq 0 .. 255
    BY DEF Entries, Vectors
  <2>3. pc' \in 1 .. Len(create_idt)' + 1
    BY <1>1, Program
  <2> QED
    BY <1>1, <2>1, <2>2, <2>3 DEF InterruptsInv, TypeOK
<1>3. Requested' /\ NextByte'
  BY <1>1 DEF InterruptsInv, Requested, NextByte, Keyboard_Handler
<1>4. Serving'
  <2>1. << >> \notin {Keyboard_Handler, <<"EOI", "EOI", "iret">>, <<"panic">>}
    BY DEF Keyboard_Handler
  <2> QED
    BY <1>1, <2>1, Program DEF Serving, Remainders
<1> QED
  BY <1>1, <1>2, <1>3, <1>4 DEF InterruptsInv

\* What the instruction at hand does to the gates, the flags and the masks.
LEMMA Effect ==
    ASSUME InterruptsInv, Instruction, NEW ins, ins = create_idt[pc]
    PROVE  /\ pc' = pc + 1
           /\ ins.op = "gate" => gates' = gates \cup {ins.vector}
           /\ ins.op # "gate" => gates' = gates
           /\ ins.op = "lidt" => idtLoaded'
           /\ idtLoaded => idtLoaded'
           /\ ins.op # "sti" => (~ iflag => ~ iflag')
           /\ ins.op # "save" => saved' = saved
           /\ ins.op = "save" => saved' = [saved EXCEPT ![ins.chip] = pic[ins.chip].imr]
           /\ ins.op \notin {"command", "data", "restore"} => pic' = pic
           /\ ins.op = "command" =>
                pic' = [pic EXCEPT ![ins.chip] = Command(pic[ins.chip], ins.value)]
           /\ ins.op = "data" =>
                pic' = [pic EXCEPT ![ins.chip] = WriteData(pic[ins.chip], ins.value)]
           /\ ins.op = "restore" =>
                pic' = [pic EXCEPT ![ins.chip] = WriteData(pic[ins.chip], saved[ins.chip])]
BY DEF Instruction

\* The instructions before the remapping.
LEMMA GatesKeep == InterruptsInv /\ Instruction /\ pc \in 1 .. 7 => InterruptsInv'
<1> SUFFICES ASSUME InterruptsInv, Instruction, pc \in 1 .. 7 PROVE InterruptsInv'
  OBVIOUS
<1> DEFINE ins == create_idt[pc]
<1>1. /\ pc \in 1 .. 7 /\ pic.master.isr = {} /\ pic.slave.isr = {} /\ ~ iflag
      /\ pic \in [master : Chip, slave : Chip]
      /\ saved \in [master : SUBSET Line, slave : SUBSET Line]
      /\ Programmed /\ Entries
  BY Preparing DEF Instruction
<1>2. /\ ins.op \in {"gate", "lidt"} /\ (ins.op = "lidt" <=> pc = 7)
      /\ pc = 1 => ins.vector = 14
      /\ pc = 2 => ins.vector = 0
      /\ pc = 3 => ins.vector = 8
      /\ pc = 4 => ins.vector = 13
      /\ pc = 5 => ins.vector = 33
      /\ pc = 6 => ins.vector = 105
  BY <1>1, Program DEF Gate
<1> HIDE DEF ins
<1>3. /\ pc' = pc + 1 /\ pic' = pic /\ saved' = saved /\ ~ iflag'
      /\ pc < 7 => gates' = gates \cup {ins.vector}
      /\ pc = 7 => gates' = gates /\ idtLoaded'
      /\ idtLoaded => idtLoaded'
  BY <1>1, <1>2, Effect DEF ins
<1>4. Programmed'
  BY <1>1, <1>3 DEF Programmed
<1>5. Entries'
  <2>1. gates' \subseteq Vectors
    <3>1. pc < 7 => ins.vector \in Vectors
      BY <1>1, <1>2 DEF Vectors
    <3>2. gates \subseteq Vectors
      BY <1>1 DEF Entries
    <3> QED
      BY <1>1, <1>3, <3>1, <3>2
  <2>2. gates \subseteq gates' /\ (pc < 7 => ins.vector \in gates')
    BY <1>1, <1>3
  <2> QED
    BY <1>1, <1>2, <1>3, <2>1, <2>2 DEF Entries
<1> QED
  BY <1>1, <1>3, <1>4, <1>5, ProgramStep

\* remap_interrupts_for_io saves the masks.
LEMMA SavesKeep == InterruptsInv /\ Instruction /\ pc \in 8 .. 9 => InterruptsInv'
<1> SUFFICES ASSUME InterruptsInv, Instruction, pc \in 8 .. 9 PROVE InterruptsInv'
  OBVIOUS
<1> DEFINE ins == create_idt[pc]
<1>1. /\ pc \in 8 .. 9 /\ pic.master.isr = {} /\ pic.slave.isr = {} /\ ~ iflag
      /\ pic \in [master : Chip, slave : Chip]
      /\ saved \in [master : SUBSET Line, slave : SUBSET Line]
      /\ Programmed /\ Entries
  BY Preparing DEF Instruction
<1>2. ins.op = "save" /\ ins.chip \in {"master", "slave"}
  BY <1>1, Program DEF Save
<1> HIDE DEF ins
<1>3. /\ pc' = pc + 1 /\ pic' = pic /\ ~ iflag' /\ gates' = gates
      /\ saved' = [saved EXCEPT ![ins.chip] = pic[ins.chip].imr]
      /\ idtLoaded => idtLoaded'
  BY <1>1, <1>2, Effect DEF ins
<1>4. saved' \in [master : SUBSET Line, slave : SUBSET Line]
  BY <1>1, <1>2, <1>3 DEF Chip
<1>5. Programmed' /\ Entries'
  BY <1>1, <1>3 DEF Programmed, Entries, Vectors
<1> QED
  BY <1>1, <1>3, <1>4, <1>5, ProgramStep

\* What the PICs make of a word written to their data port.
LEMMA WriteDataEffect ==
    ASSUME NEW c \in Chip, NEW value, c.isr = {},
           c.icw = 0 => value \in SUBSET Line,
           c.icw = 2 => value \in {8, 32, 40, 112}
    PROVE  LET d == WriteData(c, value) IN
           /\ d \in Chip /\ d.irr = c.irr /\ d.isr = {}
           /\ c.icw = 0 => d.icw = 0 /\ d.imr = value /\ d.base = c.base
           /\ c.icw = 2 => d.icw = 3 /\ d.imr = c.imr /\ d.base = value
           /\ c.icw = 3 => d.icw = 4 /\ d.imr = c.imr /\ d.base = c.base
           /\ c.icw = 4 => d.icw = 0 /\ d.imr = c.imr /\ d.base = c.base
<1>1. c.icw \in {0, 2, 3, 4}
  BY DEF Chip
<1>2. CASE c.icw = 0
  <2>1. WriteData(c, value) = [c EXCEPT !.imr = value]
    BY <1>2 DEF WriteData
  <2> QED
    BY <1>2, <2>1 DEF Chip
<1>3. CASE c.icw = 2
  <2>1. WriteData(c, value) = [c EXCEPT !.icw = 3, !.base = value]
    BY <1>3 DEF WriteData
  <2>2. value \in {8, 32, 40, 112}
    BY <1>3
  <2>3. [c EXCEPT !.icw = 3, !.base = value] \in Chip
    BY <2>2 DEF Chip
  <2>4. LET d == [c EXCEPT !.icw = 3, !.base = value] IN
        d.irr = c.irr /\ d.isr = c.isr /\ d.icw = 3 /\ d.imr = c.imr /\ d.base = value
    BY DEF Chip
  <2> QED
    BY <1>3, <2>1, <2>3, <2>4
<1>4. CASE c.icw = 3
  <2>1. WriteData(c, value) = [c EXCEPT !.icw = 4]
    BY <1>4 DEF WriteData
  <2> QED
    BY <1>4, <2>1 DEF Chip
<1>5. CASE c.icw = 4
  <2>1. WriteData(c, value) = [c EXCEPT !.icw = 0]
    BY <1>5 DEF WriteData
  <2> QED
    BY <1>5, <2>1 DEF Chip
<1> QED
  BY <1>1, <1>2, <1>3, <1>4, <1>5

\* ICW1 starts the initialisation of a PIC.
LEMMA ICW1Keeps == InterruptsInv /\ Instruction /\ pc \in 10 .. 11 => InterruptsInv'
<1> SUFFICES ASSUME InterruptsInv, Instruction, pc \in 10 .. 11 PROVE InterruptsInv'
  OBVIOUS
<1> DEFINE ins == create_idt[pc]
<1>1. /\ pc \in 10 .. 11 /\ pic.master.isr = {} /\ pic.slave.isr = {} /\ ~ iflag
      /\ pic \in [master : Chip, slave : Chip]
      /\ saved \in [master : SUBSET Line, slave : SUBSET Line]
      /\ Programmed /\ Entries
  BY Preparing DEF Instruction
<1>2. /\ ins.op = "command" /\ ins.value = "ICW1"
      /\ pc = 10 => ins.chip = "master"
      /\ pc = 11 => ins.chip = "slave"
  BY <1>1, Program DEF Out
<1> HIDE DEF ins
<1>3. /\ pc' = pc + 1 /\ ~ iflag' /\ gates' = gates /\ saved' = saved
      /\ idtLoaded => idtLoaded'
      /\ pic' = [pic EXCEPT ![ins.chip] =
                    [pic[ins.chip] EXCEPT !.icw = 2, !.imr = {}, !.irr = {}, !.isr = {}]]
  BY <1>1, <1>2, Effect DEF ins, Command
<1>4. Entries'
  BY <1>1, <1>3 DEF Entries, Vectors
<1>5. CASE pc = 10
  <2>1. /\ pic'.slave = pic.slave /\ pic'.master.icw = 2 /\ pic'.master.irr = {}
        /\ pic'.master.isr = {} /\ pic' \in [master : Chip, slave : Chip]
    <3> DEFINE c == [pic.master EXCEPT !.icw = 2, !.imr = {}, !.irr = {}, !.isr = {}]
    <3>1. c \in Chip /\ c.icw = 2 /\ c.irr = {} /\ c.isr = {}
      BY <1>1 DEF Chip
    <3>2. pic' = [pic EXCEPT !.master = c]
      BY <1>2, <1>3, <1>5
    <3> HIDE DEF c
    <3> QED
      BY <1>1, <3>1, <3>2
  <2>2. Programmed'
    BY <1>1, <1>3, <1>5, <2>1 DEF Programmed
  <2> QED
    BY <1>1, <1>3, <1>4, <2>1, <2>2, ProgramStep
<1>6. CASE pc = 11
  <2>1. /\ pic'.master = pic.master /\ pic'.slave.icw = 2 /\ pic'.slave.irr = {}
        /\ pic'.slave.isr = {} /\ pic' \in [master : Chip, slave : Chip]
    <3> DEFINE c == [pic.slave EXCEPT !.icw = 2, !.imr = {}, !.irr = {}, !.isr = {}]
    <3>1. c \in Chip /\ c.icw = 2 /\ c.irr = {} /\ c.isr = {}
      BY <1>1 DEF Chip
    <3>2. pic' = [pic EXCEPT !.slave = c]
      BY <1>2, <1>3, <1>6
    <3> HIDE DEF c
    <3> QED
      BY <1>1, <3>1, <3>2
  <2>2. Programmed'
    BY <1>1, <1>3, <1>6, <2>1 DEF Programmed
  <2> QED
    BY <1>1, <1>3, <1>4, <2>1, <2>2, ProgramStep
<1> QED
  BY <1>1, <1>5, <1>6

\* The other initialisation words and the masks; the program counter tells
\* which the PIC takes a word for.
LEMMA DataKeeps == InterruptsInv /\ Instruction /\ pc \in 12 .. 21 => InterruptsInv'
<1> SUFFICES ASSUME InterruptsInv, Instruction, pc \in 12 .. 21 PROVE InterruptsInv'
  OBVIOUS
<1> DEFINE ins == create_idt[pc]
           word == IF ins.op = "data" THEN ins.value ELSE saved[ins.chip]
<1>1. /\ pc \in 12 .. 21 /\ pic.master.isr = {} /\ pic.slave.isr = {} /\ ~ iflag
      /\ pic \in [master : Chip, slave : Chip]
      /\ saved \in [master : SUBSET Line, slave : SUBSET Line]
      /\ Programmed /\ Entries
  BY Preparing DEF Instruction
<1>2. /\ ins.op \in {"data", "restore"}
      /\ pc \in {12, 14, 16, 18, 20} => ins.chip = "master"
      /\ pc \in {13, 15, 17, 19, 21} => ins.chip = "slave"
      /\ pc \in {18, 19} <=> ins.op = "restore"
      /\ pc = 12 => ins.value = 32
      /\ pc = 13 => ins.value = 40
      /\ pc = 20 => ins.value = MasterMask
      /\ pc = 21 => ins.value = SlaveMask
  BY <1>1, Program DEF Data, Restore
<1> HIDE DEF ins
<1>3. /\ pc' = pc + 1 /\ ~ iflag' /\ gates' = gates /\ saved' = saved
      /\ idtLoaded => idtLoaded'
      /\ pic' = [pic EXCEPT ![ins.chip] = WriteData(pic[ins.chip], word)]
  BY <1>1, <1>2, Effect DEF ins
<1>4. Entries'
  BY <1>1, <1>3 DEF Entries, Vectors
<1>5. MasterMask \in SUBSET Line /\ SlaveMask \in SUBSET Line
  BY DEF MasterMask, SlaveMask
<1>6. CASE pc \in {12, 14, 16, 18, 20}
  <2> DEFINE d == WriteData(pic.master, word)
  <2>1. pic.master \in Chip /\ pic.master.icw \in {0, 2, 3, 4}
    BY <1>1 DEF Chip
  <2>2. /\ pic.master.icw = 0 => word \in SUBSET Line
        /\ pic.master.icw = 2 => word \in {8, 32, 40, 112}
    BY <1>1, <1>2, <1>5, <1>6, <2>1 DEF Programmed
  <2>3. /\ d \in Chip /\ d.irr = pic.master.irr /\ d.isr = {}
        /\ pic.master.icw = 0 => d.icw = 0 /\ d.imr = word /\ d.base = pic.master.base
        /\ pic.master.icw = 2 => d.icw = 3 /\ d.imr = pic.master.imr /\ d.base = word
        /\ pic.master.icw = 3 => d.icw = 4 /\ d.imr = pic.master.imr /\ d.base = pic.master.base
        /\ pic.master.icw = 4 => d.icw = 0 /\ d.imr = pic.master.imr /\ d.base = pic.master.base
    <3> HIDE DEF word
    <3> QED
      BY <1>1, <2>1, <2>2, WriteDataEffect
  <2> HIDE DEF d
  <2>4. pic'.master = d /\ pic'.slave = pic.slave /\ pic' \in [master : Chip, slave : Chip]
    BY <1>1, <1>2, <1>3, <1>6, <2>3 DEF d
  <2>5. Programmed'
    BY <1>1, <1>2, <1>3, <1>6, <2>1, <2>3, <2>4 DEF Programmed
  <2> QED
    BY <1>1, <1>3, <1>4, <2>3, <2>4, <2>5, ProgramStep
<1>7. CASE pc \in {13, 15, 17, 19, 21}
  <2> DEFINE d == WriteData(pic.slave, word)
  <2>1. pic.slave \in Chip /\ pic.slave.icw \in {0, 2, 3, 4}
    BY <1>1 DEF Chip
  <2>2. /\ pic.slave.icw = 0 => word \in SUBSET Line
        /\ pic.slave.icw = 2 => word \in {8, 32, 40, 112}
    BY <1>1, <1>2, <1>5, <1>7, <2>1 DEF Programmed
  <2>3. /\ d \in Chip /\ d.irr = pic.slave.irr /\ d.isr = {}
        /\ pic.slave.icw = 0 => d.icw = 0 /\ d.imr = word /\ d.base = pic.slave.base
        /\ pic.slave.icw = 2 => d.icw = 3 /\ d.imr = pic.slave.imr /\ d.base = word
        /\ pic.slave.icw = 3 => d.icw = 4 /\ d.imr = pic.slave.imr /\ d.base = pic.slave.base
        /\ pic.slave.icw = 4 => d.icw = 0 /\ d.imr = pic.slave.imr /\ d.base = pic.slave.base
    <3> HIDE DEF word
    <3> QED
      BY <1>1, <2>1, <2>2, WriteDataEffect
  <2> HIDE DEF d
  <2>4. pic'.slave = d /\ pic'.master = pic.master /\ pic' \in [master : Chip, slave : Chip]
    BY <1>1, <1>2, <1>3, <1>7, <2>3 DEF d
  <2>5. Programmed'
    BY <1>1, <1>2, <1>3, <1>7, <2>1, <2>3, <2>4 DEF Programmed
  <2> QED
    BY <1>1, <1>3, <1>4, <2>3, <2>4, <2>5, ProgramStep
<1> QED
  BY <1>1, <1>6, <1>7

\* sti.
LEMMA StiKeeps == InterruptsInv /\ Instruction /\ pc = 22 => InterruptsInv'
<1> SUFFICES ASSUME InterruptsInv, Instruction, pc = 22 PROVE InterruptsInv'
  OBVIOUS
<1> DEFINE ins == create_idt[pc]
<1>1. /\ pic.master.isr = {} /\ pic.slave.isr = {}
      /\ pic \in [master : Chip, slave : Chip]
      /\ saved \in [master : SUBSET Line, slave : SUBSET Line]
      /\ Programmed /\ Entries
  BY Preparing DEF Instruction
<1>2. ins.op = "sti"
  BY Program
<1> HIDE DEF ins
<1>3. /\ pc' = 23 /\ pic' = pic /\ gates' = gates /\ saved' = saved
      /\ idtLoaded => idtLoaded'
  BY <1>2, Effect DEF ins
<1>4. Programmed' /\ Entries'
  BY <1>1, <1>3 DEF Programmed, Entries, Vectors
<1> QED
  BY <1>1, <1>3, <1>4, ProgramStep

\* Every instruction of create_idt keeps the invariant.
LEMMA InstructionKeeps == InterruptsInv /\ Instruction => InterruptsInv'
<1> SUFFICES ASSUME InterruptsInv, Instruction PROVE InterruptsInv'
  OBVIOUS
<1>1. pc \in 1 .. 22
  BY Preparing DEF Instruction
<1>2. pc \in 1 .. 7 \/ pc \in 8 .. 9 \/ pc \in 10 .. 11 \/ pc \in 12 .. 21 \/ pc = 22
  BY <1>1
<1> QED
  BY <1>2, GatesKeep, SavesKeep, ICW1Keeps, DataKeeps, StiKeeps

-----------------------------------------------------------------------------
(* From sti on.                                                             *)

\* The sequences a handler has left, by their first step.
LEMMA Steps ==
    ASSUME handler \in Remainders, handler # << >>
    PROVE  /\ Head(handler) = "inb" =>
                handler = Keyboard_Handler /\ Tail(handler) = <<"EOI", "EOI", "iret">>
           /\ Head(handler) = "EOI" =>
                \/ handler = <<"EOI", "EOI", "iret">> /\ Tail(handler) = <<"EOI", "iret">>
                \/ handler = <<"EOI", "iret">> /\ Tail(handler) = <<"iret">>
           /\ Head(handler) = "iret" => handler = <<"iret">> /\ Tail(handler) = << >>
           /\ Head(handler) = "panic" => handler = <<"panic">>
<1>1. CASE handler = Keyboard_Handler
  BY <1>1 DEF Keyboard_Handler
<1>2. CASE handler = <<"EOI", "EOI", "iret">>
  BY <1>2 DEF Keyboard_Handler
<1>3. CASE handler = <<"EOI", "iret">>
  BY <1>3 DEF Keyboard_Handler
<1>4. CASE handler = <<"iret">>
  BY <1>4 DEF Keyboard_Handler
<1>5. CASE handler = <<"panic">>
  BY <1>5 DEF Keyboard_Handler
<1> QED
  BY <1>1, <1>2, <1>3, <1>4, <1>5 DEF Remainders

\* The remainders differ from each other.
LEMMA Differ ==
    /\ << >> \notin {Keyboard_Handler, <<"EOI", "EOI", "iret">>, <<"panic">>}
    /\ <<"EOI", "iret">> \notin {Keyboard_Handler, <<"EOI", "EOI", "iret">>, <<"panic">>, << >>}
    /\ <<"iret">> \notin {Keyboard_Handler, <<"EOI", "EOI", "iret">>, <<"panic">>, << >>}
    /\ <<"EOI", "EOI", "iret">> \notin {Keyboard_Handler, <<"panic">>, << >>}
    /\ <<"panic">> \notin {Keyboard_Handler, <<"EOI", "EOI", "iret">>, << >>}
    /\ Keyboard_Handler \notin {<<"EOI", "EOI", "iret">>, <<"panic">>, << >>}
BY DEF Keyboard_Handler

\* The least element of a set of two lines at most.
LEMMA MinOf ==
    ASSUME NEW S \in SUBSET {1, 2}, S # {}
    PROVE  Min(S) = IF 1 \in S THEN 1 ELSE 2
<1>1. \E x \in S : \A y \in S : x <= y
  <2>1. CASE 1 \in S
    <3>1. \A y \in S : 1 <= y
      OBVIOUS
    <3> QED
      BY <2>1, <3>1
  <2>2. CASE 1 \notin S
    <3>1. S = {2}
      BY <2>2
    <3> QED
      BY <3>1
  <2> QED
    BY <2>1, <2>2
<1>2. Min(S) \in S /\ \A y \in S : Min(S) <= y
  BY <1>1 DEF Min
<1>3. CASE 1 \in S
  <2>1. Min(S) <= 1 /\ Min(S) \in {1, 2}
    BY <1>2, <1>3
  <2> QED
    BY <1>3, <2>1
<1>4. CASE 1 \notin S
  BY <1>2, <1>4
<1> QED
  BY <1>3, <1>4

\* The interrupts that can be taken: the keyboard's, and the mouse's through
\* the slave.
LEMMA Acknowledged ==
    ASSUME InterruptsInv, handler = << >>, state = "running", iflag, Requesting
    PROVE  /\ pc = 23 /\ pic.master.isr = {} /\ pic.slave.isr = {}
           /\ \/ /\ 1 \in pic.master.irr /\ Acknowledge.vector = 33
                 /\ Acknowledge.pic = [pic EXCEPT !.master = Accept(pic.master, 1)]
              \/ /\ Acknowledge.vector = 44
                 /\ Acknowledge.pic = [master |-> Accept(pic.master, 2),
                                       slave |-> Accept(pic.slave, 4)]
<1>1. pc = 23
  <2>1. Len(create_idt) = 22
    BY Program
  <2>2. pc \in 1 .. 23
    BY <2>1 DEF InterruptsInv, TypeOK
  <2>3. ~ (pc <= 22)
    BY <2>1 DEF InterruptsInv, Serving
  <2> QED
    BY <2>2, <2>3
<1>2. pic.master.isr = {} /\ pic.slave.isr = {}
  BY Differ DEF InterruptsInv, Serving
<1>3. /\ pic.master.imr = MasterMask /\ pic.slave.imr = SlaveMask
      /\ pic.master.base = 32 /\ pic.slave.base = 40
      /\ pic.master.irr \subseteq {0, 1} /\ pic.slave.irr \subseteq {4}
      /\ pic \in [master : Chip, slave : Chip]
  BY <1>1 DEF InterruptsInv, TypeOK, Programmed, Requested
<1> DEFINE view == MasterView
<1>4. Eligible(pic.slave) = pic.slave.irr
  BY <1>2, <1>3 DEF Eligible, SlaveMask, Line
<1>5. /\ view.imr = pic.master.imr /\ view.isr = pic.master.isr
      /\ pic.slave.irr = {} => view.irr = pic.master.irr
      /\ pic.slave.irr # {} => view.irr = pic.master.irr \cup {2}
  BY <1>3, <1>4 DEF MasterView, Chip
<1>6. /\ Eligible(view) \subseteq {1, 2}
      /\ 1 \in Eligible(view) => 1 \in pic.master.irr
      /\ 2 \in Eligible(view) => pic.slave.irr = {4}
  <2> HIDE DEF view
  <2>1. Eligible(view) = view.irr \ view.imr
    BY <1>2, <1>5 DEF Eligible
  <2> QED
    BY <1>3, <1>5, <2>1 DEF MasterMask, Line
<1>7. Eligible(view) # {}
  BY DEF Requesting
<1>8. Min(Eligible(view)) = IF 1 \in Eligible(view) THEN 1 ELSE 2
  <2> HIDE DEF view
  <2> QED
    BY <1>6, <1>7, MinOf
<1>9. CASE 1 \in Eligible(view)
  <2>1. Min(Eligible(MasterView)) = 1
    BY <1>8, <1>9
  <2>2. Acknowledge = [vector |-> pic.master.base + 1,
                       pic |-> [pic EXCEPT !.master = Accept(pic.master, 1)]]
    BY <1>3, <2>1 DEF Acknowledge
  <2> QED
    BY <1>1, <1>2, <1>3, <1>6, <1>9, <2>2
<1>10. CASE 1 \notin Eligible(view)
  <2>1. Min(Eligible(MasterView)) = 2 /\ pic.slave.irr = {4}
    BY <1>6, <1>7, <1>8, <1>10
  <2>2. Min(Eligible(pic.slave)) = 4
    <3>1. Eligible(pic.slave) = {4}
      BY <1>4, <2>1
    <3> QED
      BY <3>1 DEF Min
  <2>3. Acknowledge = [vector |-> pic.slave.base + 4,
                       pic |-> [master |-> Accept(pic.master, 2),
                                slave  |-> Accept(pic.slave, 4)]]
    BY <2>1, <2>2 DEF Acknowledge
  <2> QED
    BY <1>1, <1>2, <1>3, <2>3
<1> QED
  BY <1>9, <1>10

\* The invariant does not mention the PICs' state of service once a panic is
\* under way, and an exception always leads to one.
LEMMA Dispatched ==
    ASSUME InterruptsInv, pc = 23, state = "running", NEW v \in Int, Dispatch(v)
    PROVE  /\ state' = "running"
           /\ v = 33 => handler' = Keyboard_Handler
           /\ v \notin {33, 105} => handler' = <<"panic">>
<1>1. /\ gates \subseteq Vectors /\ idtLoaded
      /\ 8 \in gates /\ 33 \in gates
  BY DEF InterruptsInv, Entries
<1>2. 11 \notin gates
  BY <1>1 DEF Vectors
<1> DEFINE u == IF v \in gates THEN v ELSE IF 11 \in gates THEN 11 ELSE 8
<1>3. u \in gates /\ (v = 33 => u = 33) /\ (v \notin {33, 105} => u \notin {33, 105})
  BY <1>1, <1>2
<1>4. handler' = HandlerOf(u) /\ state' = state
  BY <1>1, <1>3 DEF Dispatch
<1> HIDE DEF u
<1> QED
  BY <1>3, <1>4 DEF HandlerOf

\* What an acknowledge does to a PIC.
LEMMA AcceptEffect ==
    ASSUME NEW c \in Chip, NEW i \in Line
    PROVE  /\ Accept(c, i) \in Chip /\ Accept(c, i).irr = c.irr \ {i}
           /\ Accept(c, i).isr = c.isr \cup {i} /\ Accept(c, i).icw = c.icw
           /\ Accept(c, i).base = c.base /\ Accept(c, i).imr = c.imr
<1> DEFINE P == SUBSET Line
           rest == c.irr \ {i}
           more == c.isr \cup {i}
<1>1. rest \in P /\ more \in P
  BY DEF Chip
<1>2. c \in [imr : P, irr : P, isr : P, base : {8, 32, 40, 112}, icw : {0, 2, 3, 4}]
  BY DEF Chip
<1> DEFINE d == [c EXCEPT !.irr = rest]
<1>3. Accept(c, i) = [d EXCEPT !.isr = more]
  BY DEF Accept
<1> HIDE DEF P, rest, more
<1>4. /\ d \in [imr : P, irr : P, isr : P, base : {8, 32, 40, 112}, icw : {0, 2, 3, 4}]
      /\ d.irr = rest /\ d.isr = c.isr /\ d.icw = c.icw /\ d.base = c.base /\ d.imr = c.imr
  BY <1>1, <1>2
<1> HIDE DEF d
<1>5. /\ Accept(c, i) \in [imr : P, irr : P, isr : P, base : {8, 32, 40, 112}, icw : {0, 2, 3, 4}]
      /\ Accept(c, i).irr = d.irr /\ Accept(c, i).isr = more
      /\ Accept(c, i).icw = d.icw /\ Accept(c, i).base = d.base /\ Accept(c, i).imr = d.imr
  BY <1>1, <1>3, <1>4
<1> QED
  BY <1>4, <1>5 DEF Chip, P, rest, more

\* The types after a step that leaves the program and the IDT alone.
LEMMA TypesKeep ==
    ASSUME InterruptsInv, UNCHANGED <<pc, gates, idtLoaded, saved, stuck>>,
           iflag' \in BOOLEAN, handler' \in Remainders,
           state' \in {"running", "panic", "reset"}, pic' \in [master : Chip, slave : Chip],
           kbc' \in [arrived : 0 .. MaxBytes, full : 0 .. MaxBytes],
           served' \in Seq(0 .. MaxBytes)
    PROVE  TypeOK'
<1>1. handler' \in Seq({"inb", "EOI", "iret", "panic"})
  <2> DEFINE C == {"inb", "EOI", "iret", "panic"}
  <2>1. "inb" \in C /\ "EOI" \in C /\ "iret" \in C /\ "panic" \in C
    OBVIOUS
  <2> HIDE DEF C
  <2>2. << >> \in Seq(C) /\ <<"panic">> \in Seq(C) /\ <<"iret">> \in Seq(C)
    BY <2>1
  <2>3. <<"EOI", "iret">> \in Seq(C) /\ <<"EOI", "EOI", "iret">> \in Seq(C)
    BY <2>1
  <2>4. Keyboard_Handler \in Seq(C)
    BY <2>1 DEF Keyboard_Handler
  <2>5. Remainders \subseteq Seq(C)
    BY <2>2, <2>3, <2>4, Zenon DEF Remainders
  <2> QED
    BY <2>5 DEF C
<1>2. pc' \in 1 .. (Len(create_idt)' + 1)
  BY DEF InterruptsInv, TypeOK
<1>3. idtLoaded' \in BOOLEAN /\ stuck' \in BOOLEAN
  BY DEF InterruptsInv, TypeOK
<1>4. gates' \subseteq 0 .. 255 /\ saved' \in [master : SUBSET Line, slave : SUBSET Line]
  BY DEF InterruptsInv, TypeOK
<1> QED
  BY <1>1, <1>2, <1>3, <1>4 DEF TypeOK

\* What taking an interrupt leaves: the keyboard's handler with its request in
\* service, or a panic.
LEMMA TakeInterruptKeeps == InterruptsInv /\ TakeInterrupt => InterruptsInv'
<1> SUFFICES ASSUME InterruptsInv, TakeInterrupt PROVE InterruptsInv'
  OBVIOUS
<1>1. /\ handler = << >> /\ state = "running" /\ iflag' = FALSE /\ pic' = Acknowledge.pic
      /\ Dispatch(Acknowledge.vector)
      /\ UNCHANGED <<pc, gates, idtLoaded, saved, kbc, served, stuck>>
  BY DEF TakeInterrupt
<1>2. /\ pc = 23 /\ pic.master.isr = {} /\ pic.slave.isr = {}
      /\ \/ /\ 1 \in pic.master.irr /\ Acknowledge.vector = 33
            /\ Acknowledge.pic = [pic EXCEPT !.master = Accept(pic.master, 1)]
         \/ /\ Acknowledge.vector = 44
            /\ Acknowledge.pic = [master |-> Accept(pic.master, 2),
                                  slave |-> Accept(pic.slave, 4)]
  BY Acknowledged DEF TakeInterrupt
<1>3. /\ pic \in [master : Chip, slave : Chip] /\ pic.master \in Chip /\ pic.slave \in Chip
      /\ pic.master.irr \subseteq {0, 1} /\ pic.slave.irr \subseteq {4}
  BY DEF InterruptsInv, TypeOK, Requested
<1>4. ASSUME NEW c \in Chip, NEW i \in Line
      PROVE  /\ Accept(c, i) \in Chip /\ Accept(c, i).irr = c.irr \ {i}
             /\ Accept(c, i).isr = c.isr \cup {i} /\ Accept(c, i).icw = c.icw
             /\ Accept(c, i).base = c.base /\ Accept(c, i).imr = c.imr
  BY AcceptEffect
<1>5. Programmed /\ Entries /\ NextByte /\ TypeOK
  BY DEF InterruptsInv
<1>6. CASE /\ 1 \in pic.master.irr /\ Acknowledge.vector = 33
           /\ Acknowledge.pic = [pic EXCEPT !.master = Accept(pic.master, 1)]
  <2>1. state' = "running" /\ handler' = Keyboard_Handler
    BY <1>1, <1>2, <1>6, Dispatched
  <2>2. pic'.master = Accept(pic.master, 1) /\ pic'.slave = pic.slave
        /\ pic' \in [master : Chip, slave : Chip]
    <3>1. pic' = [pic EXCEPT !.master = Accept(pic.master, 1)]
      BY <1>1, <1>6
    <3>2. Accept(pic.master, 1) \in Chip
      BY <1>3, <1>4 DEF Line
    <3> QED
      BY <1>3, <3>1, <3>2
  <2>3. /\ pic'.master.irr = pic.master.irr \ {1} /\ pic'.master.isr = {1}
        /\ pic'.master.icw = pic.master.icw /\ pic'.master.base = pic.master.base
        /\ pic'.master.imr = pic.master.imr
    BY <1>2, <1>3, <1>4, <2>2 DEF Line
  <2>4. TypeOK'
    <3>1. kbc' \in [arrived : 0 .. MaxBytes, full : 0 .. MaxBytes] /\ served' \in Seq(0 .. MaxBytes)
      BY <1>1 DEF InterruptsInv, TypeOK
    <3>2. handler' \in Remainders /\ iflag' \in BOOLEAN
      BY <1>1, <2>1, Zenon DEF Remainders
    <3> QED
      BY <1>1, <2>1, <2>2, <3>1, <3>2, TypesKeep
  <2>5. Programmed' /\ Entries'
    BY <1>1, <1>5, <2>2, <2>3 DEF Programmed, Entries
  <2>6. Requested' /\ NextByte'
    BY <1>1, <1>3, <1>5, <1>6, <2>1, <2>2, <2>3 DEF Requested, NextByte
  <2>7. Serving'
    <3>1. ~ (pc' <= Len(create_idt)')
      BY <1>1, <1>2, Program
    <3>2. handler' \in Remainders /\ handler' # << >> /\ handler' # <<"panic">> /\ ~ iflag'
      BY <1>1, <2>1, Differ, Zenon DEF Remainders
    <3>3. pic'.slave.isr = {}
      BY <1>2, <2>2
    <3> QED
      BY <2>1, <2>3, <3>1, <3>2, <3>3, Zenon DEF Serving
  <2> QED
    BY <2>1, <2>4, <2>5, <2>6, <2>7 DEF InterruptsInv
<1>7. CASE /\ Acknowledge.vector = 44
           /\ Acknowledge.pic = [master |-> Accept(pic.master, 2),
                                 slave |-> Accept(pic.slave, 4)]
  <2>1. state' = "running" /\ handler' = <<"panic">>
    BY <1>1, <1>2, <1>7, Dispatched
  <2>2. pic'.master = Accept(pic.master, 2) /\ pic'.slave = Accept(pic.slave, 4)
        /\ pic' \in [master : Chip, slave : Chip]
    <3>1. Accept(pic.master, 2) \in Chip /\ Accept(pic.slave, 4) \in Chip
      BY <1>3, <1>4 DEF Line
    <3> QED
      BY <1>1, <1>7, <3>1
  <2>3. /\ pic'.master.irr = pic.master.irr \ {2} /\ pic'.slave.irr = pic.slave.irr \ {4}
        /\ pic'.master.icw = pic.master.icw /\ pic'.master.base = pic.master.base
        /\ pic'.slave.icw = pic.slave.icw /\ pic'.slave.base = pic.slave.base
        /\ pic'.master.imr = pic.master.imr /\ pic'.slave.imr = pic.slave.imr
    BY <1>3, <1>4, <2>2 DEF Line
  <2>4. TypeOK'
    <3>1. kbc' \in [arrived : 0 .. MaxBytes, full : 0 .. MaxBytes] /\ served' \in Seq(0 .. MaxBytes)
      BY <1>1 DEF InterruptsInv, TypeOK
    <3>2. handler' \in Remainders /\ iflag' \in BOOLEAN
      BY <1>1, <2>1, Zenon DEF Remainders
    <3> QED
      BY <1>1, <2>1, <2>2, <3>1, <3>2, TypesKeep
  <2>5. Programmed' /\ Entries'
    BY <1>1, <1>5, <2>3 DEF Programmed, Entries
  <2>6. Requested' /\ NextByte'
    BY <1>1, <1>3, <1>5, <2>1, <2>3, Differ DEF Requested, NextByte
  <2>7. Serving'
    BY <1>1, <1>2, <2>1, Differ, Program DEF Serving, Remainders
  <2> QED
    BY <2>1, <2>4, <2>5, <2>6, <2>7 DEF InterruptsInv
<1> QED
  BY <1>2, <1>6, <1>7

\* An exception panics.
LEMMA TakeFaultKeeps ==
    ASSUME InterruptsInv, NEW v \in Faults, TakeFault(v)
    PROVE  InterruptsInv'
<1>1. /\ handler = << >> /\ state = "running" /\ iflag' = FALSE /\ InStart /\ Dispatch(v)
      /\ UNCHANGED <<pc, gates, idtLoaded, saved, pic, kbc, served, stuck>>
  BY DEF TakeFault
<1>2. pc = 23
  <2>1. Len(create_idt) = 22
    BY Program
  <2>2. pc \in 1 .. 23
    BY <2>1 DEF InterruptsInv, TypeOK
  <2> QED
    BY <1>1, <2>1, <2>2 DEF InStart
<1>3. v \in Int /\ v \notin {33, 105}
  BY FaultsAssumption
<1>4. state' = "running" /\ handler' = <<"panic">>
  BY <1>1, <1>2, <1>3, Dispatched
<1>5. TypeOK'
  <2>1. /\ kbc' \in [arrived : 0 .. MaxBytes, full : 0 .. MaxBytes]
        /\ served' \in Seq(0 .. MaxBytes) /\ pic' \in [master : Chip, slave : Chip]
    BY <1>1 DEF InterruptsInv, TypeOK
  <2>2. handler' \in Remainders /\ iflag' \in BOOLEAN
    BY <1>1, <1>4, Zenon DEF Remainders
  <2> QED
    BY <1>1, <1>4, <2>1, <2>2, TypesKeep
<1>6. Programmed' /\ Entries' /\ Requested'
  BY <1>1 DEF InterruptsInv, Programmed, Entries, Requested
<1>7. NextByte'
  BY <1>1, <1>4, Differ DEF InterruptsInv, NextByte
<1>8. Serving'
  BY <1>1, <1>2, <1>4, Differ, Program DEF Serving, Remainders
<1> QED
  BY <1>4, <1>5, <1>6, <1>7, <1>8 DEF InterruptsInv

\* What a rising request line does to the PICs.
LEMMA Raised ==
    ASSUME pic \in [master : Chip, slave : Chip], NEW line \in {0, 1, 12},
           NEW r, r = RaiseLine(pic, line)
    PROVE  /\ r \in [master : Chip, slave : Chip]
           /\ r.master.isr = pic.master.isr /\ r.slave.isr = pic.slave.isr
           /\ r.master.imr = pic.master.imr /\ r.slave.imr = pic.slave.imr
           /\ r.master.icw = pic.master.icw /\ r.slave.icw = pic.slave.icw
           /\ r.master.base = pic.master.base /\ r.slave.base = pic.slave.base
           /\ line # 12 => /\ r.master.irr = pic.master.irr \cup {line}
                           /\ r.slave.irr = pic.slave.irr
           /\ line = 12 => /\ r.master.irr = pic.master.irr
                           /\ r.slave.irr = pic.slave.irr \cup {4}
<1>1. CASE line # 12
  <2> DEFINE more == pic.master.irr \cup {line}
             d == [pic.master EXCEPT !.irr = more]
  <2>1. line < 8 /\ line \in Line
    BY <1>1 DEF Line
  <2>2. more \in SUBSET Line
    BY <2>1 DEF Chip
  <2>3. r = [pic EXCEPT !.master = d]
    BY <2>1 DEF RaiseLine
  <2>4. more = pic.master.irr \cup {line}
    OBVIOUS
  <2> HIDE DEF more
  <2>5. /\ d \in Chip /\ d.irr = more /\ d.isr = pic.master.isr /\ d.imr = pic.master.imr
        /\ d.icw = pic.master.icw /\ d.base = pic.master.base
    BY <2>2 DEF Chip
  <2> HIDE DEF d
  <2>6. r \in [master : Chip, slave : Chip] /\ r.master = d /\ r.slave = pic.slave
    BY <2>3, <2>5
  <2> QED
    BY <1>1, <2>4, <2>5, <2>6
<1>2. CASE line = 12
  <2> DEFINE more == pic.slave.irr \cup {4}
             d == [pic.slave EXCEPT !.irr = more]
  <2>1. more \in SUBSET Line
    BY DEF Chip, Line
  <2>2. r = [pic EXCEPT !.slave = d]
    BY <1>2 DEF RaiseLine
  <2>3. more = pic.slave.irr \cup {4}
    OBVIOUS
  <2> HIDE DEF more
  <2>4. /\ d \in Chip /\ d.irr = more /\ d.isr = pic.slave.isr /\ d.imr = pic.slave.imr
        /\ d.icw = pic.slave.icw /\ d.base = pic.slave.base
    BY <2>1 DEF Chip
  <2> HIDE DEF d
  <2>5. r \in [master : Chip, slave : Chip] /\ r.slave = d /\ r.master = pic.master
    BY <2>2, <2>4
  <2> QED
    BY <1>2, <2>3, <2>4, <2>5
<1> QED
  BY <1>1, <1>2

\* While a handler runs the program is over and the flag is clear.
LEMMA Handling ==
    ASSUME InterruptsInv, handler # << >>
    PROVE  ~ (pc <= Len(create_idt)) /\ handler \in Remainders /\ state = "running" /\ ~ iflag
BY DEF InterruptsInv, Serving

\* The keyboard's handler reads the byte whose request it took.
LEMMA ReadScancodeKeeps == InterruptsInv /\ ReadScancode => InterruptsInv'
<1> SUFFICES ASSUME InterruptsInv, ReadScancode PROVE InterruptsInv'
  OBVIOUS
<1>1. /\ handler # << >> /\ Head(handler) = "inb" /\ handler' = Tail(handler)
      /\ served' = Append(served, kbc.full)
      /\ \/ /\ kbc.full + 1 <= kbc.arrived
            /\ kbc' = [kbc EXCEPT !.full = kbc.full + 1] /\ pic' = RaiseLine(pic, 1)
         \/ /\ kbc.full # 0 => ~ (kbc.full + 1 <= kbc.arrived)
            /\ kbc' = [kbc EXCEPT !.full = 0] /\ pic' = pic
      /\ UNCHANGED <<pc, iflag, gates, idtLoaded, state, saved, stuck>>
  BY DEF ReadScancode
<1>2. ~ (pc <= Len(create_idt)) /\ state = "running" /\ ~ iflag /\ handler \in Remainders
  BY <1>1, Handling
<1>3. handler = Keyboard_Handler /\ handler' = <<"EOI", "EOI", "iret">>
  BY <1>1, <1>2, Steps
<1>4. /\ pic \in [master : Chip, slave : Chip]
      /\ kbc \in [arrived : 0 .. MaxBytes, full : 0 .. MaxBytes]
      /\ served \in Seq(0 .. MaxBytes) /\ iflag \in BOOLEAN
  BY DEF InterruptsInv, TypeOK
<1>5. /\ kbc.full = Len(served) + 1 /\ kbc.full <= kbc.arrived /\ 1 \notin pic.master.irr
      /\ \A j \in DOMAIN served : served[j] = j
  BY <1>3 DEF InterruptsInv, NextByte
<1>6. /\ pic' \in [master : Chip, slave : Chip]
      /\ pic'.master.isr = pic.master.isr /\ pic'.slave.isr = pic.slave.isr
      /\ pic'.master.imr = pic.master.imr /\ pic'.slave.imr = pic.slave.imr
      /\ pic'.master.icw = pic.master.icw /\ pic'.slave.icw = pic.slave.icw
      /\ pic'.master.base = pic.master.base /\ pic'.slave.base = pic.slave.base
      /\ pic'.master.irr \subseteq pic.master.irr \cup {1} /\ pic'.slave.irr = pic.slave.irr
  BY <1>1, <1>4, Raised
<1>7. /\ kbc' \in [arrived : 0 .. MaxBytes, full : 0 .. MaxBytes]
      /\ kbc'.arrived = kbc.arrived
      /\ \/ kbc'.full = kbc.full + 1 /\ kbc'.full <= kbc.arrived
         \/ kbc'.full = 0 /\ kbc.arrived = kbc.full /\ pic' = pic
  BY <1>1, <1>4, <1>5, MaxBytesAssumption
<1>8. /\ served' \in Seq(0 .. MaxBytes) /\ Len(served') = Len(served) + 1
      /\ \A j \in DOMAIN served' : served'[j] = j
  BY <1>1, <1>4, <1>5
<1>9. TypeOK'
  <2>1. handler' \in Remainders
    BY <1>3, Zenon DEF Remainders
  <2>2. iflag' \in BOOLEAN /\ state' \in {"running", "panic", "reset"}
    BY <1>1, <1>2, <1>4
  <2> QED
    BY <1>1, <1>6, <1>7, <1>8, <2>1, <2>2, TypesKeep
<1>10. Programmed' /\ Entries' /\ Requested'
  BY <1>1, <1>6 DEF InterruptsInv, Programmed, Entries, Requested
<1>11. Serving'
  <2>1. handler' \in Remainders /\ handler' # << >> /\ handler' # <<"panic">>
    BY <1>3, Differ, Zenon DEF Remainders
  <2>2. pic.master.isr = {1} /\ pic.slave.isr = {}
    BY <1>2, <1>3, Differ DEF InterruptsInv, Serving
  <2>3. ~ (pc' <= Len(create_idt)') /\ state' = "running" /\ ~ iflag'
    BY <1>1, <1>2
  <2> QED
    BY <1>3, <1>6, <2>1, <2>2, <2>3, Zenon DEF Serving
<1>12. NextByte'
  <2>1. handler' # Keyboard_Handler
    BY <1>3, Differ
  <2>2. kbc'.full # 0 => kbc'.full = Len(served') + 1 /\ kbc'.full <= kbc'.arrived
    BY <1>5, <1>7, <1>8
  <2>3. kbc'.full = 0 => kbc'.arrived = Len(served')
    BY <1>4, <1>5, <1>7, <1>8
  <2>4. Len(served') <= kbc'.arrived
    BY <1>4, <1>5, <1>7, <1>8
  <2>5. 1 \in pic'.master.irr => kbc'.full # 0
    BY <1>4, <1>5, <1>7
  <2> QED
    BY <1>8, <2>1, <2>2, <2>3, <2>4, <2>5 DEF NextByte
<1> QED
  BY <1>1, <1>2, <1>9, <1>10, <1>11, <1>12 DEF InterruptsInv

\* The first EOI takes the keyboard's request out of service; the second
\* finds nothing in service.
LEMMA SendEoiKeeps == InterruptsInv /\ SendEoi => InterruptsInv'
<1> SUFFICES ASSUME InterruptsInv, SendEoi PROVE InterruptsInv'
  OBVIOUS
<1>1. /\ handler # << >> /\ Head(handler) = "EOI" /\ handler' = Tail(handler)
      /\ pic' = [pic EXCEPT !.master = Command(pic.master, "EOI")]
      /\ UNCHANGED <<pc, iflag, gates, idtLoaded, state, saved, kbc, served, stuck>>
  BY DEF SendEoi
<1>2. ~ (pc <= Len(create_idt)) /\ state = "running" /\ ~ iflag /\ handler \in Remainders
  BY <1>1, Handling
<1>3. \/ handler = <<"EOI", "EOI", "iret">> /\ handler' = <<"EOI", "iret">>
      \/ handler = <<"EOI", "iret">> /\ handler' = <<"iret">>
  BY <1>1, <1>2, Steps
<1>4. /\ pic \in [master : Chip, slave : Chip] /\ iflag \in BOOLEAN
      /\ kbc \in [arrived : 0 .. MaxBytes, full : 0 .. MaxBytes] /\ served \in Seq(0 .. MaxBytes)
  BY DEF InterruptsInv, TypeOK
<1>5. pic.slave.isr = {} /\ pic.master.isr \in {{}, {1}}
  <2>1. pic.slave.isr = {}
    BY <1>2, <1>3, Differ DEF InterruptsInv, Serving
  <2>2. handler = <<"EOI", "EOI", "iret">> => pic.master.isr = {1}
    BY DEF InterruptsInv, Serving
  <2>3. handler = <<"EOI", "iret">> => pic.master.isr = {}
    BY <1>2, Differ DEF InterruptsInv, Serving
  <2> QED
    BY <1>3, <2>1, <2>2, <2>3
<1>6. Command(pic.master, "EOI") = [pic.master EXCEPT !.isr = {}]
  <2> DEFINE rest == IF pic.master.isr = {} THEN pic.master.isr
                     ELSE pic.master.isr \ {Min(pic.master.isr)}
  <2>1. Min({1}) = 1
    BY DEF Min
  <2>2. rest = {}
    BY <1>5, <2>1
  <2>3. Command(pic.master, "EOI") = [pic.master EXCEPT !.isr = rest]
    BY DEF Command
  <2> HIDE DEF rest
  <2> QED
    BY <2>2, <2>3
<1>7. /\ pic'.slave = pic.slave /\ pic'.master.isr = {}
      /\ pic'.master.irr = pic.master.irr /\ pic'.master.imr = pic.master.imr
      /\ pic'.master.icw = pic.master.icw /\ pic'.master.base = pic.master.base
      /\ pic' \in [master : Chip, slave : Chip]
  <2> DEFINE d == [pic.master EXCEPT !.isr = {}]
  <2>1. /\ d \in Chip /\ d.isr = {} /\ d.irr = pic.master.irr /\ d.imr = pic.master.imr
        /\ d.icw = pic.master.icw /\ d.base = pic.master.base
    BY <1>4 DEF Chip
  <2>2. pic' = [pic EXCEPT !.master = d]
    BY <1>1, <1>6
  <2> HIDE DEF d
  <2> QED
    BY <1>4, <2>1, <2>2
<1>8. handler' \in Remainders /\ handler' \notin {Keyboard_Handler, <<"EOI", "EOI", "iret">>, <<"panic">>, << >>}
  BY <1>3, Differ, Zenon DEF Remainders
<1>9. TypeOK'
  <2>1. /\ kbc' \in [arrived : 0 .. MaxBytes, full : 0 .. MaxBytes]
        /\ served' \in Seq(0 .. MaxBytes) /\ iflag' \in BOOLEAN
        /\ state' \in {"running", "panic", "reset"}
    BY <1>1, <1>2, <1>4
  <2> QED
    BY <1>1, <1>7, <1>8, <2>1, TypesKeep
<1>10. Programmed' /\ Entries' /\ Requested'
  <2>1. Programmed'
    BY <1>1, <1>7 DEF InterruptsInv, Programmed
  <2>2. Entries'
    BY <1>1 DEF InterruptsInv, Entries
  <2>3. Requested'
    BY <1>1, <1>7 DEF InterruptsInv, Requested
  <2> QED
    BY <2>1, <2>2, <2>3
<1>11. Serving'
  <2>1. ~ (pc' <= Len(create_idt)') /\ state' = "running" /\ ~ iflag'
    BY <1>1, <1>2
  <2>2. pic'.slave.isr = {} /\ pic'.master.isr = {}
    BY <1>5, <1>7
  <2> QED
    BY <1>8, <2>1, <2>2, Zenon DEF Serving
<1>12. NextByte'
  <2>1. handler' # Keyboard_Handler
    BY <1>8
  <2> QED
    BY <1>1, <1>7, <2>1 DEF InterruptsInv, NextByte
<1> QED
  BY <1>1, <1>2, <1>9, <1>10, <1>11, <1>12 DEF InterruptsInv

\* Nothing is in service when the handler returns.
LEMMA IretKeeps == InterruptsInv /\ Iret => InterruptsInv'
<1> SUFFICES ASSUME InterruptsInv, Iret PROVE InterruptsInv'
  OBVIOUS
<1>1. /\ handler # << >> /\ Head(handler) = "iret" /\ handler' = Tail(handler) /\ iflag' = TRUE
      /\ UNCHANGED <<pc, gates, idtLoaded, state, saved, pic, kbc, served, stuck>>
  BY DEF Iret
<1>2. ~ (pc <= Len(create_idt)) /\ state = "running" /\ handler \in Remainders
  BY <1>1, Handling
<1>3. handler = <<"iret">> /\ handler' = << >>
  BY <1>1, <1>2, Steps
<1>4. pic.slave.isr = {} /\ pic.master.isr = {}
  BY <1>2, <1>3, Differ DEF InterruptsInv, Serving
<1>5. TypeOK'
  <2>1. /\ kbc' \in [arrived : 0 .. MaxBytes, full : 0 .. MaxBytes]
        /\ served' \in Seq(0 .. MaxBytes) /\ iflag' \in BOOLEAN
        /\ state' \in {"running", "panic", "reset"} /\ pic' \in [master : Chip, slave : Chip]
    BY <1>1 DEF InterruptsInv, TypeOK
  <2>2. handler' \in Remainders
    BY <1>3, Zenon DEF Remainders
  <2> QED
    BY <1>1, <2>1, <2>2, TypesKeep
<1>6. Programmed' /\ Entries' /\ Requested'
  BY <1>1 DEF InterruptsInv, Programmed, Entries, Requested
<1>7. Serving'
  <2>1. ~ (pc' <= Len(create_idt)') /\ state' = "running"
    BY <1>1, <1>2
  <2>2. handler' \in Remainders /\ handler' = << >>
    BY <1>3, Zenon DEF Remainders
  <2> QED
    BY <1>1, <1>4, <2>1, <2>2, Differ, Zenon DEF Serving
<1>8. NextByte'
  <2>1. handler' # Keyboard_Handler
    BY <1>3, Differ
  <2> QED
    BY <1>1, <2>1 DEF InterruptsInv, NextByte
<1> QED
  BY <1>1, <1>2, <1>5, <1>6, <1>7, <1>8 DEF InterruptsInv

\* A panic leaves what is in service there.
LEMMA PanicKeeps == InterruptsInv /\ Panic => InterruptsInv'
<1> SUFFICES ASSUME InterruptsInv, Panic PROVE InterruptsInv'
  OBVIOUS
<1>1. /\ handler # << >> /\ handler' = << >> /\ state' = "panic"
      /\ UNCHANGED <<pc, iflag, gates, idtLoaded, saved, pic, kbc, served, stuck>>
  BY DEF Panic
<1>2. ~ (pc <= Len(create_idt))
  BY <1>1, Handling
<1>3. handler' \in Remainders /\ handler' = << >> /\ handler' # Keyboard_Handler
  BY <1>1, Differ, Zenon DEF Remainders
<1>4. TypeOK'
  <2>1. /\ kbc' \in [arrived : 0 .. MaxBytes, full : 0 .. MaxBytes]
        /\ served' \in Seq(0 .. MaxBytes) /\ iflag' \in BOOLEAN
        /\ pic' \in [master : Chip, slave : Chip]
    BY <1>1 DEF InterruptsInv, TypeOK
  <2> QED
    BY <1>1, <1>3, <2>1, TypesKeep
<1>5. Programmed' /\ Entries' /\ Requested'
  BY <1>1 DEF InterruptsInv, Programmed, Entries, Requested
<1>6. Serving'
  <2>1. ~ (pc' <= Len(create_idt)') /\ state' # "running"
    BY <1>1, <1>2
  <2> QED
    BY <1>3, <2>1, Differ, Zenon DEF Serving
<1>7. NextByte'
  BY <1>1, <1>3 DEF InterruptsInv, NextByte
<1> QED
  BY <1>1, <1>4, <1>5, <1>6, <1>7 DEF InterruptsInv

-----------------------------------------------------------------------------
(* The devices and the initial state.                                       *)

\* A scan code arrives.
LEMMA KeyArrivesKeeps == InterruptsInv /\ KeyArrives => InterruptsInv'
<1> SUFFICES ASSUME InterruptsInv, KeyArrives PROVE InterruptsInv'
  OBVIOUS
<1>1. /\ kbc.arrived < MaxBytes
      /\ \/ /\ kbc.full = 0 /\ pic' = RaiseLine(pic, 1)
            /\ kbc' = [arrived |-> kbc.arrived + 1, full |-> kbc.arrived + 1]
         \/ /\ kbc.full # 0 /\ pic' = pic
            /\ kbc' = [arrived |-> kbc.arrived + 1, full |-> kbc.full]
      /\ UNCHANGED <<pc, iflag, gates, idtLoaded, handler, state, saved, served, stuck>>
  BY DEF KeyArrives, vars_cpu
<1>2. /\ pic \in [master : Chip, slave : Chip]
      /\ kbc \in [arrived : 0 .. MaxBytes, full : 0 .. MaxBytes]
      /\ served' \in Seq(0 .. MaxBytes) /\ iflag' \in BOOLEAN
      /\ state' \in {"running", "panic", "reset"} /\ Len(served) \in Nat
  BY <1>1 DEF InterruptsInv, TypeOK
<1>3. /\ pic' \in [master : Chip, slave : Chip]
      /\ pic'.master.isr = pic.master.isr /\ pic'.slave.isr = pic.slave.isr
      /\ pic'.master.imr = pic.master.imr /\ pic'.slave.imr = pic.slave.imr
      /\ pic'.master.icw = pic.master.icw /\ pic'.slave.icw = pic.slave.icw
      /\ pic'.master.base = pic.master.base /\ pic'.slave.base = pic.slave.base
      /\ pic'.master.irr \subseteq pic.master.irr \cup {1} /\ pic'.slave.irr = pic.slave.irr
      /\ kbc.full # 0 => pic' = pic
  BY <1>1, <1>2, Raised
<1>4. /\ kbc' \in [arrived : 0 .. MaxBytes, full : 0 .. MaxBytes]
      /\ kbc'.arrived = kbc.arrived + 1 /\ kbc'.full # 0
      /\ kbc.full = 0 => kbc'.full = kbc.arrived + 1
      /\ kbc.full # 0 => kbc'.full = kbc.full
  BY <1>1, <1>2, MaxBytesAssumption
<1>5. TypeOK'
  <2>1. handler' \in Remainders
    BY <1>1 DEF InterruptsInv, Serving
  <2> QED
    BY <1>1, <1>2, <1>3, <1>4, <2>1, TypesKeep
<1>6. Programmed' /\ Entries' /\ Requested'
  BY <1>1, <1>3 DEF InterruptsInv, Programmed, Entries, Requested
<1>7. Serving'
  BY <1>1, <1>3, Zenon DEF InterruptsInv, Serving
<1>8. NextByte'
  <2>1. Len(served') <= kbc'.arrived /\ \A j \in DOMAIN served' : served'[j] = j
    BY <1>1, <1>2, <1>4 DEF InterruptsInv, NextByte
  <2>2. kbc'.full = Len(served') + 1 /\ kbc'.full <= kbc'.arrived
    BY <1>1, <1>2, <1>4 DEF InterruptsInv, NextByte
  <2>3. handler' = Keyboard_Handler => 1 \notin pic'.master.irr
    BY <1>1, <1>3 DEF InterruptsInv, NextByte
  <2> QED
    BY <1>4, <2>1, <2>2, <2>3 DEF NextByte
<1> QED
  BY <1>1, <1>5, <1>6, <1>7, <1>8 DEF InterruptsInv

\* The timer or the mouse asks.
LEMMA LineRisesKeeps ==
    ASSUME InterruptsInv, NEW line \in Devices, LineRises(line)
    PROVE  InterruptsInv'
<1>1. /\ line \in {0, 12} /\ pic' = RaiseLine(pic, line)
      /\ UNCHANGED <<pc, iflag, gates, idtLoaded, handler, state, saved, served, stuck, kbc>>
  BY DevicesAssumption DEF LineRises, vars_cpu
<1>2. /\ pic \in [master : Chip, slave : Chip]
      /\ kbc' \in [arrived : 0 .. MaxBytes, full : 0 .. MaxBytes]
      /\ served' \in Seq(0 .. MaxBytes) /\ iflag' \in BOOLEAN
      /\ state' \in {"running", "panic", "reset"}
  BY <1>1 DEF InterruptsInv, TypeOK
<1>3. /\ pic' \in [master : Chip, slave : Chip]
      /\ pic'.master.isr = pic.master.isr /\ pic'.slave.isr = pic.slave.isr
      /\ pic'.master.imr = pic.master.imr /\ pic'.slave.imr = pic.slave.imr
      /\ pic'.master.icw = pic.master.icw /\ pic'.slave.icw = pic.slave.icw
      /\ pic'.master.base = pic.master.base /\ pic'.slave.base = pic.slave.base
      /\ pic'.master.irr \subseteq pic.master.irr \cup {0}
      /\ pic'.slave.irr \subseteq pic.slave.irr \cup {4}
  BY <1>1, <1>2, Raised
<1>4. TypeOK'
  <2>1. handler' \in Remainders
    BY <1>1 DEF InterruptsInv, Serving
  <2> QED
    BY <1>1, <1>2, <1>3, <2>1, TypesKeep
<1>5. Programmed' /\ Entries' /\ Requested'
  BY <1>1, <1>3 DEF InterruptsInv, Programmed, Entries, Requested
<1>6. Serving'
  BY <1>1, <1>3, Zenon DEF InterruptsInv, Serving
<1>7. NextByte'
  BY <1>1, <1>3 DEF InterruptsInv, NextByte
<1> QED
  BY <1>1, <1>4, <1>5, <1>6, <1>7 DEF InterruptsInv

\* What the boot loader leaves.
LEMMA InitInv == Init => InterruptsInv
<1> SUFFICES ASSUME Init PROVE InterruptsInv
  OBVIOUS
<1>1. /\ pc = 1 /\ iflag = FALSE /\ gates = {} /\ idtLoaded = FALSE /\ handler = << >>
      /\ state = "running" /\ saved = [master |-> {}, slave |-> {}]
      /\ kbc = [arrived |-> 0, full |-> 0] /\ served = << >> /\ stuck = FALSE
  BY DEF Init
<1>2. PICK m \in {{}, Line} :
        pic = [master |-> [imr |-> m, irr |-> {}, isr |-> {}, base |-> 8, icw |-> 0],
               slave  |-> [imr |-> m, irr |-> {}, isr |-> {}, base |-> 112, icw |-> 0]]
  BY DEF Init
<1>3. /\ pic \in [master : Chip, slave : Chip]
      /\ pic.master.icw = 0 /\ pic.slave.icw = 0 /\ pic.master.irr = {} /\ pic.slave.irr = {}
      /\ pic.master.isr = {} /\ pic.slave.isr = {}
  BY <1>2 DEF Chip
<1>4. Len(create_idt) = 22
  BY Program
<1>5. TypeOK
  <2>1. pc \in 1 .. (Len(create_idt) + 1)
    BY <1>1, <1>4
  <2>2. handler \in Seq({"inb", "EOI", "iret", "panic"}) /\ served \in Seq(0 .. MaxBytes)
    BY <1>1
  <2>3. kbc \in [arrived : 0 .. MaxBytes, full : 0 .. MaxBytes]
    BY <1>1, MaxBytesAssumption
  <2>4. saved \in [master : SUBSET Line, slave : SUBSET Line]
    BY <1>1
  <2>5. gates \subseteq 0 .. 255 /\ state \in {"running", "panic", "reset"}
    BY <1>1
  <2> QED
    BY <1>1, <1>3, <2>1, <2>2, <2>3, <2>4, <2>5 DEF TypeOK
<1>6. Programmed /\ Entries /\ Requested
  BY <1>1, <1>3 DEF Programmed, Entries, Requested
<1>7. Serving
  <2>1. handler \in Remainders
    BY <1>1, Zenon DEF Remainders
  <2> QED
    BY <1>1, <1>3, <2>1, Differ, Zenon DEF Serving
<1>8. NextByte
  BY <1>1, <1>3, Differ DEF NextByte
<1> QED
  BY <1>1, <1>5, <1>6, <1>7, <1>8 DEF InterruptsInv

-----------------------------------------------------------------------------
(* The theorems.                                                            *)

\* A step that changes nothing keeps the invariant.
LEMMA StutterKeeps == InterruptsInv /\ UNCHANGED vars => InterruptsInv'
<1> SUFFICES ASSUME InterruptsInv, UNCHANGED vars PROVE InterruptsInv'
  OBVIOUS
<1>1. TypeOK'
  <2>1. handler' \in Remainders
    BY DEF InterruptsInv, Serving, vars
  <2>2. /\ kbc' \in [arrived : 0 .. MaxBytes, full : 0 .. MaxBytes]
        /\ served' \in Seq(0 .. MaxBytes) /\ iflag' \in BOOLEAN
        /\ state' \in {"running", "panic", "reset"} /\ pic' \in [master : Chip, slave : Chip]
    BY DEF InterruptsInv, TypeOK, vars
  <2> QED
    BY <2>1, <2>2, TypesKeep DEF vars
<1>2. Programmed' /\ Entries' /\ Requested'
  BY DEF InterruptsInv, Programmed, Entries, Requested, vars
<1>3. Serving'
  BY Zenon DEF InterruptsInv, Serving, vars
<1>4. NextByte'
  BY DEF InterruptsInv, NextByte, vars
<1> QED
  BY <1>1, <1>2, <1>3, <1>4 DEF InterruptsInv, vars

LEMMA StepInv == InterruptsInv /\ [Next]_vars => InterruptsInv'
<1> SUFFICES ASSUME InterruptsInv, [Next]_vars PROVE InterruptsInv'
  OBVIOUS
<1>1. CASE Instruction
  BY <1>1, InstructionKeeps
<1>2. CASE TakeInterrupt
  BY <1>2, TakeInterruptKeeps
<1>3. CASE ReadScancode
  BY <1>3, ReadScancodeKeeps
<1>4. CASE SendEoi
  BY <1>4, SendEoiKeeps
<1>5. CASE Iret
  BY <1>5, IretKeeps
<1>6. CASE Panic
  BY <1>6, PanicKeeps
<1>7. CASE \E v \in Faults : TakeFault(v)
  BY <1>7, TakeFaultKeeps
<1>8. CASE KeyArrives
  BY <1>8, KeyArrivesKeeps
<1>9. CASE \E line \in Devices : LineRises(line)
  BY <1>9, LineRisesKeeps
<1>10. CASE UNCHANGED vars
  BY <1>10, StutterKeeps
<1> QED
  BY <1>1, <1>2, <1>3, <1>4, <1>5, <1>6, <1>7, <1>8, <1>9, <1>10 DEF Next, Processor

\* The invariant holds in every state (create_idt and the handlers).
THEOREM InvariantHolds == Spec => []InterruptsInv
BY InitInv, StepInv, PTL DEF Spec

\* Every variable has its type, whatever arrives (idt.c, interrupts.c).
THEOREM TypeCorrect == Spec => []TypeOK
<1>1. InterruptsInv => TypeOK
  BY DEF InterruptsInv
<1> QED
  BY <1>1, InvariantHolds, PTL

\* No interrupt and no exception resets the machine: the double-fault gate is
\* written before lidt, lidt comes before sti (idt.c:36-49).
THEOREM TheMachineStays == Spec => []NeverResets
<1>1. InterruptsInv => NeverResets
  BY DEF InterruptsInv, NeverResets
<1> QED
  BY <1>1, InvariantHolds, PTL

\* The keyboard's handler reads every scan code once and in order
\* (interrupts.c:29-33).
THEOREM EachByteOnce == Spec => []BytesInOrder
<1>1. InterruptsInv => BytesInOrder
  BY DEF InterruptsInv, NextByte, BytesInOrder
<1> QED
  BY <1>1, InvariantHolds, PTL

\* A handler that has returned leaves nothing in service, and its two EOIs
\* retire no request but its own (keyboard.c:62, interrupts.c:32).
THEOREM HandlersEndTheirInterrupt == Spec => []NothingInService
<1>1. InterruptsInv => NothingInService
  <2> SUFFICES ASSUME InterruptsInv, state = "running"
               PROVE  /\ handler = << >> => pic.master.isr = {} /\ pic.slave.isr = {}
                      /\ handler # << >> /\ Head(handler) = "EOI" =>
                            pic.master.isr \subseteq {1} /\ pic.slave.isr = {}
    BY DEF NothingInService
  <2>1. handler = << >> => pic.master.isr = {} /\ pic.slave.isr = {}
    BY Differ DEF InterruptsInv, Serving
  <2>2. Head(<<"panic">>) # "EOI"
    OBVIOUS
  <2>3. handler # <<"panic">> =>
          pic.slave.isr = {} /\ (pic.master.isr = {} \/ pic.master.isr = {1})
    BY DEF InterruptsInv, Serving
  <2> QED
    BY <2>1, <2>2, <2>3
<1> QED
  BY <1>1, InvariantHolds, PTL

\* The processor never takes a device for an exception (idt.c:43-49).
THEOREM DevicesStayAbove == Spec => DevicesAbove32
<1>1. InterruptsInv /\ [Next]_vars => [TakeInterrupt => Acknowledge.vector >= 32]_vars
  <2> SUFFICES ASSUME InterruptsInv, TakeInterrupt PROVE Acknowledge.vector >= 32
    OBVIOUS
  <2>1. Acknowledge.vector \in {33, 44}
    BY Acknowledged DEF TakeInterrupt
  <2> QED
    BY <2>1
<1> QED
  BY <1>1, InvariantHolds, PTL DEF Spec, DevicesAbove32
=============================================================================
