----------------------------- MODULE Interrupts -----------------------------
(***************************************************************************)
(* Setting up and taking interrupts: idt/idt.c programs the two 8259 PICs  *)
(* and the IDT, idt/interrupts.c handles what arrives, _start halts.       *)
(* The processor, the PICs and the keyboard controller are external; they  *)
(* do what the code's port accesses rely on.                               *)
(***************************************************************************)
EXTENDS Integers, Sequences, FiniteSets, SequencesExt

CONSTANTS
    Devices,      \* the request lines that ever rise, a subset of {0, 1, 12}
    Faults,       \* the exceptions the processor may raise once it halts
    MaxBytes      \* bound: the scan codes that arrive

ASSUME DevicesAssumption  == Devices \subseteq {0, 1, 12}
ASSUME FaultsAssumption   == Faults \subseteq 0 .. 31
ASSUME MaxBytesAssumption == MaxBytes \in Nat

VARIABLES
    pc,           \* index into create_idt's program, one past it in _start
    iflag,        \* the processor's interrupt flag
    gates,        \* vectors whose IDT entry has been written
    idtLoaded,    \* lidt has been executed
    handler,      \* what the running handler has still to do; << >> if none
    state,        \* "running", "panic" (cli; hlt for ever) or "reset"
    pic,          \* the two PICs
    saved,        \* remap_interrupts_for_io's two saved masks
    kbc,          \* the keyboard controller: [arrived, full]
    served,       \* history: the scan codes the handler has read
    stuck         \* history: one was in the controller when ICW1 came, which
                  \* forgets its request

vars == <<pc, iflag, gates, idtLoaded, handler, state, pic, saved, kbc, served, stuck>>

vars_cpu == <<pc, iflag, gates, idtLoaded, handler, state, saved, served>>

Line == 0 .. 7

Chip == [imr : SUBSET Line, irr : SUBSET Line, isr : SUBSET Line,
         base : {8, 32, 40, 112}, icw : {0, 2, 3, 4}]

-----------------------------------------------------------------------------
(* The 8259 (external).                                                    *)

\* The requests a chip may pass on: unmasked, and above all in service.
Eligible(c) == {i \in c.irr \ c.imr : \A j \in c.isr : i < j}

\* The master sees the slave's requests on its line 2.
MasterView ==
    IF Eligible(pic.slave) = {} THEN pic.master
    ELSE [pic.master EXCEPT !.irr = @ \cup {2}]

Requesting == pic.master.icw = 0 /\ Eligible(MasterView) # {}

\* ICW1 starts the four-word initialisation and forgets masks and requests.
Command(c, value) ==
    CASE value = "ICW1" -> [c EXCEPT !.icw = 2, !.imr = {}, !.irr = {}, !.isr = {}]
      [] value = "EOI"  -> [c EXCEPT !.isr = IF @ = {} THEN @ ELSE @ \ {Min(@)}]

WriteData(c, value) ==
    CASE c.icw = 0 -> [c EXCEPT !.imr = value]
      [] c.icw = 2 -> [c EXCEPT !.icw = 3, !.base = value]
      [] c.icw = 3 -> [c EXCEPT !.icw = 4]
      [] c.icw = 4 -> [c EXCEPT !.icw = 0]

\* Acknowledge: the vector, and the chips with that request in service.
Accept(c, i) == [c EXCEPT !.irr = @ \ {i}, !.isr = @ \cup {i}]

Acknowledge ==
    LET i == Min(Eligible(MasterView))
        j == Min(Eligible(pic.slave))
    IN  IF i = 2
          THEN [vector |-> pic.slave.base + j,
                pic |-> [master |-> Accept(pic.master, 2),
                         slave  |-> Accept(pic.slave, j)]]
          ELSE [vector |-> pic.master.base + i,
                pic |-> [pic EXCEPT !.master = Accept(@, i)]]

\* A rising request line; line 12 is the slave's line 4.
RaiseLine(p, line) ==
    IF line < 8 THEN [p EXCEPT !.master.irr = @ \cup {line}]
    ELSE [p EXCEPT !.slave.irr = @ \cup {line - 8}]

-----------------------------------------------------------------------------
(* The code: one instruction is one step.                                   *)

Gate(v)         == [op |-> "gate", vector |-> v]
Out(chip, v)    == [op |-> "command", chip |-> chip, value |-> v]
Data(chip, v)   == [op |-> "data", chip |-> chip, value |-> v]
Save(chip)      == [op |-> "save", chip |-> chip]
Restore(chip)   == [op |-> "restore", chip |-> chip]

\* Mutant of MasterMask: the keyboard's line stays masked.
MasterMask_NoKeyboard == Line \ {2}

\* create_idt's masks, 0b11111001 and 0b11101111: IRQ 1, IRQ 2 (the cascade)
\* and IRQ 12 stay open.
MasterMask == Line \ {1, 2}
SlaveMask  == Line \ {4}

\* Mutant of CreateEntries: no gate for the double fault.
CreateEntries_No8 == [j \in 1 .. 5 |-> Gate(<<14, 0, 13, 33, 105>>[j])]

CreateEntries == [j \in 1 .. 6 |-> Gate(<<14, 0, 8, 13, 33, 105>>[j])]

\* Mutant of the remapping: the master's ICW2 and ICW3 swapped.
remap_Swapped ==
    << Save("master"), Save("slave"),
       Out("master", "ICW1"), Out("slave", "ICW1"),
       Data("master", 4), Data("slave", 40),
       Data("master", 32), Data("slave", 2),
       Data("master", 1), Data("slave", 1),
       Restore("master"), Restore("slave") >>

remap_interrupts_for_io ==
    << Save("master"), Save("slave"),
       Out("master", "ICW1"), Out("slave", "ICW1"),
       Data("master", 32), Data("slave", 40),
       Data("master", 4), Data("slave", 2),
       Data("master", 1), Data("slave", 1),
       Restore("master"), Restore("slave") >>

\* Mutant of create_idt: the PICs are not remapped.
create_idt_NoRemap ==
    CreateEntries \o << [op |-> "lidt"] >>
    \o << Data("master", MasterMask), Data("slave", SlaveMask), [op |-> "sti"] >>

create_idt ==
    CreateEntries \o << [op |-> "lidt"] >> \o remap_interrupts_for_io
    \o << Data("master", MasterMask), Data("slave", SlaveMask), [op |-> "sti"] >>

InStart == pc > Len(create_idt)

\* Mutants of Keyboard_Handler: the port is read twice; no EOI is sent.
Keyboard_Handler_ReadsTwice == <<"inb", "inb", "EOI", "EOI", "iret">>
Keyboard_Handler_NoEoi == <<"inb", "iret">>

\* Keyboard_Handler: HandleKeyboard ends with an EOI of its own, and
\* PIC_EndMaster sends a second one.
Keyboard_Handler == <<"inb", "EOI", "EOI", "iret">>

\* The five exception handlers all call panic; Test_Handler prints and returns.
HandlerOf(v) ==
    CASE v = 33  -> Keyboard_Handler
      [] v = 105 -> <<"iret">>
      [] OTHER   -> <<"panic">>

\* One instruction of create_idt; an exception cannot occur in it.
Instruction ==
    /\ state = "running" /\ handler = << >> /\ ~ InStart
    /\ LET ins == create_idt[pc] IN
        /\ pc' = pc + 1
        /\ gates' = IF ins.op = "gate" THEN gates \cup {ins.vector} ELSE gates
        /\ idtLoaded' = (idtLoaded \/ ins.op = "lidt")
        /\ iflag' = (iflag \/ ins.op = "sti")
        /\ saved' = IF ins.op = "save"
                      THEN [saved EXCEPT ![ins.chip] = pic[ins.chip].imr]
                      ELSE saved
        /\ pic' = CASE ins.op = "command" ->
                         [pic EXCEPT ![ins.chip] = Command(@, ins.value)]
                    [] ins.op = "data" ->
                         [pic EXCEPT ![ins.chip] = WriteData(@, ins.value)]
                    [] ins.op = "restore" ->
                         [pic EXCEPT ![ins.chip] = WriteData(@, saved[ins.chip])]
                    [] OTHER -> pic
        /\ stuck' = (stuck \/ (ins.op = "command" /\ ins.chip = "master" /\ kbc.full # 0))
    /\ UNCHANGED <<handler, state, kbc, served>>

\* Vector v is taken through the IDT.  An entry never written is not present:
\* that fault (vector 11) has no entry either, which makes a double fault;
\* without an entry for that the processor resets.
Dispatch(v) ==
    LET u == IF v \in gates THEN v ELSE IF 11 \in gates THEN 11 ELSE 8
    IN  IF idtLoaded /\ u \in gates
          THEN handler' = HandlerOf(u) /\ state' = state
          ELSE handler' = << >> /\ state' = "reset"

\* An interrupt between two instructions; every gate is an interrupt gate
\* (int_ta_gate), so the flag is cleared.
TakeInterrupt ==
    /\ state = "running" /\ handler = << >> /\ iflag /\ Requesting
    /\ iflag' = FALSE
    /\ pic' = Acknowledge.pic
    /\ Dispatch(Acknowledge.vector)
    /\ UNCHANGED <<pc, gates, idtLoaded, saved, kbc, served, stuck>>

\* An exception, anywhere in _start or the code it calls.
TakeFault(v) ==
    /\ state = "running" /\ handler = << >> /\ InStart
    /\ iflag' = FALSE
    /\ Dispatch(v)
    /\ UNCHANGED <<pc, gates, idtLoaded, saved, pic, kbc, served, stuck>>

\* Reading port 0x60 empties the controller's buffer, and the next byte it
\* holds raises IRQ 1 again.
ReadScancode ==
    /\ handler # << >> /\ Head(handler) = "inb"
    /\ handler' = Tail(handler)
    /\ served' = Append(served, kbc.full)
    /\ LET next == kbc.full + 1 IN
        IF kbc.full # 0 /\ next <= kbc.arrived
          THEN kbc' = [kbc EXCEPT !.full = next] /\ pic' = RaiseLine(pic, 1)
          ELSE kbc' = [kbc EXCEPT !.full = 0] /\ UNCHANGED pic
    /\ UNCHANGED <<pc, iflag, gates, idtLoaded, state, saved, stuck>>

SendEoi ==
    /\ handler # << >> /\ Head(handler) = "EOI"
    /\ handler' = Tail(handler)
    /\ pic' = [pic EXCEPT !.master = Command(@, "EOI")]
    /\ UNCHANGED <<pc, iflag, gates, idtLoaded, state, saved, kbc, served, stuck>>

Iret ==
    /\ handler # << >> /\ Head(handler) = "iret"
    /\ handler' = Tail(handler)
    /\ iflag' = TRUE
    /\ UNCHANGED <<pc, gates, idtLoaded, state, saved, pic, kbc, served, stuck>>

\* panic.c: print, then cli; hlt for ever.
Panic ==
    /\ handler # << >> /\ Head(handler) = "panic"
    /\ handler' = << >>
    /\ state' = "panic"
    /\ UNCHANGED <<pc, iflag, gates, idtLoaded, saved, pic, kbc, served, stuck>>

-----------------------------------------------------------------------------
(* The devices (external).                                                 *)

\* A scan code arrives; it raises IRQ 1 if the controller's buffer was empty.
KeyArrives ==
    /\ 1 \in Devices /\ kbc.arrived < MaxBytes
    /\ kbc' = [arrived |-> kbc.arrived + 1,
               full |-> IF kbc.full = 0 THEN kbc.arrived + 1 ELSE kbc.full]
    /\ pic' = IF kbc.full = 0 THEN RaiseLine(pic, 1) ELSE pic
    /\ UNCHANGED <<vars_cpu, stuck>>

\* The timer and the mouse.
LineRises(line) ==
    /\ line \in Devices \ {1}
    /\ pic' = RaiseLine(pic, line)
    /\ UNCHANGED <<vars_cpu, kbc, stuck>>

\* As the boot loader leaves the machine: interrupts off, its own IDT, the
\* PICs at the firmware's vectors, masked or not.
Init ==
    /\ pc = 1
    /\ iflag = FALSE
    /\ gates = {}
    /\ idtLoaded = FALSE
    /\ handler = << >>
    /\ state = "running"
    /\ \E m \in {{}, Line} :
        pic = [master |-> [imr |-> m, irr |-> {}, isr |-> {}, base |-> 8, icw |-> 0],
               slave  |-> [imr |-> m, irr |-> {}, isr |-> {}, base |-> 112, icw |-> 0]]
    /\ saved = [master |-> {}, slave |-> {}]
    /\ kbc = [arrived |-> 0, full |-> 0]
    /\ served = << >>
    /\ stuck = FALSE

Processor ==
    Instruction \/ TakeInterrupt \/ ReadScancode \/ SendEoi \/ Iret \/ Panic

Next ==
    \/ Processor
    \/ \E v \in Faults : TakeFault(v)
    \/ KeyArrives
    \/ \E line \in Devices : LineRises(line)

\* The processor always gets on, and takes an interrupt that stays pending
\* while it may; nothing is assumed of the devices.
Spec == Init /\ [][Next]_vars /\ WF_vars(Processor)

-----------------------------------------------------------------------------
(* Properties.                                                             *)

\* Every variable has its type.
TypeOK ==
    /\ pc \in 1 .. (Len(create_idt) + 1)
    /\ iflag \in BOOLEAN /\ idtLoaded \in BOOLEAN /\ stuck \in BOOLEAN
    /\ gates \subseteq 0 .. 255
    /\ handler \in Seq({"inb", "EOI", "iret", "panic"})
    /\ state \in {"running", "panic", "reset"}
    /\ pic \in [master : Chip, slave : Chip]
    /\ saved \in [master : SUBSET Line, slave : SUBSET Line]
    /\ kbc \in [arrived : 0 .. MaxBytes, full : 0 .. MaxBytes]
    /\ served \in Seq(0 .. MaxBytes)

\* A device never lands on an exception's vector, and none is taken before
\* the PICs are programmed: sti comes after the remapping (idt.c:43-49).
DevicesAbove32 ==
    [][TakeInterrupt => Acknowledge.vector >= 32]_vars

\* Whatever interrupt or exception arrives once the IDT is loaded, the
\* machine never resets: the double-fault gate catches every vector that
\* create_idt leaves without one (idt.c:36-43).
NeverResets == state # "reset"

\* Every byte the handler reads is the next one of the keyboard: none is read
\* twice, none is skipped, and none is made up when the buffer is empty
\* (interrupts.c:29-33, keyboard.c:59-62).
BytesInOrder == \A j \in DOMAIN served : served[j] = j

\* No request stays in service once its handler has returned, so the next one
\* gets through; and none but the keyboard's own is in service when an EOI is
\* sent, so the second one retires nothing (keyboard.c:62, interrupts.c:32, 40).
NothingInService ==
    state = "running" =>
        /\ handler = << >> => pic.master.isr = {} /\ pic.slave.isr = {}
        /\ handler # << >> /\ Head(handler) = "EOI" =>
            pic.master.isr \subseteq {1} /\ pic.slave.isr = {}

\* Every scan code that arrives after the PIC was reset is read in the end,
\* unless the machine panics or a byte was in the controller at that reset
\* (init.c:37; nothing drains port 0x60 before sti).
KeysServed ==
    \A n \in 1 .. MaxBytes :
        (kbc.arrived >= n) ~> (Len(served) >= n \/ state = "panic" \/ stuck)
=============================================================================
