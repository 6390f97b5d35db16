----------------------------- MODULE Interrupts -----------------------------
(***************************************************************************)
(* Interrupts of the archived kernel (interrupts.cpp and                   *)
(* interrupts_lowlevel.asm): how they are set up between the boot's cli    *)
(* and the sti of interrupts_install, and how an IRQ goes from a device    *)
(* through the two interrupt controllers to the handler and back.  The     *)
(* keyboard is followed to the end: every scancode from the key to the     *)
(* console.                                                                *)
(*                                                                         *)
(* What the handler prints is not of interest here, except for the         *)
(* scancode; module Console is about the printing.                         *)
(***************************************************************************)
EXTENDS Pic8259, Sequences

CONSTANTS
    Code,            \* scancodes
    MaxKeys,         \* bound on the keys typed in a behaviour; the buffer of
                     \* a real keyboard holds 16
    LeaderDevices,   \* lines of the first controller other devices raise
    FollowerDevices  \* lines of the second one

KEYBOARD == 1        \* the keyboard's line, of the first controller
CASCADE  == 2        \* the line of the first the second is wired to

ASSUME InterruptsAssumption ==
    /\ MaxKeys \in Nat
    /\ LeaderDevices \subseteq Lines \ {KEYBOARD, CASCADE}
    /\ FollowerDevices \subseteq Lines

VARIABLES
    ip,        \* the next instruction of interrupts_install
    gates,     \* vectors for which set_idt_gate was called
    idtr,      \* lidt was executed
    iflag,     \* the processor's interrupt flag
    shadow,    \* sti was the last instruction: it takes effect after the next
    inta,      \* the processor has accepted an interrupt and asks which
    leader,    \* the first controller
    follower,  \* the second
    stack,     \* the handlers that run, the innermost last
    keyboard,  \* scancodes the keyboard has not handed over
    output,    \* the output buffer of the keyboard controller, port 0x60
    typed,     \* history: every scancode, in the order of the keys
    shown,     \* history: every scancode the handler has printed
    early      \* history: a scancode came before the controllers' reset

vars == <<ip, gates, idtr, iflag, shadow, inta, leader, follower, stack,
          keyboard, output, typed, shown, early>>
pics == <<leader, follower>>
keys == <<keyboard, output, typed, shown, early>>
cpu  == <<ip, gates, idtr, iflag, shadow, inta, stack>>

\* interrupts_install and what it calls, as far as it has an effect.
Gates(vectors)      == [op |-> "gates", set |-> vectors]
Out(chip, port, byte) == [op |-> "out", chip |-> chip, port |-> port, byte |-> byte]
Do(op)              == [op |-> op]

\* Mutant: the vectors of the first controller stay where the BIOS had them.
RemapBiosVectors ==
         << Out("leader",   "command", 17), Out("follower", "command", 17),
            Out("leader",   "data", 8),     Out("follower", "data", 40),
            Out("leader",   "data", 4),     Out("follower", "data", 2),
            Out("leader",   "data", 1),     Out("follower", "data", 1),
            Out("leader",   "data", 1),     Out("follower", "data", 1) >>

\* Mutant: the environment word is forgotten, the mask is taken for it.
RemapNoEnvironment ==
         << Out("leader",   "command", 17), Out("follower", "command", 17),
            Out("leader",   "data", 32),    Out("follower", "data", 40),
            Out("leader",   "data", 4),     Out("follower", "data", 2),
            Out("leader",   "data", 1),     Out("follower", "data", 1) >>

Remap == << Out("leader",   "command", 17),   \* 0x11: restart
            Out("follower", "command", 17),
            Out("leader",   "data", 32),      \* vectors from 32
            Out("follower", "data", 40),      \* vectors from 40
            Out("leader",   "data", 4),       \* cascading
            Out("follower", "data", 2),
            Out("leader",   "data", 1),       \* environment
            Out("follower", "data", 1),
            Out("leader",   "data", 1),       \* mask
            Out("follower", "data", 1) >>

\* Mutant: interrupts are turned on before the gates of the IRQs are set.
InstallStiFirst == <<Gates(0 .. 31)>> \o Remap
             \o <<Do("sti"), Do("lidt"), Gates(32 .. 47), Do("lidt"), Do("ret")>>

Install == <<Gates(0 .. 31)>> \o Remap
             \o <<Gates(32 .. 47), Do("lidt"), Do("lidt"), Do("sti"), Do("ret")>>

\* The first controller is reset by the second instruction.
BeforeReset == ip <= 2

Phase == {"entry", "eoi_follower", "eoi_leader", "read", "show", "sti", "iretq"}

Init == /\ ip = 1 /\ gates = {} /\ idtr = FALSE
        /\ iflag = FALSE /\ shadow = FALSE /\ inta = FALSE   \* after switch_to_pm's cli
        /\ leader   = [icw |-> 0, base |-> 8,   imr |-> {}, irr |-> {}, isr |-> {}]
        /\ follower = [icw |-> 0, base |-> 112, imr |-> {}, irr |-> {}, isr |-> {}]
        /\ stack = <<>>
        /\ keyboard = <<>>
        /\ output \in [full : {FALSE}, code : Code]
        /\ typed = <<>> /\ shown = <<>> /\ early = FALSE
-----------------------------------------------------------------------------
(* Setting up, in the main flow.                                           *)

InstallStep ==
    /\ stack = <<>> /\ ~inta
    /\ ip <= Len(Install)
    /\ ip' = ip + 1
    /\ LET ins == Install[ip] IN
       /\ gates' = IF ins.op = "gates" THEN gates \union ins.set ELSE gates
       /\ idtr'  = (idtr \/ ins.op = "lidt")
       /\ iflag' = (iflag \/ ins.op = "sti")
       /\ shadow' = (ins.op = "sti")
       /\ leader' = IF ins.op = "out" /\ ins.chip = "leader"
                    THEN IF ins.port = "command" THEN Command(leader, ins.byte)
                                                 ELSE Data(leader, ins.byte)
                    ELSE leader
       /\ follower' = IF ins.op = "out" /\ ins.chip = "follower"
                      THEN IF ins.port = "command" THEN Command(follower, ins.byte)
                                                   ELSE Data(follower, ins.byte)
                      ELSE follower
    /\ UNCHANGED <<inta, stack>> /\ UNCHANGED keys
-----------------------------------------------------------------------------
(* The hardware.                                                           *)

\* A key is pressed or released.
Type == /\ Len(typed) < MaxKeys
        /\ \E c \in Code : /\ typed' = Append(typed, c)
                           /\ keyboard' = Append(keyboard, c)
        /\ UNCHANGED <<output, shown, early>> /\ UNCHANGED cpu /\ UNCHANGED pics

\* The keyboard hands a scancode over as soon as the last one was read, and
\* its line rises.
Transfer == /\ keyboard # <<>> /\ ~output.full
            /\ output' = [full |-> TRUE, code |-> Head(keyboard)]
            /\ keyboard' = Tail(keyboard)
            /\ leader' = Raise(leader, KEYBOARD)
            /\ early' = (early \/ BeforeReset)
            /\ UNCHANGED <<typed, shown, follower>> /\ UNCHANGED cpu

\* Other devices raise their lines at any time, and may lower them again
\* before they are served.
DeviceRaises ==
    /\ \/ \E line \in LeaderDevices :
            leader' = Raise(leader, line) /\ follower' = follower
       \/ \E line \in FollowerDevices :
            follower' = Raise(follower, line) /\ leader' = leader
    /\ UNCHANGED cpu /\ UNCHANGED keys

DeviceLowers ==
    /\ \/ \E line \in LeaderDevices :
            leader' = Lower(leader, line) /\ follower' = follower
       \/ \E line \in FollowerDevices :
            follower' = Lower(follower, line) /\ leader' = leader
    /\ UNCHANGED cpu /\ UNCHANGED keys

\* The output of the follower is a line of the leader.
LeaderRequests ==
    Pending(leader, leader.irr \union
                    IF Pending(follower, follower.irr) # {} THEN {CASCADE} ELSE {})

\* Between two instructions the processor sees the leader's request ...
Accept == /\ iflag /\ ~shadow /\ ~inta
          /\ LeaderRequests # {}
          /\ inta' = TRUE
          /\ UNCHANGED <<ip, gates, idtr, iflag, shadow, stack>>
          /\ UNCHANGED pics /\ UNCHANGED keys

\* ... and asks for the vector.  When the request is gone by then, line 7 is
\* reported and not marked as in service.  The gates are interrupt gates: the
\* handler starts with the interrupt flag off.
Acknowledge ==
    /\ inta
    /\ LET requests == LeaderRequests
           line == Highest(requests)
           inner == Highest(Pending(follower, follower.irr))
           vector == IF requests = {} THEN leader.base + 7
                     ELSE IF line = CASCADE THEN follower.base + inner
                     ELSE leader.base + line
       IN  /\ leader' = IF requests = {} THEN leader ELSE Acknowledged(leader, line)
           /\ follower' = IF requests # {} /\ line = CASCADE
                          THEN Acknowledged(follower, inner) ELSE follower
           /\ stack' = Append(stack, [vector |-> vector, pc |-> "entry",
                                      keycode |-> output.code])
    /\ inta' = FALSE
    /\ iflag' = FALSE
    /\ UNCHANGED <<ip, gates, idtr, shadow>> /\ UNCHANGED keys
-----------------------------------------------------------------------------
(* asm_irqN, irq_common_stub and interupt_request_line_handler.            *)

Top == stack[Len(stack)]
Running(phase) == stack # <<>> /\ ~inta /\ Top.pc = phase
Goto(phase) == stack' = [stack EXCEPT ![Len(stack)].pc = phase]

\* The stub pushes the number of the line and the vector.
IrqNumber == Top.vector - 32

\* Mutant: the number of the line is compared with the first vector.
EntryComparesLine ==
         /\ Running("entry")
         /\ iflag' = FALSE
         /\ Goto(IF IrqNumber >= 40 THEN "eoi_follower" ELSE "eoi_leader")
         /\ UNCHANGED <<ip, gates, idtr, shadow, inta>>
         /\ UNCHANGED pics /\ UNCHANGED keys

\* asm_irqN starts with a cli of its own.
Entry == /\ Running("entry")
         /\ iflag' = FALSE
         /\ Goto(IF Top.vector >= 40 THEN "eoi_follower" ELSE "eoi_leader")
         /\ UNCHANGED <<ip, gates, idtr, shadow, inta>>
         /\ UNCHANGED pics /\ UNCHANGED keys

\* Mutant: either the one controller is told or the other.
EoiFollowerOnly ==
               /\ Running("eoi_follower")
               /\ follower' = Command(follower, EOI)
               /\ Goto("sti")
               /\ UNCHANGED <<ip, gates, idtr, iflag, shadow, inta, leader>>
               /\ UNCHANGED keys

EoiFollower == /\ Running("eoi_follower")
               /\ follower' = Command(follower, EOI)
               /\ Goto("eoi_leader")
               /\ UNCHANGED <<ip, gates, idtr, iflag, shadow, inta, leader>>
               /\ UNCHANGED keys

\* Mutant: the interrupt is not ended.
EoiLeaderForgotten ==
             /\ Running("eoi_leader")
             /\ Goto(IF IrqNumber = KEYBOARD THEN "read" ELSE "sti")
             /\ UNCHANGED <<ip, gates, idtr, iflag, shadow, inta, pics>>
             /\ UNCHANGED keys

\* Mutant: the keyboard is read whatever the IRQ.
EoiLeaderAlwaysReads ==
             /\ Running("eoi_leader")
             /\ leader' = Command(leader, EOI)
             /\ Goto("read")
             /\ UNCHANGED <<ip, gates, idtr, iflag, shadow, inta, follower>>
             /\ UNCHANGED keys

EoiLeader == /\ Running("eoi_leader")
             /\ leader' = Command(leader, EOI)
             /\ Goto(IF IrqNumber = KEYBOARD THEN "read" ELSE "sti")
             /\ UNCHANGED <<ip, gates, idtr, iflag, shadow, inta, follower>>
             /\ UNCHANGED keys

\* Port 0x60: reading it makes room for the next scancode.
Read == /\ Running("read")
        /\ stack' = [stack EXCEPT ![Len(stack)] =
                        [@ EXCEPT !.pc = "show", !.keycode = output.code]]
        /\ output' = [output EXCEPT !.full = FALSE]
        /\ UNCHANGED <<ip, gates, idtr, iflag, shadow, inta, keyboard, typed,
                       shown, early>>
        /\ UNCHANGED pics

Show == /\ Running("show")
        /\ shown' = Append(shown, Top.keycode)
        /\ Goto("sti")
        /\ UNCHANGED <<ip, gates, idtr, iflag, shadow, inta, keyboard, output,
                       typed, early>>
        /\ UNCHANGED pics

\* Mutant: another instruction stands between sti and iretq.
StiThenNop ==
       /\ Running("sti")
       /\ iflag' = TRUE /\ shadow' = FALSE
       /\ Goto("iretq")
       /\ UNCHANGED <<ip, gates, idtr, inta>> /\ UNCHANGED pics /\ UNCHANGED keys

Sti == /\ Running("sti")
       /\ iflag' = TRUE /\ shadow' = TRUE
       /\ Goto("iretq")
       /\ UNCHANGED <<ip, gates, idtr, inta>> /\ UNCHANGED pics /\ UNCHANGED keys

\* The flags it restores are those of the interrupted code, where the
\* interrupt flag was on.
Iretq == /\ Running("iretq")
         /\ iflag' = TRUE /\ shadow' = FALSE
         /\ stack' = SubSeq(stack, 1, Len(stack) - 1)
         /\ UNCHANGED <<ip, gates, idtr, inta>> /\ UNCHANGED pics /\ UNCHANGED keys

Handler == Entry \/ EoiFollower \/ EoiLeader \/ Read \/ Show \/ Sti \/ Iretq
Devices == Type \/ Transfer \/ DeviceRaises \/ DeviceLowers

Next == InstallStep \/ Accept \/ Acknowledge \/ Handler \/ Devices

Spec == Init /\ [][Next]_vars

\* The processor executes, samples the request between instructions, and the
\* keyboard hands over; nobody need type, and no device need raise its line.
FairSpec == /\ Spec
            /\ WF_vars(InstallStep) /\ WF_vars(Handler)
            /\ WF_vars(Accept) /\ WF_vars(Acknowledge)
            /\ WF_vars(Transfer)
-----------------------------------------------------------------------------
(* Properties.                                                             *)

HandlerFrame == [vector : 32 .. 47, pc : Phase, keycode : Code]

\* Types.  A handler only ever runs for a vector of the remapped controllers,
\* so that no IRQ is taken for an exception.
TypeOK == /\ ip \in 1 .. Len(Install) + 1
          /\ gates \subseteq 0 .. 255
          /\ idtr \in BOOLEAN /\ inta \in BOOLEAN /\ early \in BOOLEAN
          /\ iflag \in BOOLEAN /\ shadow \in BOOLEAN
          /\ leader \in Chip /\ follower \in Chip
          /\ stack \in Seq(HandlerFrame)
          /\ keyboard \in Seq(Code) /\ typed \in Seq(Code) /\ shown \in Seq(Code)
          /\ output \in [full : BOOLEAN, code : Code]

\* No interrupt is taken before its gate is set and the table is loaded
\* (interrupts.cpp 245-329): sti comes last.
OnlyInstalledVectors ==
    \A k \in 1 .. Len(stack) : idtr /\ stack[k].vector \in gates

\* Handlers do not nest, although each of them turns interrupts on before it
\* returns (interrupts_lowlevel.asm 95-96) and ends the interrupt first of all
\* (interrupts.cpp 168-171): the stack needs room for one.
HandlersDoNotNest == Len(stack) <= 1

\* Between handlers nothing is in service in either controller, also when the
\* request was withdrawn or came through the cascade (interrupts.cpp 168-171):
\* a bit left over would block all lines of lower priority for good.
NothingInServiceAtRest ==
    stack = <<>> => leader.isr = {} /\ follower.isr = {}

\* The timer and the clock of the PC are masked (interrupts.cpp 288-289) and
\* their handlers never run, although their lines rise all the time.
MaskedLinesAreSilent ==
    \A k \in 1 .. Len(stack) : stack[k].vector \notin {32, 40}

\* Scancodes on their way: read but not printed, in the output buffer, and in
\* the keyboard.
InHandler == IF stack # <<>> /\ Top.pc = "show" THEN <<Top.keycode>> ELSE <<>>
InOutput  == IF output.full THEN <<output.code>> ELSE <<>>

\* No scancode is lost, printed twice or overtaken, although the interrupt is
\* ended before the scancode is read (interrupts.cpp 171-186).
ScancodesInOrder == typed = shown \o InHandler \o InOutput \o keyboard

\* Every key is printed in the end, provided that no scancode came between
\* the cli of the boot and the reset of the controllers.
KeysAreShown ==
    [](~early) => \A n \in 1 .. MaxKeys : Len(typed) >= n ~> Len(shown) >= n

\* The same without the proviso: "Keyboard interrupts are caught and show"
\* (archived_efforts/README.md:23).
EveryKeyIsShown ==
    \A n \in 1 .. MaxKeys : Len(typed) >= n ~> Len(shown) >= n

\* A request of the second controller is served, or given up by its device:
\* the keyboard's line has the higher priority, but nobody types for ever.
FollowerServed ==
    \A line \in FollowerDevices \ {0} :
        line \in follower.irr ~> line \notin follower.irr
=============================================================================
