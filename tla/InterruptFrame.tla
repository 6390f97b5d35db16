--------------------------- MODULE InterruptFrame ---------------------------
(***************************************************************************)
(* What an interrupt does to the stack and the registers of the archived   *)
(* kernel: the processor's delivery through the gates that set_idt_gate    *)
(* writes (interrupts.cpp), the stubs of interrupts_lowlevel.asm around    *)
(* the C handlers, and the return to the code that was interrupted, which  *)
(* may itself be a handler.                                                *)
(*                                                                         *)
(* Words are tagged pairs; the stack is a function of word addresses and   *)
(* grows down.  Which lines the controllers raise, and the devices, are    *)
(* the subject of Interrupts.                                              *)
(***************************************************************************)
EXTENDS Integers, Sequences

CONSTANTS
    Exceptions,   \* vectors of the faults that C code of the kernel may cause
    Irqs,         \* numbers of the interrupt requests
    ErrorCodes,   \* error codes the processor gives
    StubAddress,  \* the address of each vector's stub, asm_isr<n> or asm_irq<n>
    HALF,         \* values of a 16-bit field of a gate
    STACK,        \* words of the stack
    RED_ZONE,     \* words below the stack pointer that a leaf function uses
    MaxDepth      \* bound on interruptions inside one another

NMI == 2
Vectors == Exceptions \union {NMI} \union {32 + n : n \in Irqs}

\* The exceptions for which the processor pushes an error code.
WithErrorCode == {8, 10, 11, 12, 13, 14, 17, 21, 29, 30}

ASSUME FrameAssumption ==
    /\ Exceptions \subseteq 0 .. 31 /\ Irqs \subseteq 0 .. 15
    /\ HALF \in Nat \ {0}
    /\ \A v \in Vectors : StubAddress[v] \in 0 .. HALF * HALF * HALF * HALF - 1
    /\ \A v, w \in Vectors : StubAddress[v] = StubAddress[w] => v = w
    /\ STACK \in Nat /\ RED_ZONE \in Nat /\ MaxDepth \in Nat
    \* These are no faults of code that runs in ring 0 without CET and SEV.
    /\ Exceptions \intersect {17, 21, 29, 30} = {}

\* The stack has room for them: a delivery takes at most sixteen words, with
\* those of its stub, and a handler two more.
ASSUME StackAssumption == STACK >= 16 * MaxDepth + 4

VARIABLES
    mem,          \* the words of the stack
    rsp,          \* the last word pushed
    reg,          \* the registers pushaq saves, and the data segments
    rip,          \* whose code runs, and where in it
    if,           \* the interrupt flag
    shadow,       \* sti has just been executed: no request until one more step
    nmi_blocked,  \* from an NMI to the next iretq
    interrupted   \* history: what was interrupted, the last one first

vars == <<mem, rsp, reg, rip, if, shadow, nmi_blocked, interrupted>>

Num(n) == <<"num", n>>
Junk   == <<"junk", "-">>
Local  == <<"local", "-">>

Pushaq == <<"rax", "rcx", "rdx", "rbx", "rbp", "rsi", "rdi">>
Registers == {Pushaq[i] : i \in 1 .. 7} \union {"ds", "es"}

\* The registers a C function need not preserve, of those the stubs save.
CallerSaved == {"rax", "rcx", "rdx", "rsi", "rdi"}

\* The words ws pushed, the first of them first, on the stack m at sp.
Pushed(m, sp, ws) ==
    [a \in DOMAIN m |-> IF a \in sp - Len(ws) .. sp - 1 THEN ws[sp - a] ELSE m[a]]

Push(ws) == mem' = Pushed(mem, rsp, ws) /\ rsp' = rsp - Len(ws)

----------------------------------------------------------------------------
(* The gates. *)

lowest_16(a)       == a % HALF
secondlowest_16(a) == (a \div HALF) % HALF
high_32(a)         == (a \div (HALF * HALF)) % (HALF * HALF)

\* Mutant: the two low fields are swapped.
GateSwapped(a) == [low_offset |-> secondlowest_16(a), middle_offset |-> lowest_16(a),
                   high_offset |-> high_32(a), flags |-> "interrupt gate"]

\* 0x8E makes it an interrupt gate: the processor clears the interrupt flag.
set_idt_gate(a) == [low_offset |-> lowest_16(a), middle_offset |-> secondlowest_16(a),
                    high_offset |-> high_32(a), flags |-> "interrupt gate"]

s_idt == [v \in Vectors |-> set_idt_gate(StubAddress[v])]

\* The offset the processor puts together from a gate.
Offset(gate) == gate.low_offset + HALF * gate.middle_offset
                    + HALF * HALF * gate.high_offset

\* The code at an address: the stub that begins there, or nothing known.
CodeAt(a) == IF \E v \in Vectors : StubAddress[v] = a
             THEN <<"stub", CHOOSE v \in Vectors : StubAddress[v] = a, "entry">>
             ELSE <<"nowhere", 0, "entry">>

----------------------------------------------------------------------------
(* The processor. *)

Init ==
    /\ rsp \in {STACK, STACK - 1}
    /\ mem = [a \in 1 .. STACK |-> Junk]
    /\ reg = [r \in Registers |-> IF r \in {"ds", "es"} THEN <<"data", "-">> ELSE <<"main", r>>]
    /\ rip = <<"main", 0, "plain">>
    /\ if = TRUE /\ shadow = FALSE /\ nmi_blocked = FALSE
    /\ interrupted = <<>>

InC == rip[1] = "main" \/ rip[3] = "handler"

\* The stack pointer is rounded down to 16 bytes, two words, then five words
\* are pushed, and an error code with those vectors that have one.
Deliver(v, code) ==
    LET aligned == 2 * (rsp \div 2)
        frame == <<<<"ss", "-">>, Num(rsp), <<"rflags", if>>, <<"cs", "-">>, rip>>
                 \o (IF v \in WithErrorCode THEN <<Num(code)>> ELSE <<>>)
    IN  /\ Len(interrupted) < MaxDepth
        /\ mem' = Pushed(mem, aligned, frame)
        /\ rsp' = aligned - Len(frame)
        /\ rip' = CodeAt(Offset(s_idt[v]))
        /\ if' = FALSE /\ shadow' = FALSE
        /\ interrupted' = <<[vector |-> v, code |-> IF v \in WithErrorCode THEN code ELSE 0,
                             rsp |-> rsp, reg |-> reg, rip |-> rip, if |-> if]>> \o interrupted
        /\ UNCHANGED reg

\* A fault of the C code that runs, with the address of the faulting
\* instruction: it is executed again on return.
Fault == /\ InC
         /\ \E v \in Exceptions, code \in ErrorCodes :
               Deliver(v, code) /\ nmi_blocked' = (nmi_blocked \/ v = NMI)

Nmi == ~nmi_blocked /\ Deliver(NMI, 0) /\ nmi_blocked' = TRUE

Irq == /\ if /\ ~shadow
       /\ \E n \in Irqs : Deliver(32 + n, 0)
       /\ UNCHANGED nmi_blocked

----------------------------------------------------------------------------
(* The interrupted program. *)

\* The locals of a leaf function, which moves no stack pointer.
LeafWords == rsp - RED_ZONE .. rsp - 1

\* memory_copy, which print_char calls to scroll, begins: compiled without
\* -mno-red-zone it keeps its locals below the stack pointer, ...
EnterLeaf ==
    /\ rip = <<"main", 0, "plain">>
    /\ mem' = [a \in DOMAIN mem |-> IF a \in LeafWords THEN Local ELSE mem[a]]
    /\ rip' = <<"main", 0, "leaf">>
    /\ shadow' = FALSE
    /\ UNCHANGED <<rsp, reg, if, nmi_blocked, interrupted>>

\* ... and returns.
LeaveLeaf ==
    /\ rip = <<"main", 0, "leaf">>
    /\ rip' = <<"main", 0, "plain">>
    /\ shadow' = FALSE
    /\ UNCHANGED <<mem, rsp, reg, if, nmi_blocked, interrupted>>

----------------------------------------------------------------------------
(* The stubs. *)

InStub(stage) == rip[1] = "stub" /\ rip[3] = stage

\* The vector whose stub runs, and whether it is one of the asm_irq<n>.
Own == rip[2]
IsIrq == Own >= 32

GoTo(stage) == rip' = <<"stub", Own, stage>> /\ shadow' = FALSE

\* Mutant: the stubs of exceptions 10 to 14 push a zero like the others.
WordsOfEightOnly == IF IsIrq THEN <<Num(Own - 32), Num(Own)>>
                    ELSE IF Own = 8 THEN <<Num(Own)>> ELSE <<Num(0), Num(Own)>>

\* What a stub pushes: the request's number or a zero, unless an error code is
\* there already, and the vector.
StubWords == IF IsIrq THEN <<Num(Own - 32), Num(Own)>>
             ELSE IF Own \in {8, 10, 11, 12, 13, 14} THEN <<Num(Own)>>
             ELSE <<Num(0), Num(Own)>>

\* asm_isr<n>, asm_irq<n>: cli, and its words.
StubEntry ==
    /\ InStub("entry")
    /\ Push(StubWords)
    /\ if' = FALSE
    /\ GoTo("save")
    /\ UNCHANGED <<reg, nmi_blocked, interrupted>>

\* "1. Save CPU state": pushaq, the data segment, and the kernel's loaded.
Save ==
    /\ InStub("save")
    /\ Push([i \in 1 .. 8 |-> IF i = 8 THEN reg["ds"] ELSE reg[Pushaq[i]]])
    /\ reg' = [reg EXCEPT !["rax"] = <<"data", "-">>,
                          !["ds"] = <<"data", "-">>, !["es"] = <<"data", "-">>]
    /\ GoTo("handler")
    /\ UNCHANGED <<if, nmi_blocked, interrupted>>

\* The frame as interupt_service_request_handler and
\* interupt_request_line_handler see it: the struct isr_irq_handler_parameters.
Parameters ==
    [ds |-> mem[rsp], rdi |-> mem[rsp + 1], rsi |-> mem[rsp + 2], rbp |-> mem[rsp + 3],
     rbx |-> mem[rsp + 4], rdx |-> mem[rsp + 5], rcx |-> mem[rsp + 6],
     rax |-> mem[rsp + 7], int_no |-> mem[rsp + 8], code |-> mem[rsp + 9],
     eip |-> mem[rsp + 10], cs |-> mem[rsp + 11], eflags |-> mem[rsp + 12],
     useresp |-> mem[rsp + 13], ss |-> mem[rsp + 14]]

\* "2. Call C handler": it writes below the stack pointer and leaves what a
\* function may leave in the registers.
Handler ==
    /\ InStub("handler")
    /\ mem' = Pushed(mem, rsp, <<Junk, Junk>>)
    /\ reg' = [r \in Registers |-> IF r \in CallerSaved THEN Junk ELSE reg[r]]
    /\ GoTo("restore")
    /\ UNCHANGED <<rsp, if, nmi_blocked, interrupted>>

\* Mutant: popaq has rcx and rdx the wrong way round.
PoppedWrong == [r \in Registers |->
    CASE r \in {"ds", "es"} -> mem[rsp]
      [] r = "rcx" -> mem[rsp + 6] [] r = "rdx" -> mem[rsp + 7]
      [] OTHER -> mem[rsp + 8 - (CHOOSE i \in 1 .. 7 : Pushaq[i] = r)]]

\* What the pops leave in the registers: the saved segment, by way of rax or
\* rbx, in ds and es, then popaq.
Popped == [r \in Registers |->
    IF r \in {"ds", "es"} THEN mem[rsp]
    ELSE mem[rsp + 8 - (CHOOSE i \in 1 .. 7 : Pushaq[i] = r)]]

\* "3. Restore state", and the two words of the stub dropped.
Restore ==
    /\ InStub("restore")
    /\ reg' = Popped
    /\ rsp' = rsp + 8 + 2
    /\ GoTo("sti")
    /\ UNCHANGED <<mem, if, nmi_blocked, interrupted>>

\* Requests wait for one more instruction, the iretq.
Sti ==
    /\ InStub("sti")
    /\ if' = TRUE /\ shadow' = TRUE
    /\ rip' = <<"stub", Own, "iretq">>
    /\ UNCHANGED <<mem, rsp, reg, nmi_blocked, interrupted>>

Iretq ==
    /\ InStub("iretq")
    /\ rip' = mem[rsp]
    /\ if' = mem[rsp + 2][2]
    /\ rsp' = mem[rsp + 3][2]
    /\ shadow' = FALSE /\ nmi_blocked' = FALSE
    /\ interrupted' = Tail(interrupted)
    /\ UNCHANGED <<mem, reg>>

Next == \/ Fault \/ Nmi \/ Irq
        \/ EnterLeaf \/ LeaveLeaf
        \/ StubEntry \/ Save \/ Handler \/ Restore \/ Sti \/ Iretq

Spec == Init /\ [][Next]_vars

----------------------------------------------------------------------------
(* Properties. *)

FrameTypeOK ==
    /\ DOMAIN mem = 1 .. STACK
    /\ rsp \in 1 .. STACK
    /\ DOMAIN reg = Registers
    /\ rip[1] \in {"main", "stub"}
    /\ {if, shadow, nmi_blocked} \subseteq BOOLEAN
    /\ Len(interrupted) \in 0 .. MaxDepth

\* The handler is given the vector that was delivered, its error code or
\* request number, and the registers, the instruction and the stack pointer of
\* what was interrupted: the words are where the struct of interrupts.h has
\* them, for every vector, with and without an error code.
HandlerSeesWhatWasInterrupted ==
    InStub("handler") =>
      LET it == interrupted[1]
      IN  /\ Parameters.int_no = Num(it.vector)
          /\ Parameters.code = Num(IF it.vector >= 32 THEN it.vector - 32 ELSE it.code)
          /\ Parameters.eip = it.rip /\ Parameters.useresp = Num(it.rsp)
          /\ \A i \in 1 .. 7 : Parameters[Pushaq[i]] = it.reg[Pushaq[i]]

\* An iretq goes back to what its own delivery interrupted, with every saved
\* register, the stack pointer and the interrupt flag as they were, whatever
\* came in between.
ReturnRestores ==
    [][Iretq => LET it == interrupted[1]
                IN  /\ rip' = it.rip /\ rsp' = it.rsp /\ if' = it.if
                    /\ reg' = it.reg]_vars

\* interrupts_lowlevel.asm 42 and 55, "1. Save CPU state" and "3. Restore
\* state": the interrupted function finds its locals as it left them.
InterruptedKeepsItsLocals ==
    rip = <<"main", 0, "leaf">> => \A a \in LeafWords : mem[a] = Local
=============================================================================
