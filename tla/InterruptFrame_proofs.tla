----------------------- MODULE InterruptFrame_proofs -----------------------
(***************************************************************************)
(* Proofs about the frames of interrupts, for every set of exceptions and  *)
(* requests, every placing of the stubs, and handlers inside one another   *)
(* to every depth for which the stack has room: the processor finds each   *)
(* vector's stub through its gate, the C handler finds what was            *)
(* interrupted in its parameters, and the return restores it.              *)
(*                                                                         *)
(* The argument: below each interruption lies its frame, as far as its     *)
(* stub has got, between the stack pointer it interrupted and the one that *)
(* what it runs has now; and nobody writes above the stack pointer.        *)
(***************************************************************************)
EXTENDS InterruptFrame, NumberLemmas, SequenceTheorems, TLAPS

-----------------------------------------------------------------------------
(* The gates.                                                              *)

\* The three fields of a gate, put together, are the address of the stub.
LEMMA GateRoundTrip ==
    ASSUME NEW a \in Nat, a < HALF * HALF * HALF * HALF
    PROVE  Offset(set_idt_gate(a)) = a
<1> DEFINE hh   == HALF * HALF
           high == a \div hh
<1>1. HALF \in Nat \ {0}
  BY FrameAssumption
<1>2. (a % HALF) + HALF * ((a \div HALF) % HALF) = a % hh
  BY <1>1, TwoDigits
<1>3. hh \in Nat \ {0}
  BY <1>1
<1>4. a < hh * hh
  <2>1. HALF * HALF * HALF * HALF = hh * hh
    BY <1>1
  <2> QED
    BY <2>1
<1>5. Offset(set_idt_gate(a))
        = (a % HALF) + HALF * ((a \div HALF) % HALF) + hh * (high % hh)
  <2> DEFINE gate == set_idt_gate(a)
  <2>1. /\ gate.low_offset = a % HALF
        /\ gate.middle_offset = (a \div HALF) % HALF
        /\ gate.high_offset = high % hh
    BY DEF set_idt_gate, lowest_16, secondlowest_16, high_32
  <2> HIDE DEF gate, high
  <2>2. Offset(gate) = gate.low_offset + HALF * gate.middle_offset
                          + hh * gate.high_offset
    BY DEF Offset
  <2> QED
    BY <2>1, <2>2 DEF gate
<1> HIDE DEF hh
<1>6. /\ high % hh = high /\ high \in Nat
      /\ a % hh \in Nat /\ a = hh * high + (a % hh)
  BY <1>3, <1>4, LeadingAndLast
<1> HIDE DEF high
<1>8. hh * high \in Nat
  BY <1>3, <1>6
<1> QED
  BY <1>2, <1>5, <1>6, <1>8

\* The processor finds the stub of each vector.
LEMMA FindsStub ==
    ASSUME NEW v \in Vectors
    PROVE  CodeAt(Offset(s_idt[v])) = <<"stub", v, "entry">>
<1>1. StubAddress[v] \in Nat /\ StubAddress[v] < HALF * HALF * HALF * HALF
  <2> DEFINE h4 == HALF * HALF * HALF * HALF
  <2>1. StubAddress[v] \in 0 .. h4 - 1 /\ h4 \in Int
    BY FrameAssumption
  <2> HIDE DEF h4
  <2>2. StubAddress[v] \in Nat /\ StubAddress[v] < h4
    BY <2>1
  <2> QED
    BY <2>2 DEF h4
<1>2. Offset(s_idt[v]) = StubAddress[v]
  BY <1>1, GateRoundTrip DEF s_idt
<1>3. (CHOOSE w \in Vectors : StubAddress[w] = StubAddress[v]) = v
  BY FrameAssumption
<1> QED
  BY <1>2, <1>3 DEF CodeAt
-----------------------------------------------------------------------------
(* The invariant.                                                          *)

\* What a register holds, where the program can be, and what is remembered of
\* an interruption.
RegWord == {<<"data", "-">>, Junk} \union {<<"main", r>> : r \in Registers}

Stages == {"entry", "save", "handler", "restore", "sti", "iretq"}
Places == {<<"main", 0, "plain">>, <<"main", 0, "leaf">>}
            \union {<<"stub", v, stage>> : v \in Vectors, stage \in Stages}

Interruption == [vector : Vectors, code : ErrorCodes \union {0}, rsp : Nat,
                 reg : [Registers -> RegWord], rip : Places, if : BOOLEAN]

Types == /\ DOMAIN mem = 1 .. STACK
         /\ rsp \in Nat
         /\ reg \in [Registers -> RegWord]
         /\ rip \in Places
         /\ if \in BOOLEAN /\ shadow \in BOOLEAN /\ nmi_blocked \in BOOLEAN
         /\ interrupted \in Seq(Interruption)

\* The stack is used from its top; every interruption takes at most sixteen
\* words more.
Depth == Len(interrupted)
Lowest(depth) == STACK - 1 - 16 * depth

Room == /\ Depth <= MaxDepth
        /\ Lowest(Depth) <= rsp /\ rsp <= STACK
        /\ \A j \in 1 .. Depth :
              /\ Lowest(Depth - j) <= interrupted[j].rsp
              /\ rsp <= interrupted[j].rsp /\ interrupted[j].rsp <= STACK
              /\ \A k \in j .. Depth : interrupted[j].rsp <= interrupted[k].rsp

\* The frame of an interruption whose stub has come to a place, with a stack
\* pointer and registers: what is below the aligned stack pointer.
Aligned(sp) == 2 * (sp \div 2)

Number(it) == IF it.vector >= 32 THEN it.vector - 32 ELSE it.code

Numbered(m, it, top) == m[top - 6] = Num(Number(it)) /\ m[top - 7] = Num(it.vector)

Frame(m, it, place, sp, regs) ==
    LET top == Aligned(it.rsp)
    IN  /\ place[1] = "stub" /\ place[2] = it.vector
        /\ it.vector \notin WithErrorCode => it.code = 0
        /\ m[top - 2] = Num(it.rsp)
        /\ m[top - 3] = <<"rflags", it.if>>
        /\ m[top - 5] = it.rip
        /\ place[3] \in {"entry", "save", "sti", "iretq"} => regs = it.reg
        /\ place[3] = "entry" =>
              IF it.vector \in WithErrorCode
              THEN sp = top - 6 /\ m[top - 6] = Num(it.code)
              ELSE sp = top - 5
        /\ place[3] = "save" => sp = top - 7 /\ Numbered(m, it, top)
        /\ place[3] \in {"handler", "restore"} =>
              /\ sp = top - 15 /\ Numbered(m, it, top)
              /\ \A i \in 1 .. 7 : m[top - 7 - i] = it.reg[Pushaq[i]]
              /\ m[top - 15] = it.reg["ds"]
        /\ place[3] \in {"sti", "iretq"} => sp = top - 5

\* Each interruption has interrupted the stub of the one before it, or main.
OuterFrame(m, j) == Frame(m, interrupted[j + 1], interrupted[j].rip,
                          interrupted[j].rsp, interrupted[j].reg)

Frames == /\ interrupted = <<>> => rip[1] = "main"
          /\ interrupted # <<>> =>
                /\ Frame(mem, interrupted[1], rip, rsp, reg)
                /\ interrupted[Depth].rip[1] = "main"
          /\ \A j \in 1 .. Depth - 1 : OuterFrame(mem, j)

SegmentsAgree == /\ reg["ds"] = reg["es"]
                 /\ \A j \in 1 .. Depth : interrupted[j].reg["ds"] = interrupted[j].reg["es"]

IInv == Types /\ Room /\ Frames /\ SegmentsAgree

-----------------------------------------------------------------------------
(* The stack and the registers.                                            *)

\* What is pushed is below the stack pointer, the rest stays.
LEMMA PushedWords ==
    ASSUME NEW m, NEW sp \in Nat, NEW n \in Nat, NEW ws, Len(ws) = n, NEW a \in DOMAIN m
    PROVE  /\ DOMAIN Pushed(m, sp, ws) = DOMAIN m
           /\ a \in sp - n .. sp - 1 => Pushed(m, sp, ws)[a] = ws[sp - a]
           /\ a \notin sp - n .. sp - 1 => Pushed(m, sp, ws)[a] = m[a]
  BY DEF Pushed

\* The memory m2 is m with ws below the stack pointer.
OnTop(m, m2, sp, ws) ==
    /\ DOMAIN m2 = 1 .. STACK
    /\ \A a \in 1 .. STACK : a >= sp => m2[a] = m[a]
    /\ \A d \in 1 .. Len(ws) : m2[sp - d] = ws[d]

\* The same of a stack with room for what is pushed.
LEMMA PushKeeps ==
    ASSUME NEW m, DOMAIN m = 1 .. STACK, STACK \in Nat, NEW sp \in Nat, sp <= STACK,
           NEW ws, Len(ws) \in Nat, Len(ws) < sp
    PROVE  OnTop(m, Pushed(m, sp, ws), sp, ws)
<1> DEFINE n == Len(ws)
<1>0. n \in Nat /\ n < sp
  OBVIOUS
<1>1. DOMAIN Pushed(m, sp, ws) = 1 .. STACK
  BY DEF Pushed
<1>2. ASSUME NEW a \in 1 .. STACK, a >= sp PROVE Pushed(m, sp, ws)[a] = m[a]
  <2>1. a \in DOMAIN m /\ a \notin sp - n .. sp - 1
    BY <1>2
  <2> QED
    BY <2>1, PushedWords
<1>3. ASSUME NEW d \in 1 .. n PROVE Pushed(m, sp, ws)[sp - d] = ws[d]
  <2>1. /\ sp - d \in DOMAIN m /\ sp - d \in sp - n .. sp - 1
        /\ sp - (sp - d) = d
    <3> HIDE DEF n
    <3> QED
      BY <1>0, <1>3
  <2> QED
    BY <2>1, PushedWords
<1> QED
  BY <1>1, <1>2, <1>3 DEF OnTop

\* A frame stays when nothing is written above its stack pointer.
LEMMA FrameStays ==
    ASSUME NEW m, NEW m2, NEW it \in Interruption, NEW place, NEW sp \in Nat, NEW regs,
           Frame(m, it, place, sp, regs), place \in Places,
           sp >= 1, it.rsp <= STACK,
           \A a \in 1 .. STACK : a >= sp => m2[a] = m[a]
    PROVE  Frame(m2, it, place, sp, regs)
<1> DEFINE top == Aligned(it.rsp)
<1>1. it.rsp \in Nat /\ STACK \in Nat
  BY FrameAssumption DEF Interruption
<1>2. top \in Nat /\ top <= it.rsp
  BY <1>1 DEF Aligned
<1>3. ASSUME NEW d \in 1 .. 15, sp <= top - d PROVE m2[top - d] = m[top - d]
  BY <1>1, <1>2, <1>3
<1> HIDE DEF top
<1>4. sp <= top - 5 /\ (place[3] = "entry" /\ it.vector \in WithErrorCode => sp <= top - 6)
      /\ (place[3] = "save" => sp <= top - 7)
      /\ (place[3] \in {"handler", "restore"} => sp <= top - 15)
  <2>1. place[3] \in Stages
    BY DEF Frame, Places
  <2> QED
    BY <1>2, <2>1 DEF Frame, Stages, top
<1>5. m2[top - 2] = m[top - 2] /\ m2[top - 3] = m[top - 3] /\ m2[top - 5] = m[top - 5]
  BY <1>2, <1>3, <1>4
<1>6. sp <= top - 6 => m2[top - 6] = m[top - 6]
  BY <1>3
<1>7. sp <= top - 7 => m2[top - 7] = m[top - 7]
  BY <1>3
<1>8. sp <= top - 15 => m2[top - 15] = m[top - 15]
                        /\ \A i \in 1 .. 7 : m2[top - 7 - i] = m[top - 7 - i]
  <2>1. ASSUME NEW i \in 1 .. 7, sp <= top - 15 PROVE m2[top - 7 - i] = m[top - 7 - i]
    <3>1. 7 + i \in 1 .. 15 /\ top - (7 + i) = top - 7 - i /\ sp <= top - (7 + i)
      BY <1>2, <2>1
    <3> QED
      BY <1>3, <3>1
  <2> QED
    BY <1>3, <2>1
<1>9. sp <= top - 7 => sp <= top - 6
  BY <1>2
<1>10. sp <= top - 15 => sp <= top - 7
  BY <1>2
<1> QED
  BY <1>4, <1>5, <1>6, <1>7, <1>8, <1>9, <1>10 DEF Frame, Numbered, top

\* A place of pushaq, found by the register it saves.
LEMMA PushaqPlace ==
    /\ \A i \in 1 .. 7 : (CHOOSE j \in 1 .. 7 : Pushaq[j] = Pushaq[i]) = i
    /\ \A i \in 1 .. 7 : Pushaq[i] \in Registers /\ Pushaq[i] \notin {"ds", "es"}
    /\ \A r \in Registers \ {"ds", "es"} : \E i \in 1 .. 7 : Pushaq[i] = r
    /\ {"ds", "es"} \subseteq Registers
<1>1. ASSUME NEW i \in 1 .. 7, NEW j \in 1 .. 7, Pushaq[i] = Pushaq[j] PROVE i = j
  BY <1>1 DEF Pushaq
<1>2. \A i \in 1 .. 7 : (CHOOSE j \in 1 .. 7 : Pushaq[j] = Pushaq[i]) = i
  BY <1>1
<1>3. \A i \in 1 .. 7 : Pushaq[i] \notin {"ds", "es"}
  BY DEF Pushaq
<1> QED
  BY <1>2, <1>3 DEF Registers

-----------------------------------------------------------------------------
(* The steps.                                                              *)

\* The stack pointer is in the stack, with room below it for one more
\* interruption unless they are as deep as they go.
LEMMA RoomLeft ==
    ASSUME Types, Room
    PROVE  /\ Depth \in Nat /\ rsp \in 3 .. STACK
           /\ Depth < MaxDepth => rsp \in 19 .. STACK
           /\ STACK \in Nat /\ MaxDepth \in Nat
<1>1. Depth \in Nat
  BY DEF Depth, Types
<1> QED
  BY <1>1, FrameAssumption, StackAssumption DEF Room, Lowest, Types

\* What is remembered of an interruption has its types.
LEMMA Remembered ==
    ASSUME Types, NEW j \in 1 .. Depth
    PROVE  /\ interrupted[j] \in Interruption
           /\ interrupted[j].vector \in Vectors /\ interrupted[j].rsp \in Nat
           /\ interrupted[j].reg \in [Registers -> RegWord]
           /\ interrupted[j].rip \in Places /\ interrupted[j].if \in BOOLEAN
<1>1. interrupted[j] \in Interruption
  BY ElementOfSeq DEF Types, Depth
<1> QED
  BY <1>1 DEF Interruption

\* A stub's code runs exactly while something is interrupted.
LEMMA StubRuns ==
    ASSUME IInv
    PROVE  /\ rip[1] = "main" <=> interrupted = <<>>
           /\ rip[1] = "stub" <=> interrupted # <<>>
           /\ interrupted # <<>> =>
                /\ 1 \in 1 .. Depth /\ Own = interrupted[1].vector /\ Own \in Vectors
                /\ Frame(mem, interrupted[1], rip, rsp, reg)
           /\ interrupted = <<>> => Depth = 0
<1>1. interrupted # <<>> => Frame(mem, interrupted[1], rip, rsp, reg)
  BY DEF IInv, Frames
<1>2. interrupted # <<>> => rip[1] = "stub" /\ Own = interrupted[1].vector
  BY <1>1 DEF Frame, Own
<1>3. interrupted = <<>> => rip[1] = "main"
  BY DEF IInv, Frames
<1>4. interrupted # <<>> => 1 \in 1 .. Depth
  BY EmptySeq DEF IInv, Types, Depth
<1>5. interrupted = <<>> => Depth = 0
  BY DEF Depth
<1>6. interrupted # <<>> => interrupted[1].vector \in Vectors
  BY <1>4, Remembered DEF IInv
<1> QED
  BY <1>1, <1>2, <1>3, <1>4, <1>5, <1>6

\* Where the stack pointer is below what was interrupted.
LEMMA FrameBelow ==
    ASSUME NEW m, NEW it \in Interruption, NEW place \in Places, NEW sp, NEW regs,
           Frame(m, it, place, sp, regs)
    PROVE  /\ Aligned(it.rsp) \in Nat
           /\ Aligned(it.rsp) <= it.rsp /\ it.rsp <= Aligned(it.rsp) + 1
           /\ Aligned(it.rsp) - 15 <= sp /\ sp <= Aligned(it.rsp) - 5
<1>1. it.rsp \in Nat
  BY DEF Interruption
<1>2. place[3] \in Stages
  BY DEF Frame, Places
<1>3. /\ Aligned(it.rsp) \in Nat
      /\ Aligned(it.rsp) <= it.rsp /\ it.rsp <= Aligned(it.rsp) + 1
  BY <1>1 DEF Aligned
<1> QED
  BY <1>2, <1>3 DEF Frame, Stages

\* The outer frames stay when nothing is written above the stack pointer.
LEMMA OuterStays ==
    ASSUME IInv, NEW m2, \A a \in 1 .. STACK : a >= rsp => m2[a] = mem[a],
           NEW j \in 1 .. Depth - 1
    PROVE  OuterFrame(m2, j)
<1>1. j \in 1 .. Depth /\ j + 1 \in 1 .. Depth
  BY RoomLeft DEF IInv
<1>2. OuterFrame(mem, j)
  BY DEF IInv, Frames
<1>3. /\ interrupted[j + 1] \in Interruption
      /\ interrupted[j].rip \in Places /\ interrupted[j].rsp \in Nat
  BY <1>1, Remembered DEF IInv
<1>4. /\ interrupted[j].rsp >= rsp /\ interrupted[j].rsp >= 1
      /\ interrupted[j + 1].rsp <= STACK
  BY <1>1, <1>3, RoomLeft DEF IInv, Room
<1>5. \A a \in 1 .. STACK : a >= interrupted[j].rsp => m2[a] = mem[a]
  BY <1>3, <1>4, RoomLeft DEF IInv
<1> QED
  BY <1>2, <1>3, <1>4, <1>5, FrameStays DEF OuterFrame

\* A step of a stub keeps the invariant when it writes below the stack pointer
\* and leaves its own frame as it has to be at the next stage.
LEMMA StageKeeps ==
    ASSUME IInv, interrupted # <<>>, interrupted' = interrupted,
           DOMAIN mem' = 1 .. STACK, \A a \in 1 .. STACK : a >= rsp => mem'[a] = mem[a],
           rsp' \in Nat, reg' \in [Registers -> RegWord], reg'["ds"] = reg'["es"],
           rip' \in Places, if' \in BOOLEAN, shadow' \in BOOLEAN, nmi_blocked' \in BOOLEAN,
           Frame(mem', interrupted[1], rip', rsp', reg')
    PROVE  IInv'
<1>1. Types'
  BY DEF IInv, Types
<1>2. Depth' = Depth /\ Depth \in Nat /\ 1 \in 1 .. Depth
  BY StubRuns, RoomLeft DEF Depth, IInv
<1>3. interrupted[1] \in Interruption /\ interrupted[1].rsp \in Nat
  BY <1>2, Remembered DEF IInv
<1>4. /\ interrupted[1].rsp - 16 <= rsp' /\ rsp' <= interrupted[1].rsp
  BY <1>3, FrameBelow
<1>5. Room'
  <2>1. Lowest(Depth - 1) <= interrupted[1].rsp /\ interrupted[1].rsp <= STACK
    BY <1>2 DEF IInv, Room
  <2>2. Lowest(Depth) = Lowest(Depth - 1) - 16 /\ Lowest(Depth) \in Int
    BY <1>2, RoomLeft DEF Lowest, IInv
  <2>3. Lowest(Depth) <= rsp' /\ rsp' <= STACK
    <3>1. STACK \in Nat /\ Lowest(Depth - 1) \in Int
      BY <1>2, RoomLeft DEF Lowest, IInv
    <3> QED
      BY <1>3, <1>4, <2>1, <2>2, <3>1
  <2>4. ASSUME NEW j \in 1 .. Depth PROVE rsp' <= interrupted[j].rsp
    <3>1. interrupted[1].rsp <= interrupted[j].rsp
      BY <1>2 DEF IInv, Room
    <3>2. interrupted[j].rsp \in Nat
      BY Remembered DEF IInv
    <3> QED
      BY <1>3, <1>4, <3>1, <3>2
  <2> QED
    BY <1>2, <2>3, <2>4 DEF IInv, Room
<1>6. \A j \in 1 .. Depth - 1 : OuterFrame(mem, j)'
  <2>1. \A j \in 1 .. Depth - 1 : OuterFrame(mem', j)
    BY OuterStays
  <2> QED
    BY <2>1 DEF OuterFrame
<1>7. Frames'
  BY <1>2, <1>6 DEF IInv, Frames
<1>8. SegmentsAgree'
  BY <1>2 DEF IInv, SegmentsAgree
<1> QED
  BY <1>1, <1>5, <1>7, <1>8 DEF IInv

\* The start: nothing interrupted.
LEMMA Starts == Init => IInv
<1> SUFFICES ASSUME Init PROVE IInv
  OBVIOUS
<1>1. interrupted = <<>> /\ Depth = 0
  BY DEF Init, Depth
<1>2. reg \in [Registers -> RegWord] /\ reg["ds"] = reg["es"]
  BY DEF Init, Registers, RegWord
<1>3. STACK \in Nat /\ MaxDepth \in Nat /\ STACK >= 4
  BY FrameAssumption, StackAssumption
<1>4. rsp \in Nat /\ Lowest(0) <= rsp /\ rsp <= STACK
  BY <1>3 DEF Init, Lowest
<1>5. Types
  <2>1. interrupted \in Seq(Interruption)
    BY <1>1, EmptySeq
  <2>2. rip \in Places /\ DOMAIN mem = 1 .. STACK
    BY DEF Init, Places
  <2> QED
    BY <1>2, <1>4, <2>1, <2>2 DEF Init, Types
<1>6. Room
  <2>1. Lowest(Depth) <= rsp /\ Depth <= MaxDepth
    BY <1>1, <1>3, <1>4
  <2> QED
    BY <1>1, <1>4, <2>1 DEF Room
<1>7. Frames
  BY <1>1 DEF Init, Frames
<1>8. SegmentsAgree
  BY <1>1, <1>2 DEF SegmentsAgree
<1> QED
  BY <1>5, <1>6, <1>7, <1>8 DEF IInv

\* The words of a delivery.
DeliveryWords(v, code) ==
    <<<<"ss", "-">>, Num(rsp), <<"rflags", if>>, <<"cs", "-">>, rip>>
        \o (IF v \in WithErrorCode THEN <<Num(code)>> ELSE <<>>)

LEMMA DeliveryWordsAre ==
    ASSUME NEW v, NEW code
    PROVE  LET ws == DeliveryWords(v, code)
           IN  /\ Len(ws) = IF v \in WithErrorCode THEN 6 ELSE 5
               /\ ws[2] = Num(rsp) /\ ws[3] = <<"rflags", if>> /\ ws[5] = rip
               /\ v \in WithErrorCode => ws[6] = Num(code)
  BY DEF DeliveryWords

\* A delivery keeps the invariant: a level more, whose frame is what has been
\* pushed.
LEMMA DeliverKeeps ==
    ASSUME IInv, NEW v \in Vectors, NEW code \in ErrorCodes \union {0},
           Deliver(v, code), nmi_blocked' \in BOOLEAN
    PROVE  IInv'
<1> DEFINE top == Aligned(rsp)
           ws  == DeliveryWords(v, code)
           it  == [vector |-> v, code |-> IF v \in WithErrorCode THEN code ELSE 0,
                   rsp |-> rsp, reg |-> reg, rip |-> rip, if |-> if]
<1>1. /\ Depth < MaxDepth
      /\ mem' = Pushed(mem, top, ws) /\ rsp' = top - Len(ws)
      /\ rip' = <<"stub", v, "entry">>
      /\ if' = FALSE /\ shadow' = FALSE /\ reg' = reg
      /\ interrupted' = <<it>> \o interrupted
  BY FindsStub DEF Deliver, DeliveryWords, Depth, Aligned
<1>2. /\ it \in Interruption /\ it.vector = v /\ it.rsp = rsp /\ it.rip = rip
      /\ it.reg = reg /\ it.if = if
      /\ it.code = IF v \in WithErrorCode THEN code ELSE 0
  BY DEF IInv, Types, Interruption
<1>3. /\ Len(ws) = (IF v \in WithErrorCode THEN 6 ELSE 5)
      /\ ws[2] = Num(rsp) /\ ws[3] = <<"rflags", if>> /\ ws[5] = rip
      /\ v \in WithErrorCode => ws[6] = Num(code)
  BY DeliveryWordsAre
<1> HIDE DEF it, ws
<1>4. /\ rsp \in Nat /\ rsp \in 19 .. STACK /\ Depth \in Nat
      /\ STACK \in Nat /\ MaxDepth \in Nat
  BY <1>1, RoomLeft DEF IInv
<1>5. top \in Nat /\ top <= rsp /\ rsp <= top + 1 /\ top >= 18
  BY <1>4 DEF Aligned
<1> HIDE DEF top
<1>6. /\ interrupted' \in Seq(Interruption) /\ Len(interrupted') = Depth + 1
      /\ interrupted' # <<>> /\ interrupted'[1] = it
      /\ \A j \in 1 .. Depth : interrupted'[j + 1] = interrupted[j]
  <2>1. <<it>> \in Seq(Interruption) /\ interrupted \in Seq(Interruption) /\ Len(<<it>>) = 1
    BY <1>2 DEF IInv, Types
  <2>2. /\ <<it>> \o interrupted \in Seq(Interruption)
        /\ Len(<<it>> \o interrupted) = Depth + 1
        /\ (<<it>> \o interrupted)[1] = it
        /\ \A j \in 1 .. Depth : (<<it>> \o interrupted)[j + 1] = interrupted[j]
    BY <2>1, <1>4 DEF Depth
  <2>3. interrupted' # <<>>
    BY <1>1, <2>2, <1>4
  <2> QED
    BY <1>1, <2>2, <2>3
<1>7. /\ DOMAIN mem' = 1 .. STACK
      /\ \A a \in 1 .. STACK : a >= rsp => mem'[a] = mem[a]
      /\ mem'[top - 2] = ws[2] /\ mem'[top - 3] = ws[3] /\ mem'[top - 5] = ws[5]
      /\ v \in WithErrorCode => mem'[top - 6] = ws[6]
  <2>1. DOMAIN mem = 1 .. STACK
    BY DEF IInv, Types
  <2>2. /\ Len(ws) \in {5, 6} /\ (v \in WithErrorCode => Len(ws) = 6)
        /\ Len(ws) \in Nat /\ Len(ws) < top /\ top <= STACK
    BY <1>3, <1>4, <1>5
  <2>3. /\ DOMAIN mem' = 1 .. STACK
        /\ \A a \in 1 .. STACK : a >= top => mem'[a] = mem[a]
        /\ \A d \in 1 .. Len(ws) : mem'[top - d] = ws[d]
    <3>1. STACK \in Nat /\ top \in Nat
      BY <1>4, <1>5
    <3>2. /\ DOMAIN Pushed(mem, top, ws) = 1 .. STACK
          /\ \A a \in 1 .. STACK : a >= top => Pushed(mem, top, ws)[a] = mem[a]
          /\ \A d \in 1 .. Len(ws) : Pushed(mem, top, ws)[top - d] = ws[d]
      <4>1. OnTop(mem, Pushed(mem, top, ws), top, ws)
        BY <2>1, <2>2, <3>1, PushKeeps
      <4> QED
        BY <4>1 DEF OnTop
    <3> QED
      BY <1>1, <3>2
  <2>4. \A a \in 1 .. STACK : a >= rsp => mem'[a] = mem[a]
    BY <1>4, <1>5, <2>3
  <2> QED
    BY <2>2, <2>3, <2>4
<1>8. rsp' \in Nat /\ rsp - 7 <= rsp' /\ rsp' <= rsp
  BY <1>1, <1>3, <1>4, <1>5
<1>9. Types'
  <2>1. rip' \in Places
    BY <1>1 DEF Places, Stages
  <2>2. Types
    BY DEF IInv
  <2> QED
    BY <1>1, <1>6, <1>7, <1>8, <2>1, <2>2 DEF Types
<1>10. Room'
  <2>1. Depth' = Depth + 1 /\ Depth' <= MaxDepth
    BY <1>1, <1>4, <1>6 DEF Depth
  <2>2. /\ Lowest(Depth) <= rsp
        /\ \A j \in 1 .. Depth :
              /\ Lowest(Depth - j) <= interrupted[j].rsp
              /\ rsp <= interrupted[j].rsp /\ interrupted[j].rsp <= STACK
              /\ \A k \in j .. Depth : interrupted[j].rsp <= interrupted[k].rsp
    BY DEF IInv, Room
  <2>3. Lowest(Depth + 1) = Lowest(Depth) - 16 /\ Lowest(Depth) \in Int
    BY <1>4 DEF Lowest
  <2>4. Lowest(Depth + 1) <= rsp' /\ rsp' <= STACK
    BY <1>4, <1>8, <2>2, <2>3
  <2>5. ASSUME NEW j \in 1 .. Depth + 1
        PROVE  /\ Lowest(Depth + 1 - j) <= interrupted'[j].rsp
               /\ rsp' <= interrupted'[j].rsp /\ interrupted'[j].rsp <= STACK
               /\ \A k \in j .. Depth + 1 : interrupted'[j].rsp <= interrupted'[k].rsp
    <3>1. CASE j = 1
      <4>1. interrupted'[j].rsp = rsp /\ Depth + 1 - j = Depth
        BY <1>2, <1>4, <1>6, <3>1
      <4>2. ASSUME NEW k \in 1 .. Depth + 1 PROVE rsp <= interrupted'[k].rsp
        <5>1. CASE k = 1
          BY <1>2, <1>4, <1>6, <5>1
        <5>2. CASE k # 1
          <6>1. k - 1 \in 1 .. Depth /\ (k - 1) + 1 = k
            BY <1>4, <5>2
          <6> QED
            BY <1>6, <2>2, <6>1
        <5> QED
          BY <5>1, <5>2
      <4> QED
        BY <1>4, <1>8, <2>2, <3>1, <4>1, <4>2
    <3>2. CASE j # 1
      <4>1. j - 1 \in 1 .. Depth /\ (j - 1) + 1 = j /\ Depth + 1 - j = Depth - (j - 1)
        BY <1>4, <3>2
      <4>2. interrupted'[j] = interrupted[j - 1] /\ interrupted[j - 1].rsp \in Nat
        BY <1>6, <4>1, Remembered DEF IInv
      <4>3. ASSUME NEW k \in j .. Depth + 1
            PROVE  interrupted[j - 1].rsp <= interrupted'[k].rsp
        <5>1. k - 1 \in 1 .. Depth /\ (k - 1) + 1 = k /\ k - 1 \in j - 1 .. Depth
          BY <1>4, <3>2
        <5> QED
          BY <1>6, <2>2, <4>1, <5>1
      <4>4. rsp' <= interrupted[j - 1].rsp
        BY <1>4, <1>8, <2>2, <4>1, <4>2
      <4> QED
        BY <2>2, <4>1, <4>2, <4>3, <4>4
    <3> QED
      BY <3>1, <3>2
  <2>6. \A j \in 1 .. Depth' :
              /\ Lowest(Depth' - j) <= interrupted'[j].rsp
              /\ rsp' <= interrupted'[j].rsp /\ interrupted'[j].rsp <= STACK
              /\ \A k \in j .. Depth' : interrupted'[j].rsp <= interrupted'[k].rsp
    <3> DEFINE deep(n) == \A j \in 1 .. n :
                  /\ Lowest(n - j) <= interrupted'[j].rsp
                  /\ rsp' <= interrupted'[j].rsp /\ interrupted'[j].rsp <= STACK
                  /\ \A k \in j .. n : interrupted'[j].rsp <= interrupted'[k].rsp
    <3>1. deep(Depth + 1)
      BY <1>4, <2>5 DEF Lowest
    <3> HIDE DEF deep
    <3>2. deep(Depth')
      BY <2>1, <3>1
    <3> QED
      BY <3>2 DEF deep
  <2>7. Lowest(Depth') <= rsp'
    BY <2>1, <2>4
  <2> QED
    BY <2>1, <2>4, <2>6, <2>7 DEF Room, Lowest
<1>11. Frame(mem', it, rip', rsp', reg')
  <2>1. rip'[1] = "stub" /\ rip'[2] = v /\ rip'[3] = "entry"
    BY <1>1
  <2>2. /\ v \in WithErrorCode => rsp' = top - 6
        /\ v \notin WithErrorCode => rsp' = top - 5
    BY <1>1, <1>3
  <2> QED
    BY <1>1, <1>2, <1>3, <1>7, <2>1, <2>2 DEF Frame, top
<1>12. Frames'
  <2>1. Depth' = Depth + 1
    BY <1>6 DEF Depth
  <2>2. interrupted'[Depth + 1].rip[1] = "main"
    <3>1. CASE interrupted = <<>>
      BY <1>2, <1>6, <3>1, StubRuns
    <3>2. CASE interrupted # <<>>
      BY <1>4, <1>6, <3>2, StubRuns DEF IInv, Frames
    <3> QED
      BY <3>1, <3>2
  <2>3. ASSUME NEW j \in 1 .. Depth PROVE OuterFrame(mem, j)'
    <3>1. interrupted'[j + 1] = interrupted[j] /\ interrupted[j] \in Interruption
      BY <1>6, Remembered DEF IInv
    <3>2. CASE j = 1
      <4>1. interrupted # <<>> /\ 1 \in 1 .. Depth
        BY <3>2, StubRuns
      <4>2. Frame(mem, interrupted[1], rip, rsp, reg)
        BY <4>1, StubRuns
      <4>3. /\ interrupted[1] \in Interruption /\ interrupted[1].rsp <= STACK
            /\ rip \in Places
        BY <4>1, Remembered DEF IInv, Room, Types
      <4>4. Frame(mem', interrupted[1], rip, rsp, reg)
        BY <1>4, <1>7, <4>2, <4>3, FrameStays
      <4>5. interrupted'[2] = interrupted[1]
        BY <3>1, <3>2
      <4> QED
        BY <1>2, <1>6, <3>2, <4>4, <4>5 DEF OuterFrame
    <3>3. CASE j # 1
      <4>1. j - 1 \in 1 .. Depth - 1 /\ (j - 1) + 1 = j /\ j - 1 \in 1 .. Depth
        BY <1>4, <3>3
      <4>2. OuterFrame(mem', j - 1)
        BY <1>7, <4>1, OuterStays
      <4>3. interrupted'[j] = interrupted[j - 1]
        BY <1>6, <4>1
      <4>4. Frame(mem', interrupted[j], interrupted[j - 1].rip, interrupted[j - 1].rsp,
                  interrupted[j - 1].reg)
        BY <4>1, <4>2 DEF OuterFrame
      <4> QED
        BY <3>1, <4>3, <4>4 DEF OuterFrame
    <3> QED
      BY <3>2, <3>3
  <2>4. \A j \in 1 .. Depth' - 1 : OuterFrame(mem, j)'
    BY <1>4, <2>1, <2>3
  <2> QED
    BY <1>6, <1>11, <2>1, <2>2, <2>4 DEF Frames
<1>13. SegmentsAgree'
  <2>1. Depth' = Depth + 1
    BY <1>6 DEF Depth
  <2>2. ASSUME NEW j \in 1 .. Depth + 1
        PROVE  interrupted'[j].reg["ds"] = interrupted'[j].reg["es"]
    <3>1. CASE j = 1
      BY <1>2, <1>6, <3>1 DEF IInv, SegmentsAgree
    <3>2. CASE j # 1
      <4>1. j - 1 \in 1 .. Depth /\ (j - 1) + 1 = j
        BY <1>4, <3>2
      <4> QED
        BY <1>6, <4>1 DEF IInv, SegmentsAgree
    <3> QED
      BY <3>1, <3>2
  <2> QED
    BY <1>1, <2>1, <2>2 DEF IInv, SegmentsAgree
<1> QED
  BY <1>9, <1>10, <1>12, <1>13 DEF IInv

\* What holds while a stub runs: its vector, the interruption it handles, and
\* the room below the stack pointer.
LEMMA InAStub ==
    ASSUME IInv, rip[1] = "stub"
    PROVE  LET it  == interrupted[1]
               top == Aligned(it.rsp)
           IN  /\ interrupted # <<>> /\ 1 \in 1 .. Depth
               /\ it \in Interruption /\ it.vector = Own /\ Own \in Vectors
               /\ it.reg \in [Registers -> RegWord] /\ it.rip \in Places
               /\ it.if \in BOOLEAN /\ it.reg["ds"] = it.reg["es"]
               /\ it.rsp \in Nat /\ it.rsp >= 19 /\ it.rsp <= STACK
               /\ top \in Nat /\ top >= 18 /\ top <= STACK
               /\ Frame(mem, it, rip, rsp, reg)
<1> DEFINE it  == interrupted[1]
           top == Aligned(it.rsp)
<1>1. /\ interrupted # <<>> /\ 1 \in 1 .. Depth
      /\ it.vector = Own /\ Own \in Vectors /\ Frame(mem, it, rip, rsp, reg)
  BY StubRuns
<1>2. /\ it \in Interruption /\ it.rsp \in Nat
      /\ it.reg \in [Registers -> RegWord] /\ it.rip \in Places /\ it.if \in BOOLEAN
  BY <1>1, Remembered DEF IInv
<1>3. it.reg["ds"] = it.reg["es"]
  BY <1>1 DEF IInv, SegmentsAgree
<1>4. it.rsp >= 19 /\ it.rsp <= STACK
  <2>1. Depth \in Nat /\ STACK \in Nat /\ MaxDepth \in Nat
    BY RoomLeft DEF IInv
  <2>2. Lowest(Depth - 1) <= it.rsp /\ it.rsp <= STACK /\ Depth <= MaxDepth
    BY <1>1 DEF IInv, Room
  <2>3. Lowest(Depth - 1) >= 19
    BY <1>1, <2>1, <2>2, StackAssumption DEF Lowest
  <2>4. Lowest(Depth - 1) \in Int
    BY <2>1 DEF Lowest
  <2> QED
    BY <1>2, <2>2, <2>3, <2>4
<1>5. top \in Nat /\ top >= 18 /\ top <= STACK
  <2>1. top \in Nat /\ top <= it.rsp /\ it.rsp <= top + 1
    BY <1>2 DEF Aligned
  <2>2. STACK \in Nat
    BY RoomLeft DEF IInv
  <2> HIDE DEF top, it
  <2>3. it.rsp \in Nat
    BY <1>2
  <2> QED
    BY <1>4, <2>1, <2>2, <2>3
<1> QED
  BY <1>1, <1>2, <1>3, <1>4, <1>5

\* What a stub pushes first: two words, or one after an error code.
LEMMA StubWordsAre ==
    ASSUME NEW it, it.vector = Own, Own \in Vectors,
           it.vector \notin WithErrorCode => it.code = 0
    PROVE  LET n == Len(StubWords)
           IN  /\ n = IF Own \in WithErrorCode THEN 1 ELSE 2
               /\ StubWords[n] = Num(it.vector)
               /\ Own \notin WithErrorCode => StubWords[1] = Num(Number(it))
               /\ Own \in WithErrorCode => Number(it) = it.code
<1>1. Own \in Int /\ (Own \in Exceptions \/ Own = 2 \/ Own >= 32)
  <2>1. Exceptions \subseteq 0 .. 31 /\ Irqs \subseteq 0 .. 15
    BY FrameAssumption
  <2>2. CASE Own \in Exceptions
    BY <2>1, <2>2
  <2>3. CASE Own = NMI
    BY <2>3 DEF NMI
  <2>4. CASE Own \in {32 + n : n \in Irqs}
    BY <2>1, <2>4
  <2> QED
    BY <2>2, <2>3, <2>4 DEF Vectors, NMI
<1>2. Own \in Exceptions => Own <= 31 /\ Own \notin {17, 21, 29, 30}
  BY FrameAssumption
<1>3. CASE IsIrq
  <2>1. Own \notin WithErrorCode
    BY <1>1, <1>3 DEF IsIrq, WithErrorCode
  <2>2. StubWords = <<Num(Own - 32), Num(Own)>>
    BY <1>3 DEF StubWords
  <2> QED
    BY <1>3, <2>1, <2>2 DEF IsIrq, Number
<1>4. CASE ~IsIrq
  <2>1. Own <= 31 /\ Number(it) = it.code
    BY <1>1, <1>4 DEF IsIrq, Number
  <2>2. Own \in WithErrorCode <=> Own \in {8, 10, 11, 12, 13, 14}
    BY <1>1, <1>2, <2>1 DEF WithErrorCode
  <2>3. CASE Own \in WithErrorCode
    <3>1. StubWords = <<Num(Own)>>
      BY <1>4, <2>2, <2>3 DEF StubWords
    <3> QED
      BY <2>1, <2>3, <3>1
  <2>4. CASE Own \notin WithErrorCode
    <3>1. StubWords = <<Num(0), Num(Own)>>
      BY <1>4, <2>2, <2>4 DEF StubWords
    <3>2. Number(it) = 0
      BY <2>1, <2>4
    <3> QED
      BY <2>4, <3>1, <3>2
  <2> QED
    BY <2>3, <2>4
<1> QED
  BY <1>3, <1>4

\* The stub has pushed its words: the frame is numbered.
LEMMA StubEntryKeeps == IInv /\ StubEntry => IInv'
<1> SUFFICES ASSUME IInv, StubEntry PROVE IInv'
  OBVIOUS
<1> DEFINE it  == interrupted[1]
           top == Aligned(it.rsp)
           n   == Len(StubWords)
<1>1. /\ rip[1] = "stub" /\ rip[3] = "entry"
      /\ mem' = Pushed(mem, rsp, StubWords) /\ rsp' = rsp - n
      /\ if' = FALSE /\ shadow' = FALSE /\ rip' = <<"stub", Own, "save">>
      /\ UNCHANGED <<reg, nmi_blocked, interrupted>>
  BY DEF StubEntry, InStub, Push, GoTo
<1>2. /\ interrupted # <<>> /\ it \in Interruption /\ it.vector = Own /\ Own \in Vectors
      /\ it.rsp <= STACK /\ top \in Nat /\ top >= 18 /\ top <= STACK
      /\ Frame(mem, it, rip, rsp, reg)
  BY <1>1, InAStub
<1>3. /\ it.vector \notin WithErrorCode => it.code = 0
      /\ reg = it.reg
      /\ Own \in WithErrorCode => rsp = top - 6 /\ mem[top - 6] = Num(it.code)
      /\ Own \notin WithErrorCode => rsp = top - 5
  BY <1>1, <1>2 DEF Frame
<1>4. /\ n = IF Own \in WithErrorCode THEN 1 ELSE 2
      /\ StubWords[n] = Num(it.vector)
      /\ Own \notin WithErrorCode => StubWords[1] = Num(Number(it))
      /\ Own \in WithErrorCode => Number(it) = it.code
  BY <1>2, <1>3, StubWordsAre
<1>5. n \in Nat
  BY <1>4
<1> HIDE DEF n, it, top
<1>6. /\ DOMAIN mem = 1 .. STACK /\ STACK \in Nat /\ rsp \in Nat /\ rsp <= STACK
      /\ reg \in [Registers -> RegWord] /\ nmi_blocked \in BOOLEAN
      /\ rip \in Places /\ reg["ds"] = reg["es"]
  BY RoomLeft DEF IInv, Types, SegmentsAgree
<1>7. n < rsp /\ rsp' = top - 7 /\ rsp' \in Nat
  BY <1>1, <1>2, <1>3, <1>4
<1>8. /\ DOMAIN mem' = 1 .. STACK
      /\ \A a \in 1 .. STACK : a >= rsp => mem'[a] = mem[a]
      /\ \A d \in 1 .. n : mem'[rsp - d] = StubWords[d]
  <2>1. /\ DOMAIN Pushed(mem, rsp, StubWords) = 1 .. STACK
        /\ \A a \in 1 .. STACK : a >= rsp => Pushed(mem, rsp, StubWords)[a] = mem[a]
        /\ \A d \in 1 .. n : Pushed(mem, rsp, StubWords)[rsp - d] = StubWords[d]
    <3>1. OnTop(mem, Pushed(mem, rsp, StubWords), rsp, StubWords)
      BY <1>5, <1>6, <1>7, PushKeeps DEF n
    <3> QED
      BY <3>1 DEF OnTop, n
  <2> QED
    BY <1>1, <2>1
<1>9. Frame(mem', it, rip, rsp, reg)
  <2>1. rsp >= 1
    BY <1>5, <1>6, <1>7
  <2> QED
    BY <1>2, <1>6, <1>8, <2>1, FrameStays
<1>10. Numbered(mem', it, top)
  <2>1. CASE Own \in WithErrorCode
    <3>1. mem'[top - 6] = Num(it.code)
      BY <1>1, <1>2, <1>9, <2>1 DEF Frame, top
    <3>2. mem'[rsp - 1] = Num(it.vector) /\ rsp - 1 = top - 7
      BY <1>2, <1>3, <1>4, <1>8, <2>1
    <3> QED
      BY <1>4, <2>1, <3>1, <3>2 DEF Numbered
  <2>2. CASE Own \notin WithErrorCode
    <3>1. /\ mem'[rsp - 1] = Num(Number(it)) /\ mem'[rsp - 2] = Num(it.vector)
          /\ rsp - 1 = top - 6 /\ rsp - 2 = top - 7
      BY <1>2, <1>3, <1>4, <1>8, <2>2
    <3> QED
      BY <3>1 DEF Numbered
  <2> QED
    BY <2>1, <2>2
<1>11. Frame(mem', it, rip', rsp', reg')
  BY <1>1, <1>2, <1>3, <1>7, <1>9, <1>10 DEF Frame, top
<1>12. rip' \in Places
  BY <1>1, <1>2 DEF Places, Stages
<1> QED
  BY <1>1, <1>2, <1>6, <1>7, <1>8, <1>11, <1>12, StageKeeps DEF it

\* The registers are saved.
LEMMA SaveKeeps == IInv /\ Save => IInv'
<1> SUFFICES ASSUME IInv, Save PROVE IInv'
  OBVIOUS
<1> DEFINE it  == interrupted[1]
           top == Aligned(it.rsp)
           ws  == [i \in 1 .. 8 |-> IF i = 8 THEN reg["ds"] ELSE reg[Pushaq[i]]]
<1>1. Len(ws) = 8 /\ ws[8] = reg["ds"] /\ \A i \in 1 .. 7 : ws[i] = reg[Pushaq[i]]
  OBVIOUS
<1>2. /\ rip[1] = "stub" /\ rip[3] = "save"
      /\ mem' = Pushed(mem, rsp, ws) /\ rsp' = rsp - 8
      /\ reg' = [reg EXCEPT !["rax"] = <<"data", "-">>,
                            !["ds"] = <<"data", "-">>, !["es"] = <<"data", "-">>]
      /\ shadow' = FALSE /\ rip' = <<"stub", Own, "handler">>
      /\ UNCHANGED <<if, nmi_blocked, interrupted>>
  BY <1>1 DEF Save, InStub, Push, GoTo
<1>3. /\ interrupted # <<>> /\ it \in Interruption /\ it.vector = Own /\ Own \in Vectors
      /\ it.rsp <= STACK /\ top \in Nat /\ top >= 18 /\ top <= STACK
      /\ Frame(mem, it, rip, rsp, reg)
  BY <1>2, InAStub
<1>4. reg = it.reg /\ rsp = top - 7
  BY <1>2, <1>3 DEF Frame
<1> HIDE DEF it, top, ws
<1>5. /\ DOMAIN mem = 1 .. STACK /\ STACK \in Nat /\ rsp \in Nat /\ rsp <= STACK
      /\ reg \in [Registers -> RegWord] /\ nmi_blocked \in BOOLEAN /\ if \in BOOLEAN
      /\ rip \in Places
  BY RoomLeft DEF IInv, Types
<1>6. 8 < rsp /\ rsp' = top - 15 /\ rsp' \in Nat
  BY <1>2, <1>3, <1>4
<1>7. /\ DOMAIN mem' = 1 .. STACK
      /\ \A a \in 1 .. STACK : a >= rsp => mem'[a] = mem[a]
      /\ \A d \in 1 .. 8 : mem'[rsp - d] = ws[d]
  <2>1. /\ DOMAIN Pushed(mem, rsp, ws) = 1 .. STACK
        /\ \A a \in 1 .. STACK : a >= rsp => Pushed(mem, rsp, ws)[a] = mem[a]
        /\ \A d \in 1 .. Len(ws) : Pushed(mem, rsp, ws)[rsp - d] = ws[d]
    <3>1. Len(ws) \in Nat /\ Len(ws) < rsp
      BY <1>1, <1>6
    <3>2. OnTop(mem, Pushed(mem, rsp, ws), rsp, ws)
      BY <1>5, <3>1, PushKeeps
    <3> QED
      BY <3>2 DEF OnTop
  <2> QED
    BY <1>1, <1>2, <2>1
<1>8. Frame(mem', it, rip, rsp, reg)
  <2>1. rsp >= 1
    BY <1>5, <1>6
  <2> QED
    BY <1>3, <1>5, <1>7, <2>1, FrameStays
<1>9. /\ \A i \in 1 .. 7 : mem'[top - 7 - i] = it.reg[Pushaq[i]]
      /\ mem'[top - 15] = it.reg["ds"]
  <2>1. ASSUME NEW d \in 1 .. 8 PROVE mem'[top - 7 - d] = ws[d]
    BY <1>4, <1>7
  <2>2. top - 7 - 8 = top - 15
    BY <1>3
  <2> QED
    BY <1>1, <1>4, <2>1, <2>2
<1>10. Frame(mem', it, rip', rsp', reg')
  BY <1>2, <1>3, <1>6, <1>8, <1>9 DEF Frame, top
<1>11. rip' \in Places
  BY <1>2, <1>3 DEF Places, Stages
<1>12. reg' \in [Registers -> RegWord] /\ reg'["ds"] = reg'["es"]
  BY <1>2, <1>5, PushaqPlace DEF RegWord, Registers
<1> QED
  BY <1>2, <1>3, <1>5, <1>6, <1>7, <1>10, <1>11, <1>12, StageKeeps DEF it

\* The handler writes below the frame, and leaves the segments alone.
LEMMA HandlerKeeps == IInv /\ Handler => IInv'
<1> SUFFICES ASSUME IInv, Handler PROVE IInv'
  OBVIOUS
<1> DEFINE it  == interrupted[1]
           top == Aligned(it.rsp)
           ws  == <<Junk, Junk>>
<1>1. Len(ws) = 2
  OBVIOUS
<1> HIDE DEF ws
<1>2. /\ rip[1] = "stub" /\ rip[3] = "handler"
      /\ mem' = Pushed(mem, rsp, ws)
      /\ reg' = [r \in Registers |-> IF r \in CallerSaved THEN Junk ELSE reg[r]]
      /\ shadow' = FALSE /\ rip' = <<"stub", Own, "restore">>
      /\ UNCHANGED <<rsp, if, nmi_blocked, interrupted>>
  BY DEF Handler, InStub, GoTo, ws
<1>3. /\ interrupted # <<>> /\ it \in Interruption /\ it.vector = Own /\ Own \in Vectors
      /\ it.rsp <= STACK /\ top \in Nat /\ top >= 18 /\ top <= STACK
      /\ Frame(mem, it, rip, rsp, reg)
  BY <1>2, InAStub
<1>4. rsp = top - 15
  BY <1>2, <1>3 DEF Frame
<1> HIDE DEF it, top
<1>5. /\ DOMAIN mem = 1 .. STACK /\ STACK \in Nat /\ rsp \in Nat /\ rsp <= STACK
      /\ reg \in [Registers -> RegWord] /\ nmi_blocked \in BOOLEAN /\ if \in BOOLEAN
      /\ rip \in Places /\ reg["ds"] = reg["es"]
  BY RoomLeft DEF IInv, Types, SegmentsAgree
<1>6. 2 < rsp
  BY <1>3, <1>4
<1>7. /\ DOMAIN mem' = 1 .. STACK
      /\ \A a \in 1 .. STACK : a >= rsp => mem'[a] = mem[a]
  <2>1. /\ DOMAIN Pushed(mem, rsp, ws) = 1 .. STACK
        /\ \A a \in 1 .. STACK : a >= rsp => Pushed(mem, rsp, ws)[a] = mem[a]
    <3>1. Len(ws) \in Nat /\ Len(ws) < rsp
      BY <1>1, <1>6
    <3>2. OnTop(mem, Pushed(mem, rsp, ws), rsp, ws)
      BY <1>5, <3>1, PushKeeps
    <3> QED
      BY <3>2 DEF OnTop
  <2> QED
    BY <1>2, <2>1
<1>8. Frame(mem', it, rip, rsp, reg)
  BY <1>3, <1>5, <1>6, <1>7, FrameStays
<1>9. Frame(mem', it, rip', rsp', reg')
  BY <1>2, <1>3, <1>8 DEF Frame
<1>10. rip' \in Places
  BY <1>2, <1>3 DEF Places, Stages
<1>11. reg' \in [Registers -> RegWord] /\ reg'["ds"] = reg'["es"]
  BY <1>2, <1>5, PushaqPlace DEF RegWord, CallerSaved
<1> QED
  BY <1>2, <1>3, <1>5, <1>7, <1>9, <1>10, <1>11, StageKeeps DEF it

\* The pops take back the registers that were saved.
LEMMA PopsWhatWasPushed ==
    ASSUME NEW it \in Interruption, NEW top \in Nat, rsp = top - 15,
           \A i \in 1 .. 7 : mem[top - 7 - i] = it.reg[Pushaq[i]],
           mem[top - 15] = it.reg["ds"], it.reg["ds"] = it.reg["es"]
    PROVE  Popped = it.reg
<1>1. it.reg \in [Registers -> RegWord]
  BY DEF Interruption
<1>2. ASSUME NEW r \in Registers PROVE Popped[r] = it.reg[r]
  <2>1. CASE r \in {"ds", "es"}
    BY <2>1 DEF Popped
  <2>2. CASE r \notin {"ds", "es"}
    <3>1. PICK i \in 1 .. 7 : Pushaq[i] = r
      BY <2>2, PushaqPlace
    <3>2. (CHOOSE j \in 1 .. 7 : Pushaq[j] = r) = i
      BY <3>1, PushaqPlace
    <3>3. rsp + 8 - i = top - 7 - i
      OBVIOUS
    <3>4. Popped[r] = mem[rsp + 8 - i]
      BY <2>2, <3>2 DEF Popped
    <3> QED
      BY <3>1, <3>3, <3>4
  <2> QED
    BY <2>1, <2>2
<1>3. Popped = [r \in Registers |-> Popped[r]]
  BY DEF Popped
<1> QED
  BY <1>1, <1>2, <1>3

LEMMA RestoreKeeps == IInv /\ Restore => IInv'
<1> SUFFICES ASSUME IInv, Restore PROVE IInv'
  OBVIOUS
<1> DEFINE it  == interrupted[1]
           top == Aligned(it.rsp)
<1>1. /\ rip[1] = "stub" /\ rip[3] = "restore"
      /\ reg' = Popped /\ rsp' = rsp + 8 + 2
      /\ shadow' = FALSE /\ rip' = <<"stub", Own, "sti">>
      /\ UNCHANGED <<mem, if, nmi_blocked, interrupted>>
  BY DEF Restore, InStub, GoTo
<1>2. /\ interrupted # <<>> /\ it \in Interruption /\ it.vector = Own /\ Own \in Vectors
      /\ it.reg \in [Registers -> RegWord] /\ it.reg["ds"] = it.reg["es"]
      /\ top \in Nat /\ top >= 18 /\ top <= STACK
      /\ Frame(mem, it, rip, rsp, reg)
  BY <1>1, InAStub
<1>3. /\ rsp = top - 15
      /\ \A i \in 1 .. 7 : mem[top - 7 - i] = it.reg[Pushaq[i]]
      /\ mem[top - 15] = it.reg["ds"]
  BY <1>1, <1>2 DEF Frame
<1> HIDE DEF it, top
<1>4. reg' = it.reg
  BY <1>1, <1>2, <1>3, PopsWhatWasPushed
<1>5. rsp' = top - 5 /\ rsp' \in Nat
  BY <1>1, <1>2, <1>3
<1>6. Frame(mem', it, rip', rsp', reg')
  BY <1>1, <1>2, <1>4, <1>5 DEF Frame, top
<1>7. rip' \in Places
  BY <1>1, <1>2 DEF Places, Stages
<1>8. /\ DOMAIN mem = 1 .. STACK /\ nmi_blocked \in BOOLEAN /\ if \in BOOLEAN
  BY DEF IInv, Types
<1> QED
  BY <1>1, <1>2, <1>4, <1>5, <1>6, <1>7, <1>8, StageKeeps DEF it

LEMMA StiKeeps == IInv /\ Sti => IInv'
<1> SUFFICES ASSUME IInv, Sti PROVE IInv'
  OBVIOUS
<1> DEFINE it == interrupted[1]
<1>1. /\ rip[1] = "stub" /\ rip[3] = "sti"
      /\ if' = TRUE /\ shadow' = TRUE /\ rip' = <<"stub", Own, "iretq">>
      /\ UNCHANGED <<mem, rsp, reg, nmi_blocked, interrupted>>
  BY DEF Sti, InStub
<1>2. /\ interrupted # <<>> /\ it.vector = Own /\ Own \in Vectors
      /\ Frame(mem, it, rip, rsp, reg)
  BY <1>1, InAStub
<1> HIDE DEF it
<1>3. Frame(mem', it, rip', rsp', reg')
  BY <1>1, <1>2 DEF Frame
<1>4. rip' \in Places
  BY <1>1, <1>2 DEF Places, Stages
<1>5. /\ DOMAIN mem = 1 .. STACK /\ rsp \in Nat /\ nmi_blocked \in BOOLEAN
      /\ reg \in [Registers -> RegWord] /\ reg["ds"] = reg["es"]
  BY DEF IInv, Types, SegmentsAgree
<1> QED
  BY <1>1, <1>2, <1>3, <1>4, <1>5, StageKeeps DEF it

\* The return takes from the frame what the delivery put there, and what was
\* interrupted runs again.
LEMMA IretqReturns ==
    ASSUME IInv, Iretq
    PROVE  /\ rip' = interrupted[1].rip /\ rsp' = interrupted[1].rsp
           /\ if' = interrupted[1].if /\ reg' = interrupted[1].reg
           /\ reg = interrupted[1].reg
<1> DEFINE it  == interrupted[1]
           top == Aligned(it.rsp)
<1>1. /\ rip[1] = "stub" /\ rip[3] = "iretq"
      /\ rip' = mem[rsp] /\ if' = mem[rsp + 2][2] /\ rsp' = mem[rsp + 3][2]
      /\ reg' = reg
  BY DEF Iretq, InStub
<1>2. top \in Nat /\ Frame(mem, it, rip, rsp, reg)
  BY <1>1, InAStub
<1>3. /\ mem[top - 2] = Num(it.rsp) /\ mem[top - 3] = <<"rflags", it.if>>
      /\ mem[top - 5] = it.rip /\ rsp = top - 5 /\ reg = it.reg
  BY <1>1, <1>2 DEF Frame
<1> HIDE DEF it, top
<1>4. rsp + 2 = top - 3 /\ rsp + 3 = top - 2
  BY <1>2, <1>3
<1>5. rip' = it.rip /\ if' = it.if /\ rsp' = it.rsp /\ reg' = it.reg /\ reg = it.reg
  BY <1>1, <1>3, <1>4 DEF Num
<1> QED
  BY <1>5 DEF it

LEMMA IretqKeeps == IInv /\ Iretq => IInv'
<1> SUFFICES ASSUME IInv, Iretq PROVE IInv'
  OBVIOUS
<1> DEFINE it == interrupted[1]
<1>1. /\ rip[1] = "stub" /\ shadow' = FALSE /\ nmi_blocked' = FALSE
      /\ interrupted' = Tail(interrupted) /\ mem' = mem
  BY DEF Iretq, InStub
<1>2. rip' = it.rip /\ rsp' = it.rsp /\ if' = it.if /\ reg' = it.reg
  BY IretqReturns
<1>3. /\ interrupted # <<>> /\ 1 \in 1 .. Depth
      /\ it.reg \in [Registers -> RegWord] /\ it.rip \in Places
      /\ it.if \in BOOLEAN /\ it.rsp \in Nat
  BY <1>1, InAStub
<1>4. /\ interrupted' \in Seq(Interruption) /\ Depth' = Depth - 1
      /\ \A j \in 1 .. Depth - 1 : interrupted'[j] = interrupted[j + 1]
  <2>1. interrupted \in Seq(Interruption)
    BY DEF IInv, Types
  <2>2. /\ Tail(interrupted) \in Seq(Interruption) /\ Len(Tail(interrupted)) = Depth - 1
        /\ \A j \in 1 .. Len(Tail(interrupted)) : Tail(interrupted)[j] = interrupted[j + 1]
    BY <1>3, <2>1, HeadTailProperties DEF Depth
  <2> QED
    BY <1>1, <2>2 DEF Depth
<1>5. Depth \in Nat /\ Depth \in Nat \ {0}
  BY <1>3, RoomLeft DEF IInv
<1>6. Types'
  <2>1. DOMAIN mem = 1 .. STACK
    BY DEF IInv, Types
  <2> QED
    BY <1>1, <1>2, <1>3, <1>4, <2>1 DEF Types
<1>7. Room'
  <2>1. /\ Depth <= MaxDepth
        /\ \A j \in 1 .. Depth :
              /\ Lowest(Depth - j) <= interrupted[j].rsp /\ interrupted[j].rsp <= STACK
              /\ \A k \in j .. Depth : interrupted[j].rsp <= interrupted[k].rsp
    BY DEF IInv, Room
  <2>2. MaxDepth \in Nat
    BY RoomLeft DEF IInv
  <2>3. Lowest(Depth - 1) <= rsp' /\ rsp' <= STACK
    BY <1>2, <1>3, <2>1
  <2>4. ASSUME NEW j \in 1 .. Depth - 1
        PROVE  /\ Lowest(Depth - 1 - j) <= interrupted'[j].rsp
               /\ rsp' <= interrupted'[j].rsp /\ interrupted'[j].rsp <= STACK
               /\ \A k \in j .. Depth - 1 : interrupted'[j].rsp <= interrupted'[k].rsp
    <3>1. j + 1 \in 1 .. Depth /\ j + 1 \in 1 .. Depth /\ Depth - 1 - j = Depth - (j + 1)
      BY <1>5
    <3>2. interrupted'[j] = interrupted[j + 1]
      BY <1>4
    <3>3. rsp' <= interrupted[j + 1].rsp
      BY <1>2, <1>3, <2>1, <3>1
    <3>4. ASSUME NEW k \in j .. Depth - 1
          PROVE  interrupted[j + 1].rsp <= interrupted'[k].rsp
      <4>1. k \in 1 .. Depth - 1 /\ k + 1 \in j + 1 .. Depth
        BY <1>5
      <4> QED
        BY <1>4, <2>1, <3>1, <4>1
    <3> QED
      BY <2>1, <3>1, <3>2, <3>3, <3>4
  <2> DEFINE deep(n) == \A j \in 1 .. n :
                /\ Lowest(n - j) <= interrupted'[j].rsp
                /\ rsp' <= interrupted'[j].rsp /\ interrupted'[j].rsp <= STACK
                /\ \A k \in j .. n : interrupted'[j].rsp <= interrupted'[k].rsp
  <2>5. deep(Depth - 1)
    BY <1>5, <2>4 DEF Lowest
  <2> HIDE DEF deep
  <2>6. deep(Depth')
    BY <1>4, <2>5
  <2>7. Lowest(Depth') <= rsp' /\ rsp' <= STACK /\ Depth' <= MaxDepth
    BY <1>4, <1>5, <2>1, <2>2, <2>3
  <2> QED
    BY <2>6, <2>7 DEF Room, Lowest, deep
<1>8. Frames'
  <2>1. interrupted[Depth].rip[1] = "main"
    BY <1>3 DEF IInv, Frames
  <2>2. ASSUME NEW j \in 1 .. Depth - 1 PROVE OuterFrame(mem, j)
    BY DEF IInv, Frames
  <2>3. interrupted' = <<>> => rip'[1] = "main"
    <3>1. ASSUME interrupted' = <<>> PROVE Depth = 1
      BY <1>4, <1>5, <3>1 DEF Depth
    <3> QED
      BY <1>2, <2>1, <3>1
  <2>4. ASSUME interrupted' # <<>>
        PROVE  /\ Frame(mem', interrupted'[1], rip', rsp', reg')
               /\ interrupted'[Depth'].rip[1] = "main"
    <3>1. Depth' # 0
      BY <1>4, <2>4, EmptySeq DEF Depth
    <3>2. 1 \in 1 .. Depth - 1 /\ Depth - 1 \in 1 .. Depth - 1 /\ (Depth - 1) + 1 = Depth
      BY <1>4, <1>5, <3>1
    <3>3. interrupted'[1] = interrupted[2] /\ interrupted'[Depth - 1] = interrupted[Depth]
      BY <1>4, <3>2
    <3>4. OuterFrame(mem, 1)
      BY <2>2, <3>2
    <3>5. Frame(mem, interrupted[2], it.rip, it.rsp, it.reg)
      BY <3>4 DEF OuterFrame
    <3> QED
      BY <1>1, <1>2, <1>4, <2>1, <3>3, <3>5
  <2>5. ASSUME NEW j \in 1 .. Depth - 2 PROVE OuterFrame(mem, j)'
    <3>1. j \in 1 .. Depth - 1 /\ j + 1 \in 1 .. Depth - 1
      BY <1>5
    <3>2. interrupted'[j] = interrupted[j + 1] /\ interrupted'[j + 1] = interrupted[(j + 1) + 1]
      BY <1>4, <3>1
    <3>3. OuterFrame(mem, j + 1)
      BY <2>2, <3>1
    <3> QED
      BY <1>1, <3>2, <3>3 DEF OuterFrame
  <2>6. \A j \in 1 .. Depth' - 1 : OuterFrame(mem, j)'
    BY <1>4, <1>5, <2>5
  <2> QED
    BY <2>3, <2>4, <2>6 DEF Frames
<1>9. SegmentsAgree'
  <2>1. ASSUME NEW j \in 1 .. Depth - 1
        PROVE  interrupted'[j].reg["ds"] = interrupted'[j].reg["es"]
    <3>1. j + 1 \in 1 .. Depth
      BY <1>5
    <3> QED
      BY <1>4, <3>1 DEF IInv, SegmentsAgree
  <2>2. reg'["ds"] = reg'["es"]
    BY <1>2, <1>3 DEF IInv, SegmentsAgree
  <2> QED
    BY <1>4, <2>1, <2>2 DEF SegmentsAgree
<1> QED
  BY <1>6, <1>7, <1>8, <1>9 DEF IInv

\* The interrupted program's own steps, while nothing is interrupted.
LEMMA LeafKeeps == IInv /\ (EnterLeaf \/ LeaveLeaf) => IInv'
<1> SUFFICES ASSUME IInv, EnterLeaf \/ LeaveLeaf PROVE IInv'
  OBVIOUS
<1>1. /\ rip[1] = "main" /\ rip'[1] = "main" /\ rip' \in Places /\ shadow' = FALSE
      /\ DOMAIN mem' = DOMAIN mem
      /\ UNCHANGED <<rsp, reg, if, nmi_blocked, interrupted>>
  BY DEF EnterLeaf, LeaveLeaf, Places
<1>2. interrupted = <<>> /\ Depth = 0
  BY <1>1, StubRuns
<1>3. Types'
  BY <1>1 DEF IInv, Types
<1>4. Room'
  BY <1>1 DEF IInv, Room, Depth
<1>5. Frames'
  <2>1. Depth' = 0 /\ interrupted' = <<>>
    BY <1>1, <1>2 DEF Depth
  <2> QED
    BY <1>1, <2>1 DEF Frames
<1>6. SegmentsAgree'
  BY <1>1 DEF IInv, SegmentsAgree, Depth
<1> QED
  BY <1>3, <1>4, <1>5, <1>6 DEF IInv

LEMMA Keeps == IInv /\ [Next]_vars => IInv'
<1> SUFFICES ASSUME IInv, [Next]_vars PROVE IInv'
  OBVIOUS
<1> USE DEF IInv, Types
<1>1. CASE Fault
  <2>1. PICK v \in Exceptions, code \in ErrorCodes :
           Deliver(v, code) /\ nmi_blocked' = (nmi_blocked \/ v = NMI)
    BY <1>1 DEF Fault
  <2>2. nmi_blocked' \in BOOLEAN /\ v \in Vectors
    BY <2>1 DEF Vectors
  <2> QED
    BY <2>1, <2>2, DeliverKeeps
<1>2. CASE Nmi
  <2>1. Deliver(NMI, 0) /\ nmi_blocked' \in BOOLEAN /\ NMI \in Vectors
    BY <1>2 DEF Nmi, Vectors
  <2> QED
    BY <2>1, DeliverKeeps
<1>3. CASE Irq
  <2>1. PICK n \in Irqs : Deliver(32 + n, 0)
    BY <1>3 DEF Irq
  <2>2. 32 + n \in Vectors /\ nmi_blocked' \in BOOLEAN
    BY <1>3 DEF Vectors, Irq
  <2> QED
    BY <2>1, <2>2, DeliverKeeps
<1>4. CASE EnterLeaf \/ LeaveLeaf
  BY <1>4, LeafKeeps
<1>5. CASE StubEntry
  BY <1>5, StubEntryKeeps
<1>6. CASE Save
  BY <1>6, SaveKeeps
<1>7. CASE Handler
  BY <1>7, HandlerKeeps
<1>8. CASE Restore
  BY <1>8, RestoreKeeps
<1>9. CASE Sti
  BY <1>9, StiKeeps
<1>10. CASE Iretq
  BY <1>10, IretqKeeps
<1>11. CASE UNCHANGED vars
  BY <1>11 DEF vars, Room, Frames, SegmentsAgree, Depth, OuterFrame
<1> QED
  BY <1>1, <1>2, <1>3, <1>4, <1>5, <1>6, <1>7, <1>8, <1>9, <1>10, <1>11 DEF Next

-----------------------------------------------------------------------------
(* The theorems.                                                           *)

\* Below every interruption lies its frame, whatever comes in between.
THEOREM Invariance == Spec => []IInv
<1>1. Init => IInv
  BY Starts
<1>2. IInv /\ [Next]_vars => IInv'
  BY Keeps
<1> QED
  BY <1>1, <1>2, PTL DEF Spec

\* The stack pointer stays in the stack, and what runs is main or the stub of a
\* vector: no gate leads anywhere else.
THEOREM FrameTypes == Spec => []FrameTypeOK
<1>1. IInv => FrameTypeOK
  <2> SUFFICES ASSUME IInv PROVE FrameTypeOK
    OBVIOUS
  <2>1. rip[1] \in {"main", "stub"}
    BY StubRuns
  <2>2. rsp \in 1 .. STACK
    BY RoomLeft DEF IInv
  <2>3. Len(interrupted) \in 0 .. MaxDepth
    BY RoomLeft DEF IInv, Room, Depth
  <2> QED
    BY <2>1, <2>2, <2>3 DEF IInv, Types, FrameTypeOK
<1> QED
  BY <1>1, Invariance, PTL

\* The C handler finds the vector, the error code or request number, the
\* registers, the instruction and the stack pointer of what was interrupted in
\* the fields of its parameters.
THEOREM HandlerSees == Spec => []HandlerSeesWhatWasInterrupted
<1>1. IInv => HandlerSeesWhatWasInterrupted
  <2> SUFFICES ASSUME IInv, InStub("handler") PROVE HandlerSeesWhatWasInterrupted
    BY DEF HandlerSeesWhatWasInterrupted
  <2> DEFINE it  == interrupted[1]
             top == Aligned(it.rsp)
  <2>1. top \in Nat /\ Frame(mem, it, rip, rsp, reg)
    BY InAStub DEF InStub
  <2>2. /\ rsp = top - 15 /\ mem[top - 6] = Num(Number(it)) /\ mem[top - 7] = Num(it.vector)
        /\ mem[top - 2] = Num(it.rsp) /\ mem[top - 5] = it.rip
        /\ \A i \in 1 .. 7 : mem[top - 7 - i] = it.reg[Pushaq[i]]
    BY <2>1 DEF Frame, InStub, Numbered
  <2> HIDE DEF it, top
  <2>3. /\ rsp + 8 = top - 7 /\ rsp + 9 = top - 6 /\ rsp + 10 = top - 5
        /\ rsp + 13 = top - 2 /\ \A i \in 1 .. 7 : rsp + (8 - i) = top - 7 - i
    BY <2>1, <2>2
  <2>4. /\ Parameters.int_no = Num(it.vector) /\ Parameters.code = Num(Number(it))
        /\ Parameters.eip = it.rip /\ Parameters.useresp = Num(it.rsp)
    BY <2>2, <2>3 DEF Parameters
  <2>5. \A i \in 1 .. 7 : Parameters[Pushaq[i]] = it.reg[Pushaq[i]]
    <3>1. \A i \in 1 .. 7 : Parameters[Pushaq[i]] = mem[rsp + (8 - i)]
      BY DEF Parameters, Pushaq
    <3> QED
      BY <2>2, <2>3, <3>1
  <2> QED
    BY <2>4, <2>5 DEF HandlerSeesWhatWasInterrupted, Number, it
<1> QED
  BY <1>1, Invariance, PTL

\* An iretq restores what its own delivery interrupted.
THEOREM Returns == Spec => ReturnRestores
<1>1. IInv /\ [Next]_vars
        => [Iretq => LET it == interrupted[1]
                     IN  /\ rip' = it.rip /\ rsp' = it.rsp /\ if' = it.if
                         /\ reg' = it.reg]_vars
  BY IretqReturns
<1> QED
  BY <1>1, Invariance, PTL DEF Spec, ReturnRestores
=============================================================================
