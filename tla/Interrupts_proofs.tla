-------------------------- MODULE Interrupts_proofs --------------------------
(***************************************************************************)
(* Proofs about interrupts, for every set of devices and any number of     *)
(* keys: the handlers run one at a time, only for vectors that are set up, *)
(* and leave nothing in service behind; and the keyboard loses nothing:    *)
(* every scancode is printed, in the handler, in the output buffer of the  *)
(* keyboard controller or still in the keyboard, in the order of the keys. *)
(***************************************************************************)
EXTENDS Interrupts, SequenceTheorems, TLAPS

-----------------------------------------------------------------------------
(* The controllers.                                                        *)

\* Highest is the least element of a set of lines that is not empty.
LEMMA HighestIsLeast ==
    ASSUME NEW S \in SUBSET Lines, S # {}
    PROVE  Highest(S) \in S /\ \A m \in S : Highest(S) <= m
<1>1. \E n \in S : \A m \in S : n <= m
  <2>1. S \subseteq {0, 1, 2, 3, 4, 5, 6, 7}
    BY DEF Lines
  <2>2. CASE 0 \in S
    BY <2>1, <2>2
  <2>3. CASE 0 \notin S /\ 1 \in S
    BY <2>1, <2>3
  <2>4. CASE S \cap {0, 1} = {} /\ 2 \in S
    BY <2>1, <2>4
  <2>5. CASE S \cap {0, 1, 2} = {} /\ 3 \in S
    BY <2>1, <2>5
  <2>6. CASE S \cap {0, 1, 2, 3} = {} /\ 4 \in S
    BY <2>1, <2>6
  <2>7. CASE S \cap {0, 1, 2, 3, 4} = {} /\ 5 \in S
    BY <2>1, <2>7
  <2>8. CASE S \cap {0, 1, 2, 3, 4, 5} = {} /\ 6 \in S
    <3>1. S \subseteq {6, 7}
      BY <2>1, <2>8
    <3> QED
      BY <2>8, <3>1
  <2>9. CASE S \cap {0, 1, 2, 3, 4, 5, 6} = {}
    <3>1. S = {7}
      BY <2>1, <2>9
    <3> QED
      BY <3>1
  <2> QED
    BY <2>2, <2>3, <2>4, <2>5, <2>6, <2>7, <2>8, <2>9
<1> QED
  BY <1>1 DEF Highest

\* The mask byte 0x01 masks line 0 and no other.
LEMMA MaskOfOne == LinesOf(1) = {0}
<1>1. ASSUME NEW n \in Lines
      PROVE  (1 \div BitWeight[n + 1]) % 2 = 1 <=> n = 0
  <2>1. n \in {0, 1, 2, 3, 4, 5, 6, 7}
    BY DEF Lines
  <2>2. CASE n = 0
    BY <2>2 DEF BitWeight
  <2>3. CASE n # 0
    <3>1. BitWeight[n + 1] \in {2, 4, 8, 16, 32, 64, 128}
      BY <2>1, <2>3 DEF BitWeight
    <3>2. 1 \div BitWeight[n + 1] = 0
      BY <3>1
    <3> QED
      BY <2>3, <3>2
  <2> QED
    BY <2>2, <2>3
<1> QED
  BY <1>1 DEF LinesOf, Lines

\* A chip, rebuilt from its fields.
LEMMA ChipFields ==
    ASSUME NEW i \in {0, 2, 3, 4}, NEW b \in 0 .. 255,
           NEW m \in SUBSET Lines, NEW r \in SUBSET Lines, NEW s \in SUBSET Lines
    PROVE  [icw |-> i, base |-> b, imr |-> m, irr |-> r, isr |-> s] \in Chip
BY DEF Chip

\* The latches of a chip take any set of lines.
LEMMA ChipUpdate ==
    /\ \A c \in Chip, x \in SUBSET Lines : [c EXCEPT !.irr = x] \in Chip
    /\ \A c \in Chip, x \in SUBSET Lines : [c EXCEPT !.isr = x] \in Chip
  BY DEF Chip

\* What every write to the command port does: 0x11 restarts the chip.
LEMMA Restart ==
    ASSUME NEW chip \in Chip
    PROVE  /\ Command(chip, 17) \in Chip
           /\ Command(chip, 17).icw = 2
           /\ Command(chip, 17).isr = {}
           /\ Command(chip, 17).irr = {}
<1>1. Command(chip, 17) =
        [icw |-> 2, base |-> chip.base, imr |-> {}, irr |-> {}, isr |-> {}]
  BY DEF Command, ICW1, Chip
<1>2. chip.base \in 0 .. 255
  BY DEF Chip
<1>3. Command(chip, 17) \in Chip
  BY <1>1, <1>2, ChipFields, Zenon
<1> QED
  BY <1>1, <1>3

\* An end of interrupt changes nothing but what is in service, and ends the
\* only interrupt in service.
LEMMA EndOfInterrupt ==
    ASSUME NEW chip \in Chip
    PROVE  /\ Command(chip, EOI) \in Chip
           /\ Command(chip, EOI).icw = chip.icw
           /\ Command(chip, EOI).base = chip.base
           /\ Command(chip, EOI).imr = chip.imr
           /\ Command(chip, EOI).irr = chip.irr
           /\ (\E n \in Lines : chip.isr \subseteq {n}) => Command(chip, EOI).isr = {}
<1> DEFINE left == IF chip.isr # {} THEN chip.isr \ {Highest(chip.isr)} ELSE chip.isr
<1>1. left \in SUBSET Lines
  BY DEF Chip
<1>0. Command(chip, EOI) = [chip EXCEPT !.isr = left]
  BY DEF Command, EOI, ICW1
<1>2. Command(chip, EOI) =
        [icw |-> chip.icw, base |-> chip.base, imr |-> chip.imr,
         irr |-> chip.irr, isr |-> left]
  BY DEF Command, EOI, ICW1, Chip
<1>3. ASSUME NEW n \in Lines, chip.isr \subseteq {n}
      PROVE  left = {}
  BY <1>3, HighestIsLeast DEF Chip
<1> HIDE DEF left
<1>5. Command(chip, EOI) \in Chip
  BY <1>0, <1>1, ChipUpdate, Zenon
<1> QED
  BY <1>2, <1>3, <1>5

\* A write to the data port: the next word of the initialisation, or the mask.
LEMMA DataWord ==
    ASSUME NEW chip \in Chip, NEW byte \in 0 .. 255
    PROVE  /\ Data(chip, byte) \in Chip
           /\ Data(chip, byte).isr = chip.isr
           /\ Data(chip, byte).irr = chip.irr
           /\ chip.icw = 0 => /\ Data(chip, byte).icw = 0
                              /\ Data(chip, byte).base = chip.base
                              /\ Data(chip, byte).imr = LinesOf(byte)
           /\ chip.icw # 0 => Data(chip, byte).imr = chip.imr
           /\ chip.icw = 2 => Data(chip, byte).icw = 3 /\ Data(chip, byte).base = byte
           /\ chip.icw = 3 => Data(chip, byte).icw = 4 /\ Data(chip, byte).base = chip.base
           /\ chip.icw = 4 => Data(chip, byte).icw = 0 /\ Data(chip, byte).base = chip.base
<1>1. LinesOf(byte) \in SUBSET Lines
  BY DEF LinesOf
<1>2. /\ 0 \in {0, 2, 3, 4} /\ chip.base \in 0 .. 255
      /\ chip.imr \in SUBSET Lines /\ chip.irr \in SUBSET Lines /\ chip.isr \in SUBSET Lines
  BY DEF Chip
<1>3. CASE chip.icw = 0
  <2>1. Data(chip, byte) =
          [icw |-> 0, base |-> chip.base, imr |-> LinesOf(byte),
           irr |-> chip.irr, isr |-> chip.isr]
    BY <1>3 DEF Data, Chip
  <2>2. Data(chip, byte) \in Chip
    <3>1. [icw |-> 0, base |-> chip.base, imr |-> LinesOf(byte),
           irr |-> chip.irr, isr |-> chip.isr] \in Chip
      BY <1>1, <1>2 DEF Chip
    <3> QED
      BY <2>1, <3>1, Zenon
  <2> QED
    BY <1>3, <2>1, <2>2
<1>4. CASE chip.icw # 0
  <2> DEFINE next == IF chip.icw = 4 THEN 0 ELSE chip.icw + 1
             base == IF chip.icw = 2 THEN byte ELSE chip.base
  <2>1. Data(chip, byte) =
          [icw |-> next, base |-> base, imr |-> chip.imr,
           irr |-> chip.irr, isr |-> chip.isr]
    BY <1>4 DEF Data, Chip
  <2>2. next \in {0, 2, 3, 4} /\ base \in 0 .. 255
    BY <1>4 DEF Chip
  <2>3. Data(chip, byte) \in Chip
    <3> HIDE DEF next, base
    <3>1. [icw |-> next, base |-> base, imr |-> chip.imr,
           irr |-> chip.irr, isr |-> chip.isr] \in Chip
      BY <1>2, <2>2 DEF Chip
    <3> QED
      BY <2>1, <3>1, Zenon
  <2> QED
    BY <1>4, <2>1, <2>3
<1> QED
  BY <1>3, <1>4

\* After the initialisation the data port takes the mask: 0x01 masks line 0.
LEMMA DataMask ==
    ASSUME NEW chip \in Chip, chip.icw = 0
    PROVE  /\ Data(chip, 1) \in Chip
           /\ Data(chip, 1).isr = chip.isr
           /\ Data(chip, 1).irr = chip.irr
           /\ Data(chip, 1).icw = 0
           /\ Data(chip, 1).base = chip.base
           /\ Data(chip, 1).imr = {0}
<1>1. Data(chip, 1) =
        [icw |-> 0, base |-> chip.base, imr |-> {0},
         irr |-> chip.irr, isr |-> chip.isr]
  BY MaskOfOne DEF Data, Chip
<1>2. {0} \in SUBSET Lines
  BY DEF Lines
<1>3. Data(chip, 1) \in Chip
  <2>1. /\ 0 \in {0, 2, 3, 4} /\ chip.base \in 0 .. 255
        /\ chip.irr \in SUBSET Lines /\ chip.isr \in SUBSET Lines
    BY DEF Chip
  <2>2. [icw |-> 0, base |-> chip.base, imr |-> {0},
         irr |-> chip.irr, isr |-> chip.isr] \in Chip
    BY <1>2, <2>1 DEF Chip
  <2> QED
    BY <1>1, <2>2, Zenon
<1> QED
  BY <1>1, <1>3

\* An edge changes the requests, and nothing else.
LEMMA Edges ==
    ASSUME NEW chip \in Chip, NEW line \in Lines,
           NEW c, c \in {Raise(chip, line), Lower(chip, line)}
    PROVE  /\ c \in Chip
           /\ c.icw = chip.icw /\ c.base = chip.base
           /\ c.imr = chip.imr /\ c.isr = chip.isr
           /\ c.irr \subseteq chip.irr \union {line}
<1>1. /\ chip.irr \union {line} \in SUBSET Lines
      /\ chip.irr \ {line} \in SUBSET Lines
  BY DEF Chip
<1>2. Raise(chip, line) \in Chip /\ Lower(chip, line) \in Chip
  BY <1>1, ChipUpdate DEF Raise, Lower
<1>3. CASE c = Raise(chip, line)
  BY <1>2, <1>3 DEF Raise, Chip
<1>4. CASE c = Lower(chip, line)
  BY <1>2, <1>4 DEF Lower, Chip
<1> QED
  BY <1>3, <1>4

\* A line that is acknowledged is in service and no longer requests.
LEMMA AcknowledgedChip ==
    ASSUME NEW chip \in Chip, NEW line \in Lines
    PROVE  /\ Acknowledged(chip, line) \in Chip
           /\ Acknowledged(chip, line).icw = chip.icw
           /\ Acknowledged(chip, line).base = chip.base
           /\ Acknowledged(chip, line).imr = chip.imr
           /\ Acknowledged(chip, line).irr = chip.irr \ {line}
           /\ Acknowledged(chip, line).isr = chip.isr \union {line}
<1> DEFINE down == chip.irr \ {line}
           serving == chip.isr \union {line}
<1>1. down \in SUBSET Lines /\ serving \in SUBSET Lines
  BY DEF Chip
<1>2. Acknowledged(chip, line) = [chip EXCEPT !.irr = down, !.isr = serving]
  BY DEF Acknowledged
<1>3. /\ Acknowledged(chip, line).icw = chip.icw
      /\ Acknowledged(chip, line).base = chip.base
      /\ Acknowledged(chip, line).imr = chip.imr
      /\ Acknowledged(chip, line).irr = down
      /\ Acknowledged(chip, line).isr = serving
  BY DEF Acknowledged, Chip
<1> HIDE DEF down, serving
<1>4. Acknowledged(chip, line) \in Chip
  <2> DEFINE lowered == [chip EXCEPT !.irr = down]
  <2>1. lowered \in Chip
    BY <1>1, ChipUpdate
  <2>2. Acknowledged(chip, line) = [lowered EXCEPT !.isr = serving]
    BY <1>2
  <2> HIDE DEF lowered
  <2> QED
    BY <1>1, <2>1, <2>2, ChipUpdate, Zenon
<1> QED
  BY <1>3, <1>4 DEF down, serving
-----------------------------------------------------------------------------
(* The invariant.                                                          *)

\* What is set up when the next instruction of interrupts_install is ip.
Tables == /\ ip >= 2  => 0 .. 31 \subseteq gates
          /\ ip >= 13 => 32 .. 47 \subseteq gates
          /\ ip >= 14 => idtr

\* One controller before instruction n, when instructions number first,
\* first + 2 ... first + 8 of interrupts_install are the writes to its ports.
Programmed(chip, first, base, n) ==
    /\ first < n /\ n <= first + 2     => chip.icw = 2
    /\ first + 2 < n /\ n <= first + 4 => chip.icw = 3
    /\ first + 4 < n /\ n <= first + 6 => chip.icw = 4
    /\ first + 6 < n => chip.icw = 0
    /\ first + 2 < n => chip.base = base
    /\ first + 8 < n => chip.imr = {0}

\* What instruction n does to it.
Written(chip, next, first, base, n) ==
    /\ n = first => next = Command(chip, 17)
    /\ n = first + 2 => next = Data(chip, base)
    /\ n \in {first + 4, first + 6} => \E byte \in 0 .. 255 : next = Data(chip, byte)
    /\ n = first + 8 => next = Data(chip, 1)
    /\ n \notin {first, first + 2, first + 4, first + 6, first + 8} => next = chip

\* Nothing is in service, and no line requests that did not before.
Quiet(next, chip) == next.isr = {} /\ next.irr \subseteq chip.irr

Setup == /\ Tables
         /\ Programmed(leader, 2, 32, ip)
         /\ Programmed(follower, 3, 40, ip)

\* A handler runs with interrupts off, or in the shadow of its sti, and no
\* interrupt comes before the sti of interrupts_install.
Control == /\ stack = <<>> \/ Len(stack) = 1
           /\ inta => stack = <<>>
           /\ stack # <<>> => ~iflag \/ shadow
           /\ iflag \/ inta \/ stack # <<>> => ip >= 16

\* At most one line of each controller is in service, and none once the
\* handler has ended the interrupt; the line of the cascade is not a device's.
AtMostOne(lines) == \E n \in Lines : lines \subseteq {n}

Service ==
    /\ NothingInServiceAtRest
    /\ CASCADE \notin leader.irr
    /\ stack # <<>> =>
          /\ AtMostOne(leader.isr) /\ AtMostOne(follower.isr)
          /\ Top.vector < 40 => follower.isr = {}
          /\ Top.pc = "eoi_follower" => Top.vector >= 40
          /\ Top.pc \notin {"entry", "eoi_follower"} => follower.isr = {}
          /\ Top.pc \notin {"entry", "eoi_follower", "eoi_leader"} => leader.isr = {}

IInv == TypeOK /\ Setup /\ Control /\ Service /\ MaskedLinesAreSilent

\* The instructions of interrupts_install, one by one.
LEMMA Instructions ==
    /\ Len(Install) = 16
    /\ Install[1]  = Gates(0 .. 31)
    /\ Install[2]  = Out("leader", "command", 17)
    /\ Install[3]  = Out("follower", "command", 17)
    /\ Install[4]  = Out("leader", "data", 32)
    /\ Install[5]  = Out("follower", "data", 40)
    /\ Install[6]  = Out("leader", "data", 4)
    /\ Install[7]  = Out("follower", "data", 2)
    /\ Install[8]  = Out("leader", "data", 1)
    /\ Install[9]  = Out("follower", "data", 1)
    /\ Install[10] = Out("leader", "data", 1)
    /\ Install[11] = Out("follower", "data", 1)
    /\ Install[12] = Gates(32 .. 47)
    /\ Install[13] = Do("lidt")
    /\ Install[14] = Do("lidt")
    /\ Install[15] = Do("sti")
    /\ Install[16] = Do("ret")
  BY DEF Install, Remap

\* Initially nothing is set up and no interrupt is possible.
LEMMA InitIInv == Init => IInv
<1> SUFFICES ASSUME Init PROVE IInv
  OBVIOUS
<1>1. leader \in Chip /\ follower \in Chip
  BY DEF Init, Chip
<1>2. output \in [full : BOOLEAN, code : Code]
  BY DEF Init
<1>3. ip \in 1 .. Len(Install) + 1
  BY Instructions DEF Init
<1>4. TypeOK
  <2>1. /\ stack \in Seq(HandlerFrame)
        /\ keyboard \in Seq(Code) /\ typed \in Seq(Code) /\ shown \in Seq(Code)
    BY DEF Init
  <2>2. /\ gates \subseteq 0 .. 255
        /\ idtr \in BOOLEAN /\ inta \in BOOLEAN /\ early \in BOOLEAN
        /\ iflag \in BOOLEAN /\ shadow \in BOOLEAN
    BY DEF Init
  <2> QED
    BY <1>1, <1>2, <1>3, <2>1, <2>2, Zenon DEF TypeOK
<1>5. Setup
  BY DEF Init, Setup, Tables, Programmed
<1>6. Control /\ Service /\ MaskedLinesAreSilent
  BY DEF Init, Control, Service, NothingInServiceAtRest, MaskedLinesAreSilent
<1> QED
  BY <1>4, <1>5, <1>6 DEF IInv

\* A write to a port of one controller, by the number of the instruction.
LEMMA ProgrammedStep ==
    ASSUME NEW chip \in Chip, NEW next, NEW first \in {2, 3}, NEW base \in {32, 40},
           NEW n \in 1 .. 16, Programmed(chip, first, base, n),
           Written(chip, next, first, base, n), chip.isr = {}
    PROVE  next \in Chip /\ Quiet(next, chip) /\ Programmed(next, first, base, n + 1)
<1>1. CASE n = first
  <2>1. next = Command(chip, 17)
    BY <1>1 DEF Written
  <2>2. next \in Chip /\ Quiet(next, chip) /\ next.icw = 2
    BY <2>1, Restart DEF Quiet
  <2> QED
    BY <1>1, <2>2 DEF Programmed
<1>2. CASE n = first + 2
  <2>1. chip.icw = 2 /\ next = Data(chip, base) /\ base \in 0 .. 255
    BY <1>2 DEF Written, Programmed
  <2>2. /\ next \in Chip /\ Quiet(next, chip)
        /\ next.icw = 3
    BY <2>1, DataWord DEF Quiet
  <2>3. next.base = base
    BY <2>1, DataWord
  <2> QED
    BY <1>2, <2>2, <2>3 DEF Programmed
<1>3. CASE n = first + 4
  <2>1. PICK byte \in 0 .. 255 : next = Data(chip, byte)
    BY <1>3 DEF Written
  <2>2. chip.icw = 3 /\ chip.base = base
    BY <1>3 DEF Programmed
  <2>3. next \in Chip /\ Quiet(next, chip)
    BY <2>1, <2>2, DataWord DEF Quiet
  <2>5. next.icw = 4
    BY <2>1, <2>2, DataWord
  <2>4. next.base = base
    BY <2>1, <2>2, DataWord
  <2> QED
    BY <1>3, <2>3, <2>4, <2>5 DEF Programmed
<1>4. CASE n = first + 6
  <2>1. PICK byte \in 0 .. 255 : next = Data(chip, byte)
    BY <1>4 DEF Written
  <2>2. chip.icw = 4 /\ chip.base = base
    BY <1>4 DEF Programmed
  <2>3. next \in Chip /\ Quiet(next, chip)
    BY <2>1, <2>2, DataWord DEF Quiet
  <2>5. next.icw = 0
    BY <2>1, <2>2, DataWord
  <2>4. next.base = base
    BY <2>1, <2>2, DataWord
  <2> QED
    BY <1>4, <2>3, <2>4, <2>5 DEF Programmed
<1>5. CASE n = first + 8
  <2>1. next = Data(chip, 1) /\ chip.icw = 0 /\ chip.base = base
    BY <1>5 DEF Written, Programmed
  <2>2. /\ next \in Chip /\ Quiet(next, chip)
        /\ next.icw = 0 /\ next.base = base /\ next.imr = {0}
    BY <2>1, DataMask DEF Quiet
  <2> QED
    BY <1>5, <2>2 DEF Programmed
<1>6. CASE n \notin {first, first + 2, first + 4, first + 6, first + 8}
  <2>1. next = chip
    BY <1>6 DEF Written
  <2>2. Programmed(chip, first, base, n + 1)
    BY <1>6 DEF Programmed
  <2> QED
    BY <2>1, <2>2 DEF Quiet
<1> QED
  BY <1>1, <1>2, <1>3, <1>4, <1>5, <1>6

-----------------------------------------------------------------------------
(* The steps.                                                              *)

\* Which instructions are addressed to which controller.
LEMMA InstallWrites ==
    ASSUME InstallStep
    PROVE  /\ ip \in 1 .. 16 => Written(leader, leader', 2, 32, ip)
           /\ ip \in 1 .. 16 => Written(follower, follower', 3, 40, ip)
<1> DEFINE ins == Install[ip]
<1>1. /\ leader' = IF ins.op = "out" /\ ins.chip = "leader"
                   THEN IF ins.port = "command" THEN Command(leader, ins.byte)
                                                ELSE Data(leader, ins.byte)
                   ELSE leader
      /\ follower' = IF ins.op = "out" /\ ins.chip = "follower"
                     THEN IF ins.port = "command" THEN Command(follower, ins.byte)
                                                  ELSE Data(follower, ins.byte)
                     ELSE follower
  BY DEF InstallStep
<1>2. ip = 1 => ins.op = "gates"
  BY Instructions DEF Gates
<1>3. ip = 2 => ins = Out("leader", "command", 17)
  BY Instructions
<1>4. ip = 3 => ins = Out("follower", "command", 17)
  BY Instructions
<1>5. ip = 4 => ins = Out("leader", "data", 32)
  BY Instructions
<1>6. ip = 5 => ins = Out("follower", "data", 40)
  BY Instructions
<1>7. ip = 6 => ins = Out("leader", "data", 4)
  BY Instructions
<1>8. ip = 7 => ins = Out("follower", "data", 2)
  BY Instructions
<1>9. ip \in {8, 10} => ins = Out("leader", "data", 1)
  BY Instructions
<1>10. ip \in {9, 11} => ins = Out("follower", "data", 1)
  BY Instructions
<1>11. ip \in 12 .. 16 => ins.op # "out"
  BY Instructions DEF Gates, Do
<1> HIDE DEF ins
<1>12. ip \in 1 .. 16 => Written(leader, leader', 2, 32, ip)
  BY <1>1, <1>2, <1>3, <1>4, <1>5, <1>6, <1>7, <1>8, <1>9, <1>10, <1>11
     DEF Out, Written
<1>13. ip \in 1 .. 16 => Written(follower, follower', 3, 40, ip)
  BY <1>1, <1>2, <1>3, <1>4, <1>5, <1>6, <1>7, <1>8, <1>9, <1>10, <1>11
     DEF Out, Written
<1> QED
  BY <1>12, <1>13

\* What the other instructions set up.
LEMMA InstallEffects ==
    ASSUME InstallStep
    PROVE  /\ ip = 1  => gates' = gates \union 0 .. 31
           /\ ip = 12 => gates' = gates \union 32 .. 47
           /\ ip \in 2 .. 16 /\ ip # 12 => gates' = gates
           /\ ip \in {13, 14} => idtr'
           /\ idtr => idtr'
           /\ ip \in 1 .. 14 /\ iflag' => iflag
<1> DEFINE ins == Install[ip]
<1>1. /\ gates' = IF ins.op = "gates" THEN gates \union ins.set ELSE gates
      /\ idtr' = (idtr \/ ins.op = "lidt")
      /\ iflag' = (iflag \/ ins.op = "sti")
  BY DEF InstallStep
<1>2. ip = 1 => ins = Gates(0 .. 31)
  BY Instructions
<1>3. ip = 12 => ins = Gates(32 .. 47)
  BY Instructions
<1>4. ip \in 2 .. 11 => ins.op = "out"
  BY Instructions DEF Out
<1>5. ip \in {13, 14} => ins.op = "lidt"
  BY Instructions DEF Do
<1>6. ip = 15 => ins.op = "sti"
  BY Instructions DEF Do
<1>7. ip = 16 => ins.op = "ret"
  BY Instructions DEF Do
<1> HIDE DEF ins
<1>8. /\ ip = 1  => gates' = gates \union 0 .. 31
      /\ ip = 12 => gates' = gates \union 32 .. 47
  BY <1>1, <1>2, <1>3 DEF Gates
<1>9. ip \in 2 .. 16 /\ ip # 12 => gates' = gates
  BY <1>1, <1>4, <1>5, <1>6, <1>7
<1>10. (ip \in {13, 14} => idtr') /\ (idtr => idtr')
  BY <1>1, <1>5
<1>11. ip \in 1 .. 14 => ins.op # "sti"
  BY <1>2, <1>3, <1>4, <1>5 DEF Gates
<1>12. ip \in 1 .. 14 /\ iflag' => iflag
  BY <1>1, <1>11
<1> QED
  BY <1>8, <1>9, <1>10, <1>12

\* Setting up, instruction by instruction.
LEMMA InstallStepIInv == IInv /\ InstallStep => IInv'
<1> SUFFICES ASSUME IInv, InstallStep PROVE IInv'
  OBVIOUS
<1>1. /\ stack = <<>> /\ ~inta /\ ip \in 1 .. 16 /\ ip' = ip + 1
      /\ stack' = stack /\ inta' = inta
  BY Instructions DEF InstallStep, IInv, TypeOK
<1>2. leader \in Chip /\ follower \in Chip
  BY DEF IInv, TypeOK
<1>3. leader.isr = {} /\ follower.isr = {} /\ CASCADE \notin leader.irr
  BY <1>1 DEF IInv, Service, NothingInServiceAtRest
<1>4. leader' \in Chip /\ Quiet(leader', leader) /\ Programmed(leader', 2, 32, ip')
  BY <1>1, <1>2, <1>3, ProgrammedStep, InstallWrites DEF IInv, Setup
<1>5. follower' \in Chip /\ Quiet(follower', follower) /\ Programmed(follower', 3, 40, ip')
  BY <1>1, <1>2, <1>3, ProgrammedStep, InstallWrites DEF IInv, Setup
<1>6. TypeOK'
  <2>1. ip' \in 1 .. Len(Install) + 1
    BY <1>1, Instructions
  <2>2. gates' \subseteq 0 .. 255
    <3>1. gates \subseteq 0 .. 255
      BY DEF IInv, TypeOK
    <3>2. 0 .. 31 \subseteq 0 .. 255 /\ 32 .. 47 \subseteq 0 .. 255
      OBVIOUS
    <3>3. \/ gates' = gates \union 0 .. 31
          \/ gates' = gates \union 32 .. 47
          \/ gates' = gates
      BY <1>1, InstallEffects
    <3>4. ASSUME NEW v \in gates' PROVE v \in 0 .. 255
      <4>1. v \in gates \/ v \in 0 .. 31 \/ v \in 32 .. 47
        BY <3>3, <3>4
      <4>2. v \in gates => v \in 0 .. 255
        BY <3>1, Zenon
      <4>3. v \in 0 .. 31 \/ v \in 32 .. 47 => v \in 0 .. 255
        OBVIOUS
      <4> QED
        BY <4>1, <4>2, <4>3
    <3> QED
      BY <3>4
  <2>3. idtr' \in BOOLEAN /\ iflag' \in BOOLEAN /\ shadow' \in BOOLEAN
    BY Zenon DEF InstallStep, IInv, TypeOK
  <2>4. UNCHANGED <<inta, stack, early, keyboard, typed, shown, output>>
    BY DEF InstallStep, keys
  <2> QED
    BY <1>4, <1>5, <2>1, <2>2, <2>3, <2>4 DEF IInv, TypeOK
<1>7. Tables'
  <2>4. gates \subseteq gates'
    <3>1. ip = 1 \/ ip = 12 \/ (ip \in 2 .. 16 /\ ip # 12)
      BY <1>1
    <3> QED
      BY <3>1, InstallEffects
  <2>1. 0 .. 31 \subseteq gates'
    <3>1. CASE ip = 1
      BY <3>1, InstallEffects
    <3>2. CASE ip # 1
      BY <1>1, <2>4, <3>2 DEF IInv, Setup, Tables
    <3> QED
      BY <3>1, <3>2
  <2>2. ip' >= 13 => 32 .. 47 \subseteq gates'
    <3>1. CASE ip = 12
      BY <3>1, InstallEffects
    <3>2. CASE ip # 12
      BY <1>1, <2>4, <3>2 DEF IInv, Setup, Tables
    <3> QED
      BY <3>1, <3>2
  <2>3. ip' >= 14 => idtr'
    BY <1>1, InstallEffects DEF IInv, Setup, Tables
  <2> QED
    BY <2>1, <2>2, <2>3 DEF Tables
<1>8. Setup'
  BY <1>4, <1>5, <1>7 DEF Setup
<1>9. Control'
  <2>1. iflag' => ip' >= 16
    BY <1>1, InstallEffects DEF IInv, Control
  <2> QED
    BY <1>1, <2>1 DEF Control
<1>10. Service'
  BY <1>1, <1>3, <1>4, <1>5 DEF Service, NothingInServiceAtRest, Quiet
<1>11. MaskedLinesAreSilent'
  <2>1. Len(stack') = 0
    BY <1>1
  <2> QED
    BY <2>1 DEF MaskedLinesAreSilent
<1> QED
  BY <1>6, <1>8, <1>9, <1>10, <1>11 DEF IInv

\* A change of a chip that leaves alone how it was programmed.
SameProgram(next, chip) ==
    next.icw = chip.icw /\ next.base = chip.base /\ next.imr = chip.imr

\* Such a change leaves alone what is set up.
LEMMA SetupKept ==
    ASSUME Setup, UNCHANGED <<ip, gates, idtr>>,
           SameProgram(leader', leader), SameProgram(follower', follower)
    PROVE  Setup'
BY DEF Setup, Tables, Programmed, SameProgram

\* Whatever changes no more than the requests of the controllers, and not that
\* of the cascade.
LEMMA RequestsIInv ==
    ASSUME IInv, UNCHANGED cpu,
           leader' \in Chip, SameProgram(leader', leader), leader'.isr = leader.isr,
           follower' \in Chip, SameProgram(follower', follower), follower'.isr = follower.isr,
           CASCADE \notin leader'.irr,
           keyboard' \in Seq(Code), typed' \in Seq(Code), shown' \in Seq(Code),
           output' \in [full : BOOLEAN, code : Code], early' \in BOOLEAN
    PROVE  IInv'
<1>1. UNCHANGED <<ip, gates, idtr, iflag, shadow, inta, stack>>
  BY DEF cpu
<1>2. TypeOK'
  BY <1>1 DEF IInv, TypeOK
<1>3. Setup'
  BY <1>1, SetupKept DEF IInv
<1>4. Control'
  BY <1>1 DEF IInv, Control
<1>5. Service'
  BY <1>1 DEF IInv, Service, NothingInServiceAtRest, Top, AtMostOne
<1>6. MaskedLinesAreSilent'
  BY <1>1 DEF IInv, MaskedLinesAreSilent
<1> QED
  BY <1>2, <1>3, <1>4, <1>5, <1>6 DEF IInv

\* Typing reaches neither the processor nor the controllers.
LEMMA TypeIInv == IInv /\ Type => IInv'
<1> SUFFICES ASSUME IInv, Type PROVE IInv'
  OBVIOUS
<1>1. UNCHANGED cpu /\ leader' = leader /\ follower' = follower
      /\ UNCHANGED <<output, shown, early>>
  BY DEF Type, pics
<1>2. keyboard' \in Seq(Code) /\ typed' \in Seq(Code)
  BY DEF IInv, TypeOK, Type
<1>3. /\ leader' \in Chip /\ SameProgram(leader', leader) /\ leader'.isr = leader.isr
      /\ CASCADE \notin leader'.irr
      /\ follower' \in Chip /\ SameProgram(follower', follower)
      /\ follower'.isr = follower.isr
  BY <1>1 DEF IInv, TypeOK, Service, SameProgram
<1>4. /\ shown' \in Seq(Code) /\ early' \in BOOLEAN
      /\ output' \in [full : BOOLEAN, code : Code]
  BY <1>1 DEF IInv, TypeOK
<1> QED
  BY <1>1, <1>2, <1>3, <1>4, RequestsIInv

\* The keyboard hands over a scancode and raises its line.
LEMMA TransferIInv == IInv /\ Transfer => IInv'
<1> SUFFICES ASSUME IInv, Transfer PROVE IInv'
  OBVIOUS
<1>1. /\ leader' \in Chip /\ SameProgram(leader', leader) /\ leader'.isr = leader.isr
      /\ CASCADE \notin leader'.irr
  <2>1. KEYBOARD \in Lines /\ KEYBOARD # CASCADE
    BY DEF KEYBOARD, CASCADE, Lines
  <2>2. leader \in Chip /\ leader' = Raise(leader, KEYBOARD) /\ CASCADE \notin leader.irr
    BY DEF Transfer, IInv, TypeOK, Service
  <2> QED
    BY <2>1, <2>2, Edges DEF SameProgram
<1>2. follower' = follower /\ UNCHANGED cpu /\ typed' = typed /\ shown' = shown
  BY DEF Transfer
<1>3. /\ keyboard' \in Seq(Code)
      /\ output' \in [full : BOOLEAN, code : Code]
  BY DEF IInv, TypeOK, Transfer
<1>4. early' \in BOOLEAN
  BY DEF IInv, TypeOK, Transfer
<1>5. /\ follower' \in Chip /\ SameProgram(follower', follower)
      /\ follower'.isr = follower.isr /\ typed' \in Seq(Code) /\ shown' \in Seq(Code)
  BY <1>2 DEF IInv, TypeOK, SameProgram
<1> QED
  BY <1>1, <1>2, <1>3, <1>4, <1>5, RequestsIInv

\* Other devices raise and lower their lines, none of which is the cascade's.
LEMMA DevicesIInv == IInv /\ (DeviceRaises \/ DeviceLowers) => IInv'
<1> SUFFICES ASSUME IInv, DeviceRaises \/ DeviceLowers PROVE IInv'
  OBVIOUS
<1>1. leader \in Chip /\ follower \in Chip /\ CASCADE \notin leader.irr
  BY DEF IInv, TypeOK, Service
<1>2. \/ \E line \in LeaderDevices :
             leader' \in {Raise(leader, line), Lower(leader, line)} /\ follower' = follower
      \/ \E line \in FollowerDevices :
             follower' \in {Raise(follower, line), Lower(follower, line)} /\ leader' = leader
  BY DEF DeviceRaises, DeviceLowers
<1>3. /\ leader' \in Chip /\ SameProgram(leader', leader) /\ leader'.isr = leader.isr
      /\ CASCADE \notin leader'.irr
      /\ follower' \in Chip /\ SameProgram(follower', follower)
      /\ follower'.isr = follower.isr
  <2>1. ASSUME NEW line \in LeaderDevices, follower' = follower,
               leader' \in {Raise(leader, line), Lower(leader, line)}
        PROVE  <1>3
    <3>1. line \in Lines /\ line # CASCADE
      BY InterruptsAssumption
    <3> QED
      BY <1>1, <2>1, <3>1, Edges DEF SameProgram
  <2>2. ASSUME NEW line \in FollowerDevices, leader' = leader,
               follower' \in {Raise(follower, line), Lower(follower, line)}
        PROVE  <1>3
    <3>1. line \in Lines
      BY InterruptsAssumption
    <3> QED
      BY <1>1, <2>2, <3>1, Edges DEF SameProgram
  <2> QED
    BY <1>2, <2>1, <2>2
<1>4. UNCHANGED cpu /\ UNCHANGED keys
  BY DEF DeviceRaises, DeviceLowers
<1>5. /\ keyboard' \in Seq(Code) /\ typed' \in Seq(Code) /\ shown' \in Seq(Code)
      /\ output' \in [full : BOOLEAN, code : Code] /\ early' \in BOOLEAN
  BY <1>4 DEF keys, IInv, TypeOK
<1> QED
  BY <1>3, <1>4, <1>5, RequestsIInv

\* The processor accepts an interrupt: only when no handler runs.
LEMMA AcceptIInv == IInv /\ Accept => IInv'
<1> SUFFICES ASSUME IInv, Accept PROVE IInv'
  OBVIOUS
<1>1. /\ UNCHANGED <<ip, gates, idtr, iflag, shadow, stack, leader, follower>>
      /\ UNCHANGED <<keyboard, output, typed, shown, early>>
      /\ inta' = TRUE /\ iflag /\ ~shadow
  BY DEF Accept, pics, keys
<1>2. TypeOK'
  BY <1>1 DEF IInv, TypeOK
<1>3. Setup'
  BY <1>1, SetupKept DEF IInv, SameProgram
<1>4. Control'
  BY <1>1 DEF IInv, Control
<1>5. Service'
  BY <1>1 DEF IInv, Service, NothingInServiceAtRest, Top, AtMostOne
<1>6. MaskedLinesAreSilent'
  BY <1>1 DEF IInv, MaskedLinesAreSilent
<1> QED
  BY <1>2, <1>3, <1>4, <1>5, <1>6 DEF IInv

\* Of two chips whose line 0 is masked no line 0 requests; a request of the
\* cascade comes from the follower.
LEMMA Requests ==
    ASSUME leader \in Chip, follower \in Chip, leader.imr = {0}, follower.imr = {0},
           CASCADE \notin leader.irr
    PROVE  /\ LeaderRequests \in SUBSET (Lines \ {0})
           /\ Pending(follower, follower.irr) \in SUBSET (Lines \ {0})
           /\ CASCADE \in LeaderRequests => Pending(follower, follower.irr) # {}
<1>1. leader.irr \in SUBSET Lines /\ follower.irr \in SUBSET Lines /\ CASCADE \in Lines
  BY DEF Chip, CASCADE, Lines
<1>2. \A chip, irr : Pending(chip, irr) \subseteq irr \ chip.imr
  BY DEF Pending
<1> QED
  BY <1>1, <1>2 DEF LeaderRequests

\* The vector the processor is given, and what is in service then.
LEMMA AcknowledgeEffect ==
    ASSUME IInv, Acknowledge
    PROVE  /\ stack = <<>> /\ ip >= 16
           /\ \E v \in 33 .. 39 \union 41 .. 47 :
                 /\ stack' = <<[vector |-> v, pc |-> "entry", keycode |-> output.code]>>
                 /\ v < 40 => follower'.isr = {}
           /\ leader' \in Chip /\ follower' \in Chip
           /\ SameProgram(leader', leader) /\ SameProgram(follower', follower)
           /\ CASCADE \notin leader'.irr
           /\ AtMostOne(leader'.isr) /\ AtMostOne(follower'.isr)
<1> DEFINE inner == Highest(Pending(follower, follower.irr))
           line == Highest(LeaderRequests)
           Handles(v) == stack' = <<[vector |-> v, pc |-> "entry", keycode |-> output.code]>>
<1>1. stack = <<>> /\ ip >= 16
  BY DEF Acknowledge, IInv, Control
<1>2. /\ leader \in Chip /\ follower \in Chip /\ CASCADE \notin leader.irr
      /\ leader.isr = {} /\ follower.isr = {}
  BY <1>1 DEF IInv, TypeOK, Service, NothingInServiceAtRest
<1>3. /\ leader.base = 32 /\ follower.base = 40 /\ leader.imr = {0} /\ follower.imr = {0}
  <2>1. ip \in Int
    BY DEF IInv, TypeOK
  <2> QED
    BY <1>1, <2>1 DEF IInv, Setup, Programmed
<1>4. 0 \in Lines /\ AtMostOne({}) /\ \A n \in Lines : AtMostOne({n})
  BY DEF AtMostOne, Lines
<1>5. CASE LeaderRequests = {}
  <2>1. leader' = leader /\ follower' = follower /\ Handles(39)
    BY <1>1, <1>3, <1>5 DEF Acknowledge
  <2>2. /\ leader' \in Chip /\ SameProgram(leader', leader)
        /\ CASCADE \notin leader'.irr /\ leader'.isr = {}
        /\ follower' \in Chip /\ SameProgram(follower', follower)
        /\ follower'.isr = {}
    BY <1>2, <2>1 DEF SameProgram
  <2>3. \E v \in 33 .. 39 \union 41 .. 47 : Handles(v) /\ (v < 40 => follower'.isr = {})
    <3>1. 39 \in 33 .. 39 \union 41 .. 47
      OBVIOUS
    <3> QED
      BY <2>1, <2>2, <3>1, Zenon
  <2>4. AtMostOne(leader'.isr) /\ AtMostOne(follower'.isr)
    BY <1>4, <2>2
  <2> QED
    BY <1>1, <2>2, <2>3, <2>4, Zenon
<1>6. CASE LeaderRequests # {} /\ line = CASCADE
  <2>1. line \in LeaderRequests /\ line \in Lines
    BY <1>2, <1>3, <1>6, Requests, HighestIsLeast
  <2>2. inner \in Lines \ {0}
    BY <1>2, <1>3, <1>6, <2>1, Requests, HighestIsLeast
  <2>3. /\ leader' = Acknowledged(leader, line)
        /\ follower' = Acknowledged(follower, inner) /\ Handles(40 + inner)
    BY <1>1, <1>3, <1>6 DEF Acknowledge
  <2>4. 40 + inner \in 41 .. 47 /\ inner \in Lines
    BY <2>2 DEF Lines
  <2> HIDE DEF line, inner
  <2>5. /\ leader' \in Chip /\ SameProgram(leader', leader)
        /\ CASCADE \notin leader'.irr /\ leader'.isr = {line}
    BY <1>2, <2>1, <2>3, AcknowledgedChip DEF SameProgram
  <2>6. /\ follower' \in Chip /\ SameProgram(follower', follower)
        /\ follower'.isr = {inner}
    BY <1>2, <2>3, <2>4, AcknowledgedChip DEF SameProgram
  <2> QED
    BY <1>1, <1>4, <2>1, <2>3, <2>4, <2>5, <2>6
<1>7. CASE LeaderRequests # {} /\ line # CASCADE
  <2>1. line \in Lines \ {0}
    BY <1>2, <1>3, <1>7, Requests, HighestIsLeast
  <2>2. /\ leader' = Acknowledged(leader, line)
        /\ follower' = follower /\ Handles(32 + line)
    BY <1>1, <1>3, <1>7 DEF Acknowledge
  <2>3. 32 + line \in 33 .. 39 /\ line \in Lines
    BY <2>1 DEF Lines
  <2> HIDE DEF line
  <2>4. /\ leader' \in Chip /\ SameProgram(leader', leader)
        /\ CASCADE \notin leader'.irr /\ leader'.isr = {line}
    BY <1>2, <2>2, <2>3, AcknowledgedChip DEF SameProgram
  <2>5. /\ follower' \in Chip /\ SameProgram(follower', follower)
        /\ follower'.isr = {}
    BY <1>2, <2>2 DEF SameProgram
  <2>6. /\ 32 + line \in 33 .. 39 \union 41 .. 47
        /\ Handles(32 + line) /\ follower'.isr = {}
    BY <2>2, <2>3, <2>5
  <2>7. \E v \in 33 .. 39 \union 41 .. 47 : Handles(v) /\ (v < 40 => follower'.isr = {})
    BY <2>6, Zenon
  <2>8. AtMostOne(leader'.isr) /\ AtMostOne(follower'.isr)
    BY <1>4, <2>3, <2>4, <2>5
  <2> QED
    BY <1>1, <2>4, <2>5, <2>7, <2>8, Zenon
<1> QED
  BY <1>5, <1>6, <1>7

\* A handler starts.
LEMMA AcknowledgeIInv == IInv /\ Acknowledge => IInv'
<1> SUFFICES ASSUME IInv, Acknowledge PROVE IInv'
  OBVIOUS
<1>1. /\ UNCHANGED <<ip, gates, idtr, shadow>>
      /\ UNCHANGED <<keyboard, output, typed, shown, early>>
      /\ inta' = FALSE /\ iflag' = FALSE
  BY DEF Acknowledge, keys
<1>2. PICK v \in 33 .. 39 \union 41 .. 47 :
         /\ stack' = <<[vector |-> v, pc |-> "entry", keycode |-> output.code]>>
         /\ v < 40 => follower'.isr = {}
  BY AcknowledgeEffect
<1>3. /\ ip >= 16
      /\ leader' \in Chip /\ follower' \in Chip
      /\ SameProgram(leader', leader) /\ SameProgram(follower', follower)
      /\ CASCADE \notin leader'.irr
      /\ AtMostOne(leader'.isr) /\ AtMostOne(follower'.isr)
  BY AcknowledgeEffect
<1> DEFINE f == [vector |-> v, pc |-> "entry", keycode |-> output.code]
<1>4. /\ f \in HandlerFrame /\ f.vector = v /\ f.pc = "entry"
  BY DEF IInv, TypeOK, HandlerFrame, Phase
<1> HIDE DEF f
<1>5. /\ Len(stack') = 1 /\ stack' # <<>> /\ Top' = f
      /\ stack' \in Seq(HandlerFrame) /\ stack'[1] = f
  BY <1>2, <1>4 DEF Top, f
<1>6. TypeOK'
  BY <1>1, <1>3, <1>5 DEF IInv, TypeOK
<1>7. Setup'
  BY <1>1, <1>3, SetupKept DEF IInv
<1>8. Control'
  BY <1>1, <1>3, <1>5 DEF Control
<1>9. Service'
  BY <1>2, <1>3, <1>4, <1>5 DEF Service, NothingInServiceAtRest
<1>10. MaskedLinesAreSilent'
  BY <1>4, <1>5 DEF MaskedLinesAreSilent
<1> QED
  BY <1>6, <1>7, <1>8, <1>9, <1>10 DEF IInv

\* The handler that runs.
LEMMA RunningHandler ==
    ASSUME IInv, NEW phase, Running(phase)
    PROVE  /\ stack # <<>> /\ Len(stack) = 1 /\ Top = stack[1]
           /\ Top \in HandlerFrame /\ Top.pc = phase /\ Top.vector \notin {32, 40}
           /\ ~inta /\ ip >= 16
<1>1. /\ stack # <<>> /\ ~inta /\ Top.pc = phase /\ stack \in Seq(HandlerFrame)
      /\ Len(stack) = 1 /\ ip >= 16
  BY DEF Running, IInv, TypeOK, Control
<1>3. Top = stack[1] /\ Top \in HandlerFrame
  BY <1>1 DEF Top
<1> QED
  BY <1>1, <1>3 DEF IInv, MaskedLinesAreSilent

\* It goes to another phase, and remembers the rest.
LEMMA GotoFrame ==
    ASSUME IInv, NEW phase, Running(phase), NEW next \in Phase, Goto(next)
    PROVE  /\ stack' \in Seq(HandlerFrame) /\ stack' # <<>> /\ Len(stack') = 1
           /\ Top' = stack'[1] /\ Top'.pc = next /\ Top'.vector = Top.vector
           /\ Top'.keycode = Top.keycode
<1>1. /\ Len(stack) = 1 /\ Top = stack[1] /\ Top \in HandlerFrame
      /\ stack \in Seq(HandlerFrame)
  BY RunningHandler DEF IInv, TypeOK
<1> DEFINE f == [Top EXCEPT !.pc = next]
<1>2. f \in HandlerFrame /\ f.pc = next /\ f.vector = Top.vector /\ f.keycode = Top.keycode
  BY <1>1 DEF HandlerFrame
<1>3. stack' = [stack EXCEPT ![1] = f]
  BY <1>1 DEF Goto
<1> HIDE DEF f
<1>4. stack' \in Seq(HandlerFrame) /\ Len(stack') = 1 /\ stack'[1] = f
  <2>1. 1 \in 1 .. Len(stack)
    BY <1>1
  <2>2. stack' \in Seq(HandlerFrame)
    BY <1>1, <1>2, <1>3, <2>1, ExceptSeq, Zenon
  <2>3. Len(stack') = Len(stack)
    BY <1>1, <1>3
  <2>4. stack'[1] = f
    BY <1>1, <1>2, <1>3, <2>1
  <2> QED
    BY <1>1, <2>2, <2>3, <2>4
<1>5. stack' # <<>> /\ Top' = f
  BY <1>4 DEF Top
<1> QED
  BY <1>2, <1>4, <1>5

\* What every step of a handler but the last has in common.
LEMMA HandlerIInv ==
    ASSUME IInv, NEW phase, Running(phase),
           UNCHANGED <<ip, gates, idtr, inta, keyboard, typed, early>>,
           iflag' \in BOOLEAN, shadow' \in BOOLEAN, ~iflag' \/ shadow',
           stack' \in Seq(HandlerFrame), Len(stack') = 1, stack' # <<>>,
           Top' = stack'[1], Top'.vector = Top.vector,
           leader' \in Chip, SameProgram(leader', leader), leader'.irr = leader.irr,
           follower' \in Chip, SameProgram(follower', follower),
           shown' \in Seq(Code), output' \in [full : BOOLEAN, code : Code],
           AtMostOne(leader'.isr), AtMostOne(follower'.isr),
           Top'.vector < 40 => follower'.isr = {},
           Top'.pc = "eoi_follower" => Top'.vector >= 40,
           Top'.pc \notin {"entry", "eoi_follower"} => follower'.isr = {},
           Top'.pc \notin {"entry", "eoi_follower", "eoi_leader"} => leader'.isr = {}
    PROVE  IInv'
<1>1. /\ ~inta /\ ip >= 16 /\ Top.vector \notin {32, 40}
  BY RunningHandler
<1>2. TypeOK'
  BY DEF IInv, TypeOK
<1>3. Setup'
  BY SetupKept DEF IInv
<1>4. Control'
  BY <1>1 DEF Control
<1>5. Service'
  BY DEF IInv, Service, NothingInServiceAtRest
<1>6. MaskedLinesAreSilent'
  BY <1>1 DEF MaskedLinesAreSilent
<1> QED
  BY <1>2, <1>3, <1>4, <1>5, <1>6 DEF IInv

\* The interrupt flag and the controllers stay as they are.
LEMMA EntryIInv == IInv /\ Entry => IInv'
<1> SUFFICES ASSUME IInv, Entry PROVE IInv'
  OBVIOUS
<1>1. PICK next \in Phase : /\ Goto(next) /\ next \in {"eoi_follower", "eoi_leader"}
                            /\ next = "eoi_follower" <=> Top.vector >= 40
  BY DEF Entry, Phase
<1>2. Running("entry")
  BY DEF Entry
<1>3. /\ UNCHANGED <<ip, gates, idtr, shadow, inta, leader, follower>>
      /\ UNCHANGED <<keyboard, output, typed, shown, early>> /\ iflag' = FALSE
  BY DEF Entry, pics, keys
<1>4. /\ stack # <<>> /\ Top \in HandlerFrame /\ Top.pc = "entry"
  BY <1>2, RunningHandler
<1>5. /\ stack' \in Seq(HandlerFrame) /\ Len(stack') = 1 /\ stack' # <<>>
      /\ Top' = stack'[1] /\ Top'.vector = Top.vector /\ Top'.pc = next
  BY <1>1, <1>2, GotoFrame
<1>6. /\ AtMostOne(leader.isr) /\ AtMostOne(follower.isr)
      /\ Top.vector < 40 => follower.isr = {}
  BY <1>4 DEF IInv, Service
<1>7. Top.vector \in 32 .. 47
  BY <1>4 DEF HandlerFrame
<1>8. /\ leader' \in Chip /\ SameProgram(leader', leader) /\ leader'.irr = leader.irr
      /\ follower' \in Chip /\ SameProgram(follower', follower)
      /\ shown' \in Seq(Code) /\ output' \in [full : BOOLEAN, code : Code]
      /\ shadow' \in BOOLEAN
  BY <1>3 DEF IInv, TypeOK, SameProgram
<1>9. /\ Top'.pc = "eoi_follower" => Top'.vector >= 40
      /\ Top'.pc \notin {"entry", "eoi_follower"} => follower'.isr = {}
      /\ Top'.pc \in {"entry", "eoi_follower", "eoi_leader"}
  BY <1>1, <1>3, <1>5, <1>6, <1>7
<1> QED
  BY <1>2, <1>3, <1>5, <1>6, <1>8, <1>9, HandlerIInv

\* The handler of a line of the second controller ends its interrupt there.
LEMMA EoiFollowerIInv == IInv /\ EoiFollower => IInv'
<1> SUFFICES ASSUME IInv, EoiFollower PROVE IInv'
  OBVIOUS
<1>1. Running("eoi_follower") /\ Goto("eoi_leader") /\ "eoi_leader" \in Phase
  BY DEF EoiFollower, Phase
<1>2. /\ UNCHANGED <<ip, gates, idtr, iflag, shadow, inta, leader>>
      /\ UNCHANGED <<keyboard, output, typed, shown, early>>
      /\ follower' = Command(follower, EOI)
  BY DEF EoiFollower, keys
<1>3. stack # <<>>
  BY <1>1, RunningHandler
<1>4. /\ stack' \in Seq(HandlerFrame) /\ Len(stack') = 1 /\ stack' # <<>>
      /\ Top' = stack'[1] /\ Top'.vector = Top.vector /\ Top'.pc = "eoi_leader"
  BY <1>1, GotoFrame
<1>5. /\ AtMostOne(leader.isr) /\ AtMostOne(follower.isr) /\ follower \in Chip
  BY <1>3 DEF IInv, Service, TypeOK
<1>6. follower' \in Chip /\ SameProgram(follower', follower) /\ follower'.isr = {}
  BY <1>2, <1>5, EndOfInterrupt DEF SameProgram, AtMostOne
<1>7. AtMostOne(follower'.isr)
  BY <1>6 DEF AtMostOne, Lines
<1>8. /\ leader' \in Chip /\ SameProgram(leader', leader) /\ leader'.irr = leader.irr
      /\ shown' \in Seq(Code) /\ output' \in [full : BOOLEAN, code : Code]
      /\ iflag' \in BOOLEAN /\ shadow' \in BOOLEAN /\ (~iflag' \/ shadow')
  BY <1>2, <1>3 DEF IInv, TypeOK, SameProgram, Control
<1>9. AtMostOne(leader'.isr)
  BY <1>2, <1>5
<1>10. /\ Top'.pc # "eoi_follower" /\ Top'.pc \in {"entry", "eoi_follower", "eoi_leader"}
  BY <1>4
<1> QED
  BY <1>1, <1>2, <1>4, <1>6, <1>7, <1>8, <1>9, <1>10, HandlerIInv

\* Every handler ends the interrupt of the first controller.
LEMMA EoiLeaderIInv == IInv /\ EoiLeader => IInv'
<1> SUFFICES ASSUME IInv, EoiLeader PROVE IInv'
  OBVIOUS
<1>1. PICK next \in Phase : Goto(next) /\ next \in {"read", "sti"}
  BY DEF EoiLeader, Phase
<1>2. /\ UNCHANGED <<ip, gates, idtr, iflag, shadow, inta, follower>>
      /\ UNCHANGED <<keyboard, output, typed, shown, early>>
      /\ leader' = Command(leader, EOI) /\ Running("eoi_leader")
  BY DEF EoiLeader, keys
<1>3. stack # <<>> /\ Top.pc = "eoi_leader"
  BY <1>2, RunningHandler
<1>4. /\ stack' \in Seq(HandlerFrame) /\ Len(stack') = 1 /\ stack' # <<>>
      /\ Top' = stack'[1] /\ Top'.vector = Top.vector /\ Top'.pc = next
  BY <1>1, <1>2, GotoFrame
<1>5. AtMostOne(leader.isr) /\ leader \in Chip /\ follower.isr = {}
  BY <1>3 DEF IInv, Service, TypeOK
<1>6. /\ leader' \in Chip /\ SameProgram(leader', leader) /\ leader'.isr = {}
      /\ leader'.irr = leader.irr
  BY <1>2, <1>5, EndOfInterrupt DEF SameProgram, AtMostOne
<1>7. AtMostOne(leader'.isr) /\ AtMostOne(follower'.isr) /\ follower'.isr = {}
  BY <1>2, <1>5, <1>6 DEF AtMostOne, Lines
<1>8. /\ follower' \in Chip /\ SameProgram(follower', follower)
      /\ shown' \in Seq(Code) /\ output' \in [full : BOOLEAN, code : Code]
      /\ iflag' \in BOOLEAN /\ shadow' \in BOOLEAN /\ (~iflag' \/ shadow')
  BY <1>2, <1>3 DEF IInv, TypeOK, SameProgram, Control
<1>9. Top'.pc # "eoi_follower"
  BY <1>1, <1>4
<1> QED
  BY <1>2, <1>4, <1>6, <1>7, <1>8, <1>9, HandlerIInv

\* Once both interrupts are ended the handler leaves the controllers alone.
LEMMA AfterEoiIInv ==
    ASSUME IInv, NEW phase \in {"read", "show", "sti"}, Running(phase),
           UNCHANGED <<ip, gates, idtr, inta, keyboard, typed, early, leader, follower>>,
           iflag' \in BOOLEAN, shadow' \in BOOLEAN, ~iflag' \/ shadow',
           stack' \in Seq(HandlerFrame), Len(stack') = 1, stack' # <<>>,
           Top' = stack'[1], Top'.vector = Top.vector,
           Top'.pc \in {"show", "sti", "iretq"},
           shown' \in Seq(Code), output' \in [full : BOOLEAN, code : Code]
    PROVE  IInv'
<1>1. stack # <<>> /\ Top.pc = phase
  BY RunningHandler
<1>2. leader.isr = {} /\ follower.isr = {} /\ leader \in Chip /\ follower \in Chip
  BY <1>1 DEF IInv, Service, TypeOK
<1>3. /\ leader' \in Chip /\ SameProgram(leader', leader) /\ leader'.irr = leader.irr
      /\ follower' \in Chip /\ SameProgram(follower', follower)
      /\ leader'.isr = {} /\ follower'.isr = {}
  BY <1>2 DEF SameProgram
<1>4. AtMostOne(leader'.isr) /\ AtMostOne(follower'.isr)
  BY <1>3 DEF AtMostOne, Lines
<1>5. Top'.pc # "eoi_follower"
  OBVIOUS
<1> QED
  BY <1>3, <1>4, <1>5, HandlerIInv

\* The scancode is read, ...
LEMMA ReadIInv == IInv /\ Read => IInv'
<1> SUFFICES ASSUME IInv, Read PROVE IInv'
  OBVIOUS
<1>1. /\ Running("read")
      /\ UNCHANGED <<ip, gates, idtr, iflag, shadow, inta, leader, follower>>
      /\ UNCHANGED <<keyboard, typed, shown, early>>
  BY DEF Read, pics
<1>2. /\ stack # <<>> /\ Len(stack) = 1 /\ Top = stack[1] /\ Top \in HandlerFrame
  BY <1>1, RunningHandler
<1>3. output \in [full : BOOLEAN, code : Code] /\ stack \in Seq(HandlerFrame)
  BY DEF IInv, TypeOK
<1> DEFINE f == [Top EXCEPT !.pc = "show", !.keycode = output.code]
<1>4. f \in HandlerFrame
  <2> DEFINE g == [Top EXCEPT !.pc = "show"]
  <2>1. g \in HandlerFrame /\ output.code \in Code
    BY <1>2, <1>3 DEF HandlerFrame, Phase
  <2>2. f = [g EXCEPT !.keycode = output.code]
    OBVIOUS
  <2> HIDE DEF f, g
  <2> QED
    BY <2>1, <2>2 DEF HandlerFrame
<1>5. stack' = [stack EXCEPT ![1] = f]
  BY <1>2 DEF Read
<1>6. f.vector = Top.vector /\ f.pc = "show"
  BY <1>2 DEF HandlerFrame
<1> HIDE DEF f
<1>7. stack' \in Seq(HandlerFrame)
  BY <1>2, <1>3, <1>4, <1>5, ExceptSeq
<1>8. Len(stack') = 1
  BY <1>2, <1>3, <1>5
<1>9. stack'[1] = f /\ stack' # <<>>
  BY <1>2, <1>3, <1>5, <1>8
<1>10. Top' = f
  BY <1>8, <1>9 DEF Top
<1>11. output' \in [full : BOOLEAN, code : Code]
  BY <1>3 DEF Read
<1>12. /\ iflag' \in BOOLEAN /\ shadow' \in BOOLEAN /\ (~iflag' \/ shadow')
       /\ shown' \in Seq(Code)
  BY <1>1, <1>2 DEF IInv, TypeOK, Control
<1>13. /\ Top' = stack'[1] /\ Top'.vector = Top.vector
       /\ Top'.pc \in {"show", "sti", "iretq"} /\ stack' # <<>>
  BY <1>6, <1>9, <1>10
<1> QED
  BY <1>1, <1>7, <1>8, <1>11, <1>12, <1>13, AfterEoiIInv

\* ... printed, ...
LEMMA ShowIInv == IInv /\ Show => IInv'
<1> SUFFICES ASSUME IInv, Show PROVE IInv'
  OBVIOUS
<1>1. /\ Running("show") /\ Goto("sti") /\ "sti" \in Phase
      /\ UNCHANGED <<ip, gates, idtr, iflag, shadow, inta, leader, follower>>
      /\ UNCHANGED <<keyboard, output, typed, early>>
  BY DEF Show, pics, Phase
<1>2. stack # <<>> /\ Top.keycode \in Code
  BY <1>1, RunningHandler DEF HandlerFrame
<1>3. /\ iflag' \in BOOLEAN /\ shadow' \in BOOLEAN /\ (~iflag' \/ shadow')
      /\ output' \in [full : BOOLEAN, code : Code] /\ shown' \in Seq(Code)
  BY <1>1, <1>2 DEF Show, IInv, TypeOK, Control
<1>4. /\ stack' \in Seq(HandlerFrame) /\ Len(stack') = 1 /\ stack' # <<>>
      /\ Top' = stack'[1] /\ Top'.vector = Top.vector /\ Top'.pc = "sti"
  BY <1>1, GotoFrame
<1> QED
  BY <1>1, <1>3, <1>4, AfterEoiIInv

\* ... and interrupts are turned on, one instruction before the return.
LEMMA StiIInv == IInv /\ Sti => IInv'
<1> SUFFICES ASSUME IInv, Sti PROVE IInv'
  OBVIOUS
<1>1. /\ Running("sti") /\ Goto("iretq") /\ "iretq" \in Phase
      /\ UNCHANGED <<ip, gates, idtr, inta, leader, follower>>
      /\ UNCHANGED <<keyboard, output, typed, shown, early>>
      /\ iflag' = TRUE /\ shadow' = TRUE
  BY DEF Sti, pics, keys, Phase
<1>2. output' \in [full : BOOLEAN, code : Code] /\ shown' \in Seq(Code)
  BY <1>1 DEF IInv, TypeOK
<1>3. /\ stack' \in Seq(HandlerFrame) /\ Len(stack') = 1 /\ stack' # <<>>
      /\ Top' = stack'[1] /\ Top'.vector = Top.vector /\ Top'.pc = "iretq"
  BY <1>1, GotoFrame
<1> QED
  BY <1>1, <1>2, <1>3, AfterEoiIInv

\* The handler returns and leaves nothing in service.
LEMMA IretqIInv == IInv /\ Iretq => IInv'
<1> SUFFICES ASSUME IInv, Iretq PROVE IInv'
  OBVIOUS
<1>1. /\ Running("iretq") /\ iflag' = TRUE /\ shadow' = FALSE
      /\ UNCHANGED <<ip, gates, idtr, inta, leader, follower>>
      /\ UNCHANGED <<keyboard, output, typed, shown, early>>
  BY DEF Iretq, pics, keys
<1>2. stack # <<>> /\ Len(stack) = 1 /\ Top.pc = "iretq" /\ ~inta /\ ip >= 16
  BY <1>1, RunningHandler
<1>3. stack' = <<>>
  BY <1>2 DEF Iretq, IInv, TypeOK
<1>4. leader.isr = {} /\ follower.isr = {}
  BY <1>2 DEF IInv, Service
<1>5. TypeOK'
  BY <1>1, <1>3, EmptySeq DEF IInv, TypeOK
<1>6. Setup'
  BY <1>1, SetupKept DEF IInv, SameProgram
<1>7. Control'
  BY <1>1, <1>2, <1>3 DEF Control
<1>8. Service'
  BY <1>1, <1>3, <1>4 DEF IInv, Service, NothingInServiceAtRest
<1>9. MaskedLinesAreSilent'
  <2>1. Len(stack') = 0
    BY <1>3
  <2> QED
    BY <2>1 DEF MaskedLinesAreSilent
<1> QED
  BY <1>5, <1>6, <1>7, <1>8, <1>9 DEF IInv

\* No step breaks the invariant.
LEMMA NextIInv == IInv /\ [Next]_vars => IInv'
<1> SUFFICES ASSUME IInv, [Next]_vars PROVE IInv'
  OBVIOUS
<1>1. CASE UNCHANGED vars
  <2>1. UNCHANGED <<cpu, leader, follower, keyboard, output, typed, shown, early>>
    BY <1>1 DEF vars, cpu
  <2>2. /\ leader' \in Chip /\ SameProgram(leader', leader) /\ leader'.isr = leader.isr
        /\ follower' \in Chip /\ SameProgram(follower', follower)
        /\ follower'.isr = follower.isr /\ CASCADE \notin leader'.irr
    BY <2>1 DEF IInv, TypeOK, Service, SameProgram
  <2>3. /\ keyboard' \in Seq(Code) /\ typed' \in Seq(Code) /\ shown' \in Seq(Code)
        /\ output' \in [full : BOOLEAN, code : Code] /\ early' \in BOOLEAN
    BY <2>1 DEF IInv, TypeOK
  <2> QED
    BY <2>1, <2>2, <2>3, RequestsIInv
<1>2. CASE InstallStep
  BY <1>2, InstallStepIInv
<1>3. CASE Accept
  BY <1>3, AcceptIInv
<1>4. CASE Acknowledge
  BY <1>4, AcknowledgeIInv
<1>5. CASE Handler
  BY <1>5, EntryIInv, EoiFollowerIInv, EoiLeaderIInv, ReadIInv, ShowIInv, StiIInv,
     IretqIInv DEF Handler
<1>6. CASE Devices
  BY <1>6, TypeIInv, TransferIInv, DevicesIInv DEF Devices
<1> QED
  BY <1>1, <1>2, <1>3, <1>4, <1>5, <1>6 DEF Next
-----------------------------------------------------------------------------
(* The theorems.                                                           *)

\* The invariant holds in every behaviour.
THEOREM Invariance == Spec => []IInv
<1> QED
  BY InitIInv, NextIInv, PTL DEF Spec

\* Types: a handler runs only for a vector the controllers were remapped to
\* (interrupts.cpp 279-289), so that no IRQ is taken for an exception.
THEOREM TypeCorrect == Spec => []TypeOK
<1>1. IInv => TypeOK
  BY DEF IInv
<1> QED
  BY <1>1, Invariance, PTL

\* No interrupt is taken before its gate is set and the table is loaded
\* (interrupts.cpp 245-329).
THEOREM OnlyInstalled == Spec => []OnlyInstalledVectors
<1>1. IInv => OnlyInstalledVectors
  <2> SUFFICES ASSUME IInv, NEW k \in 1 .. Len(stack)
               PROVE  idtr /\ stack[k].vector \in gates
    BY DEF OnlyInstalledVectors
  <2>1. stack # <<>> /\ stack \in Seq(HandlerFrame) /\ ip \in Int
    BY DEF IInv, TypeOK
  <2>2. ip >= 16
    BY <2>1 DEF IInv, Control
  <2>3. idtr /\ 32 .. 47 \subseteq gates
    BY <2>1, <2>2 DEF IInv, Setup, Tables
  <2>4. stack[k] \in HandlerFrame
    BY <2>1, ElementOfSeq
  <2>5. stack[k].vector \in 32 .. 47
    BY <2>4 DEF HandlerFrame
  <2> QED
    BY <2>3, <2>5
<1> QED
  BY <1>1, Invariance, PTL

\* Handlers do not nest, whatever the devices do (interrupts_lowlevel.asm
\* 95-96, interrupts.cpp 168-171).
THEOREM OneHandler == Spec => []HandlersDoNotNest
<1>1. IInv => HandlersDoNotNest
  <2> SUFFICES ASSUME IInv PROVE Len(stack) <= 1
    BY DEF HandlersDoNotNest
  <2>1. CASE stack = <<>>
    BY <2>1
  <2>2. CASE Len(stack) = 1
    BY <2>2
  <2> QED
    BY <2>1, <2>2 DEF IInv, Control
<1> QED
  BY <1>1, Invariance, PTL

\* Between handlers nothing is in service in either controller
\* (interrupts.cpp 168-171).
THEOREM NothingLeftInService == Spec => []NothingInServiceAtRest
<1>1. IInv => NothingInServiceAtRest
  BY DEF IInv, Service
<1> QED
  BY <1>1, Invariance, PTL

\* The lines that are masked are never served (interrupts.cpp 288-289).
THEOREM MaskedLines == Spec => []MaskedLinesAreSilent
<1>1. IInv => MaskedLinesAreSilent
  BY DEF IInv
<1> QED
  BY <1>1, Invariance, PTL
-----------------------------------------------------------------------------
(* The delivery of scancodes.                                              *)

\* A handler is on its way to reading the scancode.
Fetching == /\ stack # <<>> /\ Top.vector = 33
            /\ Top.pc \in {"entry", "eoi_leader", "read"}

\* The edge of the keyboard's line is there, or its handler runs, only when the
\* output buffer holds a scancode, and never both: the interrupt is ended before
\* the scancode is read, but the line does not rise again before the reading.
Handover ==
    /\ KEYBOARD \in leader.irr => output.full /\ ~Fetching
    /\ Fetching => output.full
    /\ stack # <<>> /\ Top.pc = "read" => Top.vector = 33

DInv == IInv /\ Handover /\ ScancodesInOrder

-----------------------------------------------------------------------------
(* Sequences.                                                              *)

\* A key more, at the end of what is on its way.
LEMMA TypedSeq ==
    ASSUME NEW S, NEW x \in Seq(S), NEW k \in Seq(S), NEW c \in S
    PROVE  Append(x \o k, c) = x \o Append(k, c)
OBVIOUS

\* A scancode goes from the keyboard to the output buffer, ...
LEMMA TransferSeq ==
    ASSUME NEW S, NEW x \in Seq(S), NEW k \in Seq(S), k # <<>>
    PROVE  (x \o <<>>) \o k = (x \o <<Head(k)>>) \o Tail(k)
<1>1. /\ Len(k) \in Nat \ {0} /\ Head(k) \in S /\ Tail(k) \in Seq(S)
      /\ k = <<Head(k)>> \o Tail(k)
  BY EmptySeq, HeadTailProperties
<1>2. x \o <<>> = x
  BY ConcatEmptySeq
<1>3. <<Head(k)>> \in Seq(S)
  BY <1>1
<1>4. x \o (<<Head(k)>> \o Tail(k)) = (x \o <<Head(k)>>) \o Tail(k)
  BY <1>1, <1>3, ConcatAssociative
<1> QED
  BY <1>1, <1>2, <1>4

\* ... from there to the handler, ...
LEMMA ReadSeq ==
    ASSUME NEW S, NEW x \in Seq(S), NEW c \in S
    PROVE  (x \o <<>>) \o <<c>> = (x \o <<c>>) \o <<>>
<1>1. <<c>> \in Seq(S) /\ x \o <<c>> \in Seq(S)
  BY ConcatProperties
<1> QED
  BY <1>1, ConcatEmptySeq

\* ... and to the screen.
LEMMA ShowSeq ==
    ASSUME NEW S, NEW x \in Seq(S), NEW c \in S
    PROVE  x \o <<c>> = Append(x, c) \o <<>>
<1>1. Append(x, c) \in Seq(S) /\ x \o <<c>> = Append(x, c)
  OBVIOUS
<1> QED
  BY <1>1, ConcatEmptySeq
-----------------------------------------------------------------------------
(* The steps.                                                              *)

Delivered == Handover' /\ ScancodesInOrder'

\* Types of what is on its way.
LEMMA OnTheWay ==
    ASSUME IInv
    PROVE  /\ InHandler \in Seq(Code) /\ InOutput \in Seq(Code)
           /\ keyboard \in Seq(Code) /\ typed \in Seq(Code) /\ shown \in Seq(Code)
           /\ shown \o InHandler \in Seq(Code)
           /\ (shown \o InHandler) \o InOutput \in Seq(Code)
<1>1. keyboard \in Seq(Code) /\ typed \in Seq(Code) /\ shown \in Seq(Code)
  BY DEF IInv, TypeOK
<1>2. InHandler \in Seq(Code)
  <2>1. CASE Running("show")
    <3>1. Top.keycode \in Code
      BY <2>1, RunningHandler DEF HandlerFrame
    <3> QED
      BY <3>1 DEF InHandler
  <2>2. CASE ~(stack # <<>> /\ Top.pc = "show")
    BY <2>2 DEF InHandler
  <2>3. stack # <<>> => ~inta
    BY DEF IInv, Control
  <2> QED
    BY <2>1, <2>2, <2>3 DEF Running
<1>3. InOutput \in Seq(Code)
  <2>1. output.code \in Code
    BY DEF IInv, TypeOK
  <2> QED
    BY <2>1 DEF InOutput
<1> QED
  BY <1>1, <1>2, <1>3, ConcatProperties

\* No step but those of the keyboard and of its handler moves a scancode.
LEMMA NothingMoves ==
    ASSUME DInv, UNCHANGED <<keyboard, output, typed, shown>>,
           InHandler' = InHandler
    PROVE  ScancodesInOrder'
BY DEF DInv, ScancodesInOrder, InOutput

\* Setting up: no request appears that was not there.
LEMMA InstallDelivers == DInv /\ InstallStep => Delivered
<1> SUFFICES ASSUME DInv, InstallStep PROVE Delivered
  OBVIOUS
<1>1. /\ stack = <<>> /\ ip \in 1 .. 16 /\ stack' = stack
      /\ UNCHANGED <<keyboard, output, typed, shown>>
  BY Instructions DEF InstallStep, keys, DInv, IInv, TypeOK
<1>2. leader \in Chip /\ leader.isr = {} /\ Programmed(leader, 2, 32, ip)
  BY <1>1 DEF DInv, IInv, TypeOK, Service, NothingInServiceAtRest, Setup
<1>3. Quiet(leader', leader)
  BY <1>1, <1>2, ProgrammedStep, InstallWrites
<1>4. Handover'
  BY <1>1, <1>3 DEF DInv, Handover, Quiet, Fetching
<1>5. InHandler' = InHandler
  BY <1>1 DEF InHandler
<1> QED
  BY <1>1, <1>4, <1>5, NothingMoves DEF Delivered

\* A key is added at the end.
LEMMA TypeDelivers == DInv /\ Type => Delivered
<1> SUFFICES ASSUME DInv, Type PROVE Delivered
  OBVIOUS
<1>1. UNCHANGED <<output, shown, stack, leader>>
  BY DEF Type, cpu, pics
<1>2. PICK c \in Code : typed' = Append(typed, c) /\ keyboard' = Append(keyboard, c)
  BY DEF Type
<1>3. Handover'
  BY <1>1 DEF DInv, Handover, Fetching, Top
<1>4. InHandler' = InHandler /\ InOutput' = InOutput
  BY <1>1 DEF InHandler, InOutput, Top
<1>5. typed' = (shown \o InHandler \o InOutput) \o Append(keyboard, c)
  <2> DEFINE moving == shown \o InHandler \o InOutput
  <2>1. moving \in Seq(Code) /\ keyboard \in Seq(Code)
    BY OnTheWay DEF DInv
  <2>2. typed' = Append(moving \o keyboard, c)
    BY <1>2 DEF DInv, ScancodesInOrder
  <2> HIDE DEF moving
  <2>3. Append(moving \o keyboard, c) = moving \o Append(keyboard, c)
    BY <2>1, TypedSeq, SMTT(30)
  <2>4. typed' = moving \o Append(keyboard, c)
    BY <2>2, <2>3, Zenon
  <2> QED
    BY <2>4 DEF moving
<1> QED
  BY <1>1, <1>2, <1>3, <1>4, <1>5 DEF Delivered, ScancodesInOrder

\* The first scancode of the keyboard goes to the buffer, which is empty.
LEMMA TransferDelivers == DInv /\ Transfer => Delivered
<1> SUFFICES ASSUME DInv, Transfer PROVE Delivered
  OBVIOUS
<1>1. /\ keyboard # <<>> /\ ~output.full
      /\ output'.full /\ output'.code = Head(keyboard)
      /\ keyboard' = Tail(keyboard) /\ UNCHANGED <<typed, shown, stack>>
  BY DEF Transfer, cpu
<1>2. Handover'
  BY <1>1 DEF DInv, Handover, Fetching, Top
<1>3. InHandler' = InHandler /\ InOutput = <<>> /\ InOutput' = <<Head(keyboard)>>
  BY <1>1 DEF InHandler, InOutput, Top
<1>4. typed = ((shown \o InHandler) \o <<>>) \o keyboard
  BY <1>3 DEF DInv, ScancodesInOrder
<1>5. typed = ((shown \o InHandler) \o <<Head(keyboard)>>) \o Tail(keyboard)
  BY <1>1, <1>4, OnTheWay, TransferSeq DEF DInv
<1> QED
  BY <1>1, <1>2, <1>3, <1>5 DEF Delivered, ScancodesInOrder

\* No other device has the keyboard's line.
LEMMA DevicesDeliver == DInv /\ (DeviceRaises \/ DeviceLowers) => Delivered
<1> SUFFICES ASSUME DInv, DeviceRaises \/ DeviceLowers PROVE Delivered
  OBVIOUS
<1>1. UNCHANGED <<keyboard, output, typed, shown, stack>>
  BY DEF DeviceRaises, DeviceLowers, cpu, keys
<1>2. KEYBOARD \in leader'.irr => KEYBOARD \in leader.irr
  <2>1. CASE leader' = leader
    BY <2>1
  <2>2. ASSUME NEW line \in LeaderDevices,
               leader' \in {Raise(leader, line), Lower(leader, line)}
        PROVE  <1>2
    <3>1. line \in Lines /\ line # KEYBOARD /\ leader \in Chip
      BY InterruptsAssumption DEF DInv, IInv, TypeOK
    <3> QED
      BY <2>2, <3>1, Edges
  <2> QED
    BY <2>1, <2>2 DEF DeviceRaises, DeviceLowers
<1>3. Handover'
  BY <1>1, <1>2 DEF DInv, Handover, Fetching, Top
<1>4. InHandler' = InHandler
  BY <1>1 DEF InHandler, Top
<1> QED
  BY <1>1, <1>3, <1>4, NothingMoves DEF Delivered

\* Nothing moves when the processor accepts an interrupt.
LEMMA AcceptDelivers == DInv /\ (Accept \/ UNCHANGED vars) => Delivered
<1> SUFFICES ASSUME DInv, Accept \/ UNCHANGED vars PROVE Delivered
  OBVIOUS
<1>1. UNCHANGED <<keyboard, output, typed, shown, stack, leader>>
  BY DEF Accept, vars, pics, keys
<1>2. Handover'
  BY <1>1 DEF DInv, Handover, Fetching, Top
<1>3. InHandler' = InHandler
  BY <1>1 DEF InHandler, Top
<1> QED
  BY <1>1, <1>2, <1>3, NothingMoves DEF Delivered

\* Of the vectors 33 is the keyboard's only, and is given once per edge.
LEMMA AcknowledgedKey ==
    ASSUME IInv, Acknowledge
    PROVE  /\ stack = <<>> /\ stack' # <<>> /\ Top'.pc = "entry"
           /\ KEYBOARD \in leader'.irr => KEYBOARD \in leader.irr /\ Top'.vector # 33
           /\ Top'.vector = 33 => KEYBOARD \in leader.irr
<1> DEFINE inner == Highest(Pending(follower, follower.irr))
           line == Highest(LeaderRequests)
           vector == IF LeaderRequests = {} THEN 39
                     ELSE IF line = CASCADE THEN 40 + inner ELSE 32 + line
<1>1. stack = <<>> /\ ip >= 16 /\ ip \in Int
  BY DEF Acknowledge, IInv, Control, TypeOK
<1>2. /\ leader \in Chip /\ follower \in Chip /\ CASCADE \notin leader.irr
  BY DEF IInv, TypeOK, Service
<1>3. leader.base = 32 /\ follower.base = 40 /\ leader.imr = {0} /\ follower.imr = {0}
  BY <1>1 DEF IInv, Setup, Programmed
<1>4. stack' = <<[vector |-> vector, pc |-> "entry", keycode |-> output.code]>>
  BY <1>1, <1>3 DEF Acknowledge
<1> HIDE DEF vector
<1>5. stack' # <<>> /\ Top'.pc = "entry" /\ Top'.vector = vector
  BY <1>4 DEF Top
<1>6. CASE LeaderRequests = {}
  <2>1. leader' = leader /\ vector = 39
    BY <1>6 DEF Acknowledge, vector
  <2> QED
    BY <1>1, <1>5, <2>1
<1>7. CASE LeaderRequests # {} /\ line = CASCADE
  <2>1. line \in LeaderRequests /\ line \in Lines
    BY <1>2, <1>3, <1>7, Requests, HighestIsLeast
  <2>2. inner \in Lines
    BY <1>2, <1>3, <1>7, <2>1, Requests, HighestIsLeast
  <2>3. leader' = Acknowledged(leader, line) /\ vector = 40 + inner
    BY <1>7 DEF Acknowledge, vector
  <2> HIDE DEF line, inner
  <2>4. leader'.irr = leader.irr \ {line}
    BY <1>2, <2>1, <2>3, AcknowledgedChip
  <2>5. vector # 33
    BY <2>2, <2>3 DEF Lines
  <2> QED
    BY <1>1, <1>5, <2>4, <2>5
<1>8. CASE LeaderRequests # {} /\ line # CASCADE
  <2>1. line \in LeaderRequests /\ line \in Lines
    BY <1>2, <1>3, <1>8, Requests, HighestIsLeast
  <2>2. line \in leader.irr
    BY <1>8, <2>1 DEF LeaderRequests, Pending
  <2>3. leader' = Acknowledged(leader, line) /\ vector = 32 + line
    BY <1>8 DEF Acknowledge, vector
  <2> HIDE DEF line
  <2>4. leader'.irr = leader.irr \ {line}
    BY <1>2, <2>1, <2>3, AcknowledgedChip
  <2>5. vector = 33 <=> line = KEYBOARD
    BY <2>1, <2>3 DEF Lines, KEYBOARD
  <2> QED
    BY <1>1, <1>5, <2>2, <2>4, <2>5
<1> QED
  BY <1>6, <1>7, <1>8

\* The keyboard's handler starts only for a scancode in the buffer.
LEMMA AcknowledgeDelivers == DInv /\ Acknowledge => Delivered
<1> SUFFICES ASSUME DInv, Acknowledge PROVE Delivered
  OBVIOUS
<1>1. UNCHANGED <<keyboard, output, typed, shown>>
  BY DEF Acknowledge, keys
<1>2. /\ stack = <<>> /\ stack' # <<>> /\ Top'.pc = "entry"
      /\ KEYBOARD \in leader'.irr => KEYBOARD \in leader.irr /\ Top'.vector # 33
      /\ Top'.vector = 33 => KEYBOARD \in leader.irr
  BY AcknowledgedKey DEF DInv
<1>3. Handover'
  BY <1>1, <1>2 DEF DInv, Handover, Fetching
<1>4. InHandler' = InHandler
  BY <1>2 DEF InHandler
<1> QED
  BY <1>1, <1>3, <1>4, NothingMoves DEF Delivered

\* The steps of a handler that neither read the scancode nor print it.
LEMMA OtherStepDelivers ==
    ASSUME DInv, NEW phase \in Phase \ {"read", "show"}, Running(phase),
           NEW next \in Phase \ {"show"}, Goto(next),
           UNCHANGED <<keyboard, output, typed, shown>>, leader'.irr = leader.irr,
           next \in {"entry", "eoi_leader", "read"} /\ Top.vector = 33
              => phase \in {"entry", "eoi_leader"},
           next = "read" => Top.vector = 33
    PROVE  Delivered
<1>1. stack # <<>> /\ Top.pc = phase
  BY RunningHandler DEF DInv
<1>2. stack' # <<>> /\ Top'.pc = next /\ Top'.vector = Top.vector
  BY GotoFrame DEF DInv
<1>3. Handover'
  <2>1. Fetching' => Fetching
    BY <1>1, <1>2 DEF Fetching
  <2> QED
    BY <1>2, <2>1 DEF DInv, Handover
<1>4. InHandler' = InHandler
  BY <1>1, <1>2 DEF InHandler
<1> QED
  BY <1>3, <1>4, NothingMoves DEF Delivered

\* The handler up to the end of the interrupts, and from the sti on.
LEMMA HandlerDelivers == DInv /\ (Entry \/ EoiFollower \/ EoiLeader \/ Sti) => Delivered
<1> SUFFICES ASSUME DInv, Entry \/ EoiFollower \/ EoiLeader \/ Sti PROVE Delivered
  OBVIOUS
<1>1. CASE Entry
  <2>1. PICK next \in {"eoi_follower", "eoi_leader"} : Goto(next)
    BY <1>1 DEF Entry
  <2>2. /\ Running("entry") /\ UNCHANGED <<keyboard, output, typed, shown>>
        /\ leader'.irr = leader.irr
    BY <1>1 DEF Entry, pics, keys
  <2> QED
    BY <2>1, <2>2, OtherStepDelivers DEF Phase
<1>2. CASE EoiFollower
  <2>1. /\ Running("eoi_follower") /\ Goto("eoi_leader") /\ leader'.irr = leader.irr
        /\ UNCHANGED <<keyboard, output, typed, shown>>
    BY <1>2 DEF EoiFollower, keys
  <2>2. stack # <<>> /\ Top.pc = "eoi_follower"
    BY <2>1, RunningHandler DEF DInv
  <2>3. Top.vector >= 40
    BY <2>2 DEF DInv, IInv, Service
  <2> QED
    BY <2>1, <2>3, OtherStepDelivers DEF Phase
<1>3. CASE EoiLeader
  <2>1. /\ Running("eoi_leader") /\ UNCHANGED <<keyboard, output, typed, shown>>
        /\ leader' = Command(leader, EOI)
        /\ Goto(IF IrqNumber = KEYBOARD THEN "read" ELSE "sti")
    BY <1>3 DEF EoiLeader, keys
  <2>2. leader'.irr = leader.irr
    BY <2>1, EndOfInterrupt DEF DInv, IInv, TypeOK
  <2>3. Top.vector \in 32 .. 47
    BY <2>1, RunningHandler DEF DInv, HandlerFrame
  <2>4. IrqNumber = KEYBOARD <=> Top.vector = 33
    BY <2>3 DEF IrqNumber, KEYBOARD
  <2>5. CASE IrqNumber = KEYBOARD
    <3>1. Goto("read")
      BY <2>1, <2>5
    <3> QED
      BY <2>1, <2>2, <2>4, <2>5, <3>1, OtherStepDelivers DEF Phase
  <2>6. CASE IrqNumber # KEYBOARD
    <3>1. Goto("sti")
      BY <2>1, <2>6
    <3> QED
      BY <2>1, <2>2, <3>1, OtherStepDelivers DEF Phase
  <2> QED
    BY <2>5, <2>6
<1>4. CASE Sti
  <2>1. /\ Running("sti") /\ Goto("iretq") /\ leader'.irr = leader.irr
        /\ UNCHANGED <<keyboard, output, typed, shown>>
    BY <1>4 DEF Sti, pics, keys
  <2> QED
    BY <2>1, OtherStepDelivers DEF Phase
<1> QED
  BY <1>1, <1>2, <1>3, <1>4

\* The scancode goes from the buffer to the handler.
LEMMA ReadDelivers == DInv /\ Read => Delivered
<1> SUFFICES ASSUME DInv, Read PROVE Delivered
  OBVIOUS
<1>1. /\ Running("read") /\ UNCHANGED <<keyboard, typed, shown, leader>>
      /\ output' = [output EXCEPT !.full = FALSE]
      /\ stack' = [stack EXCEPT ![Len(stack)] =
                      [@ EXCEPT !.pc = "show", !.keycode = output.code]]
  BY DEF Read, pics
<1>2. /\ stack # <<>> /\ Len(stack) = 1 /\ Top = stack[1] /\ Top \in HandlerFrame
      /\ Top.pc = "read" /\ stack \in Seq(HandlerFrame)
  BY <1>1, RunningHandler DEF DInv, IInv, TypeOK
<1>3. Fetching /\ output.full /\ KEYBOARD \notin leader.irr
  BY <1>2 DEF DInv, Handover, Fetching
<1> DEFINE f == [Top EXCEPT !.pc = "show", !.keycode = output.code]
<1>4. f.pc = "show" /\ f.keycode = output.code
  BY <1>2 DEF HandlerFrame
<1>5. stack' = [stack EXCEPT ![1] = f]
  BY <1>1, <1>2
<1> HIDE DEF f
<1>6. Len(stack') = 1 /\ stack'[1] = f
  BY <1>2, <1>5
<1>7. stack' # <<>> /\ Top' = f
  BY <1>6 DEF Top
<1>8. output \in [full : BOOLEAN, code : Code]
  BY DEF DInv, IInv, TypeOK
<1>9. ~output'.full /\ output.code \in Code
  BY <1>1, <1>8
<1>10. Handover'
  BY <1>1, <1>3, <1>4, <1>7 DEF Handover, Fetching
<1>11. /\ InHandler = <<>> /\ InOutput = <<output.code>>
       /\ InHandler' = <<output.code>> /\ InOutput' = <<>>
  BY <1>2, <1>3, <1>4, <1>7, <1>9 DEF InHandler, InOutput
<1>12. typed = ((shown \o <<>>) \o <<output.code>>) \o keyboard
  BY <1>11 DEF DInv, ScancodesInOrder
<1>13. (shown \o <<>>) \o <<output.code>> = (shown \o <<output.code>>) \o <<>>
  BY <1>9, OnTheWay, ReadSeq DEF DInv
<1> QED
  BY <1>1, <1>10, <1>11, <1>12, <1>13 DEF Delivered, ScancodesInOrder

\* It goes from the handler to the screen.
LEMMA ShowDelivers == DInv /\ Show => Delivered
<1> SUFFICES ASSUME DInv, Show PROVE Delivered
  OBVIOUS
<1>1. /\ Running("show") /\ Goto("sti") /\ "sti" \in Phase
      /\ UNCHANGED <<keyboard, output, typed, leader>>
      /\ shown' = Append(shown, Top.keycode)
  BY DEF Show, pics, Phase
<1>2. /\ stack # <<>> /\ Top.pc = "show" /\ Top.keycode \in Code
  BY <1>1, RunningHandler DEF DInv, HandlerFrame
<1>3. stack' # <<>> /\ Top'.pc = "sti"
  BY <1>1, GotoFrame DEF DInv
<1>4. Handover'
  <2>1. ~Fetching'
    BY <1>3 DEF Fetching
  <2> QED
    BY <1>1, <1>3, <2>1 DEF DInv, Handover
<1>5. InHandler = <<Top.keycode>> /\ InHandler' = <<>> /\ InOutput' = InOutput
  BY <1>1, <1>2, <1>3 DEF InHandler, InOutput
<1>6. typed = ((shown \o <<Top.keycode>>) \o InOutput) \o keyboard
  BY <1>5 DEF DInv, ScancodesInOrder
<1>7. shown \o <<Top.keycode>> = Append(shown, Top.keycode) \o <<>>
  BY <1>2, OnTheWay, ShowSeq DEF DInv
<1> QED
  BY <1>1, <1>4, <1>5, <1>6, <1>7 DEF Delivered, ScancodesInOrder

\* The handler returns when it has printed the scancode.
LEMMA IretqDelivers == DInv /\ Iretq => Delivered
<1> SUFFICES ASSUME DInv, Iretq PROVE Delivered
  OBVIOUS
<1>1. Running("iretq") /\ UNCHANGED <<keyboard, output, typed, shown, leader>>
  BY DEF Iretq, pics, keys
<1>2. stack # <<>> /\ Len(stack) = 1 /\ Top.pc = "iretq"
  BY <1>1, RunningHandler DEF DInv
<1>3. stack' = <<>>
  BY <1>2 DEF Iretq, DInv, IInv, TypeOK
<1>4. Handover'
  BY <1>1, <1>3 DEF DInv, Handover, Fetching
<1>5. InHandler' = InHandler
  BY <1>2, <1>3 DEF InHandler
<1> QED
  BY <1>1, <1>4, <1>5, NothingMoves DEF Delivered

\* No step loses a scancode.
LEMMA NextDInv == DInv /\ [Next]_vars => DInv'
<1> SUFFICES ASSUME DInv, [Next]_vars PROVE DInv'
  OBVIOUS
<1>1. IInv'
  BY NextIInv DEF DInv
<1>2. Delivered
  BY InstallDelivers, TypeDelivers, TransferDelivers, DevicesDeliver, AcceptDelivers,
     AcknowledgeDelivers, HandlerDelivers, ReadDelivers, ShowDelivers, IretqDelivers
     DEF Next, Handler, Devices
<1> QED
  BY <1>1, <1>2 DEF DInv, Delivered
-----------------------------------------------------------------------------
(* The theorem.                                                            *)

\* No scancode is lost, printed twice or overtaken, although the handler ends
\* the interrupt before it reads the scancode (interrupts.cpp 168-187).
THEOREM KeysInOrder == Spec => []ScancodesInOrder
<1>1. Init => DInv
  <2> SUFFICES ASSUME Init PROVE Handover /\ ScancodesInOrder
    BY InitIInv DEF DInv
  <2>1. Handover
    BY DEF Init, Handover, Fetching
  <2>2. InHandler = <<>> /\ InOutput = <<>>
    BY DEF Init, InHandler, InOutput
  <2> QED
    BY <2>1, <2>2 DEF Init, ScancodesInOrder
<1>2. DInv => ScancodesInOrder
  BY DEF DInv
<1> QED
  BY <1>1, <1>2, NextDInv, PTL DEF Spec
=============================================================================
