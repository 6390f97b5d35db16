--------------------------- MODULE Console_proofs ---------------------------
(***************************************************************************)
(* Proofs about the console for every size of the screen, every script and *)
(* every number of interrupts: its types; that no interleaving of the main *)
(* flow with interrupt handlers makes a print write beyond the screen;     *)
(* that the cursor registers hold what the flows have written, so that a   *)
(* handler which meets no torn cursor ends where a whole call would; and   *)
(* that the console implements Terminal until a print is interrupted.      *)
(***************************************************************************)
EXTENDS ConsoleRefinement, NumberLemmas, TLAPS

\* The sizes derived from MAX_COLS and MAX_ROWS.
LEMMA Geometry ==
    /\ MAX_COLS \in Nat \ {0} /\ BYTE \in Nat \ {0}
    /\ ScreenSize \in Nat
    /\ LastRow \in Nat
    /\ LastRow + MAX_COLS = ScreenSize
    /\ MAX_COLS <= LastRow
    /\ BYTE * BYTE \in Nat
    /\ ScreenSize <= BYTE * BYTE
<1>1. /\ MAX_COLS \in Nat /\ MAX_COLS > 0
      /\ MAX_ROWS \in Nat /\ MAX_ROWS >= 2
      /\ BYTE \in Nat /\ BYTE > 0
      /\ MAX_ROWS * MAX_COLS <= BYTE * BYTE
  BY VgaTextAssumption
<1>2. /\ MAX_ROWS * MAX_COLS \in Nat
      /\ (MAX_ROWS - 1) * MAX_COLS \in Nat
      /\ BYTE * BYTE \in Nat
  BY <1>1
<1>3. (MAX_ROWS - 1) * MAX_COLS + MAX_COLS = MAX_ROWS * MAX_COLS
  BY <1>1
<1>4. MAX_COLS <= (MAX_ROWS - 1) * MAX_COLS
  BY <1>1
<1> QED
  BY <1>1, <1>2, <1>3, <1>4 DEF ScreenSize, LastRow

\* An offset computed from coordinates that are not negative is not negative.
LEMMA OffsetNat ==
    ASSUME NEW col \in Nat, NEW row \in Nat
    PROVE  get_offset(col, row) \in Nat
  BY VgaTextAssumption DEF get_offset

\* print_char's test of the coordinates suffices: what passes it is a cell.
LEMMA OffsetOnScreen ==
    ASSUME NEW col \in Nat, NEW row \in Nat, ~OffScreen(col, row)
    PROVE  get_offset(col, row) \in Cells
<1>1. /\ MAX_COLS \in Nat /\ MAX_ROWS \in Nat
      /\ col < MAX_COLS /\ row <= MAX_ROWS - 1
  BY VgaTextAssumption DEF OffScreen
<1>2. row * MAX_COLS <= (MAX_ROWS - 1) * MAX_COLS
  BY <1>1
<1>3. get_offset(col, row) < (MAX_ROWS - 1) * MAX_COLS + MAX_COLS
  <2>1. row * MAX_COLS \in Nat /\ (MAX_ROWS - 1) * MAX_COLS \in Int
    BY <1>1
  <2> QED
    BY <1>1, <1>2, <2>1 DEF get_offset
<1>4. get_offset(col, row) \in Nat
  BY OffsetNat
<1> QED
  BY <1>3, <1>4, Geometry DEF Cells, LastRow

\* Row and column of an offset that is not negative are not negative.
LEMMA PositionNat ==
    ASSUME NEW offset \in Nat
    PROVE  get_offset_row(offset) \in Nat /\ get_offset_col(offset) \in Nat
<1>1. MAX_COLS \in Nat /\ MAX_COLS > 0
  BY VgaTextAssumption
<1>2. offset \div MAX_COLS \in Nat
  BY <1>1
<1>3. (offset \div MAX_COLS) * MAX_COLS <= offset
  BY <1>1
<1>4. (offset \div MAX_COLS) * MAX_COLS \in Nat
  BY <1>1, <1>2
<1> QED
  BY <1>2, <1>3, <1>4 DEF get_offset_row, get_offset_col

\* The two bytes of an offset fit the cursor registers.
LEMMA BytesOfOffset ==
    ASSUME NEW offset \in Nat
    PROVE  HighByte(offset) \in 0 .. BYTE - 1 /\ LowByte(offset) \in 0 .. BYTE - 1
<1>1. BYTE \in Nat /\ BYTE > 0
  BY VgaTextAssumption
<1>2. offset \div BYTE \in Nat
  BY <1>1
<1>3. ASSUME NEW n \in Nat PROVE n % BYTE \in 0 .. BYTE - 1
  BY <1>1
<1> QED
  BY <1>2, <1>3 DEF HighByte, LowByte

\* The next offset after any character is not negative.
LEMMA NextOffsetNat ==
    ASSUME NEW offset \in Nat, NEW c \in Char
    PROVE  NextOffset(offset, c) \in Nat
<1>1. get_offset(0, get_offset_row(offset) + 1) \in Nat
  BY PositionNat, OffsetNat
<1>2. (offset \div TAB_CELLS + 1) * TAB_CELLS \in Nat
  <2>1. TAB_CELLS \in Nat /\ TAB_CELLS > 0
    BY VgaTextAssumption
  <2>2. offset \div TAB_CELLS \in Nat
    BY <2>1
  <2> QED
    BY <2>1, <2>2
<1> QED
  BY <1>1, <1>2 DEF NextOffset
-----------------------------------------------------------------------------
(* The inductive invariant.                                                *)

IInv == TypeOK /\ FramesInBounds /\ BeyondScreenUntouched

\* A step of the running flow that leaves it a frame of the right type, in
\* bounds, keeps all frames so.
LEMMA BecomeInBounds ==
    ASSUME IInv, NEW f \in Frame, InBounds(f), Become(f)
    PROVE  frame' \in [Flow -> Frame] /\ FramesInBounds'
  BY DEF IInv, TypeOK, FramesInBounds, Become, Flow

\* Writing a cell of the screen leaves the rest of the memory alone.
LEMMA WriteOnScreen ==
    ASSUME IInv, NEW offset \in Cells, NEW cell \in Cell,
           vidmem' = [vidmem EXCEPT ![offset] = cell]
    PROVE  vidmem' \in [Address -> Cell] /\ BeyondScreenUntouched'
<1>1. Cells \subseteq Address
  BY Geometry DEF Cells, Address
<1> QED
  BY <1>1 DEF IInv, TypeOK, BeyondScreenUntouched

\* The cells the console writes are cells.
LEMMA CellTypes ==
    /\ ErrorCell \in Cell /\ BlankCell \in Cell /\ SpaceCell \in Cell
    /\ BootCell \in Cell
    /\ \A c \in Glyph : PutCell(c) \in Cell
  BY DEF Cell, ErrorCell, BlankCell, SpaceCell, BootCell, PutCell

\* A frame with one field replaced is a frame; several at a time, by chaining.
LEMMA FrameUpdate ==
    /\ \A f \in Frame, x \in Label     : [f EXCEPT !.pc = x] \in Frame
    /\ \A f \in Frame, x \in {"print", "clear"} : [f EXCEPT !.op = x] \in Frame
    /\ \A f \in Frame, x \in Seq(Char) : [f EXCEPT !.msg = x] \in Frame
    /\ \A f \in Frame, x \in Int       : [f EXCEPT !.col = x] \in Frame
    /\ \A f \in Frame, x \in Int       : [f EXCEPT !.row = x] \in Frame
    /\ \A f \in Frame, x \in Int       : [f EXCEPT !.offset = x] \in Frame
    /\ \A f \in Frame, x \in Int       : [f EXCEPT !.i = x] \in Frame
  BY DEF Frame

\* The frame with which the loop of console_kprint_at continues.
LEMMA ContinueInBounds ==
    ASSUME NEW f \in Frame, NEW offset \in Nat
    PROVE  Continue(f, offset) \in Frame /\ InBounds(Continue(f, offset))
<1>1. get_offset_row(offset) \in Nat /\ get_offset_col(offset) \in Nat
  BY PositionNat
<1>2. /\ "print_char" \in Label
      /\ get_offset_row(offset) \in Int /\ get_offset_col(offset) \in Int
      /\ 0 \in Int
  BY <1>1 DEF Label
<1>3. Continue(f, offset) \in Frame
  BY <1>2, FrameUpdate, Zenon DEF Continue
<1>4. /\ Continue(f, offset).pc = "print_char"
      /\ Continue(f, offset).col = get_offset_col(offset)
      /\ Continue(f, offset).row = get_offset_row(offset)
      /\ Continue(f, offset).offset = 0
  BY DEF Continue, Frame
<1>5. InBounds(Continue(f, offset))
  BY <1>1, <1>4 DEF InBounds
<1> QED
  BY <1>3, <1>5

\* A frame between two calls is in bounds.
LEMMA IdleInBounds == Idle \in Frame /\ InBounds(Idle)
<1>1. <<>> \in Seq(Char)
  OBVIOUS
<1> QED
  BY <1>1 DEF Idle, Frame, InBounds, Label

\* The frame of the flow that runs.
LEMMA SelfFrame ==
    ASSUME IInv
    PROVE  /\ Self \in Frame /\ InBounds(Self)
           /\ calls[cpu] \in Seq(Call) /\ cpu \in Flow
  BY DEF IInv, TypeOK, FramesInBounds, Self

\* A call removed from the script of a flow.
LEMMA CallsTail ==
    ASSUME IInv, calls[cpu] # <<>>, calls' = [calls EXCEPT ![cpu] = Tail(@)]
    PROVE  calls' \in [Flow -> Seq(Call)] /\ Head(calls[cpu]) \in Call
  BY SelfFrame DEF IInv, TypeOK

\* Initially no call has begun.
LEMMA InitIInv == Init => IInv
<1> SUFFICES ASSUME Init PROVE IInv
  OBVIOUS
<1>1. frame \in [Flow -> Frame] /\ FramesInBounds
  BY IdleInBounds DEF Init, FramesInBounds
<1>2. crtc \in [{HIGH, LOW} -> 0 .. BYTE - 1]
  <2>1. PICK offset \in Cells :
          crtc = [r \in {HIGH, LOW} |-> IF r = HIGH THEN HighByte(offset)
                                                    ELSE LowByte(offset)]
    BY DEF Init
  <2>2. offset \in Nat
    BY Geometry DEF Cells
  <2> QED
    BY <2>1, <2>2, BytesOfOffset
<1>3. calls \in [Flow -> Seq(Call)]
  BY ScriptAssumption DEF Init
<1>4. BeyondScreenUntouched /\ vidmem \in [Address -> Cell]
  BY CellTypes DEF Init, BeyondScreenUntouched
<1>5. crtc_index \in {HIGH, LOW} /\ cpu \in Flow /\ preempted \in BOOLEAN
  BY DEF Init, Flow
<1>6. fired \in 0 .. MaxInterrupts
  BY ConsoleAssumption DEF Init
<1> QED
  BY <1>1, <1>2, <1>3, <1>4, <1>5, <1>6 DEF IInv, TypeOK

(***************************************************************************)
(* One lemma for each kind of step.                                        *)
(***************************************************************************)

\* Steps that only move a frame to a label without a loop counter.
LEMMA GotoInBounds ==
    ASSUME IInv, ~At("copy"), ~At("blank"),
           NEW label \in {"read_high", "read_low", "write_high", "select_low",
                          "write_low"},
           Goto(label)
    PROVE  frame' \in [Flow -> Frame] /\ FramesInBounds'
<1> DEFINE f == [Self EXCEPT !.pc = label]
<1>1. Self \in Frame /\ InBounds(Self)
  BY SelfFrame
<1>2. label \in Label
  BY DEF Label
<1>3. f \in Frame
  BY <1>1, <1>2, FrameUpdate
<1>4. f.pc = label /\ f.offset = Self.offset
  BY <1>1 DEF Frame
<1>5. InBounds(f)
  BY <1>1, <1>4 DEF InBounds, At
<1> HIDE DEF f
<1>6. Become(f)
  BY DEF Goto, f
<1> QED
  BY <1>1, <1>3, <1>5, <1>6, BecomeInBounds

\* A print begins; its position is not tested here.
LEMMA CallPrintStep == IInv /\ CallPrint => IInv'
<1> SUFFICES ASSUME IInv, CallPrint PROVE IInv'
  OBVIOUS
<1> DEFINE call == Head(calls[cpu])
           given == call.col >= 0 /\ call.row >= 0
           label == IF given THEN "print_char" ELSE "ask_high"
           col == IF given THEN call.col ELSE 0
           row == IF given THEN call.row ELSE 0
           f == [Idle EXCEPT !.pc = label, !.msg = call.msg,
                             !.col = col, !.row = row]
<1>1. calls' \in [Flow -> Seq(Call)] /\ call \in Call
  BY CallsTail DEF CallPrint
<1>2. call.op = "print" /\ Become(f)
  BY DEF CallPrint
<1>3. call.msg \in Seq(Char) /\ call.col \in Int /\ call.row \in Int
  BY <1>1, <1>2 DEF Call, PrintChar
<1>4. label \in Label /\ col \in Int /\ row \in Int
  BY <1>3 DEF Label
<1>5. f \in Frame
  <2> HIDE DEF label, col, row, call
  <2> QED
    BY <1>3, <1>4, IdleInBounds, FrameUpdate, Zenon
<1>6. f.pc = label /\ f.col = col /\ f.row = row /\ f.offset = 0
  BY DEF Idle
<1>7. InBounds(f)
  <2>1. label = "print_char" => col >= 0 /\ row >= 0
    OBVIOUS
  <2>2. label \in {"print_char", "ask_high"}
    OBVIOUS
  <2> HIDE DEF f, label, col, row
  <2> QED
    BY <1>4, <1>6, <2>1, <2>2 DEF InBounds
<1>8. frame' \in [Flow -> Frame] /\ FramesInBounds'
  <2> HIDE DEF f
  <2> QED
    BY <1>2, <1>5, <1>7, BecomeInBounds
<1>9. UNCHANGED <<vidmem, crtc_index, crtc, cpu, fired, preempted>>
  BY DEF CallPrint, hardware, NothingElse
<1> QED
  BY <1>1, <1>8, <1>9 DEF IInv, TypeOK, BeyondScreenUntouched

\* The clearing begins at cell 0.
LEMMA CallClearStep == IInv /\ CallClear => IInv'
<1> SUFFICES ASSUME IInv, CallClear PROVE IInv'
  OBVIOUS
<1> DEFINE f == [Idle EXCEPT !.pc = "clear", !.op = "clear"]
<1>1. calls' \in [Flow -> Seq(Call)]
  BY CallsTail DEF CallClear
<1>2. f \in Frame
  <2>1. "clear" \in Label
    BY DEF Label
  <2> QED
    BY <2>1, IdleInBounds, FrameUpdate, Zenon
<1>3. f.pc = "clear" /\ f.offset = 0 /\ f.i = 0
  BY DEF Idle
<1>4. InBounds(f)
  BY <1>3, Geometry DEF InBounds, Cells
<1>5. frame' \in [Flow -> Frame] /\ FramesInBounds'
  <2>1. Become(f)
    BY DEF CallClear
  <2> HIDE DEF f
  <2> QED
    BY <1>2, <1>4, <2>1, BecomeInBounds
<1>6. UNCHANGED <<vidmem, crtc_index, crtc, cpu, fired, preempted>>
  BY DEF CallClear, hardware, NothingElse
<1> QED
  BY <1>1, <1>5, <1>6 DEF IInv, TypeOK, BeyondScreenUntouched

\* Cell 0 is on the screen.
LEMMA CallPrintCharStep == IInv /\ CallPrintChar => IInv'
<1> SUFFICES ASSUME IInv, CallPrintChar PROVE IInv'
  OBVIOUS
<1> DEFINE call == Head(calls[cpu])
           cell == [vidmem[0] EXCEPT !.ch = Head(call.msg)]
<1>1. calls' \in [Flow -> Seq(Call)] /\ call \in Call
  BY CallsTail DEF CallPrintChar
<1>2. PICK c \in Glyph : call = PrintChar(c)
  BY <1>1 DEF CallPrintChar, Call
<1>3. Head(call.msg) = c
  <2>1. call.msg = <<c>>
    BY <1>2 DEF PrintChar
  <2> QED
    BY <2>1
<1>4. 0 \in Cells /\ 0 \in Address
  BY Geometry DEF Cells, Address
<1>5. vidmem[0] \in Cell
  BY <1>4 DEF IInv, TypeOK
<1>6. cell \in Cell
  <2> HIDE DEF call
  <2> QED
    BY <1>3, <1>5 DEF Cell
<1>7. vidmem' = [vidmem EXCEPT ![0] = cell]
  BY DEF CallPrintChar
<1>8. vidmem' \in [Address -> Cell] /\ BeyondScreenUntouched'
  <2> HIDE DEF cell
  <2> QED
    BY <1>4, <1>6, <1>7, WriteOnScreen
<1>9. UNCHANGED <<crtc_index, crtc, frame, cpu, fired, preempted>>
  BY DEF CallPrintChar, NothingElse
<1> QED
  BY <1>1, <1>8, <1>9 DEF IInv, TypeOK, FramesInBounds

\* Selecting a register touches neither the memory nor a position.
LEMMA SelectSteps ==
    IInv /\ (AskHigh \/ AskLow \/ SelectHigh \/ SelectLow) => IInv'
<1> SUFFICES ASSUME IInv, AskHigh \/ AskLow \/ SelectHigh \/ SelectLow PROVE IInv'
  OBVIOUS
<1>1. PICK label \in {"read_high", "read_low", "write_high", "write_low"} : Goto(label)
  BY DEF AskHigh, AskLow, SelectHigh, SelectLow
<1>2. ~At("copy") /\ ~At("blank")
  BY DEF AskHigh, AskLow, SelectHigh, SelectLow, At
<1>3. frame' \in [Flow -> Frame] /\ FramesInBounds'
  BY <1>1, <1>2, GotoInBounds
<1>4. crtc_index' \in {HIGH, LOW}
  BY DEF AskHigh, AskLow, SelectHigh, SelectLow, Select
<1>5. UNCHANGED <<vidmem, crtc, calls, cpu, fired, preempted>>
  BY DEF AskHigh, AskLow, SelectHigh, SelectLow, Select, NothingElse
<1> QED
  BY <1>3, <1>4, <1>5 DEF IInv, TypeOK, BeyondScreenUntouched

\* The high byte of the cursor, ...
LEMMA ReadHighStep == IInv /\ ReadHigh => IInv'
<1> SUFFICES ASSUME IInv, ReadHigh PROVE IInv'
  OBVIOUS
<1> DEFINE offset == crtc[crtc_index] * BYTE
           f == [Self EXCEPT !.pc = "ask_low", !.offset = offset]
<1>1. Self \in Frame
  BY SelfFrame
<1>2. offset \in Nat
  <2>1. crtc[crtc_index] \in Nat /\ BYTE \in Nat
    BY Geometry DEF IInv, TypeOK
  <2> QED
    BY <2>1
<1>3. f \in Frame
  <2>1. "ask_low" \in Label /\ offset \in Int
    BY <1>2 DEF Label
  <2> HIDE DEF offset
  <2> QED
    BY <1>1, <2>1, FrameUpdate, Zenon
<1>4. f.pc = "ask_low" /\ f.offset = offset
  BY <1>1 DEF Frame
<1>5. InBounds(f)
  BY <1>2, <1>4 DEF InBounds
<1>6. frame' \in [Flow -> Frame] /\ FramesInBounds'
  <2>1. Become(f)
    BY DEF ReadHigh
  <2> HIDE DEF f
  <2> QED
    BY <1>3, <1>5, <2>1, BecomeInBounds
<1>7. UNCHANGED <<vidmem, crtc_index, crtc, calls, cpu, fired, preempted>>
  BY DEF ReadHigh, hardware, NothingElse
<1> QED
  BY <1>6, <1>7 DEF IInv, TypeOK, BeyondScreenUntouched

\* ... and the low byte, give an offset that may be any 16 bits.
LEMMA ReadLowStep == IInv /\ ReadLow => IInv'
<1> SUFFICES ASSUME IInv, ReadLow PROVE IInv'
  OBVIOUS
<1> DEFINE offset == Self.offset + crtc[crtc_index]
<1>1. offset \in Nat
  <2>1. crtc[crtc_index] \in Nat
    BY Geometry DEF IInv, TypeOK
  <2>2. Self.offset \in Int /\ Self.offset >= 0
    BY SelfFrame DEF Frame, InBounds, ReadLow, At
  <2> QED
    BY <2>1, <2>2
<1>2. Continue(Self, offset) \in Frame /\ InBounds(Continue(Self, offset))
  BY <1>1, SelfFrame, ContinueInBounds
<1>3. frame' \in [Flow -> Frame] /\ FramesInBounds'
  BY <1>2, BecomeInBounds DEF ReadLow
<1>4. UNCHANGED <<vidmem, crtc_index, crtc, calls, cpu, fired, preempted>>
  BY DEF ReadLow, hardware, NothingElse
<1> QED
  BY <1>3, <1>4 DEF IInv, TypeOK, BeyondScreenUntouched

\* The high byte of an offset fits its register, ...
LEMMA WriteHighStep == IInv /\ WriteHigh => IInv'
<1> SUFFICES ASSUME IInv, WriteHigh PROVE IInv'
  OBVIOUS
<1>1. Self.offset \in Nat
  BY SelfFrame DEF Frame, InBounds, WriteHigh, At
<1>2. crtc' \in [{HIGH, LOW} -> 0 .. BYTE - 1]
  BY <1>1, BytesOfOffset DEF WriteHigh, Data, IInv, TypeOK
<1>3. frame' \in [Flow -> Frame] /\ FramesInBounds'
  BY GotoInBounds DEF WriteHigh, At
<1>4. UNCHANGED <<vidmem, crtc_index, calls, cpu, fired, preempted>>
  BY DEF WriteHigh, Data, NothingElse
<1> QED
  BY <1>2, <1>3, <1>4 DEF IInv, TypeOK, BeyondScreenUntouched

\* ... and so does the low byte.
LEMMA WriteLowStep == IInv /\ WriteLow => IInv'
<1> SUFFICES ASSUME IInv, WriteLow PROVE IInv'
  OBVIOUS
<1> DEFINE f == IF Self.op = "clear" THEN Idle ELSE Continue(Self, Self.offset)
<1>1. Self.offset \in Nat
  BY SelfFrame DEF Frame, InBounds, WriteLow, At
<1>2. crtc' \in [{HIGH, LOW} -> 0 .. BYTE - 1]
  BY <1>1, BytesOfOffset DEF WriteLow, Data, IInv, TypeOK
<1>3. f \in Frame /\ InBounds(f)
  BY <1>1, SelfFrame, ContinueInBounds, IdleInBounds
<1>4. frame' \in [Flow -> Frame] /\ FramesInBounds'
  BY <1>3, BecomeInBounds DEF WriteLow
<1>5. UNCHANGED <<vidmem, crtc_index, calls, cpu, fired, preempted>>
  BY DEF WriteLow, Data, NothingElse
<1> QED
  BY <1>2, <1>4, <1>5 DEF IInv, TypeOK, BeyondScreenUntouched

\* The print returns.
LEMMA EndPrintStep == IInv /\ EndPrint => IInv'
<1> SUFFICES ASSUME IInv, EndPrint PROVE IInv'
  OBVIOUS
<1>1. frame' \in [Flow -> Frame] /\ FramesInBounds'
  BY IdleInBounds, BecomeInBounds DEF EndPrint
<1>2. UNCHANGED <<vidmem, crtc_index, crtc, calls, cpu, fired, preempted>>
  BY DEF EndPrint, hardware, NothingElse
<1> QED
  BY <1>1, <1>2 DEF IInv, TypeOK, BeyondScreenUntouched

\* The coordinates a character is put at, and the rest of the message.
LEMMA PrintCharFrame ==
    ASSUME IInv, At("print_char"), Self.msg # <<>>
    PROVE  /\ Self \in Frame
           /\ Self.col \in Nat /\ Self.row \in Nat
           /\ Head(Self.msg) \in Char
           /\ Tail(Self.msg) \in Seq(Char)
<1>1. Self \in Frame /\ InBounds(Self)
  BY SelfFrame
<1>2. Self.msg \in Seq(Char) /\ Self.col \in Int /\ Self.row \in Int
  BY <1>1 DEF Frame
<1>3. Self.col >= 0 /\ Self.row >= 0
  BY <1>1 DEF InBounds, At
<1>4. Head(Self.msg) \in Char /\ Tail(Self.msg) \in Seq(Char)
  BY <1>2
<1> QED
  BY <1>1, <1>2, <1>3, <1>4

\* A position off the screen costs the last cell, which is on it.
LEMMA RejectedStep == IInv /\ Rejected => IInv'
<1> SUFFICES ASSUME IInv, Rejected PROVE IInv'
  OBVIOUS
<1> DEFINE rest == [Self EXCEPT !.msg = Tail(@)]
           offset == get_offset(Self.col, Self.row)
<1>1. /\ Self \in Frame /\ Tail(Self.msg) \in Seq(Char)
      /\ Self.col \in Nat /\ Self.row \in Nat
  BY PrintCharFrame DEF Rejected
<1>2. rest \in Frame
  BY <1>1, FrameUpdate
<1>3. offset \in Nat
  BY <1>1, OffsetNat
<1>4. frame' \in [Flow -> Frame] /\ FramesInBounds'
  <2>1. Become(Continue(rest, offset))
    BY DEF Rejected
  <2> HIDE DEF rest, offset
  <2> QED
    BY <1>2, <1>3, <2>1, ContinueInBounds, BecomeInBounds
<1>5. vidmem' \in [Address -> Cell] /\ BeyondScreenUntouched'
  <2>1. LastCell \in Cells
    BY Geometry DEF LastCell, Cells
  <2> QED
    BY <2>1, CellTypes, WriteOnScreen DEF Rejected
<1>6. UNCHANGED <<crtc_index, crtc, calls, cpu, fired, preempted>>
  BY DEF Rejected, NothingElse
<1> QED
  BY <1>4, <1>5, <1>6 DEF IInv, TypeOK

\* A position that passes the test is a cell of the screen.
LEMMA PutStep == IInv /\ Put => IInv'
<1> SUFFICES ASSUME IInv, Put PROVE IInv'
  OBVIOUS
<1> DEFINE here == get_offset(Self.col, Self.row)
           c == Head(Self.msg)
           next == NextOffset(here, c)
           full == next >= ScreenSize
           label == IF full THEN "copy" ELSE "select_high"
           i == IF full THEN MAX_COLS ELSE 0
           f == [Self EXCEPT !.pc = label, !.msg = Tail(@), !.offset = next, !.i = i]
<1>1. /\ Self \in Frame /\ Tail(Self.msg) \in Seq(Char) /\ c \in Char
      /\ Self.col \in Nat /\ Self.row \in Nat
  BY PrintCharFrame DEF Put
<1>2. here \in Cells
  BY <1>1, OffsetOnScreen DEF Put
<1>3. next \in Nat
  <2>1. here \in Nat
    BY <1>2, Geometry DEF Cells
  <2> HIDE DEF here, c
  <2> QED
    BY <1>1, <2>1, NextOffsetNat
<1>4. label \in Label /\ i \in Int
  BY Geometry DEF Label
<1>5. f \in Frame
  <2>1. next \in Int
    BY <1>3
  <2> HIDE DEF next, label, i
  <2> QED
    BY <1>1, <1>4, <2>1, FrameUpdate, Zenon
<1>6. f.pc = label /\ f.offset = next /\ f.i = i
  <2> HIDE DEF next, label, i
  <2> QED
    BY <1>1 DEF Frame
<1>7. InBounds(f)
  <2> HIDE DEF f, next
  <2>1. CASE full
    BY <1>3, <1>6, <2>1, Geometry DEF InBounds
  <2>2. CASE ~full
    BY <1>3, <1>6, <2>2 DEF InBounds
  <2> QED
    BY <2>1, <2>2
<1>8. frame' \in [Flow -> Frame] /\ FramesInBounds'
  <2>1. Become(f)
    BY DEF Put
  <2> HIDE DEF f
  <2> QED
    BY <1>5, <1>7, <2>1, BecomeInBounds
<1>9. vidmem' \in [Address -> Cell] /\ BeyondScreenUntouched'
  <2>1. vidmem' = IF c \in Glyph THEN [vidmem EXCEPT ![here] = PutCell(c)]
                  ELSE vidmem
    BY DEF Put
  <2> HIDE DEF here, c
  <2>2. CASE c \in Glyph
    BY <1>2, <2>1, <2>2, CellTypes, WriteOnScreen
  <2>3. CASE c \notin Glyph
    BY <2>1, <2>3 DEF IInv, TypeOK, BeyondScreenUntouched
  <2> QED
    BY <2>2, <2>3
<1>10. UNCHANGED <<crtc_index, crtc, calls, cpu, fired, preempted>>
  BY DEF Put, NothingElse
<1> QED
  BY <1>8, <1>9, <1>10 DEF IInv, TypeOK

\* The copying stays below the end of the screen.
LEMMA CopyCellStep == IInv /\ CopyCell => IInv'
<1> SUFFICES ASSUME IInv, CopyCell PROVE IInv'
  OBVIOUS
<1> DEFINE inner == [Self EXCEPT !.i = @ + 1]
           last  == [Self EXCEPT !.pc = "blank", !.i = LastRow]
           f == IF Self.i + 1 < ScreenSize THEN inner ELSE last
<1>1. Self \in Frame /\ InBounds(Self) /\ Self.pc = "copy"
  BY SelfFrame DEF CopyCell, At
<1>2. Self.i \in MAX_COLS .. ScreenSize - 1 /\ Self.offset >= ScreenSize
  BY <1>1 DEF InBounds
<1>3. inner \in Frame /\ last \in Frame
  <2>1. Self.i + 1 \in Int /\ LastRow \in Int /\ "blank" \in Label
    BY <1>2, Geometry DEF Label
  <2> QED
    BY <1>1, <2>1, FrameUpdate, Zenon
<1>4. /\ inner.pc = "copy" /\ inner.i = Self.i + 1 /\ inner.offset = Self.offset
      /\ last.pc = "blank" /\ last.i = LastRow /\ last.offset = Self.offset
  BY <1>1 DEF Frame
<1>5. InBounds(f)
  <2> HIDE DEF inner, last
  <2>1. CASE Self.i + 1 < ScreenSize
    BY <1>2, <1>4, <2>1, Geometry DEF InBounds
  <2>2. CASE ~(Self.i + 1 < ScreenSize)
    BY <1>2, <1>4, <2>2, Geometry DEF InBounds
  <2> QED
    BY <2>1, <2>2
<1>6. frame' \in [Flow -> Frame] /\ FramesInBounds'
  <2>1. Become(f)
    BY DEF CopyCell
  <2>2. f \in Frame
    BY <1>3
  <2> HIDE DEF f
  <2> QED
    BY <1>5, <2>1, <2>2, BecomeInBounds
<1>7. vidmem' \in [Address -> Cell] /\ BeyondScreenUntouched'
  <2>1. Self.i - MAX_COLS \in Cells /\ Self.i \in Address
    BY <1>2, Geometry DEF Cells, Address
  <2>2. vidmem[Self.i] \in Cell
    BY <2>1 DEF IInv, TypeOK
  <2> QED
    BY <2>1, <2>2, WriteOnScreen DEF CopyCell
<1>8. UNCHANGED <<crtc_index, crtc, calls, cpu, fired, preempted>>
  BY DEF CopyCell, NothingElse
<1> QED
  BY <1>6, <1>7, <1>8 DEF IInv, TypeOK

\* So does the zeroing of the last row.
LEMMA ZeroCellStep == IInv /\ ZeroCell => IInv'
<1> SUFFICES ASSUME IInv, ZeroCell PROVE IInv'
  OBVIOUS
<1> DEFINE inner == [Self EXCEPT !.i = @ + 1]
           last  == [Self EXCEPT !.pc = "select_high", !.i = 0,
                                 !.offset = @ - MAX_COLS]
           f == IF Self.i + 1 < ScreenSize THEN inner ELSE last
<1>1. Self \in Frame /\ InBounds(Self) /\ Self.pc = "blank"
  BY SelfFrame DEF ZeroCell, At
<1>2. /\ Self.i \in LastRow .. ScreenSize - 1
      /\ Self.offset \in Int /\ Self.offset >= ScreenSize
  BY <1>1 DEF InBounds, Frame
<1>3. inner \in Frame /\ last \in Frame
  <2>1. /\ Self.i + 1 \in Int /\ Self.offset - MAX_COLS \in Int
        /\ "select_high" \in Label /\ 0 \in Int
    BY <1>2, Geometry DEF Label
  <2> QED
    BY <1>1, <2>1, FrameUpdate, Zenon
<1>4. /\ inner.pc = "blank" /\ inner.i = Self.i + 1 /\ inner.offset = Self.offset
      /\ last.pc = "select_high" /\ last.offset = Self.offset - MAX_COLS
  BY <1>1 DEF Frame
<1>5. InBounds(f)
  <2> HIDE DEF inner, last
  <2>1. CASE Self.i + 1 < ScreenSize
    BY <1>2, <1>4, <2>1, Geometry DEF InBounds
  <2>2. CASE ~(Self.i + 1 < ScreenSize)
    BY <1>2, <1>4, <2>2, Geometry DEF InBounds
  <2> QED
    BY <2>1, <2>2
<1>6. frame' \in [Flow -> Frame] /\ FramesInBounds'
  <2>1. Become(f)
    BY DEF ZeroCell
  <2>2. f \in Frame
    BY <1>3
  <2> HIDE DEF f
  <2> QED
    BY <1>5, <2>1, <2>2, BecomeInBounds
<1>7. vidmem' \in [Address -> Cell] /\ BeyondScreenUntouched'
  <2>1. Self.i \in Cells
    BY <1>2, Geometry DEF Cells
  <2> QED
    BY <2>1, CellTypes, WriteOnScreen DEF ZeroCell
<1>8. UNCHANGED <<crtc_index, crtc, calls, cpu, fired, preempted>>
  BY DEF ZeroCell, NothingElse
<1> QED
  BY <1>6, <1>7, <1>8 DEF IInv, TypeOK

\* So does the clearing.
LEMMA SpaceOutStep == IInv /\ SpaceOut => IInv'
<1> SUFFICES ASSUME IInv, SpaceOut PROVE IInv'
  OBVIOUS
<1> DEFINE inner == [Self EXCEPT !.i = @ + 1]
           last  == [Self EXCEPT !.pc = "select_high", !.i = 0]
           f == IF Self.i + 1 < ScreenSize THEN inner ELSE last
<1>1. Self \in Frame /\ InBounds(Self) /\ Self.pc = "clear"
  BY SelfFrame DEF SpaceOut, At
<1>2. Self.i \in Cells /\ Self.offset >= 0
  BY <1>1 DEF InBounds
<1>3. inner \in Frame /\ last \in Frame
  <2>1. Self.i + 1 \in Int /\ "select_high" \in Label /\ 0 \in Int
    BY <1>2, Geometry DEF Label, Cells
  <2> QED
    BY <1>1, <2>1, FrameUpdate, Zenon
<1>4. /\ inner.pc = "clear" /\ inner.i = Self.i + 1 /\ inner.offset = Self.offset
      /\ last.pc = "select_high" /\ last.offset = Self.offset
  BY <1>1 DEF Frame
<1>5. InBounds(f)
  <2> HIDE DEF inner, last
  <2>1. CASE Self.i + 1 < ScreenSize
    BY <1>2, <1>4, <2>1, Geometry DEF InBounds, Cells
  <2>2. CASE ~(Self.i + 1 < ScreenSize)
    BY <1>2, <1>4, <2>2 DEF InBounds
  <2> QED
    BY <2>1, <2>2
<1>6. frame' \in [Flow -> Frame] /\ FramesInBounds'
  <2>1. Become(f)
    BY DEF SpaceOut
  <2>2. f \in Frame
    BY <1>3
  <2> HIDE DEF f
  <2> QED
    BY <1>5, <2>1, <2>2, BecomeInBounds
<1>7. vidmem' \in [Address -> Cell] /\ BeyondScreenUntouched'
  BY <1>2, CellTypes, WriteOnScreen DEF SpaceOut
<1>8. UNCHANGED <<crtc_index, crtc, calls, cpu, fired, preempted>>
  BY DEF SpaceOut, NothingElse
<1> QED
  BY <1>6, <1>7, <1>8 DEF IInv, TypeOK

\* A handler begins with an idle frame.
LEMMA InterruptStep == IInv /\ Interrupt => IInv'
<1> SUFFICES ASSUME IInv, Interrupt PROVE IInv'
  OBVIOUS
<1>1. calls' \in [Flow -> Seq(Call)]
  BY ScriptAssumption DEF Interrupt, IInv, TypeOK, Flow
<1>2. cpu' \in Flow
  BY DEF Interrupt, Flow
<1>3. preempted' \in BOOLEAN
  BY DEF Interrupt
<1>4. fired' \in 0 .. MaxInterrupts
  BY ConsoleAssumption DEF Interrupt, IInv, TypeOK
<1>5. UNCHANGED <<vidmem, crtc_index, crtc, frame>>
  BY DEF Interrupt, hardware
<1> QED
  BY <1>1, <1>2, <1>3, <1>4, <1>5
  DEF IInv, TypeOK, FramesInBounds, BeyondScreenUntouched

\* A handler ends with one.
LEMMA IretStep == IInv /\ Iret => IInv'
  BY DEF Iret, hardware, IInv, TypeOK, FramesInBounds, BeyondScreenUntouched, Flow

\* Nothing happens.
LEMMA StutterStep == IInv /\ UNCHANGED vars => IInv'
  BY DEF vars, IInv, TypeOK, FramesInBounds, BeyondScreenUntouched

\* No step breaks the invariant.
LEMMA NextIInv == IInv /\ [Next]_vars => IInv'
<1>1. Spin => UNCHANGED vars
  BY DEF Spin
<1> QED
  BY <1>1, CallPrintStep, CallClearStep, CallPrintCharStep, SelectSteps,
     ReadHighStep, ReadLowStep, RejectedStep, PutStep, CopyCellStep,
     ZeroCellStep, SpaceOutStep, WriteHighStep, WriteLowStep, EndPrintStep,
     IretStep, InterruptStep, StutterStep
  DEF Next, Step
-----------------------------------------------------------------------------
(* The theorems.                                                           *)

\* The invariant that carries the others: the types, the loops of print_char
\* and console_clear_screen inside the screen (console.cpp 86-164), and the
\* memory behind it untouched.
THEOREM Invariance == Spec => []IInv
<1>1. Init => IInv
  BY InitIInv
<1>2. IInv /\ [Next]_vars => IInv'
  BY NextIInv
<1> QED
  BY <1>1, <1>2, PTL DEF Spec

\* The variables keep their types: in particular an offset is never negative
\* where its bytes are written to the cursor registers (145-152).
THEOREM TypeCorrect == Spec => []TypeOK
<1>1. IInv => TypeOK
  BY DEF IInv
<1> QED
  BY <1>1, Invariance, PTL

\* The loops of print_char and console_clear_screen stay on the screen.
THEOREM LoopsInBounds == Spec => []FramesInBounds
<1>1. IInv => FramesInBounds
  BY DEF IInv
<1> QED
  BY <1>1, Invariance, PTL

\* No interleaving of the main flow with any handlers that print makes the
\* console write video memory beyond the screen (console.cpp 86-129).
THEOREM BeyondScreenSafe == Spec => []BeyondScreenUntouched
<1>1. IInv => BeyondScreenUntouched
  BY DEF IInv
<1> QED
  BY <1>1, Invariance, PTL
-----------------------------------------------------------------------------
(* Offsets and positions.                                                  *)

\* A position of the screen, from its offset: rows and columns are what
\* print_char takes them to be (console.cpp 171-184).
LEMMA PlaceOf ==
    ASSUME NEW col \in 0 .. MAX_COLS - 1, NEW row \in Nat
    PROVE  /\ get_offset_row(get_offset(col, row)) = row
           /\ get_offset_col(get_offset(col, row)) = col
<1>1. MAX_COLS \in Nat \ {0}
  BY Geometry
<1>2. /\ MAX_COLS * row + col \in Nat /\ (MAX_COLS * row + col) \div MAX_COLS = row
      /\ MAX_COLS * row \in Nat
  BY <1>1, Unique
<1>3. get_offset(col, row) = MAX_COLS * row + col /\ row * MAX_COLS = MAX_COLS * row
  BY <1>1 DEF get_offset
<1>4. get_offset_row(get_offset(col, row)) = row
  BY <1>2, <1>3 DEF get_offset_row
<1>5. get_offset_col(get_offset(col, row)) = (MAX_COLS * row + col) - MAX_COLS * row
  BY <1>3, <1>4 DEF get_offset_col
<1>6. (MAX_COLS * row + col) - MAX_COLS * row = col
  <2> DEFINE start == MAX_COLS * row
  <2>1. start \in Nat
    BY <1>2
  <2> HIDE DEF start
  <2>2. (start + col) - start = col
    BY <2>1
  <2> QED
    BY <2>2 DEF start
<1> QED
  BY <1>4, <1>5, <1>6

\* The next offset stays in the row, or is the beginning of the next one.
NextCol(col, c) == CASE c = TAB -> (col + TAB_CELLS) - (col % TAB_CELLS)
                     [] c = NL  -> MAX_COLS
                     [] OTHER   -> col + 1

LEMMA TabInRow ==
    ASSUME NEW w \in Nat \ {0}, NEW t \in Nat \ {0}, w % t = 0,
           NEW col \in 0 .. w - 1, NEW row \in Nat
    PROVE  /\ (col + t) - (col % t) \in 1 .. w
           /\ ((row * w + col) \div t + 1) * t = row * w + ((col + t) - (col % t))
<1> DEFINE m == w \div t
           q == col \div t
           r == col % t
<1>1. m \in Nat /\ w = t * m
  BY NoRemainder
<1>2. q \in Nat /\ r \in 0 .. t - 1 /\ col = t * q + r
  <2>1. col \in Nat
    OBVIOUS
  <2> QED
    BY <2>1, Split
<1>3. q \in 0 .. m - 1
  <2>1. col \in Nat /\ col < t * m
    BY <1>1
  <2> HIDE DEF m
  <2> QED
    BY <1>1, <2>1, QuotientBelow
<1> HIDE DEF m, q, r
<1>4. t * q + t <= t * m
  BY <1>2, <1>3, <1>1, NextMultiple
<1>5. t * q \in Nat /\ t * m \in Nat
  BY <1>1, <1>2
<1>6. (col + t) - r = t * q + t
  BY <1>2, <1>5
<1>7. (col + t) - r \in 1 .. w
  BY <1>1, <1>4, <1>5, <1>6
<1> DEFINE n == row * m
<1>8. n \in Nat /\ row * w = t * n
  BY <1>1
<1> HIDE DEF n
<1>9. t * n + t * q = t * (n + q) /\ t * n \in Nat
  BY <1>2, <1>8
<1>10. row * w + col = t * (n + q) + r
  BY <1>2, <1>5, <1>8, <1>9
<1>11. (t * (n + q) + r) \div t = n + q
  BY <1>2, <1>8, Unique
<1>12. (n + q + 1) * t = t * (n + q) + t
  BY <1>2, <1>8
<1>13. ((row * w + col) \div t + 1) * t = t * (n + q) + t
  BY <1>10, <1>11, <1>12
<1>14. t * (n + q) + t = row * w + ((col + t) - r)
  BY <1>5, <1>6, <1>8, <1>9
<1> QED
  BY <1>7, <1>13, <1>14 DEF r

LEMMA NextPlace ==
    ASSUME NEW col \in 0 .. MAX_COLS - 1, NEW row \in Nat, NEW c
    PROVE  /\ NextCol(col, c) \in 1 .. MAX_COLS
           /\ NextOffset(get_offset(col, row), c) = get_offset(NextCol(col, c), row)
<1>1. MAX_COLS \in Nat \ {0} /\ TAB_CELLS \in Nat \ {0} /\ MAX_COLS % TAB_CELLS = 0
  BY VgaTextAssumption
<1>2. NL # TAB
  BY ConsoleAssumption
<1> DEFINE start == row * MAX_COLS
<1>3. start \in Nat
  BY <1>1
<1>4. CASE c = TAB
  BY <1>1, <1>2, <1>4, TabInRow DEF NextCol, NextOffset, get_offset
<1>5. CASE c = NL
  <2>1. (row + 1) * MAX_COLS = start + MAX_COLS
    BY <1>1
  <2>2. NextOffset(get_offset(col, row), c) = get_offset(0, row + 1)
    <3>1. get_offset_row(get_offset(col, row)) = row
      BY PlaceOf
    <3> QED
      BY <1>2, <1>5, <3>1 DEF NextOffset
  <2>3. NextCol(col, c) = MAX_COLS
    BY <1>2, <1>5 DEF NextCol
  <2> HIDE DEF start
  <2>4. get_offset(0, row + 1) = start + MAX_COLS
    BY <1>1, <1>3, <2>1 DEF get_offset
  <2> QED
    BY <1>1, <2>2, <2>3, <2>4 DEF get_offset, start
<1>6. CASE c # TAB /\ c # NL
  <2>1. NextOffset(get_offset(col, row), c) = start + col + 1
    BY <1>6 DEF NextOffset, get_offset
  <2>2. NextCol(col, c) = col + 1
    BY <1>6 DEF NextCol
  <2> HIDE DEF start
  <2>3. start + col + 1 = start + (col + 1)
    BY <1>3
  <2> QED
    BY <1>1, <2>1, <2>2, <2>3 DEF get_offset, start
<1> QED
  BY <1>4, <1>5, <1>6

\* A character on the screen ends on the screen, or fills it exactly.
LEMMA Filled ==
    ASSUME NEW col \in 0 .. MAX_COLS - 1, NEW row \in 0 .. MAX_ROWS - 1, NEW c
    PROVE  LET next == NextOffset(get_offset(col, row), c)
           IN  /\ next \in 1 .. ScreenSize
               /\ next >= ScreenSize <=> row = MAX_ROWS - 1 /\ NextCol(col, c) = MAX_COLS
<1> DEFINE next  == NextOffset(get_offset(col, row), c)
           n     == NextCol(col, c)
           start == row * MAX_COLS
<1>1. /\ MAX_COLS \in Nat \ {0} /\ MAX_ROWS \in Nat \ {0, 1} /\ row \in Nat
      /\ start \in Nat
  BY VgaTextAssumption
<1>2. n \in 1 .. MAX_COLS /\ next = start + n
  BY <1>1, NextPlace DEF get_offset
<1>3. LastRow \in Nat /\ ScreenSize = LastRow + MAX_COLS
  BY Geometry
<1>4. row = MAX_ROWS - 1 => start = LastRow
  BY DEF LastRow
<1>5. row # MAX_ROWS - 1 => start + MAX_COLS <= LastRow
  <2>1. ASSUME row # MAX_ROWS - 1 PROVE MAX_COLS * row + MAX_COLS <= MAX_COLS * (MAX_ROWS - 1)
    <3>1. row < MAX_ROWS - 1 /\ MAX_ROWS - 1 \in Nat /\ MAX_COLS \in Nat
      BY <1>1, <2>1
    <3> QED
      BY <1>1, <3>1, NextMultiple
  <2>2. start = MAX_COLS * row /\ LastRow = MAX_COLS * (MAX_ROWS - 1)
    BY <1>1 DEF LastRow
  <2> QED
    BY <2>1, <2>2
<1> HIDE DEF next, n, start
<1>6. next \in 1 .. ScreenSize
      /\ (next >= ScreenSize <=> row = MAX_ROWS - 1 /\ n = MAX_COLS)
  BY <1>1, <1>2, <1>3, <1>4, <1>5
<1> QED
  BY <1>6 DEF next, n

-----------------------------------------------------------------------------
(* The cursor of a flow that nothing breaks into.                          *)

Reading == {"ask_high", "read_high", "ask_low", "read_low"}
Setting == {"select_high", "write_high", "select_low", "write_low"}

\* What the locals of a call are at each label, and ...
Fits(f) ==
    /\ f.pc \in {"copy", "blank"} => f.offset = ScreenSize
    /\ f.pc \in Setting \union {"clear"} => f.offset \in Cells
    /\ f.op = "clear" => f.offset = 0
    /\ f.pc = "clear" => f.op = "clear"
    /\ f.pc \in Reading \union {"print_char", "copy", "blank"} => f.op = "print"

\* ... what the cursor registers hold, as long as no handler is in between.
Registered(f, index, regs) ==
    /\ f.pc = "read_high"  => index = HIGH
    /\ f.pc = "ask_low"    => f.offset = regs[HIGH] * BYTE
    /\ f.pc = "read_low"   => index = LOW /\ f.offset = regs[HIGH] * BYTE
    /\ f.pc = "write_high" => index = HIGH
    /\ f.pc = "select_low" => regs[HIGH] = HighByte(f.offset)
    /\ f.pc = "write_low"  => index = LOW /\ regs[HIGH] = HighByte(f.offset)

Exact == /\ cpu = "main" => frame["irq"].pc = "call"
         /\ cpu = "irq" /\ ~preempted => frame["main"].pc \in Harmless
         /\ \A flow \in Flow : Fits(frame[flow])
         /\ cpu = "irq" \/ ~preempted => Registered(Self, crtc_index, crtc)

\* A step of the running flow.
LEMMA RunKeeps ==
    ASSUME IInv, Exact, UNCHANGED <<cpu, preempted>>, NEW f \in Frame, Become(f),
           Fits(f), cpu = "irq" \/ ~preempted => Registered(f, crtc_index', crtc')
    PROVE  Exact'
<1>1. frame \in [Flow -> Frame] /\ cpu \in Flow
  BY DEF IInv, TypeOK
<1>2. /\ frame'[cpu] = f /\ Self' = f
      /\ \A flow \in Flow \ {cpu} : frame'[flow] = frame[flow]
  BY <1>1 DEF Become, Self
<1>3. \A flow \in Flow : Fits(frame'[flow])
  BY <1>2 DEF Exact
<1>4. cpu = "main" => frame'["irq"].pc = "call"
  BY <1>2 DEF Exact, Flow
<1>5. cpu = "irq" /\ ~preempted => frame'["main"].pc \in Harmless
  BY <1>2 DEF Exact, Flow
<1> QED
  BY <1>2, <1>3, <1>4, <1>5 DEF Exact

\* A frame whose label alone changes.
LEMMA GotoIs ==
    ASSUME NEW f \in Frame, NEW label \in Label
    PROVE  LET g == [f EXCEPT !.pc = label]
           IN  /\ g \in Frame /\ g.pc = label /\ g.op = f.op /\ g.msg = f.msg
               /\ g.col = f.col /\ g.row = f.row /\ g.offset = f.offset /\ g.i = f.i
  BY DEF Frame

LEMMA ExactInit == Init => Exact
<1> SUFFICES ASSUME Init PROVE Exact
  OBVIOUS
<1>1. frame = [flow \in Flow |-> Idle] /\ cpu = "main" /\ Self = Idle
  BY DEF Init, Self, Flow
<1>2. Idle.pc = "call" /\ Idle.op = "print"
  BY DEF Idle
<1>3. Fits(Idle)
  BY <1>2 DEF Fits, Setting, Reading
<1>4. Registered(Idle, crtc_index, crtc)
  BY <1>2 DEF Registered
<1> QED
  BY <1>1, <1>2, <1>3, <1>4 DEF Exact, Flow

\* Steps from one label to the next, with a register selected or written.
LEMMA ExactGoto ==
    ASSUME IInv, Exact,
           AskHigh \/ AskLow \/ SelectHigh \/ WriteHigh \/ SelectLow
    PROVE  Exact'
<1>1. /\ Self \in Frame /\ Fits(Self) /\ cpu \in Flow
      /\ cpu = "irq" \/ ~preempted => Registered(Self, crtc_index, crtc)
  BY SelfFrame DEF Exact, Self
<1>2. UNCHANGED <<cpu, preempted>>
  BY DEF AskHigh, AskLow, SelectHigh, WriteHigh, SelectLow, NothingElse
<1>3. PICK label \in {"read_high", "read_low", "write_high", "select_low", "write_low"} :
        /\ Goto(label)
        /\ label = "read_high" => Self.pc = "ask_high" /\ crtc_index' = HIGH /\ crtc' = crtc
        /\ label = "read_low" => Self.pc = "ask_low" /\ crtc_index' = LOW /\ crtc' = crtc
        /\ label = "write_high" => Self.pc = "select_high" /\ crtc_index' = HIGH
        /\ label = "select_low" =>
              /\ Self.pc = "write_high" /\ crtc_index' = crtc_index
              /\ crtc' = [crtc EXCEPT ![crtc_index] = HighByte(Self.offset)]
        /\ label = "write_low" => Self.pc = "select_low" /\ crtc_index' = LOW /\ crtc' = crtc
  BY DEF AskHigh, AskLow, SelectHigh, WriteHigh, SelectLow, Select, Data, At
<1> DEFINE f == [Self EXCEPT !.pc = label]
<1>4. /\ f \in Frame /\ f.pc = label /\ f.op = Self.op /\ f.offset = Self.offset
  <2>1. label \in Label
    BY DEF Label
  <2> QED
    BY <1>1, <2>1, GotoIs
<1>5. Become(f)
  BY <1>3 DEF Goto
<1> HIDE DEF f
<1>6. Fits(f)
  BY <1>1, <1>3, <1>4 DEF Fits, Reading, Setting
<1>7. crtc \in [{HIGH, LOW} -> 0 .. BYTE - 1]
  BY DEF IInv, TypeOK
<1>8. ASSUME cpu = "irq" \/ ~preempted PROVE Registered(f, crtc_index', crtc')
  <2>1. Registered(Self, crtc_index, crtc)
    BY <1>1, <1>8
  <2>2. CASE label = "select_low"
    <3>1. crtc_index = HIGH
      BY <1>3, <2>1, <2>2 DEF Registered
    <3>2. crtc'[HIGH] = HighByte(Self.offset)
      BY <1>3, <1>7, <2>2, <3>1
    <3> QED
      BY <1>4, <2>2, <3>2 DEF Registered
  <2>3. CASE label # "select_low"
    BY <1>3, <1>4, <2>1, <2>3 DEF Registered
  <2> QED
    BY <2>2, <2>3
<1> QED
  BY <1>2, <1>4, <1>5, <1>6, <1>8, RunKeeps

\* The cursor is read.
LEMMA ExactReadHigh == IInv /\ Exact /\ ReadHigh => Exact'
<1> SUFFICES ASSUME IInv, Exact, ReadHigh PROVE Exact'
  OBVIOUS
<1>1. /\ Self \in Frame /\ Fits(Self) /\ cpu \in Flow /\ Self.pc = "read_high"
      /\ cpu = "irq" \/ ~preempted => Registered(Self, crtc_index, crtc)
  BY SelfFrame DEF Exact, Self, ReadHigh, At
<1> DEFINE x == crtc[crtc_index] * BYTE
           g == [Self EXCEPT !.pc = "ask_low"]
           f == [g EXCEPT !.offset = x]
<1>2. x \in Int
  <2>1. crtc[crtc_index] \in Int /\ BYTE \in Int
    BY Geometry DEF IInv, TypeOK
  <2> QED
    BY <2>1
<1>3. Become([Self EXCEPT !.pc = "ask_low", !.offset = x])
      /\ UNCHANGED <<cpu, preempted, crtc, crtc_index>>
  BY DEF ReadHigh, NothingElse, hardware
<1> HIDE DEF x
<1>4. g \in Frame /\ g.pc = "ask_low" /\ g.op = Self.op
  <2>1. "ask_low" \in Label
    BY DEF Label
  <2> QED
    BY <1>1, <2>1, GotoIs
<1>5. Become(f)
  BY <1>3
<1> HIDE DEF g
<1>6. f \in Frame /\ f.pc = "ask_low" /\ f.op = Self.op /\ f.offset = x
  BY <1>2, <1>4 DEF Frame
<1> HIDE DEF f
<1>7. Fits(f)
  BY <1>1, <1>6 DEF Fits, Reading, Setting
<1>8. cpu = "irq" \/ ~preempted => Registered(f, crtc_index', crtc')
  BY <1>1, <1>3, <1>6 DEF Registered, x
<1> QED
  BY <1>3, <1>5, <1>6, <1>7, <1>8, RunKeeps

\* Most labels ask nothing of the registers.
LEMMA Unregistered ==
    ASSUME NEW f, NEW index, NEW regs,
           f.pc \in {"call", "ask_high", "print_char", "copy", "blank", "clear", "select_high"}
    PROVE  Registered(f, index, regs)
  BY DEF Registered

LEMMA ContinueIs ==
    ASSUME NEW f \in Frame, NEW offset \in Nat
    PROVE  LET g == Continue(f, offset)
           IN  /\ g \in Frame /\ g.pc = "print_char" /\ g.op = f.op /\ g.msg = f.msg
               /\ g.col = get_offset_col(offset) /\ g.row = get_offset_row(offset)
<1>1. Continue(f, offset) \in Frame
  BY ContinueInBounds
<1> QED
  BY <1>1 DEF Continue, Frame

\* The print goes on, or it or the clearing is over.
LEMMA ExactContinue ==
    ASSUME IInv, Exact, ReadLow \/ Rejected \/ WriteLow \/ EndPrint
    PROVE  Exact'
<1>1. /\ Self \in Frame /\ Fits(Self) /\ InBounds(Self)
  BY SelfFrame DEF Exact, Self
<1>2. UNCHANGED <<cpu, preempted>>
  BY DEF ReadLow, Rejected, WriteLow, EndPrint, NothingElse
<1>3. ASSUME NEW f \in Frame, NEW offset \in Nat, f.op = "print",
             Become(Continue(f, offset))
      PROVE  Exact'
  <2> DEFINE g == Continue(f, offset)
  <2>1. g \in Frame /\ g.pc = "print_char" /\ g.op = "print"
    BY <1>3, ContinueIs
  <2> HIDE DEF g
  <2>2. Fits(g)
    BY <2>1 DEF Fits, Setting, Reading
  <2>3. Registered(g, crtc_index', crtc')
    BY <2>1, Unregistered
  <2>4. Become(g)
    BY <1>3 DEF g
  <2> QED
    BY <1>2, <2>1, <2>2, <2>3, <2>4, RunKeeps
<1>4. ASSUME Become(Idle) PROVE Exact'
  <2>1. Idle \in Frame /\ Idle.pc = "call" /\ Idle.op = "print"
    BY IdleInBounds DEF Idle
  <2>2. Fits(Idle)
    BY <2>1 DEF Fits, Setting, Reading
  <2>3. Registered(Idle, crtc_index', crtc')
    BY <2>1, Unregistered
  <2> QED
    BY <1>2, <1>4, <2>1, <2>2, <2>3, RunKeeps
<1>5. CASE ReadLow
  <2> DEFINE offset == Self.offset + crtc[crtc_index]
  <2>1. Self.offset \in Nat /\ crtc[crtc_index] \in Nat /\ Self.op = "print"
    BY <1>1, <1>5, Geometry DEF ReadLow, At, Frame, InBounds, IInv, TypeOK, Fits, Reading
  <2>2. offset \in Nat /\ Become(Continue(Self, offset))
    BY <1>5, <2>1 DEF ReadLow
  <2> QED
    BY <1>1, <1>3, <2>1, <2>2
<1>6. CASE Rejected
  <2> DEFINE rest   == [Self EXCEPT !.msg = Tail(@)]
             offset == get_offset(Self.col, Self.row)
  <2>1. /\ Tail(Self.msg) \in Seq(Char) /\ Self.col \in Nat /\ Self.row \in Nat
        /\ Self.op = "print"
    BY <1>1, <1>6, PrintCharFrame DEF Rejected, At, Fits
  <2>2. rest \in Frame /\ rest.op = "print"
    BY <1>1, <2>1 DEF Frame
  <2>3. offset \in Nat
    BY <2>1, OffsetNat
  <2>4. Become(Continue(rest, offset))
    BY <1>6 DEF Rejected
  <2> HIDE DEF rest, offset
  <2> QED
    BY <1>3, <2>2, <2>3, <2>4
<1>7. CASE WriteLow
  <2>1. Self.offset \in Nat /\ Self.op \in {"print", "clear"}
    BY <1>1, <1>7 DEF WriteLow, At, Frame, InBounds
  <2>2. CASE Self.op = "clear"
    BY <1>4, <1>7, <2>2 DEF WriteLow
  <2>3. CASE Self.op = "print"
    <3>1. Become(Continue(Self, Self.offset))
      BY <1>7, <2>3 DEF WriteLow
    <3> QED
      BY <1>1, <1>3, <2>1, <2>3, <3>1
  <2> QED
    BY <2>1, <2>2, <2>3
<1>8. CASE EndPrint
  BY <1>4, <1>8 DEF EndPrint
<1> QED
  BY <1>5, <1>6, <1>7, <1>8

\* What a call begins with.
BeginsWith(call) ==
    LET given == call.col >= 0 /\ call.row >= 0
    IN  [Idle EXCEPT !.pc  = IF given THEN "print_char" ELSE "ask_high",
                     !.msg = call.msg,
                     !.col = IF given THEN call.col ELSE 0,
                     !.row = IF given THEN call.row ELSE 0]

LEMMA BeginsWithIs ==
    ASSUME NEW call \in Call, call.op = "print"
    PROVE  LET f     == BeginsWith(call)
               given == call.col >= 0 /\ call.row >= 0
           IN  /\ f \in Frame /\ f.op = "print" /\ f.msg = call.msg /\ f.msg \in Seq(Char)
               /\ given => /\ f.pc = "print_char" /\ f.col \in Nat /\ f.row \in Nat
                           /\ [col |-> f.col, row |-> f.row] \in Requested
               /\ ~given => f.pc = "ask_high"
<1> DEFINE given == call.col >= 0 /\ call.row >= 0
           label == IF given THEN "print_char" ELSE "ask_high"
           col   == IF given THEN call.col ELSE 0
           row   == IF given THEN call.row ELSE 0
<1>1. /\ call.msg \in Seq(Char) /\ call.col \in Int /\ call.row \in Int
      /\ given => [col |-> call.col, row |-> call.row] \in Requested
  BY DEF Call, PrintChar
<1>2. /\ label \in Label /\ col \in Int /\ row \in Int
      /\ given => /\ label = "print_char" /\ col \in Nat /\ row \in Nat
                  /\ [col |-> col, row |-> row] \in Requested
      /\ ~given => label = "ask_high"
  BY <1>1 DEF Label
<1> DEFINE f == [Idle EXCEPT !.pc = label, !.msg = call.msg, !.col = col, !.row = row]
<1>3. BeginsWith(call) = f
  BY DEF BeginsWith
<1> HIDE DEF label, col, row, given
<1>4. f \in Frame
  BY <1>1, <1>2, IdleInBounds, FrameUpdate, Zenon
<1>5. f.pc = label /\ f.msg = call.msg /\ f.col = col /\ f.row = row /\ f.op = "print"
  BY DEF Idle
<1> QED
  BY <1>1, <1>2, <1>3, <1>4, <1>5 DEF given

LEMMA ExactCalls ==
    ASSUME IInv, Exact, CallPrint \/ CallClear \/ CallPrintChar
    PROVE  Exact'
<1>1. UNCHANGED <<cpu, preempted>>
  BY DEF CallPrint, CallClear, CallPrintChar, NothingElse
<1>2. CASE CallPrint
  <2> DEFINE f == BeginsWith(Head(calls[cpu]))
  <2>1. Head(calls[cpu]) \in Call /\ Head(calls[cpu]).op = "print"
    BY <1>2, CallsTail DEF CallPrint
  <2>2. f \in Frame /\ f.op = "print" /\ f.pc \in {"print_char", "ask_high"}
    BY <2>1, BeginsWithIs
  <2>3. Become(f)
    BY <1>2 DEF CallPrint, BeginsWith
  <2> HIDE DEF f
  <2>4. Fits(f)
    BY <2>2 DEF Fits, Setting
  <2>5. Registered(f, crtc_index', crtc')
    BY <2>2, Unregistered
  <2> QED
    BY <1>1, <2>2, <2>3, <2>4, <2>5, RunKeeps
<1>3. CASE CallClear
  <2> DEFINE f == [Idle EXCEPT !.pc = "clear", !.op = "clear"]
  <2>1. Become(f)
    BY <1>3 DEF CallClear
  <2>2. f \in Frame
    BY IdleInBounds DEF Frame, Label
  <2>3. f.pc = "clear" /\ f.op = "clear" /\ f.offset = 0
    BY DEF Idle
  <2> HIDE DEF f
  <2>4. 0 \in Cells
    BY Geometry DEF Cells
  <2>5. Fits(f)
    BY <2>3, <2>4 DEF Fits, Setting, Reading
  <2>6. Registered(f, crtc_index', crtc')
    BY <2>3, Unregistered
  <2> QED
    BY <1>1, <2>1, <2>2, <2>5, <2>6, RunKeeps
<1>4. CASE CallPrintChar
  <2>1. UNCHANGED <<cpu, preempted, crtc_index, crtc, frame>>
    BY <1>4 DEF CallPrintChar, NothingElse
  <2> QED
    BY <2>1 DEF Exact, Self
<1> QED
  BY <1>2, <1>3, <1>4

\* The loops.
LEMMA ExactLoops ==
    ASSUME IInv, Exact, CopyCell \/ ZeroCell \/ SpaceOut
    PROVE  Exact'
<1>1. /\ Self \in Frame /\ InBounds(Self) /\ Fits(Self)
  BY SelfFrame DEF Exact, Self
<1>2. UNCHANGED <<cpu, preempted>>
  BY DEF CopyCell, ZeroCell, SpaceOut, NothingElse
<1>3. Self.i \in Int /\ LastRow \in Int /\ Self.offset \in Int /\ MAX_COLS \in Int
  BY <1>1, Geometry DEF Frame
<1>4. ASSUME NEW f \in Frame, Become(f), Fits(f),
             f.pc \in {"copy", "blank", "clear", "select_high"}
      PROVE  Exact'
  <2>1. Registered(f, crtc_index', crtc')
    BY <1>4, Unregistered
  <2> QED
    BY <1>2, <1>4, <2>1, RunKeeps
<1> DEFINE inner == [Self EXCEPT !.i = @ + 1]
<1>5. inner \in Frame /\ inner.pc = Self.pc /\ inner.op = Self.op /\ inner.offset = Self.offset
  BY <1>1, <1>3 DEF Frame
<1>6. Fits(inner)
  <2> HIDE DEF inner
  <2> QED
    BY <1>1, <1>5 DEF Fits
<1>7. ASSUME Become(inner), Self.pc \in {"copy", "blank", "clear"} PROVE Exact'
  <2> HIDE DEF inner
  <2> QED
    BY <1>4, <1>5, <1>6, <1>7
<1>8. CASE CopyCell
  <2> DEFINE last == [Self EXCEPT !.pc = "blank", !.i = LastRow]
  <2>1. Self.pc = "copy" /\ (Become(inner) \/ Become(last))
    BY <1>8 DEF CopyCell, At
  <2>2. last \in Frame /\ last.pc = "blank" /\ last.op = Self.op /\ last.offset = Self.offset
    BY <1>1, <1>3 DEF Frame, Label
  <2> HIDE DEF last, inner
  <2>3. Fits(last)
    BY <1>1, <2>1, <2>2 DEF Fits, Setting, Reading
  <2> QED
    BY <1>4, <1>7, <2>1, <2>2, <2>3
<1>9. CASE ZeroCell
  <2> DEFINE last == [Self EXCEPT !.pc = "select_high", !.i = 0, !.offset = @ - MAX_COLS]
  <2>1. Self.pc = "blank" /\ (Become(inner) \/ Become(last))
    BY <1>9 DEF ZeroCell, At
  <2>2. /\ last \in Frame /\ last.pc = "select_high" /\ last.op = Self.op
        /\ last.offset = Self.offset - MAX_COLS
    <3>1. Self.offset - MAX_COLS \in Int /\ "select_high" \in Label /\ 0 \in Int
      BY <1>3 DEF Label
    <3>2. last \in Frame
      BY <1>1, <3>1, FrameUpdate, Zenon
    <3> QED
      BY <1>1, <3>2 DEF Frame
  <2>3. Self.offset = ScreenSize /\ Self.op = "print"
    BY <1>1, <2>1 DEF Fits
  <2>4. ScreenSize - MAX_COLS \in Cells
    BY Geometry DEF Cells
  <2> HIDE DEF last, inner
  <2>5. Fits(last)
    BY <2>2, <2>3, <2>4 DEF Fits, Setting, Reading
  <2> QED
    BY <1>4, <1>7, <2>1, <2>2, <2>5
<1>10. CASE SpaceOut
  <2> DEFINE last == [Self EXCEPT !.pc = "select_high", !.i = 0]
  <2>1. Self.pc = "clear" /\ (Become(inner) \/ Become(last))
    BY <1>10 DEF SpaceOut, At
  <2>2. /\ last \in Frame /\ last.pc = "select_high" /\ last.op = Self.op
        /\ last.offset = Self.offset
    <3>1. "select_high" \in Label /\ 0 \in Int
      BY DEF Label
    <3>2. last \in Frame
      BY <1>1, <3>1, FrameUpdate, Zenon
    <3> QED
      BY <1>1, <3>2 DEF Frame
  <2> HIDE DEF last, inner
  <2>3. Fits(last)
    BY <1>1, <2>1, <2>2 DEF Fits, Setting, Reading
  <2> QED
    BY <1>4, <1>7, <2>1, <2>2, <2>3
<1> QED
  BY <1>8, <1>9, <1>10

\* The frame after a character is put.
PutFrame ==
    LET next == NextOffset(get_offset(Self.col, Self.row), Head(Self.msg))
        full == next >= ScreenSize
    IN  [Self EXCEPT !.pc = IF full THEN "copy" ELSE "select_high",
                     !.msg = Tail(@), !.offset = next,
                     !.i = IF full THEN MAX_COLS ELSE 0]

LEMMA PutFrameIs ==
    ASSUME IInv, Exact, Put
    PROVE  LET next == NextOffset(get_offset(Self.col, Self.row), Head(Self.msg))
               full == next >= ScreenSize
           IN  /\ Self.col \in 0 .. MAX_COLS - 1 /\ Self.row \in 0 .. MAX_ROWS - 1
               /\ Head(Self.msg) \in Char /\ Tail(Self.msg) \in Seq(Char)
               /\ Become(PutFrame) /\ PutFrame \in Frame
               /\ PutFrame.op = "print" /\ PutFrame.msg = Tail(Self.msg)
               /\ PutFrame.offset = next /\ next \in 1 .. ScreenSize
               /\ full => PutFrame.pc = "copy" /\ PutFrame.i = MAX_COLS /\ next = ScreenSize
               /\ ~full => PutFrame.pc = "select_high" /\ next \in Cells
<1> DEFINE next  == NextOffset(get_offset(Self.col, Self.row), Head(Self.msg))
           full  == next >= ScreenSize
           label == IF full THEN "copy" ELSE "select_high"
           i     == IF full THEN MAX_COLS ELSE 0
<1>1. /\ Self \in Frame /\ Fits(Self) /\ Self.pc = "print_char"
      /\ Self.col \in Nat /\ Self.row \in Nat
      /\ Head(Self.msg) \in Char /\ Tail(Self.msg) \in Seq(Char)
  BY SelfFrame, PrintCharFrame DEF Put, At, Exact, Self
<1>2. Self.op = "print"
  BY <1>1 DEF Fits
<1>3. Self.col \in 0 .. MAX_COLS - 1 /\ Self.row \in 0 .. MAX_ROWS - 1
  <2>1. Self.col < MAX_COLS /\ Self.row < MAX_ROWS /\ MAX_COLS \in Nat /\ MAX_ROWS \in Nat
    BY <1>1, VgaTextAssumption DEF Put, OffScreen
  <2> QED
    BY <1>1, <2>1
<1>4. next \in 1 .. ScreenSize
  BY <1>3, Filled
<1>5. Become(PutFrame)
  BY DEF Put, PutFrame
<1>6. label \in Label /\ i \in Int /\ next \in Int
  BY <1>4, Geometry DEF Label
<1> DEFINE f == [Self EXCEPT !.pc = label, !.msg = Tail(@), !.offset = next, !.i = i]
<1>7. PutFrame = f
  BY DEF PutFrame
<1>8. full => next = ScreenSize
  BY <1>4, Geometry
<1>9. ~full => next \in Cells
  BY <1>4, Geometry DEF Cells
<1> HIDE DEF next
<1>10. label = (IF full THEN "copy" ELSE "select_high") /\ i = (IF full THEN MAX_COLS ELSE 0)
  OBVIOUS
<1> HIDE DEF label, i
<1>11. f \in Frame
  BY <1>1, <1>6, FrameUpdate, Zenon
<1>12. f.pc = label /\ f.op = "print" /\ f.msg = Tail(Self.msg) /\ f.offset = next /\ f.i = i
  BY <1>1, <1>2 DEF Frame
<1> QED
  BY <1>1, <1>3, <1>4, <1>5, <1>7, <1>8, <1>9, <1>10, <1>11, <1>12 DEF next

LEMMA ExactPut == IInv /\ Exact /\ Put => Exact'
<1> SUFFICES ASSUME IInv, Exact, Put PROVE Exact'
  OBVIOUS
<1>1. UNCHANGED <<cpu, preempted>>
  BY DEF Put, NothingElse
<1>2. /\ Become(PutFrame) /\ PutFrame \in Frame /\ PutFrame.op = "print"
      /\ \/ PutFrame.pc = "copy" /\ PutFrame.offset = ScreenSize
         \/ PutFrame.pc = "select_high" /\ PutFrame.offset \in Cells
  BY PutFrameIs
<1>3. Fits(PutFrame)
  BY <1>2 DEF Fits, Setting, Reading
<1>4. Registered(PutFrame, crtc_index', crtc')
  BY <1>2, Unregistered
<1> QED
  BY <1>1, <1>2, <1>3, <1>4, RunKeeps

\* A handler begins between two calls of its own, and leaves a main flow that
\* it has not broken into where it was harmless.
LEMMA ExactInterrupts ==
    ASSUME IInv, Exact, Interrupt \/ Iret
    PROVE  Exact'
<1>1. frame' = frame /\ crtc_index' = crtc_index /\ crtc' = crtc /\ preempted \in BOOLEAN
  BY DEF Interrupt, Iret, hardware, IInv, TypeOK
<1>2. CASE Interrupt
  <2>1. /\ cpu = "main" /\ cpu' = "irq"
        /\ preempted' = (preempted \/ frame["main"].pc \notin Harmless)
    BY <1>2 DEF Interrupt
  <2>2. Self' = frame["irq"] /\ frame["irq"].pc = "call"
    BY <1>1, <2>1 DEF Self, Exact
  <2>3. Registered(Self', crtc_index', crtc')
    BY <2>2, Unregistered
  <2> QED
    BY <1>1, <2>1, <2>3 DEF Exact
<1>3. CASE Iret
  <2>1. cpu = "irq" /\ cpu' = "main" /\ preempted' = preempted /\ frame["irq"].pc = "call"
    BY <1>3 DEF Iret, At, Self
  <2>2. ~preempted => Registered(Self', crtc_index', crtc')
    <3>1. ~preempted => Self'.pc \in Harmless
      BY <1>1, <2>1 DEF Self, Exact
    <3> QED
      BY <3>1, Unregistered DEF Harmless
  <2> QED
    BY <1>1, <2>1, <2>2 DEF Exact
<1> QED
  BY <1>2, <1>3

LEMMA ExactNext == IInv /\ Exact /\ [Next]_vars => Exact'
<1>1. Exact /\ (UNCHANGED vars \/ Spin) => Exact'
  BY DEF Exact, vars, Spin, Self
<1> QED
  BY <1>1, ExactGoto, ExactReadHigh, ExactContinue, ExactCalls, ExactLoops, ExactPut,
     ExactInterrupts DEF Next, Step

\* What the calls and the registers agree on, whatever breaks in.
THEOREM ExactInvariance == Spec => []Exact
<1>1. Init => Exact
  BY ExactInit
<1>2. IInv /\ Exact /\ [Next]_vars => Exact'
  BY ExactNext
<1> QED
  BY <1>1, <1>2, Invariance, PTL DEF Spec

\* The cursor of a flow that nothing breaks into is where the flow puts it.
LEMMA CursorSet ==
    ASSUME IInv, Exact, WriteLow, cpu = "irq" \/ ~preempted
    PROVE  Cursor' = Self.offset
<1> DEFINE o == Self.offset
<1>1. /\ Self.pc = "write_low" /\ Fits(Self)
      /\ crtc_index = LOW /\ crtc[HIGH] = HighByte(o)
      /\ crtc' = [crtc EXCEPT ![crtc_index] = LowByte(o)]
  BY SelfFrame DEF WriteLow, At, Data, Exact, Registered, Self
<1>2. o \in Cells
  BY <1>1 DEF Fits, Setting
<1> HIDE DEF o
<1>3. crtc'[HIGH] = HighByte(o) /\ crtc'[LOW] = LowByte(o)
  BY <1>1 DEF IInv, TypeOK, HIGH, LOW
<1>4. BYTE \in Nat \ {0} /\ o \in Nat /\ o < BYTE * BYTE
  <2> DEFINE b2 == BYTE * BYTE
  <2>1. BYTE \in Nat \ {0} /\ b2 \in Nat /\ ScreenSize \in Nat /\ ScreenSize <= b2
    BY Geometry
  <2> HIDE DEF b2
  <2>2. o \in Nat /\ o < b2
    BY <1>2, <2>1 DEF Cells
  <2> QED
    BY <2>1, <2>2 DEF b2
<1>5. /\ HighByte(o) = o \div BYTE /\ o \div BYTE \in Nat
      /\ LowByte(o) \in Nat /\ o = BYTE * (o \div BYTE) + LowByte(o)
  BY <1>4, LeadingAndLast DEF HighByte, LowByte
<1>6. (o \div BYTE) * BYTE = BYTE * (o \div BYTE)
  BY <1>4, <1>5
<1> QED
  BY <1>3, <1>5, <1>6 DEF Cursor, o

\* A handler that writes the cursor registers leaves the cursor where it put it
\* (console.cpp 145-152), whatever register the main flow had selected.
THEOREM HandlerCursor == Spec => HandlerCursorExact
<1>1. IInv /\ Exact /\ [Next]_vars
        => [(cpu = "irq" /\ WriteLow) => Cursor' = Self.offset]_vars
  BY CursorSet
<1> QED
  BY <1>1, Invariance, ExactInvariance, PTL DEF Spec, HandlerCursorExact

-----------------------------------------------------------------------------
(* The terminal.  What the mapping makes of a state depends on the frame   *)
(* of the flow that runs, on the memory and on the cursor registers.       *)

Shown(m) == [r \in 0 .. MAX_ROWS - 1 |->
                [k \in 0 .. MAX_COLS - 1 |-> m[get_offset(k, r)]]]

SettledIn(f, m, offset) ==
    CASE f.pc = "copy" -> IF offset >= LastRow THEN BlankCell
                          ELSE IF offset < f.i - MAX_COLS THEN m[offset]
                          ELSE m[offset + MAX_COLS]
      [] f.pc = "blank" -> IF offset >= f.i THEN BlankCell ELSE m[offset]
      [] f.pc = "clear" -> SpaceCell
      [] OTHER          -> m[offset]

ScreenIn(f, m) == [r \in 0 .. MAX_ROWS - 1 |->
                      [k \in 0 .. MAX_COLS - 1 |-> SettledIn(f, m, get_offset(k, r))]]

CursorIn(regs) == regs[HIGH] * BYTE + regs[LOW]

OffsetIn(f, regs) == CASE f.pc \in {"copy", "blank"} -> f.offset - MAX_COLS
                       [] f.pc = "clear"    -> 0
                       [] f.pc \in Setting  -> f.offset
                       [] OTHER             -> CursorIn(regs)

PrintingIn(f) == f.op = "print" /\ f.pc \in {"print_char", "copy", "blank"} \union Setting

AtIn(f, regs) == IF PrintingIn(f) /\ f.pc = "print_char" THEN [col |-> f.col, row |-> f.row]
                 ELSE Place(OffsetIn(f, regs))

TextIn(f) == IF PrintingIn(f) THEN f.msg ELSE <<>>

\* The variables of the terminal before and after a step.
LEMMA Views ==
    /\ SettledScreen = ScreenIn(Self, vidmem) /\ SettledScreen' = ScreenIn(Self', vidmem')
    /\ SettledOffset = OffsetIn(Self, crtc) /\ SettledOffset' = OffsetIn(Self', crtc')
    /\ Printing <=> PrintingIn(Self)
    /\ Printing' <=> PrintingIn(Self')
<1>1. /\ SettledScreen = ScreenIn(Self, vidmem)
      /\ SettledScreen' = ScreenIn(Self', vidmem')
  BY DEF SettledScreen, ScreenIn, Settled, SettledIn, At
<1>2. /\ SettledOffset = OffsetIn(Self, crtc) /\ SettledOffset' = OffsetIn(Self', crtc')
  BY DEF SettledOffset, OffsetIn, scrolling, setting, At, Setting, Cursor, CursorIn
<1>3. Printing <=> PrintingIn(Self)
  BY DEF Printing, PrintingIn, scrolling, setting, At, Setting
<1>4. Printing' <=> PrintingIn(Self')
  BY DEF Printing, PrintingIn, scrolling, setting, At, Setting
<1> QED
  BY <1>1, <1>2, <1>3, <1>4

LEMMA ViewIdle ==
    ASSUME NEW f, NEW m, NEW regs, f.pc \in Reading \union {"call"}
    PROVE  /\ ScreenIn(f, m) = Shown(m) /\ OffsetIn(f, regs) = CursorIn(regs)
           /\ ~PrintingIn(f) /\ AtIn(f, regs) = Place(CursorIn(regs)) /\ TextIn(f) = <<>>
<1>1. ScreenIn(f, m) = Shown(m)
  BY DEF ScreenIn, Shown, SettledIn, Reading
<1>2. OffsetIn(f, regs) = CursorIn(regs)
  BY DEF OffsetIn, Reading, Setting
<1>3. ~PrintingIn(f)
  BY DEF PrintingIn, Reading, Setting
<1> QED
  BY <1>1, <1>2, <1>3 DEF AtIn, TextIn

LEMMA ViewPrint ==
    ASSUME NEW f, NEW m, NEW regs, f.pc = "print_char", f.op = "print"
    PROVE  /\ ScreenIn(f, m) = Shown(m) /\ OffsetIn(f, regs) = CursorIn(regs)
           /\ PrintingIn(f) /\ AtIn(f, regs) = [col |-> f.col, row |-> f.row]
           /\ TextIn(f) = f.msg
<1>1. ScreenIn(f, m) = Shown(m)
  BY DEF ScreenIn, Shown, SettledIn
<1>2. OffsetIn(f, regs) = CursorIn(regs)
  BY DEF OffsetIn, Setting
<1>3. PrintingIn(f)
  BY DEF PrintingIn
<1> QED
  BY <1>1, <1>2, <1>3 DEF AtIn, TextIn

LEMMA ViewLoop ==
    ASSUME NEW f, NEW regs, f.pc \in {"copy", "blank"}, Fits(f)
    PROVE  /\ OffsetIn(f, regs) = LastRow
           /\ PrintingIn(f) /\ AtIn(f, regs) = Place(LastRow) /\ TextIn(f) = f.msg
<1>1. OffsetIn(f, regs) = LastRow
  <2>1. f.offset - MAX_COLS = LastRow
    BY Geometry DEF Fits
  <2> QED
    BY <2>1 DEF OffsetIn, Setting
<1>2. PrintingIn(f)
  BY DEF PrintingIn, Fits
<1> QED
  BY <1>1, <1>2 DEF AtIn, TextIn

LEMMA ViewClear ==
    ASSUME NEW f, NEW m, NEW regs, f.pc = "clear", Fits(f)
    PROVE  /\ ScreenIn(f, m) = [r \in 0 .. MAX_ROWS - 1 |->
                                   [k \in 0 .. MAX_COLS - 1 |-> SpaceCell]]
           /\ OffsetIn(f, regs) = 0
           /\ ~PrintingIn(f) /\ AtIn(f, regs) = Place(0) /\ TextIn(f) = <<>>
<1>1. ScreenIn(f, m) = [r \in 0 .. MAX_ROWS - 1 |->
                           [k \in 0 .. MAX_COLS - 1 |-> SpaceCell]]
  BY DEF ScreenIn, SettledIn
<1>2. OffsetIn(f, regs) = 0
  BY DEF OffsetIn, Setting
<1>3. ~PrintingIn(f)
  BY DEF PrintingIn, Fits
<1> QED
  BY <1>1, <1>2, <1>3 DEF AtIn, TextIn

LEMMA ViewSetting ==
    ASSUME NEW f, NEW m, NEW regs, f.pc \in Setting, Fits(f)
    PROVE  /\ ScreenIn(f, m) = Shown(m) /\ OffsetIn(f, regs) = f.offset
           /\ PrintingIn(f) <=> f.op = "print"
           /\ AtIn(f, regs) = Place(f.offset)
           /\ TextIn(f) = IF f.op = "print" THEN f.msg ELSE <<>>
<1>1. ScreenIn(f, m) = Shown(m)
  BY DEF ScreenIn, Shown, SettledIn, Setting
<1>2. OffsetIn(f, regs) = f.offset
  BY DEF OffsetIn, Setting
<1>3. PrintingIn(f) <=> f.op = "print"
  BY DEF PrintingIn, Setting
<1>4. f.pc # "print_char"
  BY DEF Setting
<1> QED
  BY <1>1, <1>2, <1>3, <1>4 DEF AtIn, TextIn

\* What the terminal sees of a step.
SameView ==
    /\ ScreenIn(Self', vidmem') = ScreenIn(Self, vidmem)
    /\ OffsetIn(Self', crtc') = OffsetIn(Self, crtc)
    /\ PrintingIn(Self') <=> PrintingIn(Self)
    /\ AtIn(Self', crtc') = AtIn(Self, crtc) /\ TextIn(Self') = TextIn(Self)
    /\ preempted' = preempted

LEMMA AtIsAtIn ==
    /\ (IF Printing /\ At("print_char") THEN [col |-> Self.col, row |-> Self.row]
        ELSE Place(SettledOffset)) = AtIn(Self, crtc)
    /\ (IF Printing /\ At("print_char") THEN [col |-> Self.col, row |-> Self.row]
        ELSE Place(SettledOffset))' = AtIn(Self', crtc')
    /\ (IF Printing THEN Self.msg ELSE <<>>) = TextIn(Self)
    /\ (IF Printing THEN Self.msg ELSE <<>>)' = TextIn(Self')
  BY Views DEF AtIn, TextIn, At, Place

LEMMA Stutters == SameView => UNCHANGED T!vars
<1> SUFFICES ASSUME SameView PROVE UNCHANGED T!vars
  OBVIOUS
<1>1. Printing' = Printing
  BY Views DEF SameView, Printing
<1> QED
  BY <1>1, Views, AtIsAtIn DEF SameView, T!vars, Place

\* The frame of a flow after a step of its own.
LEMMA Becomes ==
    ASSUME IInv, cpu' = cpu, NEW f, Become(f)
    PROVE  Self' = f
  BY DEF IInv, TypeOK, Become, Self

\* The print returns.
LEMMA EndPrintEnds ==
    ASSUME IInv, Exact, EndPrint
    PROVE  T!End
<1>1. /\ Self.pc = "print_char" /\ Self.op = "print" /\ Self.msg = <<>>
      /\ UNCHANGED <<vidmem, crtc_index, crtc, preempted>> /\ Self' = Idle
  BY Becomes DEF EndPrint, At, Exact, Fits, Self, hardware, NothingElse, IInv, TypeOK
<1>2. Idle.pc = "call"
  BY DEF Idle
<1>3. /\ ScreenIn(Self, vidmem) = Shown(vidmem) /\ OffsetIn(Self, crtc) = CursorIn(crtc)
      /\ PrintingIn(Self) /\ TextIn(Self) = <<>>
  BY <1>1, ViewPrint
<1>4. /\ ScreenIn(Self', vidmem') = Shown(vidmem') /\ OffsetIn(Self', crtc') = CursorIn(crtc')
      /\ ~PrintingIn(Self') /\ AtIn(Self', crtc') = Place(CursorIn(crtc'))
      /\ TextIn(Self') = <<>>
  BY <1>1, <1>2, ViewIdle
<1> QED
  BY <1>1, <1>3, <1>4, Views, AtIsAtIn DEF T!End, Place

\* Steps between labels at which the terminal sees the cursor registers, and
\* between labels at which it sees where they are going to be.
LEMMA ReadsUnseen ==
    ASSUME IInv, Exact, AskHigh \/ ReadHigh \/ AskLow
    PROVE  SameView
<1>1. /\ Self \in Frame /\ Self.pc \in Reading
      /\ UNCHANGED <<vidmem, crtc, preempted, cpu>>
  BY SelfFrame DEF AskHigh, ReadHigh, AskLow, At, Select, hardware, NothingElse, Reading
<1>2. Self'.pc \in Reading
  <2>1. CASE AskHigh \/ AskLow
    <3>1. PICK label \in {"read_high", "read_low"} : Goto(label)
      BY <2>1 DEF AskHigh, AskLow
    <3>2. Self' = [Self EXCEPT !.pc = label]
      BY <1>1, <3>1, Becomes DEF Goto
    <3>3. label \in Label
      BY DEF Label
    <3> QED
      BY <1>1, <3>2, <3>3, GotoIs DEF Reading
  <2>2. CASE ReadHigh
    <3> DEFINE x == crtc[crtc_index] * BYTE
    <3>1. Become([Self EXCEPT !.pc = "ask_low", !.offset = x])
      BY <2>2 DEF ReadHigh
    <3> HIDE DEF x
    <3>2. Self' = [Self EXCEPT !.pc = "ask_low", !.offset = x]
      BY <1>1, <3>1, Becomes
    <3> QED
      BY <1>1, <3>2 DEF Frame, Reading
  <2> QED
    BY <2>1, <2>2
<1> QED
  BY <1>1, <1>2, ViewIdle DEF SameView

LEMMA WritesUnseen ==
    ASSUME IInv, Exact, Exact', SelectHigh \/ WriteHigh \/ SelectLow
    PROVE  SameView
<1>1. /\ Self \in Frame /\ Self.pc \in Setting /\ cpu \in Flow /\ Fits(Self)
      /\ UNCHANGED <<vidmem, preempted, cpu>>
  BY SelfFrame
  DEF SelectHigh, WriteHigh, SelectLow, At, Select, Data, NothingElse, Setting, Exact, Self
<1>2. PICK label \in {"write_high", "select_low", "write_low"} : Goto(label)
  BY DEF SelectHigh, WriteHigh, SelectLow
<1>3. Self' = [Self EXCEPT !.pc = label]
  BY <1>1, <1>2, Becomes DEF Goto
<1>4. /\ Self'.pc = label /\ Self'.op = Self.op /\ Self'.msg = Self.msg
      /\ Self'.offset = Self.offset
  <2>1. label \in Label
    BY DEF Label
  <2> QED
    BY <1>1, <1>3, <2>1, GotoIs
<1>5. Self'.pc \in Setting /\ Fits(Self')
  BY <1>1, <1>4 DEF Setting, Fits, Reading
<1>6. /\ ScreenIn(Self, vidmem) = Shown(vidmem) /\ OffsetIn(Self, crtc) = Self.offset
      /\ PrintingIn(Self) <=> Self.op = "print"
      /\ AtIn(Self, crtc) = Place(Self.offset)
      /\ TextIn(Self) = IF Self.op = "print" THEN Self.msg ELSE <<>>
  BY <1>1, ViewSetting
<1>7. /\ ScreenIn(Self', vidmem') = Shown(vidmem') /\ OffsetIn(Self', crtc') = Self'.offset
      /\ PrintingIn(Self') <=> Self'.op = "print"
      /\ AtIn(Self', crtc') = Place(Self'.offset)
      /\ TextIn(Self') = IF Self'.op = "print" THEN Self'.msg ELSE <<>>
  BY <1>5, ViewSetting
<1> QED
  BY <1>1, <1>4, <1>6, <1>7 DEF SameView

\* The last write leaves the cursor where the terminal has seen it since the
\* put.
LEMMA WriteLowUnseen ==
    ASSUME IInv, Exact, ~preempted, WriteLow
    PROVE  SameView
<1>1. /\ Self \in Frame /\ Self.pc \in Setting /\ cpu \in Flow /\ Fits(Self)
      /\ Self.offset \in Nat /\ Self.op \in {"print", "clear"}
      /\ UNCHANGED <<vidmem, preempted, cpu>>
  BY SelfFrame DEF WriteLow, At, Data, NothingElse, Setting, Exact, Self, Frame, InBounds
<1>2. CursorIn(crtc') = Self.offset
  BY CursorSet DEF Cursor, CursorIn
<1>3. /\ ScreenIn(Self, vidmem) = Shown(vidmem) /\ OffsetIn(Self, crtc) = Self.offset
      /\ PrintingIn(Self) <=> Self.op = "print"
      /\ AtIn(Self, crtc) = Place(Self.offset)
      /\ TextIn(Self) = IF Self.op = "print" THEN Self.msg ELSE <<>>
  BY <1>1, ViewSetting
<1>4. CASE Self.op = "clear"
  <2>1. Self' = Idle /\ Idle.pc = "call"
    BY <1>1, <1>4, Becomes DEF WriteLow, Idle
  <2>2. /\ ScreenIn(Self', vidmem') = Shown(vidmem')
        /\ OffsetIn(Self', crtc') = CursorIn(crtc')
        /\ ~PrintingIn(Self') /\ AtIn(Self', crtc') = Place(CursorIn(crtc'))
        /\ TextIn(Self') = <<>>
    BY <2>1, ViewIdle
  <2> QED
    BY <1>1, <1>2, <1>3, <1>4, <2>2 DEF SameView
<1>5. CASE Self.op = "print"
  <2>1. Self' = Continue(Self, Self.offset)
    BY <1>1, <1>5, Becomes DEF WriteLow
  <2>2. /\ Self'.pc = "print_char" /\ Self'.op = "print" /\ Self'.msg = Self.msg
        /\ Self'.col = get_offset_col(Self.offset) /\ Self'.row = get_offset_row(Self.offset)
    BY <1>1, <1>5, <2>1, ContinueIs
  <2>3. /\ ScreenIn(Self', vidmem') = Shown(vidmem')
        /\ OffsetIn(Self', crtc') = CursorIn(crtc') /\ PrintingIn(Self')
        /\ AtIn(Self', crtc') = [col |-> Self'.col, row |-> Self'.row]
        /\ TextIn(Self') = Self'.msg
    BY <2>2, ViewPrint
  <2>4. AtIn(Self', crtc') = Place(Self.offset)
    BY <2>2, <2>3 DEF Place
  <2> QED
    BY <1>1, <1>2, <1>3, <1>5, <2>2, <2>3, <2>4 DEF SameView
<1> QED
  BY <1>1, <1>4, <1>5

\* An interrupt that breaks into no print, and the return to a main flow that
\* is at no print.
LEMMA InterruptsUnseen ==
    ASSUME IInv, Exact, ~preempted', Interrupt \/ Iret
    PROVE  SameView
<1>1. /\ UNCHANGED <<vidmem, crtc, frame>> /\ preempted \in BOOLEAN
  BY DEF Interrupt, Iret, hardware, IInv, TypeOK
<1>2. ~preempted
  BY <1>1 DEF Interrupt, Iret
<1>3. Self.pc \in Reading \union {"call"} /\ Self'.pc \in Reading \union {"call"}
  <2>1. CASE Interrupt
    BY <1>1, <2>1 DEF Interrupt, Self, Exact, Harmless, Reading
  <2>2. CASE Iret
    BY <1>1, <1>2, <2>2 DEF Iret, At, Self, Exact, Harmless, Reading
  <2> QED
    BY <2>1, <2>2
<1>4. preempted' = preempted
  BY <1>1, <1>2 DEF Interrupt, Iret
<1> QED
  BY <1>1, <1>3, <1>4, ViewIdle DEF SameView

-----------------------------------------------------------------------------
(* Calls and characters, as steps of the terminal.                         *)

\* The screen after one cell of it has been written.
Rewritten(s, r, k, cell) == [s EXCEPT ![r][k] = cell]

LEMMA ShownUpdate ==
    ASSUME NEW m, NEW m2, NEW k0 \in 0 .. MAX_COLS - 1, NEW r0 \in 0 .. MAX_ROWS - 1,
           NEW cell, NEW o0, o0 = get_offset(k0, r0),
           \A a \in Cells : m2[a] = IF a = o0 THEN cell ELSE m[a]
    PROVE  Shown(m2) = Rewritten(Shown(m), r0, k0, cell)
<1>1. ASSUME NEW k \in 0 .. MAX_COLS - 1, NEW r \in 0 .. MAX_ROWS - 1
      PROVE  m2[get_offset(k, r)] = IF k = k0 /\ r = r0 THEN cell ELSE m[get_offset(k, r)]
  <2>1. get_offset(k, r) \in Cells
    <3>1. ~OffScreen(k, r) /\ k \in Nat /\ r \in Nat
      BY VgaTextAssumption DEF OffScreen
    <3> QED
      BY <3>1, OffsetOnScreen
  <2>2. get_offset(k, r) = o0 <=> k = k0 /\ r = r0
    <3>1. r \in Nat /\ r0 \in Nat
      BY VgaTextAssumption
    <3>2. /\ get_offset_row(get_offset(k, r)) = r /\ get_offset_col(get_offset(k, r)) = k
          /\ get_offset_row(o0) = r0 /\ get_offset_col(o0) = k0
      BY <3>1, PlaceOf
    <3> QED
      BY <3>2
  <2> QED
    BY <2>1, <2>2
<1>2. Rewritten(Shown(m), r0, k0, cell)
        = [r \in 0 .. MAX_ROWS - 1 |-> [k \in 0 .. MAX_COLS - 1 |->
              IF k = k0 /\ r = r0 THEN cell ELSE m[get_offset(k, r)]]]
  BY DEF Shown, Rewritten
<1>3. Shown(m2) = [r \in 0 .. MAX_ROWS - 1 |-> [k \in 0 .. MAX_COLS - 1 |->
                      IF k = k0 /\ r = r0 THEN cell ELSE m[get_offset(k, r)]]]
  BY <1>1 DEF Shown
<1> QED
  BY <1>2, <1>3

\* The memory after one cell of it has been written.
LEMMA CellWritten ==
    ASSUME NEW m, DOMAIN m = Address, NEW o \in Cells, NEW cell
    PROVE  \A a \in Cells : [m EXCEPT ![o] = cell][a] = IF a = o THEN cell ELSE m[a]
<1>1. Cells \subseteq Address
  BY Geometry DEF Cells, Address
<1> QED
  BY <1>1

\* A call begins: at a position, or unseen until the cursor is read.
LEMMA CallPrintBegins ==
    ASSUME IInv, Exact, CallPrint
    PROVE  T!Begin \/ SameView
<1> DEFINE call  == Head(calls[cpu])
           given == call.col >= 0 /\ call.row >= 0
<1>1. call \in Call /\ call.op = "print"
  BY CallsTail DEF CallPrint
<1>2. /\ Self.pc = "call" /\ UNCHANGED <<vidmem, crtc, preempted, cpu>>
      /\ Become(BeginsWith(call))
  BY DEF CallPrint, At, hardware, NothingElse, BeginsWith
<1>3. Self' = BeginsWith(call)
  BY <1>2, Becomes
<1>4. /\ Self'.op = "print" /\ Self'.msg \in Seq(Char)
      /\ given => Self'.pc = "print_char" /\ Self'.col \in Nat /\ Self'.row \in Nat
      /\ ~given => Self'.pc = "ask_high"
  BY <1>1, <1>3, BeginsWithIs
<1> HIDE DEF call, given
<1>5. /\ ScreenIn(Self, vidmem) = Shown(vidmem) /\ OffsetIn(Self, crtc) = CursorIn(crtc)
      /\ ~PrintingIn(Self) /\ AtIn(Self, crtc) = Place(CursorIn(crtc)) /\ TextIn(Self) = <<>>
  BY <1>2, ViewIdle
<1>6. CASE given
  <2>1. /\ ScreenIn(Self', vidmem') = Shown(vidmem')
        /\ OffsetIn(Self', crtc') = CursorIn(crtc') /\ PrintingIn(Self')
        /\ AtIn(Self', crtc') = [col |-> Self'.col, row |-> Self'.row]
        /\ TextIn(Self') = Self'.msg
    BY <1>4, <1>6, ViewPrint
  <2>2. [col |-> Self'.col, row |-> Self'.row] \in Requested
    BY <1>1, <1>3, <1>6, BeginsWithIs DEF given
  <2>3. T!Begin
    BY <1>2, <1>4, <1>5, <2>1, <2>2, Views, AtIsAtIn DEF T!Begin, Place, Char
  <2> QED
    BY <2>3
<1>7. CASE ~given
  <2>1. Self'.pc \in Reading
    BY <1>4, <1>7 DEF Reading
  <2> QED
    BY <1>2, <1>5, <2>1, ViewIdle DEF SameView
<1> QED
  BY <1>6, <1>7

\* The cursor has been read: the print begins there.
LEMMA ReadLowBegins ==
    ASSUME IInv, Exact, ~preempted, ReadLow
    PROVE  T!Begin
<1>1. /\ Self \in Frame /\ Self.pc = "read_low" /\ Fits(Self)
      /\ Self.offset \in Int /\ Self.offset >= 0 /\ Self.msg \in Seq(Char)
      /\ crtc_index = LOW /\ Self.offset = crtc[HIGH] * BYTE
      /\ UNCHANGED <<vidmem, crtc, preempted, cpu>>
      /\ Become(Continue(Self, Self.offset + crtc[crtc_index]))
  BY SelfFrame
  DEF ReadLow, At, hardware, NothingElse, Exact, Registered, Self, Frame, InBounds
<1> DEFINE offset == CursorIn(crtc)
<1>2. Self.offset + crtc[crtc_index] = offset
  BY <1>1 DEF CursorIn
<1>3. offset \in Nat
  <2>1. crtc[LOW] \in Nat
    BY Geometry DEF IInv, TypeOK
  <2> QED
    BY <1>1, <1>2, <2>1
<1>4. Self' = Continue(Self, offset)
  BY <1>1, <1>2, Becomes
<1> HIDE DEF offset
<1>5. /\ Self'.pc = "print_char" /\ Self'.op = "print" /\ Self'.msg = Self.msg
      /\ Self'.col = get_offset_col(offset) /\ Self'.row = get_offset_row(offset)
  BY <1>1, <1>3, <1>4, ContinueIs DEF Fits, Reading
<1>6. /\ ScreenIn(Self, vidmem) = Shown(vidmem) /\ OffsetIn(Self, crtc) = offset
      /\ ~PrintingIn(Self)
  BY <1>1, ViewIdle DEF Reading, offset
<1>7. /\ ScreenIn(Self', vidmem') = Shown(vidmem')
      /\ OffsetIn(Self', crtc') = CursorIn(crtc') /\ PrintingIn(Self')
      /\ AtIn(Self', crtc') = [col |-> Self'.col, row |-> Self'.row]
      /\ TextIn(Self') = Self'.msg
  BY <1>5, ViewPrint
<1>8. AtIn(Self', crtc') = Place(offset)
  BY <1>5, <1>7 DEF Place
<1>9. OffsetIn(Self', crtc') = offset
  BY <1>1, <1>7 DEF offset
<1> QED
  BY <1>1, <1>5, <1>6, <1>7, <1>8, <1>9, Views, AtIsAtIn DEF T!Begin, Place, Char

\* The screen is clear, for the terminal, when the clearing begins.
LEMMA CallClears ==
    ASSUME IInv, Exact, Exact', CallClear
    PROVE  T!Clear
<1>1. /\ Self.pc = "call" /\ UNCHANGED <<vidmem, crtc, preempted, cpu>>
      /\ Become([Idle EXCEPT !.pc = "clear", !.op = "clear"])
  BY DEF CallClear, At, hardware, NothingElse
<1>2. Self' = [Idle EXCEPT !.pc = "clear", !.op = "clear"]
  BY <1>1, Becomes
<1>3. Self'.pc = "clear" /\ Self'.op = "clear" /\ Self'.offset = 0
  BY <1>2 DEF Idle
<1>4. Fits(Self')
  <2>1. 0 \in Cells
    BY Geometry DEF Cells
  <2> QED
    BY <1>3, <2>1 DEF Fits, Setting, Reading
<1>5. ~PrintingIn(Self) /\ TextIn(Self) = <<>>
  BY <1>1, ViewIdle
<1>6. /\ ScreenIn(Self', vidmem') = [r \in 0 .. MAX_ROWS - 1 |->
                                        [k \in 0 .. MAX_COLS - 1 |-> SpaceCell]]
      /\ OffsetIn(Self', crtc') = 0 /\ AtIn(Self', crtc') = Place(0)
      /\ ~PrintingIn(Self') /\ TextIn(Self') = <<>>
  BY <1>3, <1>4, ViewClear
<1>7. Place(0) = T!Origin
  <2>1. get_offset(0, 0) = 0 /\ 0 \in 0 .. MAX_COLS - 1
    BY Geometry DEF get_offset
  <2>2. get_offset_row(0) = 0 /\ get_offset_col(0) = 0
    BY <2>1, PlaceOf
  <2> QED
    BY <2>2 DEF Place, T!Origin
<1>8. Printing' = Printing /\ ~Printing
  BY <1>5, <1>6, Views DEF Printing
<1>9. SettledScreen' = [r \in T!Rows |-> [k \in T!Cols |-> SpaceCell]]
  BY <1>6, Views DEF T!Rows, T!Cols
<1>10. Place(SettledOffset)' = T!Origin
  <2>1. Place(SettledOffset)' = Place(SettledOffset')
    BY DEF Place
  <2> QED
    BY <1>6, <1>7, <2>1, Views
<1> QED
  BY <1>1, <1>5, <1>6, <1>7, <1>8, <1>9, <1>10, AtIsAtIn DEF T!Clear

\* A character goes to the corner.
LEMMA CallPrintsCorner ==
    ASSUME IInv, Exact, CallPrintChar
    PROVE  T!Corner
<1> DEFINE call == Head(calls[cpu])
<1>1. /\ Self.pc = "call" /\ UNCHANGED <<crtc, preempted, cpu, frame>>
      /\ vidmem' = [vidmem EXCEPT ![0].ch = Head(call.msg)]
      /\ call \in Call /\ call.op = "printchar"
  BY CallsTail DEF CallPrintChar, At, NothingElse
<1>2. PICK c \in Glyph : call = PrintChar(c)
  BY <1>1 DEF Call
<1>3. Head(call.msg) = c
  <2>1. call.msg = <<c>>
    BY <1>2 DEF PrintChar
  <2> QED
    BY <2>1
<1> HIDE DEF call
<1> DEFINE cell == [vidmem[0] EXCEPT !.ch = c]
<1>4. vidmem' = [vidmem EXCEPT ![0] = cell]
  BY <1>1, <1>3
<1>5. /\ 0 \in 0 .. MAX_COLS - 1 /\ 0 \in 0 .. MAX_ROWS - 1 /\ get_offset(0, 0) = 0
  BY VgaTextAssumption DEF get_offset
<1>6. Shown(vidmem') = [Shown(vidmem) EXCEPT ![0][0] = cell]
  <2>1. DOMAIN vidmem = Address
    BY DEF IInv, TypeOK
  <2> HIDE DEF cell
  <2> QED
    <3>1. \A a \in Cells : vidmem'[a] = IF a = 0 THEN cell ELSE vidmem[a]
      <4>1. 0 \in Cells
        BY Geometry DEF Cells
      <4> QED
        BY <1>4, <2>1, <4>1, CellWritten
    <3>2. Shown(vidmem') = Rewritten(Shown(vidmem), 0, 0, cell)
      BY <1>5, <3>1, ShownUpdate
    <3> QED
      BY <3>2 DEF Rewritten
<1>7. Shown(vidmem)[0][0] = vidmem[0]
  BY <1>5 DEF Shown
<1>8. Shown(vidmem') = [Shown(vidmem) EXCEPT ![0][0].ch = c]
  BY <1>6, <1>7
<1>9. Self' = Self
  BY <1>1 DEF Self
<1>10. /\ ScreenIn(Self, vidmem) = Shown(vidmem) /\ OffsetIn(Self, crtc) = CursorIn(crtc)
       /\ ~PrintingIn(Self) /\ ScreenIn(Self', vidmem') = Shown(vidmem')
       /\ OffsetIn(Self', crtc') = CursorIn(crtc') /\ ~PrintingIn(Self')
       /\ AtIn(Self', crtc') = AtIn(Self, crtc) /\ TextIn(Self') = TextIn(Self)
  BY <1>1, <1>9, ViewIdle
<1>11. Printing' = Printing
  BY <1>10, Views DEF Printing
<1>12. T!Corner
  BY <1>1, <1>8, <1>10, <1>11, Views, AtIsAtIn DEF T!Corner, Place
<1> QED
  BY <1>12

\* Row and column of an offset that was computed from a column beyond the edge.
LEMMA PlaceBeyond ==
    ASSUME NEW col \in Nat, NEW row \in Nat
    PROVE  /\ get_offset_row(get_offset(col, row)) = row + (col \div MAX_COLS)
           /\ get_offset_col(get_offset(col, row)) = col % MAX_COLS
<1> DEFINE q == col \div MAX_COLS
           r == col % MAX_COLS
<1>1. MAX_COLS \in Nat \ {0}
  BY Geometry
<1>2. q \in Nat /\ r \in 0 .. MAX_COLS - 1 /\ col = MAX_COLS * q + r
  BY <1>1, Split
<1> HIDE DEF q, r
<1>3. get_offset(col, row) = get_offset(r, row + q)
  <2>1. (row + q) * MAX_COLS = row * MAX_COLS + MAX_COLS * q
    BY <1>1, <1>2
  <2>2. row * MAX_COLS \in Nat /\ MAX_COLS * q \in Nat
    BY <1>1, <1>2
  <2> QED
    BY <1>2, <2>1, <2>2 DEF get_offset
<1> QED
  BY <1>2, <1>3, PlaceOf DEF q, r

\* A character aimed off the screen marks the last cell.
LEMMA RejectedRejects ==
    ASSUME IInv, Exact, Rejected
    PROVE  T!Reject
<1> DEFINE rest   == [Self EXCEPT !.msg = Tail(@)]
           offset == get_offset(Self.col, Self.row)
<1>1. /\ Self \in Frame /\ Self.pc = "print_char" /\ Self.op = "print" /\ Self.msg # <<>>
      /\ Self.col \in Nat /\ Self.row \in Nat /\ Tail(Self.msg) \in Seq(Char)
      /\ OffScreen(Self.col, Self.row)
      /\ vidmem' = [vidmem EXCEPT ![LastCell] = ErrorCell]
      /\ UNCHANGED <<crtc, preempted, cpu>>
      /\ Become(Continue(rest, offset))
  BY SelfFrame, PrintCharFrame DEF Rejected, At, NothingElse, Exact, Fits, Self
<1>2. rest \in Frame /\ rest.op = "print" /\ rest.msg = Tail(Self.msg)
  BY <1>1 DEF Frame
<1>3. offset \in Nat
  BY <1>1, OffsetNat
<1>4. Self' = Continue(rest, offset)
  BY <1>1, Becomes
<1>5. /\ get_offset_row(offset) = Self.row + (Self.col \div MAX_COLS)
      /\ get_offset_col(offset) = Self.col % MAX_COLS
  BY <1>1, PlaceBeyond
<1> HIDE DEF rest, offset
<1>6. /\ Self'.pc = "print_char" /\ Self'.op = "print" /\ Self'.msg = Tail(Self.msg)
      /\ Self'.col = get_offset_col(offset) /\ Self'.row = get_offset_row(offset)
  BY <1>2, <1>3, <1>4, ContinueIs
<1>7. /\ ScreenIn(Self, vidmem) = Shown(vidmem) /\ OffsetIn(Self, crtc) = CursorIn(crtc)
      /\ PrintingIn(Self) /\ AtIn(Self, crtc) = [col |-> Self.col, row |-> Self.row]
      /\ TextIn(Self) = Self.msg
  BY <1>1, ViewPrint
<1>8. /\ ScreenIn(Self', vidmem') = Shown(vidmem') /\ OffsetIn(Self', crtc') = CursorIn(crtc')
      /\ PrintingIn(Self') /\ AtIn(Self', crtc') = [col |-> Self'.col, row |-> Self'.row]
      /\ TextIn(Self') = Self'.msg
  BY <1>6, ViewPrint
<1>9. Shown(vidmem') = [Shown(vidmem) EXCEPT ![MAX_ROWS - 1][MAX_COLS - 1] = ErrorCell]
  <2>1. /\ MAX_COLS - 1 \in 0 .. MAX_COLS - 1 /\ MAX_ROWS - 1 \in 0 .. MAX_ROWS - 1
    BY VgaTextAssumption
  <2>2. get_offset(MAX_COLS - 1, MAX_ROWS - 1) = LastCell
    <3>1. LastRow \in Nat /\ LastRow + MAX_COLS = ScreenSize /\ MAX_COLS \in Nat
      BY Geometry
    <3>2. get_offset(MAX_COLS - 1, MAX_ROWS - 1) = LastRow + (MAX_COLS - 1)
      BY DEF get_offset, LastRow
    <3> QED
      BY <3>1, <3>2 DEF LastCell
  <2>3. DOMAIN vidmem = Address
    BY DEF IInv, TypeOK
  <2> QED
    <3> DEFINE k == MAX_COLS - 1
               r == MAX_ROWS - 1
    <3>1. \A a \in Cells : vidmem'[a] = IF a = LastCell THEN ErrorCell ELSE vidmem[a]
      <4>1. LastCell \in Cells
        BY Geometry DEF Cells, LastCell
      <4> QED
        BY <1>1, <2>3, <4>1, CellWritten
    <3>2. /\ k \in 0 .. MAX_COLS - 1 /\ r \in 0 .. MAX_ROWS - 1
          /\ LastCell = get_offset(k, r)
      BY <2>1, <2>2
    <3> HIDE DEF k, r
    <3>3. Shown(vidmem') = Rewritten(Shown(vidmem), r, k, ErrorCell)
      BY <3>1, <3>2, ShownUpdate
    <3> QED
      BY <3>3 DEF Rewritten, k, r
<1> DEFINE at == [col |-> Self.col, row |-> Self.row]
<1>10. ~T!OnScreen(at)
  BY <1>1, VgaTextAssumption DEF T!OnScreen, OffScreen
<1>11. AtIn(Self', crtc') = [col |-> at.col % MAX_COLS, row |-> at.row + (at.col \div MAX_COLS)]
  BY <1>5, <1>6, <1>8
<1>12. Printing' = Printing
  BY <1>7, <1>8, Views DEF Printing
<1> HIDE DEF at
<1> QED
  BY <1>1, <1>6, <1>7, <1>8, <1>9, <1>10, <1>11, <1>12, Views, AtIsAtIn DEF T!Reject, Place, at

\* A cell of the screen is in the last row or has one below it.
LEMMA RowBelow ==
    ASSUME NEW k \in 0 .. MAX_COLS - 1, NEW r \in 0 .. MAX_ROWS - 1
    PROVE  /\ get_offset(k, r) \in Cells
           /\ get_offset(k, r) + MAX_COLS = get_offset(k, r + 1)
           /\ get_offset(k, r) >= LastRow <=> r = MAX_ROWS - 1
<1> DEFINE start == r * MAX_COLS
<1>1. /\ MAX_COLS \in Nat \ {0} /\ MAX_ROWS \in Nat \ {0, 1} /\ r \in Nat /\ k \in Nat
      /\ start \in Nat
  BY VgaTextAssumption
<1>2. get_offset(k, r) = start + k /\ (r + 1) * MAX_COLS = start + MAX_COLS
  BY <1>1 DEF get_offset
<1>3. get_offset(k, r + 1) = (start + MAX_COLS) + k
  BY <1>2 DEF get_offset
<1>4. r = MAX_ROWS - 1 => start = LastRow
  BY DEF LastRow
<1>5. r # MAX_ROWS - 1 => start + MAX_COLS <= LastRow
  <2>1. ASSUME r # MAX_ROWS - 1 PROVE MAX_COLS * r + MAX_COLS <= MAX_COLS * (MAX_ROWS - 1)
    <3>1. r < MAX_ROWS - 1 /\ MAX_ROWS - 1 \in Nat /\ MAX_COLS \in Nat
      BY <1>1, <2>1
    <3> QED
      BY <1>1, <3>1, NextMultiple
  <2>2. start = MAX_COLS * r /\ LastRow = MAX_COLS * (MAX_ROWS - 1)
    BY <1>1 DEF LastRow
  <2> QED
    BY <2>1, <2>2
<1>6. LastRow \in Nat /\ LastRow + MAX_COLS = ScreenSize
  BY Geometry
<1> HIDE DEF start
<1> QED
  BY <1>1, <1>2, <1>3, <1>4, <1>5, <1>6 DEF Cells

\* When the copying begins the terminal has scrolled.
LEMMA CopyStarts ==
    ASSUME NEW f, NEW m, f.pc = "copy", f.i = MAX_COLS
    PROVE  ScreenIn(f, m) = T!Scrolled(Shown(m))
<1>1. ASSUME NEW k \in 0 .. MAX_COLS - 1, NEW r \in 0 .. MAX_ROWS - 1
      PROVE  SettledIn(f, m, get_offset(k, r))
               = IF r = MAX_ROWS - 1 THEN BlankCell ELSE m[get_offset(k, r + 1)]
  <2> DEFINE o == get_offset(k, r)
  <2>1. /\ o \in Nat /\ o + MAX_COLS = get_offset(k, r + 1)
        /\ o >= LastRow <=> r = MAX_ROWS - 1
    BY RowBelow DEF Cells
  <2>2. ~(o < f.i - MAX_COLS)
    BY <2>1, Geometry
  <2> HIDE DEF o
  <2>3. SettledIn(f, m, o) = IF r = MAX_ROWS - 1 THEN BlankCell ELSE m[o + MAX_COLS]
    BY <2>1, <2>2 DEF SettledIn
  <2> QED
    BY <2>1, <2>3 DEF o
<1>2. ASSUME NEW r \in 0 .. MAX_ROWS - 1
      PROVE  r + 1 \in 0 .. MAX_ROWS - 1 <=> r # MAX_ROWS - 1
  BY VgaTextAssumption
<1>3. \A r \in 0 .. MAX_ROWS - 1 :
         r + 1 \in 0 .. MAX_ROWS - 1 =>
            Shown(m)[r + 1] = [k \in 0 .. MAX_COLS - 1 |-> m[get_offset(k, r + 1)]]
  BY DEF Shown
<1> DEFINE Row(r) == [k \in 0 .. MAX_COLS - 1 |->
                         IF r = MAX_ROWS - 1 THEN BlankCell ELSE m[get_offset(k, r + 1)]]
<1>4. ASSUME NEW r \in 0 .. MAX_ROWS - 1
      PROVE  (IF r + 1 \in 0 .. MAX_ROWS - 1 THEN Shown(m)[r + 1]
              ELSE [k \in 0 .. MAX_COLS - 1 |-> BlankCell]) = Row(r)
  <2>1. CASE r = MAX_ROWS - 1
    BY <1>2, <2>1
  <2>2. CASE r # MAX_ROWS - 1
    BY <1>2, <1>3, <2>2
  <2> QED
    BY <2>1, <2>2
<1>5. ASSUME NEW r \in 0 .. MAX_ROWS - 1
      PROVE  [k \in 0 .. MAX_COLS - 1 |-> SettledIn(f, m, get_offset(k, r))] = Row(r)
  BY <1>1
<1> HIDE DEF Row
<1>6. ScreenIn(f, m) = [r \in 0 .. MAX_ROWS - 1 |-> Row(r)]
  BY <1>5 DEF ScreenIn
<1>7. T!Scrolled(Shown(m)) = [r \in 0 .. MAX_ROWS - 1 |-> Row(r)]
  BY <1>4 DEF T!Scrolled, T!Rows, T!Cols
<1> QED
  BY <1>6, <1>7

\* Where the terminal goes on after a character.
LEMMA Advances ==
    ASSUME NEW col \in 0 .. MAX_COLS - 1, NEW row \in 0 .. MAX_ROWS - 1, NEW c
    PROVE  LET n == NextCol(col, c)
           IN  T!Advance([col |-> col, row |-> row], c)
                 = IF n < MAX_COLS THEN [col |-> n, row |-> row]
                   ELSE [col |-> 0, row |-> row + 1]
  BY ConsoleAssumption DEF NextCol, T!Advance, T!NextRow

LEMMA NextPlaceIs ==
    ASSUME NEW n \in 1 .. MAX_COLS, NEW row \in Nat
    PROVE  Place(get_offset(n, row)) = IF n < MAX_COLS THEN [col |-> n, row |-> row]
                                       ELSE [col |-> 0, row |-> row + 1]
<1>1. MAX_COLS \in Nat \ {0}
  BY Geometry
<1>2. CASE n < MAX_COLS
  <2>1. n \in 0 .. MAX_COLS - 1
    BY <1>1, <1>2
  <2> QED
    BY <1>2, <2>1, PlaceOf DEF Place
<1>3. CASE ~(n < MAX_COLS)
  <2>1. n = MAX_COLS /\ 0 \in 0 .. MAX_COLS - 1 /\ row + 1 \in Nat
    BY <1>1, <1>3
  <2>2. get_offset(n, row) = get_offset(0, row + 1)
    <3>1. (row + 1) * MAX_COLS = row * MAX_COLS + MAX_COLS /\ row * MAX_COLS \in Nat
      BY <1>1
    <3> QED
      BY <1>1, <2>1, <3>1 DEF get_offset
  <2> QED
    BY <1>3, <2>1, <2>2, PlaceOf DEF Place
<1> QED
  BY <1>2, <1>3

\* The cell of the character, on the screen of the terminal.
LEMMA PutWrites ==
    ASSUME IInv, Exact, Put
    PROVE  Shown(vidmem') = LET c == Head(Self.msg)
                            IN  IF c \in Glyph
                                THEN Rewritten(Shown(vidmem), Self.row, Self.col, PutCell(c))
                                ELSE Shown(vidmem)
<1> DEFINE c    == Head(Self.msg)
           here == get_offset(Self.col, Self.row)
<1>1. /\ Self.col \in 0 .. MAX_COLS - 1 /\ Self.row \in 0 .. MAX_ROWS - 1
      /\ vidmem' = IF c \in Glyph THEN [vidmem EXCEPT ![here] = PutCell(c)] ELSE vidmem
      /\ DOMAIN vidmem = Address
  BY PutFrameIs DEF Put, IInv, TypeOK
<1>2. CASE c \in Glyph
  <2> DEFINE cell == PutCell(c)
  <2>1. here \in Cells
    BY <1>1, RowBelow
  <2>2. vidmem' = [vidmem EXCEPT ![here] = cell]
    BY <1>1, <1>2
  <2>3. /\ here = get_offset(Self.col, Self.row)
        /\ Self.col \in 0 .. MAX_COLS - 1 /\ Self.row \in 0 .. MAX_ROWS - 1
    BY <1>1
  <2> HIDE DEF cell, here
  <2>4. \A a \in Cells : vidmem'[a] = IF a = here THEN cell ELSE vidmem[a]
    <3>1. DOMAIN vidmem = Address
      BY <1>1
    <3> QED
      BY <2>1, <2>2, <3>1, CellWritten
  <2>5. Shown(vidmem') = Rewritten(Shown(vidmem), Self.row, Self.col, cell)
    BY <2>3, <2>4, ShownUpdate
  <2> QED
    BY <1>2, <2>5 DEF cell
<1>3. CASE c \notin Glyph
  BY <1>1, <1>3
<1> QED
  BY <1>2, <1>3

\* A character is put: the row wraps or the screen scrolls, at once for the
\* terminal.
LEMMA PutPuts ==
    ASSUME IInv, Exact, Put
    PROVE  T!Put
<1> DEFINE c    == Head(Self.msg)
           at   == [col |-> Self.col, row |-> Self.row]
           n    == NextCol(Self.col, c)
           off  == NextOffset(get_offset(Self.col, Self.row), c)
           full == off >= ScreenSize
<1>1. /\ Self.pc = "print_char" /\ Self.op = "print" /\ Self.msg # <<>> /\ Fits(Self)
      /\ UNCHANGED <<crtc, preempted, cpu>>
  BY SelfFrame DEF Put, At, NothingElse, Exact, Fits, Self, Reading
<1>2. /\ Self.col \in 0 .. MAX_COLS - 1 /\ Self.row \in 0 .. MAX_ROWS - 1
      /\ Become(PutFrame)
      /\ PutFrame.op = "print" /\ PutFrame.msg = Tail(Self.msg)
      /\ PutFrame.offset = off
      /\ full => PutFrame.pc = "copy" /\ PutFrame.i = MAX_COLS /\ off = ScreenSize
      /\ ~full => PutFrame.pc = "select_high" /\ off \in Cells
  BY PutFrameIs
<1>3. Self' = PutFrame
  BY <1>1, <1>2, Becomes
<1>4. /\ n \in 1 .. MAX_COLS /\ off = get_offset(n, Self.row)
      /\ full <=> Self.row = MAX_ROWS - 1 /\ n = MAX_COLS
      /\ Self.row \in Nat /\ MAX_COLS \in Nat /\ MAX_ROWS \in Nat
  <2>1. Self.row \in Nat /\ MAX_COLS \in Nat /\ MAX_ROWS \in Nat
    BY <1>2, VgaTextAssumption
  <2> QED
    BY <1>2, <2>1, NextPlace, Filled
<1>5. T!Advance(at, c) = IF n < MAX_COLS THEN [col |-> n, row |-> Self.row]
                         ELSE [col |-> 0, row |-> Self.row + 1]
  BY <1>2, Advances
<1>6. Place(off) = T!Advance(at, c)
  BY <1>4, <1>5, NextPlaceIs
<1>7. T!OnScreen(at)
  BY <1>2, <1>4 DEF T!OnScreen
<1>8. /\ ScreenIn(Self, vidmem) = Shown(vidmem) /\ OffsetIn(Self, crtc) = CursorIn(crtc)
      /\ PrintingIn(Self) /\ AtIn(Self, crtc) = at
      /\ TextIn(Self) = Self.msg
  BY <1>1, ViewPrint
<1>9. T!Write(at, c) = Shown(vidmem')
  BY <1>8, PutWrites, Views DEF T!Write, Rewritten
<1> DEFINE next == T!Advance(at, c)
<1>10. next.row < MAX_ROWS <=> ~full
  BY <1>2, <1>4, <1>5
<1> HIDE DEF off, n, next
<1>11. CASE ~full
  <2>1. Self'.pc \in Setting /\ Fits(Self')
    BY <1>2, <1>3, <1>11 DEF Setting, Fits, Reading
  <2>2. /\ ScreenIn(Self', vidmem') = Shown(vidmem') /\ OffsetIn(Self', crtc') = off
        /\ PrintingIn(Self') /\ AtIn(Self', crtc') = Place(off)
        /\ TextIn(Self') = Tail(Self.msg)
    BY <1>2, <1>3, <2>1, ViewSetting
  <2>3. Printing' = Printing
    BY <1>8, <2>2, Views DEF Printing
  <2>4. SettledScreen' = T!Write(at, c) /\ Place(SettledOffset)' = next
    BY <1>6, <1>9, <2>2, Views DEF Place, next
  <2> QED
    BY <1>1, <1>6, <1>7, <1>8, <1>10, <1>11, <2>2, <2>3, <2>4, Views, AtIsAtIn
    DEF T!Put, next
<1>12. CASE full
  <2>1. Self'.pc = "copy" /\ Fits(Self') /\ Self'.i = MAX_COLS
    BY <1>2, <1>3, <1>12 DEF Setting, Fits, Reading
  <2>2. /\ ScreenIn(Self', vidmem') = T!Scrolled(Shown(vidmem'))
        /\ OffsetIn(Self', crtc') = LastRow
        /\ PrintingIn(Self') /\ AtIn(Self', crtc') = Place(LastRow)
        /\ TextIn(Self') = Tail(Self.msg)
    <3>1. ScreenIn(Self', vidmem') = T!Scrolled(Shown(vidmem'))
      BY <2>1, CopyStarts
    <3>2. /\ OffsetIn(Self', crtc') = LastRow
          /\ PrintingIn(Self') /\ AtIn(Self', crtc') = Place(LastRow)
          /\ TextIn(Self') = Self'.msg
      BY <2>1, ViewLoop
    <3> QED
      BY <1>2, <1>3, <3>1, <3>2
  <2>3. Printing' = Printing
    BY <1>8, <2>2, Views DEF Printing
  <2>4. Place(LastRow) = [next EXCEPT !.row = MAX_ROWS - 1]
    <3>1. next = [col |-> 0, row |-> Self.row + 1]
      BY <1>4, <1>5, <1>12 DEF next
    <3>2. get_offset(0, MAX_ROWS - 1) = LastRow /\ 0 \in 0 .. MAX_COLS - 1
          /\ MAX_ROWS - 1 \in Nat
      BY Geometry, VgaTextAssumption DEF get_offset, LastRow
    <3>3. get_offset_row(LastRow) = MAX_ROWS - 1 /\ get_offset_col(LastRow) = 0
      BY <3>2, PlaceOf
    <3> QED
      BY <3>1, <3>3 DEF Place
  <2>5. /\ SettledScreen' = T!Scrolled(T!Write(at, c))
        /\ Place(SettledOffset)' = [next EXCEPT !.row = MAX_ROWS - 1]
    BY <1>9, <2>2, <2>4, Views DEF Place
  <2> QED
    BY <1>1, <1>7, <1>8, <1>10, <1>12, <2>2, <2>3, <2>4, <2>5, Views, AtIsAtIn
    DEF T!Put, next
<1> QED
  BY <1>11, <1>12

-----------------------------------------------------------------------------
(* The loops: what they have done and what is left of them make up the     *)
(* screen the terminal already shows.                                      *)

LEMMA SameScreen ==
    ASSUME NEW f, NEW m, NEW f2, NEW m2,
           \A o \in Cells : SettledIn(f2, m2, o) = SettledIn(f, m, o)
    PROVE  ScreenIn(f2, m2) = ScreenIn(f, m)
<1>1. \A k \in 0 .. MAX_COLS - 1, r \in 0 .. MAX_ROWS - 1 : get_offset(k, r) \in Cells
  BY RowBelow
<1> QED
  BY <1>1 DEF ScreenIn

\* The frame of a loop after one more cell, and at its end.
LEMMA CopyCellIs ==
    ASSUME IInv, Exact, CopyCell
    PROVE  /\ Self.pc = "copy" /\ Self.i \in MAX_COLS .. ScreenSize - 1
           /\ Fits(Self) /\ Fits(Self') /\ Self'.op = Self.op /\ Self'.msg = Self.msg
           /\ IF Self.i + 1 < ScreenSize
              THEN Self'.pc = "copy" /\ Self'.i = Self.i + 1
              ELSE Self'.pc = "blank" /\ Self'.i = LastRow
<1>1. /\ Self \in Frame /\ Self.pc = "copy" /\ InBounds(Self) /\ Fits(Self)
      /\ UNCHANGED <<cpu, preempted>>
  BY SelfFrame DEF CopyCell, At, NothingElse, Exact, Self
<1>2. Self.i \in MAX_COLS .. ScreenSize - 1
  BY <1>1 DEF InBounds
<1>3. CASE Self.i + 1 < ScreenSize
  <2>1. Self' = [Self EXCEPT !.i = @ + 1]
    BY <1>1, <1>3, Becomes DEF CopyCell
  <2>2. Self'.pc = "copy" /\ Self'.i = Self.i + 1 /\ Self'.op = Self.op
        /\ Self'.msg = Self.msg /\ Self'.offset = Self.offset
    BY <1>1, <2>1 DEF Frame
  <2> QED
    BY <1>1, <1>2, <1>3, <2>2 DEF Fits
<1>4. CASE ~(Self.i + 1 < ScreenSize)
  <2>1. Self' = [Self EXCEPT !.pc = "blank", !.i = LastRow]
    BY <1>1, <1>4, Becomes DEF CopyCell
  <2>2. Self'.pc = "blank" /\ Self'.i = LastRow /\ Self'.op = Self.op
        /\ Self'.msg = Self.msg /\ Self'.offset = Self.offset
    BY <1>1, <2>1 DEF Frame
  <2> QED
    BY <1>1, <1>2, <1>4, <2>2 DEF Fits, Setting, Reading
<1> QED
  BY <1>3, <1>4

LEMMA ZeroCellIs ==
    ASSUME IInv, Exact, ZeroCell
    PROVE  /\ Self.pc = "blank" /\ Self.i \in LastRow .. ScreenSize - 1
           /\ Fits(Self) /\ Fits(Self') /\ Self'.op = "print" /\ Self'.msg = Self.msg
           /\ IF Self.i + 1 < ScreenSize
              THEN Self'.pc = "blank" /\ Self'.i = Self.i + 1
              ELSE Self'.pc = "select_high" /\ Self'.offset = LastRow
<1>1. /\ Self \in Frame /\ Self.pc = "blank" /\ InBounds(Self) /\ Fits(Self)
      /\ UNCHANGED <<cpu, preempted>>
  BY SelfFrame DEF ZeroCell, At, NothingElse, Exact, Self
<1>2. Self.i \in LastRow .. ScreenSize - 1 /\ Self.op = "print" /\ Self.offset = ScreenSize
  BY <1>1 DEF InBounds, Fits
<1>3. CASE Self.i + 1 < ScreenSize
  <2>1. Self' = [Self EXCEPT !.i = @ + 1]
    BY <1>1, <1>3, Becomes DEF ZeroCell
  <2>2. Self'.pc = "blank" /\ Self'.i = Self.i + 1 /\ Self'.op = Self.op
        /\ Self'.msg = Self.msg /\ Self'.offset = Self.offset
    BY <1>1, <2>1 DEF Frame
  <2> QED
    BY <1>1, <1>2, <1>3, <2>2 DEF Fits
<1>4. CASE ~(Self.i + 1 < ScreenSize)
  <2>1. Self' = [Self EXCEPT !.pc = "select_high", !.i = 0, !.offset = @ - MAX_COLS]
    BY <1>1, <1>4, Becomes DEF ZeroCell
  <2>2. Self'.pc = "select_high" /\ Self'.op = Self.op
        /\ Self'.msg = Self.msg /\ Self'.offset = Self.offset - MAX_COLS
    BY <1>1, <2>1 DEF Frame
  <2>3. Self'.offset = LastRow /\ LastRow \in Cells
    BY <1>2, <2>2, Geometry DEF Cells
  <2>4. Fits(Self')
    BY <1>2, <2>2, <2>3 DEF Fits, Setting, Reading
  <2> QED
    BY <1>1, <1>2, <1>4, <2>2, <2>3, <2>4
<1> QED
  BY <1>3, <1>4

LEMMA SpaceOutIs ==
    ASSUME IInv, Exact, SpaceOut
    PROVE  /\ Self.pc = "clear" /\ Self.i \in Cells
           /\ Fits(Self) /\ Fits(Self') /\ Self'.op = "clear" /\ Self'.offset = 0
           /\ IF Self.i + 1 < ScreenSize
              THEN Self'.pc = "clear" /\ Self'.i = Self.i + 1
              ELSE Self'.pc = "select_high"
<1>1. /\ Self \in Frame /\ Self.pc = "clear" /\ InBounds(Self) /\ Fits(Self)
      /\ UNCHANGED <<cpu, preempted>>
  BY SelfFrame DEF SpaceOut, At, NothingElse, Exact, Self
<1>2. Self.i \in Cells /\ Self.op = "clear" /\ Self.offset = 0 /\ 0 \in Cells
  BY <1>1, Geometry DEF InBounds, Fits, Cells
<1>3. CASE Self.i + 1 < ScreenSize
  <2>1. Self' = [Self EXCEPT !.i = @ + 1]
    BY <1>1, <1>3, Becomes DEF SpaceOut
  <2>2. Self'.pc = "clear" /\ Self'.i = Self.i + 1 /\ Self'.op = Self.op
        /\ Self'.offset = Self.offset
    BY <1>1, <2>1 DEF Frame
  <2>3. Fits(Self')
    BY <1>2, <2>2 DEF Fits, Setting, Reading
  <2> QED
    BY <1>1, <1>2, <1>3, <2>2, <2>3
<1>4. CASE ~(Self.i + 1 < ScreenSize)
  <2>1. Self' = [Self EXCEPT !.pc = "select_high", !.i = 0]
    BY <1>1, <1>4, Becomes DEF SpaceOut
  <2>2. Self'.pc = "select_high" /\ Self'.op = Self.op /\ Self'.offset = Self.offset
    BY <1>1, <2>1 DEF Frame
  <2>3. Fits(Self')
    BY <1>2, <2>2 DEF Fits, Setting, Reading
  <2> QED
    BY <1>1, <1>2, <1>4, <2>2, <2>3
<1> QED
  BY <1>3, <1>4

LEMMA CopyCellUnseen ==
    ASSUME IInv, Exact, CopyCell
    PROVE  SameView
<1>1. /\ Self.pc = "copy" /\ Self.i \in MAX_COLS .. ScreenSize - 1
      /\ Fits(Self) /\ Fits(Self') /\ Self'.op = Self.op /\ Self'.msg = Self.msg
      /\ Self'.pc \in {"copy", "blank"}
      /\ IF Self.i + 1 < ScreenSize
         THEN Self'.pc = "copy" /\ Self'.i = Self.i + 1
         ELSE Self'.pc = "blank" /\ Self'.i = LastRow
  BY CopyCellIs
<1>2. /\ preempted' = preempted /\ DOMAIN vidmem = Address
      /\ vidmem' = [vidmem EXCEPT ![Self.i - MAX_COLS] = vidmem[Self.i]]
  BY DEF CopyCell, NothingElse, IInv, TypeOK
<1>3. /\ MAX_COLS \in Nat \ {0} /\ LastRow \in Nat /\ ScreenSize = LastRow + MAX_COLS
      /\ Cells = 0 .. ScreenSize - 1
  BY Geometry DEF Cells
<1> DEFINE i    == Self.i
           to   == i - MAX_COLS
           cell == vidmem[i]
<1>4. i \in MAX_COLS .. ScreenSize - 1 /\ to \in Cells /\ to = i - MAX_COLS
  BY <1>1, <1>3
<1>5. vidmem' = [vidmem EXCEPT ![to] = cell]
  BY <1>2
<1> HIDE DEF to, cell
<1>6. /\ \A a \in Cells : vidmem'[a] = IF a = to THEN cell ELSE vidmem[a]
      /\ cell = vidmem[to + MAX_COLS]
  <2>1. DOMAIN vidmem = Address /\ to \in Cells
    BY <1>2, <1>4
  <2>2. \A a \in Cells : vidmem'[a] = IF a = to THEN cell ELSE vidmem[a]
    BY <1>5, <2>1, CellWritten
  <2>3. cell = vidmem[to + MAX_COLS]
    BY <1>3, <1>4 DEF cell
  <2> QED
    BY <2>2, <2>3
<1>7. ASSUME NEW o \in Cells
      PROVE  SettledIn(Self', vidmem', o) = SettledIn(Self, vidmem, o)
  <2>1. CASE o >= LastRow
    <3>1. SettledIn(Self, vidmem, o) = BlankCell
      BY <1>1, <2>1 DEF SettledIn
    <3>2. SettledIn(Self', vidmem', o) = BlankCell
      BY <1>1, <2>1 DEF SettledIn
    <3> QED
      BY <3>1, <3>2
  <2>2. CASE o < LastRow
    <3>1. o \in Nat /\ o + MAX_COLS \in Cells /\ ~(o >= LastRow)
      BY <1>3, <2>2
    <3>2. SettledIn(Self, vidmem, o) = IF o < to THEN vidmem[o] ELSE vidmem[o + MAX_COLS]
      BY <1>1, <3>1 DEF SettledIn, to
    <3>3. CASE i + 1 < ScreenSize
      <4>1. Self'.pc = "copy" /\ Self'.i - MAX_COLS = to + 1
        BY <1>1, <1>3, <1>4, <3>3
      <4>2. SettledIn(Self', vidmem', o)
              = IF o < to + 1 THEN vidmem'[o] ELSE vidmem'[o + MAX_COLS]
        BY <4>1, <3>1 DEF SettledIn
      <4>3. o < to + 1 <=> o < to \/ o = to
        BY <1>3, <1>4, <3>1
      <4>4. ~(o < to) => o + MAX_COLS # to
        BY <1>3, <1>4, <3>1
      <4>5. o < to => o # to
        BY <1>3, <1>4, <3>1
      <4>6. CASE o < to
        BY <1>6, <3>2, <4>2, <4>3, <4>5, <4>6
      <4>7. CASE o = to
        BY <1>6, <3>2, <4>2, <4>3, <4>5, <4>7
      <4>8. CASE ~(o < to) /\ o # to
        <5>1. vidmem'[o + MAX_COLS] = vidmem[o + MAX_COLS]
          BY <1>6, <3>1, <4>4, <4>8
        <5> QED
          BY <3>2, <4>2, <4>3, <4>8, <5>1
      <4> QED
        BY <4>6, <4>7, <4>8
    <3>4. CASE ~(i + 1 < ScreenSize)
      <4>1. to = LastRow - 1
        BY <1>3, <1>4, <3>4
      <4>2. SettledIn(Self', vidmem', o) = vidmem'[o]
        BY <1>1, <2>2, <3>1, <3>4 DEF SettledIn
      <4>3. o < to \/ o = to
        BY <1>3, <2>2, <3>1, <4>1
      <4>4. o < to => o # to
        BY <1>3, <1>4, <3>1
      <4> QED
        BY <1>6, <3>2, <4>2, <4>3, <4>4
    <3> QED
      BY <3>3, <3>4
  <2> QED
    BY <1>3, <2>1, <2>2
<1>8. ScreenIn(Self', vidmem') = ScreenIn(Self, vidmem)
  BY <1>7, SameScreen
<1> QED
  BY <1>1, <1>2, <1>8, ViewLoop DEF SameView

LEMMA ZeroCellUnseen ==
    ASSUME IInv, Exact, ZeroCell
    PROVE  SameView
<1>1. /\ Self.pc = "blank" /\ Self.i \in LastRow .. ScreenSize - 1
      /\ Fits(Self) /\ Fits(Self') /\ Self'.op = "print" /\ Self'.msg = Self.msg
      /\ IF Self.i + 1 < ScreenSize
         THEN Self'.pc = "blank" /\ Self'.i = Self.i + 1
         ELSE Self'.pc = "select_high" /\ Self'.offset = LastRow
  BY ZeroCellIs
<1>2. /\ preempted' = preempted /\ DOMAIN vidmem = Address
      /\ vidmem' = [vidmem EXCEPT ![Self.i] = BlankCell]
  BY DEF ZeroCell, NothingElse, IInv, TypeOK
<1>3. LastRow \in Nat /\ ScreenSize \in Nat /\ Cells = 0 .. ScreenSize - 1
  BY Geometry DEF Cells
<1> DEFINE i == Self.i
<1>4. i \in Cells
  BY <1>1, <1>3
<1>5. \A a \in Cells : vidmem'[a] = IF a = i THEN BlankCell ELSE vidmem[a]
  BY <1>2, <1>4, CellWritten
<1>6. ASSUME NEW o \in Cells
      PROVE  SettledIn(Self', vidmem', o) = SettledIn(Self, vidmem, o)
  <2>1. SettledIn(Self, vidmem, o) = IF o >= i THEN BlankCell ELSE vidmem[o]
    BY <1>1 DEF SettledIn
  <2>2. vidmem'[o] = IF o = i THEN BlankCell ELSE vidmem[o]
    BY <1>5
  <2>3. CASE i + 1 < ScreenSize
    <3>1. SettledIn(Self', vidmem', o) = IF o >= i + 1 THEN BlankCell ELSE vidmem'[o]
      BY <1>1, <2>3 DEF SettledIn
    <3>2. o >= i <=> o >= i + 1 \/ o = i
      BY <1>3, <1>4
    <3> QED
      BY <2>1, <2>2, <3>1, <3>2
  <2>4. CASE ~(i + 1 < ScreenSize)
    <3>1. SettledIn(Self', vidmem', o) = vidmem'[o]
      BY <1>1, <2>4 DEF SettledIn
    <3>2. o >= i <=> o = i
      BY <1>3, <1>4, <2>4
    <3> QED
      BY <2>1, <2>2, <3>1, <3>2
  <2> QED
    BY <2>3, <2>4
<1>7. ScreenIn(Self', vidmem') = ScreenIn(Self, vidmem)
  BY <1>6, SameScreen
<1>8. /\ OffsetIn(Self, crtc) = LastRow
      /\ PrintingIn(Self) /\ AtIn(Self, crtc) = Place(LastRow) /\ TextIn(Self) = Self.msg
  BY <1>1, ViewLoop
<1>9. CASE i + 1 < ScreenSize
  <2>1. /\ OffsetIn(Self', crtc') = LastRow
        /\ PrintingIn(Self') /\ AtIn(Self', crtc') = Place(LastRow)
        /\ TextIn(Self') = Self'.msg
    BY <1>1, <1>9, ViewLoop
  <2> QED
    BY <1>1, <1>2, <1>7, <1>8, <2>1 DEF SameView
<1>10. CASE ~(i + 1 < ScreenSize)
  <2>1. Self'.pc \in Setting /\ Self'.offset = LastRow
    BY <1>1, <1>10 DEF Setting
  <2>2. /\ OffsetIn(Self', crtc') = LastRow
        /\ PrintingIn(Self') /\ AtIn(Self', crtc') = Place(LastRow)
        /\ TextIn(Self') = Self'.msg
    BY <1>1, <2>1, ViewSetting
  <2> QED
    BY <1>1, <1>2, <1>7, <1>8, <2>2 DEF SameView
<1> QED
  BY <1>9, <1>10

\* What the loop of console_clear_screen has done, when nothing breaks in.
Cleared == ~preempted /\ At("clear") => \A o \in Cells : o < Self.i => vidmem[o] = SpaceCell

LEMMA SpaceOutUnseen ==
    ASSUME IInv, Exact, Cleared, ~preempted, SpaceOut
    PROVE  SameView /\ Cleared'
<1>1. /\ Self.pc = "clear" /\ Self.i \in Cells
      /\ Fits(Self) /\ Fits(Self') /\ Self'.op = "clear" /\ Self'.offset = 0
      /\ IF Self.i + 1 < ScreenSize
         THEN Self'.pc = "clear" /\ Self'.i = Self.i + 1
         ELSE Self'.pc = "select_high"
  BY SpaceOutIs
<1>2. /\ preempted' = preempted /\ DOMAIN vidmem = Address
      /\ vidmem' = [vidmem EXCEPT ![Self.i] = SpaceCell]
  BY DEF SpaceOut, NothingElse, IInv, TypeOK
<1>3. ScreenSize \in Nat /\ Cells = 0 .. ScreenSize - 1
  BY Geometry DEF Cells
<1> DEFINE i == Self.i
<1>4. i \in Cells
  BY <1>1
<1>5. \A a \in Cells : vidmem'[a] = IF a = i THEN SpaceCell ELSE vidmem[a]
  BY <1>2, <1>4, CellWritten
<1>6. \A o \in Cells : o < i => vidmem[o] = SpaceCell
  BY <1>1 DEF Cleared, At
<1>7. \A o \in Cells : o < i + 1 => vidmem'[o] = SpaceCell
  <2>1. \A o \in Cells : o < i + 1 => o < i \/ o = i
    BY <1>3, <1>4
  <2> QED
    BY <1>5, <1>6, <2>1
<1>8. \A o \in Cells : SettledIn(Self, vidmem, o) = SpaceCell
  BY <1>1 DEF SettledIn
<1>9. /\ OffsetIn(Self, crtc) = 0
      /\ ~PrintingIn(Self) /\ AtIn(Self, crtc) = Place(0) /\ TextIn(Self) = <<>>
  BY <1>1, ViewClear
<1>10. CASE i + 1 < ScreenSize
  <2>1. \A o \in Cells : SettledIn(Self', vidmem', o) = SpaceCell
    BY <1>1, <1>10 DEF SettledIn
  <2>2. ScreenIn(Self', vidmem') = ScreenIn(Self, vidmem)
    BY <1>8, <2>1, SameScreen
  <2>3. /\ OffsetIn(Self', crtc') = 0
        /\ ~PrintingIn(Self') /\ AtIn(Self', crtc') = Place(0) /\ TextIn(Self') = <<>>
    BY <1>1, <1>10, ViewClear
  <2>4. Cleared'
    BY <1>1, <1>7, <1>10 DEF Cleared
  <2> QED
    BY <1>2, <1>9, <2>2, <2>3, <2>4 DEF SameView
<1>11. CASE ~(i + 1 < ScreenSize)
  <2>1. Self'.pc = "select_high" /\ Self'.pc \in Setting
    BY <1>1, <1>11 DEF Setting
  <2>2. \A o \in Cells : o < i + 1
    BY <1>3, <1>4, <1>11
  <2>3. \A o \in Cells : SettledIn(Self', vidmem', o) = SpaceCell
    BY <1>7, <2>1, <2>2 DEF SettledIn
  <2>4. ScreenIn(Self', vidmem') = ScreenIn(Self, vidmem)
    BY <1>8, <2>3, SameScreen
  <2>5. /\ OffsetIn(Self', crtc') = 0
        /\ ~PrintingIn(Self') /\ AtIn(Self', crtc') = Place(0) /\ TextIn(Self') = <<>>
    BY <1>1, <2>1, ViewSetting
  <2>6. Cleared'
    BY <2>1 DEF Cleared, At
  <2> QED
    BY <1>2, <1>9, <2>4, <2>5, <2>6 DEF SameView
<1> QED
  BY <1>10, <1>11

\* Only two steps leave the running flow in the loop of console_clear_screen.
LEMMA NotClearing ==
    ASSUME IInv, Exact, ~preempted',
           Next, ~CallClear, ~SpaceOut, ~Spin
    PROVE  Self'.pc # "clear"
<1>1. Self \in Frame /\ Fits(Self) /\ Self.offset \in Int
  BY SelfFrame DEF Exact, Self, Frame
<1>2. ASSUME cpu' = cpu, NEW label \in Label, label # "clear", Goto(label)
      PROVE  Self'.pc # "clear"
  <2>1. Self' = [Self EXCEPT !.pc = label]
    BY <1>2, Becomes DEF Goto
  <2> QED
    BY <1>1, <1>2, <2>1, GotoIs
<1>3. CASE AskHigh \/ AskLow \/ SelectHigh \/ WriteHigh \/ SelectLow
  <2>1. PICK label \in {"read_high", "read_low", "write_high", "select_low", "write_low"} :
           Goto(label)
    BY <1>3 DEF AskHigh, AskLow, SelectHigh, WriteHigh, SelectLow
  <2>2. cpu' = cpu
    BY <1>3 DEF AskHigh, AskLow, SelectHigh, WriteHigh, SelectLow, NothingElse
  <2>3. label \in Label /\ label # "clear"
    BY DEF Label
  <2> QED
    BY <1>2, <2>1, <2>2, <2>3
<1>4. CASE ReadHigh
  <2> DEFINE x == crtc[crtc_index] * BYTE
  <2>1. cpu' = cpu /\ Become([Self EXCEPT !.pc = "ask_low", !.offset = x])
    BY <1>4 DEF ReadHigh, NothingElse
  <2> HIDE DEF x
  <2>2. Self' = [Self EXCEPT !.pc = "ask_low", !.offset = x]
    BY <2>1, Becomes
  <2> QED
    BY <1>1, <2>2 DEF Frame
<1>5. ASSUME cpu' = cpu, NEW f \in Frame, NEW o, Become(Continue(f, o))
      PROVE  Self'.pc # "clear"
  <2>1. Self' = Continue(f, o)
    BY <1>5, Becomes
  <2> QED
    BY <1>5, <2>1 DEF Continue, Frame
<1>6. CASE ReadLow
  BY <1>1, <1>5, <1>6 DEF ReadLow, NothingElse
<1>7. CASE Rejected
  <2> DEFINE rest == [Self EXCEPT !.msg = Tail(@)]
  <2>1. Tail(Self.msg) \in Seq(Char)
    BY <1>1, <1>7 DEF Rejected, Frame
  <2>2. rest \in Frame
    BY <1>1, <2>1 DEF Frame
  <2>3. cpu' = cpu /\ Become(Continue(rest, get_offset(Self.col, Self.row)))
    BY <1>7 DEF Rejected, NothingElse
  <2> HIDE DEF rest
  <2> QED
    BY <1>5, <2>2, <2>3
<1>8. Idle.pc = "call"
  BY DEF Idle
<1>9. CASE WriteLow
  <2>1. cpu' = cpu /\ (Become(Idle) \/ Become(Continue(Self, Self.offset)))
    BY <1>9 DEF WriteLow, NothingElse
  <2> QED
    BY <1>1, <1>5, <1>8, <2>1, Becomes
<1>10. CASE EndPrint
  <2>1. cpu' = cpu /\ Become(Idle)
    BY <1>10 DEF EndPrint, NothingElse
  <2> QED
    BY <1>8, <2>1, Becomes
<1>11. CASE Put
  <2>1. cpu' = cpu /\ Become(PutFrame) /\ PutFrame.pc # "clear"
    BY <1>11, PutFrameIs DEF Put, NothingElse
  <2> QED
    BY <2>1, Becomes
<1>12. CASE CopyCell \/ ZeroCell
  BY <1>12, CopyCellIs, ZeroCellIs
<1>13. CASE CallPrint
  <2>1. Head(calls[cpu]) \in Call /\ Head(calls[cpu]).op = "print"
    BY <1>13, CallsTail DEF CallPrint
  <2>2. cpu' = cpu /\ Become(BeginsWith(Head(calls[cpu])))
    BY <1>13 DEF CallPrint, BeginsWith, NothingElse
  <2>3. BeginsWith(Head(calls[cpu])).pc # "clear"
    BY <2>1, BeginsWithIs
  <2> QED
    BY <2>2, <2>3, Becomes
<1>14. CASE CallPrintChar
  BY <1>14 DEF CallPrintChar, NothingElse, At, Self
<1>15. CASE Interrupt
  <2>1. Self' = frame["irq"] /\ frame["irq"].pc = "call"
    BY <1>15 DEF Interrupt, Exact, Self
  <2> QED
    BY <2>1
<1>16. CASE Iret
  <2>1. Self' = frame["main"] /\ frame["main"].pc \in Harmless
    BY <1>16 DEF Iret, Exact, Self
  <2> QED
    BY <2>1 DEF Harmless
<1> QED
  BY <1>3, <1>4, <1>6, <1>7, <1>9, <1>10, <1>11, <1>12, <1>13, <1>14, <1>15, <1>16
  DEF Next, Step

\* A print that was broken into stays so.
LEMMA StaysPreempted == IInv /\ [Next]_vars /\ ~preempted' => ~preempted
  BY DEF Next, Step, vars, CallPrint, CallClear, CallPrintChar, AskHigh, ReadHigh, AskLow,
         ReadLow, Rejected, Put, CopyCell, ZeroCell, SpaceOut, SelectHigh, WriteHigh,
         SelectLow, WriteLow, EndPrint, Iret, Interrupt, Spin, NothingElse, IInv, TypeOK

LEMMA ClearedNext == IInv /\ Exact /\ Cleared /\ [Next]_vars => Cleared'
<1> SUFFICES ASSUME IInv, Exact, Cleared, [Next]_vars, ~preempted' PROVE Cleared'
  BY DEF Cleared
<1>1. ~preempted
  BY StaysPreempted
<1>2. CASE UNCHANGED vars \/ Spin
  BY <1>2 DEF Cleared, vars, Spin, At, Self
<1>3. CASE CallClear
  <2>1. Self' = [Idle EXCEPT !.pc = "clear", !.op = "clear"]
    BY <1>3, Becomes DEF CallClear, NothingElse
  <2>2. Self'.i = 0
    BY <2>1 DEF Idle
  <2>3. \A o \in Cells : ~(o < 0)
    BY Geometry DEF Cells
  <2> QED
    BY <2>2, <2>3 DEF Cleared
<1>4. CASE SpaceOut
  BY <1>1, <1>4, SpaceOutUnseen
<1>5. CASE Next /\ ~CallClear /\ ~SpaceOut /\ ~Spin
  BY <1>5, NotClearing DEF Cleared, At
<1> QED
  BY <1>2, <1>3, <1>4, <1>5

-----------------------------------------------------------------------------
(* The console implements the terminal.                                    *)

\* A cell has its place on the screen.
LEMMA PlaceOnScreen ==
    ASSUME NEW offset \in Cells
    PROVE  T!OnScreen(Place(offset))
<1> DEFINE q == offset \div MAX_COLS
           r == offset % MAX_COLS
<1>1. /\ MAX_COLS \in Nat \ {0} /\ MAX_ROWS \in Nat
      /\ offset \in Nat /\ offset < MAX_COLS * MAX_ROWS
  <2>1. MAX_COLS \in Nat \ {0} /\ MAX_ROWS \in Nat
    BY VgaTextAssumption
  <2>2. ScreenSize = MAX_COLS * MAX_ROWS
    BY <2>1 DEF ScreenSize
  <2> QED
    BY <2>1, <2>2, Geometry DEF Cells
<1>2. q \in 0 .. MAX_ROWS - 1
  BY <1>1, QuotientBelow
<1>3. r \in 0 .. MAX_COLS - 1 /\ offset = MAX_COLS * q + r
  BY <1>1, Split
<1> HIDE DEF q, r
<1>4. offset = get_offset(r, q)
  BY <1>1, <1>2, <1>3 DEF get_offset
<1>5. get_offset_row(offset) = q /\ get_offset_col(offset) = r
  BY <1>2, <1>3, <1>4, PlaceOf
<1> QED
  BY <1>1, <1>2, <1>3, <1>5 DEF T!OnScreen, Place

\* The BIOS leaves the cursor on the screen.
LEMMA InitTerminal == Init => T!Init
<1> SUFFICES ASSUME Init PROVE T!Init
  OBVIOUS
<1>1. PICK offset \in Cells :
        crtc = [r \in {HIGH, LOW} |-> IF r = HIGH THEN HighByte(offset)
                                                  ELSE LowByte(offset)]
  BY DEF Init
<1>2. BYTE \in Nat \ {0} /\ offset \in Nat /\ offset < BYTE * BYTE
  <2> DEFINE b2 == BYTE * BYTE
  <2>1. BYTE \in Nat \ {0} /\ b2 \in Nat /\ ScreenSize \in Nat /\ ScreenSize <= b2
    BY Geometry
  <2> HIDE DEF b2
  <2>2. offset \in Nat /\ offset < b2
    BY <2>1 DEF Cells
  <2> QED
    BY <2>1, <2>2 DEF b2
<1>3. CursorIn(crtc) = offset
  <2>1. /\ HighByte(offset) = offset \div BYTE /\ offset \div BYTE \in Nat
        /\ LowByte(offset) \in Nat /\ offset = BYTE * (offset \div BYTE) + LowByte(offset)
    BY <1>2, LeadingAndLast DEF HighByte, LowByte
  <2>2. (offset \div BYTE) * BYTE = BYTE * (offset \div BYTE)
    BY <1>2, <2>1
  <2>3. crtc[HIGH] = HighByte(offset) /\ crtc[LOW] = LowByte(offset)
    BY <1>1 DEF HIGH, LOW
  <2> QED
    BY <2>1, <2>2, <2>3 DEF CursorIn
<1>4. Self = Idle /\ Idle.pc = "call"
  BY DEF Init, Self, Idle, Flow
<1>5. /\ OffsetIn(Self, crtc) = offset /\ ~PrintingIn(Self)
      /\ AtIn(Self, crtc) = Place(offset) /\ TextIn(Self) = <<>>
  BY <1>3, <1>4, ViewIdle
<1>6. T!OnScreen(Place(SettledOffset))
  BY <1>5, Views, PlaceOnScreen
<1> QED
  BY <1>5, <1>6, Views, AtIsAtIn DEF T!Init, Init

\* Until a print is broken into, every step of the console is a step of the
\* terminal or is not seen by it.
LEMMA StepTerminal ==
    ASSUME IInv, Exact, Exact', Cleared, [Next]_vars
    PROVE  [T!Next \/ preempted']_T!vars
<1> SUFFICES ASSUME ~preempted' PROVE T!Next \/ SameView
  BY Stutters
<1>1. ~preempted
  BY StaysPreempted
<1>2. CASE UNCHANGED vars \/ Spin
  BY <1>2 DEF vars, Spin, SameView, Self
<1>3. CASE CallPrint
  BY <1>3, CallPrintBegins DEF T!Next
<1>4. CASE CallClear
  BY <1>4, CallClears DEF T!Next
<1>5. CASE CallPrintChar
  BY <1>5, CallPrintsCorner DEF T!Next
<1>6. CASE AskHigh \/ ReadHigh \/ AskLow
  BY <1>6, ReadsUnseen
<1>7. CASE ReadLow
  BY <1>1, <1>7, ReadLowBegins DEF T!Next
<1>8. CASE Rejected
  BY <1>8, RejectedRejects DEF T!Next
<1>9. CASE Put
  BY <1>9, PutPuts DEF T!Next
<1>10. CASE CopyCell
  BY <1>10, CopyCellUnseen
<1>11. CASE ZeroCell
  BY <1>11, ZeroCellUnseen
<1>12. CASE SpaceOut
  BY <1>1, <1>12, SpaceOutUnseen
<1>13. CASE SelectHigh \/ WriteHigh \/ SelectLow
  BY <1>13, WritesUnseen
<1>14. CASE WriteLow
  BY <1>1, <1>14, WriteLowUnseen
<1>15. CASE EndPrint
  BY <1>15, EndPrintEnds DEF T!Next
<1>16. CASE Interrupt \/ Iret
  BY <1>16, InterruptsUnseen
<1> QED
  BY <1>2, <1>3, <1>4, <1>5, <1>6, <1>7, <1>8, <1>9, <1>10, <1>11, <1>12, <1>13, <1>14,
     <1>15, <1>16 DEF Next, Step

\* A screen cleared cell by cell is clear when the loop ends, unless something
\* has broken into it (console.cpp 154-164).
THEOREM ClearedInvariance == Spec => []Cleared
<1>1. Init => Cleared
  BY DEF Init, Cleared, At, Self, Idle, Flow
<1>2. IInv /\ Exact /\ Cleared /\ [Next]_vars => Cleared'
  BY ClearedNext
<1> QED
  BY <1>1, <1>2, Invariance, ExactInvariance, PTL DEF Spec

\* For every size of the screen, every script and every handler: characters
\* appear one after the other from where a print starts, rows wrap, the screen
\* scrolls by whole rows and the cursor ends behind the last character
\* (console.cpp 34-169), up to the first interrupt that breaks into a print of
\* the main flow.
THEOREM TerminalImplemented == Spec => ImplementsTerminal
<1>1. Init => T!Init
  BY InitTerminal
<1>2. IInv /\ Exact /\ Exact' /\ Cleared /\ [Next]_vars
        => [T!Next \/ preempted']_T!vars
  BY StepTerminal
<1> QED
  BY <1>1, <1>2, Invariance, ExactInvariance, ClearedInvariance, PTL
  DEF Spec, T!Spec, ImplementsTerminal

=============================================================================
