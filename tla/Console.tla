------------------------------ MODULE Console ------------------------------
(***************************************************************************)
(* The text console of the archived kernel (console.cpp), on the hardware  *)
(* it drives: the video memory at 0xb8000 and the two cursor registers of  *)
(* the CRT controller, reached through an index port and a data port.      *)
(*                                                                         *)
(* The kernel's main flow prints with interrupts enabled, and the          *)
(* interrupt handlers print too, with the same functions and without a     *)
(* lock.  One step here is one access to the hardware; an interrupt may    *)
(* arrive between any two of them while the main flow runs.  The gates are *)
(* interrupt gates, so a handler runs to its iretq undisturbed.            *)
(***************************************************************************)
EXTENDS VgaText, Sequences

CONSTANTS
    Glyph,          \* printable characters
    NL, TAB,        \* '\n' and '\t'
    Requested,      \* the positions that calls of console_kprint_at give
    MainScript,     \* the calls kernel_c_entry makes, in order
    Handlers,       \* for each kind of interrupt, the calls its handler makes
    MaxInterrupts   \* bound on the interrupts of a behaviour

ASSUME ConsoleAssumption ==
    /\ NL # TAB /\ NL \notin Glyph /\ TAB \notin Glyph
    /\ MaxInterrupts \in Nat

Char == Glyph \union {NL, TAB}

\* A cell is a character and its attribute.
PutCell(c) == [ch |-> c,     attr |-> "white_on_black"]
ErrorCell  == [ch |-> "E",   attr |-> "red_on_white"]
BlankCell  == [ch |-> "nul", attr |-> "nul"]
SpaceCell  == [ch |-> "sp",  attr |-> "white_on_black"]
BootCell   == [ch |-> "sp",  attr |-> "boot"]    \* kernel.asm fills with 0x1F20

Cell == [ch   : Glyph \union {"E", "nul", "sp"},
         attr : {"white_on_black", "red_on_white", "nul", "boot"}]

\* The calls of console.h.  A negative column or row of a print stands for
\* "at the cursor".
PrintAt(msg, col, row) == [op |-> "print",     msg |-> msg,  col |-> col, row |-> row]
ClearScreen          == [op |-> "clear",     msg |-> <<>>, col |-> -1,  row |-> -1]
PrintChar(c)         == [op |-> "printchar", msg |-> <<c>>, col |-> -1, row |-> -1]

Call == {call \in [op : {"print", "clear"}, msg : Seq(Char), col : Int, row : Int] :
            call.col >= 0 /\ call.row >= 0 => [col |-> call.col, row |-> call.row] \in Requested}
          \union {PrintChar(c) : c \in Glyph}

ASSUME ScriptAssumption ==
    MainScript \in Seq(Call) /\ Handlers \subseteq Seq(Call)

VARIABLES
    vidmem,      \* the memory from 0xb8000 on, as far as 16 bits reach
    crtc_index,  \* the register port 0x3d4 selects
    crtc,        \* the cursor registers behind port 0x3d5
    cpu,         \* which flow runs: "main" or "irq"
    calls,       \* the console calls each flow still has to make
    frame,       \* the locals of the call each flow is in
    fired,       \* interrupts so far
    preempted    \* history: an interrupt broke into a print of the main flow

vars == <<vidmem, crtc_index, crtc, cpu, calls, frame, fired, preempted>>
hardware == <<vidmem, crtc_index, crtc>>

Flow == {"main", "irq"}
HIGH == 14
LOW  == 15
Cursor == crtc[HIGH] * BYTE + crtc[LOW]

Label == {"call", "ask_high", "read_high", "ask_low", "read_low", "print_char",
          "copy", "blank", "clear",
          "select_high", "write_high", "select_low", "write_low"}

Idle == [pc |-> "call", op |-> "print", msg |-> <<>>, col |-> 0, row |-> 0,
         offset |-> 0, i |-> 0]

Init == /\ vidmem = [a \in Address |-> BootCell]
        /\ crtc_index \in {HIGH, LOW}                \* where the BIOS left them
        /\ \E offset \in Cells :
              crtc = [r \in {HIGH, LOW} |-> IF r = HIGH THEN HighByte(offset)
                                                         ELSE LowByte(offset)]
        /\ cpu = "main"
        /\ calls = [flow \in Flow |-> IF flow = "main" THEN MainScript ELSE <<>>]
        /\ frame = [flow \in Flow |-> Idle]
        /\ fired = 0
        /\ preempted = FALSE
-----------------------------------------------------------------------------
(* One flow runs at a time; only its frame moves.                          *)

Self == frame[cpu]
At(label) == Self.pc = label
Become(f) == frame' = [frame EXCEPT ![cpu] = f]
Goto(label) == Become([Self EXCEPT !.pc = label])

\* port_byte_out(0x3d4, r) and port_byte_out(0x3d5, b).
Select(r) == crtc_index' = r /\ UNCHANGED <<vidmem, crtc>>
Data(b)   == /\ crtc' = [crtc EXCEPT ![crtc_index] = b]
             /\ UNCHANGED <<vidmem, crtc_index>>

NothingElse == UNCHANGED <<cpu, fired, preempted>>

\* console_kprint_at: at a given position, or where the cursor is.
CallPrint ==
    /\ At("call") /\ calls[cpu] # <<>>
    /\ LET call == Head(calls[cpu])
           given == call.col >= 0 /\ call.row >= 0
       IN  /\ call.op = "print"
           /\ Become([Idle EXCEPT !.pc  = IF given THEN "print_char" ELSE "ask_high",
                                  !.msg = call.msg,
                                  !.col = IF given THEN call.col ELSE 0,
                                  !.row = IF given THEN call.row ELSE 0])
    /\ calls' = [calls EXCEPT ![cpu] = Tail(@)]
    /\ UNCHANGED hardware /\ NothingElse

\* console_clear_screen.
CallClear ==
    /\ At("call") /\ calls[cpu] # <<>>
    /\ Head(calls[cpu]).op = "clear"
    /\ Become([Idle EXCEPT !.pc = "clear", !.op = "clear"])
    /\ calls' = [calls EXCEPT ![cpu] = Tail(@)]
    /\ UNCHANGED hardware /\ NothingElse

\* console_printchar: next_free_character is a local, so it is always the
\* character of the first cell that is written, and never its attribute.
CallPrintChar ==
    /\ At("call") /\ calls[cpu] # <<>>
    /\ LET call == Head(calls[cpu])
       IN  /\ call.op = "printchar"
           /\ vidmem' = [vidmem EXCEPT ![0].ch = Head(call.msg)]
    /\ calls' = [calls EXCEPT ![cpu] = Tail(@)]
    /\ UNCHANGED <<crtc_index, crtc, frame>> /\ NothingElse

\* get_cursor_offset: two selects and two reads, the high byte first.
AskHigh == /\ At("ask_high")
           /\ Select(HIGH)
           /\ Goto("read_high")
           /\ UNCHANGED calls /\ NothingElse

ReadHigh == /\ At("read_high")
            /\ Become([Self EXCEPT !.pc = "ask_low",
                                   !.offset = crtc[crtc_index] * BYTE])
            /\ UNCHANGED <<hardware, calls>> /\ NothingElse

AskLow == /\ At("ask_low")
          /\ Select(LOW)
          /\ Goto("read_low")
          /\ UNCHANGED calls /\ NothingElse

\* The loop of console_kprint_at continues at the position of an offset.
Continue(f, offset) == [f EXCEPT !.pc  = "print_char",
                                 !.col = get_offset_col(offset),
                                 !.row = get_offset_row(offset),
                                 !.offset = 0]

ReadLow == /\ At("read_low")
           /\ Become(Continue(Self, Self.offset + crtc[crtc_index]))
           /\ UNCHANGED <<hardware, calls>> /\ NothingElse
-----------------------------------------------------------------------------
(* print_char, for the next character of the message.                      *)

\* Mutant: a tab on a tab stop stays where it is.
TabRoundsUp(offset, c) ==
    CASE c = NL  -> get_offset(0, get_offset_row(offset) + 1)
      [] c = TAB -> ((offset + TAB_CELLS - 1) \div TAB_CELLS) * TAB_CELLS
      [] OTHER   -> offset + 1

\* Where the character after c goes, before the screen is scrolled.
NextOffset(offset, c) ==
    CASE c = NL  -> get_offset(0, get_offset_row(offset) + 1)
      [] c = TAB -> (offset \div TAB_CELLS + 1) * TAB_CELLS
      [] OTHER   -> offset + 1

\* Mutant: the early return is taken before the character is consumed.
RejectedForever ==
    /\ At("print_char") /\ Self.msg # <<>>
    /\ OffScreen(Self.col, Self.row)
    /\ vidmem' = [vidmem EXCEPT ![LastCell] = ErrorCell]
    /\ Become(Continue(Self, get_offset(Self.col, Self.row)))
    /\ UNCHANGED <<crtc_index, crtc, calls>> /\ NothingElse

Rejected ==
    /\ At("print_char") /\ Self.msg # <<>>
    /\ OffScreen(Self.col, Self.row)
    /\ vidmem' = [vidmem EXCEPT ![LastCell] = ErrorCell]
    /\ Become(Continue([Self EXCEPT !.msg = Tail(@)],
                       get_offset(Self.col, Self.row)))
    /\ UNCHANGED <<crtc_index, crtc, calls>> /\ NothingElse

\* The two bytes of the cell, which nothing reads between their writes, at once.
Put ==
    /\ At("print_char") /\ Self.msg # <<>>
    /\ ~OffScreen(Self.col, Self.row)
    /\ LET here == get_offset(Self.col, Self.row)
           c    == Head(Self.msg)
           next == NextOffset(here, c)
           full == next >= ScreenSize
       IN  /\ vidmem' = IF c \in Glyph
                        THEN [vidmem EXCEPT ![here] = PutCell(c)] ELSE vidmem
           /\ Become([Self EXCEPT !.pc = IF full THEN "copy" ELSE "select_high",
                                  !.msg = Tail(@),
                                  !.offset = next,
                                  !.i = IF full THEN MAX_COLS ELSE 0])
    /\ UNCHANGED <<crtc_index, crtc, calls>> /\ NothingElse

\* Mutant: the row counter is reset inside the loop.
CopyCellAgain ==
    /\ At("copy")
    /\ vidmem' = [vidmem EXCEPT ![Self.i - MAX_COLS] = vidmem[Self.i]]
    /\ Become([Self EXCEPT !.i = MAX_COLS])
    /\ UNCHANGED <<crtc_index, crtc, calls>> /\ NothingElse

\* Scrolling: every row but the first is copied one row up, cell by cell ...
CopyCell ==
    /\ At("copy")
    /\ vidmem' = [vidmem EXCEPT ![Self.i - MAX_COLS] = vidmem[Self.i]]
    /\ IF Self.i + 1 < ScreenSize
       THEN Become([Self EXCEPT !.i = @ + 1])
       ELSE Become([Self EXCEPT !.pc = "blank", !.i = LastRow])
    /\ UNCHANGED <<crtc_index, crtc, calls>> /\ NothingElse

\* ... and the last row is zeroed.
ZeroCell ==
    /\ At("blank")
    /\ vidmem' = [vidmem EXCEPT ![Self.i] = BlankCell]
    /\ IF Self.i + 1 < ScreenSize
       THEN Become([Self EXCEPT !.i = @ + 1])
       ELSE Become([Self EXCEPT !.pc = "select_high", !.i = 0,
                                !.offset = @ - MAX_COLS])
    /\ UNCHANGED <<crtc_index, crtc, calls>> /\ NothingElse

\* The loop of console_clear_screen.
SpaceOut ==
    /\ At("clear")
    /\ vidmem' = [vidmem EXCEPT ![Self.i] = SpaceCell]
    /\ IF Self.i + 1 < ScreenSize
       THEN Become([Self EXCEPT !.i = @ + 1])
       ELSE Become([Self EXCEPT !.pc = "select_high", !.i = 0])
    /\ UNCHANGED <<crtc_index, crtc, calls>> /\ NothingElse

\* set_cursor_offset: two selects and two writes.
SelectHigh == /\ At("select_high")
              /\ Select(HIGH)
              /\ Goto("write_high")
              /\ UNCHANGED calls /\ NothingElse

WriteHigh == /\ At("write_high")
             /\ Data(HighByte(Self.offset))
             /\ Goto("select_low")
             /\ UNCHANGED calls /\ NothingElse

\* Mutant: the second select is forgotten.
SelectLowForgotten == /\ At("select_low")
                      /\ Goto("write_low")
                      /\ UNCHANGED <<hardware, calls>> /\ NothingElse

SelectLow == /\ At("select_low")
             /\ Select(LOW)
             /\ Goto("write_low")
             /\ UNCHANGED calls /\ NothingElse

WriteLow == /\ At("write_low")
            /\ Data(LowByte(Self.offset))
            /\ Become(IF Self.op = "clear" THEN Idle
                      ELSE Continue(Self, Self.offset))
            /\ UNCHANGED calls /\ NothingElse

\* The message is printed and the call returns.
EndPrint == /\ At("print_char") /\ Self.msg = <<>>
            /\ Become(Idle)
            /\ UNCHANGED <<hardware, calls>> /\ NothingElse
-----------------------------------------------------------------------------
(* Interrupts.                                                             *)

\* Where the main flow may be interrupted without harm to what it prints:
\* it has read nothing yet that the handler changes.
Harmless == {"call", "ask_high"}

Interrupt ==
    /\ cpu = "main"
    /\ fired < MaxInterrupts
    /\ \E script \in Handlers : calls' = [calls EXCEPT !["irq"] = script]
    /\ cpu' = "irq"
    /\ fired' = fired + 1
    /\ preempted' = (preempted \/ frame["main"].pc \notin Harmless)
    /\ UNCHANGED <<hardware, frame>>

Iret == /\ cpu = "irq"
        /\ At("call") /\ calls["irq"] = <<>>
        /\ cpu' = "main"
        /\ UNCHANGED <<hardware, calls, frame, fired, preempted>>

\* while(true);
Spin == /\ cpu = "main"
        /\ At("call") /\ calls["main"] = <<>>
        /\ UNCHANGED vars

Step == \/ CallPrint \/ CallClear \/ CallPrintChar
        \/ AskHigh \/ ReadHigh \/ AskLow \/ ReadLow
        \/ Rejected \/ Put \/ CopyCell \/ ZeroCell \/ SpaceOut
        \/ SelectHigh \/ WriteHigh \/ SelectLow \/ WriteLow
        \/ EndPrint
        \/ Iret

Next == Step \/ Interrupt \/ Spin

Spec == Init /\ [][Next]_vars

\* The processor executes instructions; nothing makes an interrupt arrive.
FairSpec == Spec /\ WF_vars(Step)
-----------------------------------------------------------------------------
(* Properties.                                                             *)

\* Types of the variables.  The offset of a frame may reach ScreenSize, one
\* past the last cell, between the put that fills the screen and the scroll.
Frame == [pc : Label, op : {"print", "clear"}, msg : Seq(Char),
          col : Int, row : Int, offset : Int, i : Int]

TypeOK == /\ vidmem \in [Address -> Cell]
          /\ crtc_index \in {HIGH, LOW}
          /\ crtc \in [{HIGH, LOW} -> 0 .. BYTE - 1]
          /\ cpu \in Flow
          /\ calls \in [Flow -> Seq(Call)]
          /\ frame \in [Flow -> Frame]
          /\ fired \in 0 .. MaxInterrupts
          /\ preempted \in BOOLEAN

InBounds(f) ==
    /\ f.offset >= IF f.pc \in {"copy", "blank"} THEN ScreenSize ELSE 0
    /\ f.pc = "print_char" => f.col >= 0 /\ f.row >= 0
    /\ f.pc = "copy"  => f.i \in MAX_COLS .. ScreenSize - 1
    /\ f.pc = "blank" => f.i \in LastRow .. ScreenSize - 1
    /\ f.pc = "clear" => f.i \in Cells

\* The loops of print_char and console_clear_screen stay on the screen, and
\* what a frame has computed so far is a place print_char can handle, also
\* when the cursor it read was torn (console.cpp 86-164).
FramesInBounds == \A flow \in Flow : InBounds(frame[flow])

\* Whatever an interrupt does to a print it breaks into, neither of the two
\* ever writes video memory beyond the screen: a cursor torn by the handler
\* (console.cpp 131-152) is caught by print_char's test of the coordinates
\* (91-95), and the scroll loops (113-125) stay inside.
BeyondScreenUntouched ==
    \A a \in Address \ Cells : vidmem[a] = BootCell

\* A handler cannot be interrupted between the four port accesses of
\* set_cursor_offset (145-152): when it has made the last one, the cursor is
\* where it put it, whatever register the main flow had selected.
HandlerCursorExact ==
    [][(cpu = "irq" /\ WriteLow) => Cursor' = Self.offset]_vars

\* "Sets the video cursor to the returned offset" (console.cpp:84), for the
\* main flow, which may be interrupted between those accesses.
CursorFollowsOffset ==
    [][(cpu = "main" /\ WriteLow) => Cursor' = Self.offset]_vars

\* A handler that prints comes to its iretq.
HandlerReturns == (cpu = "irq") ~> (cpu = "main")

\* kernel_c_entry prints everything it has to print and reaches its last
\* loop, however its prints and the handlers' are interleaved.
MainFinishes ==
    <>(calls["main"] = <<>> /\ frame["main"] = Idle)
=============================================================================
