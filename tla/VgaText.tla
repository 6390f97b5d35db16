------------------------------ MODULE VgaText ------------------------------
(***************************************************************************)
(* The geometry of the VGA text screen as console.cpp computes it.         *)
(*                                                                         *)
(* The source counts offsets in bytes, two to a character cell (the        *)
(* character and its attribute).  Every offset it computes is even, so     *)
(* offsets are counted in cells here: the source's "offset" is twice ours. *)
(***************************************************************************)
EXTENDS Integers

CONSTANTS
    MAX_COLS,   \* columns of the screen (80)
    MAX_ROWS,   \* rows of the screen (25)
    TAB_CELLS,  \* cells between tab stops (8: sixteen bytes)
    BYTE        \* values of one byte, hence of one cursor register (256)

ASSUME VgaTextAssumption ==
    /\ MAX_COLS \in Nat \ {0}
    /\ MAX_ROWS \in Nat \ {0, 1}
    /\ TAB_CELLS \in Nat \ {0}
    /\ BYTE \in Nat \ {0}
    /\ MAX_COLS % TAB_CELLS = 0                \* 80 is a multiple of 8
    /\ MAX_ROWS * MAX_COLS <= BYTE * BYTE      \* 2000 cells, 16 bits

ScreenSize == MAX_ROWS * MAX_COLS

\* The cells the screen shows, and the cells a 16-bit offset could name.
Cells   == 0 .. ScreenSize - 1
Address == 0 .. BYTE * BYTE - 1

LastCell == ScreenSize - 1
LastRow  == (MAX_ROWS - 1) * MAX_COLS

get_offset(col, row)    == row * MAX_COLS + col
get_offset_row(offset)  == offset \div MAX_COLS
get_offset_col(offset)  == offset - get_offset_row(offset) * MAX_COLS

\* Mutant: the row is not tested.
OffScreenColumnOnly(col, row) == col >= MAX_COLS

\* The only test print_char makes of the coordinates it is given.
OffScreen(col, row) == col >= MAX_COLS \/ row >= MAX_ROWS

\* Mutant: the low byte is not cut off.
LowByteWhole(offset) == offset

\* (unsigned char)(offset >> 8) and (unsigned char)(offset & 0xff).
HighByte(offset) == (offset \div BYTE) % BYTE
LowByte(offset)  == offset % BYTE
=============================================================================
