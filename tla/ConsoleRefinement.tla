------------------------- MODULE ConsoleRefinement --------------------------
(***************************************************************************)
(* The console implements the Terminal up to the first interrupt that      *)
(* breaks into a print of the main flow.                                   *)
(*                                                                         *)
(* A character is one step of the Terminal and many of the console: the    *)
(* cell is written, the screen scrolled cell by cell, the cursor set byte  *)
(* by byte.  The step of the Terminal is the one that writes the cell      *)
(* (Put); from then on the mapping shows the screen and the cursor as they *)
(* will be when the steps that are in flight are done.                     *)
(***************************************************************************)
EXTENDS Console

scrolling == At("copy") \/ At("blank")
setting == Self.pc \in {"select_high", "write_high", "select_low", "write_low"}

\* The cell at an offset once the current loop has ended.
Settled(offset) ==
    CASE At("copy") -> IF offset >= LastRow THEN BlankCell
                       ELSE IF offset < Self.i - MAX_COLS THEN vidmem[offset]
                       ELSE vidmem[offset + MAX_COLS]
      [] At("blank") -> IF offset >= Self.i THEN BlankCell ELSE vidmem[offset]
      [] At("clear") -> SpaceCell
      [] OTHER       -> vidmem[offset]

SettledScreen ==
    [r \in 0 .. MAX_ROWS - 1 |->
        [k \in 0 .. MAX_COLS - 1 |-> Settled(get_offset(k, r))]]

SettledOffset == CASE scrolling   -> Self.offset - MAX_COLS
                   [] At("clear") -> 0
                   [] setting     -> Self.offset
                   [] OTHER       -> Cursor

Place(offset) == [col |-> get_offset_col(offset), row |-> get_offset_row(offset)]

\* A print that starts at the cursor begins when it has read the cursor.
Printing == /\ Self.op = "print"
            /\ At("print_char") \/ scrolling \/ setting

T == INSTANCE Terminal WITH
        screen   <- SettledScreen,
        cursor   <- Place(SettledOffset),
        printing <- Printing,
        at       <- IF Printing /\ At("print_char")
                    THEN [col |-> Self.col, row |-> Self.row]
                    ELSE Place(SettledOffset),
        text     <- IF Printing THEN Self.msg ELSE <<>>

\* The characters of a print appear one after the other from where it
\* starts, rows wrap, the screen scrolls by whole rows, and the cursor ends
\* behind the last character (console.cpp 34-169), through all the partial
\* states of the loops and of the cursor registers, with handlers printing
\* between the prints of the main flow.
ImplementsTerminal == T!Spec
=============================================================================
