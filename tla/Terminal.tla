----------------------------- MODULE Terminal ------------------------------
(***************************************************************************)
(* What the console promises its callers: a text terminal of MAX_ROWS rows *)
(* of MAX_COLS cells with one cursor.  A print starts at the cursor or at  *)
(* a given position, puts its characters one after the other, wraps at the *)
(* end of a row, scrolls by one row at the end of the last one, and leaves *)
(* the cursor behind its last character.                                   *)
(*                                                                         *)
(* There are no offsets, no ports and no loops here; a put is one step.    *)
(* The promise is made to one printer at a time: once a second one has     *)
(* broken into a print ("preempted") nothing more is promised.             *)
(***************************************************************************)
EXTENDS Integers, Sequences

CONSTANTS MAX_COLS, MAX_ROWS, TAB_CELLS, Glyph, NL, TAB,
          Requested,      \* the positions that prints are asked for at
          PutCell(_),     \* the cell that shows a glyph
          BlankCell,      \* a cell of a row scrolled in
          SpaceCell,      \* a cell of a cleared screen
          ErrorCell       \* the mark left by a character that has no place

VARIABLES screen,     \* [row -> [column -> cell]]
          cursor,     \* [col, row], always on the screen
          printing,   \* a print is under way
          at,         \* where the next character goes
          text,       \* what is left to print
          preempted   \* a print was broken into

vars == <<screen, cursor, printing, at, text, preempted>>

Rows == 0 .. MAX_ROWS - 1
Cols == 0 .. MAX_COLS - 1
OnScreen(p) == p.col < MAX_COLS /\ p.row < MAX_ROWS
Origin == [col |-> 0, row |-> 0]

Init == /\ OnScreen(cursor)
        /\ ~printing /\ ~preempted
        /\ at = cursor
        /\ text = <<>>

\* A print starts at the cursor, wherever that is, or where it is asked for.
Begin == /\ ~printing
         /\ printing' = TRUE
         /\ at' = cursor \/ at' \in Requested
         /\ text' \in Seq(Glyph \union {NL, TAB})
         /\ UNCHANGED <<screen, cursor, preempted>>

\* Where the character after c goes, the row below the last one included.
NextRow(p) == [col |-> 0, row |-> p.row + 1]
Advance(p, c) ==
    LET col == CASE c = TAB -> (p.col + TAB_CELLS) - (p.col % TAB_CELLS)
                 [] c = NL  -> MAX_COLS
                 [] OTHER   -> p.col + 1
    IN  IF col < MAX_COLS THEN [p EXCEPT !.col = col] ELSE NextRow(p)

Write(p, c) == IF c \in Glyph
               THEN [screen EXCEPT ![p.row][p.col] = PutCell(c)]
               ELSE screen

Scrolled(s) == [r \in Rows |-> IF r + 1 \in Rows THEN s[r + 1]
                                ELSE [k \in Cols |-> BlankCell]]

Put == /\ printing /\ text # <<>>
       /\ OnScreen(at)
       /\ LET next == Advance(at, Head(text)) IN
             IF next.row < MAX_ROWS
             THEN screen' = Write(at, Head(text)) /\ at' = next
             ELSE /\ screen' = Scrolled(Write(at, Head(text)))
                  /\ at' = [next EXCEPT !.row = MAX_ROWS - 1]
       /\ cursor' = at'
       /\ text' = Tail(text)
       /\ UNCHANGED <<printing, preempted>>

\* A character aimed off the screen marks the last cell instead.  The cursor
\* stays, and a column beyond the right edge runs over into the next rows.
Reject == /\ printing /\ text # <<>>
          /\ ~OnScreen(at)
          /\ screen' = [screen EXCEPT ![MAX_ROWS - 1][MAX_COLS - 1] = ErrorCell]
          /\ at' = [col |-> at.col % MAX_COLS,
                    row |-> at.row + (at.col \div MAX_COLS)]
          /\ text' = Tail(text)
          /\ UNCHANGED <<cursor, printing, preempted>>

End == /\ printing /\ text = <<>>
       /\ printing' = FALSE
       /\ at' = cursor
       /\ UNCHANGED <<screen, cursor, text, preempted>>

Clear == /\ ~printing
         /\ screen' = [r \in Rows |-> [k \in Cols |-> SpaceCell]]
         /\ cursor' = Origin
         /\ at' = Origin
         /\ UNCHANGED <<printing, text, preempted>>

\* The character of the top left cell is replaced, its attribute is not.
Corner == /\ ~printing
          /\ \E c \in Glyph :
                screen' = [screen EXCEPT ![0][0].ch = c]
          /\ UNCHANGED <<cursor, printing, at, text, preempted>>

Next == Begin \/ Put \/ Reject \/ End \/ Clear \/ Corner

Spec == Init /\ [][Next \/ preempted']_vars
=============================================================================
