----------------------------- MODULE MCConsole -----------------------------
(***************************************************************************)
(* Small instances of the console: a screen of two rows of four columns    *)
(* with a tab stop at every second, and bytes of four values: the cursor   *)
(* registers can name sixteen addresses, of which only the first eight are *)
(* on the screen.                                                          *)
(***************************************************************************)
EXTENDS ConsoleRefinement

MCGlyph == {"a", "b"}

AtCursor(msg) == PrintAt(msg, -1, -1)

\* The edges of the interface (positions off the screen, tabs, an empty
\* message, a half negative position), then the shape of kernel_c_entry:
\* a print at a given position, and prints at the cursor that make the screen
\* scroll.  Last the two calls nobody makes yet.
WholeScript ==
    <<PrintAt(<<"a", "b">>, MAX_COLS, 0), PrintAt(<<"b">>, 0, MAX_ROWS),
      PrintAt(<<"tab", "a">>, MAX_COLS - 1, MAX_ROWS - 1),
      PrintAt(<<"tab", "b">>, 0, 0), AtCursor(<<>>),
      PrintAt(<<"a", "tab">>, 1, -1),
      PrintAt(<<"a">>, 0, 1), AtCursor(<<"nl", "b">>),
      PrintChar("b"), ClearScreen, AtCursor(<<"a", "b">>)>>

MCRequested == {[col |-> MAX_COLS, row |-> 0], [col |-> MAX_COLS - 1, row |-> MAX_ROWS - 1]}
                 \union {[col |-> 0, row |-> r] : r \in 0 .. MAX_ROWS}

\* interupt_request_line_handler prints a text, a number and a newline.
Keyboard == <<AtCursor(<<"a">>), AtCursor(<<"nl">>)>>
Timer    == <<AtCursor(<<"b">>)>>
Clears   == <<PrintChar("a"), ClearScreen>>

MCHandlers  == {Keyboard, Timer}
AllHandlers == MCHandlers \union {Clears}

\* A script short enough for the cursor to be torn soon.
Script == <<PrintAt(<<"a">>, 0, 1), AtCursor(<<"nl", "b">>), AtCursor(<<"a", "b">>)>>
=============================================================================
