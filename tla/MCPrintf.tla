------------------------------ MODULE MCPrintf ------------------------------
(* The two formatters of the archived kernel on words of 3, 4, 5 and 10 bits: *)
(* calls of printf and its kin, and every number of the console.              *)
EXTENDS KernelText

CallOf(fn, count, null, means) ==
    [fn |-> fn, count |-> count, null |-> null, means |-> means,
     format |-> FlattenSeq([k \in DOMAIN means |-> FormatOf(means[k])]),
     args   |-> FlattenSeq([k \in DOMAIN means |-> ArgsOf(means[k])])]

Alone(d) == CallOf("printf", 0, FALSE, <<d, Plain("y")>>)

\* All sets of flags, with widths and precisions below and above the digits.
Flagged == {Directive(fl, w, p, <<>>, c, v) :
              fl \in SUBSET {"0", "-", "+", " ", "#"},
              w \in {NONE, 4}, p \in {NONE, 0, 3},
              c \in {"d", "x", "o"}, v \in {0, 10, -2}}

\* Every type at its ends, in every base.
Typed == {Directive(fl, NONE, NONE, len, c, v) :
            fl \in {{}, {"#"}},
            len \in {<<>>, <<"h">>, <<"h", "h">>, <<"l">>, <<"l", "l">>, <<"t">>, <<"j">>, <<"z">>},
            c \in {"d", "i", "u", "x", "X", "o", "b"}, v \in {5, 9, -16, 300, -512}}

\* Widths and precisions taken from the arguments.
Starred == {[Directive(fl, w, p, <<>>, c, v) EXCEPT !.star = TRUE] :
              fl \in {{}, {"0"}, {"-"}}, w \in {-4, 0, 4}, p \in {-3, NONE, 2},
              c \in {"d", "X"}, v \in {0, 10}}

\* A prefix with none to three cells of room for it.
Hashed   == {Directive(fl, w, NONE, <<>>, c, 1) :
               fl \in {{"#"}, {"#", "0"}}, w \in 1 .. 4, c \in {"X", "o", "b"}}

Others == {Directive(fl, w, p, <<>>, "s", v) :
             fl \in {{}, {"-"}, {"0"}}, w \in {NONE, 1, 12}, p \in {NONE, 0, 2},
             v \in {<<>>, <<"a", "b", "c">>}}
          \union {Directive(fl, w, NONE, <<>>, "c", v) :
             fl \in {{}, {"-"}}, w \in {NONE, 1, 3}, v \in {"a", NUL}}
          \union {[Directive({}, w, p, <<>>, c, v) EXCEPT !.star = TRUE] :
             w \in {-4, 2}, p \in {-3, NONE, 1}, c \in {"s"}, v \in {<<"a", "b", "c">>}}
          \union {Directive({}, NONE, NONE, <<>>, "p", v) : v \in {0, 200}}
          \union {Plain("%")}

\* Every function, with a buffer too small, exact, large, and NULL.
Placed == {CallOf(fn, count, null, <<Plain("a"), Directive({}, w, NONE, <<>>, "d", 10), Plain("%")>>) :
             fn \in {"snprintf_", "vsnprintf_"}, count \in 0 .. 7, null \in BOOLEAN, w \in {NONE, 4}}
          \union {CallOf(fn, 0, FALSE, <<Directive({"-"}, 3, NONE, <<>>, "u", 7), Plain("%")>>) :
             fn \in {"printf", "vprintf_", "sprintf_", "fctprintf"}}
          \union {CallOf(fn, 3, FALSE, <<Directive({}, 2, NONE, <<>>, "c", NUL), Plain("a")>>) :
             fn \in {"snprintf_", "fctprintf"}}

MCCalls == {Alone(d) : d \in Flagged \union Typed \union Starred \union Hashed \union Others} \union Placed

MCNumbers == 0 .. LONG - 1
=============================================================================
