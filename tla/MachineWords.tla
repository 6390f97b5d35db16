---------------------------- MODULE MachineWords ----------------------------
(***************************************************************************)
(* The integers of the C code, as wide as the constants say, and the       *)
(* characters its two number formatters make of them.  A character is a    *)
(* string of length one; NUL is the terminator of a C string.              *)
(***************************************************************************)
EXTENDS Integers, Sequences

CONSTANTS CHAR, SHORT, INT, LONG  \* how many values each type has: 2^8, 2^16,
                                  \*   2^32 and 2^64 on the machine

ASSUME WordsAssumption ==
    /\ {CHAR, SHORT, INT, LONG} \subseteq Nat \ {0}
    /\ CHAR <= SHORT /\ SHORT <= INT /\ INT <= LONG

NUL == "NUL"

\* The value of n in a type of m values, unsigned and signed.
Unsigned(n, m) == n % m
Signed(n, m) == IF 2 * (n % m) < m THEN n % m ELSE (n % m) - m

\* -n in an unsigned type of m values.
Negated(n, m) == (0 - n) % m

Least(a, b) == IF a < b THEN a ELSE b

\* c, n times; never, if n is negative.
Repeated(c, n) == [i \in 1 .. (IF n < 0 THEN 0 ELSE n) |-> c]

Numerals == <<"0", "1", "2", "3", "4", "5", "6", "7", "8", "9">>
LowerLetters == <<"a", "b", "c", "d", "e", "f">>
UpperLetters == <<"A", "B", "C", "D", "E", "F">>

\* The character of the digit d.
DigitChar(d, upper) == IF d < 10 THEN Numerals[d + 1]
                       ELSE IF upper THEN UpperLetters[d - 9] ELSE LowerLetters[d - 9]

Powers(base) == LET power[k \in Nat] == IF k = 0 THEN 1 ELSE base * power[k - 1]
                IN  power
Power(base, k) == Powers(base)[k]

\* How many digits n has: as many as the first power above it has factors, and
\* one if it is zero.
DigitCount(n, base) ==
    CHOOSE k \in 1 .. n + 1 : n < Power(base, k) /\ (k > 1 => Power(base, k - 1) <= n)

\* The digits of n, most significant first, stated from their number and their
\* places and not from the loops that find them.
DigitsOf(n, base, upper) ==
    [i \in 1 .. DigitCount(n, base) |->
        DigitChar((n \div Power(base, DigitCount(n, base) - i)) % base, upper)]
=============================================================================
