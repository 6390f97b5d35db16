------------------------------- MODULE Printf -------------------------------
(***************************************************************************)
(* The printf of the archived kernel (printf.c): the parser of formats,    *)
(* the conversion of integers, characters, strings and pointers, and the   *)
(* devices the text goes to.  %f, %e and %g are left out.                  *)
(*                                                                         *)
(* A character is a string of length one, NUL the terminator.  A run of    *)
(* calls of out() with nothing between them is one step that puts out a    *)
(* sequence of characters; the machine's words are as wide as constants    *)
(* say.                                                                    *)
(***************************************************************************)
EXTENDS MachineWords, SequencesExt

CONSTANTS
    Calls,             \* the calls of printf and its kin, see Call
    NTOA_BUFFER_SIZE,  \* PRINTF_NTOA_BUFFER_SIZE (32)
    POINTER_DIGITS,    \* sizeof(void*) * 2 (16)
    SIZE_MAX           \* (size_t)-1

ASSUME PrintfAssumption ==
    /\ {NTOA_BUFFER_SIZE, POINTER_DIGITS, SIZE_MAX} \subseteq Nat \ {0}
    /\ POINTER_DIGITS < INT
    /\ \A c \in Calls : /\ c.count \in 0 .. SIZE_MAX
                         /\ c.format \in Seq(STRING) /\ Len(c.args) \in Nat

VARIABLES
    call,      \* the call: which function, count, whether its buffer is NULL,
               \*   its format and arguments
    pc,        \* where _vsnprintf is
    device,    \* out: "buffer", "char", "fct" or "null"
    maxlen,
    at,        \* format, as a position in the call's format
    arg,       \* va, as the number of arguments taken
    flags, width, precision,
    num,       \* the integer being converted: what is left of it, its sign,
               \*   its base, and buf, its least significant digit first
    idx,
    buffer,    \* the cells written behind the caller's pointer
    sent       \* the characters given to _putchar or to the caller's function

spec   == <<flags, width, precision>>
target == <<call, device, maxlen>>
output == <<idx, buffer, sent>>
vars   == <<target, pc, at, arg, spec, num, output>>

----------------------------------------------------------------------------
(* Where characters go. *)

\* Mutant: the cell at maxlen is taken for the last one.
StoredPastTheEnd(i, s) ==
    [j \in DOMAIN buffer \union {k \in i .. i + Len(s) - 1 : k <= maxlen} |->
        IF j \in i .. i + Len(s) - 1 THEN s[j - i + 1] ELSE buffer[j]]

\* _out_buffer, for each character of s in turn, the first at index i.
Stored(i, s) ==
    [j \in DOMAIN buffer \union {k \in i .. i + Len(s) - 1 : k < maxlen} |->
        IF j \in i .. i + Len(s) - 1 THEN s[j - i + 1] ELSE buffer[j]]

WithoutNul(s) == FlattenSeq([k \in DOMAIN s |-> IF s[k] = NUL THEN <<>> ELSE <<s[k]>>])

\* Mutant: a NUL is sent.
PutCharsAll(s) == sent \o s

\* _out_char: a NUL is not sent.
PutChars(s) == sent \o WithoutNul(s)

\* _out_fct, which sends to the caller's function instead of to _putchar.
CallFct(s) == PutChars(s)

\* out, called for each character of s, the first with index i.
Out(i, s) ==
    /\ buffer' = IF device = "buffer" THEN Stored(i, s) ELSE buffer
    /\ sent' = CASE device = "char" -> PutChars(s)
                 [] device = "fct"  -> CallFct(s)
                 [] OTHER           -> sent

\* The same, moving idx along.
OutOn(s) == Out(idx, s) /\ idx' = idx + Len(s)

Spaces(n) == Repeated(" ", n)

----------------------------------------------------------------------------
(* Numbers. *)

_is_digit(c) == \E i \in 1 .. 10 : Numerals[i] = c
DigitValue(c) == CHOOSE i \in 0 .. 9 : Numerals[i + 1] = c

\* Zeros put above the digits of b, up to n of them and never past the buffer.
ZerosUpTo(b, n) ==
    b \o Repeated("0", Least(n, NTOA_BUFFER_SIZE) - Len(b))

\* Mutant: no room is kept for the sign.
WidthWithoutSign(n, f, w) == w

\* The width without the sign, where zeros fill it.
WidthForZeros(n, f, w) ==
    IF /\ "left" \notin f /\ "zeropad" \in f
       /\ w > 0
       /\ n.negative \/ {"plus", "space"} \intersect f # {}
    THEN w - 1 ELSE w

\* _ntoa_format, "pad leading zeros".
LeadingZeros(n, f, w, p) ==
    IF "left" \in f THEN n.buf
    ELSE LET padded == ZerosUpTo(n.buf, p)
         IN  IF "zeropad" \in f THEN ZerosUpTo(padded, WidthForZeros(n, f, w)) ELSE padded

\* c put above the digits of b if the buffer has room for it.
Above(b, c) == IF Len(b) < NTOA_BUFFER_SIZE THEN Append(b, c) ELSE b

BaseLetter(b, base, f) ==
    CASE base = 16 -> Above(b, IF "uppercase" \in f THEN "X" ELSE "x")
      [] base = 2  -> Above(b, "b")
      [] OTHER     -> b

\* _ntoa_format, "handle hash": the prefix takes the place of padding zeros,
\* or of digits if those happen to fill the width.
Prefixed(b, base, f, w, p) ==
    IF "hash" \notin f THEN b
    ELSE LET full == "precision" \notin f /\ Len(b) > 0 /\ Len(b) \in {p, w}
             cut  == IF ~full THEN 0 ELSE IF base = 16 /\ Len(b) > 1 THEN 2 ELSE 1
         IN  Above(BaseLetter(SubSeq(b, 1, Len(b) - cut), base, f), "0")

\* _ntoa_format, the sign.
WithSign(b, negative, f) ==
    IF negative THEN Above(b, "-")
    ELSE IF "plus" \in f THEN Above(b, "+")
    ELSE IF "space" \in f THEN Above(b, " ")
    ELSE b

\* What _out_rev puts out for the digits in b.
_out_rev(b, w, f) ==
    (IF {"left", "zeropad"} \intersect f = {} THEN Spaces(w - Len(b)) ELSE <<>>)
    \o [i \in 1 .. Len(b) |-> b[Len(b) + 1 - i]]
    \o (IF "left" \in f THEN Spaces(w - Len(b)) ELSE <<>>)

\* What _ntoa_format puts out for a converted number.
_ntoa_format(n, f, w, p) ==
    LET room   == WidthForZeros(n, f, w)
        digits == Prefixed(LeadingZeros(n, f, w, p), n.base, f, room, p)
    IN  _out_rev(WithSign(digits, n.negative, f), room, f)

NoNumber == [value |-> 0, negative |-> FALSE, base |-> 10, buf |-> <<>>]

----------------------------------------------------------------------------
(* Calls. *)

Unbounded == {"printf", "vprintf_", "sprintf_", "fctprintf"}

\* The device each function names, unless the buffer is NULL.
DeviceOf(fn) == CASE fn \in {"printf", "vprintf_"} -> "char"
                  [] fn = "fctprintf"              -> "fct"
                  [] OTHER                         -> "buffer"

Init ==
    /\ call \in Calls
    /\ pc = "call" /\ device = "null" /\ maxlen = 0
    /\ at = 1 /\ arg = 0
    /\ flags = {} /\ width = 0 /\ precision = 0
    /\ num = NoNumber
    /\ idx = 0 /\ buffer = <<>> /\ sent = <<>>

\* printf and its kin call _vsnprintf.  A NULL buffer, which only the functions
\* that take one can have, silences it.
Enter ==
    /\ pc = "call"
    /\ device' = IF call.null THEN "null" ELSE DeviceOf(call.fn)
    /\ maxlen' = IF call.fn \in Unbounded THEN SIZE_MAX ELSE call.count
    /\ pc' = "scan"
    /\ UNCHANGED <<call, at, arg, spec, num, output>>

----------------------------------------------------------------------------
(* The parser. *)

\* The character of the format at i; behind its last one is the terminator.
FormatChar(i) == IF i <= Len(call.format) THEN call.format[i] ELSE NUL
Current == FormatChar(at)

\* va_arg: the next argument, which the step that reads it takes.
Arg == call.args[arg + 1]

Literal ==
    /\ pc = "scan" /\ Current \notin {NUL, "%"}
    /\ OutOn(<<Current>>)
    /\ at' = at + 1
    /\ UNCHANGED <<target, pc, arg, spec, num>>

Percent ==
    /\ pc = "scan" /\ Current = "%"
    /\ at' = at + 1
    /\ flags' = {} /\ width' = 0 /\ precision' = 0
    /\ pc' = "flags"
    /\ UNCHANGED <<target, arg, num, output>>

FlagChars == {"0", "-", "+", " ", "#"}
FlagOf(c) == CASE c = "0" -> "zeropad" [] c = "-" -> "left" [] c = "+" -> "plus"
               [] c = " " -> "space"   [] c = "#" -> "hash"

\* Mutant: the flag is noted and the format not moved on.
FlagAgain ==
    /\ pc = "flags" /\ Current \in FlagChars
    /\ flags' = flags \union {FlagOf(Current)}
    /\ UNCHANGED <<target, pc, at, arg, width, precision, num, output>>

Flag ==
    /\ pc = "flags" /\ Current \in FlagChars
    /\ flags' = flags \union {FlagOf(Current)}
    /\ at' = at + 1
    /\ UNCHANGED <<target, pc, arg, width, precision, num, output>>

NoFlag ==
    /\ pc = "flags" /\ Current \notin FlagChars
    /\ pc' = "width"
    /\ UNCHANGED <<target, at, arg, spec, num, output>>

\* _atoi moves the format to the first character that is no digit, ...
NumberEnd(i) == CHOOSE j \in i .. Len(call.format) + 1 :
                   /\ ~_is_digit(FormatChar(j))
                   /\ \A k \in i .. j - 1 : _is_digit(FormatChar(k))

\* ... and returns the number it has passed.
_atoi(i) == LET value[k \in 0 .. NumberEnd(i) - i] ==
                   IF k = 0 THEN 0
                   ELSE Unsigned(10 * value[k - 1] + DigitValue(FormatChar(i + k - 1)), INT)
            IN  value[NumberEnd(i) - i]

WidthDigits ==
    /\ pc = "width" /\ _is_digit(Current)
    /\ width' = _atoi(at)
    /\ at' = NumberEnd(at)
    /\ pc' = "precision"
    /\ UNCHANGED <<target, arg, flags, precision, num, output>>

\* A negative width is a flag "-" and a width.
WidthArgument ==
    /\ pc = "width" /\ Current = "*"
    /\ flags' = IF Arg < 0 THEN flags \union {"left"} ELSE flags
    /\ width' = IF Arg < 0 THEN Negated(Arg, INT) ELSE Arg
    /\ at' = at + 1 /\ arg' = arg + 1
    /\ pc' = "precision"
    /\ UNCHANGED <<target, precision, num, output>>

NoWidth ==
    /\ pc = "width" /\ ~_is_digit(Current) /\ Current # "*"
    /\ pc' = "precision"
    /\ UNCHANGED <<target, at, arg, spec, num, output>>

\* A precision is a dot, then digits, an argument or nothing.
Precision ==
    /\ pc = "precision" /\ Current = "."
    /\ flags' = flags \union {"precision"}
    /\ \/ /\ _is_digit(FormatChar(at + 1))
          /\ precision' = _atoi(at + 1)
          /\ at' = NumberEnd(at + 1)
          /\ UNCHANGED arg
       \/ /\ FormatChar(at + 1) = "*"
          /\ precision' = IF Arg > 0 THEN Arg ELSE 0
          /\ at' = at + 2 /\ arg' = arg + 1
       \/ /\ ~_is_digit(FormatChar(at + 1)) /\ FormatChar(at + 1) # "*"
          /\ at' = at + 1
          /\ UNCHANGED <<precision, arg>>
    /\ pc' = "length"
    /\ UNCHANGED <<target, width, num, output>>

NoPrecision ==
    /\ pc = "precision" /\ Current # "."
    /\ pc' = "length"
    /\ UNCHANGED <<target, at, arg, spec, num, output>>

\* The length modifier: its flags, and how many characters it has.  ptrdiff_t,
\* intmax_t and size_t are as wide as a long.
LengthOf == CASE Current = "l" /\ FormatChar(at + 1) = "l" -> <<{"long", "long_long"}, 2>>
              [] Current = "l" /\ FormatChar(at + 1) # "l" -> <<{"long"}, 1>>
              [] Current = "h" /\ FormatChar(at + 1) = "h" -> <<{"short", "char"}, 2>>
              [] Current = "h" /\ FormatChar(at + 1) # "h" -> <<{"short"}, 1>>
              [] Current \in {"t", "j", "z"}               -> <<{"long"}, 1>>
              [] OTHER                                     -> <<{}, 0>>

Length ==
    /\ pc = "length"
    /\ flags' = flags \union LengthOf[1]
    /\ at' = at + LengthOf[2]
    /\ pc' = "specifier"
    /\ UNCHANGED <<target, arg, width, precision, num, output>>

----------------------------------------------------------------------------
(* The specifiers. *)

SignedChars == {"d", "i"}
UnsignedChars == {"u", "x", "X", "o", "b"}

BaseOf(c) == CASE c \in {"x", "X"} -> 16 [] c = "o" -> 8 [] c = "b" -> 2 [] OTHER -> 10

\* The flags that are left of f for the integer conversion c.
IntegerFlags(c, f) ==
    ((f \union (IF c = "X" THEN {"uppercase"} ELSE {}))
       \ (IF BaseOf(c) = 10 THEN {"hash"} ELSE {}))
       \ ((IF c \notin SignedChars THEN {"plus", "space"} ELSE {})
            \union (IF "precision" \in f THEN {"zeropad"} ELSE {}))

\* How many values the type has that the length modifier chose.
TypeSize(f) == IF {"long", "long_long"} \intersect f # {} THEN LONG
               ELSE IF "char" \in f THEN CHAR
               ELSE IF "short" \in f THEN SHORT
               ELSE INT

\* _ntoa_long begins: no prefix for zero, and no digit if its precision is zero.
_ntoa_long(value, negative, base, f) ==
    /\ flags' = IF value = 0 THEN f \ {"hash"} ELSE f
    /\ num' = [value |-> value, negative |-> negative, base |-> base, buf |-> <<>>]
    /\ pc' = IF "precision" \notin f \/ value # 0 THEN "digits" ELSE "format"

\* The same for long long, a type of the same width.
_ntoa_long_long(value, negative, base, f) == _ntoa_long(value, negative, base, f)

\* %d and %i: a value below zero is negated in its type, then widened.
SignedInteger ==
    /\ pc = "specifier" /\ Current \in SignedChars
    /\ LET f    == IntegerFlags(Current, flags)
           size == TypeSize(f)
           v    == Signed(Arg, size)
           wide == IF size = LONG THEN LONG ELSE INT
           n    == IF v > 0 THEN v ELSE Negated(v, wide)
       IN  IF "long_long" \in f THEN _ntoa_long_long(n, v < 0, 10, f)
                                ELSE _ntoa_long(n, v < 0, 10, f)
    /\ at' = at + 1 /\ arg' = arg + 1
    /\ UNCHANGED <<target, width, precision, output>>

UnsignedInteger ==
    /\ pc = "specifier" /\ Current \in UnsignedChars
    /\ LET f == IntegerFlags(Current, flags)
           n == Unsigned(Arg, TypeSize(f))
       IN  IF "long_long" \in f THEN _ntoa_long_long(n, FALSE, BaseOf(Current), f)
                                ELSE _ntoa_long(n, FALSE, BaseOf(Current), f)
    /\ at' = at + 1 /\ arg' = arg + 1
    /\ UNCHANGED <<target, width, precision, output>>

\* %p is a hexadecimal number of all the digits a pointer has.
Pointer ==
    /\ pc = "specifier" /\ Current = "p"
    /\ width' = POINTER_DIGITS
    /\ _ntoa_long_long(Unsigned(Arg, LONG), FALSE, 16, flags \union {"zeropad", "uppercase"})
    /\ at' = at + 1 /\ arg' = arg + 1
    /\ UNCHANGED <<target, precision, output>>

\* Mutant: the loop does not look at the size of the buffer.
DivideUnbounded ==
    /\ pc = "digits"
    /\ num' = [num EXCEPT !.value = @ \div num.base,
                          !.buf = Append(@, DigitChar(num.value % num.base, "uppercase" \in flags))]
    /\ pc' = IF num'.value # 0 THEN "digits" ELSE "format"
    /\ UNCHANGED <<target, at, arg, spec, output>>

\* One turn of the digit loop of _ntoa_long, while the buffer has room.
Divide ==
    /\ pc = "digits"
    /\ num' = [num EXCEPT !.value = @ \div num.base,
                          !.buf = Append(@, DigitChar(num.value % num.base, "uppercase" \in flags))]
    /\ pc' = IF num'.value # 0 /\ Len(num'.buf) < NTOA_BUFFER_SIZE THEN "digits" ELSE "format"
    /\ UNCHANGED <<target, at, arg, spec, output>>

\* The number is put out and the next character of the format looked at.
Format ==
    /\ pc = "format"
    /\ OutOn(_ntoa_format(num, flags, width, precision))
    /\ num' = NoNumber
    /\ pc' = "scan"
    /\ UNCHANGED <<target, at, arg, spec>>

\* s, taken to be l characters long, with blanks up to a width of w on the side
\* the flags say.
Padded(s, l, w, f) == IF "left" \in f THEN s \o Spaces(w - l) ELSE Spaces(w - l) \o s

Character ==
    /\ pc = "specifier" /\ Current = "c"
    /\ OutOn(Padded(<<Arg>>, 1, width, flags))
    /\ at' = at + 1 /\ arg' = arg + 1
    /\ pc' = "scan"
    /\ UNCHANGED <<target, spec, num>>

\* The length of the string p (its terminator left out), at most maxsize.
_strnlen_s(p, maxsize) == Least(Len(p), maxsize)

\* The characters of p that %s puts out; l is its length, limited by the precision.
ShownOf(p, f, l) == IF "precision" \in f THEN SubSeq(p, 1, l) ELSE p

String ==
    /\ pc = "specifier" /\ Current = "s"
    /\ LET measured == _strnlen_s(Arg, IF precision # 0 THEN precision ELSE SIZE_MAX)
           l == IF "precision" \in flags THEN Least(measured, precision) ELSE measured
       IN  OutOn(Padded(ShownOf(Arg, flags, l), l, width, flags))
    /\ at' = at + 1 /\ arg' = arg + 1
    /\ pc' = "scan"
    /\ UNCHANGED <<target, spec, num>>

Converted == SignedChars \union UnsignedChars \union {"p", "c", "s"}
FloatChars == {"f", "F", "e", "E", "g", "G"}     \* left out of the model

\* "%%", and a specifier that is none: the character stands for itself.
Other ==
    /\ pc = "specifier" /\ Current \notin Converted \union FloatChars
    /\ OutOn(<<Current>>)
    /\ at' = at + 1
    /\ pc' = "scan"
    /\ UNCHANGED <<target, arg, spec, num>>

\* Where the terminator goes: the last cell if the text is longer than that,
\* and nowhere if there is no cell.
TerminatorIndex == IF idx < maxlen THEN idx ELSE Unsigned(maxlen - 1, SIZE_MAX + 1)

Terminate ==
    /\ pc = "scan" /\ Current = NUL
    /\ Out(TerminatorIndex, <<NUL>>)
    /\ pc' = "done"
    /\ UNCHANGED <<target, at, arg, spec, num, idx>>

Next == \/ Enter
        \/ Literal \/ Percent
        \/ Flag \/ NoFlag
        \/ WidthDigits \/ WidthArgument \/ NoWidth
        \/ Precision \/ NoPrecision \/ Length
        \/ SignedInteger \/ UnsignedInteger \/ Pointer \/ Divide \/ Format
        \/ Character \/ String \/ Other
        \/ Terminate

Spec == Init /\ [][Next]_vars

----------------------------------------------------------------------------
(* Properties. *)

\* What C asks of the caller, as far as the next step needs it: an argument of
\* the right type for a "*" and for each specifier, and no directive cut off by
\* the end of the format.
Given(type) == arg < Len(call.args) /\ Arg \in type
Ints == {n \in Int : 0 - INT <= 2 * n /\ 2 * n < INT}
ArgumentsMatch ==
    /\ pc = "width" /\ Current = "*" => Given(Ints)
    /\ pc = "precision" /\ Current = "." /\ FormatChar(at + 1) = "*" => Given(Ints)
    /\ pc = "specifier" =>
         /\ Current # NUL
         /\ Current \in SignedChars \union UnsignedChars \union {"p"} => Given(Int)
         /\ Current = "c" => Given(STRING)
         /\ Current = "s" => Given(Seq(STRING))

\* The type of the state.  In particular the format is never read behind its
\* terminator and the digits of a number never fill more than their buffer.
TypeOK ==
    /\ pc \in {"call", "scan", "flags", "width", "precision", "length",
               "specifier", "digits", "format", "done"}
    /\ device \in {"buffer", "char", "fct", "null"}
    /\ maxlen \in 0 .. SIZE_MAX
    /\ at \in 1 .. Len(call.format) + 1
    /\ arg \in 0 .. Len(call.args)
    /\ width \in 0 .. INT - 1 /\ precision \in 0 .. INT - 1
    /\ num.value \in 0 .. LONG - 1
    /\ Len(num.buf) <= NTOA_BUFFER_SIZE
    /\ idx \in Nat

\* The types, for calls that do give what their formats ask for.
CallTypeOK == TypeOK /\ ArgumentsMatch

\* Nothing is stored at or behind the count of snprintf_ and vsnprintf_, their
\* terminator included: with a count of zero nothing is stored at all.
WritesInsideCount == DOMAIN buffer \subseteq 0 .. maxlen - 1

\* A text that fits is ended by a NUL behind it, one that does not by a NUL in
\* the last cell there is, and every cell before the NUL has been written.
Terminated ==
    (pc = "done" /\ device = "buffer" /\ maxlen > 0)
      => LET last == IF idx < maxlen THEN idx ELSE maxlen - 1
         IN  DOMAIN buffer = 0 .. last /\ buffer[last] = NUL
=============================================================================
