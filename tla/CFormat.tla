------------------------------ MODULE CFormat ------------------------------
(***************************************************************************)
(* What printf's output should be: the text the C language gives to a      *)
(* directive, stated from the finished text and not from how it is made,   *)
(* and the agreement of Printf with it.                                    *)
(*                                                                         *)
(* A call's "means" lists the directives its format was written from.      *)
(***************************************************************************)
EXTENDS Printf

NONE == -1     \* no width, or no precision

\* A directive: its flag characters, width, precision, length modifier, its
\* specifier and the argument; or a character that stands for itself.
Directive(fl, w, p, len, conv, value) ==
    [flags |-> fl, width |-> w, precision |-> p, length |-> len,
     conv |-> conv, value |-> value, star |-> FALSE]
Plain(c) == Directive({}, NONE, NONE, <<>>, "plain", c)

Decimal(n) == DigitsOf(n, 10, FALSE)

FlagText(fl) == FlattenSeq([k \in 1 .. 5 |->
                   LET c == <<"-", "0", "+", " ", "#">>[k] IN IF c \in fl THEN <<c>> ELSE <<>>])

WidthText(d) == IF d.star THEN <<"*">> ELSE IF d.width = NONE THEN <<>> ELSE Decimal(d.width)
PrecisionText(d) ==
    CASE d.precision = NONE           -> <<>>
      [] d.precision # NONE /\ d.star  -> <<".", "*">>
      [] d.precision = 0 /\ ~d.star    -> <<".">>
      [] OTHER                         -> <<".">> \o Decimal(d.precision)

\* How a directive is written, and the arguments it takes.
FormatOf(d) ==
    IF d.conv = "plain" THEN IF d.value = "%" THEN <<"%", "%">> ELSE <<d.value>>
    ELSE <<"%">> \o FlagText(d.flags) \o WidthText(d) \o PrecisionText(d)
                \o d.length \o <<d.conv>>

ArgsOf(d) == (IF d.star THEN <<d.width>> ELSE <<>>)
             \o (IF d.star /\ d.precision # NONE THEN <<d.precision>> ELSE <<>>)
             \o (IF d.conv = "plain" THEN <<>> ELSE <<d.value>>)

\* The directives of the calls looked at, their numbers ints and their arguments
\* of the types they ask for: those C gives a meaning to, but of a pointer only the
\* plain one, and no wide characters or strings (%lc, %ls).
Lengths == {<<>>, <<"h">>, <<"h", "h">>, <<"l">>, <<"l", "l">>, <<"t">>, <<"j">>, <<"z">>}
Bare(d) == d.flags = {} /\ d.width = NONE /\ d.precision = NONE /\ ~d.star

WellFormed(d) ==
    /\ d.flags \subseteq FlagChars /\ d.length \in Lengths /\ d.star \in BOOLEAN
    /\ d.width \in Ints /\ d.precision \in Ints
    /\ d.star \/ d.width = NONE \/ d.width > 0
    /\ d.star \/ d.precision >= NONE
    /\ \/ d.conv = "plain" /\ d.value \in STRING \ {NUL} /\ Bare(d) /\ d.length = <<>>
       \/ d.conv \in SignedChars \union UnsignedChars /\ d.value \in Int
       \/ d.conv = "p" /\ d.value \in Int /\ Bare(d) /\ d.length = <<>>
       \/ d.conv = "c" /\ d.value \in STRING /\ d.length = <<>>
       \/ d.conv = "s" /\ d.length = <<>> /\ d.value \in Seq(STRING \ {NUL}) /\ Len(d.value) <= SIZE_MAX

\* A call whose format and arguments are written from such directives.
WellMeant(c) ==
    /\ Len(c.means) \in Nat /\ DOMAIN c.means = 1 .. Len(c.means)
    /\ \A i \in DOMAIN c.means : WellFormed(c.means[i])
    /\ c.format = FlattenSeq([i \in DOMAIN c.means |-> FormatOf(c.means[i])])
    /\ c.args = FlattenSeq([i \in DOMAIN c.means |-> ArgsOf(c.means[i])])

\* The digits of any pointer fit into the buffer of a number.
ASSUME CFormatAssumption ==
    /\ \A c \in Calls : WellMeant(c)
    /\ POINTER_DIGITS <= NTOA_BUFFER_SIZE /\ LONG <= Power(16, NTOA_BUFFER_SIZE)

----------------------------------------------------------------------------
(* The text of a directive. *)

\* A negative width is the flag "-" and a width, and "-" overrides "0".
LeftJustified(d) == "-" \in d.flags \/ (d.star /\ d.width < 0)
FieldWidth(d) == IF d.star /\ d.width < 0 THEN -d.width
                 ELSE IF d.width = NONE THEN 0 ELSE d.width

\* A negative precision is none, and any other one overrides "0".
ZeroPadded(d) == "0" \in d.flags /\ d.precision < 0 /\ ~LeftJustified(d)

SizeOf(d) == CASE d.length = <<>>         -> INT
               [] d.length = <<"h">>      -> SHORT
               [] d.length = <<"h", "h">> -> CHAR
               [] OTHER                   -> LONG

IsSigned(d) == d.conv \in {"d", "i"}
NumberOf(d) == IF IsSigned(d) THEN Signed(d.value, SizeOf(d)) ELSE Unsigned(d.value, SizeOf(d))
Magnitude(d) == IF NumberOf(d) < 0 THEN -NumberOf(d) ELSE NumberOf(d)

SignOf(d) == CASE ~IsSigned(d)                      -> <<>>
               [] IsSigned(d) /\ NumberOf(d) < 0     -> <<"-">>
               [] IsSigned(d) /\ NumberOf(d) >= 0    ->
                    IF "+" \in d.flags THEN <<"+">>
                    ELSE IF " " \in d.flags THEN <<" ">> ELSE <<>>

\* At least as many digits as the precision asks for, one if it is absent.
MinimalDigits(d) ==
    LET least  == IF d.precision < 0 THEN 1 ELSE d.precision
        digits == IF Magnitude(d) = 0 THEN <<>>
                  ELSE DigitsOf(Magnitude(d), BaseOf(d.conv), d.conv = "X")
    IN  Repeated("0", least - Len(digits)) \o digits

\* "#": 0x, 0X or 0b before a number that is not zero; an octal gets one more digit
\* if its first one, should it have any, is not 0 already.
PrefixOf(d) ==
    CASE "#" \notin d.flags -> <<>>
      [] "#" \in d.flags /\ d.conv \in {"x", "X", "b"} ->
           IF Magnitude(d) = 0 THEN <<>> ELSE <<"0", d.conv>>
      [] "#" \in d.flags /\ d.conv = "o" ->
           IF MinimalDigits(d) # <<>> /\ Head(MinimalDigits(d)) = "0" THEN <<>> ELSE <<"0">>
      [] OTHER -> <<>>

BareNumber(d) == SignOf(d) \o PrefixOf(d) \o MinimalDigits(d)

IntegerText(d) ==
    LET room == FieldWidth(d) - Len(BareNumber(d))
    IN  CASE LeftJustified(d) -> BareNumber(d) \o Spaces(room)
          [] ZeroPadded(d)    -> SignOf(d) \o PrefixOf(d) \o Repeated("0", room)
                                   \o MinimalDigits(d)
          [] OTHER            -> Spaces(room) \o BareNumber(d)

PlainText(d) ==
    LET text == IF d.conv = "c" THEN <<d.value>>
                ELSE IF d.precision < 0 THEN d.value
                ELSE SubSeq(d.value, 1, Least(d.precision, Len(d.value)))
        room == FieldWidth(d) - Len(text)
    IN  IF LeftJustified(d) THEN text \o Spaces(room) ELSE Spaces(room) \o text

TextOf(d) ==
    CASE d.conv = "plain"        -> <<d.value>>
      [] d.conv \in {"c", "s"}   -> PlainText(d)
      [] d.conv = "p"            -> LET digits == DigitsOf(Unsigned(d.value, LONG), 16, TRUE)
                                    IN  Repeated("0", POINTER_DIGITS - Len(digits)) \o digits
      [] OTHER                   -> IntegerText(d)

Meaning == FlattenSeq([i \in DOMAIN call.means |-> TextOf(call.means[i])])

----------------------------------------------------------------------------
(* Where Printf differs from C. *)

\* "-" makes it forget the precision of an integer, and a negative precision
\* given by an argument is a precision of zero, of a string too.
PrecisionDeviates(d) ==
    \/ LeftJustified(d) /\ d.precision > 0 /\ Head(MinimalDigits(d)) = "0"
    \/ d.star /\ d.precision < NONE

\* An octal zero with "#" and a precision of zero gets no digit at all, where C asks
\* for a 0; any other octal gets one in front of the zeros of its precision too.
\* The prefix of a number that fills its width replaces two of its digits, zeros or
\* not (one of an octal or binary number).
PrefixDeviates(d) ==
    LET room == FieldWidth(d) - Len(MinimalDigits(d))
    IN  /\ "#" \in d.flags /\ d.conv \in {"x", "X", "o", "b"}
        /\ \/ d.conv = "o" /\ MinimalDigits(d) = <<>>
           \/ /\ Magnitude(d) # 0
              /\ \/ d.conv = "o" /\ d.precision >= 0 /\ Head(MinimalDigits(d)) = "0"
                 \/ d.precision < 0 /\ room = 0
                 \/ d.conv \in {"x", "X"} /\ ZeroPadded(d) /\ room = 1
                 \/ d.conv = "b" /\ ZeroPadded(d) /\ room > 1

\* What does not fit the buffer of _ntoa_long is cut off, padding zeros too.
BufferOverrun(d) ==
    \/ Len(BareNumber(d)) > NTOA_BUFFER_SIZE
    \/ ZeroPadded(d) /\ FieldWidth(d) > NTOA_BUFFER_SIZE

KnownDeviation(d) ==
    \/ /\ d.conv \in SignedChars \union UnsignedChars
       /\ PrecisionDeviates(d) \/ PrefixDeviates(d) \/ BufferOverrun(d)
    \/ d.conv = "s" /\ d.star /\ d.precision < NONE

Deviating == \E i \in DOMAIN call.means : KnownDeviation(call.means[i])

\* The NUL of a %c, stored into a buffer, is not sent to a device (printf.c 152, 162).
NulDropped ==
    /\ device \in {"char", "fct"}
    /\ \E i \in DOMAIN call.means : call.means[i].conv = "c" /\ call.means[i].value = NUL

\* printf puts out the text C says, unless a NUL of a %c is to be sent, and ends it
\* with a NUL in the last cell there is if it is longer than the buffer.  It returns
\* the number of characters that could have been written, whatever the count and
\* the device (printf.h 85).
OutputIsAsInC ==
    /\ Terminated
    /\ (pc = "done" /\ ~Deviating /\ ~NulDropped) =>
         /\ device \in {"char", "fct"} => sent = Meaning
         /\ device = "buffer" =>
              \A k \in DOMAIN buffer :
                  buffer[k] = IF k < Len(Meaning) /\ k < maxlen - 1 THEN Meaning[k + 1] ELSE NUL
         /\ idx = Len(Meaning)

\* A NUL of a %c is not sent with the rest of the text, and yet counted in what
\* printf and fctprintf return, which printf.h 111 calls "the number of characters
\* that are sent to the output function".
NulsAreCountedNotSent ==
    (pc = "done" /\ ~Deviating /\ device \in {"char", "fct"}) =>
      sent = WithoutNul(Meaning) /\ idx = Len(Meaning)
=============================================================================
