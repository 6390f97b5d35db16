---------------------------- MODULE Printf_proofs ---------------------------
(***************************************************************************)
(* Proofs about printf for every format, every buffer and words of every   *)
(* width: an invariant, under which numbers stay in their types and digits *)
(* in their buffer, nothing is stored at or behind the count, and a text   *)
(* ends with a NUL, as long as the parser finds the arguments it asks for. *)
(* And what the formatting functions make of a number, a string or a       *)
(* character: the text C says, for every flag, width, precision and type.  *)
(***************************************************************************)
EXTENDS CFormat, NumberLemmas, TLAPS

\* The characters.  Those that the model names are strings too, which the provers
\* do not know.
Chars == STRING \union {NUL, " ", "%", "+", "-", "x", "X"}
                \union {"0", "1", "2", "3", "4", "5", "6", "7", "8", "9"}
                \union {"a", "b", "c", "d", "e", "f", "A", "B", "C", "D", "E", "F"}
                \union {"#", "*", ".", "h", "l", "t", "j", "z", "i", "u", "o", "p", "s"}
Text == Seq(Chars)

-----------------------------------------------------------------------------
(* Words and characters.                                                   *)

LEMMA WordTypes ==
    /\ CHAR \in Nat \ {0} /\ SHORT \in Nat \ {0} /\ INT \in Nat \ {0} /\ LONG \in Nat \ {0}
    /\ CHAR <= SHORT /\ SHORT <= INT /\ INT <= LONG
    /\ NTOA_BUFFER_SIZE \in Nat \ {0} /\ POINTER_DIGITS \in Nat \ {0}
    /\ SIZE_MAX \in Nat \ {0} /\ POINTER_DIGITS < INT
  BY WordsAssumption, PrintfAssumption

\* A number of a type stays what it is in it.
LEMMA InWord == ASSUME NEW m \in Nat \ {0}, NEW n \in 0 .. m - 1 PROVE n % m = n
  OBVIOUS

\* A number in a type is one of the values of the type.
LEMMA Wraps ==
    ASSUME NEW n \in Int, NEW m \in Nat \ {0}
    PROVE  /\ Unsigned(n, m) \in 0 .. m - 1 /\ Negated(n, m) \in 0 .. m - 1
           /\ Signed(n, m) \in Int /\ Signed(n, m) < m
<1>1. n % m \in 0 .. m - 1 /\ (0 - n) % m \in 0 .. m - 1 /\ 0 - n \in Int
  OBVIOUS
<1>2. Unsigned(n, m) \in 0 .. m - 1 /\ Negated(n, m) \in 0 .. m - 1
  BY <1>1 DEF Unsigned, Negated
<1> DEFINE r == n % m
<1>3. r \in 0 .. m - 1 /\ Signed(n, m) = IF 2 * r < m THEN r ELSE r - m
  BY <1>1 DEF Signed
<1> HIDE DEF r
<1> QED
  BY <1>2, <1>3

\* A smaller type's values are values of a larger one.
LEMMA TypeSizeIs == ASSUME NEW f PROVE TypeSize(f) \in {CHAR, SHORT, INT, LONG}
  BY DEF TypeSize

\* A quotient is not larger than the number.
LEMMA QuotientAtMost ==
    ASSUME NEW a \in Nat, NEW d \in Nat \ {0}
    PROVE  a \div d \in 0 .. a
<1>1. a \div d \in Nat /\ a % d \in Nat /\ a = d * (a \div d) + (a % d)
  BY Split
<1> DEFINE q == a \div d
<1> HIDE DEF q
<1>2. q <= d * q /\ d * q \in Nat
  <2>1. 1 * q <= d * q
    <3>1. q * 1 <= q * d /\ q * 1 \in Nat /\ q * d \in Nat
      BY <1>1, Multiples DEF q
    <3> QED
      BY <1>1, <3>1 DEF q
  <2> QED
    BY <1>1, <2>1 DEF q
<1> QED
  BY <1>1, <1>2 DEF q

\* A digit has a character in each base there is.
LEMMA DigitCharIs ==
    ASSUME NEW d \in 0 .. 15, NEW upper \in BOOLEAN
    PROVE  DigitChar(d, upper) \in Chars
<1>1. \A k \in 1 .. 10 : Numerals[k] \in Chars
  <2> SUFFICES ASSUME NEW k \in 1 .. 10 PROVE Numerals[k] \in Chars
    OBVIOUS
  <2>1. k = 1 \/ k = 2 \/ k = 3 \/ k = 4 \/ k = 5 \/ k = 6 \/ k = 7 \/ k = 8 \/ k = 9 \/ k = 10
    OBVIOUS
  <2>2. /\ Numerals[1] = "0" /\ Numerals[2] = "1" /\ Numerals[3] = "2" /\ Numerals[4] = "3"
        /\ Numerals[5] = "4" /\ Numerals[6] = "5" /\ Numerals[7] = "6" /\ Numerals[8] = "7"
        /\ Numerals[9] = "8" /\ Numerals[10] = "9"
    BY DEF Numerals
  <2>3. {"0", "1", "2", "3", "4", "5", "6", "7", "8", "9"} \subseteq Chars
    BY DEF Chars
  <2> QED
    BY <2>1, <2>2, <2>3
<1>2. \A k \in 1 .. 6 : LowerLetters[k] \in Chars /\ UpperLetters[k] \in Chars
  <2> SUFFICES ASSUME NEW k \in 1 .. 6 PROVE LowerLetters[k] \in Chars /\ UpperLetters[k] \in Chars
    OBVIOUS
  <2>1. k = 1 \/ k = 2 \/ k = 3 \/ k = 4 \/ k = 5 \/ k = 6
    OBVIOUS
  <2>2. /\ LowerLetters[1] = "a" /\ LowerLetters[2] = "b" /\ LowerLetters[3] = "c"
        /\ LowerLetters[4] = "d" /\ LowerLetters[5] = "e" /\ LowerLetters[6] = "f"
    BY DEF LowerLetters
  <2>3. /\ UpperLetters[1] = "A" /\ UpperLetters[2] = "B" /\ UpperLetters[3] = "C"
        /\ UpperLetters[4] = "D" /\ UpperLetters[5] = "E" /\ UpperLetters[6] = "F"
    BY DEF UpperLetters
  <2>4. {"a", "b", "c", "d", "e", "f", "A", "B", "C", "D", "E", "F"} \subseteq Chars
    BY DEF Chars
  <2> QED
    BY <2>1, <2>2, <2>3, <2>4
<1>3. d < 10 => d + 1 \in 1 .. 10
  OBVIOUS
<1>4. ~(d < 10) => d - 9 \in 1 .. 6
  OBVIOUS
<1> QED
  BY <1>1, <1>2, <1>3, <1>4 DEF DigitChar

LEMMA Digits ==
    /\ ~_is_digit(NUL)
    /\ \A c : _is_digit(c) => DigitValue(c) \in 0 .. 9
<1>1. ~_is_digit(NUL)
  BY DEF _is_digit, Numerals, NUL
<1>2. ASSUME NEW c, _is_digit(c) PROVE DigitValue(c) \in 0 .. 9
  <2>1. PICK i \in 1 .. 10 : Numerals[i] = c
    BY <1>2 DEF _is_digit
  <2>2. i - 1 \in 0 .. 9 /\ Numerals[(i - 1) + 1] = c
    BY <2>1
  <2>3. \E j \in 0 .. 9 : Numerals[j + 1] = c
    BY <2>2
  <2> QED
    BY <2>3 DEF DigitValue
<1> QED
  BY <1>1, <1>2

\* Texts put one behind the other, made longer, cut and turned round.
LEMMA Joined ==
    ASSUME NEW s \in Text, NEW t \in Text
    PROVE  s \o t \in Text /\ Len(s \o t) = Len(s) + Len(t) /\ Len(s) \in Nat
  BY DEF Text

LEMMA Longer ==
    ASSUME NEW s \in Text, NEW c \in Chars
    PROVE  Append(s, c) \in Text /\ Len(Append(s, c)) = Len(s) + 1
  BY DEF Text

LEMMA CutShort ==
    ASSUME NEW s \in Text, NEW m \in 0 .. Len(s)
    PROVE  SubSeq(s, 1, m) \in Text /\ Len(SubSeq(s, 1, m)) = m
  BY DEF Text

LEMMA FunctionIsText ==
    ASSUME NEW m \in Nat, NEW f \in [1 .. m -> Chars]
    PROVE  f \in Text /\ Len(f) = m
  BY DEF Text

LEMMA TurnedRound ==
    ASSUME NEW s \in Text
    PROVE  /\ [i \in 1 .. Len(s) |-> s[Len(s) + 1 - i]] \in Text
           /\ Len([i \in 1 .. Len(s) |-> s[Len(s) + 1 - i]]) = Len(s)
<1> DEFINE n == Len(s)
           f == [i \in 1 .. n |-> s[n + 1 - i]]
<1>1. n \in Nat /\ \A i \in 1 .. n : s[i] \in Chars
  BY DEF Text
<1> HIDE DEF n
<1>2. \A i \in 1 .. n : n + 1 - i \in 1 .. n
  BY <1>1
<1>3. f \in [1 .. n -> Chars]
  BY <1>1, <1>2
<1> HIDE DEF f
<1>4. f \in Text /\ Len(f) = n
  BY <1>1, <1>3, FunctionIsText
<1> QED
  BY <1>4 DEF f, n

LEMMA FromStrings ==
    /\ \A p \in Seq(STRING) : p \in Text
    /\ \A c \in STRING : c \in Chars
    /\ \A c \in Chars : <<c>> \in Text
<1>1. \A c \in STRING : c \in Chars
  BY DEF Chars
<1>2. ASSUME NEW p \in Seq(STRING) PROVE p \in Text
  <2>1. Len(p) \in Nat /\ p \in [1 .. Len(p) -> STRING]
    OBVIOUS
  <2>2. p \in [1 .. Len(p) -> Chars]
    BY <1>1, <2>1
  <2> QED
    BY <2>1, <2>2, FunctionIsText
<1>3. \A c \in Chars : <<c>> \in Text
  BY DEF Text
<1> QED
  BY <1>1, <1>2, <1>3

\* A character repeated.
LEMMA RepeatedIs ==
    ASSUME NEW c \in Chars, NEW n \in Int
    PROVE  /\ Repeated(c, n) \in Text
           /\ Len(Repeated(c, n)) = IF n < 0 THEN 0 ELSE n
<1> DEFINE m == IF n < 0 THEN 0 ELSE n
           f == [i \in 1 .. m |-> c]
<1>1. m \in Nat /\ Repeated(c, n) = f
  BY DEF Repeated
<1> HIDE DEF m
<1>2. f \in [1 .. m -> Chars]
  OBVIOUS
<1> HIDE DEF f
<1>3. f \in Text /\ Len(f) = m
  BY <1>1, <1>2, FunctionIsText
<1> QED
  BY <1>1, <1>3 DEF m

LEMMA Characters ==
    /\ "0" \in Chars /\ "x" \in Chars /\ "X" \in Chars /\ "b" \in Chars
    /\ "-" \in Chars /\ "+" \in Chars /\ " " \in Chars /\ NUL \in Chars
    /\ {"%", "#", "*", ".", "h", "l", "t", "j", "z", "d", "i", "u", "o", "p", "c", "s"} \subseteq Chars
  BY DEF Chars, NUL

-----------------------------------------------------------------------------
(* The powers of a base and the digits of a number.                        *)

LEMMA PowerIs ==
    ASSUME NEW b \in Nat \ {0}
    PROVE  /\ Power(b, 0) = 1
           /\ \A k \in Nat : Power(b, k) \in Nat \ {0} /\ Power(b, k + 1) = b * Power(b, k)
<1> DEFINE V == Nat \ {0}
           F(f) == [k \in Nat |-> IF k = 0 THEN 1 ELSE b * f[k - 1]]
           power == CHOOSE f : f = F(f)
<1>1. \E f : f = F(f)
  <2> DEFINE times == [k \in Nat |-> [v \in V |-> b * v]]
  <2>1. times \in [Nat -> [V -> V]] /\ 1 \in V
    OBVIOUS
  <2>2. \A k \in Nat, v \in V : times[k][v] = b * v
    OBVIOUS
  <2> HIDE DEF times
  <2>3. PICK f \in [Nat -> V] : Endless(f, 1, times)
    <3> HIDE DEF V
    <3> QED
      BY <2>1, EndlessRecursion
  <2>4. ASSUME NEW k \in Nat PROVE f[k] = IF k = 0 THEN 1 ELSE b * f[k - 1]
    <3>1. CASE k = 0
      BY <2>3, <3>1 DEF Endless
    <3>2. CASE k # 0
      <4>1. k - 1 \in Nat /\ (k - 1) + 1 = k
        BY <3>2
      <4>2. f[(k - 1) + 1] = times[(k - 1) + 1][f[k - 1]] /\ f[k - 1] \in V
        BY <2>3, <4>1 DEF Endless
      <4>3. f[k] = times[k][f[k - 1]]
        BY <4>1, <4>2
      <4> QED
        BY <2>2, <3>2, <4>2, <4>3
    <3> QED
      BY <3>1, <3>2
  <2>5. f = [k \in Nat |-> f[k]]
    BY <2>3
  <2>6. f = F(f)
    BY <2>4, <2>5
  <2> QED
    BY <2>6
<1>2. power = F(power)
  BY <1>1
<1>3. Powers(b) = power
  BY DEF Powers
<1> HIDE DEF power
<1>4. power[0] = 1 /\ \A k \in Nat : power[k + 1] = b * power[k]
  <2>1. \A k \in Nat : power[k] = IF k = 0 THEN 1 ELSE b * power[k - 1]
    BY <1>2
  <2>2. ASSUME NEW k \in Nat PROVE power[k + 1] = b * power[k]
    <3>1. k + 1 \in Nat /\ k + 1 # 0 /\ (k + 1) - 1 = k
      OBVIOUS
    <3>2. power[k + 1] = IF k + 1 = 0 THEN 1 ELSE b * power[(k + 1) - 1]
      BY <2>1, <3>1
    <3> QED
      BY <3>1, <3>2
  <2> QED
    BY <2>1, <2>2
<1>5. Nat \subseteq {k \in Nat : power[k] \in V}
  <2> DEFINE S == {k \in Nat : power[k] \in V}
  <2>1. 0 \in S
    BY <1>4
  <2>2. ASSUME NEW k \in Nat, k \in S PROVE k + 1 \in S
    <3>1. power[k + 1] = b * power[k] /\ power[k] \in V
      BY <1>4, <2>2
    <3>2. \A v \in V : b * v \in V
      OBVIOUS
    <3> QED
      BY <3>1, <3>2
  <2> HIDE DEF S
  <2>3. Nat \subseteq S
    BY <2>1, <2>2, Induction
  <2> QED
    BY <2>3 DEF S
<1> QED
  BY <1>3, <1>4, <1>5 DEF Power

\* Each power is larger than the one before it, and the k-th is larger than k.
LEMMA PowersGrow ==
    ASSUME NEW b \in Nat, b >= 2
    PROVE  \A k \in Nat : k < Power(b, k)
<1> DEFINE S == {k \in Nat : k < Power(b, k)}
<1>1. 0 \in S
  BY PowerIs
<1>2. ASSUME NEW k \in Nat, k \in S PROVE k + 1 \in S
  <2> DEFINE p == Power(b, k)
  <2>1. p \in Nat \ {0} /\ Power(b, k + 1) = b * p /\ k < p
    <3>1. b \in Nat \ {0}
      OBVIOUS
    <3> QED
      BY <1>2, <3>1, PowerIs
  <2> HIDE DEF p
  <2>2. p * 2 <= p * b /\ p * b \in Nat
    BY <2>1, Multiples
  <2>3. p * b = b * p
    BY <2>1
  <2>4. k + 1 < Power(b, k + 1)
    BY <2>1, <2>2, <2>3
  <2> QED
    BY <2>4
<1> HIDE DEF S
<1>3. Nat \subseteq S
  BY <1>1, <1>2, Induction
<1> QED
  BY <1>3 DEF S

LEMMA DigitCountIs ==
    ASSUME NEW n \in Nat, NEW b \in Nat, b >= 2
    PROVE  LET c == DigitCount(n, b)
           IN  /\ c \in 1 .. n + 1 /\ n < Power(b, c)
               /\ \A k \in 1 .. c - 1 : Power(b, k) <= n
<1> DEFINE S == {k \in Nat : n < Power(b, k)}
           Right(k) == n < Power(b, k) /\ (k > 1 => Power(b, k - 1) <= n)
<1>1. n + 1 \in S /\ 1 <= n + 1
  <2>1. n + 1 < Power(b, n + 1) /\ Power(b, n + 1) \in Nat
    BY PowersGrow, PowerIs
  <2> QED
    BY <2>1
<1>0. b \in Nat \ {0}
  OBVIOUS
<1>2. PICK k \in 1 .. n + 1 : k \in S /\ \A l \in 1 .. k - 1 : l \notin S
  <2> HIDE DEF S
  <2>1. 1 \in Nat /\ n + 1 \in Nat
    OBVIOUS
  <2> QED
    BY <1>1, <2>1, FirstOf
<1>3. ASSUME NEW l \in 1 .. k - 1 PROVE Power(b, l) <= n
  <2>1. l \in Nat /\ l \notin S
    BY <1>2
  <2>2. Power(b, l) \in Nat
    BY <1>0, <2>1, PowerIs
  <2> QED
    BY <2>1, <2>2
<1>4. Right(k)
  <2>1. k > 1 => k - 1 \in 1 .. k - 1
    OBVIOUS
  <2> QED
    BY <1>2, <1>3, <2>1
<1>5. ASSUME NEW j \in 1 .. n + 1, Right(j) PROVE j = k
  <2>1. ~(j < k)
    <3> SUFFICES ASSUME j < k PROVE FALSE
      OBVIOUS
    <3>1. Power(b, j) <= n /\ Power(b, j) \in Nat
      BY <1>0, <1>3, PowerIs
    <3> QED
      BY <1>5, <3>1
  <2>2. ~(k < j)
    <3> SUFFICES ASSUME k < j PROVE FALSE
      OBVIOUS
    <3> DEFINE T == {l \in Nat : k + l <= j - 1 => n < Power(b, k + l)}
    <3>1. 0 \in T
      BY <1>2
    <3>2. ASSUME NEW l \in Nat, l \in T PROVE l + 1 \in T
      <4> SUFFICES ASSUME k + (l + 1) <= j - 1 PROVE n < Power(b, k + (l + 1))
        OBVIOUS
      <4> DEFINE p == Power(b, k + l)
      <4>1. n < p /\ p \in Nat \ {0} /\ Power(b, (k + l) + 1) = b * p
        <5>1. k + l \in Nat /\ k + l <= j - 1
          OBVIOUS
        <5> QED
          BY <1>0, <3>2, <5>1, PowerIs
      <4> HIDE DEF p
      <4>2. p * 1 <= p * b /\ p * b \in Nat
        BY <4>1, Multiples
      <4>3. p * b = b * p /\ p * 1 = p /\ (k + l) + 1 = k + (l + 1)
        BY <4>1
      <4> QED
        BY <4>1, <4>2, <4>3
    <3>3. Nat \subseteq T
      <4> HIDE DEF T
      <4> QED
        BY <3>1, <3>2, Induction
    <3>4. (j - 1) - k \in Nat /\ k + ((j - 1) - k) = j - 1 /\ j > 1
      OBVIOUS
    <3>5. n < Power(b, j - 1)
      BY <3>3, <3>4
    <3>6. Power(b, j - 1) <= n /\ Power(b, j - 1) \in Nat
      <4>1. j - 1 \in Nat
        BY <3>4
      <4> QED
        BY <1>0, <1>5, <3>4, <4>1, PowerIs
    <3> QED
      BY <3>5, <3>6
  <2> QED
    BY <2>1, <2>2
<1>6. DigitCount(n, b) = k
  <2>1. DigitCount(n, b) = CHOOSE j \in 1 .. n + 1 : Right(j)
    BY DEF DigitCount
  <2> HIDE DEF Right
  <2> QED
    BY <1>4, <1>5, <2>1
<1> QED
  BY <1>2, <1>3, <1>6

\* A quotient is zero when the divisor is larger than the number.
LEMMA QuotientZero ==
    ASSUME NEW n \in Nat, NEW d \in Nat \ {0}
    PROVE  /\ n < d => n \div d = 0
           /\ d <= n => n \div d > 0
<1> DEFINE q == n \div d
<1>1. q \in Nat /\ n % d \in 0 .. d - 1 /\ n = d * q + (n % d)
  BY Split
<1> HIDE DEF q
<1>2. ASSUME n < d, q # 0 PROVE FALSE
  <2>1. 1 <= q /\ d \in Nat
    BY <1>1, <1>2
  <2>2. d * 1 <= d * q /\ d * q \in Nat
    BY <1>1, <2>1, Multiples
  <2> QED
    BY <1>1, <1>2, <2>2
<1>3. ASSUME d <= n, ~(q > 0) PROVE FALSE
  <2>1. q = 0
    BY <1>1, <1>3
  <2> QED
    BY <1>1, <1>3, <2>1
<1> QED
  BY <1>2, <1>3 DEF q

\* What is left of a number when the digits below the k-th are taken away.
LEMMA HigherDigits ==
    ASSUME NEW n \in Nat, NEW b \in Nat \ {0}
    PROVE  /\ n \div Power(b, 0) = n
           /\ \A k \in Nat : /\ n \div Power(b, k) \in Nat
                            /\ n \div Power(b, k + 1) = (n \div Power(b, k)) \div b
<1>1. n \div Power(b, 0) = n
  <2>1. Power(b, 0) = 1 /\ n \in Nat
    BY PowerIs
  <2>2. n \div 1 = n
    BY <2>1
  <2> QED
    BY <2>1, <2>2
<1>2. ASSUME NEW k \in Nat
      PROVE  /\ n \div Power(b, k) \in Nat
             /\ n \div Power(b, k + 1) = (n \div Power(b, k)) \div b
  <2> DEFINE p == Power(b, k)
  <2>1. p \in Nat \ {0} /\ Power(b, k + 1) = b * p
    BY PowerIs
  <2> HIDE DEF p
  <2>2. b * p = p * b
    BY <2>1
  <2>3. (n \div p) \div b = n \div (p * b)
    BY <2>1, DivideTwice
  <2>4. n \div p \in Nat
    BY <2>1, Split
  <2> QED
    BY <2>1, <2>2, <2>3, <2>4 DEF p
<1> QED
  BY <1>1, <1>2

\* The quotients are zero from the count of digits on and not before.
LEMMA DigitsEnd ==
    ASSUME NEW n \in Nat, NEW b \in Nat, b >= 2
    PROVE  LET c == DigitCount(n, b)
           IN  /\ c \in Nat /\ c >= 1
               /\ n \div Power(b, c) = 0
               /\ \A k \in 1 .. c - 1 : n \div Power(b, k) > 0
<1> DEFINE c == DigitCount(n, b)
<1>1. c \in 1 .. n + 1 /\ n < Power(b, c) /\ \A k \in 1 .. c - 1 : Power(b, k) <= n
  BY DigitCountIs
<1> HIDE DEF c
<1>2. b \in Nat \ {0}
  OBVIOUS
<1>3. c \in Nat /\ c >= 1
  BY <1>1
<1>4. n \div Power(b, c) = 0
  <2>1. Power(b, c) \in Nat \ {0}
    BY <1>2, <1>3, PowerIs
  <2> QED
    BY <1>1, <2>1, QuotientZero
<1>5. ASSUME NEW k \in 1 .. c - 1 PROVE n \div Power(b, k) > 0
  <2>1. k \in Nat /\ Power(b, k) <= n
    BY <1>1, <1>3
  <2>2. Power(b, k) \in Nat \ {0}
    BY <1>2, <2>1, PowerIs
  <2> QED
    BY <2>1, <2>2, QuotientZero
<1> QED
  BY <1>3, <1>4, <1>5 DEF c

LEMMA ShortTexts ==
    ASSUME NEW c \in Chars, NEW e \in Chars
    PROVE  /\ <<>> \in Text /\ Len(<<>>) = 0
           /\ <<c>> \in Text /\ Len(<<c>>) = 1 /\ <<c>>[1] = c
           /\ <<c, e>> \in Text /\ Len(<<c, e>>) = 2
           /\ <<c, e>>[1] = c /\ <<c, e>>[2] = e
  BY DEF Text

\* The characters of two texts put one behind the other.
LEMMA Concatenated ==
    ASSUME NEW s \in Text, NEW t \in Text
    PROVE  /\ s \o t \in Text
           /\ s \o t = [k \in 1 .. Len(s) + Len(t) |-> (s \o t)[k]]
           /\ \A k \in 1 .. Len(s) : (s \o t)[k] = s[k]
           /\ \A k \in Len(s) + 1 .. Len(s) + Len(t) : (s \o t)[k] = t[k - Len(s)]
<1>1. s \o t \in Text /\ Len(s \o t) = Len(s) + Len(t) /\ Len(s) \in Nat /\ Len(t) \in Nat
  BY Joined
<1>2. s \o t = [k \in 1 .. Len(s) + Len(t) |-> (s \o t)[k]]
  <2> DEFINE u == s \o t
  <2>1. u \in Seq(Chars) /\ Len(u) = Len(s) + Len(t)
    BY <1>1 DEF Text
  <2> HIDE DEF u
  <2>2. u = [k \in 1 .. Len(u) |-> u[k]]
    BY <2>1
  <2> QED
    BY <2>1, <2>2 DEF u
<1>3. ASSUME NEW k \in 1 .. Len(s) PROVE (s \o t)[k] = s[k]
  BY DEF Text
<1>4. ASSUME NEW k \in Len(s) + 1 .. Len(s) + Len(t) PROVE (s \o t)[k] = t[k - Len(s)]
  BY DEF Text
<1> QED
  BY <1>1, <1>2, <1>3, <1>4

\* No repetitions are no characters.
LEMMA NoneRepeated ==
    ASSUME NEW c, NEW n \in Int, n <= 0
    PROVE  Repeated(c, n) = <<>>
<1>1. 1 .. (IF n < 0 THEN 0 ELSE n) = {}
  OBVIOUS
<1> QED
  BY <1>1 DEF Repeated

\* No digit is the terminator, and below ten a digit has one character.
LEMMA DigitIsShown ==
    ASSUME NEW d \in 0 .. 15, NEW upper \in BOOLEAN
    PROVE  /\ DigitChar(d, upper) # NUL
           /\ d < 10 => DigitChar(d, upper) = DigitChar(d, FALSE)
<1>1. \A k \in 1 .. 10 : Numerals[k] # NUL
  <2> SUFFICES ASSUME NEW k \in 1 .. 10 PROVE Numerals[k] # NUL
    OBVIOUS
  <2>1. k = 1 \/ k = 2 \/ k = 3 \/ k = 4 \/ k = 5 \/ k = 6 \/ k = 7 \/ k = 8 \/ k = 9 \/ k = 10
    OBVIOUS
  <2> QED
    BY <2>1 DEF Numerals, NUL
<1>2. \A k \in 1 .. 6 : LowerLetters[k] # NUL /\ UpperLetters[k] # NUL
  <2> SUFFICES ASSUME NEW k \in 1 .. 6 PROVE LowerLetters[k] # NUL /\ UpperLetters[k] # NUL
    OBVIOUS
  <2>1. k = 1 \/ k = 2 \/ k = 3 \/ k = 4 \/ k = 5 \/ k = 6
    OBVIOUS
  <2> QED
    BY <2>1 DEF LowerLetters, UpperLetters, NUL
<1>3. (d < 10 => d + 1 \in 1 .. 10) /\ (~(d < 10) => d - 9 \in 1 .. 6)
  OBVIOUS
<1> QED
  BY <1>1, <1>2, <1>3 DEF DigitChar

LEMMA DigitsAreText ==
    ASSUME NEW n \in Nat, NEW b \in 2 .. 16, NEW upper \in BOOLEAN
    PROVE  /\ DigitsOf(n, b, upper) \in Text
           /\ Len(DigitsOf(n, b, upper)) = DigitCount(n, b)
           /\ DigitCount(n, b) \in Nat /\ DigitCount(n, b) >= 1
           /\ \A k \in 1 .. DigitCount(n, b) :
                /\ (n \div Power(b, DigitCount(n, b) - k)) % b \in 0 .. b - 1
                /\ DigitsOf(n, b, upper)[k]
                     = DigitChar((n \div Power(b, DigitCount(n, b) - k)) % b, upper)
<1> DEFINE c == DigitCount(n, b)
           At(k) == (n \div Power(b, c - k)) % b
           digits == [k \in 1 .. c |-> DigitChar(At(k), upper)]
<1>1. c \in Nat /\ c >= 1 /\ b \in Nat \ {0}
  BY DigitsEnd
<1> HIDE DEF c
<1>2. ASSUME NEW k \in 1 .. c PROVE At(k) \in 0 .. b - 1
  <2> DEFINE w == n \div Power(b, c - k)
  <2>1. c - k \in Nat
    BY <1>1
  <2>2. w \in Nat
    BY <1>1, <2>1, HigherDigits
  <2> HIDE DEF w
  <2>3. w % b \in 0 .. b - 1
    BY <1>1, <2>2
  <2> QED
    BY <2>3 DEF w
<1>3. DigitsOf(n, b, upper) = digits
  BY DEF DigitsOf, c
<1> HIDE DEF At
<1>4. digits \in [1 .. c -> Chars]
  <2>1. ASSUME NEW k \in 1 .. c PROVE DigitChar(At(k), upper) \in Chars
    <3>1. At(k) \in 0 .. 15
      BY <1>2
    <3> QED
      BY <3>1, DigitCharIs
  <2> QED
    BY <2>1
<1>5. \A k \in 1 .. c : digits[k] = DigitChar(At(k), upper)
  OBVIOUS
<1> HIDE DEF digits
<1>6. digits \in Text /\ Len(digits) = c
  BY <1>1, <1>4, FunctionIsText
<1> QED
  BY <1>1, <1>2, <1>3, <1>5, <1>6 DEF At, c

LEMMA DigitOfPlace ==
    ASSUME NEW n \in Nat, NEW b \in 2 .. 16, NEW upper \in BOOLEAN,
           NEW k \in 1 .. DigitCount(n, b)
    PROVE  DigitsOf(n, b, upper)[k]
             = DigitChar((n \div Power(b, DigitCount(n, b) - k)) % b, upper)
  BY DigitsAreText

\* Zero has one digit.
LEMMA DigitsOfZero ==
    ASSUME NEW b \in 2 .. 16, NEW upper \in BOOLEAN
    PROVE  DigitsOf(0, b, upper) = <<"0">>
<1> DEFINE digits == DigitsOf(0, b, upper)
<1>1. DigitCount(0, b) = 1
  <2>1. DigitCount(0, b) \in 1 .. 0 + 1
    BY DigitCountIs
  <2> QED
    BY <2>1
<1>2. /\ digits \in Text /\ Len(digits) = 1
      /\ digits[1] = DigitChar((0 \div Power(b, 1 - 1)) % b, upper)
  <2>1. 0 \in Nat /\ 1 \in 1 .. DigitCount(0, b)
    BY <1>1
  <2>2. digits \in Text /\ Len(digits) = DigitCount(0, b)
    BY <2>1, DigitsAreText
  <2>3. digits[1] = DigitChar((0 \div Power(b, DigitCount(0, b) - 1)) % b, upper)
    BY <2>1, DigitOfPlace
  <2> QED
    BY <1>1, <2>2, <2>3
<1>3. 0 \div Power(b, 1 - 1) = 0
  <2>1. b \in Nat \ {0} /\ 1 - 1 = 0
    OBVIOUS
  <2>2. 0 \div Power(b, 0) = 0
    BY <2>1, HigherDigits
  <2> QED
    BY <2>1, <2>2
<1>4. 0 % b = 0
  OBVIOUS
<1>5. DigitChar(0, upper) = "0"
  BY DEF DigitChar, Numerals
<1>6. digits[1] = "0"
  BY <1>2, <1>3, <1>4, <1>5
<1> HIDE DEF digits
<1>7. digits = <<"0">>
  BY <1>2, <1>6 DEF Text
<1> QED
  BY <1>7 DEF digits

\* A number has at most k digits if it is below the k-th power of the base.
LEMMA FewDigits ==
    ASSUME NEW v \in Nat, NEW b \in Nat, b >= 2, NEW k \in Nat, k >= 1, v < Power(b, k)
    PROVE  DigitCount(v, b) <= k
<1> DEFINE c == DigitCount(v, b)
<1>1. c \in 1 .. v + 1 /\ \A j \in 1 .. c - 1 : Power(b, j) <= v
  BY DigitCountIs
<1> HIDE DEF c
<1>2. Power(b, k) \in Nat
  <2>1. b \in Nat \ {0}
    OBVIOUS
  <2> QED
    BY <2>1, PowerIs
<1>3. k \notin 1 .. c - 1
  BY <1>1, <1>2
<1>4. c <= k
  BY <1>1, <1>3
<1> QED
  BY <1>4 DEF c

-----------------------------------------------------------------------------
(* The buffer of a number: padding zeros, the prefix and the sign are put  *)
(* in only while there is room, whatever the width and the precision.      *)

Fits(b) == b \in Text /\ Len(b) <= NTOA_BUFFER_SIZE

LEMMA ZerosUpToFits ==
    ASSUME NEW b, Fits(b), NEW n \in Int
    PROVE  Fits(ZerosUpTo(b, n))
<1> DEFINE k == Least(n, NTOA_BUFFER_SIZE) - Len(b)
           z == Repeated("0", k)
<1>1. /\ Len(b) \in Nat /\ Least(n, NTOA_BUFFER_SIZE) \in Int
      /\ Least(n, NTOA_BUFFER_SIZE) <= NTOA_BUFFER_SIZE
  BY WordTypes DEF Least, Fits, Text
<1>2. k \in Int /\ k <= NTOA_BUFFER_SIZE - Len(b)
  BY <1>1, WordTypes
<1> HIDE DEF k
<1>3. z \in Text /\ Len(z) = IF k < 0 THEN 0 ELSE k
  BY <1>2, Characters, RepeatedIs, Zenon
<1> HIDE DEF z
<1>4. b \o z \in Text /\ Len(b \o z) = Len(b) + Len(z)
  BY <1>3, Joined DEF Fits
<1>5. Fits(b \o z)
  BY <1>1, <1>2, <1>3, <1>4, WordTypes DEF Fits
<1> QED
  BY <1>5 DEF ZerosUpTo, z, k

LEMMA AboveFits ==
    ASSUME NEW b, Fits(b), NEW c \in Chars
    PROVE  Fits(Above(b, c))
<1>1. Append(b, c) \in Text /\ Len(Append(b, c)) = Len(b) + 1 /\ Len(b) \in Nat
  BY Longer, Joined, Zenon DEF Fits
<1>2. Len(b) < NTOA_BUFFER_SIZE => Len(Append(b, c)) <= NTOA_BUFFER_SIZE
  BY <1>1, WordTypes
<1> QED
  BY <1>1, <1>2, Zenon DEF Above, Fits

LEMMA LeadingZerosFits ==
    ASSUME NEW n, Fits(n.buf), NEW f, NEW w \in Int, NEW p \in Int
    PROVE  Fits(LeadingZeros(n, f, w, p)) /\ WidthForZeros(n, f, w) \in Int
<1>1. WidthForZeros(n, f, w) \in Int
  BY DEF WidthForZeros
<1>2. Fits(ZerosUpTo(n.buf, p))
  BY ZerosUpToFits
<1>3. Fits(ZerosUpTo(ZerosUpTo(n.buf, p), WidthForZeros(n, f, w)))
  BY <1>1, <1>2, ZerosUpToFits
<1> QED
  BY <1>1, <1>2, <1>3 DEF LeadingZeros

LEMMA PrefixedFits ==
    ASSUME NEW b, Fits(b), NEW base, NEW f, NEW w, NEW p
    PROVE  Fits(Prefixed(b, base, f, w, p))
<1> DEFINE full == "precision" \notin f /\ Len(b) > 0 /\ Len(b) \in {p, w}
           cut  == IF ~full THEN 0 ELSE IF base = 16 /\ Len(b) > 1 THEN 2 ELSE 1
           less == SubSeq(b, 1, Len(b) - cut)
<1>1. b \in Text /\ Len(b) \in Nat /\ Len(b) <= NTOA_BUFFER_SIZE
  BY Joined, Zenon DEF Fits
<1>2. cut \in Nat /\ cut <= Len(b)
  BY <1>1
<1> HIDE DEF full
<1> HIDE DEF cut
<1>3. Fits(less)
  <2> DEFINE m == Len(b) - cut
  <2>1. m \in 0 .. Len(b) /\ m <= NTOA_BUFFER_SIZE
    BY <1>1, <1>2, WordTypes
  <2> HIDE DEF m
  <2>2. SubSeq(b, 1, m) \in Text /\ Len(SubSeq(b, 1, m)) = m
    BY <1>1, <2>1, CutShort, Zenon
  <2> QED
    BY <2>1, <2>2, Zenon DEF Fits, m
<1> HIDE DEF less
<1>4. Fits(BaseLetter(less, base, f))
  <2>1. Fits(Above(less, "x")) /\ Fits(Above(less, "X")) /\ Fits(Above(less, "b"))
    BY <1>3, Characters, AboveFits, Zenon
  <2> QED
    BY <1>3, <2>1, Zenon DEF BaseLetter
<1>5. Fits(Above(BaseLetter(less, base, f), "0"))
  BY <1>4, Characters, AboveFits, Zenon
<1> QED
  BY <1>5 DEF Prefixed, less, cut, full

LEMMA WithSignFits ==
    ASSUME NEW b, Fits(b), NEW negative \in BOOLEAN, NEW f
    PROVE  Fits(WithSign(b, negative, f))
<1>1. Fits(Above(b, "-")) /\ Fits(Above(b, "+")) /\ Fits(Above(b, " "))
  BY Characters, AboveFits, Zenon
<1> QED
  BY <1>1, Zenon DEF WithSign

\* The 32 characters _ntoa_long and _ntoa_long_long have on the stack suffice
\* for whatever _ntoa_format adds to the digits: zeros up to any width or
\* precision, the prefix of the base and the sign (printf.c 227-277).
THEOREM NumberStaysInBuffer ==
    ASSUME NEW n, Fits(n.buf), n.negative \in BOOLEAN, NEW f, NEW w \in Int, NEW p \in Int
    PROVE  LET room   == WidthForZeros(n, f, w)
               digits == Prefixed(LeadingZeros(n, f, w, p), n.base, f, room, p)
           IN  Fits(digits) /\ Fits(WithSign(digits, n.negative, f))
<1>1. Fits(LeadingZeros(n, f, w, p))
  BY LeadingZerosFits
<1> DEFINE room   == WidthForZeros(n, f, w)
           digits == Prefixed(LeadingZeros(n, f, w, p), n.base, f, room, p)
<1>2. Fits(digits)
  BY <1>1, PrefixedFits
<1>3. Fits(WithSign(digits, n.negative, f))
  BY <1>2, WithSignFits
<1> QED
  BY <1>2, <1>3

\* What is put out of a number is a text.
LEMMA NumberIsText ==
    ASSUME NEW n, Fits(n.buf), n.negative \in BOOLEAN, NEW f, NEW w \in Int, NEW p \in Int
    PROVE  _ntoa_format(n, f, w, p) \in Text
<1> DEFINE room   == WidthForZeros(n, f, w)
           digits == Prefixed(LeadingZeros(n, f, w, p), n.base, f, room, p)
           b      == WithSign(digits, n.negative, f)
           turned == [i \in 1 .. Len(b) |-> b[Len(b) + 1 - i]]
           pad    == Spaces(room - Len(b))
           before == IF {"left", "zeropad"} \intersect f = {} THEN pad ELSE <<>>
           behind == IF "left" \in f THEN pad ELSE <<>>
<1>1. room \in Int
  BY LeadingZerosFits
<1>2. Fits(b)
  BY NumberStaysInBuffer
<1>3. _ntoa_format(n, f, w, p) = (before \o turned) \o behind
  BY DEF _ntoa_format, _out_rev
<1> HIDE DEF b
<1> HIDE DEF room
<1>4. b \in Text /\ room - Len(b) \in Int
  BY <1>1, <1>2, Joined DEF Fits
<1>5. turned \in Text
  BY <1>4, TurnedRound
<1>6. pad \in Text
  BY <1>4, Characters, RepeatedIs DEF Spaces
<1> HIDE DEF turned
<1> HIDE DEF pad
<1>7. before \in Text /\ behind \in Text
  BY <1>6 DEF Text
<1> HIDE DEF before
<1> HIDE DEF behind
<1>8. before \o turned \in Text
  BY <1>5, <1>7, Joined
<1>9. (before \o turned) \o behind \in Text
  BY <1>7, <1>8, Joined
<1> QED
  BY <1>3, <1>9

-----------------------------------------------------------------------------
(* The format: a step that reads a character behind the current one has    *)
(* seen that the current one is not the terminator.                        *)

LEMMA FormatIs ==
    ASSUME call \in Calls
    PROVE  /\ Len(call.format) \in Nat /\ Len(call.args) \in Nat
           /\ call.count \in 0 .. SIZE_MAX
           /\ \A i \in Nat \ {0} : /\ FormatChar(i) \in Chars
                                   /\ FormatChar(i) # NUL => i \in 1 .. Len(call.format)
<1>1. call.format \in Seq(STRING) /\ Len(call.args) \in Nat /\ call.count \in 0 .. SIZE_MAX
  BY PrintfAssumption, Zenon
<1>2. Len(call.format) \in Nat /\ \A i \in 1 .. Len(call.format) : call.format[i] \in STRING
  BY <1>1
<1>3. STRING \subseteq Chars /\ NUL \in Chars
  BY DEF Chars
<1>4. ASSUME NEW i \in Nat \ {0}
      PROVE  /\ FormatChar(i) \in Chars
             /\ FormatChar(i) # NUL => i \in 1 .. Len(call.format)
  <2>1. CASE i <= Len(call.format)
    <3>1. i \in 1 .. Len(call.format)
      BY <1>2, <2>1
    <3>2. FormatChar(i) = call.format[i] /\ call.format[i] \in STRING
      BY <1>2, <2>1, <3>1 DEF FormatChar
    <3> QED
      BY <1>3, <3>1, <3>2
  <2>2. CASE ~(i <= Len(call.format))
    BY <1>3, <2>2 DEF FormatChar
  <2> QED
    BY <2>1, <2>2
<1> QED
  BY <1>1, <1>2, <1>4

\* The terminator is no digit, so the digits have an end (printf.c 188-195).
LEMMA NumberEndIs ==
    ASSUME call \in Calls, NEW i \in 1 .. Len(call.format) + 1
    PROVE  /\ NumberEnd(i) \in i .. Len(call.format) + 1
           /\ ~_is_digit(FormatChar(NumberEnd(i)))
           /\ \A k \in i .. NumberEnd(i) - 1 : _is_digit(FormatChar(k))
<1> DEFINE n == Len(call.format)
           S == {k \in Nat : ~_is_digit(FormatChar(k))}
           IsEnd(j) == /\ ~_is_digit(FormatChar(j))
                       /\ \A k \in i .. j - 1 : _is_digit(FormatChar(k))
<1>1. n \in Nat /\ i \in Nat
  BY FormatIs
<1>2. n + 1 \in S
  <2>1. FormatChar(n + 1) = NUL
    BY <1>1 DEF FormatChar
  <2> QED
    BY <1>1, <2>1, Digits
<1>3. \E j \in i .. n + 1 : j \in S /\ \A l \in i .. j - 1 : l \notin S
  <2> HIDE DEF S
  <2> HIDE DEF n
  <2>1. n + 1 \in Nat /\ i <= n + 1
    BY <1>1 DEF n
  <2> QED
    BY <1>1, <1>2, <2>1, FirstOf
<1>4. \E j \in i .. n + 1 : IsEnd(j)
  BY <1>1, <1>3
<1>5. NumberEnd(i) = CHOOSE j \in i .. n + 1 : IsEnd(j)
  BY DEF NumberEnd
<1> HIDE DEF n
<1>6. NumberEnd(i) \in i .. n + 1 /\ IsEnd(NumberEnd(i))
  BY <1>4, <1>5
<1> QED
  BY <1>6 DEF n

\* Each digit makes a number of those before it, which wraps as an unsigned int
\* does.
LEMMA NumberSteps ==
    ASSUME call \in Calls, NEW i \in 1 .. Len(call.format) + 1
    PROVE  \E value :
              /\ value[0] = 0
              /\ \A k \in 1 .. NumberEnd(i) - i :
                    value[k] = Unsigned(10 * value[k - 1] + DigitValue(FormatChar(i + k - 1)), INT)
              /\ \A k \in 0 .. NumberEnd(i) - i : value[k] \in 0 .. INT - 1
              /\ _atoi(i) = value[NumberEnd(i) - i] /\ NumberEnd(i) - i \in Nat
<1> DEFINE m    == NumberEnd(i) - i
           V    == 0 .. INT - 1
           D(k) == DigitValue(FormatChar(i + k - 1))
           next(k, v) == Unsigned(10 * v + D(k), INT)
           step == [k \in Nat |-> [v \in V |-> IF k \in 1 .. m THEN next(k, v) ELSE v]]
           Is(f) == f = [k \in 0 .. m |-> IF k = 0 THEN 0 ELSE next(k, f[k - 1])]
<1>1. m \in Nat /\ i \in Nat
  BY NumberEndIs, FormatIs
<1>2. \A k \in 1 .. m : D(k) \in Nat
  <2> SUFFICES ASSUME NEW k \in 1 .. m PROVE D(k) \in Nat
    OBVIOUS
  <2>1. i + k - 1 \in i .. NumberEnd(i) - 1
    BY <1>1, NumberEndIs, FormatIs
  <2>2. _is_digit(FormatChar(i + k - 1))
    BY <2>1, NumberEndIs
  <2>3. D(k) \in 0 .. 9
    BY <2>2, Digits
  <2> QED
    BY <2>3
<1>3. 0 \in V
  BY WordTypes
<1> HIDE DEF m
<1> HIDE DEF D
<1>4. \A k \in 1 .. m : \A v \in V : next(k, v) \in V
  <2> SUFFICES ASSUME NEW k \in 1 .. m, NEW v \in V PROVE next(k, v) \in V
    OBVIOUS
  <2>1. 10 * v + D(k) \in Int
    BY <1>2, WordTypes
  <2> QED
    BY <2>1, WordTypes, Wraps
<1> HIDE DEF next
<1> HIDE DEF V
<1>5. step \in [Nat -> [V -> V]]
  BY <1>4
<1>6. PICK f \in [0 .. m -> V] : Successive(f, 0, step, m)
  <2> HIDE DEF step
  <2> QED
    BY <1>1, <1>3, <1>5, Recursion
<1>7. f[0] = 0 /\ \A k \in 1 .. m : f[k] = step[k][f[k - 1]]
  <2> HIDE DEF step
  <2> QED
    BY <1>6 DEF Successive
<1>8. \A k \in 1 .. m : f[k] = next(k, f[k - 1])
  <2> SUFFICES ASSUME NEW k \in 1 .. m PROVE f[k] = next(k, f[k - 1])
    OBVIOUS
  <2>1. k - 1 \in 0 .. m /\ k \in Nat
    BY <1>1
  <2>2. f[k - 1] \in V
    BY <2>1
  <2>3. step[k][f[k - 1]] = next(k, f[k - 1])
    BY <2>1, <2>2
  <2> QED
    BY <1>7, <2>3
<1> HIDE DEF step
<1>9. Is(f)
  <2> DEFINE g == [k \in 0 .. m |-> IF k = 0 THEN 0 ELSE next(k, f[k - 1])]
  <2>1. \A k \in 0 .. m : f[k] = g[k]
    BY <1>1, <1>7, <1>8
  <2>2. f = [k \in 0 .. m |-> f[k]] /\ g = [k \in 0 .. m |-> g[k]]
    OBVIOUS
  <2> HIDE DEF g
  <2>3. f = g
    BY <2>1, <2>2
  <2> QED
    BY <2>3 DEF g
<1> DEFINE value == CHOOSE v : Is(v)
<1>10. Is(value)
  BY <1>9
<1>11. _atoi(i) = value[m]
  BY DEF _atoi, m, D, next
<1> HIDE DEF value
<1>12. value[0] = 0 /\ \A k \in 1 .. m : value[k] = next(k, value[k - 1])
  <2>1. \A k \in 0 .. m : value[k] = IF k = 0 THEN 0 ELSE next(k, value[k - 1])
    BY <1>10
  <2> QED
    BY <1>1, <2>1
<1> DEFINE S == {k \in Nat : k <= m => value[k] \in V}
<1>13. 0 \in S
  BY <1>3, <1>12
<1>14. \A k \in Nat : k \in S => k + 1 \in S
  <2> SUFFICES ASSUME NEW k \in Nat, k \in S, k + 1 <= m PROVE value[k + 1] \in V
    OBVIOUS
  <2>1. value[k] \in V /\ k + 1 \in 1 .. m /\ (k + 1) - 1 = k
    BY <1>1
  <2> QED
    BY <1>4, <1>12, <2>1
<1>15. Nat \subseteq S
  <2> HIDE DEF S
  <2> QED
    BY <1>13, <1>14, Induction
<1>16. \A k \in 0 .. m : value[k] \in V
  BY <1>1, <1>15
<1> QED
  BY <1>1, <1>11, <1>12, <1>16 DEF V, m, D, next

LEMMA NumberIsInt ==
    ASSUME call \in Calls, NEW i \in 1 .. Len(call.format) + 1
    PROVE  _atoi(i) \in 0 .. INT - 1
<1>1. PICK value : /\ \A k \in 0 .. NumberEnd(i) - i : value[k] \in 0 .. INT - 1
                   /\ _atoi(i) = value[NumberEnd(i) - i] /\ NumberEnd(i) - i \in Nat
  BY NumberSteps
<1> QED
  BY <1>1

-----------------------------------------------------------------------------
(* The invariant: the types, with those of the number being converted, and *)
(* which cells of the buffer are written.                                  *)

NumberOK ==
    /\ num \in [value : 0 .. LONG - 1, negative : BOOLEAN, base : {2, 8, 10, 16}, buf : Text]
    /\ pc = "digits" => Len(num.buf) < NTOA_BUFFER_SIZE

\* The cells below idx, as far as there are any; behind the text its NUL.
BufferOK ==
    /\ pc = "call" => idx = 0 /\ device = "null"
    /\ device # "buffer" => DOMAIN buffer = {}
    /\ device = "buffer" /\ pc # "done" => DOMAIN buffer = 0 .. Least(idx, maxlen) - 1
    /\ device = "buffer" /\ pc = "done" /\ maxlen = 0 => DOMAIN buffer = {}
    /\ Terminated

IInv == TypeOK /\ call \in Calls /\ NumberOK /\ BufferOK

Places == {"scan", "flags", "width", "precision", "length", "specifier", "digits", "format"}

\* The parts of the state the parser moves.
ParserOK ==
    /\ at \in 1 .. Len(call.format) + 1 /\ arg \in 0 .. Len(call.args)
    /\ width \in 0 .. INT - 1 /\ precision \in 0 .. INT - 1

LEMMA NoNumberIs == NoNumber \in [value : 0 .. LONG - 1, negative : BOOLEAN, base : {2, 8, 10, 16}, buf : Text]
<1>1. <<>> \in Text /\ 0 \in 0 .. LONG - 1 /\ FALSE \in BOOLEAN /\ 10 \in {2, 8, 10, 16}
  BY WordTypes DEF Text
<1> QED
  BY <1>1 DEF NoNumber

\* The number's digits fit their buffer.
LEMMA NumberFits ==
    ASSUME TypeOK, NumberOK
    PROVE  Fits(num.buf) /\ num.negative \in BOOLEAN
  BY DEF TypeOK, NumberOK, Fits

LEMMA InitInv == ASSUME Init PROVE IInv
<1>1. Len(call.format) \in Nat /\ Len(call.args) \in Nat
  BY FormatIs DEF Init
<1>2. NumberOK /\ num.value = 0 /\ num.buf = <<>>
  <2>1. num.value = 0 /\ num.buf = <<>>
    BY DEF Init, NoNumber
  <2> QED
    BY <2>1, NoNumberIs DEF Init, NumberOK
<1>3. BufferOK
  <2>1. DOMAIN buffer = {}
    BY DEF Init
  <2> QED
    BY <2>1 DEF Init, BufferOK, Terminated
<1>4. Len(num.buf) <= NTOA_BUFFER_SIZE
  BY <1>2, WordTypes
<1>5. TypeOK
  BY <1>1, <1>2, <1>4, WordTypes DEF Init, TypeOK
<1> QED
  BY <1>2, <1>3, <1>5 DEF Init, IInv

\* A step that puts nothing out and leaves the parser within the format.
LEMMA Quiet ==
    ASSUME IInv, pc \in Places, UNCHANGED <<target, output>>,
           pc' \in Places, ParserOK', NumberOK', Len(num'.buf) <= NTOA_BUFFER_SIZE
    PROVE  IInv'
<1>1. call' = call /\ device' = device /\ maxlen' = maxlen /\ idx' = idx /\ buffer' = buffer
  BY DEF target, output
<1>2. num'.value \in 0 .. LONG - 1
  BY DEF NumberOK
<1>3. TypeOK'
  BY <1>1, <1>2 DEF IInv, TypeOK, ParserOK, Places
<1>4. BufferOK'
  BY <1>1 DEF IInv, BufferOK, Terminated, Places
<1> QED
  BY <1>1, <1>3, <1>4 DEF IInv

\* A text put out in a buffer writes the cells it reaches that there are.
LEMMA StoredIs ==
    ASSUME NEW s \in Text, idx \in Nat, maxlen \in Nat,
           DOMAIN buffer = 0 .. Least(idx, maxlen) - 1
    PROVE  DOMAIN Stored(idx, s) = 0 .. Least(idx + Len(s), maxlen) - 1
<1>1. Len(s) \in Nat
  BY Joined
<1>2. DOMAIN Stored(idx, s) = DOMAIN buffer \union {k \in idx .. idx + Len(s) - 1 : k < maxlen}
  BY DEF Stored
<1> DEFINE l == Len(s)
<1> HIDE DEF l
<1>3. (0 .. Least(idx, maxlen) - 1) \union {k \in idx .. idx + l - 1 : k < maxlen}
        = 0 .. Least(idx + l, maxlen) - 1
  BY <1>1 DEF Least, l
<1> QED
  BY <1>2, <1>3 DEF l

\* A step that puts a text out and returns to the format.
LEMMA Loud ==
    ASSUME IInv, pc \in Places, UNCHANGED target, NEW s \in Text, OutOn(s),
           pc' = "scan", ParserOK', NumberOK', Len(num'.buf) <= NTOA_BUFFER_SIZE
    PROVE  IInv'
<1>1. call' = call /\ device' = device /\ maxlen' = maxlen
  BY DEF target
<1>2. Len(s) \in Nat /\ idx' = idx + Len(s) /\ idx \in Nat /\ maxlen \in Nat
  BY Joined, WordTypes DEF OutOn, IInv, TypeOK
<1>3. buffer' = IF device = "buffer" THEN Stored(idx, s) ELSE buffer
  BY DEF OutOn, Out
<1>4. num'.value \in 0 .. LONG - 1
  BY DEF NumberOK
<1>5. idx' \in Nat
  BY <1>2
<1>6. TypeOK'
  BY <1>1, <1>4, <1>5 DEF IInv, TypeOK, ParserOK
<1>7. device = "buffer" => DOMAIN buffer' = 0 .. Least(idx', maxlen) - 1
  <2> SUFFICES ASSUME device = "buffer" PROVE DOMAIN buffer' = 0 .. Least(idx', maxlen) - 1
    OBVIOUS
  <2>1. DOMAIN buffer = 0 .. Least(idx, maxlen) - 1
    BY DEF IInv, BufferOK, Places
  <2>2. DOMAIN Stored(idx, s) = 0 .. Least(idx + Len(s), maxlen) - 1
    BY <1>2, <2>1, StoredIs
  <2> QED
    BY <1>2, <1>3, <2>2
<1>8. device # "buffer" => DOMAIN buffer' = {}
  BY <1>3 DEF IInv, BufferOK
<1>9. BufferOK'
  BY <1>1, <1>7, <1>8 DEF BufferOK, Terminated
<1> QED
  BY <1>1, <1>6, <1>9 DEF IInv

\* The steps of the parser leave the number alone.
LEMMA SameNumber ==
    ASSUME IInv, num' = num, pc' # "digits"
    PROVE  NumberOK' /\ Len(num'.buf) <= NTOA_BUFFER_SIZE
  BY DEF IInv, TypeOK, NumberOK

LEMMA OneOn ==
    ASSUME IInv
    PROVE  /\ at \in Nat /\ at + 1 \in Nat /\ arg \in Nat
           /\ Len(call.format) \in Nat /\ Len(call.args) \in Nat
           /\ Current \in Chars
           /\ Current # NUL => at + 1 \in 1 .. Len(call.format) + 1
           /\ FormatChar(at + 1) # NUL => at + 2 \in 1 .. Len(call.format) + 1
           /\ arg < Len(call.args) => arg + 1 \in 0 .. Len(call.args)
<1>1. /\ at \in 1 .. Len(call.format) + 1 /\ arg \in 0 .. Len(call.args)
      /\ Len(call.format) \in Nat /\ Len(call.args) \in Nat
      /\ \A i \in Nat \ {0} : /\ FormatChar(i) \in Chars
                              /\ FormatChar(i) # NUL => i \in 1 .. Len(call.format)
  BY FormatIs DEF IInv, TypeOK
<1>2. at \in Nat \ {0} /\ at + 1 \in Nat \ {0}
  BY <1>1
<1>3. Current \in Chars /\ (Current # NUL => at \in 1 .. Len(call.format))
  BY <1>1, <1>2 DEF Current
<1>4. FormatChar(at + 1) # NUL => at + 1 \in 1 .. Len(call.format)
  BY <1>1, <1>2
<1> QED
  BY <1>1, <1>2, <1>3, <1>4

LEMMA EnterInv == ASSUME IInv, Enter PROVE IInv'
<1>1. /\ pc = "call" /\ pc' = "scan" /\ idx = 0 /\ device = "null"
      /\ UNCHANGED <<call, at, arg, width, precision, num, idx, buffer>>
  BY DEF Enter, IInv, BufferOK, spec, output
<1>2. device' \in {"buffer", "char", "fct", "null"}
  BY DEF Enter, DeviceOf
<1>3. maxlen' \in 0 .. SIZE_MAX
  BY FormatIs, WordTypes DEF Enter, IInv
<1>4. TypeOK'
  BY <1>1, <1>2, <1>3 DEF IInv, TypeOK
<1>5. DOMAIN buffer = {}
  BY <1>1 DEF IInv, BufferOK
<1>6. maxlen' \in Nat /\ 0 .. Least(0, maxlen') - 1 = {}
  <2>1. maxlen' \in Nat
    BY <1>3, WordTypes
  <2>2. Least(0, maxlen') = 0
    BY <2>1 DEF Least
  <2> QED
    BY <2>1, <2>2
<1>7. BufferOK'
  BY <1>1, <1>5, <1>6 DEF BufferOK, Terminated
<1> QED
  BY <1>1, <1>4, <1>7, SameNumber DEF IInv

LEMMA LiteralInv == ASSUME IInv, Literal PROVE IInv'
<1>1. <<Current>> \in Text
  BY OneOn DEF Text
<1>2. ParserOK'
  BY OneOn DEF Literal, IInv, TypeOK, ParserOK, spec, target
<1>3. NumberOK' /\ Len(num'.buf) <= NTOA_BUFFER_SIZE
  BY SameNumber DEF Literal
<1> QED
  BY <1>1, <1>2, <1>3, Loud DEF Literal, Places

LEMMA PercentInv == ASSUME IInv, Percent PROVE IInv'
<1>1. ParserOK'
  <2>1. 0 \in 0 .. INT - 1 /\ Current # NUL
    BY WordTypes DEF Percent, NUL
  <2> QED
    BY <2>1, OneOn DEF Percent, IInv, TypeOK, ParserOK, target
<1>2. NumberOK' /\ Len(num'.buf) <= NTOA_BUFFER_SIZE
  BY SameNumber DEF Percent
<1> QED
  BY <1>1, <1>2, Quiet DEF Percent, Places

LEMMA FlagInv == ASSUME IInv, Flag PROVE IInv'
<1>1. ParserOK'
  <2>1. Current # NUL
    BY DEF Flag, NUL, FlagChars
  <2> QED
    BY <2>1, OneOn DEF Flag, IInv, TypeOK, ParserOK, target
<1>2. NumberOK' /\ Len(num'.buf) <= NTOA_BUFFER_SIZE
  BY SameNumber DEF Flag
<1> QED
  BY <1>1, <1>2, Quiet DEF Flag, Places

LEMMA NoFlagInv == ASSUME IInv, NoFlag PROVE IInv'
<1>1. ParserOK'
  BY DEF NoFlag, IInv, TypeOK, ParserOK, target, spec
<1>2. NumberOK' /\ Len(num'.buf) <= NTOA_BUFFER_SIZE
  BY SameNumber DEF NoFlag
<1> QED
  BY <1>1, <1>2, Quiet DEF NoFlag, Places

LEMMA WidthDigitsInv == ASSUME IInv, WidthDigits PROVE IInv'
<1>1. ParserOK'
  <2>1. at \in 1 .. Len(call.format) + 1 /\ call \in Calls /\ Len(call.format) \in Nat
    BY OneOn DEF IInv, TypeOK
  <2>2. _atoi(at) \in 0 .. INT - 1 /\ NumberEnd(at) \in at .. Len(call.format) + 1
    BY <2>1, NumberIsInt, NumberEndIs
  <2>3. NumberEnd(at) \in 1 .. Len(call.format) + 1
    BY <2>1, <2>2
  <2> QED
    BY <2>2, <2>3 DEF WidthDigits, IInv, TypeOK, ParserOK, target
<1>2. NumberOK' /\ Len(num'.buf) <= NTOA_BUFFER_SIZE
  BY SameNumber DEF WidthDigits
<1> QED
  BY <1>1, <1>2, Quiet DEF WidthDigits, Places

LEMMA WidthArgumentInv == ASSUME IInv, ArgumentsMatch, WidthArgument PROVE IInv'
<1>1. ParserOK'
  <2>1. Current # NUL
    BY DEF WidthArgument, NUL
  <2>2. arg < Len(call.args) /\ Arg \in Ints
    BY DEF ArgumentsMatch, Given, WidthArgument
  <2>3. Arg \in Int /\ 2 * Arg < INT
    BY <2>2 DEF Ints
  <2> DEFINE a == Arg
  <2>4. Negated(a, INT) \in 0 .. INT - 1
    BY <2>3, WordTypes, Wraps
  <2>5. width' = IF a < 0 THEN Negated(a, INT) ELSE a
    BY DEF WidthArgument
  <2>6. a \in Int /\ 2 * a < INT
    BY <2>3
  <2> HIDE DEF a
  <2>7. width' \in 0 .. INT - 1
    BY <2>4, <2>5, <2>6, WordTypes
  <2> QED
    BY <2>1, <2>2, <2>7, OneOn DEF WidthArgument, IInv, TypeOK, ParserOK, target
<1>2. NumberOK' /\ Len(num'.buf) <= NTOA_BUFFER_SIZE
  BY SameNumber DEF WidthArgument
<1> QED
  BY <1>1, <1>2, Quiet DEF WidthArgument, Places

LEMMA NoWidthInv == ASSUME IInv, NoWidth PROVE IInv'
<1>1. ParserOK'
  BY DEF NoWidth, IInv, TypeOK, ParserOK, target, spec
<1>2. NumberOK' /\ Len(num'.buf) <= NTOA_BUFFER_SIZE
  BY SameNumber DEF NoWidth
<1> QED
  BY <1>1, <1>2, Quiet DEF NoWidth, Places

LEMMA PrecisionInv == ASSUME IInv, ArgumentsMatch, Precision PROVE IInv'
<1>1. ParserOK'
  <2>1. at + 1 \in 1 .. Len(call.format) + 1
    BY OneOn DEF Precision, NUL
  <2>2. /\ at \in 1 .. Len(call.format) + 1 /\ call \in Calls /\ Len(call.format) \in Nat
        /\ arg \in 0 .. Len(call.args) /\ width' = width /\ call' = call
        /\ width \in 0 .. INT - 1 /\ precision \in 0 .. INT - 1
    BY OneOn DEF IInv, TypeOK, Precision, target
  <2>3. CASE /\ precision' = _atoi(at + 1)
             /\ at' = NumberEnd(at + 1)
             /\ UNCHANGED arg
    <3>1. _atoi(at + 1) \in 0 .. INT - 1 /\ NumberEnd(at + 1) \in at + 1 .. Len(call.format) + 1
      BY <2>1, <2>2, NumberIsInt, NumberEndIs
    <3>2. NumberEnd(at + 1) \in 1 .. Len(call.format) + 1
      BY <2>2, <3>1
    <3> QED
      BY <2>2, <2>3, <3>1, <3>2 DEF ParserOK
  <2>4. CASE /\ FormatChar(at + 1) = "*"
             /\ precision' = IF Arg > 0 THEN Arg ELSE 0
             /\ at' = at + 2 /\ arg' = arg + 1
    <3>1. arg < Len(call.args) /\ Arg \in Ints
      BY <2>4 DEF ArgumentsMatch, Given, Precision
    <3> DEFINE a == Arg
    <3>2. a \in Int /\ 2 * a < INT
      BY <3>1 DEF Ints
    <3>3. precision' = IF a > 0 THEN a ELSE 0
      BY <2>4
    <3> HIDE DEF a
    <3>4. precision' \in 0 .. INT - 1
      BY <3>2, <3>3, WordTypes
    <3>5. at + 2 \in 1 .. Len(call.format) + 1 /\ arg + 1 \in 0 .. Len(call.args)
      BY <2>4, <3>1, OneOn DEF NUL
    <3> QED
      BY <2>2, <2>4, <3>4, <3>5 DEF ParserOK
  <2>5. CASE /\ at' = at + 1
             /\ UNCHANGED <<precision, arg>>
    BY <2>1, <2>2, <2>5 DEF ParserOK
  <2> QED
    BY <2>3, <2>4, <2>5 DEF Precision
<1>2. NumberOK' /\ Len(num'.buf) <= NTOA_BUFFER_SIZE
  BY SameNumber DEF Precision
<1> QED
  BY <1>1, <1>2, Quiet DEF Precision, Places

LEMMA NoPrecisionInv == ASSUME IInv, NoPrecision PROVE IInv'
<1>1. ParserOK'
  BY DEF NoPrecision, IInv, TypeOK, ParserOK, target, spec
<1>2. NumberOK' /\ Len(num'.buf) <= NTOA_BUFFER_SIZE
  BY SameNumber DEF NoPrecision
<1> QED
  BY <1>1, <1>2, Quiet DEF NoPrecision, Places

LEMMA LengthInv == ASSUME IInv, Length PROVE IInv'
<1>1. ParserOK'
  <2>1. at + LengthOf[2] \in 1 .. Len(call.format) + 1
    <3>1. CASE Current = "l" /\ FormatChar(at + 1) = "l"
      BY <3>1, OneOn DEF LengthOf, NUL
    <3>2. CASE Current = "l" /\ FormatChar(at + 1) # "l"
      BY <3>2, OneOn DEF LengthOf, NUL
    <3>3. CASE Current = "h" /\ FormatChar(at + 1) = "h"
      BY <3>3, OneOn DEF LengthOf, NUL
    <3>4. CASE Current = "h" /\ FormatChar(at + 1) # "h"
      BY <3>4, OneOn DEF LengthOf, NUL
    <3>5. CASE Current \in {"t", "j", "z"}
      BY <3>5, OneOn DEF LengthOf, NUL
    <3>6. CASE Current \notin {"l", "h", "t", "j", "z"}
      <4>1. LengthOf[2] = 0
        BY <3>6 DEF LengthOf
      <4> QED
        BY <4>1, OneOn DEF IInv, TypeOK
    <3> QED
      BY <3>1, <3>2, <3>3, <3>4, <3>5, <3>6
  <2> QED
    BY <2>1 DEF Length, IInv, TypeOK, ParserOK, target
<1>2. NumberOK' /\ Len(num'.buf) <= NTOA_BUFFER_SIZE
  BY SameNumber DEF Length
<1> QED
  BY <1>1, <1>2, Quiet DEF Length, Places

-----------------------------------------------------------------------------
(* The specifiers.                                                         *)

NumberSet == [value : 0 .. LONG - 1, negative : BOOLEAN, base : {2, 8, 10, 16}, buf : Text]

\* A conversion begins with an empty buffer, which has room for a digit.
LEMMA ConversionBegins ==
    ASSUME NEW value \in 0 .. LONG - 1, NEW negative \in BOOLEAN, NEW base \in {2, 8, 10, 16}, NEW f,
           _ntoa_long(value, negative, base, f)
    PROVE  pc' \in Places /\ NumberOK' /\ Len(num'.buf) <= NTOA_BUFFER_SIZE
<1>1. num' = [value |-> value, negative |-> negative, base |-> base, buf |-> <<>>]
  BY DEF _ntoa_long
<1>2. num' \in NumberSet /\ num'.buf = <<>>
  <2>1. <<>> \in Text
    BY DEF Text
  <2> QED
    BY <1>1, <2>1 DEF NumberSet
<1>3. Len(num'.buf) = 0
  BY <1>2
<1>4. pc' \in Places
  BY DEF _ntoa_long, Places
<1> QED
  BY <1>2, <1>3, <1>4, WordTypes DEF NumberOK, NumberSet

\* What a conversion step leaves is the invariant again.
LEMMA ConversionInv ==
    ASSUME IInv, pc = "specifier", Current # NUL, arg < Len(call.args),
           at' = at + 1, arg' = arg + 1, UNCHANGED <<target, precision, output>>,
           width' \in 0 .. INT - 1,
           pc' \in Places, NumberOK', Len(num'.buf) <= NTOA_BUFFER_SIZE
    PROVE  IInv'
<1>1. ParserOK'
  BY OneOn DEF IInv, TypeOK, ParserOK, target
<1>2. pc \in Places
  BY DEF Places
<1> QED
  BY <1>1, <1>2, Quiet

LEMMA SignedIntegerInv == ASSUME IInv, ArgumentsMatch, SignedInteger PROVE IInv'
<1>1. pc = "specifier" /\ Current \in SignedChars /\ Current # NUL
  BY DEF SignedInteger, SignedChars, NUL
<1>2. arg < Len(call.args) /\ Arg \in Int
  BY <1>1 DEF ArgumentsMatch, Given
<1> DEFINE f    == IntegerFlags(Current, flags)
           size == TypeSize(f)
           v    == Signed(Arg, size)
           wide == IF size = LONG THEN LONG ELSE INT
           n    == IF v > 0 THEN v ELSE Negated(v, wide)
<1>3. _ntoa_long(n, v < 0, 10, f)
  BY DEF SignedInteger, _ntoa_long_long
<1>4. n \in 0 .. LONG - 1
  <2>1. size \in Nat \ {0} /\ size <= LONG
    BY TypeSizeIs, WordTypes
  <2>2. wide \in Nat \ {0} /\ wide <= LONG
    BY WordTypes
  <2> HIDE DEF size
  <2> HIDE DEF wide
  <2>3. v \in Int /\ v < size
    BY <1>2, <2>1, Wraps
  <2> HIDE DEF v
  <2>4. Negated(v, wide) \in 0 .. wide - 1
    BY <2>2, <2>3, Wraps
  <2> QED
    BY <2>1, <2>2, <2>3, <2>4, WordTypes
<1> HIDE DEF n
<1>5. (v < 0) \in BOOLEAN
  OBVIOUS
<1> HIDE DEF v
<1> HIDE DEF f
<1>6. pc' \in Places /\ NumberOK' /\ Len(num'.buf) <= NTOA_BUFFER_SIZE
  BY <1>3, <1>4, <1>5, ConversionBegins
<1>7. /\ at' = at + 1 /\ arg' = arg + 1 /\ UNCHANGED <<target, precision, output>>
      /\ width' \in 0 .. INT - 1
  BY DEF SignedInteger, IInv, TypeOK
<1> QED
  BY <1>1, <1>2, <1>6, <1>7, ConversionInv

LEMMA UnsignedIntegerInv == ASSUME IInv, ArgumentsMatch, UnsignedInteger PROVE IInv'
<1>1. pc = "specifier" /\ Current \in UnsignedChars /\ Current # NUL
  BY DEF UnsignedInteger, UnsignedChars, NUL
<1>2. arg < Len(call.args) /\ Arg \in Int
  BY <1>1 DEF ArgumentsMatch, Given
<1> DEFINE f    == IntegerFlags(Current, flags)
           size == TypeSize(f)
           n    == Unsigned(Arg, size)
           base == BaseOf(Current)
<1>3. _ntoa_long(n, FALSE, base, f)
  BY DEF UnsignedInteger, _ntoa_long_long
<1>4. n \in 0 .. LONG - 1
  <2>1. size \in Nat \ {0} /\ size <= LONG
    BY TypeSizeIs, WordTypes
  <2> HIDE DEF size
  <2>2. n \in 0 .. size - 1
    BY <1>2, <2>1, Wraps
  <2> HIDE DEF n
  <2> QED
    BY <2>1, <2>2, WordTypes
<1>5. base \in {2, 8, 10, 16}
  BY DEF BaseOf
<1> HIDE DEF n
<1> HIDE DEF base
<1> HIDE DEF f
<1>6. pc' \in Places /\ NumberOK' /\ Len(num'.buf) <= NTOA_BUFFER_SIZE
  BY <1>3, <1>4, <1>5, ConversionBegins
<1>7. /\ at' = at + 1 /\ arg' = arg + 1 /\ UNCHANGED <<target, precision, output>>
      /\ width' \in 0 .. INT - 1
  BY DEF UnsignedInteger, IInv, TypeOK
<1> QED
  BY <1>1, <1>2, <1>6, <1>7, ConversionInv

LEMMA PointerInv == ASSUME IInv, ArgumentsMatch, Pointer PROVE IInv'
<1>1. pc = "specifier" /\ Current = "p" /\ Current # NUL
  BY DEF Pointer, NUL
<1>2. arg < Len(call.args) /\ Arg \in Int
  BY <1>1 DEF ArgumentsMatch, Given
<1> DEFINE f == flags \union {"zeropad", "uppercase"}
           n == Unsigned(Arg, LONG)
<1>3. _ntoa_long(n, FALSE, 16, f)
  BY DEF Pointer, _ntoa_long_long
<1>4. n \in 0 .. LONG - 1
  BY <1>2, WordTypes, Wraps
<1> HIDE DEF n
<1> HIDE DEF f
<1>5. pc' \in Places /\ NumberOK' /\ Len(num'.buf) <= NTOA_BUFFER_SIZE
  BY <1>3, <1>4, ConversionBegins
<1>6. /\ at' = at + 1 /\ arg' = arg + 1 /\ UNCHANGED <<target, precision, output>>
      /\ width' \in 0 .. INT - 1
  BY WordTypes DEF Pointer
<1> QED
  BY <1>1, <1>2, <1>5, <1>6, ConversionInv

LEMMA DivideInv == ASSUME IInv, Divide PROVE IInv'
<1> DEFINE up == "uppercase" \in flags
           c  == DigitChar(num.value % num.base, up)
           q  == num.value \div num.base
<1>1. /\ num.value \in Nat /\ num.value <= LONG - 1 /\ num.base \in {2, 8, 10, 16}
      /\ num.negative \in BOOLEAN /\ num.buf \in Text /\ num \in NumberSet
      /\ Len(num.buf) < NTOA_BUFFER_SIZE
  BY WordTypes DEF IInv, NumberOK, NumberSet, Divide
<1>2. q \in 0 .. LONG - 1
  <2>1. num.base \in Nat \ {0}
    BY <1>1
  <2>2. q \in 0 .. num.value
    BY <1>1, <2>1, QuotientAtMost
  <2> HIDE DEF q
  <2> QED
    BY <1>1, <2>2, WordTypes
<1>3. c \in Chars
  <2> DEFINE d == num.value % num.base
  <2>1. d \in 0 .. num.base - 1
    <3>1. num.base \in Nat \ {0}
      BY <1>1
    <3> QED
      BY <1>1, <3>1, Split
  <2> HIDE DEF d
  <2>2. d \in 0 .. 15
    BY <1>1, <2>1
  <2>3. up \in BOOLEAN
    OBVIOUS
  <2> HIDE DEF up
  <2>4. DigitChar(d, up) \in Chars
    BY <2>2, <2>3, DigitCharIs
  <2> QED
    BY <2>4 DEF d
<1>4. num' = [num EXCEPT !.value = q, !.buf = Append(num.buf, c)]
  BY DEF Divide
<1> HIDE DEF c
<1> HIDE DEF q
<1>5. Append(num.buf, c) \in Text /\ Len(Append(num.buf, c)) = Len(num.buf) + 1 /\ Len(num.buf) \in Nat
  BY <1>1, <1>3, Longer, Joined
<1>6. /\ num' \in NumberSet
      /\ num'.buf = Append(num.buf, c)
  BY <1>1, <1>2, <1>4, <1>5 DEF NumberSet
<1>7. Len(num'.buf) <= NTOA_BUFFER_SIZE
  BY <1>1, <1>5, <1>6, WordTypes
<1>8. pc' \in Places /\ (pc' = "digits" => Len(num'.buf) < NTOA_BUFFER_SIZE) /\ pc \in Places
  BY DEF Divide, Places
<1>9. NumberOK'
  BY <1>6, <1>8 DEF NumberOK, NumberSet
<1>10. ParserOK'
  BY DEF Divide, IInv, TypeOK, ParserOK, target, spec
<1>11. UNCHANGED <<target, output>>
  BY DEF Divide
<1> QED
  BY <1>7, <1>8, <1>9, <1>10, <1>11, Quiet

\* The number just put out leaves nothing to convert.
LEMMA FormatInv == ASSUME IInv, Format PROVE IInv'
<1>1. _ntoa_format(num, flags, width, precision) \in Text
  <2>1. Fits(num.buf) /\ num.negative \in BOOLEAN
    BY NumberFits DEF IInv
  <2>2. width \in Int /\ precision \in Int
    BY WordTypes DEF IInv, TypeOK
  <2> QED
    BY <2>1, <2>2, NumberIsText
<1>2. NumberOK' /\ Len(num'.buf) <= NTOA_BUFFER_SIZE
  <2>1. num' = NoNumber /\ pc' = "scan"
    BY DEF Format
  <2>2. NoNumber.buf = <<>>
    BY DEF NoNumber
  <2> QED
    BY <2>1, <2>2, NoNumberIs, WordTypes DEF NumberOK
<1>3. ParserOK'
  BY DEF Format, IInv, TypeOK, ParserOK, target, spec
<1>4. pc \in Places /\ pc' = "scan" /\ UNCHANGED target /\ OutOn(_ntoa_format(num, flags, width, precision))
  BY DEF Format, Places
<1> QED
  BY <1>1, <1>2, <1>3, <1>4, Loud

LEMMA PaddedIs ==
    ASSUME NEW s \in Text, NEW l \in Int, NEW w \in Int, NEW f
    PROVE  Padded(s, l, w, f) \in Text
<1>1. Spaces(w - l) \in Text
  <2> DEFINE n == w - l
  <2>1. n \in Int
    OBVIOUS
  <2> HIDE DEF n
  <2>2. " " \in Chars
    BY Characters, Zenon
  <2>3. Repeated(" ", n) \in Text
    BY <2>1, <2>2, RepeatedIs, Zenon
  <2> QED
    BY <2>3 DEF Spaces, n
<1>2. s \o Spaces(w - l) \in Text /\ Spaces(w - l) \o s \in Text
  BY <1>1, Joined
<1> QED
  BY <1>2 DEF Padded

\* A text put out behind a directive; s is what it shows.
LEMMA ShownInv ==
    ASSUME IInv, pc = "specifier", Current # NUL, NEW s \in Text, OutOn(s),
           at' = at + 1, arg' \in 0 .. Len(call.args), pc' = "scan", UNCHANGED <<target, spec, num>>
    PROVE  IInv'
<1>1. ParserOK'
  BY OneOn DEF IInv, TypeOK, ParserOK, target, spec
<1>2. NumberOK' /\ Len(num'.buf) <= NTOA_BUFFER_SIZE
  BY SameNumber
<1> QED
  BY <1>1, <1>2, Loud DEF Places

LEMMA CharacterInv == ASSUME IInv, ArgumentsMatch, Character PROVE IInv'
<1>1. pc = "specifier" /\ Current = "c" /\ Current # NUL
  BY DEF Character, NUL
<1>2. arg < Len(call.args) /\ Arg \in STRING
  BY <1>1 DEF ArgumentsMatch, Given
<1>3. <<Arg>> \in Text
  BY <1>2, FromStrings
<1>4. Padded(<<Arg>>, 1, width, flags) \in Text
  BY <1>3, PaddedIs, WordTypes DEF IInv, TypeOK
<1> QED
  BY <1>1, <1>2, <1>4, OneOn, ShownInv DEF Character

LEMMA StringInv == ASSUME IInv, ArgumentsMatch, String PROVE IInv'
<1>1. pc = "specifier" /\ Current = "s" /\ Current # NUL
  BY DEF String, NUL
<1>2. arg < Len(call.args) /\ Arg \in Seq(STRING)
  BY <1>1 DEF ArgumentsMatch, Given
<1>3. Arg \in Text
  BY <1>2, FromStrings
<1> DEFINE most     == IF precision # 0 THEN precision ELSE SIZE_MAX
           measured == _strnlen_s(Arg, most)
           l        == IF "precision" \in flags THEN Least(measured, precision) ELSE measured
           shown    == ShownOf(Arg, flags, l)
<1>4. Len(Arg) \in Nat
  BY <1>3, Joined
<1>5. most \in Nat /\ precision \in Nat
  BY WordTypes DEF IInv, TypeOK
<1> HIDE DEF most
<1>6. measured \in 0 .. Len(Arg)
  BY <1>4, <1>5 DEF _strnlen_s, Least
<1> HIDE DEF measured
<1>7. l \in 0 .. Len(Arg)
  BY <1>4, <1>5, <1>6 DEF Least
<1> HIDE DEF l
<1>8. SubSeq(Arg, 1, l) \in Text
  BY <1>3, <1>7, CutShort
<1>9. shown \in Text
  BY <1>3, <1>8 DEF ShownOf
<1> HIDE DEF shown
<1>10. l \in Int /\ width \in Int
  BY <1>4, <1>7, WordTypes DEF IInv, TypeOK
<1>11. Padded(shown, l, width, flags) \in Text
  BY <1>9, <1>10, PaddedIs
<1>12. OutOn(Padded(shown, l, width, flags))
  BY DEF String, shown, l, measured, most
<1> QED
  BY <1>1, <1>2, <1>11, <1>12, OneOn, ShownInv DEF String

LEMMA OtherInv == ASSUME IInv, ArgumentsMatch, Other PROVE IInv'
<1>1. pc = "specifier" /\ Current # NUL
  BY DEF Other, ArgumentsMatch
<1>2. <<Current>> \in Text
  BY OneOn DEF Text
<1>3. arg' \in 0 .. Len(call.args)
  BY DEF Other, IInv, TypeOK
<1> QED
  BY <1>1, <1>2, <1>3, ShownInv DEF Other

\* The terminator is written behind the text, or over its last cell, or nowhere.
LEMMA TerminateInv == ASSUME IInv, Terminate PROVE IInv'
<1>1. /\ pc = "scan" /\ pc' = "done" /\ Out(TerminatorIndex, <<NUL>>)
      /\ UNCHANGED <<call, device, maxlen, at, arg, width, precision, num, idx>>
  BY DEF Terminate, target, spec
<1>2. idx \in Nat /\ maxlen \in Nat
  BY WordTypes DEF IInv, TypeOK
<1>3. TypeOK'
  BY <1>1 DEF IInv, TypeOK
<1>4. NumberOK'
  BY <1>1 DEF IInv, NumberOK
<1>5. device # "buffer" => DOMAIN buffer' = {}
  BY <1>1 DEF IInv, BufferOK, Out
<1>6. ASSUME device = "buffer", maxlen = 0 PROVE DOMAIN buffer' = {}
  <2>1. DOMAIN buffer = {}
    BY <1>1, <1>2, <1>6 DEF IInv, BufferOK, Least
  <2>2. TerminatorIndex \in Nat
    <3>1. Unsigned(maxlen - 1, SIZE_MAX + 1) \in 0 .. (SIZE_MAX + 1) - 1
      BY <1>2, WordTypes, Wraps
    <3> QED
      BY <1>2, <3>1, WordTypes DEF TerminatorIndex
  <2>3. DOMAIN Stored(TerminatorIndex, <<NUL>>) = {}
    <3> DEFINE i == TerminatorIndex
    <3> HIDE DEF i
    <3>1. \A k \in i .. i + Len(<<NUL>>) - 1 : ~(k < maxlen)
      BY <1>6, <2>2 DEF i
    <3> QED
      BY <2>1, <3>1 DEF Stored, i
  <2> QED
    BY <1>1, <1>6, <2>3 DEF Out
<1>7. ASSUME device = "buffer", maxlen > 0
      PROVE  LET last == IF idx < maxlen THEN idx ELSE maxlen - 1
             IN  DOMAIN buffer' = 0 .. last /\ buffer'[last] = NUL
  <2> DEFINE last == IF idx < maxlen THEN idx ELSE maxlen - 1
             more == {k \in last .. last + Len(<<NUL>>) - 1 : k < maxlen}
  <2>1. TerminatorIndex = last
    <3>1. (maxlen - 1) % (SIZE_MAX + 1) = maxlen - 1
      <4>1. maxlen - 1 \in 0 .. (SIZE_MAX + 1) - 1
        BY <1>2, <1>7, WordTypes DEF IInv, TypeOK
      <4> DEFINE a == maxlen - 1
                 d == SIZE_MAX + 1
      <4>2. d \in Nat \ {0} /\ a \in 0 .. d - 1
        BY <4>1, WordTypes
      <4> HIDE DEF a
      <4> HIDE DEF d
      <4>3. 0 \in Nat /\ (d * 0 + a) % d = a
        BY <4>2, Unique
      <4>4. d * 0 + a = a
        BY <4>2
      <4> QED
        BY <4>3, <4>4 DEF a, d
    <3> QED
      BY <3>1 DEF TerminatorIndex, Unsigned
  <2>2. last \in Nat /\ last < maxlen
    BY <1>2, <1>7
  <2>3. DOMAIN buffer = 0 .. Least(idx, maxlen) - 1
    BY <1>1, <1>7 DEF IInv, BufferOK
  <2>4. DOMAIN buffer = 0 .. last - 1 \/ DOMAIN buffer = 0 .. last
    BY <1>2, <1>7, <2>3 DEF Least
  <2>5. buffer' = Stored(last, <<NUL>>)
    BY <1>1, <1>7, <2>1 DEF Out
  <2> HIDE DEF last
  <2>6. more = {last}
    BY <1>2, <2>2
  <2> HIDE DEF more
  <2>7. Stored(last, <<NUL>>) = [j \in DOMAIN buffer \union more |->
            IF j \in last .. last + Len(<<NUL>>) - 1 THEN <<NUL>>[j - last + 1] ELSE buffer[j]]
    BY DEF Stored, more
  <2>8. DOMAIN buffer \union more = 0 .. last
    BY <2>2, <2>4, <2>6
  <2>9. DOMAIN buffer' = 0 .. last
    BY <2>5, <2>7, <2>8
  <2>10. buffer'[last] = NUL
    <3>1. last \in 0 .. last /\ last \in last .. last + Len(<<NUL>>) - 1 /\ last - last + 1 = 1
      BY <2>2
    <3>2. Stored(last, <<NUL>>)[last] = <<NUL>>[last - last + 1]
      BY <2>7, <2>8, <3>1
    <3>3. <<NUL>>[1] = NUL
      OBVIOUS
    <3> QED
      BY <2>5, <3>1, <3>2, <3>3
  <2> QED
    BY <2>9, <2>10 DEF last
<1>8. BufferOK'
  BY <1>1, <1>5, <1>6, <1>7 DEF BufferOK, Terminated
<1> QED
  BY <1>1, <1>3, <1>4, <1>8 DEF IInv

-----------------------------------------------------------------------------
(* All of it.                                                              *)

LEMMA StepInv == ASSUME IInv, ArgumentsMatch, [Next]_vars PROVE IInv'
<1>1. CASE UNCHANGED vars
  <2>1. IInv' = IInv
    BY <1>1 DEF vars, target, spec, output, IInv, TypeOK, NumberOK, BufferOK, Terminated
  <2> QED
    BY <2>1
<1>2. CASE Next
  BY <1>2, EnterInv, LiteralInv, PercentInv, FlagInv, NoFlagInv, WidthDigitsInv,
     WidthArgumentInv, NoWidthInv, PrecisionInv, NoPrecisionInv, LengthInv,
     SignedIntegerInv, UnsignedIntegerInv, PointerInv, DivideInv, FormatInv,
     CharacterInv, StringInv, OtherInv, TerminateInv DEF Next
<1> QED
  BY <1>1, <1>2

-----------------------------------------------------------------------------
(* The directives of a call: how they are written, and what the formatting *)
(* functions are given for them.                                           *)

Formats(c)   == [k \in 1 .. Len(c.means) |-> FormatOf(c.means[k])]
Arguments(c) == [k \in 1 .. Len(c.means) |-> ArgsOf(c.means[k])]
Texts(c)     == [k \in 1 .. Len(c.means) |-> TextOf(c.means[k])]

\* The first m pieces put one behind the other.
Upto(pieces, m) == FlattenSeq(SubSeq(pieces, 1, m))

\* A directive that begins with "%", and the character it ends with.
Percented(d) == d.conv # "plain" \/ d.value = "%"
Specifier(d) == IF d.conv = "plain" THEN d.value ELSE d.conv

\* How many characters and arguments of a directive have been read when its flags
\* have been, its width, its precision and its length.
AfterFlags(d)     == 1 + Len(FlagText(d.flags))
AfterWidth(d)     == AfterFlags(d) + Len(WidthText(d))
AfterPrecision(d) == AfterWidth(d) + Len(PrecisionText(d))
AfterLength(d)    == AfterPrecision(d) + Len(d.length)
WidthArgs(d)      == IF d.star THEN 1 ELSE 0
PrecisionArgs(d)  == WidthArgs(d) + (IF d.star /\ d.precision # NONE THEN 1 ELSE 0)

\* The flags at those points.
FlagsRead(d)     == {FlagOf(x) : x \in d.flags}
WidthRead(d)     == FlagsRead(d) \union (IF d.star /\ d.width < 0 THEN {"left"} ELSE {})
PrecisionRead(d) == WidthRead(d) \union (IF d.precision # NONE THEN {"precision"} ELSE {})
LengthFlags(l)   == CASE l = <<>>         -> {}
                      [] l = <<"h">>      -> {"short"}
                      [] l = <<"h", "h">> -> {"short", "char"}
                      [] l = <<"l", "l">> -> {"long", "long_long"}
                      [] OTHER            -> {"long"}
LengthRead(d)    == PrecisionRead(d) \union LengthFlags(d.length)
PrecisionIs(d)   == IF d.precision > 0 THEN d.precision ELSE 0

\* The number a directive shows, and what _ntoa_format is given for it.
IsNumber(d)  == d.conv \in SignedChars \union UnsignedChars \union {"p"}
ValueOf(d)   == IF d.conv = "p" THEN Unsigned(d.value, LONG) ELSE Magnitude(d)
Radix(d)     == IF d.conv = "p" THEN 16 ELSE BaseOf(d.conv)
IsUpper(d)   == d.conv \in {"p", "X"}
IsNegative(d) == IsSigned(d) /\ NumberOf(d) < 0
NumberWidth(d) == IF d.conv = "p" THEN POINTER_DIGITS ELSE FieldWidth(d)
NumberFlags(d) ==
    LET f == IF d.conv = "p" THEN LengthRead(d) \union {"zeropad", "uppercase"}
                             ELSE IntegerFlags(d.conv, LengthRead(d))
    IN  IF ValueOf(d) = 0 THEN f \ {"hash"} ELSE f
ValueDigits(d) == IF d.precision # NONE /\ ValueOf(d) = 0 THEN <<>>
                  ELSE DigitsOf(ValueOf(d), Radix(d), IsUpper(d))

\* b holds the text t from its last character to its first.
Reads(b, t) == /\ b \in Text /\ t \in Text /\ Len(b) = Len(t)
               /\ \A k \in 1 .. Len(b) : b[k] = t[Len(t) + 1 - k]

-----------------------------------------------------------------------------
(* Sequences of sequences put one behind the other.                        *)

\* The values of FlattenSeq's recursion.
Chain(g, pieces) ==
    g[1] = pieces[1] /\ \A k \in 2 .. Len(pieces) : g[k] = g[k - 1] \o pieces[k]

LEMMA ChainExists ==
    ASSUME NEW S, NEW pieces \in Seq(Seq(S)), Len(pieces) >= 1
    PROVE  \E g \in [1 .. Len(pieces) -> Seq(S)] : Chain(g, pieces)
<1> DEFINE n == Len(pieces)
           V == Seq(S)
           joins == [k \in Nat |-> [v \in V |-> IF k < n THEN v \o pieces[k + 1] ELSE v]]
<1>1. n \in Nat /\ n - 1 \in Nat /\ \A k \in 1 .. n : pieces[k] \in V
  OBVIOUS
<1>2. joins \in [Nat -> [V -> V]]
  <2>1. ASSUME NEW k \in Nat, NEW v \in V
        PROVE  (IF k < n THEN v \o pieces[k + 1] ELSE v) \in V
    <3>1. k < n => k + 1 \in 1 .. n
      BY <1>1
    <3>2. \A w \in V : v \o w \in V
      OBVIOUS
    <3> QED
      BY <1>1, <3>1, <3>2
  <2> QED
    BY <2>1
<1>3. \A k \in Nat, v \in V : joins[k][v] = IF k < n THEN v \o pieces[k + 1] ELSE v
  OBVIOUS
<1> HIDE DEF joins, V
<1>4. pieces[1] \in V
  BY <1>1
<1>5. PICK f \in [0 .. n - 1 -> V] : Successive(f, pieces[1], joins, n - 1)
  BY <1>1, <1>2, <1>4, Recursion
<1> DEFINE g == [k \in 1 .. n |-> f[k - 1]]
<1>6. g \in [1 .. n -> V]
  BY <1>1
<1>7. g[1] = pieces[1]
  BY <1>1, <1>5 DEF Successive
<1>8. ASSUME NEW k \in 2 .. n PROVE g[k] = g[k - 1] \o pieces[k]
  <2>1. k - 1 \in 1 .. n - 1 /\ k - 1 \in Nat /\ k - 1 < n /\ (k - 1) + 1 = k /\ (k - 1) - 1 \in 0 .. n - 1
    BY <1>1
  <2>2. f[k - 1] = joins[k - 1][f[(k - 1) - 1]] /\ f[(k - 1) - 1] \in V
    BY <1>5, <2>1 DEF Successive
  <2>3. f[k - 1] = f[(k - 1) - 1] \o pieces[(k - 1) + 1]
    BY <1>3, <2>1, <2>2
  <2>4. g[k] = f[k - 1] /\ g[k - 1] = f[(k - 1) - 1]
    BY <1>1, <2>1
  <2> QED
    BY <2>1, <2>3, <2>4
<1> HIDE DEF g
<1>9. Chain(g, pieces)
  BY <1>7, <1>8 DEF Chain
<1> QED
  BY <1>6, <1>9 DEF V

LEMMA FlattenIsChain ==
    ASSUME NEW S, NEW pieces \in Seq(Seq(S)), Len(pieces) >= 1
    PROVE  \E g \in [1 .. Len(pieces) -> Seq(S)] :
              Chain(g, pieces) /\ FlattenSeq(pieces) = g[Len(pieces)]
<1> DEFINE n == Len(pieces)
           F(h) == [k \in 1 .. n |-> IF k = 1 THEN pieces[k] ELSE h[k - 1] \o pieces[k]]
           flat == CHOOSE h : h = F(h)
<1>1. n \in Nat /\ n >= 1
  OBVIOUS
<1>2. PICK g \in [1 .. n -> Seq(S)] : Chain(g, pieces)
  BY ChainExists
<1>3. g = F(g)
  <2>1. ASSUME NEW k \in 1 .. n
        PROVE  g[k] = IF k = 1 THEN pieces[k] ELSE g[k - 1] \o pieces[k]
    <3>1. k # 1 => k \in 2 .. n
      OBVIOUS
    <3> QED
      BY <1>2, <3>1 DEF Chain
  <2>2. g = [k \in 1 .. n |-> g[k]]
    BY <1>2
  <2> QED
    BY <2>1, <2>2
<1>4. flat = F(flat)
  BY <1>3
<1>5. FlattenSeq(pieces) = flat[n]
  BY <1>1 DEF FlattenSeq
<1> HIDE DEF flat
<1>6. ASSUME NEW k \in 1 .. n
      PROVE  flat[k] = IF k = 1 THEN pieces[k] ELSE flat[k - 1] \o pieces[k]
  BY <1>4
<1>7. Chain(flat, pieces)
  <2>1. 1 \in 1 .. n
    BY <1>1
  <2>2. ASSUME NEW k \in 2 .. n PROVE flat[k] = flat[k - 1] \o pieces[k]
    <3>1. k \in 1 .. n /\ k # 1
      OBVIOUS
    <3> QED
      BY <1>6, <3>1
  <2> QED
    BY <1>6, <2>1, <2>2 DEF Chain
<1>8. flat \in [1 .. n -> Seq(S)]
  <2> DEFINE G == {k \in Nat : k + 1 <= n => flat[k + 1] \in Seq(S)}
  <2>1. 0 \in G
    BY <1>1, <1>7 DEF Chain
  <2>2. ASSUME NEW k \in Nat, k \in G PROVE k + 1 \in G
    <3> SUFFICES ASSUME (k + 1) + 1 <= n PROVE flat[(k + 1) + 1] \in Seq(S)
      OBVIOUS
    <3>1. (k + 1) + 1 \in 2 .. n /\ ((k + 1) + 1) - 1 = k + 1 /\ flat[k + 1] \in Seq(S)
      BY <1>1, <2>2
    <3>2. flat[(k + 1) + 1] = flat[((k + 1) + 1) - 1] \o pieces[(k + 1) + 1]
      BY <1>7, <3>1 DEF Chain
    <3>3. pieces[(k + 1) + 1] \in Seq(S)
      BY <3>1
    <3>4. \A v, w \in Seq(S) : v \o w \in Seq(S)
      OBVIOUS
    <3> QED
      BY <3>1, <3>2, <3>3, <3>4
  <2> HIDE DEF G
  <2>3. Nat \subseteq G
    BY <2>1, <2>2, Induction
  <2>4. ASSUME NEW k \in 1 .. n PROVE flat[k] \in Seq(S)
    <3>1. k - 1 \in G /\ (k - 1) + 1 = k
      BY <2>3
    <3> QED
      BY <1>1, <3>1 DEF G
  <2>5. flat = [k \in 1 .. n |-> flat[k]]
    <3>1. flat = [k \in 1 .. n |-> IF k = 1 THEN pieces[k] ELSE flat[k - 1] \o pieces[k]]
      BY <1>4
    <3> QED
      BY <1>6, <3>1
  <2> QED
    BY <2>4, <2>5
<1> QED
  BY <1>5, <1>7, <1>8

\* Chains of pieces that begin alike begin alike.
LEMMA ChainsAgree ==
    ASSUME NEW pieces, NEW others, NEW n \in Nat, n >= 1, n <= Len(pieces), n <= Len(others),
           Len(pieces) \in Nat, Len(others) \in Nat,
           \A k \in 1 .. n : pieces[k] = others[k],
           NEW g, Chain(g, pieces), NEW h, Chain(h, others)
    PROVE  g[n] = h[n]
<1> DEFINE G == {k \in Nat : k + 1 <= n => g[k + 1] = h[k + 1]}
<1>1. 0 \in G
  BY DEF Chain
<1>2. ASSUME NEW k \in Nat, k \in G PROVE k + 1 \in G
  <2> SUFFICES ASSUME (k + 1) + 1 <= n PROVE g[(k + 1) + 1] = h[(k + 1) + 1]
    OBVIOUS
  <2>1. /\ (k + 1) + 1 \in 2 .. Len(pieces) /\ (k + 1) + 1 \in 2 .. Len(others)
        /\ (k + 1) + 1 \in 1 .. n /\ ((k + 1) + 1) - 1 = k + 1 /\ g[k + 1] = h[k + 1]
    BY <1>2
  <2>2. /\ g[(k + 1) + 1] = g[((k + 1) + 1) - 1] \o pieces[(k + 1) + 1]
        /\ h[(k + 1) + 1] = h[((k + 1) + 1) - 1] \o others[(k + 1) + 1]
    BY <2>1 DEF Chain
  <2> QED
    BY <2>1, <2>2
<1> HIDE DEF G
<1>3. Nat \subseteq G
  BY <1>1, <1>2, Induction
<1>4. n - 1 \in G /\ (n - 1) + 1 = n
  BY <1>3
<1> QED
  BY <1>4 DEF G

\* The pieces put together are a sequence, and one more is put behind them.
LEMMA Flattened ==
    ASSUME NEW S, NEW pieces \in Seq(Seq(S))
    PROVE  /\ FlattenSeq(pieces) \in Seq(S)
           /\ Len(pieces) = 0 => FlattenSeq(pieces) = <<>>
           /\ \A x \in Seq(S) : FlattenSeq(Append(pieces, x)) = FlattenSeq(pieces) \o x
<1> DEFINE n == Len(pieces)
<1>1. n \in Nat
  OBVIOUS
<1>2. n = 0 => pieces = <<>> /\ FlattenSeq(pieces) = <<>>
  <2> SUFFICES ASSUME n = 0 PROVE pieces = <<>> /\ FlattenSeq(pieces) = <<>>
    OBVIOUS
  <2>1. pieces = <<>>
    OBVIOUS
  <2>2. FlattenSeq(pieces) = pieces
    BY DEF FlattenSeq
  <2> QED
    BY <2>1, <2>2
<1>3. FlattenSeq(pieces) \in Seq(S)
  <2>1. CASE n = 0
    <3>1. FlattenSeq(pieces) = <<>> /\ <<>> \in Seq(S)
      BY <1>2, <2>1
    <3> HIDE DEF n
    <3> QED
      BY <3>1
  <2>2. CASE n # 0
    <3>1. n >= 1 /\ n \in 1 .. n
      BY <1>1, <2>2
    <3>2. PICK g \in [1 .. n -> Seq(S)] : FlattenSeq(pieces) = g[n]
      BY <3>1, FlattenIsChain
    <3> QED
      BY <3>1, <3>2
  <2> QED
    BY <2>1, <2>2
<1>4. ASSUME NEW x \in Seq(S) PROVE FlattenSeq(Append(pieces, x)) = FlattenSeq(pieces) \o x
  <2> DEFINE more == Append(pieces, x)
  <2>1. /\ more \in Seq(Seq(S)) /\ Len(more) = n + 1 /\ more[n + 1] = x
        /\ \A k \in 1 .. n : more[k] = pieces[k]
    OBVIOUS
  <2> HIDE DEF more
  <2>2. n + 1 >= 1 /\ n + 1 \in Nat
    BY <1>1
  <2>3. PICK h : Chain(h, more) /\ FlattenSeq(more) = h[n + 1]
    BY <2>1, <2>2, FlattenIsChain
  <2>4. CASE n = 0
    <3>1. FlattenSeq(more) = x /\ FlattenSeq(pieces) = <<>>
      BY <1>2, <2>1, <2>3, <2>4 DEF Chain
    <3>2. <<>> \o x = x
      OBVIOUS
    <3> QED
      BY <3>1, <3>2 DEF more
  <2>5. CASE n # 0
    <3>1. n >= 1 /\ n + 1 \in 2 .. Len(more) /\ (n + 1) - 1 = n /\ n <= Len(more)
      BY <1>1, <2>1, <2>5
    <3>2. PICK g : Chain(g, pieces) /\ FlattenSeq(pieces) = g[n]
      BY <3>1, FlattenIsChain
    <3>3. h[n] = g[n]
      <4>1. \A k \in 1 .. n : more[k] = pieces[k]
        BY <2>1
      <4>2. Len(more) \in Nat /\ Len(pieces) \in Nat /\ n <= Len(pieces)
        BY <1>1, <2>1, <2>2
      <4>3. Chain(h, more) /\ Chain(g, pieces)
        BY <2>3, <3>2
      <4> HIDE DEF n
      <4> QED
        BY <1>1, <3>1, <4>1, <4>2, <4>3, ChainsAgree
    <3>4. h[n + 1] = h[(n + 1) - 1] \o more[n + 1]
      BY <2>3, <3>1 DEF Chain
    <3> QED
      BY <2>1, <2>3, <3>1, <3>2, <3>3, <3>4 DEF more
  <2> QED
    BY <2>4, <2>5
<1> QED
  BY <1>2, <1>3, <1>4

LEMMA UptoIs ==
    ASSUME NEW S, NEW pieces \in Seq(Seq(S))
    PROVE  /\ Upto(pieces, 0) = <<>>
           /\ Upto(pieces, Len(pieces)) = FlattenSeq(pieces)
           /\ \A m \in 0 .. Len(pieces) : Upto(pieces, m) \in Seq(S)
<1>1. \A m \in 0 .. Len(pieces) : SubSeq(pieces, 1, m) \in Seq(Seq(S)) /\ Len(SubSeq(pieces, 1, m)) = m
  OBVIOUS
<1>2. 0 \in 0 .. Len(pieces) /\ SubSeq(pieces, 1, Len(pieces)) = pieces
  OBVIOUS
<1>3. \A m \in 0 .. Len(pieces) : Upto(pieces, m) \in Seq(S)
  BY <1>1, Flattened DEF Upto
<1>4. Upto(pieces, 0) = <<>>
  BY <1>1, <1>2, Flattened DEF Upto
<1> QED
  BY <1>2, <1>3, <1>4 DEF Upto

\* Each piece is put behind those before it.
LEMMA UptoNext ==
    ASSUME NEW S, NEW pieces \in Seq(Seq(S)), NEW m \in Nat, m < Len(pieces)
    PROVE  /\ pieces[m + 1] \in Seq(S)
           /\ Upto(pieces, m + 1) = Upto(pieces, m) \o pieces[m + 1]
           /\ Upto(pieces, m) \in Seq(S)
           /\ Len(Upto(pieces, m + 1)) = Len(Upto(pieces, m)) + Len(pieces[m + 1])
<1>1. /\ m + 1 \in 1 .. Len(pieces) /\ m \in 0 .. Len(pieces)
      /\ SubSeq(pieces, 1, m) \in Seq(Seq(S)) /\ pieces[m + 1] \in Seq(S)
      /\ SubSeq(pieces, 1, m + 1) = Append(SubSeq(pieces, 1, m), pieces[m + 1])
  OBVIOUS
<1>2. Upto(pieces, m + 1) = Upto(pieces, m) \o pieces[m + 1]
  BY <1>1, Flattened DEF Upto
<1>3. Upto(pieces, m) \in Seq(S)
  BY <1>1, UptoIs
<1> QED
  BY <1>1, <1>2, <1>3

\* What is put together begins with any number of its first pieces.
LEMMA UptoBegins ==
    ASSUME NEW S, NEW pieces \in Seq(Seq(S)), NEW m \in 0 .. Len(pieces)
    PROVE  /\ Len(Upto(pieces, m)) \in Nat
           /\ Len(Upto(pieces, m)) <= Len(FlattenSeq(pieces))
           /\ \A j \in 1 .. Len(Upto(pieces, m)) : FlattenSeq(pieces)[j] = Upto(pieces, m)[j]
<1> DEFINE n == Len(pieces)
           whole == FlattenSeq(pieces)
           Begins(k) == /\ Len(Upto(pieces, k)) <= Len(whole)
                        /\ \A j \in 1 .. Len(Upto(pieces, k)) : whole[j] = Upto(pieces, k)[j]
           G == {k \in Nat : k <= n => Begins(n - k)}
<1>1. n \in Nat /\ whole \in Seq(S) /\ Upto(pieces, n) = whole
  BY Flattened, UptoIs
<1>2. 0 \in G
  <2>1. n - 0 = n /\ Len(whole) \in Nat
    BY <1>1
  <2> QED
    BY <1>1, <2>1
<1>3. ASSUME NEW k \in Nat, k \in G PROVE k + 1 \in G
  <2> SUFFICES ASSUME k + 1 <= n PROVE Begins(n - (k + 1))
    OBVIOUS
  <2> DEFINE l == n - (k + 1)
             u == Upto(pieces, l)
             v == Upto(pieces, l + 1)
  <2>1. l \in Nat /\ l < n /\ l + 1 = n - k
    BY <1>1
  <2>2. Begins(l + 1)
    BY <1>1, <1>3, <2>1
  <2>3. v = u \o pieces[l + 1] /\ pieces[l + 1] \in Seq(S) /\ u \in Seq(S)
    BY <2>1, UptoNext
  <2> HIDE DEF l
  <2>4. Len(v) <= Len(whole) /\ \A j \in 1 .. Len(v) : whole[j] = v[j]
    BY <2>2
  <2> HIDE DEF u, v
  <2> HIDE DEF whole
  <2>5. v \in Seq(S) /\ Len(v) = Len(u) + Len(pieces[l + 1]) /\ Len(u) \in Nat /\ Len(pieces[l + 1]) \in Nat
        /\ Len(whole) \in Nat /\ \A j \in 1 .. Len(u) : v[j] = u[j]
    BY <1>1, <2>3
  <2>6. Len(u) <= Len(whole) /\ \A j \in 1 .. Len(u) : whole[j] = u[j]
    BY <2>4, <2>5
  <2> QED
    BY <2>6 DEF u, l, whole
<1> HIDE DEF G
<1>4. Nat \subseteq G
  BY <1>2, <1>3, Induction
<1>5. n - m \in G /\ n - (n - m) = m /\ n - m <= n
  BY <1>1, <1>4
<1>6. Begins(m)
  BY <1>5 DEF G
<1>7. Len(Upto(pieces, m)) \in Nat
  <2>1. Upto(pieces, m) \in Seq(S)
    BY UptoIs
  <2> QED
    BY <2>1
<1> QED
  BY <1>6, <1>7

\* The places of a piece.
LEMMA PieceAt ==
    ASSUME NEW S, NEW pieces \in Seq(Seq(S)), NEW m \in Nat, m < Len(pieces),
           NEW j \in 1 .. Len(pieces[m + 1])
    PROVE  /\ Len(Upto(pieces, m)) + j \in 1 .. Len(FlattenSeq(pieces))
           /\ FlattenSeq(pieces)[Len(Upto(pieces, m)) + j] = pieces[m + 1][j]
<1> DEFINE u == Upto(pieces, m)
           v == Upto(pieces, m + 1)
           x == pieces[m + 1]
           whole == FlattenSeq(pieces)
<1>1. v = u \o x /\ x \in Seq(S) /\ u \in Seq(S) /\ whole \in Seq(S)
  BY UptoNext, Flattened
<1>2. Len(v) <= Len(whole) /\ \A k \in 1 .. Len(v) : whole[k] = v[k]
  <2>1. m + 1 \in 0 .. Len(pieces)
    OBVIOUS
  <2> QED
    BY <2>1, UptoBegins
<1> HIDE DEF u, v, whole
<1>3. j \in 1 .. Len(x)
  OBVIOUS
<1> HIDE DEF x
<1>4. Len(u) \in Nat /\ Len(x) \in Nat /\ Len(v) = Len(u) + Len(x) /\ Len(whole) \in Nat
  BY <1>1
<1>5. Len(u) + j \in 1 .. Len(v) /\ Len(u) + j \in 1 .. Len(whole)
  BY <1>2, <1>3, <1>4
<1>6. v[Len(u) + j] = x[j]
  BY <1>1, <1>3, <1>4, SMTT(30)
<1> QED
  BY <1>2, <1>5, <1>6 DEF u, x, whole

\* The elements of what is put together are those of the pieces.
ElementsOf(s) == {s[k] : k \in 1 .. Len(s)}

LEMMA FlattenedElements ==
    ASSUME NEW S, NEW pieces \in Seq(Seq(S))
    PROVE  ElementsOf(FlattenSeq(pieces)) = UNION {ElementsOf(pieces[k]) : k \in 1 .. Len(pieces)}
<1> DEFINE n == Len(pieces)
           All(m) == UNION {ElementsOf(pieces[k]) : k \in 1 .. m}
           G == {m \in Nat : m <= n => ElementsOf(Upto(pieces, m)) = All(m)}
<1>1. n \in Nat
  OBVIOUS
<1>2. 0 \in G
  <2>1. Upto(pieces, 0) = <<>> /\ Len(<<>>) = 0 /\ 1 .. 0 = {}
    BY UptoIs
  <2>2. ElementsOf(<<>>) = {}
    BY <2>1 DEF ElementsOf
  <2>3. All(0) = {}
    BY <2>1
  <2> QED
    BY <2>1, <2>2, <2>3
<1>3. ASSUME NEW m \in Nat, m \in G PROVE m + 1 \in G
  <2> SUFFICES ASSUME m + 1 <= n PROVE ElementsOf(Upto(pieces, m + 1)) = All(m + 1)
    OBVIOUS
  <2> DEFINE u == Upto(pieces, m)
             x == pieces[m + 1]
  <2>1. Upto(pieces, m + 1) = u \o x /\ x \in Seq(S) /\ u \in Seq(S) /\ ElementsOf(u) = All(m)
    <3>1. m < Len(pieces) /\ m <= n
      BY <1>1
    <3> QED
      BY <1>3, <3>1, UptoNext
  <2> HIDE DEF u
  <2> HIDE DEF x
  <2>2. ElementsOf(u \o x) = ElementsOf(u) \union ElementsOf(x)
    <3>1. /\ Len(u) \in Nat /\ Len(x) \in Nat /\ Len(u \o x) = Len(u) + Len(x)
          /\ \A k \in 1 .. Len(u) : (u \o x)[k] = u[k]
          /\ \A k \in 1 .. Len(x) : (u \o x)[Len(u) + k] = x[k]
      BY <2>1, SMTT(30)
    <3> DEFINE v == u \o x
    <3> HIDE DEF v
    <3>2. ASSUME NEW e \in ElementsOf(v) PROVE e \in ElementsOf(u) \union ElementsOf(x)
      <4>1. PICK k \in 1 .. Len(v) : e = v[k]
        BY DEF ElementsOf
      <4>2. k \in 1 .. Len(u) \/ (k - Len(u) \in 1 .. Len(x) /\ Len(u) + (k - Len(u)) = k)
        BY <3>1 DEF v
      <4> QED
        BY <3>1, <4>1, <4>2 DEF ElementsOf, v
    <3>3. ASSUME NEW e \in ElementsOf(u) PROVE e \in ElementsOf(v)
      <4>1. PICK k \in 1 .. Len(u) : e = u[k]
        BY DEF ElementsOf
      <4>2. k \in 1 .. Len(v) /\ v[k] = u[k]
        BY <3>1 DEF v
      <4> QED
        BY <4>1, <4>2 DEF ElementsOf
    <3>4. ASSUME NEW e \in ElementsOf(x) PROVE e \in ElementsOf(v)
      <4>1. PICK k \in 1 .. Len(x) : e = x[k]
        BY DEF ElementsOf
      <4>2. Len(u) + k \in 1 .. Len(v) /\ v[Len(u) + k] = x[k]
        BY <3>1 DEF v
      <4> QED
        BY <4>1, <4>2 DEF ElementsOf
    <3> QED
      BY <3>2, <3>3, <3>4 DEF v
  <2>3. All(m + 1) = All(m) \union ElementsOf(x)
    <3>1. 1 .. m + 1 = (1 .. m) \union {m + 1}
      OBVIOUS
    <3> QED
      BY <3>1 DEF x
  <2> QED
    BY <2>1, <2>2, <2>3
<1> HIDE DEF G
<1>4. n \in G
  BY <1>1, <1>2, <1>3, Induction
<1>5. ElementsOf(Upto(pieces, n)) = All(n)
  BY <1>1, <1>4 DEF G
<1> QED
  BY <1>5, UptoIs

-----------------------------------------------------------------------------
(* Texts without their terminators. *)

LEMMA NulsDropped ==
    ASSUME NEW s \in Text
    PROVE  /\ WithoutNul(s) \in Text /\ WithoutNul(<<>>) = <<>>
           /\ \A c \in Chars : WithoutNul(Append(s, c))
                               = WithoutNul(s) \o (IF c = NUL THEN <<>> ELSE <<c>>)
<1> DEFINE Bit(c) == IF c = NUL THEN <<>> ELSE <<c>>
           Bits(t) == [k \in DOMAIN t |-> IF t[k] = NUL THEN <<>> ELSE <<t[k]>>]
<1>1. \A c \in Chars : Bit(c) \in Seq(Chars)
  OBVIOUS
<1>2. ASSUME NEW t \in Text PROVE Bits(t) \in Seq(Seq(Chars)) /\ Len(Bits(t)) = Len(t)
  <2>1. Len(t) \in Nat /\ DOMAIN t = 1 .. Len(t) /\ \A k \in 1 .. Len(t) : t[k] \in Chars
    BY DEF Text
  <2>2. \A k \in 1 .. Len(t) : Bit(t[k]) \in Seq(Chars)
    BY <1>1, <2>1
  <2>3. Bits(t) = [k \in 1 .. Len(t) |-> Bit(t[k])]
    BY <2>1
  <2> HIDE DEF Bit
  <2>4. [k \in 1 .. Len(t) |-> Bit(t[k])] \in [1 .. Len(t) -> Seq(Chars)]
    BY <2>2
  <2> QED
    BY <2>1, <2>3, <2>4
<1>3. WithoutNul(s) \in Text
  BY <1>2, Flattened DEF WithoutNul, Text
<1>4. WithoutNul(<<>>) = <<>>
  <2>1. <<>> \in Text /\ Len(<<>>) = 0
    BY DEF Text
  <2>2. Bits(<<>>) \in Seq(Seq(Chars)) /\ Len(Bits(<<>>)) = 0
    BY <1>2, <2>1
  <2> HIDE DEF Bits
  <2>3. FlattenSeq(Bits(<<>>)) = <<>>
    BY <2>2, Flattened
  <2> QED
    BY <2>3 DEF WithoutNul, Bits
<1>5. ASSUME NEW c \in Chars PROVE WithoutNul(Append(s, c)) = WithoutNul(s) \o Bit(c)
  <2>1. Append(s, c) \in Text /\ Len(Append(s, c)) = Len(s) + 1 /\ Len(s) \in Nat
    BY Longer DEF Text
  <2>2. /\ Bits(s) \in Seq(Seq(Chars)) /\ Len(Bits(s)) = Len(s)
        /\ Bits(Append(s, c)) \in Seq(Seq(Chars)) /\ Len(Bits(Append(s, c))) = Len(s) + 1
    BY <1>2, <2>1
  <2>3. ASSUME NEW k \in 1 .. Len(s) + 1 PROVE Bits(Append(s, c))[k] = Append(Bits(s), Bit(c))[k]
    <3>1. Bits(Append(s, c))[k] = Bit(Append(s, c)[k])
      BY <2>1 DEF Text
    <3>2. CASE k = Len(s) + 1
      <4>1. Append(s, c)[k] = c
        BY <3>2 DEF Text
      <4> HIDE DEF Bits, Bit
      <4>2. Append(Bits(s), Bit(c))[k] = Bit(c)
        BY <2>2, <3>2
      <4> QED
        BY <3>1, <4>1, <4>2
    <3>3. CASE k # Len(s) + 1
      <4>1. k \in 1 .. Len(s) /\ Append(s, c)[k] = s[k]
        BY <3>3 DEF Text
      <4>2. Bits(s)[k] = Bit(s[k])
        BY <2>1, <4>1 DEF Text
      <4> HIDE DEF Bits, Bit
      <4>3. Append(Bits(s), Bit(c))[k] = Bits(s)[k]
        BY <2>2, <4>1
      <4> QED
        BY <3>1, <4>1, <4>2, <4>3
    <3> QED
      BY <3>2, <3>3
  <2> HIDE DEF Bits
  <2>4. Bit(c) \in Seq(Chars)
    BY <1>1
  <2> HIDE DEF Bit
  <2>5. Bits(Append(s, c)) = Append(Bits(s), Bit(c))
    BY <2>2, <2>3, <2>4, SMTT(30)
  <2>6. FlattenSeq(Append(Bits(s), Bit(c))) = FlattenSeq(Bits(s)) \o Bit(c)
    BY <2>2, <2>4, Flattened
  <2> QED
    BY <2>5, <2>6 DEF WithoutNul, Bits
<1> QED
  BY <1>3, <1>4, <1>5

\* Each text is freed of its terminators on its own.
LEMMA NulsDroppedApart ==
    ASSUME NEW s \in Text, NEW t \in Text
    PROVE  WithoutNul(s \o t) = WithoutNul(s) \o WithoutNul(t)
<1> DEFINE n == Len(t)
           P(m) == SubSeq(t, 1, m)
           G == {m \in Nat : m <= n => WithoutNul(s \o P(m)) = WithoutNul(s) \o WithoutNul(P(m))}
<1>1. n \in Nat /\ P(n) = t
  BY DEF Text
<1>2. WithoutNul(s) \in Text
  BY NulsDropped
<1>3. 0 \in G
  <2>1. P(0) = <<>> /\ s \o <<>> = s
    BY DEF Text
  <2>2. WithoutNul(<<>>) = <<>> /\ WithoutNul(s) \o <<>> = WithoutNul(s)
    BY <1>2, NulsDropped DEF Text
  <2> QED
    BY <2>1, <2>2
<1>4. ASSUME NEW m \in Nat, m \in G PROVE m + 1 \in G
  <2> SUFFICES ASSUME m + 1 <= n
               PROVE  WithoutNul(s \o P(m + 1)) = WithoutNul(s) \o WithoutNul(P(m + 1))
    OBVIOUS
  <2> DEFINE c == t[m + 1]
             p == P(m)
             bit == IF c = NUL THEN <<>> ELSE <<c>>
  <2>1. c \in Chars /\ p \in Text /\ P(m + 1) = Append(p, c) /\ m <= n
    BY <1>1 DEF Text
  <2>2. WithoutNul(s \o p) = WithoutNul(s) \o WithoutNul(p)
    BY <1>4, <2>1
  <2>3. bit \in Text
    BY <2>1 DEF Text
  <2> HIDE DEF p
  <2> HIDE DEF c
  <2>4. s \o Append(p, c) = Append(s \o p, c) /\ s \o p \in Text
    BY <2>1 DEF Text
  <2>5. WithoutNul(Append(s \o p, c)) = WithoutNul(s \o p) \o bit
    BY <2>1, <2>4, NulsDropped
  <2>6. WithoutNul(Append(p, c)) = WithoutNul(p) \o bit /\ WithoutNul(p) \in Text
    BY <2>1, NulsDropped
  <2> HIDE DEF bit
  <2>7. (WithoutNul(s) \o WithoutNul(p)) \o bit = WithoutNul(s) \o (WithoutNul(p) \o bit)
    BY <1>2, <2>3, <2>6, SMTT(30) DEF Text
  <2> QED
    BY <2>1, <2>2, <2>4, <2>5, <2>6, <2>7
<1> HIDE DEF G
<1>5. n \in G
  BY <1>1, <1>3, <1>4, Induction
<1>6. WithoutNul(s \o P(n)) = WithoutNul(s) \o WithoutNul(P(n))
  <2>1. n <= n
    BY <1>1
  <2> QED
    BY <1>5, <2>1 DEF G
<1> HIDE DEF P
<1> QED
  BY <1>1, <1>6

-----------------------------------------------------------------------------
(* Buffers that hold a text from its last character to its first. *)

LEMMA ZerosRead ==
    ASSUME NEW b, NEW t, Reads(b, t), NEW m \in Nat
    PROVE  Reads(ZerosUpTo(b, m), Repeated("0", Least(m, NTOA_BUFFER_SIZE) - Len(t)) \o t)
<1> DEFINE l == Least(m, NTOA_BUFFER_SIZE) - Len(t)
           z == Repeated("0", l)
           h == IF l < 0 THEN 0 ELSE l
           n == Len(t)
<1>1. b \in Text /\ t \in Text /\ Len(b) = n /\ n \in Nat
  BY DEF Reads, Text
<1>2. \A k \in 1 .. n : b[k] = t[n + 1 - k]
  BY DEF Reads
<1>3. l \in Int
  BY <1>1, WordTypes DEF Least
<1>4. ZerosUpTo(b, m) = b \o z
  BY <1>1 DEF ZerosUpTo
<1> HIDE DEF l
<1>5. z \in Text /\ Len(z) = h /\ h \in Nat
  <2>1. "0" \in Chars
    BY Characters
  <2>2. z \in Text /\ Len(z) = h
    BY <1>3, <2>1, RepeatedIs
  <2>3. h \in Nat
    BY <1>3
  <2> QED
    BY <2>2, <2>3
<1>6. \A k \in 1 .. h : z[k] = "0"
  BY DEF Repeated
<1> HIDE DEF z, h, n
<1>7. b \o z \in Text /\ z \o t \in Text
  BY <1>1, <1>5, Joined
<1>8. Len(b \o z) = n + h /\ Len(z \o t) = h + n
  <2>1. Len(b \o z) = Len(b) + Len(z) /\ Len(z \o t) = Len(z) + Len(t)
    BY <1>1, <1>5, Joined
  <2> QED
    BY <1>1, <1>5, <2>1 DEF n
<1>9. ASSUME NEW k \in 1 .. n + h PROVE (b \o z)[k] = (z \o t)[h + n + 1 - k]
  <2> DEFINE j == h + n + 1 - k
  <2>1. CASE k \in 1 .. n
    <3>1. j \in h + 1 .. h + n /\ j - h = n + 1 - k
      BY <1>1, <1>5, <2>1
    <3> HIDE DEF j
    <3>2. (b \o z)[k] = b[k]
      BY <1>1, <1>5, <2>1, Concatenated
    <3>3. (z \o t)[j] = t[j - h]
      BY <1>1, <1>5, <3>1, Concatenated DEF n
    <3> QED
      BY <1>2, <2>1, <3>1, <3>2, <3>3 DEF j
  <2>2. CASE k \notin 1 .. n
    <3>1. k \in n + 1 .. n + h /\ k - n \in 1 .. h /\ j \in 1 .. h
      BY <1>1, <1>5, <2>2
    <3> HIDE DEF j
    <3>2. (b \o z)[k] = z[k - n]
      BY <1>1, <1>5, <3>1, Concatenated
    <3>3. (z \o t)[j] = z[j]
      BY <1>1, <1>5, <3>1, Concatenated
    <3> QED
      BY <1>6, <3>1, <3>2, <3>3 DEF j
  <2> QED
    BY <2>1, <2>2
<1>10. Reads(b \o z, z \o t)
  <2>1. n + h = h + n
    BY <1>1, <1>5
  <2> QED
    BY <1>7, <1>8, <1>9, <2>1 DEF Reads
<1> QED
  BY <1>4, <1>10 DEF z, l

LEMMA AboveRead ==
    ASSUME NEW b, NEW t, Reads(b, t), NEW c \in Chars, Len(t) < NTOA_BUFFER_SIZE
    PROVE  Reads(Above(b, c), <<c>> \o t)
<1>1. b \in Text /\ t \in Text /\ Len(b) = Len(t) /\ Len(t) \in Nat
      /\ \A k \in 1 .. Len(b) : b[k] = t[Len(t) + 1 - k]
  BY DEF Reads, Text
<1>2. Above(b, c) = Append(b, c)
  BY <1>1 DEF Above
<1>3. Append(b, c) \in Text /\ Len(Append(b, c)) = Len(t) + 1 /\ <<c>> \o t \in Text
      /\ Len(<<c>> \o t) = Len(t) + 1
  BY <1>1 DEF Text
<1>4. ASSUME NEW k \in 1 .. Len(t) + 1 PROVE Append(b, c)[k] = (<<c>> \o t)[Len(t) + 2 - k]
  <2>1. CASE k = Len(t) + 1
    BY <1>1, <2>1 DEF Text
  <2>2. CASE k # Len(t) + 1
    <3>1. k \in 1 .. Len(t) /\ Len(t) + 2 - k \in 2 .. Len(t) + 1 /\ (Len(t) + 2 - k) - 1 = Len(t) + 1 - k
      BY <1>1, <2>2
    <3>2. Append(b, c)[k] = b[k]
      BY <1>1, <3>1 DEF Text
    <3>3. (<<c>> \o t)[Len(t) + 2 - k] = t[(Len(t) + 2 - k) - 1]
      BY <1>1, <3>1 DEF Text
    <3> QED
      BY <1>1, <3>1, <3>2, <3>3
  <2> QED
    BY <2>1, <2>2
<1>5. Len(t) + 1 + 1 = Len(t) + 2
  BY <1>1
<1> QED
  BY <1>2, <1>3, <1>4, <1>5 DEF Reads

\* The last cells of the buffer taken away are the first characters.
LEMMA CutRead ==
    ASSUME NEW b, NEW s \in Text, NEW t \in Text, Reads(b, s \o t)
    PROVE  Reads(SubSeq(b, 1, Len(b) - Len(s)), t)
<1>1. b \in Text /\ Len(b) = Len(s) + Len(t) /\ Len(t) \in Nat /\ Len(s) \in Nat
      /\ \A k \in 1 .. Len(b) : b[k] = (s \o t)[Len(s) + Len(t) + 1 - k]
  BY Joined DEF Reads, Text
<1>2. Len(b) - Len(s) = Len(t)
  BY <1>1
<1>3. SubSeq(b, 1, Len(t)) \in Text /\ Len(SubSeq(b, 1, Len(t))) = Len(t)
      /\ \A k \in 1 .. Len(t) : SubSeq(b, 1, Len(t))[k] = b[k]
  BY <1>1 DEF Text
<1>4. ASSUME NEW k \in 1 .. Len(t) PROVE b[k] = t[Len(t) + 1 - k]
  <2>1. /\ k \in 1 .. Len(b) /\ Len(s) + Len(t) + 1 - k \in Len(s) + 1 .. Len(s) + Len(t)
        /\ (Len(s) + Len(t) + 1 - k) - Len(s) = Len(t) + 1 - k
    BY <1>1
  <2> QED
    BY <1>1, <2>1, Concatenated
<1> QED
  BY <1>2, <1>3, <1>4 DEF Reads

\* Turned round, the buffer is the text.
LEMMA TurnedRead ==
    ASSUME NEW b, NEW t, Reads(b, t)
    PROVE  [k \in 1 .. Len(b) |-> b[Len(b) + 1 - k]] = t
<1>1. b \in Text /\ t \in Text /\ Len(b) = Len(t) /\ Len(t) \in Nat
      /\ \A k \in 1 .. Len(b) : b[k] = t[Len(t) + 1 - k]
  BY DEF Reads, Text
<1> DEFINE n == Len(t)
<1> HIDE DEF n
<1>2. ASSUME NEW k \in 1 .. n PROVE b[n + 1 - k] = t[k]
  <2>1. n + 1 - k \in 1 .. n /\ n + 1 - (n + 1 - k) = k
    BY <1>1 DEF n
  <2> QED
    BY <1>1, <2>1 DEF n
<1>3. t = [k \in 1 .. n |-> t[k]]
  BY <1>1 DEF Text, n
<1>4. [k \in 1 .. n |-> b[n + 1 - k]] = [k \in 1 .. n |-> t[k]]
  BY <1>2
<1> QED
  BY <1>1, <1>3, <1>4 DEF n

-----------------------------------------------------------------------------
(* The flags of a directive. *)

LEMMA FlagNames ==
    /\ FlagOf("0") = "zeropad" /\ FlagOf("-") = "left" /\ FlagOf("+") = "plus"
    /\ FlagOf(" ") = "space" /\ FlagOf("#") = "hash"
<1>1. FlagOf("0") = "zeropad"
  BY DEF FlagOf
<1>2. FlagOf("-") = "left"
  BY DEF FlagOf
<1>3. FlagOf("+") = "plus"
  BY DEF FlagOf
<1>4. FlagOf(" ") = "space"
  BY DEF FlagOf
<1>5. FlagOf("#") = "hash"
  BY DEF FlagOf
<1> QED
  BY <1>1, <1>2, <1>3, <1>4, <1>5

LEMMA FlagsReadAre ==
    ASSUME NEW fl \in SUBSET FlagChars, NEW f, f = {FlagOf(x) : x \in fl}
    PROVE  /\ "zeropad" \in f <=> "0" \in fl
           /\ "left" \in f <=> "-" \in fl
           /\ "plus" \in f <=> "+" \in fl
           /\ "space" \in f <=> " " \in fl
           /\ "hash" \in f <=> "#" \in fl
           /\ f \intersect {"precision", "uppercase", "long", "long_long", "short", "char"} = {}
<1>1. ASSUME NEW y PROVE y \in f <=> \/ y = "zeropad" /\ "0" \in fl
                                     \/ y = "left" /\ "-" \in fl
                                     \/ y = "plus" /\ "+" \in fl
                                     \/ y = "space" /\ " " \in fl
                                     \/ y = "hash" /\ "#" \in fl
  <2>1. y \in f => \E x \in fl : y = FlagOf(x)
    OBVIOUS
  <2>2. \A x \in fl : x = "0" \/ x = "-" \/ x = "+" \/ x = " " \/ x = "#"
    BY DEF FlagChars
  <2>3. ASSUME NEW x \in fl PROVE FlagOf(x) \in f
    OBVIOUS
  <2> QED
    BY <2>1, <2>2, <2>3, FlagNames
<1> QED
  BY <1>1

\* The flags behind the length modifier.
LEMMA LengthFlagsAre ==
    ASSUME NEW l \in Lengths
    PROVE  /\ LengthFlags(l) \subseteq {"long", "long_long", "short", "char"}
           /\ {"long", "long_long"} \intersect LengthFlags(l) # {}
                <=> l \notin {<<>>, <<"h">>, <<"h", "h">>}
           /\ "char" \in LengthFlags(l) <=> l = <<"h", "h">>
           /\ "short" \in LengthFlags(l) <=> l \in {<<"h">>, <<"h", "h">>}
<1>1. <<"h">> # <<>> /\ <<"h", "h">> # <<>> /\ <<"h">> # <<"h", "h">>
  OBVIOUS
<1>2. <<"l", "l">> \notin {<<>>, <<"h">>, <<"h", "h">>}
  OBVIOUS
<1>3. \A x \in {<<"l">>, <<"t">>, <<"j">>, <<"z">>} : x \notin {<<>>, <<"h">>, <<"h", "h">>, <<"l", "l">>}
  OBVIOUS
<1>4. CASE l = <<>>
  BY <1>1, <1>4 DEF LengthFlags
<1>5. CASE l = <<"h">>
  BY <1>1, <1>5 DEF LengthFlags
<1>6. CASE l = <<"h", "h">>
  BY <1>1, <1>6 DEF LengthFlags
<1>7. CASE l = <<"l", "l">>
  BY <1>2, <1>7 DEF LengthFlags
<1>8. CASE l \in {<<"l">>, <<"t">>, <<"j">>, <<"z">>}
  <2>1. LengthFlags(l) = {"long"}
    BY <1>3, <1>8 DEF LengthFlags
  <2> QED
    BY <1>3, <1>8, <2>1
<1> QED
  BY <1>4, <1>5, <1>6, <1>7, <1>8 DEF Lengths

\* The flags a directive has given when its specifier is reached.
LEMMA LengthReadIs ==
    ASSUME NEW d, WellFormed(d)
    PROVE  /\ "left" \in LengthRead(d) <=> LeftJustified(d)
           /\ "zeropad" \in LengthRead(d) <=> "0" \in d.flags
           /\ "plus" \in LengthRead(d) <=> "+" \in d.flags
           /\ "space" \in LengthRead(d) <=> " " \in d.flags
           /\ "hash" \in LengthRead(d) <=> "#" \in d.flags
           /\ "precision" \in LengthRead(d) <=> d.precision # NONE
           /\ "uppercase" \notin LengthRead(d)
           /\ TypeSize(LengthRead(d)) = SizeOf(d)
<1>1. d.flags \in SUBSET FlagChars /\ d.length \in Lengths /\ d.star \in BOOLEAN
  BY DEF WellFormed
<1>2. \A y : y \in LengthRead(d) <=> \/ y \in FlagsRead(d)
                                     \/ y = "left" /\ d.star /\ d.width < 0
                                     \/ y = "precision" /\ d.precision # NONE
                                     \/ y \in LengthFlags(d.length)
  BY DEF LengthRead, PrecisionRead, WidthRead
<1>3. /\ "zeropad" \in FlagsRead(d) <=> "0" \in d.flags
      /\ "left" \in FlagsRead(d) <=> "-" \in d.flags
      /\ "plus" \in FlagsRead(d) <=> "+" \in d.flags
      /\ "space" \in FlagsRead(d) <=> " " \in d.flags
      /\ "hash" \in FlagsRead(d) <=> "#" \in d.flags
      /\ FlagsRead(d) \intersect {"precision", "uppercase", "long", "long_long", "short", "char"} = {}
  <2>1. FlagsRead(d) = {FlagOf(x) : x \in d.flags}
    BY DEF FlagsRead
  <2> HIDE DEF FlagsRead
  <2> QED
    BY <1>1, <2>1, FlagsReadAre
<1>4. LengthFlags(d.length) \subseteq {"long", "long_long", "short", "char"}
  BY <1>1, LengthFlagsAre
<1>5. TypeSize(LengthRead(d)) = SizeOf(d)
  <2>1. \A y \in {"long", "long_long", "short", "char"} : y \in LengthRead(d) <=> y \in LengthFlags(d.length)
    BY <1>2, <1>3
  <2>2. /\ {"long", "long_long"} \intersect LengthRead(d) # {} <=> d.length \notin {<<>>, <<"h">>, <<"h", "h">>}
        /\ "char" \in LengthRead(d) <=> d.length = <<"h", "h">>
        /\ "short" \in LengthRead(d) <=> d.length \in {<<"h">>, <<"h", "h">>}
    <3>1. {"long", "long_long"} \intersect LengthRead(d) = {"long", "long_long"} \intersect LengthFlags(d.length)
      BY <2>1
    <3> QED
      BY <1>1, <2>1, <3>1, LengthFlagsAre
  <2>3. <<"h">> # <<>> /\ <<"h", "h">> # <<>> /\ <<"h">> # <<"h", "h">>
    OBVIOUS
  <2>4. CASE d.length = <<>>
    BY <2>2, <2>3, <2>4 DEF TypeSize, SizeOf
  <2>5. CASE d.length = <<"h">>
    BY <2>2, <2>3, <2>5 DEF TypeSize, SizeOf
  <2>6. CASE d.length = <<"h", "h">>
    BY <2>2, <2>3, <2>6 DEF TypeSize, SizeOf
  <2>7. CASE d.length \notin {<<>>, <<"h">>, <<"h", "h">>}
    BY <2>2, <2>7 DEF TypeSize, SizeOf
  <2> QED
    BY <2>4, <2>5, <2>6, <2>7
<1>6. "left" \in LengthRead(d) <=> LeftJustified(d)
  <2>1. "left" \notin LengthFlags(d.length)
    BY <1>4
  <2> QED
    BY <1>2, <1>3, <2>1 DEF LeftJustified
<1>7. \A y \in {"zeropad", "plus", "space", "hash", "uppercase"} :
         y \in LengthRead(d) <=> y \in FlagsRead(d)
  BY <1>2, <1>4
<1>8. "precision" \in LengthRead(d) <=> d.precision # NONE
  <2>1. "precision" \notin LengthFlags(d.length) /\ "precision" \notin FlagsRead(d)
    BY <1>3, <1>4
  <2> QED
    BY <1>2, <2>1
<1>9. "uppercase" \notin FlagsRead(d)
  BY <1>3
<1> QED
  BY <1>3, <1>5, <1>6, <1>7, <1>8, <1>9

\* The flags _ntoa_format is given for an integer.
LEMMA NumberFlagsAre ==
    ASSUME NEW d, WellFormed(d), d.conv \in SignedChars \union UnsignedChars
    PROVE  /\ "left" \in NumberFlags(d) <=> LeftJustified(d)
           /\ "zeropad" \in NumberFlags(d) <=> "0" \in d.flags /\ d.precision = NONE
           /\ "plus" \in NumberFlags(d) <=> "+" \in d.flags /\ IsSigned(d)
           /\ "space" \in NumberFlags(d) <=> " " \in d.flags /\ IsSigned(d)
           /\ "hash" \in NumberFlags(d) <=> "#" \in d.flags /\ Radix(d) # 10 /\ ValueOf(d) # 0
           /\ "precision" \in NumberFlags(d) <=> d.precision # NONE
           /\ "uppercase" \in NumberFlags(d) <=> d.conv = "X"
<1>1. d.conv # "p" /\ (IsSigned(d) <=> d.conv \in SignedChars) /\ Radix(d) = BaseOf(d.conv)
  BY DEF SignedChars, UnsignedChars, IsSigned, Radix
<1> DEFINE l == LengthRead(d)
           f == IntegerFlags(d.conv, l)
<1>2. \A y : y \in f <=> /\ y \in l \/ (y = "uppercase" /\ d.conv = "X")
                         /\ y = "hash" => BaseOf(d.conv) # 10
                         /\ y \in {"plus", "space"} => d.conv \in SignedChars
                         /\ y = "zeropad" => "precision" \notin l
  BY DEF IntegerFlags
<1>3. \A y : y \in NumberFlags(d) <=> y \in f /\ (y = "hash" => ValueOf(d) # 0)
  BY <1>1 DEF NumberFlags
<1> HIDE DEF l, f
<1>4. /\ "left" \in l <=> LeftJustified(d)
      /\ "zeropad" \in l <=> "0" \in d.flags
      /\ "plus" \in l <=> "+" \in d.flags
      /\ "space" \in l <=> " " \in d.flags
      /\ "hash" \in l <=> "#" \in d.flags
      /\ "precision" \in l <=> d.precision # NONE
      /\ "uppercase" \notin l
  BY LengthReadIs DEF l
<1>5. ASSUME NEW y \in {"left", "precision"}
      PROVE  y \in NumberFlags(d) <=> y \in l
  BY <1>2, <1>3
<1>6. ASSUME NEW y \in {"plus", "space"} PROVE y \in NumberFlags(d) <=> y \in l /\ IsSigned(d)
  BY <1>1, <1>2, <1>3
<1>7. "zeropad" \in NumberFlags(d) <=> "zeropad" \in l /\ "precision" \notin l
  BY <1>2, <1>3
<1>8. "uppercase" \in NumberFlags(d) <=> "uppercase" \in l \/ d.conv = "X"
  BY <1>2, <1>3
<1>9. "hash" \in NumberFlags(d) <=> "hash" \in l /\ Radix(d) # 10 /\ ValueOf(d) # 0
  BY <1>1, <1>2, <1>3
<1> QED
  BY <1>4, <1>5, <1>6, <1>7, <1>8, <1>9

-----------------------------------------------------------------------------
(* The text C gives a number. *)

\* The first digit of a number is not zero.
LEMMA FirstDigit ==
    ASSUME NEW v \in Nat, v # 0, NEW b \in 2 .. 16, NEW upper \in BOOLEAN
    PROVE  DigitsOf(v, b, upper)[1] # "0"
<1> DEFINE c == DigitCount(v, b)
           q == v \div Power(b, c - 1)
<1>1. c \in Nat /\ c >= 1 /\ v \div Power(b, c) = 0 /\ \A k \in 1 .. c - 1 : v \div Power(b, k) > 0
  BY DigitsEnd
<1>2. DigitsOf(v, b, upper)[1] = DigitChar(q % b, upper)
  <2>1. 1 \in 1 .. c
    BY <1>1
  <2> QED
    BY <2>1, DigitOfPlace
<1> HIDE DEF c
<1>3. b \in Nat \ {0} /\ c - 1 \in Nat /\ (c - 1) + 1 = c
  BY <1>1
<1>4. q \in Nat /\ v \div Power(b, c) = q \div b
  <2>1. /\ v \div Power(b, c - 1) \in Nat
        /\ v \div Power(b, (c - 1) + 1) = (v \div Power(b, c - 1)) \div b
    BY <1>3, HigherDigits
  <2> QED
    BY <1>3, <2>1
<1>5. q # 0
  <2>1. CASE c = 1
    <3>1. c - 1 = 0
      BY <2>1
    <3>2. v \div Power(b, 0) = v
      BY <1>3, HigherDigits
    <3> QED
      BY <3>1, <3>2
  <2>2. CASE c # 1
    <3>1. c - 1 \in 1 .. c - 1
      BY <1>1, <2>2
    <3> QED
      BY <1>1, <3>1
  <2> QED
    BY <2>1, <2>2
<1> HIDE DEF q
<1>6. q % b = q /\ q % b \in 1 .. 15
  <2>1. q \div b = 0
    BY <1>1, <1>4
  <2>2. q < b
    BY <1>3, <1>4, <2>1
  <2> QED
    BY <1>3, <1>4, <1>5, <2>2
<1>7. \A k \in 1 .. 15 : DigitChar(k, upper) # "0"
  <2> SUFFICES ASSUME NEW k \in 1 .. 15 PROVE DigitChar(k, upper) # "0"
    OBVIOUS
  <2>1. CASE k < 10
    <3>1. k + 1 \in 2 .. 10
      BY <2>1
    <3>2. \A j \in 2 .. 10 : Numerals[j] # "0"
      <4> SUFFICES ASSUME NEW j \in 2 .. 10 PROVE Numerals[j] # "0"
        OBVIOUS
      <4>1. j = 2 \/ j = 3 \/ j = 4 \/ j = 5 \/ j = 6 \/ j = 7 \/ j = 8 \/ j = 9 \/ j = 10
        OBVIOUS
      <4> QED
        BY <4>1 DEF Numerals
    <3> QED
      BY <2>1, <3>1, <3>2 DEF DigitChar
  <2>2. CASE ~(k < 10)
    <3>1. k - 9 \in 1 .. 6
      BY <2>2
    <3>2. \A j \in 1 .. 6 : LowerLetters[j] # "0" /\ UpperLetters[j] # "0"
      <4> SUFFICES ASSUME NEW j \in 1 .. 6 PROVE LowerLetters[j] # "0" /\ UpperLetters[j] # "0"
        OBVIOUS
      <4>1. j = 1 \/ j = 2 \/ j = 3 \/ j = 4 \/ j = 5 \/ j = 6
        OBVIOUS
      <4> QED
        BY <4>1 DEF LowerLetters, UpperLetters
    <3> QED
      BY <2>2, <3>1, <3>2 DEF DigitChar
  <2> QED
    BY <2>1, <2>2
<1> QED
  BY <1>2, <1>6, <1>7

\* A number, signed or not, is no larger than its type.
LEMMA ValueIs ==
    ASSUME NEW d, WellFormed(d), d.conv \in SignedChars \union UnsignedChars
    PROVE  /\ NumberOf(d) \in Int /\ ValueOf(d) = Magnitude(d) /\ ValueOf(d) \in 0 .. LONG - 1
           /\ SizeOf(d) \in {CHAR, SHORT, INT, LONG}
           /\ Radix(d) = BaseOf(d.conv) /\ Radix(d) \in {2, 8, 10, 16} /\ Radix(d) \in 2 .. 16
           /\ (IsSigned(d) => Radix(d) = 10) /\ (Radix(d) = 10 <=> d.conv \notin {"x", "X", "o", "b"})
           /\ (d.conv \in {"x", "X"} => Radix(d) = 16) /\ (d.conv = "o" => Radix(d) = 8)
           /\ (d.conv = "b" => Radix(d) = 2)
           /\ (IsUpper(d) <=> d.conv = "X") /\ IsUpper(d) \in BOOLEAN
<1>1. d.conv # "p" /\ (IsSigned(d) <=> d.conv \in SignedChars) /\ (IsUpper(d) <=> d.conv = "X")
      /\ IsUpper(d) \in BOOLEAN
  BY DEF SignedChars, UnsignedChars, IsSigned, IsUpper
<1>2. d.value \in Int
  BY <1>1 DEF WellFormed, SignedChars, UnsignedChars
<1>3. SizeOf(d) \in {CHAR, SHORT, INT, LONG} /\ SizeOf(d) \in Nat \ {0} /\ SizeOf(d) <= LONG
  <2>1. SizeOf(d) \in {CHAR, SHORT, INT, LONG}
    BY DEF SizeOf
  <2> QED
    BY <2>1, WordTypes
<1> DEFINE m == SizeOf(d)
           r == d.value % m
<1>4. r \in 0 .. m - 1
  BY <1>2, <1>3
<1>5. NumberOf(d) = IF IsSigned(d) THEN IF 2 * r < m THEN r ELSE r - m ELSE r
  BY DEF NumberOf, Signed, Unsigned
<1> HIDE DEF r
<1>6. NumberOf(d) \in Int /\ Magnitude(d) \in 0 .. LONG - 1
  <2> HIDE DEF m
  <2>1. m \in Nat \ {0} /\ m <= LONG /\ LONG \in Nat
    BY <1>3, WordTypes DEF m
  <2> QED
    BY <1>4, <1>5, <2>1 DEF Magnitude
<1>7. ValueOf(d) = Magnitude(d) /\ Radix(d) = BaseOf(d.conv)
  BY <1>1 DEF ValueOf, Radix
<1>8. /\ (IsSigned(d) => Radix(d) = 10) /\ (Radix(d) = 10 <=> d.conv \notin {"x", "X", "o", "b"})
      /\ (d.conv \in {"x", "X"} => Radix(d) = 16) /\ (d.conv = "o" => Radix(d) = 8)
      /\ (d.conv = "b" => Radix(d) = 2)
  <2>1. CASE d.conv \in {"x", "X"}
    BY <1>1, <1>7, <2>1 DEF BaseOf, SignedChars
  <2>2. CASE d.conv = "o"
    BY <1>1, <1>7, <2>2 DEF BaseOf, SignedChars
  <2>3. CASE d.conv = "b"
    BY <1>1, <1>7, <2>3 DEF BaseOf, SignedChars
  <2>4. CASE d.conv \notin {"x", "X", "o", "b"}
    BY <1>1, <1>7, <2>4 DEF BaseOf
  <2> QED
    BY <2>1, <2>2, <2>3, <2>4
<1>9. Radix(d) \in {2, 8, 10, 16} /\ Radix(d) \in 2 .. 16
  <2>1. Radix(d) \in {2, 8, 10, 16}
    BY <1>8
  <2> QED
    BY <2>1
<1> QED
  BY <1>1, <1>3, <1>6, <1>7, <1>8, <1>9

\* Its digits, with the zeros of its precision in front.
LEMMA MinimalIs ==
    ASSUME NEW d, WellFormed(d), d.conv \in SignedChars \union UnsignedChars, d.precision >= NONE
    PROVE  /\ ValueDigits(d) \in Text /\ PrecisionIs(d) \in Nat
           /\ MinimalDigits(d) = Repeated("0", PrecisionIs(d) - Len(ValueDigits(d))) \o ValueDigits(d)
           /\ d.precision = NONE => PrecisionIs(d) = 0 /\ Len(ValueDigits(d)) >= 1
           /\ ValueOf(d) # 0 => Len(ValueDigits(d)) >= 1 /\ ValueDigits(d)[1] # "0"
<1> DEFINE v == ValueOf(d)
           b == Radix(d)
           digits == DigitsOf(v, b, IsUpper(d))
           p == PrecisionIs(d)
<1>1. v \in Nat /\ v = Magnitude(d) /\ b \in 2 .. 16 /\ IsUpper(d) \in BOOLEAN /\ b = BaseOf(d.conv)
      /\ IsUpper(d) = (d.conv = "X")
  BY ValueIs, WordTypes
<1>2. digits \in Text /\ Len(digits) >= 1 /\ Len(digits) \in Nat
  <2> HIDE DEF v, b
  <2> QED
    BY <1>1, DigitsAreText
<1>3. d.precision \in Int /\ NONE = -1
  BY DEF WellFormed, Ints, NONE
<1>4. p \in Nat /\ (d.precision = NONE => p = 0) /\ (d.precision # NONE => p = d.precision)
  BY <1>3 DEF PrecisionIs
<1>5. ValueDigits(d) = IF d.precision # NONE /\ v = 0 THEN <<>> ELSE digits
  BY DEF ValueDigits
<1> DEFINE least == IF d.precision < 0 THEN 1 ELSE d.precision
           some  == IF v = 0 THEN <<>> ELSE digits
<1>6. MinimalDigits(d) = Repeated("0", least - Len(some)) \o some
  BY <1>1 DEF MinimalDigits
<1>7. v # 0 => digits[1] # "0"
  <2> HIDE DEF v, b
  <2> QED
    BY <1>1, FirstDigit
<1>8. v = 0 => digits = <<"0">>
  <2>1. DigitsOf(0, b, IsUpper(d)) = <<"0">>
    BY <1>1, DigitsOfZero
  <2> QED
    BY <2>1
<1> HIDE DEF v, b, digits, p
<1>9. ValueDigits(d) \in Text
  <2>1. <<>> \in Text
    BY DEF Text
  <2> QED
    BY <1>2, <1>5, <2>1
<1>10. MinimalDigits(d) = Repeated("0", p - Len(ValueDigits(d))) \o ValueDigits(d)
  <2>1. CASE v = 0 /\ d.precision # NONE
    <3>1. ValueDigits(d) = <<>> /\ some = <<>> /\ least = p
      BY <1>3, <1>4, <1>5, <2>1
    <3> QED
      BY <1>6, <3>1
  <2>2. CASE v = 0 /\ d.precision = NONE
    <3>1. ValueDigits(d) = <<"0">> /\ some = <<>> /\ least = 1 /\ p = 0
      BY <1>3, <1>4, <1>5, <1>8, <2>2
    <3>2. Len(<<>>) = 0 /\ Len(<<"0">>) = 1
      OBVIOUS
    <3>3. Repeated("0", 1 - 0) = <<"0">> /\ <<"0">> \o <<>> = <<"0">>
      <4>1. Repeated("0", 1 - 0) = <<"0">>
        BY DEF Repeated
      <4> QED
        BY <4>1
    <3>4. Repeated("0", 0 - 1) = <<>>
      <4>1. 0 - 1 \in Int /\ 0 - 1 <= 0
        OBVIOUS
      <4> QED
        BY <4>1, NoneRepeated
    <3>5. <<>> \o <<"0">> = <<"0">>
      OBVIOUS
    <3>6. MinimalDigits(d) = <<"0">>
      BY <1>6, <3>1, <3>2, <3>3
    <3>7. Repeated("0", p - Len(ValueDigits(d))) \o ValueDigits(d) = <<"0">>
      BY <3>1, <3>2, <3>4, <3>5
    <3> QED
      BY <3>6, <3>7
  <2>3. CASE v # 0 /\ d.precision # NONE
    <3>1. ValueDigits(d) = digits /\ some = digits /\ least = p
      BY <1>3, <1>4, <1>5, <2>3
    <3> QED
      BY <1>6, <3>1
  <2>4. CASE v # 0 /\ d.precision = NONE
    <3>1. ValueDigits(d) = digits /\ some = digits /\ least = 1 /\ p = 0
      BY <1>3, <1>4, <1>5, <2>4
    <3>2. Repeated("0", 1 - Len(digits)) = <<>> /\ Repeated("0", 0 - Len(digits)) = <<>>
      <4>1. 1 - Len(digits) \in Int /\ 1 - Len(digits) <= 0 /\ 0 - Len(digits) \in Int /\ 0 - Len(digits) <= 0
        BY <1>2
      <4> QED
        BY <4>1, NoneRepeated
    <3> QED
      BY <1>6, <3>1, <3>2
  <2> QED
    BY <2>1, <2>2, <2>3, <2>4
<1>11. d.precision = NONE => Len(ValueDigits(d)) >= 1
  BY <1>2, <1>5
<1>12. v # 0 => Len(ValueDigits(d)) >= 1 /\ ValueDigits(d)[1] # "0"
  BY <1>2, <1>5, <1>7
<1> QED
  BY <1>4, <1>9, <1>10, <1>11, <1>12 DEF p, v

\* An integer that Printf shows as C says, and what _ntoa_format has been given of it.
Integer(d) == WellFormed(d) /\ d.conv \in SignedChars \union UnsignedChars /\ ~KnownDeviation(d)
Given_(d, n) == n.negative = IsNegative(d) /\ n.base = Radix(d) /\ Reads(n.buf, ValueDigits(d))

LEMMA Associative ==
    ASSUME NEW s \in Text, NEW t \in Text, NEW u \in Text
    PROVE  (s \o t) \o u = s \o (t \o u)
  BY DEF Text

LEMMA NothingJoined ==
    ASSUME NEW s \in Text
    PROVE  <<>> \in Text /\ Len(<<>>) = 0 /\ <<>> \o s = s /\ s \o <<>> = s
  BY DEF Text

LEMMA RepeatedSplit ==
    ASSUME NEW c \in Chars, NEW k \in Nat, NEW m \in Nat
    PROVE  Repeated(c, k + m) = Repeated(c, k) \o Repeated(c, m)
<1> DEFINE r == Repeated(c, k) \o Repeated(c, m)
<1>1. /\ Repeated(c, k) \in Text /\ Len(Repeated(c, k)) = k
      /\ Repeated(c, m) \in Text /\ Len(Repeated(c, m)) = m
      /\ Repeated(c, k + m) \in Text /\ Len(Repeated(c, k + m)) = k + m
  BY RepeatedIs
<1>2. r \in Text /\ Len(r) = k + m
  BY <1>1, Joined
<1>3. ASSUME NEW j \in 1 .. k + m PROVE Repeated(c, k + m)[j] = r[j]
  <2>1. Repeated(c, k + m)[j] = c
    BY DEF Repeated
  <2>2. CASE j \in 1 .. k
    <3>1. r[j] = Repeated(c, k)[j]
      BY <1>1, <2>2, Concatenated
    <3>2. Repeated(c, k)[j] = c
      BY <2>2 DEF Repeated
    <3> QED
      BY <2>1, <3>1, <3>2
  <2>3. CASE j \notin 1 .. k
    <3>1. j \in k + 1 .. k + m /\ j - k \in 1 .. m
      BY <2>3
    <3>2. r[j] = Repeated(c, m)[j - k]
      <4> DEFINE x == Repeated(c, k)
                 y == Repeated(c, m)
      <4> HIDE DEF x, y
      <4>1. x \in Text /\ Len(x) = k /\ y \in Text /\ Len(y) = m
        BY <1>1 DEF x, y
      <4>2. j \in Len(x) + 1 .. Len(x) + Len(y)
        BY <3>1, <4>1
      <4>3. (x \o y)[j] = y[j - Len(x)]
        BY <4>1, <4>2, Concatenated
      <4> QED
        BY <4>1, <4>3 DEF x, y
    <3>3. Repeated(c, m)[j - k] = c
      BY <3>1 DEF Repeated
    <3> QED
      BY <2>1, <3>2, <3>3
  <2> QED
    BY <2>2, <2>3
<1> HIDE DEF r
<1>4. Repeated(c, k + m) = r
  <2> DEFINE s == Repeated(c, k + m)
  <2> HIDE DEF s
  <2>1. s \in Text /\ Len(s) = k + m /\ \A j \in 1 .. k + m : s[j] = r[j]
    BY <1>1, <1>3 DEF s
  <2>2. s = r
    BY <1>2, <2>1 DEF Text
  <2> QED
    BY <2>2 DEF s
<1> QED
  BY <1>4 DEF r

\* The texts in front of the digits.
LEMMA SignIs ==
    ASSUME NEW d, Integer(d)
    PROVE  LET f == NumberFlags(d)
           IN  /\ SignOf(d) \in Text /\ Len(SignOf(d)) \in {0, 1}
               /\ IsNegative(d) => SignOf(d) = <<"-">>
               /\ ~IsNegative(d) /\ "plus" \in f => SignOf(d) = <<"+">>
               /\ ~IsNegative(d) /\ "plus" \notin f /\ "space" \in f => SignOf(d) = <<" ">>
               /\ ~IsNegative(d) /\ {"plus", "space"} \intersect f = {} => SignOf(d) = <<>>
               /\ ~IsSigned(d) => SignOf(d) = <<>> /\ ~IsNegative(d) /\ {"plus", "space"} \intersect f = {}
<1> DEFINE f == NumberFlags(d)
<1>1. /\ "plus" \in f <=> "+" \in d.flags /\ IsSigned(d)
      /\ "space" \in f <=> " " \in d.flags /\ IsSigned(d)
  BY NumberFlagsAre DEF Integer
<1> HIDE DEF f
<1>2. NumberOf(d) \in Int
  BY ValueIs DEF Integer
<1>3. IsNegative(d) <=> IsSigned(d) /\ NumberOf(d) < 0
  BY DEF IsNegative
<1>4. IsSigned(d) /\ ~IsNegative(d) => NumberOf(d) >= 0
  BY <1>2, <1>3
<1>5. /\ <<>> \in Text /\ <<"-">> \in Text /\ <<"+">> \in Text /\ <<" ">> \in Text
      /\ Len(<<>>) = 0 /\ Len(<<"-">>) = 1 /\ Len(<<"+">>) = 1 /\ Len(<<" ">>) = 1
  BY Characters, ShortTexts
<1>6. CASE ~IsSigned(d)
  <2>1. SignOf(d) = <<>> /\ ~IsNegative(d) /\ {"plus", "space"} \intersect f = {}
    BY <1>1, <1>3, <1>6 DEF SignOf
  <2> QED
    BY <1>5, <1>6, <2>1 DEF f
<1>7. CASE IsNegative(d)
  <2>1. IsSigned(d) /\ NumberOf(d) < 0 /\ ~(NumberOf(d) >= 0)
    BY <1>2, <1>3, <1>7
  <2>2. SignOf(d) = <<"-">>
    BY <2>1 DEF SignOf
  <2> QED
    BY <1>5, <1>7, <2>1, <2>2 DEF f
<1>8. CASE IsSigned(d) /\ ~IsNegative(d)
  <2>1. SignOf(d) = IF "+" \in d.flags THEN <<"+">> ELSE IF " " \in d.flags THEN <<" ">> ELSE <<>>
    BY <1>2, <1>4, <1>8 DEF SignOf
  <2> QED
    BY <1>1, <1>5, <1>8, <2>1 DEF f
<1> QED
  BY <1>6, <1>7, <1>8

LEMMA ZerosAhead ==
    ASSUME NEW k \in Int, k >= 1, NEW v \in Text
    PROVE  Head(Repeated("0", k) \o v) = "0"
<1> DEFINE z == Repeated("0", k)
<1>1. z \in Text /\ Len(z) = k
  <2>1. "0" \in Chars
    BY Characters
  <2>2. z \in Text /\ Len(z) = IF k < 0 THEN 0 ELSE k
    BY <2>1, RepeatedIs
  <2> QED
    BY <2>2
<1>2. z[1] = "0"
  <2>1. 1 \in 1 .. (IF k < 0 THEN 0 ELSE k)
    OBVIOUS
  <2> QED
    BY <2>1 DEF Repeated
<1> HIDE DEF z
<1>3. 1 \in 1 .. Len(z)
  BY <1>1
<1>4. (z \o v)[1] = "0"
  BY <1>1, <1>2, <1>3, Concatenated
<1>5. z \o v # <<>> /\ z \o v \in Seq(Chars)
  <2>1. z \o v \in Text /\ Len(z \o v) = Len(z) + Len(v) /\ Len(v) \in Nat
    BY <1>1, Joined DEF Text
  <2>2. Len(z \o v) # 0
    BY <1>1, <2>1
  <2> QED
    BY <2>1, <2>2 DEF Text
<1>6. Head(z \o v) = (z \o v)[1]
  <2> DEFINE u == z \o v
  <2> HIDE DEF u
  <2>1. u # <<>> /\ u \in Seq(Chars)
    BY <1>5 DEF u
  <2>2. Head(u) = u[1]
    BY <2>1
  <2> QED
    BY <2>2 DEF u
<1> QED
  BY <1>4, <1>6 DEF z

LEMMA PrefixIs ==
    ASSUME NEW d, Integer(d)
    PROVE  /\ PrefixOf(d) \in Text
           /\ "hash" \notin NumberFlags(d) => PrefixOf(d) = <<>>
           /\ "hash" \in NumberFlags(d) =>
                /\ ValueOf(d) # 0 /\ ~IsSigned(d) /\ d.conv \in {"x", "X", "o", "b"}
                /\ d.conv # "o" => PrefixOf(d) = <<"0", d.conv>> /\ Len(PrefixOf(d)) = 2
                /\ d.conv = "o" /\ Head(MinimalDigits(d)) # "0" => PrefixOf(d) = <<"0">>
                /\ d.conv = "o" /\ Head(MinimalDigits(d)) = "0" => PrefixOf(d) = <<>>
<1>1. "hash" \in NumberFlags(d) <=> "#" \in d.flags /\ Radix(d) # 10 /\ ValueOf(d) # 0
  BY NumberFlagsAre DEF Integer
<1>2. /\ ValueOf(d) = Magnitude(d) /\ (IsSigned(d) => Radix(d) = 10)
      /\ (Radix(d) = 10 <=> d.conv \notin {"x", "X", "o", "b"})
  BY ValueIs DEF Integer
<1>3. <<>> \in Text /\ <<"0">> \in Text /\ <<"0", "x">> \in Text /\ <<"0", "X">> \in Text /\ <<"0", "b">> \in Text
  BY Characters, ShortTexts
<1>4. CASE "hash" \notin NumberFlags(d)
  <2>1. "#" \notin d.flags \/ Magnitude(d) = 0 \/ d.conv \notin {"x", "X", "o", "b"}
    BY <1>1, <1>2, <1>4
  <2>2. CASE ~("#" \in d.flags /\ d.conv = "o")
    <3>1. PrefixOf(d) = <<>>
      BY <2>1, <2>2 DEF PrefixOf
    <3> QED
      BY <1>3, <1>4, <3>1
  <2>3. CASE "#" \in d.flags /\ d.conv = "o"
    <3> DEFINE least == IF d.precision < 0 THEN 1 ELSE d.precision
    <3>1. Magnitude(d) = 0 /\ d.precision \in Int
      BY <2>1, <2>3 DEF Integer, WellFormed, Ints
    <3>2. MinimalDigits(d) # <<>>
      BY <2>3 DEF Integer, KnownDeviation, PrefixDeviates
    <3>3. MinimalDigits(d) = Repeated("0", least) \o <<>> /\ least \in Int
      <4>1. MinimalDigits(d) = Repeated("0", least - Len(<<>>)) \o <<>>
        BY <3>1 DEF MinimalDigits
      <4>2. least - Len(<<>>) = least /\ least \in Int
        BY <3>1
      <4> QED
        BY <4>1, <4>2
    <3> HIDE DEF least
    <3>4. least >= 1
      <4> SUFFICES ASSUME ~(least >= 1) PROVE FALSE
        OBVIOUS
      <4>1. Repeated("0", least) = <<>>
        BY <3>3, NoneRepeated
      <4>2. <<>> \o <<>> = <<>>
        OBVIOUS
      <4> QED
        BY <3>2, <3>3, <4>1, <4>2
    <3>5. Head(MinimalDigits(d)) = "0"
      BY <1>3, <3>3, <3>4, ZerosAhead
    <3>6. PrefixOf(d) = <<>>
      BY <2>3, <3>2, <3>5 DEF PrefixOf
    <3> QED
      BY <1>3, <1>4, <3>6
  <2> QED
    BY <2>2, <2>3
<1>5. CASE "hash" \in NumberFlags(d)
  <2>1. /\ "#" \in d.flags /\ Magnitude(d) # 0 /\ d.conv \in {"x", "X", "o", "b"} /\ ~IsSigned(d)
        /\ ValueOf(d) # 0
    BY <1>1, <1>2, <1>5
  <2>2. CASE d.conv = "o"
    <3>1. MinimalDigits(d) # <<>>
      BY <2>1, <2>2 DEF Integer, KnownDeviation, PrefixDeviates
    <3>2. PrefixOf(d) = IF Head(MinimalDigits(d)) = "0" THEN <<>> ELSE <<"0">>
      BY <2>1, <2>2, <3>1 DEF PrefixOf
    <3> QED
      BY <1>3, <1>5, <2>1, <2>2, <3>2
  <2>3. CASE d.conv # "o"
    <3>1. PrefixOf(d) = <<"0", d.conv>> /\ d.conv \in {"x", "X", "b"}
      BY <2>1, <2>3 DEF PrefixOf
    <3>2. PrefixOf(d) \in Text
      BY <1>3, <3>1
    <3>3. Len(<<"0", d.conv>>) = 2
      OBVIOUS
    <3> QED
      BY <1>5, <2>1, <2>3, <3>1, <3>2, <3>3
  <2> QED
    BY <2>2, <2>3
<1> QED
  BY <1>4, <1>5

\* What keeps a directive from deviating.
LEMMA Undeviating ==
    ASSUME NEW d, Integer(d)
    PROVE  /\ d.precision \in Int /\ d.precision >= NONE /\ NONE = -1
           /\ LeftJustified(d) => d.precision <= 0 \/ Head(MinimalDigits(d)) # "0"
           /\ Len(BareNumber(d)) <= NTOA_BUFFER_SIZE
           /\ ZeroPadded(d) => FieldWidth(d) <= NTOA_BUFFER_SIZE
           /\ ~PrefixDeviates(d)
           /\ FieldWidth(d) \in Nat
<1>1. /\ d.precision \in Int /\ d.width \in Int /\ d.star \in BOOLEAN /\ (d.star \/ d.precision >= NONE)
      /\ (d.star \/ d.width = NONE \/ d.width > 0)
  BY DEF Integer, WellFormed, Ints
<1>2. ~PrecisionDeviates(d) /\ ~PrefixDeviates(d) /\ ~BufferOverrun(d)
  BY DEF Integer, KnownDeviation
<1>3. NONE = -1
  BY DEF NONE
<1>4. d.precision >= NONE
  BY <1>1, <1>2, <1>3 DEF PrecisionDeviates
<1>5. LeftJustified(d) => d.precision <= 0 \/ Head(MinimalDigits(d)) # "0"
  BY <1>1, <1>2 DEF PrecisionDeviates
<1>6. FieldWidth(d) \in Nat
  BY <1>1, <1>3 DEF FieldWidth
<1>7. Len(BareNumber(d)) \in Nat
  <2>1. MinimalDigits(d) \in Text
    <3>1. ValueDigits(d) \in Text /\ PrecisionIs(d) \in Nat /\ Len(ValueDigits(d)) \in Nat
          /\ MinimalDigits(d) = Repeated("0", PrecisionIs(d) - Len(ValueDigits(d))) \o ValueDigits(d)
      BY <1>4, MinimalIs DEF Integer, Text
    <3>2. PrecisionIs(d) - Len(ValueDigits(d)) \in Int
      BY <3>1
    <3> QED
      BY <3>1, <3>2, Characters, RepeatedIs, Joined
  <2>2. SignOf(d) \in Text
    BY SignIs
  <2>3. PrefixOf(d) \in Text
    BY PrefixIs
  <2>4. SignOf(d) \o PrefixOf(d) \in Text
    BY <2>2, <2>3, Joined
  <2>5. BareNumber(d) \in Text
    BY <2>1, <2>4, Joined DEF BareNumber
  <2> QED
    BY <2>5 DEF Text
<1>8. Len(BareNumber(d)) <= NTOA_BUFFER_SIZE
  BY <1>2, <1>7, WordTypes DEF BufferOverrun
<1>9. ZeroPadded(d) => FieldWidth(d) <= NTOA_BUFFER_SIZE
  BY <1>2, <1>6, WordTypes DEF BufferOverrun
<1> QED
  BY <1>1, <1>2, <1>3, <1>4, <1>5, <1>6, <1>8, <1>9

LEMMA TwoTogether ==
    ASSUME NEW s \in Text, NEW t \in Text, NEW u \in Text, Len(s) = 1, Len(t) = 1, Len(u) = 2,
           u[1] = s[1], u[2] = t[1]
    PROVE  s \o t = u
<1> DEFINE v == s \o t
<1>1. v \in Text /\ Len(v) = Len(s) + Len(t)
  BY Joined
<1>2. Len(v) = 2
  BY <1>1
<1>3. v[1] = s[1]
  <2>1. 1 \in 1 .. Len(s)
    OBVIOUS
  <2> QED
    BY <2>1, Concatenated
<1>4. v[2] = t[1]
  <2>1. 2 \in Len(s) + 1 .. Len(s) + Len(t) /\ 2 - Len(s) = 1
    OBVIOUS
  <2>2. v[2] = t[2 - Len(s)]
    BY <2>1, Concatenated
  <2> QED
    BY <2>1, <2>2
<1> HIDE DEF v
<1>5. \A k \in 1 .. 2 : v[k] = u[k]
  <2>1. \A k \in 1 .. 2 : k = 1 \/ k = 2
    OBVIOUS
  <2> QED
    BY <1>3, <1>4, <2>1
<1>6. v = u
  BY <1>1, <1>2, <1>5 DEF Text
<1> QED
  BY <1>6 DEF v

LEMMA TwoCharacters ==
    ASSUME NEW a \in Chars, NEW c \in Chars
    PROVE  <<a>> \o <<c>> = <<a, c>>
<1>1. <<a>> \in Text /\ Len(<<a>>) = 1 /\ <<a>>[1] = a /\ <<c>> \in Text /\ Len(<<c>>) = 1 /\ <<c>>[1] = c
  BY ShortTexts
<1>2. <<a, c>> \in Text /\ Len(<<a, c>>) = 2 /\ <<a, c>>[1] = a /\ <<a, c>>[2] = c
  BY ShortTexts
<1> QED
  BY <1>1, <1>2, TwoTogether

\* The sign and the prefix put above the digits.
LEMMA SignRead ==
    ASSUME NEW d, Integer(d), NEW b, NEW t, Reads(b, t), Len(SignOf(d)) + Len(t) <= NTOA_BUFFER_SIZE
    PROVE  Reads(WithSign(b, IsNegative(d), NumberFlags(d)), SignOf(d) \o t)
<1> DEFINE f == NumberFlags(d)
           With(c) == Above(b, c)
<1>1. t \in Text /\ Len(t) \in Nat /\ NTOA_BUFFER_SIZE \in Nat
  BY WordTypes DEF Reads, Text
<1>2. ASSUME NEW c \in Chars, SignOf(d) = <<c>> PROVE Reads(Above(b, c), SignOf(d) \o t)
  <2>1. Len(SignOf(d)) = 1
    BY <1>2
  <2>2. Len(t) < NTOA_BUFFER_SIZE
    BY <1>1, <2>1
  <2> QED
    BY <1>2, <2>2, AboveRead
<1>3. CASE IsNegative(d)
  <2>1. SignOf(d) = <<"-">> /\ WithSign(b, IsNegative(d), f) = Above(b, "-")
    BY <1>3, SignIs DEF WithSign
  <2> QED
    BY <1>2, <2>1, Characters
<1>4. CASE ~IsNegative(d) /\ "plus" \in f
  <2>1. SignOf(d) = <<"+">> /\ WithSign(b, IsNegative(d), f) = Above(b, "+")
    BY <1>4, SignIs DEF WithSign
  <2> QED
    BY <1>2, <2>1, Characters
<1>5. CASE ~IsNegative(d) /\ "plus" \notin f /\ "space" \in f
  <2>1. SignOf(d) = <<" ">> /\ WithSign(b, IsNegative(d), f) = Above(b, " ")
    BY <1>5, SignIs DEF WithSign
  <2> QED
    BY <1>2, <2>1, Characters
<1>6. CASE ~IsNegative(d) /\ "plus" \notin f /\ "space" \notin f
  <2>1. SignOf(d) = <<>> /\ WithSign(b, IsNegative(d), f) = b
    BY <1>6, SignIs DEF WithSign
  <2>2. <<>> \o t = t
    BY <1>1, NothingJoined
  <2> QED
    BY <2>1, <2>2
<1> QED
  BY <1>3, <1>4, <1>5, <1>6

LEMMA PrefixRead ==
    ASSUME NEW d, Integer(d), "hash" \in NumberFlags(d), PrefixOf(d) # <<>>,
           NEW b, NEW t, Reads(b, t), Len(PrefixOf(d)) + Len(t) <= NTOA_BUFFER_SIZE
    PROVE  Reads(Above(BaseLetter(b, Radix(d), NumberFlags(d)), "0"), PrefixOf(d) \o t)
<1> DEFINE f == NumberFlags(d)
           c == d.conv
           letters == BaseLetter(b, Radix(d), f)
<1>1. t \in Text /\ Len(t) \in Nat /\ NTOA_BUFFER_SIZE \in Nat
  BY WordTypes DEF Reads, Text
<1>2. /\ c \in {"x", "X", "o", "b"} /\ (c # "o" => PrefixOf(d) = <<"0", c>> /\ Len(PrefixOf(d)) = 2)
      /\ (c = "o" => PrefixOf(d) = <<"0">>)
  BY PrefixIs
<1>3. (c \in {"x", "X"} => Radix(d) = 16) /\ (c = "o" => Radix(d) = 8) /\ (c = "b" => Radix(d) = 2)
  BY ValueIs DEF Integer
<1>4. "uppercase" \in f <=> c = "X"
  BY NumberFlagsAre DEF Integer
<1>5. "0" \in Chars /\ "x" \in Chars /\ "X" \in Chars /\ "b" \in Chars
  BY Characters
<1>6. CASE c = "o"
  <2>1. letters = b /\ PrefixOf(d) = <<"0">> /\ Len(<<"0">>) = 1
    BY <1>2, <1>3, <1>6 DEF BaseLetter
  <2>2. Len(t) < NTOA_BUFFER_SIZE
    BY <1>1, <2>1
  <2> QED
    BY <1>5, <2>1, <2>2, AboveRead
<1>7. CASE c # "o"
  <2>1. letters = Above(b, c) /\ c \in Chars
    <3>1. CASE c = "x"
      BY <1>3, <1>4, <1>5, <3>1 DEF BaseLetter
    <3>2. CASE c = "X"
      BY <1>3, <1>4, <1>5, <3>2 DEF BaseLetter
    <3>3. CASE c = "b"
      BY <1>3, <1>4, <1>5, <3>3 DEF BaseLetter
    <3> QED
      BY <1>2, <1>7, <3>1, <3>2, <3>3
  <2> HIDE DEF c
  <2> HIDE DEF letters
  <2>2. Len(PrefixOf(d)) = 2 /\ PrefixOf(d) = <<"0", c>>
    BY <1>2, <1>7
  <2>3. Len(t) < NTOA_BUFFER_SIZE
    BY <1>1, <2>2
  <2>4. Reads(letters, <<c>> \o t)
    BY <2>1, <2>3, AboveRead
  <2>5. Len(<<c>> \o t) = Len(t) + 1
    BY <1>1, <2>1 DEF Text
  <2>6. Len(<<c>> \o t) < NTOA_BUFFER_SIZE
    BY <1>1, <2>2, <2>5
  <2>7. Reads(Above(letters, "0"), <<"0">> \o (<<c>> \o t))
    BY <1>5, <2>4, <2>6, AboveRead
  <2>8. <<"0">> \o (<<c>> \o t) = <<"0", c>> \o t
    <3>1. <<"0">> \in Text /\ <<c>> \in Text
      BY <1>5, <2>1, ShortTexts
    <3>2. <<"0">> \o (<<c>> \o t) = (<<"0">> \o <<c>>) \o t
      BY <1>1, <3>1, Associative
    <3>3. <<"0">> \o <<c>> = <<"0", c>>
      BY <1>5, <2>1, TwoCharacters
    <3> QED
      BY <3>2, <3>3
  <2> QED
    BY <2>2, <2>7, <2>8 DEF letters
<1> QED
  BY <1>6, <1>7

\* The length of the bare number.
LEMMA BareLength ==
    ASSUME NEW d, Integer(d)
    PROVE  /\ ValueDigits(d) \in Text /\ MinimalDigits(d) \in Text /\ BareNumber(d) \in Text
           /\ Len(ValueDigits(d)) \in Nat /\ Len(MinimalDigits(d)) \in Nat
           /\ Len(PrefixOf(d)) \in Nat /\ Len(SignOf(d)) \in Nat
           /\ PrefixOf(d) \o MinimalDigits(d) \in Text
           /\ Len(PrefixOf(d) \o MinimalDigits(d)) = Len(PrefixOf(d)) + Len(MinimalDigits(d))
           /\ Len(SignOf(d)) + Len(PrefixOf(d)) + Len(MinimalDigits(d)) <= NTOA_BUFFER_SIZE
           /\ Len(BareNumber(d)) = Len(SignOf(d)) + Len(PrefixOf(d)) + Len(MinimalDigits(d))
           /\ BareNumber(d) = SignOf(d) \o (PrefixOf(d) \o MinimalDigits(d))
           /\ Len(MinimalDigits(d)) = IF PrecisionIs(d) > Len(ValueDigits(d)) THEN PrecisionIs(d)
                                      ELSE Len(ValueDigits(d))
           /\ PrecisionIs(d) \in Nat
           /\ PrecisionIs(d) <= Len(ValueDigits(d)) => MinimalDigits(d) = ValueDigits(d)
<1> DEFINE v == ValueDigits(d)
           p == PrecisionIs(d)
           z == Repeated("0", p - Len(v))
           m == MinimalDigits(d)
           s == SignOf(d)
           x == PrefixOf(d)
<1>1. v \in Text /\ p \in Nat /\ Len(v) \in Nat /\ m = z \o v
  BY Undeviating, MinimalIs DEF Integer, Text
<1>2. s \in Text /\ x \in Text /\ Len(s) \in Nat /\ Len(x) \in Nat
  <2>1. s \in Text /\ x \in Text
    BY SignIs, PrefixIs
  <2> HIDE DEF s, x
  <2> QED
    BY <2>1 DEF Text
<1>3. Len(BareNumber(d)) <= NTOA_BUFFER_SIZE
  BY Undeviating
<1>4. BareNumber(d) = (s \o x) \o m
  BY DEF BareNumber
<1>5. z \in Text /\ Len(z) = IF p - Len(v) < 0 THEN 0 ELSE p - Len(v)
  <2>1. p - Len(v) \in Int
    BY <1>1
  <2> QED
    BY <2>1, Characters, RepeatedIs
<1>6. p <= Len(v) => z = <<>>
  <2>1. p - Len(v) \in Int /\ (p <= Len(v) => p - Len(v) <= 0)
    BY <1>1
  <2> QED
    BY <2>1, NoneRepeated
<1> HIDE DEF s, x, z, v, p, m
<1>7. m \in Text /\ Len(m) = Len(z) + Len(v) /\ Len(m) \in Nat
  BY <1>1, <1>5, Joined DEF Text
<1>8. Len(m) = IF p > Len(v) THEN p ELSE Len(v)
  BY <1>1, <1>5, <1>7
<1>9. s \o x \in Text /\ Len(s \o x) = Len(s) + Len(x) /\ x \o m \in Text /\ Len(x \o m) = Len(x) + Len(m)
  BY <1>2, <1>7, Joined
<1>10. (s \o x) \o m \in Text /\ Len((s \o x) \o m) = Len(s) + Len(x) + Len(m)
  BY <1>7, <1>9, Joined
<1>11. (s \o x) \o m = s \o (x \o m)
  BY <1>2, <1>7, Associative
<1>12. p <= Len(v) => m = v
  BY <1>1, <1>6, NothingJoined
<1> QED
  BY <1>1, <1>2, <1>3, <1>4, <1>7, <1>8, <1>9, <1>10, <1>11, <1>12 DEF s, x, m, v, p

\* _ntoa_format's digits where no zeros fill the width.
LEMMA UnpaddedDigits ==
    ASSUME NEW d, Integer(d), NEW n, Given_(d, n), ~ZeroPadded(d)
    PROVE  /\ WidthForZeros(n, NumberFlags(d), FieldWidth(d)) = FieldWidth(d)
           /\ Reads(LeadingZeros(n, NumberFlags(d), FieldWidth(d), PrecisionIs(d)), MinimalDigits(d))
<1> DEFINE f == NumberFlags(d)
           w == FieldWidth(d)
           p == PrecisionIs(d)
           v == ValueDigits(d)
           m == MinimalDigits(d)
<1>1. /\ "left" \in f <=> LeftJustified(d)
      /\ "zeropad" \in f <=> "0" \in d.flags /\ d.precision = NONE
  BY NumberFlagsAre DEF Integer
<1>2. d.precision \in Int /\ d.precision >= NONE /\ NONE = -1
  BY Undeviating
<1>3. "left" \in f \/ "zeropad" \notin f
  BY <1>1, <1>2 DEF ZeroPadded
<1>4. WidthForZeros(n, f, w) = w
  BY <1>3 DEF WidthForZeros
<1>5. /\ v \in Text /\ m \in Text /\ Len(v) \in Nat /\ Len(m) \in Nat /\ p \in Nat
      /\ p <= Len(v) => m = v
      /\ Len(m) = IF p > Len(v) THEN p ELSE Len(v)
      /\ Len(SignOf(d)) + Len(PrefixOf(d)) + Len(m) <= NTOA_BUFFER_SIZE
      /\ Len(PrefixOf(d)) \in Nat /\ Len(SignOf(d)) \in Nat
  BY BareLength
<1>6. Reads(n.buf, v)
  BY DEF Given_
<1>7. m = Repeated("0", p - Len(v)) \o v
  BY <1>2, MinimalIs DEF Integer
<1>8. CASE "left" \in f
  <2>1. LeadingZeros(n, f, w, p) = n.buf
    BY <1>8 DEF LeadingZeros
  <2>2. d.precision <= 0 \/ Head(m) # "0"
    BY <1>1, <1>8, Undeviating
  <2>3. p > 0 => d.precision > 0
    BY <1>2 DEF PrecisionIs
  <2>4. p <= Len(v)
    <3> SUFFICES ASSUME p > Len(v) PROVE FALSE
      BY <1>5
    <3>1. p > 0 /\ Head(m) # "0"
      BY <1>2, <1>5, <2>2, <2>3
    <3>2. p - Len(v) \in Int /\ p - Len(v) >= 1
      BY <1>5
    <3>3. Head(m) = "0"
      BY <1>5, <1>7, <3>2, ZerosAhead
    <3> QED
      BY <3>1, <3>3
  <2> QED
    BY <1>4, <1>5, <1>6, <2>1, <2>4
<1>9. CASE "left" \notin f
  <2>1. LeadingZeros(n, f, w, p) = ZerosUpTo(n.buf, p)
    BY <1>3, <1>9 DEF LeadingZeros
  <2>3. Least(p, NTOA_BUFFER_SIZE) - Len(v) = p - Len(v)
    <3>1. NTOA_BUFFER_SIZE \in Nat
      BY WordTypes
    <3>2. p <= NTOA_BUFFER_SIZE
      BY <1>5, <3>1
    <3>3. Least(p, NTOA_BUFFER_SIZE) = p
      BY <1>5, <3>1, <3>2 DEF Least
    <3> QED
      BY <3>3
  <2>4. Reads(ZerosUpTo(n.buf, p), Repeated("0", Least(p, NTOA_BUFFER_SIZE) - Len(v)) \o v)
    BY <1>5, <1>6, ZerosRead
  <2> QED
    BY <1>4, <1>7, <2>1, <2>3, <2>4
<1> QED
  BY <1>8, <1>9

LEMMA UnpaddedPrefixed ==
    ASSUME NEW d, Integer(d), NEW b, Reads(b, MinimalDigits(d)), ~ZeroPadded(d)
    PROVE  Reads(Prefixed(b, Radix(d), NumberFlags(d), FieldWidth(d), PrecisionIs(d)),
                 PrefixOf(d) \o MinimalDigits(d))
<1> DEFINE f == NumberFlags(d)
           w == FieldWidth(d)
           p == PrecisionIs(d)
           v == ValueDigits(d)
           m == MinimalDigits(d)
           r == Radix(d)
<1>1. /\ v \in Text /\ m \in Text /\ Len(v) \in Nat /\ Len(m) \in Nat /\ p \in Nat
      /\ p <= Len(v) => m = v
      /\ Len(SignOf(d)) + Len(PrefixOf(d)) + Len(m) <= NTOA_BUFFER_SIZE
      /\ Len(PrefixOf(d)) \in Nat /\ Len(SignOf(d)) \in Nat
  BY BareLength
<1>2. d.precision \in Int /\ d.precision >= NONE /\ NONE = -1 /\ w \in Nat /\ ~PrefixDeviates(d)
  BY Undeviating
<1>3. b \in Text /\ Len(b) = Len(m)
  BY DEF Reads
<1>4. CASE "hash" \notin f
  <2>1. Prefixed(b, r, f, w, p) = b /\ PrefixOf(d) = <<>>
    BY <1>4, PrefixIs DEF Prefixed
  <2>2. <<>> \o m = m
    BY <1>1, NothingJoined
  <2> QED
    BY <2>1, <2>2
<1>5. CASE "hash" \in f
  <2>1. /\ ValueOf(d) # 0 /\ d.conv \in {"x", "X", "o", "b"}
        /\ d.conv # "o" => PrefixOf(d) = <<"0", d.conv>>
        /\ d.conv = "o" /\ Head(m) # "0" => PrefixOf(d) = <<"0">>
        /\ d.conv = "o" /\ Head(m) = "0" => PrefixOf(d) = <<>>
    BY <1>5, PrefixIs
  <2>2. ("precision" \in f <=> d.precision # NONE) /\ "#" \in d.flags
    BY <1>5, NumberFlagsAre DEF Integer
  <2>3. Magnitude(d) # 0
    BY <2>1, ValueIs DEF Integer
  <2>4. d.precision = NONE => p = 0 /\ Len(v) >= 1
    BY <1>2, MinimalIs DEF Integer
  <2>5. Len(v) >= 1 /\ v[1] # "0"
    BY <1>2, <2>1, MinimalIs DEF Integer
  <2>6. d.conv = "o" => Head(m) # "0"
    <3>1. CASE d.precision >= 0
      BY <1>2, <2>1, <2>2, <2>3, <3>1 DEF PrefixDeviates
    <3>2. CASE d.precision = NONE
      <4>1. m = v
        BY <1>1, <2>4, <3>2
      <4> HIDE DEF m, v
      <4> QED
        BY <1>1, <2>5, <4>1 DEF Text
    <3> QED
      BY <1>2, <3>1, <3>2
  <2>7. PrefixOf(d) # <<>>
    BY <2>1, <2>6
  <2>8. d.precision = NONE => w # Len(m)
    BY <1>1, <1>2, <2>1, <2>2, <2>3 DEF PrefixDeviates
  <2>9. ~("precision" \notin f /\ Len(b) > 0 /\ Len(b) \in {p, w})
    BY <1>1, <1>2, <1>3, <2>2, <2>4, <2>8
  <2>10. Prefixed(b, r, f, w, p) = Above(BaseLetter(SubSeq(b, 1, Len(b) - 0), r, f), "0")
    BY <1>5, <2>9 DEF Prefixed
  <2>11. SubSeq(b, 1, Len(b) - 0) = b
    <3>1. Len(b) - 0 = Len(b)
      BY <1>1, <1>3
    <3> QED
      BY <1>3, <3>1 DEF Text
  <2>12. Len(PrefixOf(d)) + Len(m) <= NTOA_BUFFER_SIZE
    BY <1>1, WordTypes
  <2>13. Reads(Above(BaseLetter(b, r, f), "0"), PrefixOf(d) \o m)
    BY <1>5, <2>7, <2>12, PrefixRead
  <2> QED
    BY <2>10, <2>11, <2>13
<1> QED
  BY <1>4, <1>5

\* The same where zeros fill the width: how many of them there are.
Room(d) == FieldWidth(d) - Len(BareNumber(d))

LEMMA PaddedDigits ==
    ASSUME NEW d, Integer(d), NEW n, Given_(d, n), ZeroPadded(d), NEW room,
           room = WidthForZeros(n, NumberFlags(d), FieldWidth(d))
    PROVE  /\ "left" \notin NumberFlags(d) /\ "zeropad" \in NumberFlags(d) /\ "precision" \notin NumberFlags(d)
           /\ PrecisionIs(d) = 0 /\ d.precision = NONE /\ NONE = -1 /\ MinimalDigits(d) = ValueDigits(d)
           /\ Len(ValueDigits(d)) >= 1
           /\ room \in Nat /\ (FieldWidth(d) > 0 => room = FieldWidth(d) - Len(SignOf(d)))
           /\ (FieldWidth(d) = 0 => room = 0)
           /\ Reads(LeadingZeros(n, NumberFlags(d), FieldWidth(d), PrecisionIs(d)),
                    Repeated("0", room - Len(ValueDigits(d))) \o ValueDigits(d))
<1> DEFINE f == NumberFlags(d)
           w == FieldWidth(d)
           p == PrecisionIs(d)
           v == ValueDigits(d)
           m == MinimalDigits(d)
           s == SignOf(d)
<1>1. /\ d.precision \in Int /\ d.precision >= NONE /\ NONE = -1 /\ w \in Nat
      /\ w <= NTOA_BUFFER_SIZE /\ NTOA_BUFFER_SIZE \in Nat
  BY Undeviating, WordTypes
<1>2. "0" \in d.flags /\ d.precision = NONE /\ ~LeftJustified(d)
  BY <1>1 DEF ZeroPadded
<1>3. "left" \notin f /\ "zeropad" \in f /\ "precision" \notin f
  BY <1>2, NumberFlagsAre DEF Integer
<1>4. p = 0 /\ Len(v) >= 1
  BY <1>1, <1>2, MinimalIs DEF Integer
<1>5. v \in Text /\ Len(v) \in Nat /\ (p <= Len(v) => m = v)
  BY BareLength
<1>6. m = v
  BY <1>4, <1>5
<1>7. /\ n.negative \/ {"plus", "space"} \intersect f # {} => Len(s) = 1
      /\ ~(n.negative \/ {"plus", "space"} \intersect f # {}) => Len(s) = 0
  <2>1. Len(<<"-">>) = 1 /\ Len(<<"+">>) = 1 /\ Len(<<" ">>) = 1 /\ Len(<<>>) = 0
    OBVIOUS
  <2>2. n.negative = IsNegative(d)
    BY DEF Given_
  <2>3. CASE IsNegative(d)
    BY <2>1, <2>2, <2>3, SignIs
  <2>4. CASE ~IsNegative(d) /\ "plus" \in f
    BY <2>1, <2>2, <2>4, SignIs
  <2>5. CASE ~IsNegative(d) /\ "plus" \notin f /\ "space" \in f
    BY <2>1, <2>2, <2>5, SignIs
  <2>6. CASE ~IsNegative(d) /\ "plus" \notin f /\ "space" \notin f
    BY <2>1, <2>2, <2>6, SignIs
  <2> QED
    BY <2>3, <2>4, <2>5, <2>6
<1>8. room = IF w > 0 /\ (n.negative \/ {"plus", "space"} \intersect f # {}) THEN w - 1 ELSE w
  BY <1>3 DEF WidthForZeros
<1>9. room \in Nat /\ (w > 0 => room = w - Len(s)) /\ (w = 0 => room = 0) /\ room <= NTOA_BUFFER_SIZE
  <2> HIDE DEF w
  <2>1. CASE n.negative \/ {"plus", "space"} \intersect f # {}
    <3>1. Len(s) = 1 /\ room = IF w > 0 THEN w - 1 ELSE w
      BY <1>7, <1>8, <2>1
    <3> QED
      BY <1>1, <3>1
  <2>2. CASE ~(n.negative \/ {"plus", "space"} \intersect f # {})
    <3>1. Len(s) = 0 /\ room = w
      BY <1>7, <1>8, <2>2
    <3> QED
      BY <1>1, <3>1
  <2> QED
    BY <2>1, <2>2
<1>10. Reads(n.buf, v)
  BY DEF Given_
<1>11. Reads(ZerosUpTo(n.buf, p), v)
  <2>1. Reads(ZerosUpTo(n.buf, p), Repeated("0", Least(p, NTOA_BUFFER_SIZE) - Len(v)) \o v)
    BY <1>4, <1>10, ZerosRead
  <2>2. Least(p, NTOA_BUFFER_SIZE) - Len(v) \in Int /\ Least(p, NTOA_BUFFER_SIZE) - Len(v) <= 0
    BY <1>4, <1>5, WordTypes DEF Least
  <2>3. Repeated("0", Least(p, NTOA_BUFFER_SIZE) - Len(v)) = <<>>
    BY <2>2, NoneRepeated
  <2>4. <<>> \o v = v
    BY <1>5, NothingJoined
  <2> QED
    BY <2>1, <2>3, <2>4
<1>12. LeadingZeros(n, f, w, p) = ZerosUpTo(ZerosUpTo(n.buf, p), room)
  BY <1>3 DEF LeadingZeros
<1>13. Reads(ZerosUpTo(ZerosUpTo(n.buf, p), room), Repeated("0", Least(room, NTOA_BUFFER_SIZE) - Len(v)) \o v)
  BY <1>9, <1>11, ZerosRead
<1>14. Least(room, NTOA_BUFFER_SIZE) = room
  BY <1>1, <1>9 DEF Least
<1> QED
  BY <1>1, <1>2, <1>3, <1>4, <1>6, <1>9, <1>12, <1>13, <1>14

LEMMA PaddedPrefixed ==
    ASSUME NEW d, Integer(d), NEW n, Given_(d, n), ZeroPadded(d), NEW room,
           room = WidthForZeros(n, NumberFlags(d), FieldWidth(d)),
           NEW b, Reads(b, Repeated("0", room - Len(ValueDigits(d))) \o ValueDigits(d))
    PROVE  Reads(Prefixed(b, Radix(d), NumberFlags(d), room, PrecisionIs(d)),
                 PrefixOf(d) \o (Repeated("0", Room(d)) \o ValueDigits(d)))
<1> DEFINE f == NumberFlags(d)
           w == FieldWidth(d)
           p == PrecisionIs(d)
           v == ValueDigits(d)
           m == MinimalDigits(d)
           r == Radix(d)
           s == SignOf(d)
           x == PrefixOf(d)
<1>1. /\ "left" \notin f /\ "precision" \notin f /\ p = 0 /\ d.precision = NONE /\ NONE = -1 /\ m = v
      /\ Len(v) >= 1 /\ room \in Nat /\ (w > 0 => room = w - Len(s)) /\ (w = 0 => room = 0)
  BY PaddedDigits
<1>2. /\ v \in Text /\ Len(v) \in Nat /\ Len(x) \in Nat /\ Len(s) \in Nat
      /\ Len(s) + Len(x) + Len(v) <= NTOA_BUFFER_SIZE
      /\ Len(BareNumber(d)) = Len(s) + Len(x) + Len(v)
  BY <1>1, BareLength
<1>3. w \in Nat /\ ~PrefixDeviates(d) /\ w <= NTOA_BUFFER_SIZE
  BY Undeviating
<1>4. NTOA_BUFFER_SIZE \in Nat /\ "0" \in Chars /\ x \in Text
  BY WordTypes, Characters, PrefixIs
<1>5. CASE "hash" \notin f
  <2>1. Prefixed(b, r, f, room, p) = b /\ x = <<>> /\ Len(<<>>) = 0
    BY <1>5, PrefixIs DEF Prefixed
  <2>2. Repeated("0", room - Len(v)) = Repeated("0", Room(d))
    <3>1. CASE w > 0
      <4>1. room - Len(v) = Room(d)
        BY <1>1, <1>2, <1>3, <2>1, <3>1 DEF Room
      <4> QED
        BY <4>1
    <3>2. CASE w = 0
      <4>1. room - Len(v) \in Int /\ room - Len(v) <= 0 /\ Room(d) \in Int /\ Room(d) <= 0
        BY <1>1, <1>2, <1>3, <2>1, <3>2 DEF Room
      <4> QED
        BY <4>1, NoneRepeated
    <3> QED
      BY <1>3, <3>1, <3>2
  <2>3. Repeated("0", Room(d)) \o v \in Text
    <3>1. Room(d) \in Int
      BY <1>2, <1>3 DEF Room
    <3> QED
      BY <1>2, <1>4, <3>1, RepeatedIs, Joined
  <2>4. x \o (Repeated("0", Room(d)) \o v) = Repeated("0", Room(d)) \o v
    BY <2>1, <2>3, NothingJoined
  <2> QED
    BY <2>1, <2>2, <2>4
<1>6. CASE "hash" \in f
  <2>1. /\ ValueOf(d) # 0 /\ d.conv \in {"x", "X", "o", "b"} /\ ~IsSigned(d)
        /\ d.conv # "o" => x = <<"0", d.conv>> /\ Len(x) = 2
        /\ d.conv = "o" /\ Head(m) # "0" => x = <<"0">>
    BY <1>6, PrefixIs
  <2>2. s = <<>> /\ Len(<<>>) = 0
    BY <2>1, SignIs
  <2>3. room = w /\ Len(s) = 0
    BY <1>1, <1>3, <2>2
  <2>4. "#" \in d.flags /\ Magnitude(d) # 0
    BY <1>6, <2>1, NumberFlagsAre, ValueIs DEF Integer
  <2>5. v[1] # "0" /\ Head(m) # "0"
    <3>1. v[1] # "0"
      BY <1>1, <2>1, MinimalIs DEF Integer
    <3> HIDE DEF m, v
    <3> QED
      BY <1>1, <1>2, <3>1 DEF Text
  <2>6. (d.conv = "o" => x = <<"0">> /\ Len(x) = 1) /\ x # <<>>
    <3>1. Len(<<"0">>) = 1 /\ <<"0">> # <<>>
      OBVIOUS
    <3>2. d.conv # "o" => x # <<>>
      BY <2>1
    <3> QED
      BY <2>1, <2>5, <3>1, <3>2
  <2>7. /\ w - Len(v) # 0
        /\ d.conv \in {"x", "X"} => w - Len(v) # 1
        /\ d.conv = "b" => w - Len(v) <= 1
    <3> DEFINE left == w - Len(m)
    <3>1. ~(d.precision < 0 /\ left = 0)
      BY <1>3, <2>1, <2>4 DEF PrefixDeviates
    <3>2. ~(d.conv \in {"x", "X"} /\ left = 1)
      BY <1>3, <2>1, <2>4 DEF PrefixDeviates
    <3>3. ~(d.conv = "b" /\ left > 1)
      BY <1>3, <2>1, <2>4 DEF PrefixDeviates
    <3>4. left = w - Len(v)
      BY <1>1
    <3>5. d.precision < 0
      BY <1>1
    <3>6. left \in Int
      BY <1>2, <1>3, <3>4
    <3> HIDE DEF left
    <3> QED
      BY <3>1, <3>2, <3>3, <3>4, <3>5, <3>6
  <2> DEFINE z == w - Len(v)
             cut == IF z < 0 THEN 0 ELSE IF d.conv = "b" THEN 1 ELSE Len(x)
             t == Repeated("0", Room(d)) \o v
  <2>8. Room(d) = z - Len(x) /\ z \in Int /\ Len(x) >= 1
    <3>1. Len(x) >= 1
      BY <2>1, <2>6
    <3> QED
      BY <1>1, <1>2, <1>3, <2>3, <3>1 DEF Room
  <2>9. z >= 0 => z > 0 /\ IF d.conv = "b" THEN z = 1 /\ Len(x) = 2 ELSE z >= Len(x)
    <3>1. z # 0 /\ (d.conv \in {"x", "X"} => z # 1) /\ (d.conv = "b" => z <= 1)
      BY <2>7
    <3>2. (d.conv = "o" /\ Len(x) = 1) \/ (d.conv \in {"x", "X"} /\ Len(x) = 2) \/ (d.conv = "b" /\ Len(x) = 2)
      BY <2>1, <2>6
    <3>3. z \in Int
      BY <2>8
    <3> HIDE DEF z, x
    <3>4. CASE d.conv = "o" /\ Len(x) = 1
      BY <3>1, <3>3, <3>4
    <3>5. CASE d.conv \in {"x", "X"} /\ Len(x) = 2
      BY <3>1, <3>3, <3>5
    <3>6. CASE d.conv = "b" /\ Len(x) = 2
      BY <3>1, <3>3, <3>6
    <3> QED
      BY <3>2, <3>4, <3>5, <3>6
  <2>10. r = IF d.conv \in {"x", "X"} THEN 16 ELSE IF d.conv = "o" THEN 8 ELSE 2
    BY <2>1, ValueIs DEF Integer
  <2>11. b \in Text /\ Len(b) = IF z < 0 THEN Len(v) ELSE w
    <3>1. room - Len(v) = z
      BY <2>3
    <3>2. b \in Text /\ Len(b) = Len(Repeated("0", z) \o v)
      BY <3>1 DEF Reads
    <3>3. Repeated("0", z) \in Text /\ Len(Repeated("0", z)) = IF z < 0 THEN 0 ELSE z
      BY <1>4, <2>8, RepeatedIs
    <3>4. Len(Repeated("0", z) \o v) = Len(Repeated("0", z)) + Len(v)
      BY <1>2, <3>3, Joined
    <3> QED
      BY <1>2, <1>3, <3>2, <3>3, <3>4, SMTT(30)
  <2> DEFINE full == "precision" \notin f /\ Len(b) > 0 /\ Len(b) \in {p, room}
  <2>12. full <=> z >= 0
    BY <1>1, <1>2, <1>3, <2>3, <2>7, <2>11
  <2>13. Prefixed(b, r, f, room, p) = Above(BaseLetter(SubSeq(b, 1, Len(b) - cut), r, f), "0")
    <3>1. cut = IF ~full THEN 0 ELSE IF r = 16 /\ Len(b) > 1 THEN 2 ELSE 1
      <4>1. z >= 0 => Len(b) > 1
        BY <1>1, <1>2, <1>3, <2>9, <2>11, <2>8
      <4> HIDE DEF full, z
      <4>2. CASE z < 0
        <5>1. ~(z >= 0)
          BY <2>8, <4>2
        <5> QED
          BY <2>12, <4>2, <5>1
      <4>3. CASE z >= 0
        <5>1. full /\ Len(b) > 1 /\ ~(z < 0)
          BY <2>8, <2>9, <2>12, <4>1, <4>3
        <5>2. CASE d.conv = "o"
          BY <2>6, <2>10, <5>1, <5>2
        <5>3. CASE d.conv \in {"x", "X"}
          BY <2>1, <2>10, <5>1, <5>3
        <5>4. CASE d.conv = "b"
          BY <2>10, <5>1, <5>4
        <5> QED
          BY <2>1, <5>2, <5>3, <5>4
      <4> QED
        BY <2>8, <4>2, <4>3
    <3> HIDE DEF cut
    <3> QED
      BY <1>6, <3>1 DEF Prefixed
  <2>14. t \in Text /\ Len(x) + Len(t) <= NTOA_BUFFER_SIZE
    <3>1. Room(d) \in Int
      BY <1>2, <2>8
    <3>2. Repeated("0", Room(d)) \in Text /\ Len(Repeated("0", Room(d))) = IF Room(d) < 0 THEN 0 ELSE Room(d)
      BY <1>4, <3>1, RepeatedIs
    <3>3. t \in Text /\ Len(t) = Len(Repeated("0", Room(d))) + Len(v)
      BY <1>2, <3>2, Joined
    <3> HIDE DEF t
    <3> QED
      BY <1>2, <1>3, <1>4, <2>3, <2>8, <3>2, <3>3
  <2>15. Reads(SubSeq(b, 1, Len(b) - cut), t)
    <3>1. CASE z < 0
      <4>1. Repeated("0", room - Len(v)) = <<>> /\ Repeated("0", Room(d)) = <<>>
        <5>1. room - Len(v) \in Int /\ room - Len(v) <= 0 /\ Room(d) \in Int /\ Room(d) <= 0
          BY <1>2, <2>3, <2>8, <3>1
        <5> QED
          BY <5>1, NoneRepeated
      <4>2. Reads(b, t)
        BY <4>1
      <4>3. SubSeq(b, 1, Len(b) - cut) = b
        <5>1. Len(b) - cut = Len(b)
          BY <1>2, <2>11, <3>1
        <5> QED
          BY <2>11, <5>1 DEF Text
      <4> QED
        BY <4>2, <4>3
    <3>2. CASE z >= 0 /\ d.conv = "b"
      <4>1. cut = 1 /\ room - Len(v) = 1 /\ Room(d) = -1
        <5>1. z = 1 /\ Len(x) = 2
          BY <2>9, <3>2
        <5>2. cut = 1
          BY <3>2, <5>1
        <5>3. room - Len(v) = z
          BY <2>3
        <5>4. Room(d) = -1
          BY <2>8, <5>1
        <5> QED
          BY <5>1, <5>2, <5>3, <5>4
      <4>2. Repeated("0", Room(d)) = <<>> /\ <<>> \o v = v
        <5>1. Room(d) \in Int /\ Room(d) <= 0
          BY <4>1
        <5> QED
          BY <1>2, <5>1, NoneRepeated, NothingJoined
      <4>3. t = v
        BY <4>2
      <4>4. Repeated("0", 1) \in Text /\ Len(Repeated("0", 1)) = 1
        <5>1. 1 \in Int
          OBVIOUS
        <5>2. Repeated("0", 1) \in Text /\ Len(Repeated("0", 1)) = IF 1 < 0 THEN 0 ELSE 1
          BY <1>4, <5>1, RepeatedIs
        <5> QED
          BY <5>2
      <4>5. Reads(b, Repeated("0", 1) \o v)
        BY <4>1
      <4> HIDE DEF t
      <4> QED
        BY <1>2, <4>1, <4>3, <4>4, <4>5, CutRead
    <3>3. CASE z >= 0 /\ d.conv # "b"
      <4>1. /\ cut = Len(x) /\ z = Len(x) + Room(d) /\ Len(x) \in Nat /\ Room(d) \in Nat /\ Room(d) \in Int
        BY <1>2, <2>8, <2>9, <3>3
      <4>2. Repeated("0", room - Len(v)) = Repeated("0", Len(x)) \o Repeated("0", Room(d))
        <5>1. room - Len(v) = Len(x) + Room(d)
          BY <2>3, <4>1
        <5>2. Repeated("0", Len(x) + Room(d)) = Repeated("0", Len(x)) \o Repeated("0", Room(d))
          BY <1>4, <4>1, RepeatedSplit
        <5> QED
          BY <5>1, <5>2
      <4>3. Repeated("0", Len(x)) \in Text /\ Len(Repeated("0", Len(x))) = Len(x) /\ Repeated("0", Room(d)) \in Text
        BY <1>4, <4>1, RepeatedIs
      <4>4. (Repeated("0", Len(x)) \o Repeated("0", Room(d))) \o v = Repeated("0", Len(x)) \o t
        BY <1>2, <4>3, Associative
      <4>5. Reads(b, Repeated("0", Len(x)) \o t)
        BY <4>2, <4>4
      <4> HIDE DEF t
      <4> QED
        BY <2>14, <4>1, <4>3, <4>5, CutRead
    <3> QED
      BY <2>8, <3>1, <3>2, <3>3
  <2> HIDE DEF t, cut
  <2>16. Reads(Above(BaseLetter(SubSeq(b, 1, Len(b) - cut), r, f), "0"), x \o t)
    BY <1>6, <2>6, <2>14, <2>15, PrefixRead
  <2> QED
    BY <2>13, <2>16 DEF t
<1> QED
  BY <1>5, <1>6

\* What _out_rev makes of a buffer.
LEMMA TurnedOut ==
    ASSUME NEW b, NEW t, Reads(b, t), NEW w \in Int, NEW f
    PROVE  /\ "left" \in f => _out_rev(b, w, f) = t \o Spaces(w - Len(t))
           /\ "left" \notin f /\ "zeropad" \in f => _out_rev(b, w, f) = t
           /\ "left" \notin f /\ "zeropad" \notin f => _out_rev(b, w, f) = Spaces(w - Len(t)) \o t
<1> DEFINE turned == [k \in 1 .. Len(b) |-> b[Len(b) + 1 - k]]
           sp == Spaces(w - Len(b))
<1>1. turned = t /\ t \in Text /\ Len(b) = Len(t) /\ Len(t) \in Nat
  <2>1. turned = t
    BY TurnedRead
  <2>2. t \in Text /\ Len(b) = Len(t)
    BY DEF Reads
  <2> QED
    BY <2>1, <2>2 DEF Text
<1>2. sp \in Text /\ sp = Spaces(w - Len(t))
  <2>1. " " \in Chars
    BY Characters
  <2>2. w - Len(t) \in Int /\ w - Len(b) = w - Len(t)
    BY <1>1
  <2> QED
    BY <2>1, <2>2, RepeatedIs DEF Spaces
<1>3. _out_rev(b, w, f) = (IF {"left", "zeropad"} \intersect f = {} THEN sp ELSE <<>>) \o turned
                           \o (IF "left" \in f THEN sp ELSE <<>>)
  BY DEF _out_rev
<1> HIDE DEF turned, sp
<1>4. /\ <<>> \o t = t /\ t \o <<>> = t /\ (sp \o t) \o <<>> = sp \o t
  <2>1. sp \o t \in Text
    BY <1>1, <1>2, Joined
  <2> QED
    BY <1>1, <2>1, NothingJoined
<1>5. CASE "left" \in f
  <2>1. _out_rev(b, w, f) = (<<>> \o turned) \o sp
    BY <1>3, <1>5
  <2> QED
    BY <1>1, <1>2, <1>4, <1>5, <2>1
<1>6. CASE "left" \notin f /\ "zeropad" \in f
  <2>1. _out_rev(b, w, f) = (<<>> \o turned) \o <<>>
    BY <1>3, <1>6
  <2> QED
    BY <1>1, <1>2, <1>4, <1>6, <2>1
<1>7. CASE "left" \notin f /\ "zeropad" \notin f
  <2>1. _out_rev(b, w, f) = (sp \o turned) \o <<>>
    BY <1>3, <1>7
  <2> QED
    BY <1>1, <1>2, <1>4, <1>7, <2>1
<1> QED
  BY <1>5, <1>6, <1>7

\* Once its digits are in the buffer, _ntoa_format puts out the text C gives to
\* an integer (printf.c 222-270, 169-187).
THEOREM IntegerShownAsInC ==
    ASSUME NEW d, Integer(d), NEW n, Given_(d, n)
    PROVE  _ntoa_format(n, NumberFlags(d), FieldWidth(d), PrecisionIs(d)) = IntegerText(d)
<1> DEFINE f == NumberFlags(d)
           w == FieldWidth(d)
           p == PrecisionIs(d)
           room == WidthForZeros(n, f, w)
           digits == Prefixed(LeadingZeros(n, f, w, p), n.base, f, room, p)
           b == WithSign(digits, n.negative, f)
           s == SignOf(d)
           x == PrefixOf(d)
           m == MinimalDigits(d)
           bare == BareNumber(d)
<1>1. /\ s \in Text /\ x \in Text /\ m \in Text /\ bare \in Text /\ bare = s \o (x \o m)
      /\ Len(s) \in Nat /\ Len(x) \in Nat /\ Len(m) \in Nat
      /\ x \o m \in Text /\ Len(x \o m) = Len(x) + Len(m)
      /\ Len(s) + Len(x) + Len(m) <= NTOA_BUFFER_SIZE /\ Len(bare) = Len(s) + Len(x) + Len(m)
  BY BareLength, SignIs, PrefixIs
<1>2. w \in Nat /\ d.precision \in Int /\ d.precision >= NONE /\ NONE = -1 /\ NTOA_BUFFER_SIZE \in Nat
  BY Undeviating, WordTypes
<1>3. n.negative = IsNegative(d) /\ n.base = Radix(d)
  BY DEF Given_
<1>4. _ntoa_format(n, f, w, p) = _out_rev(b, room, f)
  BY DEF _ntoa_format
<1>5. /\ "left" \in f <=> LeftJustified(d)
      /\ "zeropad" \in f <=> "0" \in d.flags /\ d.precision = NONE
  BY NumberFlagsAre DEF Integer
<1>6. CASE ~ZeroPadded(d)
  <2>1. room = w
    BY <1>6, UnpaddedDigits
  <2>2. Reads(LeadingZeros(n, f, w, p), m)
    BY <1>6, UnpaddedDigits
  <2>3. Reads(digits, x \o m)
    BY <1>3, <1>6, <2>1, <2>2, UnpaddedPrefixed
  <2>4. Len(s) + Len(x \o m) <= NTOA_BUFFER_SIZE
    BY <1>1, <1>2
  <2>5. Reads(b, s \o (x \o m))
    BY <1>3, <2>3, <2>4, SignRead
  <2>6. Reads(b, bare) /\ w \in Int
    BY <1>1, <1>2, <2>5
  <2> HIDE DEF b, bare
  <2>7. CASE LeftJustified(d)
    <3>1. _out_rev(b, w, f) = bare \o Spaces(w - Len(bare))
      <4>1. "left" \in f
        BY <1>5, <2>7
      <4> HIDE DEF w, f
      <4> QED
        BY <2>6, <4>1, TurnedOut
    <3>2. IntegerText(d) = bare \o Spaces(w - Len(bare))
      BY <1>6, <2>7 DEF IntegerText, bare
    <3>3. _out_rev(b, room, f) = _out_rev(b, w, f)
      BY <2>1
    <3> HIDE DEF room, w, f
    <3> QED
      BY <1>4, <3>1, <3>2, <3>3 DEF room, w, f
  <2>8. CASE ~LeftJustified(d)
    <3>1. "left" \notin f /\ "zeropad" \notin f
      BY <1>2, <1>5, <1>6, <2>8 DEF ZeroPadded
    <3>2. _out_rev(b, w, f) = Spaces(w - Len(bare)) \o bare
      <4> HIDE DEF f, w
      <4> QED
        BY <2>6, <3>1, TurnedOut
    <3>3. IntegerText(d) = Spaces(w - Len(bare)) \o bare
      BY <1>6, <2>8 DEF IntegerText, bare
    <3>4. _out_rev(b, room, f) = _out_rev(b, w, f)
      BY <2>1
    <3> HIDE DEF room, w, f
    <3> QED
      BY <1>4, <3>2, <3>3, <3>4 DEF room, w, f
  <2> QED
    BY <2>7, <2>8
<1>7. CASE ZeroPadded(d)
  <2> DEFINE v == ValueDigits(d)
             z == Repeated("0", room - Len(v))
             y == Repeated("0", Room(d))
  <2>1. /\ "left" \notin f /\ "zeropad" \in f /\ m = v /\ room \in Nat
        /\ Reads(LeadingZeros(n, f, w, p), z \o v)
        /\ (w > 0 => room = w - Len(s)) /\ (w = 0 => room = 0)
    BY <1>7, PaddedDigits
  <2>2. Reads(digits, x \o (y \o v))
    BY <1>3, <1>7, <2>1, PaddedPrefixed
  <2>3. w <= NTOA_BUFFER_SIZE
    BY <1>7, Undeviating
  <2>4. Room(d) \in Int /\ Room(d) = w - (Len(s) + Len(x) + Len(m))
    BY <1>1, <1>2 DEF Room
  <2>5. "0" \in Chars
    BY Characters
  <2>6. y \in Text /\ Len(y) = IF Room(d) < 0 THEN 0 ELSE Room(d)
    BY <2>4, <2>5, RepeatedIs
  <2>7. y \o v \in Text /\ Len(y \o v) = Len(y) + Len(v) /\ v \in Text
    BY <1>1, <2>1, <2>6, Joined
  <2>8. x \o (y \o v) \in Text /\ Len(x \o (y \o v)) = Len(x) + Len(y \o v)
    BY <1>1, <2>7, Joined
  <2>9. Len(s) + Len(x \o (y \o v)) <= NTOA_BUFFER_SIZE
    <3>1. Len(s) + Len(x \o (y \o v)) = Len(s) + (Len(x) + (Len(y) + Len(m)))
      BY <2>1, <2>7, <2>8
    <3> QED
      BY <1>1, <1>2, <2>3, <2>4, <2>6, <3>1
  <2>10. Reads(b, s \o (x \o (y \o v)))
    BY <1>3, <2>2, <2>9, SignRead
  <2>11. _out_rev(b, room, f) = s \o (x \o (y \o v))
    <3>1. room \in Int
      BY <2>1
    <3> DEFINE whole == s \o (x \o (y \o v))
    <3>2. Reads(b, whole) /\ "left" \notin f /\ "zeropad" \in f
      BY <2>1, <2>10
    <3> HIDE DEF b, room, whole, f
    <3>3. _out_rev(b, room, f) = whole
      BY <3>1, <3>2, TurnedOut
    <3> QED
      BY <3>3 DEF whole
  <2>12. s \o (x \o (y \o v)) = ((s \o x) \o y) \o v
    <3>1. (s \o x) \o (y \o v) = s \o (x \o (y \o v))
      <4>1. s \in Text /\ x \in Text
        BY <1>1
      <4>2. y \o v \in Text
        BY <2>7
      <4> HIDE DEF s, x, y
      <4> QED
        BY <4>1, <4>2, Associative
    <3>2. s \o x \in Text
      BY <1>1, Joined
    <3>3. ((s \o x) \o y) \o v = (s \o x) \o (y \o v)
      BY <2>6, <2>7, <3>2, Associative
    <3> QED
      BY <3>1, <3>3
  <2>13. IntegerText(d) = ((s \o x) \o y) \o m
    <3>1. ~LeftJustified(d)
      BY <1>5, <2>1
    <3> QED
      BY <1>7, <3>1 DEF IntegerText, Room
  <2> QED
    BY <1>4, <2>1, <2>11, <2>12, <2>13
<1> QED
  BY <1>6, <1>7

\* A pointer is shown with all the digits its type has (printf.c 808-823).
LEMMA PointerShown ==
    ASSUME NEW d, WellFormed(d), d.conv = "p", NEW n, Given_(d, n)
    PROVE  _ntoa_format(n, NumberFlags(d), POINTER_DIGITS, PrecisionIs(d)) = TextOf(d)
<1> DEFINE f == NumberFlags(d)
           w == POINTER_DIGITS
           v == ValueDigits(d)
           z == Repeated("0", w - Len(v))
<1>1. d.conv \notin SignedChars \union UnsignedChars \union {"plain", "c", "s"} /\ d.conv \notin {"d", "i", "X"}
  BY DEF SignedChars, UnsignedChars
<1>2. d.value \in Int /\ d.flags = {} /\ d.precision = NONE /\ ~d.star /\ d.width = NONE /\ NONE = -1
  BY <1>1 DEF WellFormed, Bare, NONE
<1>3. ~LeftJustified(d) /\ ~IsSigned(d) /\ PrecisionIs(d) = 0
  BY <1>1, <1>2 DEF LeftJustified, IsSigned, PrecisionIs
<1>4. "left" \notin f /\ "zeropad" \in f /\ {"plus", "space", "hash"} \intersect f = {}
  <2> DEFINE l == LengthRead(d)
  <2>1. "left" \notin l /\ "plus" \notin l /\ "space" \notin l /\ "hash" \notin l
    BY <1>2, <1>3, LengthReadIs
  <2>2. f = IF ValueOf(d) = 0 THEN (l \union {"zeropad", "uppercase"}) \ {"hash"}
            ELSE l \union {"zeropad", "uppercase"}
    BY DEF NumberFlags
  <2> HIDE DEF l, f
  <2> QED
    BY <2>1, <2>2
<1>5. ~n.negative /\ Reads(n.buf, v)
  BY <1>3 DEF Given_, IsNegative
<1>6. w \in Nat /\ w <= NTOA_BUFFER_SIZE /\ NTOA_BUFFER_SIZE \in Nat /\ w > 0
  BY WordTypes, CFormatAssumption
<1>7. v \in Text /\ Len(v) \in Nat
  BY <1>5 DEF Reads, Text
<1> HIDE DEF f, w, v
<1>8. WidthForZeros(n, f, w) = w
  BY <1>4, <1>5 DEF WidthForZeros
<1>9. LeadingZeros(n, f, w, 0) = ZerosUpTo(ZerosUpTo(n.buf, 0), w)
  BY <1>4, <1>8 DEF LeadingZeros
<1>10. Reads(ZerosUpTo(n.buf, 0), v)
  <2>1. Reads(ZerosUpTo(n.buf, 0), Repeated("0", Least(0, NTOA_BUFFER_SIZE) - Len(v)) \o v)
    BY <1>5, ZerosRead
  <2>2. Least(0, NTOA_BUFFER_SIZE) - Len(v) \in Int /\ Least(0, NTOA_BUFFER_SIZE) - Len(v) <= 0
    BY <1>6, <1>7 DEF Least
  <2>3. Repeated("0", Least(0, NTOA_BUFFER_SIZE) - Len(v)) = <<>>
    BY <2>2, NoneRepeated
  <2>4. <<>> \o v = v
    BY <1>7, NothingJoined
  <2> QED
    BY <2>1, <2>3, <2>4
<1> DEFINE b == ZerosUpTo(ZerosUpTo(n.buf, 0), w)
<1>11. Reads(b, z \o v)
  <2>1. Reads(b, Repeated("0", Least(w, NTOA_BUFFER_SIZE) - Len(v)) \o v)
    BY <1>6, <1>10, ZerosRead
  <2>2. Least(w, NTOA_BUFFER_SIZE) = w
    BY <1>6 DEF Least
  <2> QED
    BY <2>1, <2>2
<1>12. _ntoa_format(n, f, w, 0) = _out_rev(b, w, f)
  <2>1. Prefixed(b, n.base, f, w, 0) = b
    BY <1>4 DEF Prefixed
  <2>2. WithSign(b, n.negative, f) = b
    BY <1>4, <1>5 DEF WithSign
  <2> HIDE DEF b
  <2> QED
    BY <1>8, <1>9, <2>1, <2>2 DEF _ntoa_format, b
<1>13. _out_rev(b, w, f) = z \o v
  <2> DEFINE whole == z \o v
  <2>1. Reads(b, whole) /\ w \in Int
    BY <1>6, <1>11
  <2> HIDE DEF b, whole
  <2>2. _out_rev(b, w, f) = whole
    BY <1>4, <2>1, TurnedOut
  <2> QED
    BY <2>2 DEF whole
<1>14. TextOf(d) = z \o v
  <2>1. ValueDigits(d) = DigitsOf(Unsigned(d.value, LONG), 16, TRUE)
    <3>1. d.precision = NONE /\ ValueOf(d) = Unsigned(d.value, LONG) /\ Radix(d) = 16 /\ IsUpper(d) = TRUE
      BY <1>2 DEF ValueOf, Radix, IsUpper
    <3> QED
      BY <3>1 DEF ValueDigits
  <2>2. TextOf(d) = LET digits == DigitsOf(Unsigned(d.value, LONG), 16, TRUE)
                    IN  Repeated("0", POINTER_DIGITS - Len(digits)) \o digits
    BY <1>1 DEF TextOf
  <2> QED
    BY <2>1, <2>2 DEF w, v
<1> QED
  BY <1>3, <1>12, <1>13, <1>14 DEF f, w

\* A character or a string is shown as C says.
LEMMA PlainShown ==
    ASSUME NEW d, WellFormed(d), d.conv \in {"c", "s"}, ~KnownDeviation(d)
    PROVE  /\ d.conv = "c" => Padded(<<d.value>>, 1, FieldWidth(d), LengthRead(d)) = TextOf(d)
           /\ d.conv = "s" =>
                LET p == PrecisionIs(d)
                    measured == _strnlen_s(d.value, IF p # 0 THEN p ELSE SIZE_MAX)
                    l == IF "precision" \in LengthRead(d) THEN Least(measured, p) ELSE measured
                IN  Padded(ShownOf(d.value, LengthRead(d), l), l, FieldWidth(d), LengthRead(d)) = TextOf(d)
<1> DEFINE p == PrecisionIs(d)
           w == FieldWidth(d)
           f == LengthRead(d)
<1>1. d.conv \notin SignedChars \union UnsignedChars \union {"plain", "p"}
  BY DEF SignedChars, UnsignedChars
<1>2. TextOf(d) = PlainText(d)
  BY <1>1 DEF TextOf
<1>3. /\ "left" \in f <=> LeftJustified(d)
      /\ "precision" \in f <=> d.precision # NONE
  BY LengthReadIs
<1>4. CASE d.conv = "c"
  <2>1. Len(<<d.value>>) = 1
    OBVIOUS
  <2>2. PlainText(d) = IF LeftJustified(d) THEN <<d.value>> \o Spaces(w - 1) ELSE Spaces(w - 1) \o <<d.value>>
    BY <1>4, <2>1 DEF PlainText
  <2> HIDE DEF w, f
  <2>3. Padded(<<d.value>>, 1, w, f) = PlainText(d)
    BY <1>3, <2>2 DEF Padded
  <2> QED
    BY <1>2, <1>4, <2>3 DEF w, f
<1>5. CASE d.conv = "s"
  <2>1. /\ d.precision \in Int /\ d.precision >= NONE /\ NONE = -1 /\ d.value \in Seq(STRING \ {NUL})
        /\ Len(d.value) <= SIZE_MAX
    <3>1. d.precision \in Int /\ (d.star \/ d.precision >= NONE) /\ ~(d.star /\ d.precision < NONE)
      BY <1>5 DEF WellFormed, Ints, KnownDeviation
    <3>2. NONE = -1
      BY DEF NONE
    <3> QED
      BY <1>1, <1>5, <3>1, <3>2 DEF WellFormed
  <2>2. Len(d.value) \in Nat /\ SIZE_MAX \in Nat
    BY <2>1, WordTypes
  <2> DEFINE measured == _strnlen_s(d.value, IF p # 0 THEN p ELSE SIZE_MAX)
             l == IF "precision" \in f THEN Least(measured, p) ELSE measured
             shown == ShownOf(d.value, f, l)
             text == IF d.precision < 0 THEN d.value
                     ELSE SubSeq(d.value, 1, Least(d.precision, Len(d.value)))
  <2>3. p = IF d.precision > 0 THEN d.precision ELSE 0
    BY DEF PrecisionIs
  <2>4. shown = text /\ l = Len(text)
    <3>1. CASE d.precision = NONE
      <4>1. p = 0 /\ "precision" \notin f /\ d.precision < 0
        BY <1>3, <2>1, <2>3, <3>1
      <4>2. l = Least(Len(d.value), SIZE_MAX)
        BY <4>1 DEF _strnlen_s
      <4>3. l = Len(d.value)
        BY <2>1, <2>2, <4>2 DEF Least
      <4> QED
        BY <4>1, <4>3 DEF ShownOf
    <3>2. CASE d.precision # NONE
      <4>1. p = d.precision /\ p >= 0 /\ p \in Nat /\ "precision" \in f
        BY <1>3, <2>1, <2>3, <3>2
      <4>2. l = Least(Least(Len(d.value), IF p # 0 THEN p ELSE SIZE_MAX), p)
        BY <4>1 DEF _strnlen_s
      <4>3. l = Least(p, Len(d.value))
        BY <2>1, <2>2, <4>1, <4>2 DEF Least
      <4>4. l \in 0 .. Len(d.value)
        BY <2>2, <4>1, <4>3 DEF Least
      <4>5. Len(SubSeq(d.value, 1, l)) = l
        BY <2>1, <2>2, <4>4
      <4>6. text = SubSeq(d.value, 1, Least(d.precision, Len(d.value))) /\ shown = SubSeq(d.value, 1, l)
        <5>1. ~(d.precision < 0)
          BY <4>1
        <5>2. text = SubSeq(d.value, 1, Least(d.precision, Len(d.value)))
          BY <5>1
        <5> HIDE DEF l, f, text
        <5>3. shown = SubSeq(d.value, 1, l)
          BY <4>1 DEF ShownOf
        <5> QED
          BY <5>2, <5>3
      <4> QED
        BY <4>1, <4>3, <4>5, <4>6
    <3> QED
      BY <3>1, <3>2
  <2>5. PlainText(d) = IF LeftJustified(d) THEN text \o Spaces(w - Len(text)) ELSE Spaces(w - Len(text)) \o text
    BY <1>5 DEF PlainText
  <2> HIDE DEF w, f, shown, text, l, measured
  <2>6. Padded(shown, l, w, f) = PlainText(d)
    BY <1>3, <2>4, <2>5 DEF Padded
  <2>7. Padded(shown, l, w, f) = TextOf(d)
    BY <1>2, <2>6
  <2> QED
    BY <1>5, <2>7 DEF w, f, shown, l, measured
<1> QED
  BY <1>4, <1>5
=============================================================================
