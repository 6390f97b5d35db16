-------------------------- MODULE KernelText_proofs --------------------------
(***************************************************************************)
(* Proofs about the text the archived kernel prints, for numbers, formats, *)
(* arguments and buffers of every size.                                    *)
(*                                                                         *)
(* The console prints the digits of its numbers as printf would: NumberInv *)
(* says what stands in each cell, and in what order while the reversal     *)
(* goes on.                                                                *)
(*                                                                         *)
(* printf puts out the text C says.  GoingOn says how far the call has     *)
(* come: the parser stands at a place within its m-th directive, and the   *)
(* text of the directives before it has been put out.  That a step keeps   *)
(* GoingOn rests on how a directive is written (its flags, width,          *)
(* precision, length and specifier stand one behind the other in the       *)
(* format) and, where it puts out a text, on what the formatting functions *)
(* make of a number, a string or a character.                              *)
(***************************************************************************)
EXTENDS KernelText, Printf_proofs

-----------------------------------------------------------------------------
(* The console's numbers: the cells between "0x" and the terminator, as    *)
(* they are written and as they are to be printed.                         *)

Job == job \in [fn : {"uint64", "hex"}, number : Numbers]

\* The number whose digits are written: an unsigned one with a negative low half
\* is negated.
Negative == job.fn = "uint64" /\ SignOfLowHalf < 0
Whole == IF Negative THEN Negated(job.number, LONG) ELSE job.number

Lead == IF job.fn = "hex" THEN 2 ELSE 0
Count == DigitCount(Whole, Base)
Size == Lead + Count + (IF Negative THEN 1 ELSE 0)

\* What is written into cell k, and what stands there in the end.
Cell(k) == IF k < Lead THEN IF k = 0 THEN "0" ELSE "x"
           ELSE IF k < Lead + Count
                THEN DigitChar((Whole \div Power(Base, k - Lead)) % Base, TRUE)
                ELSE "-"
Final(k) == IF k < Lead THEN Cell(k) ELSE Cell(Lead + Size - 1 - k)

StoredTo(m) == DOMAIN str = 0 .. m - 1 /\ \A k \in 0 .. m - 1 : str[k] = Cell(k)

\* The cells from start to end are still to be reversed.
Reversing ==
    /\ i = Size /\ DOMAIN str = 0 .. Size /\ str[Size] = NUL
    /\ start \in Nat /\ Lead <= start /\ start <= end + 1
    /\ end = Lead + Size - 1 - start
    /\ \A k \in 0 .. Size - 1 : str[k] = IF k \in start .. end THEN Cell(k) ELSE Final(k)

NumberInv ==
    \/ step = "idle"
    \/ /\ Job
       /\ step \in {"call", "digits", "sign", "end", "reverse", "done"}
       /\ step = "call" => str = <<>> /\ i = 0
       /\ step = "digits" => /\ i \in Lead .. Lead + Count - 1 /\ StoredTo(i)
                             /\ n = Whole \div Power(Base, i - Lead)
       /\ step = "sign" => job.fn = "uint64" /\ i = Lead + Count /\ StoredTo(i)
       /\ step = "end" => i = Size /\ StoredTo(i)
       /\ step = "reverse" => Reversing
       /\ step = "done" => DOMAIN str = 0 .. Size /\ shown = [k \in 1 .. Size |-> Final(k - 1)]

\* What a job's numbers are.
LEMMA JobIs ==
    ASSUME Job
    PROVE  /\ Base \in {10, 16} /\ Base \in Nat /\ Base >= 2 /\ Base \in Nat \ {0}
           /\ Lead \in {0, 2} /\ (Lead = 2 <=> job.fn = "hex")
           /\ Whole \in 0 .. LONG - 1 /\ Whole \in Nat
           /\ Count \in Nat /\ Count >= 1
           /\ Size \in Nat /\ Size = Lead + Count + (IF Negative THEN 1 ELSE 0)
           /\ Negative => Lead = 0
           /\ job.number \in Nat /\ job.number < LONG
<1>1. job.fn \in {"uint64", "hex"} /\ job.number \in Numbers
  BY DEF Job
<1>2. Base \in {10, 16} /\ Base \in Nat /\ Base >= 2 /\ Base \in Nat \ {0}
  BY DEF Base
<1>3. Lead \in {0, 2} /\ (Lead = 2 <=> job.fn = "hex") /\ (Negative => Lead = 0)
  BY <1>1 DEF Lead, Negative
<1>4. job.number \in 0 .. LONG - 1 /\ LONG \in Nat \ {0}
  BY <1>1, NumberTextAssumption, WordTypes
<1>5. Whole \in 0 .. LONG - 1 /\ Whole \in Nat
  <2>1. Negated(job.number, LONG) \in 0 .. LONG - 1
    <3>1. job.number \in Int
      BY <1>4
    <3> QED
      BY <1>4, <3>1, Wraps
  <2> QED
    BY <1>4, <2>1 DEF Whole
<1>6. Count \in Nat /\ Count >= 1
  BY <1>2, <1>5, DigitsEnd DEF Count
<1>7. Size \in Nat /\ Size = Lead + Count + (IF Negative THEN 1 ELSE 0)
  BY <1>3, <1>6 DEF Size
<1> QED
  BY <1>2, <1>3, <1>4, <1>5, <1>6, <1>7

\* A job does not change while it is done, nor does what is to be written.
LEMMA JobStays ==
    ASSUME job' = job
    PROVE  /\ Job' = Job /\ Negative' = Negative /\ Whole' = Whole /\ Lead' = Lead
           /\ Base' = Base /\ Count' = Count /\ Size' = Size
           /\ \A k : Cell(k)' = Cell(k) /\ Final(k)' = Final(k)
<1>1. Job' = Job /\ Base' = Base /\ Lead' = Lead /\ SignOfLowHalf' = SignOfLowHalf
  BY DEF Job, Base, Lead, SignOfLowHalf
<1>2. Negative' = Negative
  BY <1>1 DEF Negative
<1>3. Whole' = Whole
  BY <1>2 DEF Whole
<1>4. Count' = Count
  BY <1>1, <1>3 DEF Count
<1>5. Size' = Size
  BY <1>1, <1>2, <1>4 DEF Size
<1>6. ASSUME NEW k PROVE Cell(k)' = Cell(k) /\ Final(k)' = Final(k)
  BY <1>1, <1>3, <1>4, <1>5 DEF Cell, Final
<1> QED
  BY <1>1, <1>2, <1>3, <1>4, <1>5, <1>6

\* The digit at a place of a number.
LEMMA DigitAt ==
    ASSUME Job, NEW k \in Nat
    PROVE  (Whole \div Power(Base, k)) % Base \in 0 .. Base - 1
<1> DEFINE w == Whole \div Power(Base, k)
<1>1. w \in Nat /\ Base \in Nat \ {0}
  BY JobIs, HigherDigits
<1> HIDE DEF w
<1>2. w % Base \in 0 .. Base - 1
  BY <1>1
<1> QED
  BY <1>2 DEF w

\* No cell in front of the terminator is one.
LEMMA CellIsShown ==
    ASSUME Job, NEW k \in 0 .. Size - 1
    PROVE  Cell(k) # NUL /\ Final(k) # NUL
<1>1. ASSUME NEW l \in 0 .. Size - 1 PROVE Cell(l) # NUL
  <2>1. CASE l < Lead
    BY <2>1 DEF Cell, NUL
  <2>2. CASE ~(l < Lead) /\ l < Lead + Count
    <3> DEFINE d == (Whole \div Power(Base, l - Lead)) % Base
    <3>1. l - Lead \in Nat
      BY <2>2, JobIs
    <3>2. d \in 0 .. Base - 1
      BY <3>1, DigitAt
    <3> HIDE DEF d
    <3>3. d \in 0 .. 15
      BY <3>2, JobIs
    <3>4. DigitChar(d, TRUE) # NUL
      BY <3>3, DigitIsShown
    <3> QED
      BY <2>2, <3>4 DEF Cell, d
  <2>3. CASE ~(l < Lead) /\ ~(l < Lead + Count)
    BY <2>3 DEF Cell, NUL
  <2> QED
    BY <2>1, <2>2, <2>3
<1>2. ~(k < Lead) => Lead + Size - 1 - k \in 0 .. Size - 1
  BY JobIs
<1> QED
  BY <1>1, <1>2 DEF Final

LEMMA InitNumber == NumberIdle \/ NumberInit => NumberInv
  BY DEF NumberIdle, NumberInit, NumberInv, Job

\* The number is taken over, with "0x" in front of a hexadecimal one.
LEMMA BeginSteps == NumberInv /\ (BeginDecimal \/ BeginHex) => NumberInv'
<1> SUFFICES ASSUME NumberInv, BeginDecimal \/ BeginHex PROVE NumberInv'
  OBVIOUS
<1>1. step = "call" /\ job' = job /\ step' = "digits"
  BY DEF BeginDecimal, BeginHex
<1>2. Job /\ str = <<>> /\ i = 0
  BY <1>1 DEF NumberInv
<1>3. Job' /\ Count \in Nat /\ Count >= 1
  BY <1>1, <1>2, JobIs, JobStays
<1>4. i' = Lead /\ n' = Whole /\ DOMAIN str' = 0 .. Lead - 1
      /\ \A k \in 0 .. Lead - 1 : str'[k] = Cell(k)
  <2>1. CASE BeginDecimal
    <3>1. Lead = 0 /\ n' = Whole
      BY <2>1 DEF BeginDecimal, Lead, Whole, Negative
    <3>2. i' = 0 /\ DOMAIN str' = {} /\ 0 .. 0 - 1 = {}
      BY <1>2, <2>1 DEF BeginDecimal
    <3> QED
      BY <3>1, <3>2
  <2>2. CASE BeginHex
    <3>1. Lead = 2 /\ n' = Whole
      BY <2>2 DEF BeginHex, Lead, Whole, Negative
    <3>2. i' = 2 /\ DOMAIN str' = {0, 1} /\ 0 .. 2 - 1 = {0, 1}
      BY <2>2 DEF BeginHex
    <3>3. str'[0] = "0" /\ str'[1] = "x"
      BY <2>2 DEF BeginHex
    <3>4. Cell(0) = "0" /\ Cell(1) = "x"
      BY <3>1 DEF Cell
    <3> QED
      BY <3>1, <3>2, <3>3, <3>4
  <2> QED
    BY <2>1, <2>2
<1>5. StoredTo(i)'
  BY <1>1, <1>4, JobStays DEF StoredTo
<1>6. Lead \in Nat /\ i' - Lead = 0 /\ i' \in Lead .. Lead + Count - 1
  BY <1>2, <1>3, <1>4, JobIs
<1>7. n' = Whole \div Power(Base, i' - Lead)
  <2>1. Whole \div Power(Base, 0) = Whole
    BY <1>2, JobIs, HigherDigits
  <2> QED
    BY <1>4, <1>6, <2>1
<1>8. (/\ i \in Lead .. Lead + Count - 1 /\ StoredTo(i)
       /\ n = Whole \div Power(Base, i - Lead))'
  BY <1>1, <1>5, <1>6, <1>7, JobStays
<1> QED
  BY <1>1, <1>3, <1>8 DEF NumberInv

\* One more cell is written.
LEMMA CellStored ==
    ASSUME StoredTo(i), i \in Nat, NEW c, str' = Store(i, c)
    PROVE  /\ DOMAIN str' = 0 .. i
           /\ str'[i] = c
           /\ \A k \in 0 .. i - 1 : str'[k] = Cell(k)
<1>1. DOMAIN str = 0 .. i - 1 /\ 0 .. i - 1 \union {i} = 0 .. i
  BY DEF StoredTo
<1>2. str' = [j \in 0 .. i |-> IF j = i THEN c ELSE str[j]]
  BY <1>1 DEF Store
<1>3. i \in 0 .. i /\ \A k \in 0 .. i - 1 : k \in 0 .. i /\ k # i
  OBVIOUS
<1> QED
  BY <1>2, <1>3 DEF StoredTo

\* A digit is written, until nothing of the number is left: then all are.
LEMMA DigitStep == NumberInv /\ Digit => NumberInv'
<1> SUFFICES ASSUME NumberInv, Digit PROVE NumberInv'
  OBVIOUS
<1> DEFINE k == i - Lead
<1>1. step = "digits" /\ job' = job /\ i' = i + 1 /\ n' = n \div Base
      /\ str' = Store(i, DigitChar(n % Base, TRUE))
      /\ step' = IF n' > 0 THEN "digits" ELSE IF job.fn = "uint64" THEN "sign" ELSE "end"
  BY DEF Digit
<1>2. Job /\ i \in Lead .. Lead + Count - 1 /\ StoredTo(i) /\ n = Whole \div Power(Base, k)
  BY <1>1 DEF NumberInv
<1>3. /\ Base \in Nat /\ Base >= 2 /\ Base \in Nat \ {0} /\ Lead \in {0, 2}
      /\ (Lead = 2 <=> job.fn = "hex")
      /\ Whole \in Nat /\ Count \in Nat /\ Count >= 1
      /\ Size = Lead + Count + (IF Negative THEN 1 ELSE 0) /\ (Negative => Lead = 0)
  BY <1>2, JobIs
<1>4. i \in Nat /\ k \in 0 .. Count - 1 /\ k \in Nat /\ (i + 1) - Lead = k + 1
  BY <1>2, <1>3
<1>5. n' = Whole \div Power(Base, k + 1) /\ n' \in Nat
  BY <1>1, <1>2, <1>3, <1>4, HigherDigits
<1>6. DigitChar(n % Base, TRUE) = Cell(i)
  <2>1. ~(i < Lead) /\ i < Lead + Count
    BY <1>2, <1>3
  <2> QED
    BY <1>2, <2>1 DEF Cell
<1>7. DOMAIN str' = 0 .. i /\ \A l \in 0 .. i : str'[l] = Cell(l)
  <2>1. DOMAIN str' = 0 .. i /\ str'[i] = Cell(i) /\ \A l \in 0 .. i - 1 : str'[l] = Cell(l)
    BY <1>1, <1>2, <1>4, <1>6, CellStored
  <2>2. \A l \in 0 .. i : l = i \/ l \in 0 .. i - 1
    BY <1>4
  <2> QED
    BY <2>1, <2>2
<1>8. StoredTo(i)'
  <2>1. (i + 1) - 1 = i
    BY <1>4
  <2> QED
    BY <1>1, <1>7, <2>1, JobStays DEF StoredTo
<1>9. Job'
  BY <1>1, <1>2, JobStays
<1>10. /\ \A l \in 1 .. Count - 1 : Whole \div Power(Base, l) > 0
       /\ Whole \div Power(Base, Count) = 0
  BY <1>3, DigitsEnd DEF Count
<1> HIDE DEF k
<1>11. CASE n' > 0
  <2>1. k + 1 # Count
    <3>1. k + 1 = Count => ~(n' > 0)
      BY <1>5, <1>10
    <3> QED
      BY <1>11, <3>1
  <2>2. i' \in Lead .. Lead + Count - 1 /\ i' - Lead = k + 1
    BY <1>1, <1>3, <1>4, <2>1 DEF k
  <2>3. (/\ i \in Lead .. Lead + Count - 1 /\ StoredTo(i)
         /\ n = Whole \div Power(Base, i - Lead))'
    BY <1>1, <1>5, <1>8, <2>2, JobStays
  <2>4. step' = "digits"
    BY <1>1, <1>11
  <2> QED
    BY <1>9, <2>3, <2>4 DEF NumberInv
<1>12. CASE ~(n' > 0)
  <2>1. k + 1 = Count
    <3>1. k + 1 \in 1 .. Count - 1 => n' > 0
      BY <1>5, <1>10
    <3> QED
      BY <1>3, <1>4, <1>12, <3>1
  <2>2. i' = Lead + Count
    BY <1>1, <1>3, <1>4, <2>1 DEF k
  <2>3. CASE job.fn = "uint64"
    <3>1. step' = "sign" /\ (job.fn)' = "uint64"
      BY <1>1, <1>12, <2>3
    <3>2. (job.fn = "uint64" /\ i = Lead + Count /\ StoredTo(i))'
      BY <1>1, <1>8, <2>2, <3>1, JobStays
    <3> QED
      BY <1>9, <3>1, <3>2 DEF NumberInv
  <2>4. CASE job.fn # "uint64"
    <3>1. step' = "end"
      BY <1>1, <1>12, <2>4
    <3>2. ~Negative /\ Size = Lead + Count
      BY <1>3, <2>4 DEF Negative
    <3>3. (i = Size /\ StoredTo(i))'
      BY <1>1, <1>8, <2>2, <3>2, JobStays
    <3> QED
      BY <1>9, <3>1, <3>3 DEF NumberInv
  <2> QED
    BY <2>3, <2>4
<1> QED
  BY <1>11, <1>12

\* The sign of a number that was negated.
LEMMA SignStep == NumberInv /\ Sign => NumberInv'
<1> SUFFICES ASSUME NumberInv, Sign PROVE NumberInv'
  OBVIOUS
<1>1. step = "sign" /\ job' = job /\ step' = "end"
  BY DEF Sign
<1>2. Job /\ job.fn = "uint64" /\ i = Lead + Count /\ StoredTo(i)
  BY <1>1 DEF NumberInv
<1>3. Lead = 0 /\ Count \in Nat /\ Size = Lead + Count + (IF Negative THEN 1 ELSE 0)
  BY <1>2, JobIs DEF Lead
<1>4. Job'
  BY <1>1, <1>2, JobStays
<1>5. CASE SignOfLowHalf < 0
  <2>1. str' = Store(i, "-") /\ i' = i + 1 /\ Negative
    BY <1>2, <1>5 DEF Sign, Negative
  <2>2. i \in Nat /\ Size = i + 1
    BY <1>2, <1>3, <2>1
  <2>3. Cell(i) = "-"
    <3>1. ~(i < Lead) /\ ~(i < Lead + Count)
      BY <1>2, <1>3
    <3> QED
      BY <3>1 DEF Cell
  <2>4. DOMAIN str' = 0 .. i /\ \A l \in 0 .. i : str'[l] = Cell(l)
    <3>1. DOMAIN str' = 0 .. i /\ str'[i] = Cell(i) /\ \A l \in 0 .. i - 1 : str'[l] = Cell(l)
      BY <1>2, <2>1, <2>2, <2>3, CellStored
    <3>2. \A l \in 0 .. i : l = i \/ l \in 0 .. i - 1
      BY <2>2
    <3> QED
      BY <3>1, <3>2
  <2>5. (i = Size /\ StoredTo(i))'
    <3>1. (i + 1) - 1 = i
      BY <2>2
    <3> QED
      BY <1>1, <2>1, <2>2, <2>4, <3>1, JobStays DEF StoredTo
  <2> QED
    BY <1>1, <1>4, <2>5 DEF NumberInv
<1>6. CASE ~(SignOfLowHalf < 0)
  <2>1. str' = str /\ i' = i /\ ~Negative
    BY <1>6 DEF Sign, Negative
  <2>2. i = Size
    BY <1>2, <1>3, <2>1
  <2>3. (i = Size /\ StoredTo(i))'
    BY <1>1, <1>2, <2>1, <2>2, JobStays DEF StoredTo
  <2> QED
    BY <1>1, <1>4, <2>3 DEF NumberInv
<1> QED
  BY <1>5, <1>6

\* The terminator; all behind "0x" is to be reversed.
LEMMA EndStep == NumberInv /\ End => NumberInv'
<1> SUFFICES ASSUME NumberInv, End PROVE NumberInv'
  OBVIOUS
<1>1. step = "end" /\ job' = job /\ step' = "reverse" /\ i' = i
      /\ str' = Store(i, NUL) /\ start' = (IF job.fn = "hex" THEN 2 ELSE 0) /\ end' = i - 1
  BY DEF End
<1>2. Job /\ i = Size /\ StoredTo(i)
  BY <1>1 DEF NumberInv
<1>3. /\ Lead \in {0, 2} /\ Count \in Nat /\ Count >= 1 /\ Size \in Nat
      /\ Size = Lead + Count + (IF Negative THEN 1 ELSE 0)
  BY <1>2, JobIs
<1>4. start' = Lead /\ Lead \in Nat
  BY <1>1, <1>3 DEF Lead
<1>5. Lead <= Size - 1 /\ Size - 1 = Lead + Size - 1 - Lead
  BY <1>3
<1>6. DOMAIN str' = 0 .. Size /\ str'[Size] = NUL /\ \A k \in 0 .. Size - 1 : str'[k] = Cell(k)
  BY <1>1, <1>2, <1>3, CellStored
<1>7. ASSUME NEW k \in 0 .. Size - 1
      PROVE  str'[k] = IF k \in Lead .. Size - 1 THEN Cell(k) ELSE Final(k)
  <2>1. k \notin Lead .. Size - 1 => k < Lead
    BY <1>3
  <2> QED
    BY <1>6, <2>1 DEF Final
<1>8. Reversing'
  BY <1>1, <1>2, <1>4, <1>5, <1>6, <1>7, JobStays DEF Reversing
<1> QED
  BY <1>1, <1>2, <1>8, JobStays DEF NumberInv

\* Two cells change places.
LEMMA SwapStep == NumberInv /\ Swap => NumberInv'
<1> SUFFICES ASSUME NumberInv, Swap PROVE NumberInv'
  OBVIOUS
<1>1. step = "reverse" /\ job' = job /\ step' = step /\ i' = i /\ start < end
      /\ start' = start + 1 /\ end' = end - 1
      /\ str' = [str EXCEPT ![start] = str[end], ![end] = str[start]]
  BY DEF Swap
<1>2. Job /\ Reversing
  BY <1>1 DEF NumberInv
<1>3. Lead \in {0, 2} /\ Size \in Nat
  BY <1>2, JobIs
<1>4. /\ i = Size /\ DOMAIN str = 0 .. Size /\ str[Size] = NUL
      /\ start \in Nat /\ Lead <= start /\ end = Lead + Size - 1 - start
      /\ \A k \in 0 .. Size - 1 : str[k] = IF k \in start .. end THEN Cell(k) ELSE Final(k)
  BY <1>2 DEF Reversing
<1>5. /\ end \in Int /\ start \in 0 .. Size - 1 /\ end \in 0 .. Size - 1 /\ start # end
      /\ start \in start .. end /\ end \in start .. end
      /\ start = Lead + Size - 1 - end /\ ~(start < Lead) /\ ~(end < Lead)
  BY <1>1, <1>3, <1>4, SMTT(30)
<1>6. str[start] = Cell(start) /\ str[end] = Cell(end)
  BY <1>4, <1>5
<1>7. Final(start) = Cell(end) /\ Final(end) = Cell(start)
  BY <1>4, <1>5 DEF Final
<1>7a. \A k \in 0 .. Size : str'[k] = IF k = end THEN str[start]
                                     ELSE IF k = start THEN str[end] ELSE str[k]
  BY <1>1, <1>4
<1>8. DOMAIN str' = 0 .. Size /\ str'[Size] = NUL
  <2>1. Size # start /\ Size # end /\ Size \in 0 .. Size
    BY <1>3, <1>5
  <2> QED
    BY <1>1, <1>4, <2>1
<1>9. ASSUME NEW k \in 0 .. Size - 1
      PROVE  str'[k] = IF k \in start + 1 .. end - 1 THEN Cell(k) ELSE Final(k)
  <2>1. k \in 0 .. Size
    BY <1>3
  <2>2. CASE k = start
    <3>1. str'[k] = str[end] /\ k \notin start + 1 .. end - 1
      BY <1>5, <1>7a, <2>1, <2>2
    <3> QED
      BY <1>6, <1>7, <2>2, <3>1
  <2>3. CASE k = end
    <3>1. str'[k] = str[start] /\ k \notin start + 1 .. end - 1
      BY <1>5, <1>7a, <2>1, <2>3
    <3> QED
      BY <1>6, <1>7, <2>3, <3>1
  <2>4. CASE k # start /\ k # end
    <3>1. str'[k] = str[k] /\ (k \in start + 1 .. end - 1 <=> k \in start .. end)
      BY <1>5, <1>7a, <2>1, <2>4
    <3> QED
      BY <1>4, <3>1
  <2> QED
    BY <2>2, <2>3, <2>4
<1>10. /\ start + 1 \in Nat /\ Lead <= start + 1 /\ start + 1 <= (end - 1) + 1
       /\ end - 1 = Lead + Size - 1 - (start + 1)
  <2>1. /\ start < end /\ start \in Nat /\ end \in Int /\ Lead \in Nat /\ Lead <= start
        /\ Size \in Nat /\ end = Lead + Size - 1 - start
    BY <1>1, <1>3, <1>4, <1>5
  <2> QED
    BY <2>1
<1>11. Reversing'
  <2>1. start' = start + 1 /\ end' = end - 1 /\ i' = Size
    BY <1>1, <1>4
  <2>2. Size' = Size /\ Lead' = Lead /\ \A k : Cell(k)' = Cell(k) /\ Final(k)' = Final(k)
    BY <1>1, JobStays
  <2>3. (\A k \in 0 .. Size - 1 : str[k] = IF k \in start .. end THEN Cell(k) ELSE Final(k))'
    BY <1>9, <2>1, <2>2
  <2>4. (/\ start \in Nat /\ Lead <= start /\ start <= end + 1
         /\ end = Lead + Size - 1 - start)'
    BY <1>10, <2>1, <2>2
  <2> QED
    BY <1>8, <2>1, <2>2, <2>3, <2>4 DEF Reversing
<1> QED
  BY <1>1, <1>2, <1>11, JobStays DEF NumberInv

\* When the pointers have met, every cell is where it belongs, and what is printed
\* ends at the terminator.
LEMMA KprintStep == NumberInv /\ Kprint => NumberInv'
<1> SUFFICES ASSUME NumberInv, Kprint PROVE NumberInv'
  OBVIOUS
<1> DEFINE length == CHOOSE k \in DOMAIN str : str[k] = NUL
<1>1. step = "reverse" /\ job' = job /\ step' = "done" /\ str' = str /\ start >= end
      /\ shown' = [k \in 1 .. length |-> str[k - 1]]
  BY DEF Kprint
<1>2. Job /\ Reversing
  BY <1>1 DEF NumberInv
<1>3. Lead \in {0, 2} /\ Size \in Nat
  BY <1>2, JobIs
<1>4. /\ DOMAIN str = 0 .. Size /\ str[Size] = NUL
      /\ start \in Nat /\ Lead <= start /\ end = Lead + Size - 1 - start
      /\ \A k \in 0 .. Size - 1 : str[k] = IF k \in start .. end THEN Cell(k) ELSE Final(k)
  BY <1>2 DEF Reversing
<1>5. ASSUME NEW k \in 0 .. Size - 1 PROVE str[k] = Final(k)
  <2>1. CASE k \in start .. end
    <3>1. ~(k < Lead) /\ Lead + Size - 1 - k = k
      BY <1>1, <1>3, <1>4, <2>1
    <3>2. Final(k) = Cell(k)
      BY <3>1 DEF Final
    <3> QED
      BY <1>4, <2>1, <3>2
  <2>2. CASE k \notin start .. end
    BY <1>4, <2>2
  <2> QED
    BY <2>1, <2>2
<1>6. length = Size
  <2>1. Size \in DOMAIN str /\ str[Size] = NUL
    BY <1>3, <1>4
  <2>2. ASSUME NEW k \in DOMAIN str, str[k] = NUL PROVE k = Size
    <3>1. k = Size \/ k \in 0 .. Size - 1
      BY <1>3, <1>4
    <3>2. k \in 0 .. Size - 1 => str[k] # NUL
      BY <1>2, <1>5, CellIsShown
    <3> QED
      BY <2>2, <3>1, <3>2
  <2> QED
    BY <2>1, <2>2
<1> HIDE DEF length
<1>7. shown' = [k \in 1 .. Size |-> Final(k - 1)]
  <2>1. \A k \in 1 .. Size : k - 1 \in 0 .. Size - 1
    BY <1>3
  <2> QED
    BY <1>1, <1>5, <1>6, <2>1
<1>8. (DOMAIN str = 0 .. Size /\ shown = [k \in 1 .. Size |-> Final(k - 1)])'
  BY <1>1, <1>4, <1>7, JobStays
<1> QED
  BY <1>1, <1>2, <1>8, JobStays DEF NumberInv

LEMMA ConsoleSteps == NumberInv /\ [NumberNext]_numberVars => NumberInv'
<1> SUFFICES ASSUME NumberInv, [NumberNext]_numberVars PROVE NumberInv'
  OBVIOUS
<1>1. CASE UNCHANGED numberVars
  <2>1. /\ job' = job /\ step' = step /\ n' = n /\ str' = str /\ i' = i
        /\ start' = start /\ end' = end /\ shown' = shown
    BY <1>1 DEF numberVars
  <2>2. Reversing => Reversing'
    BY <2>1, JobStays DEF Reversing
  <2>3. StoredTo(i) => StoredTo(i)'
    BY <2>1, JobStays DEF StoredTo
  <2> QED
    BY <2>1, <2>2, <2>3, JobStays DEF NumberInv
<1> QED
  BY <1>1, BeginSteps, DigitStep, SignStep, EndStep, SwapStep, KprintStep DEF NumberNext

-----------------------------------------------------------------------------
(* What is shown.                                                          *)

\* In front of the digits: "0x", or the sign of a number that was negated.
Ahead == IF job.fn = "hex" THEN <<"0", "x">> ELSE IF Negative THEN <<"-">> ELSE <<>>

DigitsShown == step = "done" => shown = Ahead \o DigitsOf(Whole, Base, TRUE)

LEMMA ShownIs == NumberInv /\ step = "done" => shown = Ahead \o DigitsOf(Whole, Base, TRUE)
<1> SUFFICES ASSUME NumberInv, step = "done"
             PROVE  shown = Ahead \o DigitsOf(Whole, Base, TRUE)
  OBVIOUS
<1>1. Job /\ shown = [k \in 1 .. Size |-> Final(k - 1)]
  BY DEF NumberInv
<1>2. /\ Base \in 2 .. 16 /\ Lead \in {0, 2} /\ (Lead = 2 <=> job.fn = "hex")
      /\ Whole \in Nat /\ Count \in Nat /\ Count >= 1 /\ Size \in Nat
      /\ Size = Lead + Count + (IF Negative THEN 1 ELSE 0) /\ (Negative => Lead = 0)
  BY <1>1, JobIs
<1> DEFINE m == Lead + (IF Negative THEN 1 ELSE 0)
           digits == DigitsOf(Whole, Base, TRUE)
<1>3. m \in Nat /\ Size = m + Count
  BY <1>2
<1>4. /\ digits \in Text /\ Len(digits) = Count
      /\ \A k \in 1 .. Count :
           digits[k] = DigitChar((Whole \div Power(Base, Count - k)) % Base, TRUE)
  BY <1>2, DigitsAreText DEF Count
<1>5. Ahead \in Text /\ Len(Ahead) = m
  <2>1. <<"0", "x">> \in Text /\ <<"-">> \in Text /\ <<>> \in Text
    BY Characters, ShortTexts, Zenon
  <2> QED
    BY <1>2, <2>1 DEF Ahead
<1>6. ASSUME NEW k \in 1 .. m PROVE Final(k - 1) = Ahead[k]
  <2>1. CASE Lead = 2
    <3>1. m = 2 /\ Ahead = <<"0", "x">> /\ (k = 1 \/ k = 2) /\ k - 1 < Lead
      BY <1>2, <2>1 DEF Ahead
    <3>2. Final(k - 1) = IF k - 1 = 0 THEN "0" ELSE "x"
      BY <3>1 DEF Final, Cell
    <3> QED
      BY <3>1, <3>2
  <2>2. CASE Lead = 0
    <3>1. Negative /\ m = 1 /\ k = 1 /\ job.fn # "hex" /\ Size = Count + 1
      BY <1>2, <2>2
    <3>2. Ahead = <<"-">>
      BY <3>1 DEF Ahead
    <3>3. ~(k - 1 < Lead) /\ Lead + Size - 1 - (k - 1) = Count /\ ~(Count < Lead) /\ ~(Count < Lead + Count)
      BY <1>2, <2>2, <3>1
    <3>4. Final(k - 1) = "-"
      BY <3>3 DEF Final, Cell
    <3> QED
      BY <3>1, <3>2, <3>4
  <2> QED
    BY <1>2, <2>1, <2>2
<1>7. ASSUME NEW k \in m + 1 .. Size PROVE Final(k - 1) = digits[k - m]
  <2> DEFINE j == Lead + Size - 1 - (k - 1)
  <2>1. ~(k - 1 < Lead) /\ ~(j < Lead) /\ j < Lead + Count /\ j - Lead = Count - (k - m)
        /\ k - m \in 1 .. Count
    BY <1>2, <1>3
  <2>2. Final(k - 1) = Cell(j)
    BY <2>1 DEF Final
  <2> HIDE DEF j, m
  <2>3. Cell(j) = DigitChar((Whole \div Power(Base, Count - (k - m))) % Base, TRUE)
    BY <2>1 DEF Cell
  <2> QED
    BY <1>4, <2>1, <2>2, <2>3
<1> HIDE DEF m, digits
<1>8. shown = Ahead \o digits
  <2> DEFINE joined == Ahead \o digits
  <2>1. /\ joined = [k \in 1 .. Size |-> joined[k]]
        /\ \A k \in 1 .. m : joined[k] = Ahead[k]
        /\ \A k \in m + 1 .. Size : joined[k] = digits[k - m]
    BY <1>3, <1>4, <1>5, Concatenated
  <2> HIDE DEF joined
  <2>2. \A k \in 1 .. Size : k \in 1 .. m \/ k \in m + 1 .. Size
    BY <1>2, <1>3
  <2>3. \A k \in 1 .. Size : joined[k] = Final(k - 1)
    BY <1>6, <1>7, <2>1, <2>2
  <2>4. shown = joined
    BY <1>1, <2>1, <2>3
  <2> QED
    BY <2>4 DEF joined
<1> QED
  BY <1>8 DEF digits

\* What printf should make of %lu and of %lX: the digits.
LEMMA LongText ==
    ASSUME NEW c \in {"u", "X"}, NEW v \in 0 .. LONG - 1
    PROVE  TextOf(Directive({}, NONE, NONE, <<"l">>, c, v)) = DigitsOf(v, BaseOf(c), c = "X")
<1> DEFINE d == Directive({}, NONE, NONE, <<"l">>, c, v)
           digits == DigitsOf(v, BaseOf(c), c = "X")
<1>1. /\ d.flags = {} /\ d.width = NONE /\ d.precision = NONE /\ d.length = <<"l">>
      /\ d.conv = c /\ d.value = v /\ d.star = FALSE /\ NONE = -1
  BY DEF Directive, NONE
<1>2. v \in Nat /\ v \in Int /\ LONG \in Nat \ {0} /\ v % LONG = v
  BY WordTypes
<1>3. BaseOf(c) \in 2 .. 16 /\ (c = "u" => BaseOf(c) = 10) /\ (c = "X" => BaseOf(c) = 16)
  BY DEF BaseOf
<1>4. digits \in Text /\ Len(digits) = DigitCount(v, BaseOf(c)) /\ DigitCount(v, BaseOf(c)) \in Nat
      /\ DigitCount(v, BaseOf(c)) >= 1
  BY <1>2, <1>3, DigitsAreText
<1> HIDE DEF d
<1>5. ~IsSigned(d) /\ SizeOf(d) = LONG
  BY <1>1 DEF IsSigned, SizeOf
<1>6. Magnitude(d) = v
  BY <1>1, <1>2, <1>5 DEF Magnitude, NumberOf, Unsigned
<1>7. MinimalDigits(d) = digits
  <2> DEFINE ds == IF v = 0 THEN <<>> ELSE digits
  <2>1. MinimalDigits(d) = Repeated("0", 1 - Len(ds)) \o ds
    BY <1>1, <1>6 DEF MinimalDigits
  <2>2. CASE v # 0
    <3>1. ds = digits /\ 1 - Len(digits) \in Int /\ 1 - Len(digits) <= 0
      BY <1>4, <2>2
    <3>2. Repeated("0", 1 - Len(digits)) = <<>>
      BY <3>1, NoneRepeated
    <3>3. <<>> \o digits = digits
      BY <1>4 DEF Text
    <3> QED
      BY <2>1, <3>1, <3>2, <3>3
  <2>3. CASE v = 0
    <3>1. ds = <<>> /\ Len(ds) = 0
      BY <2>3
    <3>2. MinimalDigits(d) = Repeated("0", 1) \o <<>>
      <4>1. 1 - Len(ds) = 1
        BY <3>1
      <4> HIDE DEF ds
      <4> QED
        BY <2>1, <3>1, <4>1
    <3>3. Repeated("0", 1) = <<"0">>
      BY DEF Repeated
    <3>4. <<"0">> \o <<>> = <<"0">>
      OBVIOUS
    <3>5. digits = <<"0">>
      BY <1>3, <2>3, DigitsOfZero
    <3> QED
      BY <3>2, <3>3, <3>4, <3>5
  <2> QED
    BY <2>2, <2>3
<1>8. SignOf(d) = <<>> /\ PrefixOf(d) = <<>> /\ ~LeftJustified(d) /\ ~ZeroPadded(d) /\ FieldWidth(d) = 0
  BY <1>1, <1>5 DEF SignOf, PrefixOf, LeftJustified, ZeroPadded, FieldWidth
<1>9. BareNumber(d) = digits
  BY <1>4, <1>7, <1>8 DEF BareNumber, Text
<1>10. Spaces(FieldWidth(d) - Len(BareNumber(d))) = <<>>
  <2>1. FieldWidth(d) - Len(BareNumber(d)) \in Int /\ FieldWidth(d) - Len(BareNumber(d)) <= 0
    BY <1>4, <1>8, <1>9
  <2> QED
    BY <2>1, NoneRepeated DEF Spaces
<1>11. IntegerText(d) = digits
  BY <1>4, <1>8, <1>9, <1>10 DEF IntegerText, Text
<1>12. TextOf(d) = IntegerText(d)
  BY <1>1 DEF TextOf
<1> QED
  BY <1>11, <1>12 DEF d

LEMMA ShownAsPrintfWould == NumberInv => NumberShownAsPrintfWould
<1> SUFFICES ASSUME NumberInv, step = "done", job.fn = "uint64" => SignOfLowHalf >= 0
             PROVE  shown = IF job.fn = "uint64"
                            THEN TextOf(Directive({}, NONE, NONE, <<"l">>, "u", job.number))
                            ELSE <<"0", "x">> \o TextOf(Directive({}, NONE, NONE, <<"l">>, "X", job.number))
  BY DEF NumberShownAsPrintfWould
<1> DEFINE v == job.number
<1>1. Job
  BY DEF NumberInv
<1>2. v \in 0 .. LONG - 1 /\ v \in Nat /\ job.fn \in {"uint64", "hex"} /\ LONG \in Nat \ {0}
  BY <1>1, JobIs, WordTypes DEF Job
<1>3. ~Negative /\ Whole = v
  <2>1. SignOfLowHalf \in Int
    <3>1. v \in Int /\ INT \in Nat \ {0}
      BY <1>2, WordTypes
    <3> QED
      BY <3>1, Wraps DEF SignOfLowHalf
  <2>2. ~Negative
    BY <2>1 DEF Negative
  <2> QED
    BY <2>2 DEF Whole
<1>4. shown = Ahead \o DigitsOf(v, Base, TRUE)
  BY <1>3, ShownIs
<1> HIDE DEF v
<1>5. CASE job.fn = "hex"
  <2>1. Base = 16 /\ Ahead = <<"0", "x">> /\ BaseOf("X") = 16
    BY <1>5 DEF Base, Ahead, BaseOf
  <2>2. TextOf(Directive({}, NONE, NONE, <<"l">>, "X", v)) = DigitsOf(v, BaseOf("X"), TRUE)
    BY <1>2, LongText
  <2> QED
    BY <1>4, <1>5, <2>1, <2>2 DEF v
<1>6. CASE job.fn = "uint64"
  <2>1. Base = 10 /\ Ahead = <<>> /\ BaseOf("u") = 10 /\ 10 \in 2 .. 16
    BY <1>3, <1>6 DEF Base, Ahead, BaseOf
  <2>2. TextOf(Directive({}, NONE, NONE, <<"l">>, "u", v)) = DigitsOf(v, BaseOf("u"), FALSE)
    BY <1>2, LongText
  <2>3. DigitsOf(v, 10, TRUE) = DigitsOf(v, 10, FALSE)
    <3> DEFINE At(k) == (v \div Power(10, DigitCount(v, 10) - k)) % 10
    <3>1. ASSUME NEW k \in 1 .. DigitCount(v, 10)
          PROVE  DigitChar(At(k), TRUE) = DigitChar(At(k), FALSE)
      <4>1. At(k) \in 0 .. 9
        <5>1. \A l \in 1 .. DigitCount(v, 10) : At(l) \in 0 .. 10 - 1
          BY <1>2, <2>1, DigitsAreText
        <5> HIDE DEF At
        <5> QED
          BY <5>1
      <4> HIDE DEF At
      <4>2. At(k) \in 0 .. 15 /\ At(k) < 10
        BY <4>1
      <4> QED
        BY <4>2, DigitIsShown
    <3> QED
      BY <3>1 DEF DigitsOf
  <2>4. DigitsOf(v, 10, TRUE) \in Text
    BY <1>2, <2>1, DigitsAreText
  <2>5. <<>> \o DigitsOf(v, 10, TRUE) = DigitsOf(v, 10, TRUE)
    BY <2>4 DEF Text
  <2> QED
    BY <1>4, <1>6, <2>1, <2>2, <2>3, <2>5 DEF v
<1> QED
  BY <1>2, <1>5, <1>6

\* Through the calls of the console's number functions every cell holds what
\* NumberInv says (console.cpp 60-70, 187-225).
THEOREM NumberInvariance == TextSpec => []NumberInv
<1>1. TextInit => NumberInv
  BY InitNumber DEF TextInit
<1>2. NumberInv /\ [TextNext]_<<vars, numberVars>> => NumberInv'
  <2> SUFFICES ASSUME NumberInv, [TextNext]_<<vars, numberVars>> PROVE NumberInv'
    OBVIOUS
  <2>1. [NumberNext]_numberVars
    BY DEF TextNext
  <2> QED
    BY <2>1, ConsoleSteps
<1> QED
  BY <1>1, <1>2, PTL DEF TextSpec

\* The console prints a number as printf prints it with %lu, and in hexadecimal as
\* printf does behind "0x" with %lX, for every number whose low half is no negative
\* int and words of every width: the loops that divide and reverse find the digits
\* at their places (console.cpp 60-70, 187-225).
THEOREM NumbersAsInPrintf == TextSpec => []NumberShownAsPrintfWould
  BY NumberInvariance, ShownAsPrintfWould, PTL

\* What the console prints of any number: its digits, or a sign and the digits of
\* its negation if its low half is negative as an int (console.cpp 196-208).
THEOREM AllNumbersShown == TextSpec => []DigitsShown
<1>1. NumberInv => DigitsShown
  BY ShownIs DEF DigitsShown
<1> QED
  BY <1>1, NumberInvariance, PTL

\* The sizes console.cpp gives the buffers: 21 and 19 for numbers of 64 bits.
BuffersHoldLongs ==
    /\ DECIMAL_BUFF \in Nat /\ DECIMAL_BUFF >= 2 /\ LONG <= Power(10, DECIMAL_BUFF - 1)
    /\ HEX_BUFF \in Nat /\ HEX_BUFF >= 4 /\ LONG <= Power(16, HEX_BUFF - 3)

FitsUnlessNegative == (job.fn = "uint64" => SignOfLowHalf >= 0) => NumberFitsBuffer

LEMMA FitsStep == NumberInv /\ BuffersHoldLongs => (step # "idle" => FitsUnlessNegative)
<1> SUFFICES ASSUME NumberInv, BuffersHoldLongs, step # "idle",
                    job.fn = "uint64" => SignOfLowHalf >= 0
             PROVE  NumberFitsBuffer
  BY DEF FitsUnlessNegative
<1>1. Job
  BY DEF NumberInv
<1>2. ~Negative
  <2>1. SignOfLowHalf \in Int
    <3>1. job.number \in Int /\ INT \in Nat \ {0}
      BY <1>1, JobIs, WordTypes
    <3> QED
      BY <3>1, Wraps DEF SignOfLowHalf
  <2> QED
    BY <2>1 DEF Negative
<1>3. /\ Base \in Nat /\ Base >= 2 /\ Lead \in {0, 2} /\ (Lead = 2 <=> job.fn = "hex")
      /\ Whole \in Nat /\ Whole < LONG /\ LONG \in Nat /\ Count \in Nat /\ Count >= 1
      /\ Size \in Nat /\ Size = Lead + Count
  <2>1. Whole \in 0 .. LONG - 1 /\ LONG \in Nat \ {0}
    BY <1>1, JobIs, WordTypes
  <2> QED
    BY <1>1, <1>2, <2>1, JobIs
<1> DEFINE room == IF job.fn = "hex" THEN HEX_BUFF ELSE DECIMAL_BUFF
           most == IF job.fn = "hex" THEN HEX_BUFF - 3 ELSE DECIMAL_BUFF - 1
<1>4. most \in Nat /\ most >= 1 /\ room \in Nat /\ most + Lead = room - 1
  BY <1>3 DEF BuffersHoldLongs
<1>5. LONG <= Power(Base, most)
  BY DEF BuffersHoldLongs, Base
<1>6. Power(Base, most) \in Nat
  <2>1. Base \in Nat \ {0}
    BY <1>3
  <2> QED
    BY <1>4, <2>1, PowerIs
<1> HIDE DEF most
<1>7. Count <= most
  <2>1. Whole < Power(Base, most)
    BY <1>3, <1>5, <1>6
  <2> QED
    BY <1>3, <1>4, <2>1, FewDigits DEF Count
<1> HIDE DEF room
<1>8. Size <= room - 1
  BY <1>3, <1>4, <1>7
<1>9. DOMAIN str \subseteq 0 .. Size
  <2>1. CASE step = "call"
    <3>1. str = <<>>
      BY <2>1 DEF NumberInv
    <3>2. DOMAIN str = {}
      BY <3>1
    <3> QED
      BY <3>2
  <2>2. CASE step = "digits"
    <3>1. i \in Lead .. Lead + Count - 1 /\ DOMAIN str = 0 .. i - 1
      BY <2>2 DEF NumberInv, StoredTo
    <3> QED
      BY <1>3, <3>1
  <2>3. CASE step \in {"sign", "end"}
    <3>1. (i = Lead + Count \/ i = Size) /\ DOMAIN str = 0 .. i - 1
      BY <2>3 DEF NumberInv, StoredTo
    <3> QED
      BY <1>3, <3>1
  <2>4. CASE step \in {"reverse", "done"}
    BY <2>4 DEF NumberInv, Reversing
  <2> QED
    BY <2>1, <2>2, <2>3, <2>4 DEF NumberInv
<1>10. DOMAIN str \subseteq 0 .. room - 1
  BY <1>3, <1>4, <1>8, <1>9
<1> QED
  BY <1>10 DEF NumberFitsBuffer, room

\* Nothing is stored behind the console's buffers but by a decimal number whose low
\* half is negative as an int, if the buffers are as large for a long as the code's
\* 21 and 19 are for 64 bits (console.cpp 61-69).
THEOREM BuffersSuffice ==
    ASSUME BuffersHoldLongs
    PROVE  TextSpec => [](step # "idle" => FitsUnlessNegative)
<1>1. NumberInv => (step # "idle" => FitsUnlessNegative)
  BY FitsStep
<1> QED
  BY <1>1, NumberInvariance, PTL

-----------------------------------------------------------------------------
(* printf: how far a call has come.  The call c has put out its first m    *)
(* directives and is within the next one, which is written in pieces.      *)

Converting(d) ==
    /\ IsNumber(d)
    /\ flags = NumberFlags(d) /\ width = NumberWidth(d) /\ precision = PrecisionIs(d)
    /\ num.negative = IsNegative(d) /\ num.base = Radix(d)

\* The lowest digits of the number are in the buffer, and there are more.
Dividing(d) ==
    LET v == ValueOf(d)
        r == Radix(d)
        j == Len(num.buf)
    IN  /\ num.buf \in Text /\ j < DigitCount(v, r) /\ j < NTOA_BUFFER_SIZE
        /\ d.precision = NONE \/ v # 0
        /\ num.value = v \div Power(r, j)
        /\ \A k \in 1 .. j : num.buf[k] = DigitChar((v \div Power(r, k - 1)) % r, IsUpper(d))

\* How much of the format and the arguments the first m directives take.
Written(c, m) == Len(Upto(Formats(c), m))
Taken(c, m)   == Len(Upto(Arguments(c), m))

\* Where the parser is.
Reading(c, m) ==
    LET d == c.means[m + 1]
        s == Written(c, m)
        a == Taken(c, m)
    IN  /\ pc = "call" => m = 0 /\ sent = <<>>
        /\ pc \in {"call", "scan", "done"} => at = s + 1 /\ arg = a
        /\ pc = "done" => m = Len(c.means)
        /\ pc \notin {"call", "scan", "done"} => m < Len(c.means) /\ Percented(d)
        /\ pc = "flags" =>
             /\ \E k \in 0 .. Len(FlagText(d.flags)) :
                  /\ at = s + 2 + k
                  /\ flags = {FlagOf(FlagText(d.flags)[j]) : j \in 1 .. k}
             /\ arg = a /\ width = 0 /\ precision = 0
        /\ pc = "width" =>
             /\ at = s + 1 + AfterFlags(d) /\ arg = a
             /\ flags = FlagsRead(d) /\ width = 0 /\ precision = 0
        /\ pc = "precision" =>
             /\ at = s + 1 + AfterWidth(d) /\ arg = a + WidthArgs(d)
             /\ flags = WidthRead(d) /\ width = FieldWidth(d) /\ precision = 0
        /\ pc = "length" =>
             /\ at = s + 1 + AfterPrecision(d) /\ arg = a + PrecisionArgs(d)
             /\ flags = PrecisionRead(d) /\ width = FieldWidth(d) /\ precision = PrecisionIs(d)
        /\ pc = "specifier" =>
             /\ at = s + 1 + AfterLength(d) /\ arg = a + PrecisionArgs(d)
             /\ flags = LengthRead(d) /\ width = FieldWidth(d) /\ precision = PrecisionIs(d)
        /\ pc \in {"digits", "format"} =>
             /\ at = Written(c, m + 1) + 1 /\ arg = Taken(c, m + 1)
             /\ Converting(d)
        /\ pc = "digits" => Dividing(d)
        /\ pc = "format" /\ ~KnownDeviation(d) => Reads(num.buf, ValueDigits(d))

\* The text t has been put out, and no more.
HasPutOut(t) ==
    /\ idx = Len(t)
    /\ device \in {"char", "fct"} => sent = WithoutNul(t)
    /\ device = "buffer" => /\ DOMAIN buffer = {k \in 0 .. Len(t) - 1 : k < maxlen}
                            /\ \A k \in DOMAIN buffer : buffer[k] = t[k + 1]

\* It has, and the terminator.
HasEnded(t) ==
    /\ idx = Len(t)
    /\ device \in {"char", "fct"} => sent = WithoutNul(t)
    /\ device = "buffer" =>
         \A k \in DOMAIN buffer : buffer[k] = IF k < Len(t) /\ k < maxlen - 1 THEN t[k + 1] ELSE NUL

Deviates(c) == \E k \in DOMAIN c.means : KnownDeviation(c.means[k])

Going(c, m) ==
    /\ Reading(c, m)
    /\ ~Deviates(c) => IF pc = "done" THEN HasEnded(Upto(Texts(c), m))
                                     ELSE HasPutOut(Upto(Texts(c), m))

GoingOn == \E m \in 0 .. Len(call.means) : Going(call, m)

-----------------------------------------------------------------------------
(* How a directive is written.                                             *)

LengthChars == {"h", "l", "t", "j", "z"}
SpecifierChars == {"%", "d", "i", "u", "x", "X", "o", "b", "p", "c", "s"}

\* The characters that tell the parser where it is are not one another.
LEMMA Apart ==
    /\ \A c \in LengthChars \union SpecifierChars \union {"*", "."} :
          c # NUL /\ ~_is_digit(c) /\ c \notin FlagChars
    /\ \A c \in LengthChars \union SpecifierChars : c \notin {"*", "."}
    /\ \A c \in SpecifierChars : c \notin LengthChars
    /\ \A c \in FlagChars : c # NUL
    /\ LengthChars \union SpecifierChars \union FlagChars \union {"*", "."} \subseteq Chars
<1>1. \A c \in LengthChars \union SpecifierChars \union {"*", "."} : c # NUL /\ c \notin FlagChars
  BY DEF LengthChars, SpecifierChars, FlagChars, NUL
<1>2. ASSUME NEW c \in LengthChars \union SpecifierChars \union {"*", "."} PROVE ~_is_digit(c)
  <2>1. c \notin {"0", "1", "2", "3", "4", "5", "6", "7", "8", "9"}
    BY <1>2 DEF LengthChars, SpecifierChars
  <2>2. ASSUME NEW k \in 1 .. 10
        PROVE  Numerals[k] \in {"0", "1", "2", "3", "4", "5", "6", "7", "8", "9"}
    <3>1. k = 1 \/ k = 2 \/ k = 3 \/ k = 4 \/ k = 5 \/ k = 6 \/ k = 7 \/ k = 8 \/ k = 9 \/ k = 10
      OBVIOUS
    <3> QED
      BY <3>1 DEF Numerals
  <2> QED
    BY <2>1, <2>2 DEF _is_digit
<1>3. \A c \in LengthChars \union SpecifierChars : c \notin {"*", "."}
  BY DEF LengthChars, SpecifierChars
<1>4. \A c \in SpecifierChars : c \notin LengthChars
  BY DEF LengthChars, SpecifierChars
<1>5. \A c \in FlagChars : c # NUL
  BY DEF FlagChars, NUL
<1>6. LengthChars \union SpecifierChars \union FlagChars \union {"*", "."} \subseteq Chars
  BY Characters DEF LengthChars, SpecifierChars, FlagChars
<1> QED
  BY <1>1, <1>2, <1>3, <1>4, <1>5, <1>6

LEMMA SpecifierIs ==
    ASSUME NEW d, WellFormed(d), Percented(d)
    PROVE  Specifier(d) \in SpecifierChars
<1>1. CASE d.conv = "plain"
  <2>1. d.value = "%"
    BY <1>1 DEF Percented
  <2> QED
    BY <1>1, <2>1 DEF Specifier, SpecifierChars
<1>2. CASE d.conv # "plain"
  <2>1. d.conv \in SignedChars \union UnsignedChars \union {"p", "c", "s"}
    BY <1>2 DEF WellFormed
  <2> QED
    BY <1>2, <2>1 DEF Specifier, SpecifierChars, SignedChars, UnsignedChars
<1> QED
  BY <1>1, <1>2

\* The flags of a directive are written one after the other.
LEMMA FlagTextIs ==
    ASSUME NEW fl \in SUBSET FlagChars
    PROVE  FlagText(fl) \in Text /\ Len(FlagText(fl)) \in Nat /\ ElementsOf(FlagText(fl)) = fl
<1> DEFINE C == <<"-", "0", "+", " ", "#">>
           bit(k) == LET c == C[k] IN IF c \in fl THEN <<c>> ELSE <<>>
           pieces == [k \in 1 .. 5 |-> bit(k)]
<1>1. C[1] = "-" /\ C[2] = "0" /\ C[3] = "+" /\ C[4] = " " /\ C[5] = "#"
  OBVIOUS
<1>2. \A k \in 1 .. 5 : C[k] \in Chars
  <2> SUFFICES ASSUME NEW k \in 1 .. 5 PROVE C[k] \in Chars
    OBVIOUS
  <2>1. k = 1 \/ k = 2 \/ k = 3 \/ k = 4 \/ k = 5
    OBVIOUS
  <2> HIDE DEF C
  <2> QED
    BY <1>1, <2>1, Characters
<1> HIDE DEF C
<1>3. \A k \in 1 .. 5 : /\ bit(k) \in Seq(Chars)
                        /\ ElementsOf(bit(k)) = IF C[k] \in fl THEN {C[k]} ELSE {}
  <2> SUFFICES ASSUME NEW k \in 1 .. 5
               PROVE  bit(k) \in Seq(Chars) /\ ElementsOf(bit(k)) = IF C[k] \in fl THEN {C[k]} ELSE {}
    OBVIOUS
  <2>1. CASE C[k] \in fl
    <3>1. bit(k) = <<C[k]>> /\ <<C[k]>> \in Seq(Chars) /\ Len(<<C[k]>>) = 1 /\ <<C[k]>>[1] = C[k]
      BY <1>2, <2>1
    <3>2. ElementsOf(bit(k)) = {C[k]}
      BY <3>1 DEF ElementsOf
    <3> QED
      BY <2>1, <3>1, <3>2
  <2>2. CASE C[k] \notin fl
    <3>1. bit(k) = <<>> /\ <<>> \in Seq(Chars) /\ Len(<<>>) = 0
      BY <2>2
    <3>2. ElementsOf(bit(k)) = {}
      BY <3>1 DEF ElementsOf
    <3> QED
      BY <2>2, <3>1, <3>2
  <2> QED
    BY <2>1, <2>2
<1> HIDE DEF bit
<1>4. pieces \in Seq(Seq(Chars)) /\ Len(pieces) = 5
  BY <1>3
<1>5. FlagText(fl) = FlattenSeq(pieces)
  BY DEF FlagText, bit, C
<1>6. FlattenSeq(pieces) \in Text
  BY <1>4, Flattened DEF Text
<1>7. ElementsOf(FlattenSeq(pieces)) = UNION {ElementsOf(pieces[k]) : k \in 1 .. 5}
  <2> HIDE DEF pieces
  <2> QED
    BY <1>4, FlattenedElements
<1>8. UNION {ElementsOf(pieces[k]) : k \in 1 .. 5} = fl
  <2>1. \A k \in 1 .. 5 : ElementsOf(pieces[k]) = IF C[k] \in fl THEN {C[k]} ELSE {}
    BY <1>3
  <2> HIDE DEF pieces
  <2>2. ASSUME NEW x, x \in UNION {ElementsOf(pieces[k]) : k \in 1 .. 5} PROVE x \in fl
    BY <2>1, <2>2
  <2>3. ASSUME NEW x \in fl PROVE x \in UNION {ElementsOf(pieces[k]) : k \in 1 .. 5}
    <3>1. x = "-" \/ x = "0" \/ x = "+" \/ x = " " \/ x = "#"
      BY DEF FlagChars
    <3>2. \E k \in 1 .. 5 : C[k] = x
      <4>1. 1 \in 1 .. 5 /\ 2 \in 1 .. 5 /\ 3 \in 1 .. 5 /\ 4 \in 1 .. 5 /\ 5 \in 1 .. 5
        OBVIOUS
      <4> QED
        BY <1>1, <3>1, <4>1
    <3> QED
      BY <2>1, <3>2
  <2> QED
    BY <2>2, <2>3
<1>9. FlagText(fl) \in Text /\ ElementsOf(FlagText(fl)) = fl
  BY <1>5, <1>6, <1>7, <1>8
<1>10. Len(FlagText(fl)) \in Nat
  BY <1>9 DEF Text
<1> QED
  BY <1>9, <1>10

-----------------------------------------------------------------------------
(* Numbers in the format: written in decimal and read by _atoi.            *)

LEMMA NumeralsListed ==
    /\ Numerals[1] = "0" /\ Numerals[2] = "1" /\ Numerals[3] = "2" /\ Numerals[4] = "3"
    /\ Numerals[5] = "4" /\ Numerals[6] = "5" /\ Numerals[7] = "6" /\ Numerals[8] = "7"
    /\ Numerals[9] = "8" /\ Numerals[10] = "9"
  BY DEF Numerals

LEMMA NumeralsAre ==
    ASSUME NEW k \in 0 .. 9
    PROVE  _is_digit(Numerals[k + 1]) /\ DigitValue(Numerals[k + 1]) = k
<1> DEFINE c == Numerals[k + 1]
<1>1. _is_digit(c)
  <2>1. k + 1 \in 1 .. 10
    OBVIOUS
  <2> QED
    BY <2>1 DEF _is_digit
<1>2. ASSUME NEW j \in 0 .. 9, NEW from \in 0 .. 9, Numerals[j + 1] = Numerals[from + 1] PROVE from = j
  <2>2. \A x \in 0 .. 9 : x = 0 \/ x = 1 \/ x = 2 \/ x = 3 \/ x = 4 \/ x = 5 \/ x = 6 \/ x = 7 \/ x = 8 \/ x = 9
    OBVIOUS
  <2>3. \A x \in 0 .. 9 : Numerals[x + 1] = CASE x = 0 -> "0" [] x = 1 -> "1" [] x = 2 -> "2" [] x = 3 -> "3"
                                [] x = 4 -> "4" [] x = 5 -> "5" [] x = 6 -> "6" [] x = 7 -> "7"
                                [] x = 8 -> "8" [] x = 9 -> "9"
    <3> SUFFICES ASSUME NEW x \in 0 .. 9
                 PROVE Numerals[x + 1] = CASE x = 0 -> "0" [] x = 1 -> "1" [] x = 2 -> "2" [] x = 3 -> "3"
                                [] x = 4 -> "4" [] x = 5 -> "5" [] x = 6 -> "6" [] x = 7 -> "7"
                                [] x = 8 -> "8" [] x = 9 -> "9"
      OBVIOUS
    <3>1. CASE x \in 0 .. 4
      <4>1. x = 0 \/ x = 1 \/ x = 2 \/ x = 3 \/ x = 4
        BY <3>1
      <4> QED
        BY NumeralsListed, <4>1
    <3>2. CASE x \in 5 .. 9
      <4>1. x = 5 \/ x = 6 \/ x = 7 \/ x = 8 \/ x = 9
        BY <3>2
      <4> QED
        BY NumeralsListed, <4>1
    <3> QED
      BY <3>1, <3>2
  <2>4. j = 0 \/ j = 1 \/ j = 2 \/ j = 3 \/ j = 4 \/ j = 5 \/ j = 6 \/ j = 7 \/ j = 8 \/ j = 9
    BY <2>2
  <2>5. from = 0 \/ from = 1 \/ from = 2 \/ from = 3 \/ from = 4 \/ from = 5 \/ from = 6 \/ from = 7 \/ from = 8 \/ from = 9
    BY <2>2
  <2> QED
    BY <1>2, <2>3, <2>4, <2>5
<1>3. DigitValue(c) \in 0 .. 9 /\ Numerals[DigitValue(c) + 1] = c
  BY DEF DigitValue
<1>4. DigitValue(c) = k
  BY <1>2, <1>3
<1> QED
  BY <1>1, <1>4

\* The decimal digits of a number.
LEMMA DecimalIs ==
    ASSUME NEW amount \in Nat, amount > 0
    PROVE  /\ Decimal(amount) \in Text /\ Len(Decimal(amount)) = DigitCount(amount, 10)
           /\ DigitCount(amount, 10) \in Nat /\ DigitCount(amount, 10) >= 1
           /\ \A k \in 1 .. Len(Decimal(amount)) :
                 /\ _is_digit(Decimal(amount)[k])
                 /\ DigitValue(Decimal(amount)[k]) = (amount \div Power(10, DigitCount(amount, 10) - k)) % 10
           /\ Decimal(amount)[1] # "0"
<1> DEFINE c == DigitCount(amount, 10)
           x(k) == (amount \div Power(10, c - k)) % 10
<1>1. 10 \in 2 .. 16 /\ FALSE \in BOOLEAN
  OBVIOUS
<1>2. /\ Decimal(amount) \in Text /\ Len(Decimal(amount)) = c /\ c \in Nat /\ c >= 1
      /\ \A k \in 1 .. c : x(k) \in 0 .. 9 /\ Decimal(amount)[k] = DigitChar(x(k), FALSE)
  <2>1. \A k \in 1 .. c : x(k) \in 0 .. 10 - 1 /\ DigitsOf(amount, 10, FALSE)[k] = DigitChar(x(k), FALSE)
    BY <1>1, DigitsAreText
  <2>2. DigitsOf(amount, 10, FALSE) \in Text /\ Len(DigitsOf(amount, 10, FALSE)) = c /\ c \in Nat /\ c >= 1
    BY <1>1, DigitsAreText
  <2>3. 10 - 1 = 9
    OBVIOUS
  <2> HIDE DEF c, x
  <2> QED
    BY <2>1, <2>2, <2>3 DEF Decimal
<1> HIDE DEF c, x
<1>3. ASSUME NEW k \in 1 .. c PROVE _is_digit(Decimal(amount)[k]) /\ DigitValue(Decimal(amount)[k]) = x(k)
  <2>1. x(k) \in 0 .. 9 /\ Decimal(amount)[k] = DigitChar(x(k), FALSE)
    BY <1>2
  <2>2. DigitChar(x(k), FALSE) = Numerals[x(k) + 1]
    BY <2>1 DEF DigitChar
  <2> QED
    BY <2>1, <2>2, NumeralsAre
<1>4. DigitsOf(amount, 10, FALSE)[1] # "0"
  <2>1. amount # 0
    OBVIOUS
  <2> QED
    BY <1>1, <2>1, FirstDigit
<1> QED
  BY <1>2, <1>3, <1>4 DEF Decimal, c, x

\* _atoi reads the number that has been written (printf.c 188-195).
LEMMA NumberRead ==
    ASSUME call \in Calls, NEW from \in 1 .. Len(call.format) + 1,
           NEW amount \in Nat, amount > 0, amount < INT, NEW l, l = Len(Decimal(amount)),
           from + l <= Len(call.format) + 1,
           \A k \in 1 .. l : FormatChar(from + k - 1) = Decimal(amount)[k],
           ~_is_digit(FormatChar(from + l))
    PROVE  NumberEnd(from) = from + l /\ _atoi(from) = amount /\ _is_digit(FormatChar(from)) /\ FormatChar(from) # "0"
<1> DEFINE e == NumberEnd(from)
           q(k) == amount \div Power(10, l - k)
<1>1. /\ l \in Nat /\ l >= 1 /\ l = DigitCount(amount, 10)
      /\ \A k \in 1 .. l : /\ _is_digit(Decimal(amount)[k])
                           /\ DigitValue(Decimal(amount)[k]) = (amount \div Power(10, l - k)) % 10
      /\ Decimal(amount)[1] # "0"
  <2>1. /\ Len(Decimal(amount)) = DigitCount(amount, 10) /\ DigitCount(amount, 10) \in Nat /\ DigitCount(amount, 10) >= 1
        /\ \A k \in 1 .. Len(Decimal(amount)) :
                 /\ _is_digit(Decimal(amount)[k])
                 /\ DigitValue(Decimal(amount)[k]) = (amount \div Power(10, DigitCount(amount, 10) - k)) % 10
        /\ Decimal(amount)[1] # "0"
    BY DecimalIs
  <2> QED
    BY <2>1
<1>2. Len(call.format) \in Nat /\ from \in Nat /\ INT \in Nat \ {0}
  BY FormatIs, WordTypes
<1>3. e \in from .. Len(call.format) + 1 /\ ~_is_digit(FormatChar(e)) /\ \A k \in from .. e - 1 : _is_digit(FormatChar(k))
  BY NumberEndIs
<1> HIDE DEF e
<1>4. \A k \in from .. from + l - 1 : _is_digit(FormatChar(k))
  <2> SUFFICES ASSUME NEW k \in from .. from + l - 1 PROVE _is_digit(FormatChar(k))
    OBVIOUS
  <2> DEFINE j == k - from + 1
  <2>1. j \in 1 .. l /\ from + j - 1 = k
    BY <1>1, <1>2
  <2> HIDE DEF j
  <2>2. FormatChar(from + j - 1) = Decimal(amount)[j]
    BY <2>1
  <2> QED
    BY <1>1, <2>1, <2>2
<1>5. e = from + l
  <2>1. l \in Nat /\ from \in Nat /\ e \in Nat /\ from <= e
    <3>1. e \in from .. Len(call.format) + 1 /\ l \in Nat
      BY <1>1, <1>3
    <3> QED
      BY <1>2, <3>1
  <2>2. ~(e < from + l)
    <3>1. ASSUME e < from + l PROVE FALSE
      <4>1. e \in from .. from + l - 1
        BY <2>1, <3>1
      <4> QED
        BY <1>3, <1>4, <4>1
    <3> QED
      BY <3>1
  <2>3. ~(e > from + l)
    <3>1. ASSUME e > from + l PROVE FALSE
      <4>1. from + l \in from .. e - 1
        BY <2>1, <3>1
      <4> QED
        BY <1>3, <4>1
    <3> QED
      BY <3>1
  <2> QED
    BY <2>1, <2>2, <2>3
<1>6. PICK value : /\ value[0] = 0
                   /\ \A k \in 1 .. e - from :
                        value[k] = Unsigned(10 * value[k - 1] + DigitValue(FormatChar(from + k - 1)), INT)
                   /\ _atoi(from) = value[e - from]
  BY NumberSteps DEF e
<1>7. e - from = l
  BY <1>1, <1>2, <1>5
<1>8. /\ q(0) = 0 /\ q(l) = amount
      /\ \A k \in 1 .. l : q(k) \in 0 .. amount /\ q(k - 1) \in Nat /\ q(k - 1) = q(k) \div 10
  <2>1. 10 \in Nat \ {0} /\ 10 >= 2 /\ 10 \in Nat
    OBVIOUS
  <2>2. /\ amount \div Power(10, 0) = amount
        /\ \A k \in Nat : /\ amount \div Power(10, k) \in Nat
                          /\ amount \div Power(10, k + 1) = (amount \div Power(10, k)) \div 10
    BY <2>1, HigherDigits
  <2>3. amount \div Power(10, l) = 0
    BY <1>1, <2>1, DigitsEnd
  <2>4. l - 0 = l /\ l - l = 0
    BY <1>1
  <2>5. ASSUME NEW k \in 1 .. l
        PROVE  q(k) \in 0 .. amount /\ q(k - 1) \in Nat /\ q(k - 1) = q(k) \div 10
    <3>1. l - k \in Nat /\ l - (k - 1) = (l - k) + 1 /\ (l - k) + 1 \in Nat
      <4>1. l \in Nat
        BY <1>1
      <4> QED
        BY <4>1
    <3>2. Power(10, l - k) \in Nat \ {0}
      BY <2>1, <3>1, PowerIs
    <3>3. q(k) \in 0 .. amount
      <4> DEFINE r == Power(10, l - k)
      <4>1. r \in Nat \ {0}
        BY <3>2
      <4> HIDE DEF r
      <4>2. amount \div r \in 0 .. amount
        BY <4>1, QuotientAtMost
      <4> QED
        BY <4>2 DEF r
    <3>4. q(k - 1) = amount \div Power(10, (l - k) + 1)
      BY <3>1
    <3>5. /\ amount \div Power(10, (l - k) + 1) \in Nat
          /\ amount \div Power(10, (l - k) + 1) = (amount \div Power(10, l - k)) \div 10
      BY <2>2, <3>1
    <3> HIDE DEF q
    <3> QED
      BY <3>3, <3>4, <3>5 DEF q
  <2> QED
    BY <2>2, <2>3, <2>4, <2>5
<1>9. \A k \in 1 .. l : DigitValue(FormatChar(from + k - 1)) = q(k) % 10
  BY <1>1
<1> HIDE DEF q
<1> DEFINE S == {k \in Nat : k <= l => value[k] = q(k)}
<1>10. 0 \in S
  BY <1>6, <1>8
<1>11. ASSUME NEW k \in Nat, k \in S PROVE k + 1 \in S
  <2> SUFFICES ASSUME k + 1 <= l PROVE value[k + 1] = q(k + 1)
    OBVIOUS
  <2>1. k + 1 \in 1 .. l /\ (k + 1) - 1 = k /\ k <= l
    BY <1>1
  <2>2. value[k] = q(k)
    BY <1>11, <2>1
  <2> DEFINE a == q(k + 1)
  <2>3. a \in 0 .. amount /\ q(k) \in Nat /\ q(k) = a \div 10 /\ DigitValue(FormatChar(from + (k + 1) - 1)) = a % 10
    <3>1. /\ q(k + 1) \in 0 .. amount /\ q((k + 1) - 1) \in Nat /\ q((k + 1) - 1) = q(k + 1) \div 10
          /\ DigitValue(FormatChar(from + (k + 1) - 1)) = q(k + 1) % 10
      BY <1>8, <1>9, <2>1
    <3> QED
      BY <2>1, <3>1
  <2>4. value[k + 1] = Unsigned(10 * value[(k + 1) - 1] + DigitValue(FormatChar(from + (k + 1) - 1)), INT)
    BY <1>6, <1>7, <2>1
  <2>5. value[k + 1] = Unsigned(10 * (a \div 10) + (a % 10), INT)
    BY <2>1, <2>2, <2>3, <2>4
  <2>6. 10 * (a \div 10) + (a % 10) = a
    <3> HIDE DEF a
    <3> QED
      BY <2>3
  <2>7. a % INT = a
    <3>1. a \in 0 .. INT - 1
      BY <1>2, <2>3
    <3> HIDE DEF a
    <3> QED
      BY <3>1, WordTypes, InWord
  <2> QED
    BY <2>5, <2>6, <2>7 DEF Unsigned
<1>12. Nat \subseteq S
  <2> HIDE DEF S
  <2> QED
    BY <1>10, <1>11, Induction
<1>13. value[l] = amount
  BY <1>1, <1>8, <1>12
<1>14. FormatChar(from) = Decimal(amount)[1]
  <2>1. 1 \in 1 .. l /\ from + 1 - 1 = from
    BY <1>1, <1>2
  <2>2. FormatChar(from + 1 - 1) = Decimal(amount)[1]
    BY <2>1
  <2> QED
    BY <2>1, <2>2
<1>15. _is_digit(Decimal(amount)[1])
  BY <1>1
<1> QED
  BY <1>1, <1>5, <1>6, <1>7, <1>13, <1>14, <1>15 DEF e

LEMMA Placed ==
    ASSUME NEW s \in Text, NEW t \in Text
    PROVE  /\ \A k \in 1 .. Len(s) : (s \o t)[k] = s[k]
           /\ \A j \in 1 .. Len(t) : (s \o t)[Len(s) + j] = t[j]
<1>1. Len(s) \in Nat /\ Len(t) \in Nat
  BY DEF Text
<1>2. \A k \in 1 .. Len(s) : (s \o t)[k] = s[k]
  BY Concatenated
<1>3. ASSUME NEW j \in 1 .. Len(t) PROVE (s \o t)[Len(s) + j] = t[j]
  <2>1. Len(s) + j \in Len(s) + 1 .. Len(s) + Len(t) /\ (Len(s) + j) - Len(s) = j
    BY <1>1
  <2>2. (s \o t)[Len(s) + j] = t[(Len(s) + j) - Len(s)]
    BY <2>1, Concatenated
  <2> QED
    BY <2>1, <2>2
<1> QED
  BY <1>2, <1>3

\* The characters of six texts put one behind the other.
Together(a, f, w, p, l, e) == a \o f \o w \o p \o l \o e

SixParts(t, a, f, w, p, l, e) ==
    /\ t \in Text /\ Len(a) \in Nat /\ Len(f) \in Nat /\ Len(w) \in Nat
    /\ Len(p) \in Nat /\ Len(l) \in Nat /\ Len(e) \in Nat
    /\ Len(t) = Len(a) + Len(f) + Len(w) + Len(p) + Len(l) + Len(e)
    /\ \A j \in 1 .. Len(a) : t[j] = a[j]
    /\ \A j \in 1 .. Len(f) : t[Len(a) + j] = f[j]
    /\ \A j \in 1 .. Len(w) : t[Len(a) + Len(f) + j] = w[j]
    /\ \A j \in 1 .. Len(p) : t[Len(a) + Len(f) + Len(w) + j] = p[j]
    /\ \A j \in 1 .. Len(l) : t[Len(a) + Len(f) + Len(w) + Len(p) + j] = l[j]
    /\ \A j \in 1 .. Len(e) : t[Len(a) + Len(f) + Len(w) + Len(p) + Len(l) + j] = e[j]

LEMMA SixTexts ==
    ASSUME NEW a \in Text, NEW f \in Text, NEW w \in Text, NEW p \in Text, NEW l \in Text, NEW e \in Text
    PROVE  SixParts(Together(a, f, w, p, l, e), a, f, w, p, l, e)
<1> DEFINE t == Together(a, f, w, p, l, e)
           u1 == a \o f
           u2 == u1 \o w
           u3 == u2 \o p
           u4 == u3 \o l
<1>1. /\ Len(a) \in Nat /\ Len(f) \in Nat /\ Len(w) \in Nat /\ Len(p) \in Nat /\ Len(l) \in Nat /\ Len(e) \in Nat
  BY DEF Text
<1>2. u1 \in Text /\ Len(u1) = Len(a) + Len(f)
  BY Joined
<1>3. (\A k \in 1 .. Len(a) : u1[k] = a[k]) /\ \A j \in 1 .. Len(f) : u1[Len(a) + j] = f[j]
  BY <1>1, Placed
<1> HIDE DEF u1
<1>4. u2 \in Text /\ Len(u2) = Len(u1) + Len(w)
  BY <1>2, Joined
<1>5. (\A k \in 1 .. Len(u1) : u2[k] = u1[k]) /\ \A j \in 1 .. Len(w) : u2[Len(u1) + j] = w[j]
  BY <1>2, Placed
<1> HIDE DEF u2
<1>6. u3 \in Text /\ Len(u3) = Len(u2) + Len(p)
  BY <1>4, Joined
<1>7. (\A k \in 1 .. Len(u2) : u3[k] = u2[k]) /\ \A j \in 1 .. Len(p) : u3[Len(u2) + j] = p[j]
  BY <1>4, Placed
<1> HIDE DEF u3
<1>8. u4 \in Text /\ Len(u4) = Len(u3) + Len(l)
  BY <1>6, Joined
<1>9. (\A k \in 1 .. Len(u3) : u4[k] = u3[k]) /\ \A j \in 1 .. Len(l) : u4[Len(u3) + j] = l[j]
  BY <1>6, Placed
<1> HIDE DEF u4
<1>10. t = u4 \o e
  BY DEF u4, u3, u2, u1, t, Together
<1> HIDE DEF t
<1>11. t \in Text /\ Len(t) = Len(u4) + Len(e)
  BY <1>8, <1>10, Joined
<1>12. (\A k \in 1 .. Len(u4) : t[k] = u4[k]) /\ \A j \in 1 .. Len(e) : t[Len(u4) + j] = e[j]
  BY <1>8, <1>10, Placed
<1>13. \A j \in 1 .. Len(a) : t[j] = a[j]
  <2> SUFFICES ASSUME NEW j \in 1 .. Len(a) PROVE t[j] = a[j]
    OBVIOUS
  <2>1. j \in 1 .. Len(u1) /\ j \in 1 .. Len(u2) /\ j \in 1 .. Len(u3) /\ j \in 1 .. Len(u4)
    BY <1>1, <1>2, <1>4, <1>6, <1>8
  <2> QED
    BY <1>3, <1>5, <1>7, <1>9, <1>12, <2>1
<1>14. \A j \in 1 .. Len(f) : t[Len(a) + j] = f[j]
  <2> SUFFICES ASSUME NEW j \in 1 .. Len(f) PROVE t[Len(a) + j] = f[j]
    OBVIOUS
  <2> DEFINE k == Len(a) + j
  <2>1. k \in 1 .. Len(u1) /\ k \in 1 .. Len(u2) /\ k \in 1 .. Len(u3) /\ k \in 1 .. Len(u4)
    BY <1>1, <1>2, <1>4, <1>6, <1>8
  <2> QED
    BY <1>3, <1>5, <1>7, <1>9, <1>12, <2>1
<1>15. \A j \in 1 .. Len(w) : t[Len(u1) + j] = w[j]
  <2> SUFFICES ASSUME NEW j \in 1 .. Len(w) PROVE t[Len(u1) + j] = w[j]
    OBVIOUS
  <2> DEFINE k == Len(u1) + j
  <2>1. k \in 1 .. Len(u2) /\ k \in 1 .. Len(u3) /\ k \in 1 .. Len(u4)
    BY <1>1, <1>2, <1>4, <1>6, <1>8
  <2>2. u2[k] = w[j]
    BY <1>5
  <2> HIDE DEF k
  <2>3. t[k] = u2[k]
    BY <1>7, <1>9, <1>12, <2>1
  <2> QED
    BY <2>2, <2>3 DEF k
<1>16. \A j \in 1 .. Len(p) : t[Len(u2) + j] = p[j]
  <2> SUFFICES ASSUME NEW j \in 1 .. Len(p) PROVE t[Len(u2) + j] = p[j]
    OBVIOUS
  <2> DEFINE k == Len(u2) + j
  <2>1. k \in 1 .. Len(u3) /\ k \in 1 .. Len(u4)
    BY <1>1, <1>2, <1>4, <1>6, <1>8
  <2> QED
    BY <1>7, <1>9, <1>12, <2>1
<1>17. \A j \in 1 .. Len(l) : t[Len(u3) + j] = l[j]
  <2> SUFFICES ASSUME NEW j \in 1 .. Len(l) PROVE t[Len(u3) + j] = l[j]
    OBVIOUS
  <2>1. Len(u3) + j \in 1 .. Len(u4)
    BY <1>1, <1>2, <1>4, <1>6, <1>8
  <2> QED
    BY <1>9, <1>12, <2>1
<1>18. \A j \in 1 .. Len(e) : t[Len(u4) + j] = e[j]
  BY <1>12
<1>19. /\ Len(u1) = Len(a) + Len(f) /\ Len(u2) = Len(a) + Len(f) + Len(w)
       /\ Len(u3) = Len(a) + Len(f) + Len(w) + Len(p)
       /\ Len(u4) = Len(a) + Len(f) + Len(w) + Len(p) + Len(l)
       /\ Len(t) = Len(a) + Len(f) + Len(w) + Len(p) + Len(l) + Len(e)
  BY <1>1, <1>2, <1>4, <1>6, <1>8, <1>11
<1> QED
  BY <1>1, <1>11, <1>13, <1>14, <1>15, <1>16, <1>17, <1>18, <1>19 DEF SixParts, t

LEMMA BareParts ==
    ASSUME NEW d, Bare(d)
    PROVE  FlagText(d.flags) = <<>> /\ WidthText(d) = <<>> /\ PrecisionText(d) = <<>>
<1>1. d.flags = {} /\ d.width = NONE /\ d.precision = NONE /\ ~d.star
  BY DEF Bare
<1>2. WidthText(d) = <<>> /\ PrecisionText(d) = <<>>
  BY <1>1 DEF WidthText, PrecisionText, NONE
<1>3. FlagText({}) = <<>>
  <2> DEFINE t == FlagText({})
  <2>1. t \in Text /\ Len(t) \in Nat /\ ElementsOf(t) = {}
    <3>1. {} \in SUBSET FlagChars
      OBVIOUS
    <3> QED
      BY <3>1, FlagTextIs
  <2> HIDE DEF t
  <2>2. Len(t) = 0
    <3>1. Len(t) >= 1 => t[1] \in ElementsOf(t)
      BY <2>1 DEF ElementsOf
    <3> QED
      BY <2>1, <3>1
  <2>3. t = <<>>
    BY <2>1, <2>2 DEF Text
  <2> QED
    BY <2>3 DEF t
<1> QED
  BY <1>1, <1>2, <1>3

\* The parts of a directive are texts.
LEMMA PartsAreText ==
    ASSUME NEW d, WellFormed(d)
    PROVE  /\ FlagText(d.flags) \in Text /\ WidthText(d) \in Text /\ PrecisionText(d) \in Text
           /\ d.length \in Text
           /\ ~d.star /\ d.width # NONE => /\ d.width \in Nat /\ d.width > 0 /\ d.width < INT
                                          /\ WidthText(d) = Decimal(d.width)
           /\ ~d.star /\ d.precision \notin {NONE, 0} =>
                 /\ d.precision \in Nat /\ d.precision > 0 /\ d.precision < INT
                 /\ PrecisionText(d) = <<".">> \o Decimal(d.precision)
<1>1. NONE = -1 /\ INT \in Nat \ {0}
  BY WordTypes DEF NONE
<1>2. d.width \in Ints /\ d.precision \in Ints /\ d.flags \subseteq FlagChars /\ d.length \in Lengths
  BY DEF WellFormed
<1>3. d.width \in Int /\ d.precision \in Int /\ 2 * d.width < INT /\ 2 * d.precision < INT
  BY <1>2 DEF Ints
<1>4. ~d.star /\ d.width # NONE => /\ d.width \in Nat /\ d.width > 0 /\ d.width < INT
                                  /\ WidthText(d) = Decimal(d.width)
  <2> SUFFICES ASSUME ~d.star, d.width # NONE
               PROVE  d.width \in Nat /\ d.width > 0 /\ d.width < INT /\ WidthText(d) = Decimal(d.width)
    OBVIOUS
  <2>1. d.width > 0
    BY DEF WellFormed
  <2>2. WidthText(d) = Decimal(d.width)
    BY DEF WidthText
  <2> QED
    BY <1>1, <1>3, <2>1, <2>2
<1>5. ~d.star /\ d.precision \notin {NONE, 0} =>
         /\ d.precision \in Nat /\ d.precision > 0 /\ d.precision < INT
         /\ PrecisionText(d) = <<".">> \o Decimal(d.precision)
  <2> SUFFICES ASSUME ~d.star, d.precision \notin {NONE, 0}
               PROVE  /\ d.precision \in Nat /\ d.precision > 0 /\ d.precision < INT
                      /\ PrecisionText(d) = <<".">> \o Decimal(d.precision)
    OBVIOUS
  <2>1. d.precision >= NONE
    BY DEF WellFormed
  <2>2. PrecisionText(d) = <<".">> \o Decimal(d.precision)
    BY DEF PrecisionText
  <2> QED
    BY <1>1, <1>3, <2>1, <2>2
<1>6. FlagText(d.flags) \in Text
  BY <1>2, FlagTextIs
<1>7. <<>> \in Text /\ <<"*">> \in Text /\ <<".">> \in Text /\ <<".", "*">> \in Text
  <2>1. "*" \in Chars /\ "." \in Chars
    BY Characters
  <2> QED
    BY <2>1, ShortTexts
<1>8. WidthText(d) \in Text
  <2>1. CASE ~d.star /\ d.width # NONE
    BY <1>4, <2>1, DecimalIs
  <2>2. CASE d.star
    BY <1>7, <2>2 DEF WidthText
  <2>3. CASE ~d.star /\ d.width = NONE
    BY <1>7, <2>3 DEF WidthText
  <2> QED
    BY <2>1, <2>2, <2>3
<1>9. PrecisionText(d) \in Text
  <2>1. CASE ~d.star /\ d.precision \notin {NONE, 0}
    <3>1. Decimal(d.precision) \in Text
      BY <1>5, <2>1, DecimalIs
    <3> QED
      BY <1>5, <1>7, <2>1, <3>1, Joined
  <2>2. CASE d.star /\ d.precision # NONE
    BY <1>7, <2>2 DEF PrecisionText
  <2>3. CASE d.precision = NONE
    BY <1>7, <2>3 DEF PrecisionText
  <2>4. CASE ~d.star /\ d.precision = 0
    BY <1>1, <1>7, <2>4 DEF PrecisionText
  <2> QED
    BY <2>1, <2>2, <2>3, <2>4
<1>10. d.length \in Text
  <2>1. {"h", "l", "t", "j", "z"} \subseteq Chars
    BY Characters
  <2> QED
    <3>1. \A c \in LengthChars : c \in Chars
      BY <2>1 DEF LengthChars
    <3>2. /\ d.length \in {<<>>, <<"h">>, <<"l">>, <<"t">>, <<"j">>, <<"z">>}
          \/ d.length \in {<<"h", "h">>, <<"l", "l">>}
      BY <1>2 DEF Lengths
    <3>3. <<>> \in Text /\ \A c \in Chars : <<c>> \in Text /\ <<c, c>> \in Text
      BY Characters, ShortTexts
    <3>4. /\ <<"h">> \in Text /\ <<"l">> \in Text /\ <<"t">> \in Text /\ <<"j">> \in Text /\ <<"z">> \in Text
          /\ <<"h", "h">> \in Text /\ <<"l", "l">> \in Text
      BY <2>1, <3>3
    <3> QED
      BY <3>2, <3>3, <3>4
<1> QED
  BY <1>4, <1>5, <1>6, <1>8, <1>9, <1>10

\* The characters of a directive and where its parts are.
LEMMA FormatParts ==
    ASSUME NEW d, WellFormed(d), Percented(d), NEW t, t = FormatOf(d)
    PROVE  /\ t \in Text /\ Len(t) = AfterLength(d) + 1 /\ t[1] = "%"
           /\ AfterFlags(d) \in Nat /\ AfterWidth(d) \in Nat /\ AfterPrecision(d) \in Nat
           /\ AfterLength(d) \in Nat /\ AfterFlags(d) >= 1 /\ AfterFlags(d) <= AfterWidth(d)
           /\ AfterWidth(d) <= AfterPrecision(d) /\ AfterPrecision(d) <= AfterLength(d)
           /\ \A j \in 1 .. Len(FlagText(d.flags)) : t[1 + j] = FlagText(d.flags)[j]
           /\ \A j \in 1 .. Len(WidthText(d)) : t[AfterFlags(d) + j] = WidthText(d)[j]
           /\ \A j \in 1 .. Len(PrecisionText(d)) : t[AfterWidth(d) + j] = PrecisionText(d)[j]
           /\ \A j \in 1 .. Len(d.length) : t[AfterPrecision(d) + j] = d.length[j]
           /\ t[AfterLength(d) + 1] = Specifier(d)
<1> DEFINE a == <<"%">>
           f == FlagText(d.flags)
           w == WidthText(d)
           p == PrecisionText(d)
           l == d.length
           e == <<Specifier(d)>>
<1>1. f \in Text /\ w \in Text /\ p \in Text /\ l \in Text
  BY PartsAreText
<1>2. /\ a \in Text /\ Len(a) = 1 /\ a[1] = "%"
      /\ e \in Text /\ Len(e) = 1 /\ e[1] = Specifier(d)
  <2>1. "%" \in Chars /\ Specifier(d) \in Chars
    BY SpecifierIs, Apart, Characters
  <2> QED
    BY <2>1, ShortTexts
<1>3. t = a \o f \o w \o p \o l \o e
  <2>1. CASE d.conv # "plain"
    <3>1. e = <<d.conv>>
      BY <2>1 DEF Specifier
    <3> QED
      BY <2>1, <3>1 DEF FormatOf
  <2>2. CASE d.conv = "plain"
    <3>1. d.value = "%" /\ Bare(d) /\ l = <<>>
      BY <2>2 DEF Percented, WellFormed, SignedChars, UnsignedChars
    <3>2. f = <<>> /\ w = <<>> /\ p = <<>>
      BY <3>1, BareParts
    <3>3. t = <<"%", "%">> /\ e = <<"%">>
      BY <2>2, <3>1 DEF FormatOf, Specifier
    <3>4. a \o <<>> = a
      BY <1>2, NothingJoined
    <3>5. a \o e = <<"%", "%">>
      BY <3>3, Characters, TwoCharacters
    <3> QED
      BY <3>1, <3>2, <3>3, <3>4, <3>5
  <2> QED
    BY <2>1, <2>2
<1> HIDE DEF a, f, w, p, l, e
<1>4. /\ t \in Text /\ Len(f) \in Nat /\ Len(w) \in Nat /\ Len(p) \in Nat /\ Len(l) \in Nat
      /\ Len(t) = Len(a) + Len(f) + Len(w) + Len(p) + Len(l) + Len(e)
      /\ \A j \in 1 .. Len(a) : t[j] = a[j]
      /\ \A j \in 1 .. Len(f) : t[Len(a) + j] = f[j]
      /\ \A j \in 1 .. Len(w) : t[Len(a) + Len(f) + j] = w[j]
      /\ \A j \in 1 .. Len(p) : t[Len(a) + Len(f) + Len(w) + j] = p[j]
      /\ \A j \in 1 .. Len(l) : t[Len(a) + Len(f) + Len(w) + Len(p) + j] = l[j]
      /\ \A j \in 1 .. Len(e) : t[Len(a) + Len(f) + Len(w) + Len(p) + Len(l) + j] = e[j]
  <2>a. t = Together(a, f, w, p, l, e)
    BY <1>3 DEF Together
  <2>1. SixParts(Together(a, f, w, p, l, e), a, f, w, p, l, e)
    BY <1>1, <1>2, SixTexts
  <2> QED
    BY <2>a, <2>1 DEF SixParts
<1>5. /\ AfterFlags(d) = 1 + Len(f) /\ AfterWidth(d) = 1 + Len(f) + Len(w)
      /\ AfterPrecision(d) = 1 + Len(f) + Len(w) + Len(p)
      /\ AfterLength(d) = 1 + Len(f) + Len(w) + Len(p) + Len(l)
  BY DEF AfterFlags, AfterWidth, AfterPrecision, AfterLength, f, w, p, l
<1>6. 1 \in 1 .. Len(a) /\ 1 \in 1 .. Len(e)
  BY <1>2
<1>7. t[1] = "%" /\ t[AfterLength(d) + 1] = Specifier(d)
  BY <1>2, <1>4, <1>5, <1>6
<1>8. /\ \A j \in 1 .. Len(f) : t[1 + j] = f[j]
      /\ \A j \in 1 .. Len(w) : t[AfterFlags(d) + j] = w[j]
      /\ \A j \in 1 .. Len(p) : t[AfterWidth(d) + j] = p[j]
      /\ \A j \in 1 .. Len(l) : t[AfterPrecision(d) + j] = l[j]
  BY <1>2, <1>4, <1>5
<1>9. /\ Len(t) = AfterLength(d) + 1
      /\ AfterFlags(d) \in Nat /\ AfterWidth(d) \in Nat /\ AfterPrecision(d) \in Nat
      /\ AfterLength(d) \in Nat /\ AfterFlags(d) >= 1 /\ AfterFlags(d) <= AfterWidth(d)
      /\ AfterWidth(d) <= AfterPrecision(d) /\ AfterPrecision(d) <= AfterLength(d)
  BY <1>2, <1>4, <1>5
<1> QED
  BY <1>4, <1>7, <1>8, <1>9 DEF f, w, p, l

\* What stands behind the parts.
LEMMA Behind ==
    ASSUME NEW d, WellFormed(d), Percented(d), NEW t, t = FormatOf(d)
    PROVE  /\ t[AfterPrecision(d) + 1] \in LengthChars \union SpecifierChars
           /\ d.precision = NONE => t[AfterWidth(d) + 1] \in LengthChars \union SpecifierChars
           /\ d.precision # NONE => t[AfterWidth(d) + 1] = "."
           /\ ~d.star /\ d.width = NONE => t[AfterFlags(d) + 1] \in {"."} \union LengthChars \union SpecifierChars
           /\ d.star => t[AfterFlags(d) + 1] = "*"
<1>1. /\ \A j \in 1 .. Len(WidthText(d)) : t[AfterFlags(d) + j] = WidthText(d)[j]
      /\ \A j \in 1 .. Len(PrecisionText(d)) : t[AfterWidth(d) + j] = PrecisionText(d)[j]
      /\ \A j \in 1 .. Len(d.length) : t[AfterPrecision(d) + j] = d.length[j]
      /\ t[AfterLength(d) + 1] = Specifier(d)
      /\ AfterFlags(d) \in Nat /\ AfterWidth(d) \in Nat /\ AfterPrecision(d) \in Nat
  BY FormatParts, SMTT(30)
<1>2. Specifier(d) \in SpecifierChars
  BY SpecifierIs
<1>3. t[AfterPrecision(d) + 1] \in LengthChars \union SpecifierChars
  <2>1. CASE d.length = <<>>
    <3>1. AfterLength(d) = AfterPrecision(d)
      BY <1>1, <2>1 DEF AfterLength
    <3> QED
      BY <1>1, <1>2, <3>1
  <2>2. CASE d.length # <<>>
    <3>1. d.length \in Lengths \ {<<>>}
      BY <2>2 DEF WellFormed
    <3>2. Len(d.length) \in {1, 2} /\ d.length[1] \in LengthChars
      BY <3>1 DEF Lengths, LengthChars
    <3>3. 1 \in 1 .. Len(d.length)
      BY <3>2
    <3> QED
      BY <1>1, <3>2, <3>3
  <2> QED
    BY <2>1, <2>2
<1>4. d.precision = NONE => t[AfterWidth(d) + 1] \in LengthChars \union SpecifierChars
  <2> SUFFICES ASSUME d.precision = NONE PROVE t[AfterWidth(d) + 1] \in LengthChars \union SpecifierChars
    OBVIOUS
  <2>1. PrecisionText(d) = <<>>
    BY DEF PrecisionText, NONE
  <2>2. AfterPrecision(d) = AfterWidth(d)
    BY <1>1, <2>1 DEF AfterPrecision
  <2> QED
    BY <1>1, <1>3, <2>2
<1>5. d.precision # NONE => t[AfterWidth(d) + 1] = "."
  <2> SUFFICES ASSUME d.precision # NONE PROVE t[AfterWidth(d) + 1] = "."
    OBVIOUS
  <2>1. Len(PrecisionText(d)) >= 1 /\ PrecisionText(d)[1] = "." /\ Len(PrecisionText(d)) \in Nat
    <3>1. PrecisionText(d) \in Text
      BY PartsAreText
    <3>2. CASE ~d.star /\ d.precision \notin {NONE, 0}
      <4>1. PrecisionText(d) = <<".">> \o Decimal(d.precision) /\ Decimal(d.precision) \in Text
        BY <3>2, PartsAreText, DecimalIs
      <4>2. <<".">> \in Text /\ Len(<<".">>) = 1 /\ <<".">>[1] = "."
        BY Characters, ShortTexts
      <4>3. 1 \in 1 .. Len(<<".">>)
        BY <4>2
      <4>4. (<<".">> \o Decimal(d.precision))[1] = <<".">>[1]
        BY <4>1, <4>2, <4>3, Placed
      <4>5. Len(<<".">> \o Decimal(d.precision)) = 1 + Len(Decimal(d.precision)) /\ Len(Decimal(d.precision)) \in Nat
        <5>1. Len(<<".">> \o Decimal(d.precision)) = Len(<<".">>) + Len(Decimal(d.precision))
          BY <4>1, <4>2, Joined
        <5> QED
          BY <4>1, <4>2, <5>1 DEF Text
      <4> QED
        BY <4>1, <4>2, <4>4, <4>5
    <3>3. CASE d.star
      BY <3>3 DEF PrecisionText
    <3>4. CASE ~d.star /\ d.precision = 0
      BY <3>4 DEF PrecisionText, NONE
    <3> QED
      BY <3>2, <3>3, <3>4
  <2>2. 1 \in 1 .. Len(PrecisionText(d))
    BY <2>1
  <2> QED
    BY <1>1, <2>1, <2>2
<1>6. d.star => t[AfterFlags(d) + 1] = "*"
  <2> SUFFICES ASSUME d.star PROVE t[AfterFlags(d) + 1] = "*"
    OBVIOUS
  <2>1. WidthText(d) = <<"*">> /\ Len(<<"*">>) = 1 /\ <<"*">>[1] = "*"
    BY DEF WidthText
  <2>2. 1 \in 1 .. Len(WidthText(d))
    BY <2>1
  <2>3. t[AfterFlags(d) + 1] = "*"
    BY <1>1, <2>1, <2>2
  <2> QED
    BY <2>3
<1>7. ~d.star /\ d.width = NONE => t[AfterFlags(d) + 1] \in {"."} \union LengthChars \union SpecifierChars
  <2> SUFFICES ASSUME ~d.star, d.width = NONE
               PROVE  t[AfterFlags(d) + 1] \in {"."} \union LengthChars \union SpecifierChars
    OBVIOUS
  <2>1. WidthText(d) = <<>>
    BY DEF WidthText
  <2>2. AfterWidth(d) = AfterFlags(d)
    BY <1>1, <2>1 DEF AfterWidth
  <2>3. t[AfterWidth(d) + 1] \in {"."} \union LengthChars \union SpecifierChars
    BY <1>4, <1>5
  <2> QED
    BY <2>2, <2>3
<1> QED
  BY <1>3, <1>4, <1>5, <1>6, <1>7

-----------------------------------------------------------------------------
(* A call and its directives.                                              *)

Values == Int \union STRING \union Seq(STRING)

LEMMA FormatIsText ==
    ASSUME NEW d, WellFormed(d)
    PROVE  FormatOf(d) \in Text
<1>1. CASE Percented(d)
  BY <1>1, FormatParts
<1>2. CASE ~Percented(d)
  <2>1. d.conv = "plain" /\ d.value # "%"
    BY <1>2 DEF Percented
  <2>2. d.value \in STRING
    BY <2>1 DEF WellFormed, SignedChars, UnsignedChars
  <2>3. d.value \in Chars
    BY <2>2 DEF Chars
  <2>4. FormatOf(d) = <<d.value>>
    BY <2>1 DEF FormatOf
  <2> QED
    BY <2>3, <2>4, ShortTexts
<1> QED
  BY <1>1, <1>2

LEMMA OneBehind ==
    ASSUME NEW S, NEW s \in Seq(S), NEW a \in S, NEW u, u = s \o <<a>>
    PROVE  /\ u \in Seq(S) /\ Len(u) = Len(s) + 1 /\ u[Len(s) + 1] = a
           /\ \A k \in 1 .. Len(s) : u[k] = s[k]
<1>1. <<a>> \in Seq(S) /\ Len(<<a>>) = 1 /\ <<a>>[1] = a /\ Len(s) \in Nat
  OBVIOUS
<1> DEFINE t == <<a>>
<1>2. t \in Seq(S) /\ Len(t) = 1 /\ t[1] = a /\ u = s \o t
  BY <1>1
<1> HIDE DEF t
<1>3. /\ u \in Seq(S) /\ Len(u) = Len(s) + 1
      /\ \A k \in 1 .. Len(s) : u[k] = s[k]
  BY <1>1, <1>2
<1>4. u[Len(s) + 1] = t[(Len(s) + 1) - Len(s)]
  BY <1>1, <1>2
<1>5. (Len(s) + 1) - Len(s) = 1
  BY <1>1
<1> QED
  BY <1>2, <1>3, <1>4, <1>5

\* The arguments of a directive.
LEMMA ArgsAre ==
    ASSUME NEW d, WellFormed(d), NEW u, u = ArgsOf(d)
    PROVE  /\ u \in Seq(Values) /\ PrecisionArgs(d) \in {0, 1, 2} /\ WidthArgs(d) \in {0, 1}
           /\ d.star => WidthArgs(d) = 1 /\ Len(u) >= 1 /\ u[1] = d.width
           /\ ~d.star => WidthArgs(d) = 0 /\ PrecisionArgs(d) = 0
           /\ d.star /\ d.precision # NONE => PrecisionArgs(d) = 2 /\ Len(u) >= 2 /\ u[2] = d.precision
           /\ d.star /\ d.precision = NONE => PrecisionArgs(d) = 1
           /\ d.conv # "plain" => Len(u) = PrecisionArgs(d) + 1 /\ u[PrecisionArgs(d) + 1] = d.value
           /\ d.conv = "plain" => Len(u) = 0 /\ PrecisionArgs(d) = 0
<1>1. d.width \in Values /\ d.precision \in Values
  <2>1. d.width \in Int /\ d.precision \in Int
    BY DEF WellFormed, Ints
  <2> QED
    BY <2>1 DEF Values
<1>2. d.value \in Values
  <2>1. d.value \in Seq(STRING \ {NUL}) => d.value \in Seq(STRING)
    OBVIOUS
  <2>2. d.value \in STRING \/ d.value \in Int \/ d.value \in Seq(STRING)
    BY <2>1 DEF WellFormed
  <2> QED
    BY <2>2 DEF Values
<1>3. d.star \in BOOLEAN
  BY DEF WellFormed
<1>4. CASE d.conv = "plain"
  <2>1. ~d.star
    BY <1>4 DEF WellFormed, Bare, SignedChars, UnsignedChars
  <2>2. u = <<>>
    <3>1. u = (<<>> \o <<>>) \o <<>>
      BY <1>4, <2>1 DEF ArgsOf
    <3> QED
      BY <3>1
  <2> QED
    BY <1>4, <2>1, <2>2 DEF WidthArgs, PrecisionArgs
<1>5. CASE d.conv # "plain" /\ ~d.star
  <2>1. u = <<d.value>>
    <3>1. u = (<<>> \o <<>>) \o <<d.value>>
      BY <1>5 DEF ArgsOf
    <3> QED
      BY <3>1
  <2>2. u \in Seq(Values) /\ Len(u) = 1 /\ u[1] = d.value
    BY <1>2, <2>1
  <2> QED
    BY <1>5, <2>2 DEF WidthArgs, PrecisionArgs
<1>6. CASE d.conv # "plain" /\ d.star /\ d.precision = NONE
  <2> DEFINE s == <<d.width>>
  <2>1. u = s \o <<d.value>>
    <3>1. u = (s \o <<>>) \o <<d.value>>
      BY <1>6 DEF ArgsOf
    <3>2. s \o <<>> = s
      OBVIOUS
    <3> QED
      BY <3>1, <3>2
  <2>2. u \in Seq(Values) /\ Len(u) = 2 /\ u[1] = d.width /\ u[2] = d.value
    <3>1. s \in Seq(Values) /\ Len(s) = 1 /\ s[1] = d.width /\ 1 \in 1 .. 1 /\ 1 + 1 = 2
      BY <1>1
    <3> HIDE DEF s
    <3> QED
      BY <1>2, <2>1, <3>1, OneBehind
  <2> QED
    BY <1>6, <2>2 DEF WidthArgs, PrecisionArgs
<1>7. CASE d.conv # "plain" /\ d.star /\ d.precision # NONE
  <2> DEFINE s == <<d.width>>
             r == s \o <<d.precision>>
  <2>1. u = r \o <<d.value>>
    BY <1>7 DEF ArgsOf
  <2>2. u \in Seq(Values) /\ Len(u) = 3 /\ u[1] = d.width /\ u[2] = d.precision /\ u[3] = d.value
    <3>1. s \in Seq(Values) /\ Len(s) = 1 /\ s[1] = d.width /\ 1 \in 1 .. 1 /\ 1 + 1 = 2
      BY <1>1
    <3>0. r = s \o <<d.precision>>
      OBVIOUS
    <3> HIDE DEF r, s
    <3>2. r \in Seq(Values) /\ Len(r) = 2 /\ r[1] = d.width /\ r[2] = d.precision
      BY <1>1, <3>1, <3>0, OneBehind
    <3>3. 1 \in 1 .. 2 /\ 2 \in 1 .. 2 /\ 2 + 1 = 3
      OBVIOUS
    <3>4. /\ u \in Seq(Values) /\ Len(u) = Len(r) + 1 /\ u[Len(r) + 1] = d.value
          /\ \A k \in 1 .. Len(r) : u[k] = r[k]
      <4> DEFINE v == d.value
      <4>1. r \in Seq(Values) /\ v \in Values /\ u = r \o <<v>>
        BY <1>2, <2>1, <3>2
      <4> HIDE DEF v
      <4>2. /\ u \in Seq(Values) /\ Len(u) = Len(r) + 1 /\ u[Len(r) + 1] = v
            /\ \A k \in 1 .. Len(r) : u[k] = r[k]
        BY <4>1, OneBehind
      <4> QED
        BY <4>2 DEF v
    <3> QED
      BY <3>2, <3>3, <3>4
  <2> QED
    BY <1>7, <2>2 DEF WidthArgs, PrecisionArgs
<1> QED
  BY <1>3, <1>4, <1>5, <1>6, <1>7

\* The text of a directive that does not deviate.
LEMMA TextIsText ==
    ASSUME NEW d, WellFormed(d), ~KnownDeviation(d)
    PROVE  TextOf(d) \in Text
<1>1. STRING \subseteq Chars
  BY DEF Chars
<1>2. d.conv \in {"plain", "c", "s", "p"} \union SignedChars \union UnsignedChars
  BY DEF WellFormed
<1>3. CASE d.conv = "plain"
  <2>1. d.value \in Chars
    BY <1>1, <1>3 DEF WellFormed, SignedChars, UnsignedChars
  <2> QED
    BY <1>3, <2>1, ShortTexts DEF TextOf
<1>4. CASE d.conv \in SignedChars \union UnsignedChars
  <2>1. Integer(d)
    BY <1>4 DEF Integer
  <2>2. TextOf(d) = IntegerText(d)
    BY <1>4 DEF TextOf, SignedChars, UnsignedChars
  <2> DEFINE room == FieldWidth(d) - Len(BareNumber(d))
  <2>3. room \in Int /\ BareNumber(d) \in Text
    <3>1. FieldWidth(d) \in Nat /\ BareNumber(d) \in Text
      BY <2>1, Undeviating, BareLength
    <3> QED
      BY <3>1 DEF Text
  <2>4. Spaces(room) \in Text /\ Repeated("0", room) \in Text
    BY <2>3, Characters, RepeatedIs DEF Spaces
  <2>5. SignOf(d) \in Text /\ PrefixOf(d) \in Text /\ MinimalDigits(d) \in Text
    BY <2>1, SignIs, PrefixIs, BareLength
  <2>6. /\ BareNumber(d) \o Spaces(room) \in Text /\ Spaces(room) \o BareNumber(d) \in Text
        /\ SignOf(d) \o PrefixOf(d) \o Repeated("0", room) \o MinimalDigits(d) \in Text
    <3> HIDE DEF room
    <3> QED
      BY <2>3, <2>4, <2>5, Joined
  <2>7. IntegerText(d) = CASE LeftJustified(d) -> BareNumber(d) \o Spaces(room)
          [] ZeroPadded(d)    -> SignOf(d) \o PrefixOf(d) \o Repeated("0", room) \o MinimalDigits(d)
          [] OTHER            -> Spaces(room) \o BareNumber(d)
    BY DEF IntegerText
  <2>8. ~(LeftJustified(d) /\ ZeroPadded(d))
    BY DEF ZeroPadded
  <2> HIDE DEF room
  <2> QED
    BY <2>2, <2>6, <2>7, <2>8
<1>5. CASE d.conv = "p"
  <2> DEFINE v == DigitsOf(Unsigned(d.value, LONG), 16, TRUE)
  <2>1. v \in Text
    <3>1. Unsigned(d.value, LONG) \in 0 .. LONG - 1
      BY <1>5, WordTypes, Wraps DEF WellFormed, SignedChars, UnsignedChars
    <3>2. Unsigned(d.value, LONG) \in Nat /\ 16 \in 2 .. 16 /\ TRUE \in BOOLEAN
      BY <3>1, WordTypes
    <3> QED
      BY <3>2, DigitsAreText
  <2>2. POINTER_DIGITS - Len(v) \in Int
    BY <2>1, WordTypes DEF Text
  <2>3. Repeated("0", POINTER_DIGITS - Len(v)) \o v \in Text
    BY <2>1, <2>2, Characters, RepeatedIs, Joined
  <2>4. TextOf(d) = Repeated("0", POINTER_DIGITS - Len(v)) \o v
    BY <1>5 DEF TextOf
  <2> QED
    BY <2>3, <2>4
<1>6. CASE d.conv \in {"c", "s"}
  <2> DEFINE text == IF d.conv = "c" THEN <<d.value>>
                     ELSE IF d.precision < 0 THEN d.value
                     ELSE SubSeq(d.value, 1, Least(d.precision, Len(d.value)))
             room == FieldWidth(d) - Len(text)
  <2>1. text \in Text
    <3>1. CASE d.conv = "c"
      <4>1. d.value \in Chars
        BY <1>1, <3>1 DEF WellFormed, SignedChars, UnsignedChars
      <4> QED
        BY <3>1, <4>1, ShortTexts
    <3>2. CASE d.conv = "s"
      <4>1. d.value \in Seq(STRING \ {NUL}) /\ d.precision \in Int
        BY <3>2 DEF WellFormed, SignedChars, UnsignedChars, Ints
      <4>2. d.value \in Text /\ Len(d.value) \in Nat
        <5> DEFINE s == d.value
        <5>1. s \in Seq(STRING \ {NUL})
          BY <4>1
        <5> HIDE DEF s
        <5>2. s \in Seq(STRING)
          BY <5>1
        <5>3. s \in Text /\ Len(s) \in Nat
          BY <5>2, FromStrings DEF Text
        <5> QED
          BY <5>3 DEF s
      <4>3. CASE d.precision < 0
        BY <3>2, <4>2, <4>3
      <4>4. CASE ~(d.precision < 0)
        <5>1. Least(d.precision, Len(d.value)) \in 0 .. Len(d.value)
          BY <4>1, <4>2, <4>4 DEF Least
        <5>2. SubSeq(d.value, 1, Least(d.precision, Len(d.value))) \in Text
          BY <4>2, <5>1, CutShort
        <5> QED
          BY <3>2, <4>4, <5>2
      <4> QED
        BY <4>3, <4>4
    <3> QED
      BY <1>6, <3>1, <3>2
  <2>2. PlainText(d) = IF LeftJustified(d) THEN text \o Spaces(room) ELSE Spaces(room) \o text
    BY DEF PlainText
  <2>3. TextOf(d) = PlainText(d)
    BY <1>6 DEF TextOf
  <2>4. FieldWidth(d) \in Int
    <3>1. d.width \in Int
      BY DEF WellFormed, Ints
    <3> QED
      BY <3>1 DEF FieldWidth
  <2> HIDE DEF text
  <2>5. Spaces(room) \in Text
    <3>1. room \in Int
      BY <2>1, <2>4 DEF Text
    <3> QED
      BY <3>1, Characters, RepeatedIs DEF Spaces
  <2> HIDE DEF room
  <2> QED
    BY <2>1, <2>2, <2>3, <2>5, Joined
<1> QED
  BY <1>2, <1>3, <1>4, <1>5, <1>6

\* Texts that a terminator is no character of.
Printed == Seq(Chars \ {NUL})

LEMMA PrintedTexts ==
    /\ <<>> \in Printed
    /\ \A c \in Chars \ {NUL} : <<c>> \in Printed
    /\ \A s \in Printed, t \in Printed : s \o t \in Printed
    /\ \A s \in Printed : \A m \in 0 .. Len(s) : SubSeq(s, 1, m) \in Printed
    /\ \A c \in Chars \ {NUL}, times \in Int : Repeated(c, times) \in Printed
    /\ \A s \in Text : (\A k \in 1 .. Len(s) : s[k] # NUL) => s \in Printed
    /\ \A s \in Printed : s \in Text /\ Len(s) \in Nat /\ \A k \in 1 .. Len(s) : s[k] # NUL
<1> DEFINE S == Chars \ {NUL}
<1>1. S \subseteq Chars /\ NUL \notin S
  OBVIOUS
<1>2. ASSUME NEW s \in Text, \A k \in 1 .. Len(s) : s[k] # NUL PROVE s \in Printed
  <2>1. s \in [1 .. Len(s) -> Chars] /\ Len(s) \in Nat
    BY DEF Text
  <2>2. s \in [1 .. Len(s) -> S]
    BY <1>2, <2>1
  <2> HIDE DEF S
  <2>3. s \in Seq(S)
    BY <2>1, <2>2
  <2> QED
    BY <2>3 DEF Printed, S
<1>3. ASSUME NEW c \in S, NEW times \in Int PROVE Repeated(c, times) \in Printed
  <2>1. c \in Chars
    BY <1>1
  <2>2. Repeated(c, times) \in Text
    BY <2>1, RepeatedIs
  <2>3. Len(Repeated(c, times)) = IF times < 0 THEN 0 ELSE times
    BY <2>1, RepeatedIs
  <2>4. \A k \in 1 .. (IF times < 0 THEN 0 ELSE times) : Repeated(c, times)[k] # NUL
    BY <1>1 DEF Repeated
  <2> QED
    BY <1>2, <2>2, <2>3, <2>4
<1>4. ASSUME NEW s \in Printed
      PROVE  s \in Text /\ Len(s) \in Nat /\ \A k \in 1 .. Len(s) : s[k] # NUL
  <2>1. s \in Seq(S)
    BY DEF Printed
  <2> HIDE DEF S
  <2>2. Len(s) \in Nat /\ \A k \in 1 .. Len(s) : s[k] \in S
    BY <2>1
  <2>3. s \in Seq(Chars)
    BY <1>1, <2>1, <2>2
  <2> QED
    BY <1>1, <2>2, <2>3 DEF Text
<1> HIDE DEF S
<1>5. /\ <<>> \in Seq(S)
      /\ \A c \in S : <<c>> \in Seq(S)
      /\ \A s \in Seq(S), t \in Seq(S) : s \o t \in Seq(S)
      /\ \A s \in Seq(S) : \A m \in 0 .. Len(s) : SubSeq(s, 1, m) \in Seq(S)
  OBVIOUS
<1> QED
  BY <1>2, <1>3, <1>4, <1>5 DEF Printed, S

\* Such a text loses nothing to a device that does not send terminators.
LEMMA NothingDropped == ASSUME NEW s \in Printed PROVE WithoutNul(s) = s
<1> DEFINE last == Len(s)
           P(m) == SubSeq(s, 1, m)
           G == {m \in Nat : m <= last => WithoutNul(P(m)) = P(m)}
<1>1. s \in Text /\ last \in Nat /\ \A k \in 1 .. last : s[k] # NUL
  BY PrintedTexts
<1>2. P(last) = s /\ P(0) = <<>>
  BY <1>1 DEF Text
<1>3. 0 \in G
  <2>1. <<>> \in Text
    BY DEF Text
  <2> QED
    BY <1>2, <2>1, NulsDropped
<1>4. ASSUME NEW m \in Nat, m \in G PROVE m + 1 \in G
  <2> SUFFICES ASSUME m + 1 <= last PROVE WithoutNul(P(m + 1)) = P(m + 1)
    OBVIOUS
  <2> DEFINE c == s[m + 1]
             p == P(m)
  <2>1. m + 1 \in 1 .. last /\ m <= last
    BY <1>1
  <2>2. c \in Chars /\ c # NUL /\ p \in Text /\ P(m + 1) = Append(p, c)
    BY <1>1, <2>1 DEF Text
  <2>3. WithoutNul(p) = p
    BY <1>4, <2>1
  <2> HIDE DEF p
  <2> HIDE DEF c
  <2>4. WithoutNul(Append(p, c)) = WithoutNul(p) \o <<c>>
    BY <2>2, NulsDropped
  <2>5. p \o <<c>> = Append(p, c)
    BY <2>2 DEF Text
  <2> QED
    BY <2>2, <2>3, <2>4, <2>5
<1> HIDE DEF G
<1>5. last \in G
  BY <1>1, <1>3, <1>4, Induction
<1>6. WithoutNul(P(last)) = P(last)
  <2>1. last <= last
    BY <1>1
  <2> QED
    BY <1>5, <2>1 DEF G
<1> HIDE DEF P
<1> QED
  BY <1>2, <1>6

\* No digit is a terminator.
LEMMA DigitsPrinted ==
    ASSUME NEW v \in Nat, NEW b \in 2 .. 16, NEW upper \in BOOLEAN
    PROVE  DigitsOf(v, b, upper) \in Printed
<1> DEFINE digits == DigitsOf(v, b, upper)
           At(k) == (v \div Power(b, DigitCount(v, b) - k)) % b
<1>1. /\ digits \in Text /\ Len(digits) = DigitCount(v, b)
      /\ \A k \in 1 .. DigitCount(v, b) : At(k) \in 0 .. b - 1 /\ digits[k] = DigitChar(At(k), upper)
  BY DigitsAreText
<1> HIDE DEF At, digits
<1>2. ASSUME NEW k \in 1 .. Len(digits) PROVE digits[k] # NUL
  <2>1. k \in 1 .. DigitCount(v, b)
    BY <1>1
  <2>2. At(k) \in 0 .. b - 1 /\ digits[k] = DigitChar(At(k), upper)
    BY <1>1, <2>1
  <2>3. At(k) \in 0 .. 15
    <3>1. 0 .. b - 1 \subseteq 0 .. 15
      OBVIOUS
    <3> QED
      BY <2>2, <3>1, Zenon
  <2> QED
    BY <2>2, <2>3, DigitIsShown
<1>3. digits \in Printed
  BY <1>1, <1>2, PrintedTexts
<1> QED
  BY <1>3 DEF digits

\* Of the directives only a %c can put a terminator into the text.
LEMMA TextIsPrinted ==
    ASSUME NEW d, WellFormed(d), ~KnownDeviation(d), ~(d.conv = "c" /\ d.value = NUL)
    PROVE  TextOf(d) \in Printed
<1>1. STRING \subseteq Chars
  BY DEF Chars
<1>2. d.conv \in {"plain", "c", "s", "p"} \union SignedChars \union UnsignedChars
  BY DEF WellFormed
<1>3. {"0", "-", "+", " ", "x", "X", "b"} \subseteq Chars \ {NUL}
  BY Characters DEF NUL
<1>4. CASE d.conv = "plain"
  <2>1. d.value \in Chars \ {NUL}
    BY <1>1, <1>4 DEF WellFormed, SignedChars, UnsignedChars
  <2> QED
    BY <1>4, <2>1, PrintedTexts DEF TextOf
<1>5. CASE d.conv \in SignedChars \union UnsignedChars
  <2>1. Integer(d)
    BY <1>5 DEF Integer
  <2>2. TextOf(d) = IntegerText(d)
    BY <1>5 DEF TextOf, SignedChars, UnsignedChars
  <2> DEFINE room == FieldWidth(d) - Len(BareNumber(d))
  <2>3. room \in Int
    <3>1. FieldWidth(d) \in Nat /\ BareNumber(d) \in Text
      BY <2>1, Undeviating, BareLength
    <3> QED
      BY <3>1 DEF Text
  <2>4. Spaces(room) \in Printed /\ Repeated("0", room) \in Printed
    <3> HIDE DEF room
    <3> QED
      BY <1>3, <2>3, PrintedTexts DEF Spaces
  <2>5. SignOf(d) \in Printed
    <3>1. SignOf(d) \in {<<>>, <<"-">>, <<"+">>, <<" ">>}
      BY <2>1, SignIs
    <3>2. {<<>>, <<"-">>, <<"+">>, <<" ">>} \subseteq Printed
      BY <1>3, PrintedTexts
    <3> QED
      BY <3>1, <3>2
  <2>6. PrefixOf(d) \in Printed
    <3>1. \A c \in {"x", "X", "b"} : <<"0", c>> \in Printed
      <4> SUFFICES ASSUME NEW c \in {"x", "X", "b"} PROVE <<"0", c>> \in Printed
        OBVIOUS
      <4>1. <<"0">> \o <<c>> \in Printed
        BY <1>3, PrintedTexts
      <4>2. <<"0">> \o <<c>> = <<"0", c>>
        <5>1. c \in Chars
          BY Characters
        <5> QED
          BY <5>1, Characters, TwoCharacters
      <4> QED
        BY <4>1, <4>2
    <3>2. <<>> \in Printed /\ <<"0">> \in Printed
      BY <1>3, PrintedTexts
    <3>3. CASE "hash" \notin NumberFlags(d)
      BY <2>1, <3>2, <3>3, PrefixIs
    <3>4. CASE "hash" \in NumberFlags(d)
      <4>1. /\ d.conv \in {"x", "X", "o", "b"}
            /\ d.conv # "o" => PrefixOf(d) = <<"0", d.conv>>
            /\ d.conv = "o" => PrefixOf(d) \in {<<"0">>, <<>>}
        BY <2>1, <3>4, PrefixIs
      <4> QED
        BY <3>1, <3>2, <4>1
    <3> QED
      BY <3>3, <3>4
  <2>7. MinimalDigits(d) \in Printed
    <3>1. /\ ValueDigits(d) \in Text /\ PrecisionIs(d) \in Nat
          /\ MinimalDigits(d) = Repeated("0", PrecisionIs(d) - Len(ValueDigits(d))) \o ValueDigits(d)
      BY <2>1, Undeviating, MinimalIs DEF Integer
    <3>2. PrecisionIs(d) - Len(ValueDigits(d)) \in Int
      BY <3>1 DEF Text
    <3>3. ValueDigits(d) \in Printed
      <4>1. ValueOf(d) \in Nat /\ Radix(d) \in 2 .. 16 /\ IsUpper(d) \in BOOLEAN
        BY <2>1, ValueIs, WordTypes DEF Integer
      <4>2. DigitsOf(ValueOf(d), Radix(d), IsUpper(d)) \in Printed
        BY <4>1, DigitsPrinted
      <4> QED
        BY <4>2, PrintedTexts DEF ValueDigits
    <3>4. Repeated("0", PrecisionIs(d) - Len(ValueDigits(d))) \in Printed
      BY <1>3, <3>2, PrintedTexts
    <3> QED
      BY <3>1, <3>3, <3>4, PrintedTexts
  <2>8. BareNumber(d) \in Printed
    BY <2>5, <2>6, <2>7, PrintedTexts DEF BareNumber
  <2>9. /\ BareNumber(d) \o Spaces(room) \in Printed /\ Spaces(room) \o BareNumber(d) \in Printed
        /\ SignOf(d) \o PrefixOf(d) \o Repeated("0", room) \o MinimalDigits(d) \in Printed
    <3> HIDE DEF room
    <3> QED
      BY <2>4, <2>5, <2>6, <2>7, <2>8, PrintedTexts
  <2>10. IntegerText(d) = CASE LeftJustified(d) -> BareNumber(d) \o Spaces(room)
          [] ZeroPadded(d)    -> SignOf(d) \o PrefixOf(d) \o Repeated("0", room) \o MinimalDigits(d)
          [] OTHER            -> Spaces(room) \o BareNumber(d)
    BY DEF IntegerText
  <2>11. ~(LeftJustified(d) /\ ZeroPadded(d))
    BY DEF ZeroPadded
  <2> HIDE DEF room
  <2> QED
    BY <2>2, <2>9, <2>10, <2>11
<1>6. CASE d.conv = "p"
  <2> DEFINE v == DigitsOf(Unsigned(d.value, LONG), 16, TRUE)
  <2>1. v \in Printed /\ v \in Text
    <3>1. Unsigned(d.value, LONG) \in 0 .. LONG - 1
      BY <1>6, WordTypes, Wraps DEF WellFormed, SignedChars, UnsignedChars
    <3>2. Unsigned(d.value, LONG) \in Nat /\ 16 \in 2 .. 16 /\ TRUE \in BOOLEAN
      BY <3>1, WordTypes
    <3> QED
      BY <3>2, DigitsPrinted, DigitsAreText
  <2>2. POINTER_DIGITS - Len(v) \in Int
    BY <2>1, WordTypes DEF Text
  <2>3. Repeated("0", POINTER_DIGITS - Len(v)) \in Printed
    BY <1>3, <2>2, PrintedTexts
  <2>4. TextOf(d) = Repeated("0", POINTER_DIGITS - Len(v)) \o v
    BY <1>6 DEF TextOf
  <2> QED
    BY <2>1, <2>3, <2>4, PrintedTexts
<1>7. CASE d.conv \in {"c", "s"}
  <2> DEFINE text == IF d.conv = "c" THEN <<d.value>>
                     ELSE IF d.precision < 0 THEN d.value
                     ELSE SubSeq(d.value, 1, Least(d.precision, Len(d.value)))
             room == FieldWidth(d) - Len(text)
  <2>1. text \in Printed
    <3>1. CASE d.conv = "c"
      <4>1. d.value \in Chars \ {NUL}
        BY <1>1, <3>1 DEF WellFormed, SignedChars, UnsignedChars
      <4> QED
        BY <3>1, <4>1, PrintedTexts
    <3>2. CASE d.conv = "s"
      <4>1. d.value \in Seq(STRING \ {NUL}) /\ d.precision \in Int
        BY <3>2 DEF WellFormed, SignedChars, UnsignedChars, Ints
      <4>2. d.value \in Printed /\ Len(d.value) \in Nat
        <5> DEFINE s == d.value
        <5>1. s \in Seq(STRING \ {NUL})
          BY <4>1
        <5> HIDE DEF s
        <5>2. s \in Seq(STRING) /\ Len(s) \in Nat /\ \A k \in 1 .. Len(s) : s[k] # NUL
          BY <5>1
        <5>3. s \in Text
          BY <5>2, FromStrings
        <5>4. s \in Printed /\ Len(s) \in Nat
          BY <5>2, <5>3, PrintedTexts
        <5> QED
          BY <5>4 DEF s
      <4>3. CASE d.precision < 0
        BY <3>2, <4>2, <4>3
      <4>4. CASE ~(d.precision < 0)
        <5>1. Least(d.precision, Len(d.value)) \in 0 .. Len(d.value)
          BY <4>1, <4>2, <4>4 DEF Least
        <5>2. SubSeq(d.value, 1, Least(d.precision, Len(d.value))) \in Printed
          BY <4>2, <5>1, PrintedTexts
        <5> QED
          BY <3>2, <4>4, <5>2
      <4> QED
        BY <4>3, <4>4
    <3> QED
      BY <1>7, <3>1, <3>2
  <2>2. PlainText(d) = IF LeftJustified(d) THEN text \o Spaces(room) ELSE Spaces(room) \o text
    BY DEF PlainText
  <2>3. TextOf(d) = PlainText(d)
    BY <1>7 DEF TextOf
  <2>4. FieldWidth(d) \in Int
    <3>1. d.width \in Int
      BY DEF WellFormed, Ints
    <3> QED
      BY <3>1 DEF FieldWidth
  <2> HIDE DEF text
  <2>5. Spaces(room) \in Printed
    <3>1. Len(text) \in Nat
      BY <2>1, PrintedTexts
    <3>2. room \in Int
      BY <2>4, <3>1
    <3> HIDE DEF room
    <3> QED
      BY <1>3, <3>2, PrintedTexts DEF Spaces
  <2> HIDE DEF room
  <2> QED
    BY <2>1, <2>2, <2>3, <2>5, PrintedTexts
<1> QED
  BY <1>2, <1>4, <1>5, <1>6, <1>7

\* What a call is made of.
LEMMA CallIs ==
    ASSUME NEW c \in Calls
    PROVE  /\ Len(c.means) \in Nat /\ \A k \in 1 .. Len(c.means) : WellFormed(c.means[k])
           /\ Formats(c) \in Seq(Seq(Chars)) /\ Len(Formats(c)) = Len(c.means)
           /\ \A k \in 1 .. Len(c.means) : Formats(c)[k] = FormatOf(c.means[k])
           /\ Arguments(c) \in Seq(Seq(Values)) /\ Len(Arguments(c)) = Len(c.means)
           /\ \A k \in 1 .. Len(c.means) : Arguments(c)[k] = ArgsOf(c.means[k])
           /\ Len(Texts(c)) = Len(c.means)
           /\ \A k \in 1 .. Len(c.means) : Texts(c)[k] = TextOf(c.means[k])
           /\ ~Deviates(c) => Texts(c) \in Seq(Seq(Chars))
           /\ c.format = FlattenSeq(Formats(c)) /\ c.args = FlattenSeq(Arguments(c))
<1>1. /\ Len(c.means) \in Nat /\ DOMAIN c.means = 1 .. Len(c.means)
      /\ \A from \in DOMAIN c.means : WellFormed(c.means[from])
      /\ c.format = FlattenSeq([from \in DOMAIN c.means |-> FormatOf(c.means[from])])
      /\ c.args = FlattenSeq([from \in DOMAIN c.means |-> ArgsOf(c.means[from])])
  <2>1. WellMeant(c)
    BY CFormatAssumption
  <2> QED
    BY <2>1 DEF WellMeant
<1> DEFINE amount == Len(c.means)
<1>2. \A k \in 1 .. amount : WellFormed(c.means[k])
  BY <1>1
<1>3. \A k \in 1 .. amount : FormatOf(c.means[k]) \in Seq(Chars)
  BY <1>2, FormatIsText DEF Text
<1>4. \A k \in 1 .. amount : ArgsOf(c.means[k]) \in Seq(Values)
  BY <1>2, ArgsAre
<1>5. ~Deviates(c) => \A k \in 1 .. amount : TextOf(c.means[k]) \in Seq(Chars)
  BY <1>1, <1>2, TextIsText DEF Text, Deviates
<1> HIDE DEF amount
<1>6. Formats(c) = [k \in 1 .. amount |-> FormatOf(c.means[k])]
  BY DEF Formats, amount
<1>7. Arguments(c) = [k \in 1 .. amount |-> ArgsOf(c.means[k])]
  BY DEF Arguments, amount
<1>8. Texts(c) = [k \in 1 .. amount |-> TextOf(c.means[k])]
  BY DEF Texts, amount
<1>9. amount \in Nat
  BY <1>1 DEF amount
<1>10. Formats(c) \in Seq(Seq(Chars)) /\ Len(Formats(c)) = amount
  BY <1>3, <1>6, <1>9
<1>11. Arguments(c) \in Seq(Seq(Values)) /\ Len(Arguments(c)) = amount
  BY <1>4, <1>7, <1>9
<1>12. Len(Texts(c)) = amount /\ (~Deviates(c) => Texts(c) \in Seq(Seq(Chars)))
  BY <1>5, <1>8, <1>9
<1>13. c.format = FlattenSeq(Formats(c)) /\ c.args = FlattenSeq(Arguments(c))
  BY <1>1, <1>6, <1>7 DEF amount
<1> QED
  BY <1>2, <1>6, <1>7, <1>8, <1>9, <1>10, <1>11, <1>12, <1>13 DEF amount

\* One directive further in the format, the arguments and the text.
LEMMA Along ==
    ASSUME NEW c \in Calls, NEW m \in Nat, m < Len(c.means), NEW d, d = c.means[m + 1]
    PROVE  /\ WellFormed(d)
           /\ Written(c, m) \in Nat /\ Len(FormatOf(d)) \in Nat
           /\ Written(c, m + 1) = Written(c, m) + Len(FormatOf(d))
           /\ Written(c, m + 1) <= Len(c.format) /\ Len(c.format) \in Nat
           /\ Taken(c, m) \in Nat /\ Len(ArgsOf(d)) \in Nat
           /\ Taken(c, m + 1) = Taken(c, m) + Len(ArgsOf(d))
           /\ Taken(c, m + 1) <= Len(c.args) /\ Len(c.args) \in Nat
<1>1. Len(c.means) \in Nat /\ m + 1 \in 1 .. Len(c.means) /\ m + 1 \in 0 .. Len(c.means)
  BY CallIs
<1>2. WellFormed(d)
  BY <1>1, CallIs
<1>3. Formats(c) \in Seq(Seq(Chars)) /\ Len(Formats(c)) = Len(c.means) /\ Formats(c)[m + 1] = FormatOf(d)
  BY <1>1, CallIs
<1>4. Arguments(c) \in Seq(Seq(Values)) /\ Len(Arguments(c)) = Len(c.means) /\ Arguments(c)[m + 1] = ArgsOf(d)
  BY <1>1, CallIs
<1>5. c.format = FlattenSeq(Formats(c)) /\ c.args = FlattenSeq(Arguments(c))
  BY CallIs
<1>6. /\ Upto(Formats(c), m) \in Seq(Chars) /\ FormatOf(d) \in Seq(Chars)
      /\ Written(c, m + 1) = Written(c, m) + Len(FormatOf(d))
  BY <1>3, UptoNext DEF Written
<1>7. Written(c, m + 1) <= Len(c.format)
  BY <1>1, <1>3, <1>5, UptoBegins DEF Written
<1>8. /\ Upto(Arguments(c), m) \in Seq(Values) /\ ArgsOf(d) \in Seq(Values)
      /\ Taken(c, m + 1) = Taken(c, m) + Len(ArgsOf(d))
  BY <1>4, UptoNext DEF Taken
<1>9. Taken(c, m + 1) <= Len(c.args)
  BY <1>1, <1>4, <1>5, UptoBegins DEF Taken
<1>10. Len(c.format) \in Nat /\ Len(c.args) \in Nat
  BY PrintfAssumption
<1>11. Written(c, m) \in Nat /\ Len(FormatOf(d)) \in Nat
  BY <1>6 DEF Written
<1>12. Taken(c, m) \in Nat /\ Len(ArgsOf(d)) \in Nat
  BY <1>8 DEF Taken
<1> QED
  BY <1>2, <1>6, <1>7, <1>8, <1>9, <1>10, <1>11, <1>12

\* The characters of a directive and its arguments where the call has them.
LEMMA CharacterAt ==
    ASSUME NEW c \in Calls, call = c, NEW m \in Nat, m < Len(c.means),
           NEW t, t = FormatOf(c.means[m + 1]), NEW j \in 1 .. Len(t)
    PROVE  FormatChar(Written(c, m) + j) = t[j] /\ Written(c, m) + j <= Len(call.format)
<1>1. Len(c.means) \in Nat /\ m + 1 \in 1 .. Len(c.means)
  BY CallIs
<1>2. Formats(c) \in Seq(Seq(Chars)) /\ Len(Formats(c)) = Len(c.means) /\ Formats(c)[m + 1] = t
  BY <1>1, CallIs
<1>3. c.format = FlattenSeq(Formats(c))
  BY CallIs
<1>4. /\ Written(c, m) + j \in 1 .. Len(FlattenSeq(Formats(c)))
      /\ FlattenSeq(Formats(c))[Written(c, m) + j] = t[j]
  <2> DEFINE p == Formats(c)
             w == Len(Upto(p, m))
  <2>1. p \in Seq(Seq(Chars)) /\ m < Len(p) /\ j \in 1 .. Len(p[m + 1]) /\ p[m + 1] = t
    BY <1>2
  <2> HIDE DEF p
  <2>2. w + j \in 1 .. Len(FlattenSeq(p)) /\ FlattenSeq(p)[w + j] = p[m + 1][j]
    BY <2>1, PieceAt
  <2>3. Written(c, m) = w
    BY DEF Written, p
  <2> QED
    BY <2>1, <2>2, <2>3 DEF p
<1>5. /\ Written(c, m) + j \in 1 .. Len(call.format)
      /\ call.format[Written(c, m) + j] = t[j]
  BY <1>3, <1>4
<1>6. Len(call.format) \in Nat
  BY PrintfAssumption
<1> QED
  BY <1>5, <1>6 DEF FormatChar

LEMMA ArgumentAt ==
    ASSUME NEW c \in Calls, NEW m \in Nat, m < Len(c.means),
           NEW u, u = ArgsOf(c.means[m + 1]), NEW j \in 1 .. Len(u)
    PROVE  c.args[Taken(c, m) + j] = u[j]
<1>1. Len(c.means) \in Nat /\ m + 1 \in 1 .. Len(c.means)
  BY CallIs
<1>2. Arguments(c) \in Seq(Seq(Values)) /\ Len(Arguments(c)) = Len(c.means) /\ Arguments(c)[m + 1] = u
  BY <1>1, CallIs
<1>3. c.args = FlattenSeq(Arguments(c))
  BY CallIs
<1>4. m < Len(Arguments(c)) /\ j \in 1 .. Len(Arguments(c)[m + 1])
  BY <1>2
<1>5. FlattenSeq(Arguments(c))[Taken(c, m) + j] = Arguments(c)[m + 1][j]
  BY <1>2, <1>4, PieceAt DEF Taken
<1> QED
  BY <1>2, <1>3, <1>5

\* The beginning and the end of a call.
LEMMA WholeCall ==
    ASSUME NEW c \in Calls
    PROVE  /\ Len(c.means) \in Nat /\ Written(c, 0) = 0 /\ Taken(c, 0) = 0
           /\ Written(c, Len(c.means)) = Len(c.format)
           /\ ~Deviates(c) => /\ Upto(Texts(c), 0) = <<>>
                              /\ Upto(Texts(c), Len(c.means)) = FlattenSeq(Texts(c))
<1>1. /\ Len(c.means) \in Nat
      /\ Formats(c) \in Seq(Seq(Chars)) /\ Len(Formats(c)) = Len(c.means)
      /\ Arguments(c) \in Seq(Seq(Values)) /\ Len(Arguments(c)) = Len(c.means)
      /\ Len(Texts(c)) = Len(c.means) /\ (~Deviates(c) => Texts(c) \in Seq(Seq(Chars)))
      /\ c.format = FlattenSeq(Formats(c))
  BY CallIs
<1>2. Upto(Formats(c), 0) = <<>> /\ Upto(Formats(c), Len(c.means)) = c.format
  BY <1>1, UptoIs
<1>3. Upto(Arguments(c), 0) = <<>>
  BY <1>1, UptoIs
<1>4. ~Deviates(c) => /\ Upto(Texts(c), 0) = <<>>
                      /\ Upto(Texts(c), Len(c.means)) = FlattenSeq(Texts(c))
  BY <1>1, UptoIs
<1>5. Len(<<>>) = 0
  OBVIOUS
<1> QED
  BY <1>1, <1>2, <1>3, <1>4, <1>5 DEF Written, Taken

LEMMA TextAlong ==
    ASSUME NEW c \in Calls, ~Deviates(c), NEW m \in Nat, m < Len(c.means), NEW d, d = c.means[m + 1]
    PROVE  /\ Upto(Texts(c), m) \in Text /\ TextOf(d) \in Text
           /\ Upto(Texts(c), m + 1) = Upto(Texts(c), m) \o TextOf(d)
           /\ ~KnownDeviation(d)
<1>1. Len(c.means) \in Nat /\ m + 1 \in 1 .. Len(c.means)
  BY CallIs
<1>2. Texts(c) \in Seq(Seq(Chars)) /\ Len(Texts(c)) = Len(c.means) /\ Texts(c)[m + 1] = TextOf(d)
  BY <1>1, CallIs
<1>3. /\ Upto(Texts(c), m) \in Seq(Chars) /\ TextOf(d) \in Seq(Chars)
      /\ Upto(Texts(c), m + 1) = Upto(Texts(c), m) \o TextOf(d)
  BY <1>2, UptoNext
<1>4. ~KnownDeviation(d)
  <2>1. WellMeant(c)
    BY CFormatAssumption
  <2>2. m + 1 \in DOMAIN c.means
    BY <1>1, <2>1 DEF WellMeant
  <2> QED
    BY <2>2 DEF Deviates
<1> QED
  BY <1>3, <1>4 DEF Text

-----------------------------------------------------------------------------
(* What is put out.                                                        *)

\* What out() is given is put behind what it has been given.
LEMMA PutOutMore ==
    ASSUME NEW t \in Text, HasPutOut(t), NEW s \in Text, OutOn(s), UNCHANGED target, maxlen \in Nat
    PROVE  HasPutOut(t \o s)'
<1>1. device' = device /\ maxlen' = maxlen
  BY DEF target
<1>2. Len(t) \in Nat /\ Len(s) \in Nat /\ t \o s \in Text /\ Len(t \o s) = Len(t) + Len(s)
  BY Joined DEF Text
<1>3. idx' = Len(t \o s) /\ idx = Len(t)
  BY <1>2 DEF OutOn, HasPutOut
<1>4. ASSUME device \in {"char", "fct"} PROVE sent' = WithoutNul(t \o s)
  <2>1. sent' = sent \o WithoutNul(s)
    BY <1>4 DEF OutOn, Out, PutChars, CallFct
  <2>2. sent = WithoutNul(t)
    BY <1>4 DEF HasPutOut
  <2> QED
    BY <2>1, <2>2, NulsDroppedApart
<1>5. ASSUME device = "buffer"
      PROVE  /\ DOMAIN buffer' = {k \in 0 .. Len(t \o s) - 1 : k < maxlen}
             /\ \A k \in DOMAIN buffer' : buffer'[k] = (t \o s)[k + 1]
  <2> DEFINE C == DOMAIN buffer \union {k \in idx .. idx + Len(s) - 1 : k < maxlen}
  <2>1. buffer' = [j \in C |-> IF j \in idx .. idx + Len(s) - 1 THEN s[j - idx + 1] ELSE buffer[j]]
    BY <1>5 DEF OutOn, Out, Stored
  <2>2. DOMAIN buffer = {k \in 0 .. Len(t) - 1 : k < maxlen} /\ \A k \in DOMAIN buffer : buffer[k] = t[k + 1]
    BY <1>5 DEF HasPutOut
  <2>3. C = {k \in 0 .. Len(t \o s) - 1 : k < maxlen}
    <3>1. C = {k \in 0 .. Len(t) - 1 : k < maxlen} \union {k \in Len(t) .. Len(t) + Len(s) - 1 : k < maxlen}
      BY <1>3, <2>2
    <3> DEFINE lt == Len(t)
               ls == Len(s)
    <3>2. lt \in Nat /\ ls \in Nat
      BY <1>2
    <3>3. C = {k \in 0 .. lt - 1 : k < maxlen} \union {k \in lt .. lt + ls - 1 : k < maxlen}
      BY <3>1
    <3>4. Len(t \o s) = lt + ls
      BY <1>2
    <3> HIDE DEF lt, ls, C
    <3> QED
      BY <3>2, <3>3, <3>4
  <2> HIDE DEF C
  <2>4. ASSUME NEW k \in C PROVE buffer'[k] = (t \o s)[k + 1]
    <3>1. k \in 0 .. Len(t) + Len(s) - 1 /\ k < maxlen
      BY <1>2, <2>3, <2>4
    <3>2. buffer'[k] = IF k \in Len(t) .. Len(t) + Len(s) - 1 THEN s[k - Len(t) + 1] ELSE buffer[k]
      BY <1>3, <2>1, <2>4
    <3>3. CASE k \in Len(t) .. Len(t) + Len(s) - 1
      <4>1. k + 1 = Len(t) + (k - Len(t) + 1) /\ k - Len(t) + 1 \in 1 .. Len(s)
        BY <1>2, <3>1, <3>3
      <4>2. (t \o s)[Len(t) + (k - Len(t) + 1)] = s[k - Len(t) + 1]
        BY <4>1, Placed
      <4> QED
        BY <3>2, <3>3, <4>1, <4>2
    <3>4. CASE k \notin Len(t) .. Len(t) + Len(s) - 1
      <4>1. k \in 0 .. Len(t) - 1 /\ k + 1 \in 1 .. Len(t)
        BY <1>2, <3>1, <3>4
      <4>2. (t \o s)[k + 1] = t[k + 1]
        BY <4>1, Placed
      <4>3. buffer[k] = t[k + 1]
        BY <2>2, <3>1, <4>1
      <4> QED
        BY <3>2, <3>4, <4>2, <4>3
    <3> QED
      BY <3>3, <3>4
  <2>5. DOMAIN buffer' = C
    BY <2>1
  <2> QED
    BY <2>3, <2>4, <2>5
<1> QED
  BY <1>1, <1>3, <1>4, <1>5 DEF HasPutOut

\* The terminator goes behind the text, or into the last cell.
LEMMA EndPutOut ==
    ASSUME NEW t \in Text, HasPutOut(t), Terminate, maxlen \in 0 .. SIZE_MAX
    PROVE  HasEnded(t)'
<1>1. device' = device /\ maxlen' = maxlen /\ idx' = idx
  BY DEF Terminate, target
<1>2. Len(t) \in Nat /\ idx = Len(t) /\ maxlen \in Nat /\ SIZE_MAX \in Nat
  BY WordTypes DEF Text, HasPutOut
<1>3. ASSUME device \in {"char", "fct"} PROVE sent' = WithoutNul(t)
  <2>1. sent' = sent \o WithoutNul(<<NUL>>)
    BY <1>3 DEF Terminate, Out, PutChars, CallFct
  <2>2. sent = WithoutNul(t)
    BY <1>3 DEF HasPutOut
  <2>3. WithoutNul(<<NUL>>) = <<>>
    <3>1. <<>> \in Text /\ NUL \in Chars
      BY Characters, ShortTexts
    <3>2. Append(<<>>, NUL) = <<NUL>>
      OBVIOUS
    <3>3. WithoutNul(Append(<<>>, NUL)) = WithoutNul(<<>>) \o <<>>
      BY <3>1, NulsDropped
    <3>4. WithoutNul(<<>>) = <<>>
      BY <3>1, NulsDropped
    <3> QED
      BY <3>2, <3>3, <3>4
  <2>4. WithoutNul(t) \in Text
    BY NulsDropped
  <2>5. WithoutNul(t) \o <<>> = WithoutNul(t)
    BY <2>4, NothingJoined
  <2> QED
    BY <2>1, <2>2, <2>3, <2>5
<1>4. ASSUME device = "buffer", NEW k \in DOMAIN buffer'
      PROVE  buffer'[k] = IF k < Len(t) /\ k < maxlen - 1 THEN t[k + 1] ELSE NUL
  <2> DEFINE from == TerminatorIndex
             C == DOMAIN buffer \union {j \in from .. from + Len(<<NUL>>) - 1 : j < maxlen}
             l == Len(t)
  <2>1. buffer' = [j \in C |-> IF j \in from .. from + Len(<<NUL>>) - 1 THEN <<NUL>>[j - from + 1] ELSE buffer[j]]
    BY <1>4 DEF Terminate, Out, Stored
  <2>2. DOMAIN buffer = {j \in 0 .. l - 1 : j < maxlen} /\ \A j \in DOMAIN buffer : buffer[j] = t[j + 1]
    BY <1>4 DEF HasPutOut
  <2>3. from = (IF l < maxlen THEN l ELSE IF maxlen = 0 THEN SIZE_MAX ELSE maxlen - 1) /\ from \in Nat
    <3>1. from = IF idx < maxlen THEN idx ELSE (maxlen - 1) % (SIZE_MAX + 1)
      BY DEF TerminatorIndex, Unsigned
    <3>2. maxlen = 0 => (maxlen - 1) % (SIZE_MAX + 1) = SIZE_MAX
      <4> SUFFICES ASSUME maxlen = 0 PROVE (0 - 1) % (SIZE_MAX + 1) = SIZE_MAX
        OBVIOUS
      <4> DEFINE z == SIZE_MAX + 1
      <4>1. z \in Nat \ {0} /\ SIZE_MAX = z - 1
        BY <1>2
      <4> HIDE DEF z
      <4>2. (0 - 1) % z = z - 1
        BY <4>1
      <4> QED
        BY <4>1, <4>2 DEF z
    <3>3. maxlen # 0 => (maxlen - 1) % (SIZE_MAX + 1) = maxlen - 1
      <4> SUFFICES ASSUME maxlen # 0 PROVE (maxlen - 1) % (SIZE_MAX + 1) = maxlen - 1
        OBVIOUS
      <4> DEFINE z == SIZE_MAX + 1
                 y == maxlen - 1
      <4>1. z \in Nat \ {0} /\ y \in 0 .. z - 1
        BY <1>2
      <4> HIDE DEF z, y
      <4>2. y % z = y
        BY <4>1
      <4> QED
        BY <4>2 DEF z, y
    <3> HIDE DEF from
    <3> QED
      BY <1>2, <3>1, <3>2, <3>3
  <2>4. Len(<<NUL>>) = 1 /\ <<NUL>>[1] = NUL
    OBVIOUS
  <2> HIDE DEF from, l
  <2>5. k \in C /\ l \in Nat
    BY <1>2, <1>4, <2>1 DEF l
  <2>6. buffer'[k] = IF k \in from .. from + Len(<<NUL>>) - 1 THEN <<NUL>>[k - from + 1] ELSE buffer[k]
    BY <2>1, <2>5
  <2>7. CASE k = from
    <3>1. k \in from .. from + Len(<<NUL>>) - 1 /\ k - from + 1 = 1
      BY <2>3, <2>4, <2>7
    <3>2. buffer'[k] = NUL
      BY <2>4, <2>6, <3>1
    <3>3. ~(k < l /\ k < maxlen - 1)
      <4>1. from < maxlen \/ from \in {j \in 0 .. l - 1 : j < maxlen}
        BY <2>2, <2>5, <2>7
      <4> QED
        BY <1>2, <2>3, <2>5, <2>7, <4>1
    <3> QED
      BY <3>2, <3>3 DEF l
  <2>8. CASE k # from
    <3>1. k \in {j \in 0 .. l - 1 : j < maxlen}
      BY <2>2, <2>3, <2>4, <2>5, <2>8
    <3>2. k \notin from .. from + Len(<<NUL>>) - 1
      BY <2>3, <2>4, <2>8, <3>1
    <3>3. buffer'[k] = t[k + 1]
      BY <2>2, <2>6, <3>1, <3>2
    <3>4. k < l /\ k < maxlen - 1
      BY <1>2, <2>3, <2>5, <2>8, <3>1
    <3> QED
      BY <3>3, <3>4 DEF l
  <2> QED
    BY <2>7, <2>8
<1> QED
  BY <1>1, <1>2, <1>3, <1>4 DEF HasEnded

-----------------------------------------------------------------------------
(* The parser, a step at a time.                                           *)

Follows(c, m) == \E k \in 0 .. Len(c.means) : Going(c, k)'

\* The parser moves within a directive and puts nothing out.
LEMMA Kept ==
    ASSUME NEW c, NEW m \in 0 .. Len(c.means), Going(c, m), UNCHANGED <<target, output>>,
           pc # "done", pc' # "done", Reading(c, m)'
    PROVE  Going(c, m)'
<1>1. device' = device /\ maxlen' = maxlen /\ idx' = idx /\ buffer' = buffer /\ sent' = sent
  BY DEF target, output
<1>2. ~Deviates(c) => HasPutOut(Upto(Texts(c), m))
  BY DEF Going
<1>3. HasPutOut(Upto(Texts(c), m)) => HasPutOut(Upto(Texts(c), m))'
  BY <1>1 DEF HasPutOut
<1> QED
  BY <1>2, <1>3 DEF Going

LEMMA InitGoing == ASSUME Init, NEW c \in Calls, call = c PROVE Going(c, 0)
<1>1. Written(c, 0) = 0 /\ Taken(c, 0) = 0 /\ Len(c.means) \in Nat /\ (~Deviates(c) => Upto(Texts(c), 0) = <<>>)
  BY WholeCall
<1>2. Reading(c, 0)
  BY <1>1 DEF Init, Reading
<1>3. HasPutOut(<<>>)
  BY DEF Init, HasPutOut
<1> QED
  BY <1>1, <1>2, <1>3 DEF Going, Init

LEMMA EnterGoing ==
    ASSUME IInv, NEW c \in Calls, call = c, NEW m \in 0 .. Len(c.means), Going(c, m), Enter
    PROVE  Going(c, m)'
<1>1. pc = "call" /\ pc' = "scan" /\ call' = call /\ at' = at /\ arg' = arg /\ idx' = idx /\ buffer' = buffer
      /\ sent' = sent
  BY DEF Enter, output
<1>2. Reading(c, m) /\ m = 0 /\ sent = <<>> /\ idx = 0
  BY <1>1 DEF Going, Reading, IInv, BufferOK
<1>3. Reading(c, m)'
  BY <1>1, <1>2 DEF Reading
<1>4. DOMAIN buffer = {}
  BY <1>1 DEF IInv, BufferOK
<1>5. WithoutNul(<<>>) = <<>>
  <2>1. <<>> \in Text
    BY DEF Text
  <2> QED
    BY <2>1, NulsDropped
<1>6. HasPutOut(<<>>)'
  BY <1>1, <1>2, <1>4, <1>5 DEF HasPutOut
<1>7. ~Deviates(c) => Upto(Texts(c), 0) = <<>>
  BY WholeCall
<1> QED
  BY <1>1, <1>2, <1>3, <1>6, <1>7 DEF Going

\* The characters of x are those of the format behind its first i ones.
StandsAt(x, from) == \A j \in 1 .. Len(x) : FormatChar(from + j) = x[j]

\* What the parser sees of a directive behind the first i characters.
Sees(d, from) ==
    /\ StandsAt(FlagText(d.flags), from + 1)
    /\ StandsAt(WidthText(d), from + AfterFlags(d))
    /\ StandsAt(PrecisionText(d), from + AfterWidth(d))
    /\ StandsAt(d.length, from + AfterPrecision(d))
    /\ FormatChar(from + AfterLength(d) + 1) = Specifier(d)
    /\ FormatChar(from + AfterPrecision(d) + 1) \in LengthChars \union SpecifierChars
    /\ d.precision = NONE => FormatChar(from + AfterWidth(d) + 1) \in LengthChars \union SpecifierChars
    /\ d.precision # NONE => FormatChar(from + AfterWidth(d) + 1) = "."
    /\ ~d.star /\ d.width = NONE =>
          FormatChar(from + AfterFlags(d) + 1) \in {"."} \union LengthChars \union SpecifierChars
    /\ d.star => FormatChar(from + AfterFlags(d) + 1) = "*"

PlacesOf(d) ==
    /\ AfterFlags(d) \in Nat /\ AfterWidth(d) \in Nat /\ AfterPrecision(d) \in Nat
    /\ AfterLength(d) \in Nat /\ AfterFlags(d) >= 1 /\ AfterFlags(d) <= AfterWidth(d)
    /\ AfterWidth(d) <= AfterPrecision(d) /\ AfterPrecision(d) <= AfterLength(d)

LEMMA StandsWithin ==
    ASSUME NEW t, NEW l \in Nat, NEW s \in Nat, \A j \in 1 .. l : FormatChar(s + j) = t[j],
           NEW from \in Nat, NEW x, Len(x) \in Nat, from + Len(x) <= l,
           \A j \in 1 .. Len(x) : t[from + j] = x[j]
    PROVE  StandsAt(x, s + from)
<1> SUFFICES ASSUME NEW j \in 1 .. Len(x) PROVE FormatChar(s + from + j) = x[j]
  BY DEF StandsAt
<1>1. from + j \in 1 .. l /\ s + (from + j) = s + from + j
  OBVIOUS
<1>2. FormatChar(s + (from + j)) = t[from + j] /\ t[from + j] = x[j]
  BY <1>1
<1> QED
  BY <1>1, <1>2

LEMMA PartsStand ==
    ASSUME NEW d, WellFormed(d), Percented(d), NEW s \in Nat, NEW t, t = FormatOf(d), StandsAt(t, s)
    PROVE  /\ PlacesOf(d) /\ Len(t) = AfterLength(d) + 1
           /\ StandsAt(FlagText(d.flags), s + 1)
           /\ StandsAt(WidthText(d), s + AfterFlags(d))
           /\ StandsAt(PrecisionText(d), s + AfterWidth(d))
           /\ StandsAt(d.length, s + AfterPrecision(d))
<1>1. /\ Len(t) = AfterLength(d) + 1
      /\ AfterFlags(d) \in Nat /\ AfterWidth(d) \in Nat /\ AfterPrecision(d) \in Nat
      /\ AfterLength(d) \in Nat /\ AfterFlags(d) >= 1 /\ AfterFlags(d) <= AfterWidth(d)
      /\ AfterWidth(d) <= AfterPrecision(d) /\ AfterPrecision(d) <= AfterLength(d)
  BY FormatParts
<1>2. /\ \A j \in 1 .. Len(FlagText(d.flags)) : t[1 + j] = FlagText(d.flags)[j]
      /\ \A j \in 1 .. Len(WidthText(d)) : t[AfterFlags(d) + j] = WidthText(d)[j]
      /\ \A j \in 1 .. Len(PrecisionText(d)) : t[AfterWidth(d) + j] = PrecisionText(d)[j]
      /\ \A j \in 1 .. Len(d.length) : t[AfterPrecision(d) + j] = d.length[j]
  BY FormatParts, SMTT(30)
<1> DEFINE tf == FlagText(d.flags)
           tw == WidthText(d)
           tp == PrecisionText(d)
           tl == d.length
           amount  == AfterLength(d) + 1
<1>3. Len(tf) \in Nat /\ Len(tw) \in Nat /\ Len(tp) \in Nat /\ Len(tl) \in Nat
  BY PartsAreText DEF Text
<1>4. /\ AfterFlags(d) = 1 + Len(tf) /\ AfterWidth(d) = AfterFlags(d) + Len(tw)
      /\ AfterPrecision(d) = AfterWidth(d) + Len(tp) /\ AfterLength(d) = AfterPrecision(d) + Len(tl)
  BY DEF AfterFlags, AfterWidth, AfterPrecision, AfterLength
<1>5. \A j \in 1 .. Len(tf) : t[1 + j] = tf[j]
  BY <1>2
<1>5w. \A j \in 1 .. Len(tw) : t[AfterFlags(d) + j] = tw[j]
  BY <1>2
<1>5p. \A j \in 1 .. Len(tp) : t[AfterWidth(d) + j] = tp[j]
  BY <1>2
<1>5l. \A j \in 1 .. Len(tl) : t[AfterPrecision(d) + j] = tl[j]
  BY <1>2
<1> HIDE DEF tf, tw, tp, tl
<1>6. amount \in Nat
  BY <1>1
<1>7. \A j \in 1 .. amount : FormatChar(s + j) = t[j]
  BY <1>1 DEF StandsAt
<1> HIDE DEF amount
<1>8. 1 \in Nat /\ 1 + Len(tf) <= amount
  BY <1>1, <1>4 DEF amount
<1>9. AfterFlags(d) \in Nat /\ AfterFlags(d) + Len(tw) <= amount
  BY <1>1, <1>4 DEF amount
<1>10. AfterWidth(d) \in Nat /\ AfterWidth(d) + Len(tp) <= amount
  BY <1>1, <1>4 DEF amount
<1>11. AfterPrecision(d) \in Nat /\ AfterPrecision(d) + Len(tl) <= amount
  BY <1>1, <1>4 DEF amount
<1>12. StandsAt(tf, s + 1)
  BY <1>3, <1>5, <1>6, <1>7, <1>8, StandsWithin
<1>13. StandsAt(tw, s + AfterFlags(d))
  BY <1>3, <1>5w, <1>6, <1>7, <1>9, StandsWithin
<1>14. StandsAt(tp, s + AfterWidth(d))
  BY <1>3, <1>5p, <1>6, <1>7, <1>10, StandsWithin
<1>15. StandsAt(tl, s + AfterPrecision(d))
  BY <1>3, <1>5l, <1>6, <1>7, <1>11, StandsWithin
<1> QED
  BY <1>1, <1>12, <1>13, <1>14, <1>15 DEF tf, tw, tp, tl, PlacesOf

LEMMA DirectiveStands ==
    ASSUME NEW d, WellFormed(d), Percented(d), NEW s \in Nat, NEW t, t = FormatOf(d), StandsAt(t, s)
    PROVE  /\ PlacesOf(d) /\ Len(t) = AfterLength(d) + 1
           /\ Sees(d, s)
<1>1. /\ PlacesOf(d) /\ Len(t) = AfterLength(d) + 1
      /\ StandsAt(FlagText(d.flags), s + 1)
      /\ StandsAt(WidthText(d), s + AfterFlags(d))
      /\ StandsAt(PrecisionText(d), s + AfterWidth(d))
      /\ StandsAt(d.length, s + AfterPrecision(d))
  BY PartsStand
<1>2. t[AfterLength(d) + 1] = Specifier(d)
  BY FormatParts
<1>3. /\ t[AfterPrecision(d) + 1] \in LengthChars \union SpecifierChars
      /\ d.precision = NONE => t[AfterWidth(d) + 1] \in LengthChars \union SpecifierChars
      /\ d.precision # NONE => t[AfterWidth(d) + 1] = "."
      /\ ~d.star /\ d.width = NONE => t[AfterFlags(d) + 1] \in {"."} \union LengthChars \union SpecifierChars
      /\ d.star => t[AfterFlags(d) + 1] = "*"
  BY Behind
<1>4. ASSUME NEW from \in Nat, from <= AfterLength(d) PROVE FormatChar(s + from + 1) = t[from + 1]
  <2>1. AfterLength(d) \in Nat /\ Len(t) = AfterLength(d) + 1
    BY <1>1 DEF PlacesOf
  <2>2. from + 1 \in 1 .. Len(t) /\ s + (from + 1) = s + from + 1
    BY <1>4, <2>1
  <2>3. FormatChar(s + (from + 1)) = t[from + 1]
    BY <2>2 DEF StandsAt
  <2> QED
    BY <2>2, <2>3
<1>5. /\ AfterFlags(d) \in Nat /\ AfterWidth(d) \in Nat /\ AfterPrecision(d) \in Nat /\ AfterLength(d) \in Nat
      /\ AfterFlags(d) <= AfterLength(d) /\ AfterWidth(d) <= AfterLength(d)
      /\ AfterPrecision(d) <= AfterLength(d) /\ AfterLength(d) <= AfterLength(d)
  BY <1>1 DEF PlacesOf
<1>6. /\ FormatChar(s + AfterLength(d) + 1) = t[AfterLength(d) + 1]
      /\ FormatChar(s + AfterPrecision(d) + 1) = t[AfterPrecision(d) + 1]
      /\ FormatChar(s + AfterWidth(d) + 1) = t[AfterWidth(d) + 1]
      /\ FormatChar(s + AfterFlags(d) + 1) = t[AfterFlags(d) + 1]
  BY <1>4, <1>5
<1>7. /\ FormatChar(s + AfterLength(d) + 1) = Specifier(d)
      /\ FormatChar(s + AfterPrecision(d) + 1) \in LengthChars \union SpecifierChars
      /\ d.precision = NONE => FormatChar(s + AfterWidth(d) + 1) \in LengthChars \union SpecifierChars
      /\ d.precision # NONE => FormatChar(s + AfterWidth(d) + 1) = "."
      /\ ~d.star /\ d.width = NONE =>
            FormatChar(s + AfterFlags(d) + 1) \in {"."} \union LengthChars \union SpecifierChars
      /\ d.star => FormatChar(s + AfterFlags(d) + 1) = "*"
  BY <1>2, <1>3, <1>6
<1> QED
  BY <1>1, <1>7 DEF Sees

LEMMA Seen ==
    ASSUME NEW c \in Calls, call = c, NEW m \in Nat, m < Len(c.means),
           NEW d, d = c.means[m + 1], Percented(d), NEW s, s = Written(c, m)
    PROVE  /\ s \in Nat /\ WellFormed(d) /\ Len(call.format) \in Nat /\ PlacesOf(d) /\ Sees(d, s)
           /\ Written(c, m + 1) = s + AfterLength(d) + 1 /\ Written(c, m + 1) <= Len(call.format)
<1> DEFINE t == FormatOf(d)
<1>1. /\ WellFormed(d) /\ s \in Nat /\ Written(c, m + 1) = s + Len(t)
      /\ Written(c, m + 1) <= Len(c.format) /\ Len(c.format) \in Nat
  BY Along
<1>2. StandsAt(t, s)
  BY CharacterAt DEF StandsAt
<1>3. PlacesOf(d) /\ Len(t) = AfterLength(d) + 1 /\ Sees(d, s)
  <2>1. t = FormatOf(d)
    OBVIOUS
  <2> HIDE DEF t
  <2> QED
    BY <1>1, <1>2, <2>1, DirectiveStands
<1> HIDE DEF t
<1>4. Written(c, m + 1) = s + AfterLength(d) + 1
  BY <1>1, <1>3 DEF PlacesOf
<1> QED
  BY <1>1, <1>3, <1>4

\* The first character of what is still to be read.
LEMMA ScanAt ==
    ASSUME NEW c \in Calls, call = c, NEW m \in 0 .. Len(c.means), Reading(c, m), pc = "scan"
    PROVE  /\ m = Len(c.means) => Current = NUL
           /\ m # Len(c.means) =>
                /\ m \in Nat /\ m < Len(c.means)
                /\ Percented(c.means[m + 1]) => Current = "%"
                /\ ~Percented(c.means[m + 1]) =>
                      /\ Current \notin {NUL, "%"}
                      /\ TextOf(c.means[m + 1]) = <<Current>>
                      /\ Len(FormatOf(c.means[m + 1])) = 1 /\ Len(ArgsOf(c.means[m + 1])) = 0
<1>1. at = Written(c, m) + 1 /\ Len(c.means) \in Nat /\ Len(c.format) \in Nat
  BY WholeCall, PrintfAssumption DEF Reading
<1>2. CASE m = Len(c.means)
  <2>1. at = Len(c.format) + 1
    BY <1>1, <1>2, WholeCall
  <2> QED
    BY <1>1, <1>2, <2>1 DEF Current, FormatChar
<1>3. CASE m # Len(c.means)
  <2> DEFINE d == c.means[m + 1]
             t == FormatOf(d)
  <2>1. m \in Nat /\ m < Len(c.means)
    BY <1>1, <1>3
  <2>2. WellFormed(d) /\ Len(t) \in Nat
    BY <2>1, Along
  <2>3. Len(t) >= 1 => Current = t[1]
    <3> SUFFICES ASSUME Len(t) >= 1 PROVE Current = t[1]
      OBVIOUS
    <3>1. 1 \in 1 .. Len(t)
      BY <2>2
    <3>2. FormatChar(Written(c, m) + 1) = t[1]
      BY <2>1, <3>1, CharacterAt
    <3> QED
      BY <1>1, <3>2 DEF Current
  <2>4. CASE Percented(d)
    <3>1. t[1] = "%" /\ Len(t) = AfterLength(d) + 1 /\ AfterLength(d) \in Nat
      BY <2>2, <2>4, FormatParts
    <3>2. Current = "%"
      BY <2>3, <3>1
    <3> QED
      BY <1>3, <2>1, <2>4, <3>2
  <2>5. CASE ~Percented(d)
    <3>1. d.conv = "plain" /\ d.value # "%"
      BY <2>5 DEF Percented
    <3>2. d.value \in STRING \ {NUL}
      BY <2>2, <3>1 DEF WellFormed, SignedChars, UnsignedChars
    <3>3. t = <<d.value>> /\ Len(<<d.value>>) = 1 /\ <<d.value>>[1] = d.value
      BY <3>1 DEF FormatOf
    <3>4. Current = d.value
      BY <2>3, <3>3
    <3>5. TextOf(d) = <<d.value>>
      BY <3>1 DEF TextOf
    <3>6. Len(ArgsOf(d)) = 0
      BY <2>2, <3>1, ArgsAre
    <3> QED
      BY <1>3, <2>1, <2>5, <3>1, <3>2, <3>3, <3>4, <3>5, <3>6
  <2> QED
    BY <2>4, <2>5
<1> QED
  BY <1>2, <1>3

\* A directive is put out and the next one is looked at.
LEMMA PutOut ==
    ASSUME IInv, NEW c \in Calls, call = c, NEW m \in Nat, m < Len(c.means), Going(c, m),
           pc \notin {"call", "done"}, UNCHANGED target, NEW s, OutOn(s),
           ~KnownDeviation(c.means[m + 1]) => s = TextOf(c.means[m + 1]),
           pc' = "scan", at' = Written(c, m + 1) + 1, arg' = Taken(c, m + 1)
    PROVE  Follows(c, m)
<1>1. m + 1 \in 0 .. Len(c.means)
  BY WholeCall
<1>2. Reading(c, m + 1)'
  BY DEF Reading
<1>3. ASSUME ~Deviates(c) PROVE HasPutOut(Upto(Texts(c), m + 1))'
  <2> DEFINE t == Upto(Texts(c), m)
  <2>1. /\ t \in Text /\ TextOf(c.means[m + 1]) \in Text /\ ~KnownDeviation(c.means[m + 1])
        /\ Upto(Texts(c), m + 1) = t \o TextOf(c.means[m + 1])
    BY <1>3, TextAlong
  <2>2. s \in Text /\ Upto(Texts(c), m + 1) = t \o s
    BY <2>1
  <2>3. HasPutOut(t)
    BY <1>3 DEF Going
  <2>4. maxlen \in Nat
    BY WordTypes DEF IInv, TypeOK
  <2>5. HasPutOut(t \o s)'
    BY <2>1, <2>2, <2>3, <2>4, PutOutMore
  <2> QED
    BY <2>2, <2>5
<1>4. Going(c, m + 1)'
  BY <1>2, <1>3 DEF Going
<1> QED
  BY <1>1, <1>4 DEF Follows

LEMMA LiteralGoing ==
    ASSUME IInv, NEW c \in Calls, call = c, NEW m \in 0 .. Len(c.means), Going(c, m), Literal
    PROVE  Follows(c, m)
<1>1. pc = "scan" /\ Current \notin {NUL, "%"} /\ OutOn(<<Current>>) /\ at' = at + 1 /\ UNCHANGED target
      /\ pc' = "scan" /\ arg' = arg
  BY DEF Literal
<1>2. Reading(c, m)
  BY DEF Going
<1>3. m \in Nat /\ m < Len(c.means) /\ ~Percented(c.means[m + 1])
  BY <1>1, <1>2, ScanAt
<1>4. /\ TextOf(c.means[m + 1]) = <<Current>>
      /\ Len(FormatOf(c.means[m + 1])) = 1 /\ Len(ArgsOf(c.means[m + 1])) = 0
  BY <1>1, <1>2, <1>3, ScanAt
<1>5. at = Written(c, m) + 1 /\ arg = Taken(c, m)
  BY <1>1, <1>2 DEF Reading
<1>6. Written(c, m + 1) = Written(c, m) + 1 /\ Taken(c, m + 1) = Taken(c, m)
  <2> DEFINE d == c.means[m + 1]
  <2>1. /\ Written(c, m) \in Nat /\ Written(c, m + 1) = Written(c, m) + Len(FormatOf(d))
        /\ Taken(c, m) \in Nat /\ Taken(c, m + 1) = Taken(c, m) + Len(ArgsOf(d))
    BY <1>3, Along
  <2> QED
    BY <1>4, <2>1
<1> QED
  BY <1>1, <1>3, <1>4, <1>5, <1>6, PutOut

LEMMA PercentGoing ==
    ASSUME IInv, NEW c \in Calls, call = c, NEW m \in 0 .. Len(c.means), Going(c, m), Percent
    PROVE  Going(c, m)'
<1>1. pc = "scan" /\ Current = "%" /\ at' = at + 1 /\ UNCHANGED <<target, output>> /\ arg' = arg
      /\ flags' = {} /\ width' = 0 /\ precision' = 0 /\ pc' = "flags"
  BY DEF Percent
<1>2. Reading(c, m)
  BY DEF Going
<1>3. m \in Nat /\ m < Len(c.means) /\ Percented(c.means[m + 1])
  <2>1. "%" # NUL
    BY DEF NUL
  <2>2. m # Len(c.means)
    BY <1>1, <1>2, <2>1, ScanAt
  <2> QED
    BY <1>1, <1>2, <2>2, ScanAt
<1> DEFINE d == c.means[m + 1]
           f == FlagText(d.flags)
<1>4. at = Written(c, m) + 1 /\ arg = Taken(c, m) /\ Written(c, m) \in Nat /\ WellFormed(d)
  BY <1>1, <1>2, <1>3, Along DEF Reading
<1>5. at' = Written(c, m) + 2 + 0 /\ 0 \in 0 .. Len(f)
  <2>1. Len(f) \in Nat
    BY <1>4, PartsAreText DEF Text
  <2> QED
    BY <1>1, <1>4, <2>1
<1>6. flags' = {FlagOf(f[j]) : j \in 1 .. 0}
  BY <1>1
<1>7. Reading(c, m)'
  BY <1>1, <1>3, <1>4, <1>5, <1>6 DEF Reading
<1> QED
  BY <1>1, <1>7, Kept

\* The flag the parser looks at, if it does.
LEMMA FlagAt ==
    ASSUME NEW c \in Calls, call = c, NEW m \in Nat, m < Len(c.means), Percented(c.means[m + 1]),
           NEW f, f = FlagText(c.means[m + 1].flags), NEW k \in 0 .. Len(f), at = Written(c, m) + 2 + k
    PROVE  /\ k < Len(f) => Current = f[k + 1] /\ Current \in FlagChars
           /\ k = Len(f) => Current \notin FlagChars /\ at = Written(c, m) + 1 + AfterFlags(c.means[m + 1])
<1> DEFINE d == c.means[m + 1]
           s == Written(c, m)
<1>1. /\ WellFormed(d) /\ s \in Nat /\ AfterFlags(d) \in Nat /\ AfterFlags(d) >= 1
      /\ \A j \in 1 .. Len(FlagText(d.flags)) : FormatChar((s + 1) + j) = FlagText(d.flags)[j]
      /\ \A j \in 1 .. Len(WidthText(d)) : FormatChar((s + AfterFlags(d)) + j) = WidthText(d)[j]
      /\ ~d.star /\ d.width = NONE =>
            FormatChar(s + AfterFlags(d) + 1) \in {"."} \union LengthChars \union SpecifierChars
      /\ d.star => FormatChar(s + AfterFlags(d) + 1) = "*"
  <2>1. d = c.means[m + 1] /\ Percented(d) /\ s = Written(c, m)
    OBVIOUS
  <2> HIDE DEF d, s
  <2>2. WellFormed(d) /\ s \in Nat /\ PlacesOf(d) /\ Sees(d, s)
    BY <2>1, Seen
  <2> QED
    BY <2>2 DEF PlacesOf, Sees, StandsAt
<1>2. f \in Text /\ Len(f) \in Nat /\ ElementsOf(f) = d.flags /\ d.flags \subseteq FlagChars
  <2>1. d.flags \in SUBSET FlagChars
    BY <1>1 DEF WellFormed
  <2> QED
    BY <2>1, FlagTextIs
<1>3. AfterFlags(d) = 1 + Len(f) /\ f = FlagText(d.flags)
  BY DEF AfterFlags
<1> HIDE DEF d, s
<1>4. at = s + 2 + k
  BY DEF s
<1>5. CASE k < Len(f)
  <2>1. k + 1 \in 1 .. Len(f) /\ s + 1 + (k + 1) = at
    <3>1. s \in Nat /\ Len(f) \in Nat
      BY <1>1, <1>2
    <3> QED
      BY <1>4, <1>5, <3>1
  <2>2. Current = f[k + 1]
    BY <1>1, <1>3, <2>1 DEF Current
  <2>3. f[k + 1] \in FlagChars
    BY <1>2, <2>1 DEF ElementsOf
  <2> QED
    BY <1>5, <2>2, <2>3
<1>6. CASE k = Len(f)
  <2>1. at = s + AfterFlags(d) + 1 /\ at = s + 1 + AfterFlags(d)
    BY <1>1, <1>2, <1>3, <1>4, <1>6
  <2>2. Current \notin FlagChars
    <3>1. CASE d.star
      <4>1. Current = "*"
        BY <1>1, <2>1, <3>1 DEF Current
      <4> QED
        BY <4>1, Apart
    <3>2. CASE ~d.star /\ d.width = NONE
      <4>1. Current \in {"."} \union LengthChars \union SpecifierChars
        BY <1>1, <2>1, <3>2 DEF Current
      <4> QED
        BY <4>1, Apart
    <3>3. CASE ~d.star /\ d.width # NONE
      <4> DEFINE w == WidthText(d)
      <4>1. w = Decimal(d.width) /\ d.width \in Nat /\ d.width > 0
        BY <1>1, <3>3, PartsAreText
      <4>2. Len(w) >= 1 /\ Len(w) \in Nat /\ w[1] # "0" /\ _is_digit(w[1])
        <5>1. /\ Len(Decimal(d.width)) = DigitCount(d.width, 10)
              /\ DigitCount(d.width, 10) \in Nat /\ DigitCount(d.width, 10) >= 1
              /\ \A j \in 1 .. Len(Decimal(d.width)) : _is_digit(Decimal(d.width)[j])
              /\ Decimal(d.width)[1] # "0"
          BY <4>1, DecimalIs
        <5>2. 1 \in 1 .. Len(Decimal(d.width))
          BY <5>1
        <5> QED
          BY <4>1, <5>1, <5>2
      <4>3. Current = w[1]
        <5>1. 1 \in 1 .. Len(w)
          BY <4>2
        <5> QED
          BY <1>1, <2>1, <5>1 DEF Current
      <4>4. \A x \in FlagChars : _is_digit(x) => x = "0"
        <5>1. ASSUME NEW x \in FlagChars, x # "0" PROVE ~_is_digit(x)
          <6>1. x = "-" \/ x = "+" \/ x = " " \/ x = "#"
            BY <5>1 DEF FlagChars
          <6>2. ASSUME NEW j \in 1 .. 10
                PROVE  Numerals[j] \in {"0", "1", "2", "3", "4", "5", "6", "7", "8", "9"}
            <7>1. j = 1 \/ j = 2 \/ j = 3 \/ j = 4 \/ j = 5 \/ j = 6 \/ j = 7 \/ j = 8 \/ j = 9 \/ j = 10
              OBVIOUS
            <7> QED
              BY <7>1, NumeralsListed
          <6>3. x \notin {"0", "1", "2", "3", "4", "5", "6", "7", "8", "9"}
            BY <6>1
          <6> QED
            BY <6>2, <6>3 DEF _is_digit
        <5> QED
          BY <5>1
      <4> QED
        BY <4>2, <4>3, <4>4
    <3> QED
      BY <3>1, <3>2, <3>3
  <2> QED
    BY <1>2, <1>6, <2>1, <2>2 DEF s, d
<1> QED
  BY <1>5, <1>6

LEMMA FlagGoing ==
    ASSUME IInv, NEW c \in Calls, call = c, NEW m \in 0 .. Len(c.means), Going(c, m), Flag
    PROVE  Going(c, m)'
<1>1. pc = "flags" /\ Current \in FlagChars /\ flags' = flags \union {FlagOf(Current)} /\ at' = at + 1
      /\ UNCHANGED <<target, output>> /\ pc' = pc /\ arg' = arg /\ width' = width /\ precision' = precision
  BY DEF Flag
<1> DEFINE d == c.means[m + 1]
           f == FlagText(d.flags)
<1>2. Reading(c, m) /\ m < Len(c.means) /\ m \in Nat /\ Percented(d) /\ arg = Taken(c, m) /\ width = 0 /\ precision = 0
  BY <1>1 DEF Going, Reading
<1>3. PICK k \in 0 .. Len(f) : at = Written(c, m) + 2 + k /\ flags = {FlagOf(f[j]) : j \in 1 .. k}
  BY <1>1, <1>2 DEF Reading
<1>4. WellFormed(d) /\ Written(c, m) \in Nat /\ Len(f) \in Nat
  <2>1. WellFormed(d) /\ Written(c, m) \in Nat
    BY <1>2, Along
  <2> QED
    BY <2>1, PartsAreText DEF Text
<1>5. (k = Len(f) => Current \notin FlagChars) /\ (k < Len(f) => Current = f[k + 1])
  BY <1>2, <1>3, FlagAt
<1>6. k < Len(f) /\ Current = f[k + 1]
  BY <1>1, <1>4, <1>5
<1>7. k + 1 \in 0 .. Len(f) /\ at' = Written(c, m) + 2 + (k + 1)
  <2> DEFINE s == Written(c, m)
  <2>1. s \in Nat /\ Len(f) \in Nat /\ at = s + 2 + k /\ at' = at + 1 /\ k < Len(f)
    BY <1>1, <1>3, <1>4, <1>6
  <2> HIDE DEF f, s
  <2>2. k + 1 \in 0 .. Len(f) /\ at' = s + 2 + (k + 1)
    BY <2>1
  <2> QED
    BY <2>2 DEF s
<1>8. flags' = {FlagOf(f[j]) : j \in 1 .. k + 1}
  <2>1. 1 .. k + 1 = (1 .. k) \union {k + 1}
    BY <1>4
  <2> HIDE DEF f
  <2> QED
    BY <1>1, <1>3, <1>6, <2>1
<1>9. Reading(c, m)'
  BY <1>1, <1>2, <1>7, <1>8 DEF Reading
<1> QED
  BY <1>1, <1>9, Kept

LEMMA NoFlagGoing ==
    ASSUME IInv, NEW c \in Calls, call = c, NEW m \in 0 .. Len(c.means), Going(c, m), NoFlag
    PROVE  Going(c, m)'
<1>1. pc = "flags" /\ Current \notin FlagChars /\ UNCHANGED <<target, output>> /\ pc' = "width"
      /\ at' = at /\ arg' = arg /\ flags' = flags /\ width' = width /\ precision' = precision
  BY DEF NoFlag, spec
<1> DEFINE d == c.means[m + 1]
           f == FlagText(d.flags)
<1>2. Reading(c, m) /\ m < Len(c.means) /\ m \in Nat /\ Percented(d) /\ arg = Taken(c, m) /\ width = 0 /\ precision = 0
  BY <1>1 DEF Going, Reading
<1>3. PICK k \in 0 .. Len(f) : at = Written(c, m) + 2 + k /\ flags = {FlagOf(f[j]) : j \in 1 .. k}
  BY <1>1, <1>2 DEF Reading
<1>4. WellFormed(d) /\ Len(f) \in Nat /\ ElementsOf(f) = d.flags
  <2>1. WellFormed(d)
    BY <1>2, Along
  <2>2. d.flags \in SUBSET FlagChars
    BY <2>1 DEF WellFormed
  <2> QED
    BY <2>1, <2>2, FlagTextIs
<1>5. k < Len(f) => Current \in FlagChars
  BY <1>2, <1>3, FlagAt
<1>6. k = Len(f)
  BY <1>1, <1>4, <1>5
<1>7. at = Written(c, m) + 1 + AfterFlags(d)
  BY <1>2, <1>3, <1>6, FlagAt
<1>8. flags = FlagsRead(d)
  <2>1. flags = {FlagOf(f[j]) : j \in 1 .. Len(f)} /\ d.flags = {f[j] : j \in 1 .. Len(f)}
    BY <1>3, <1>4, <1>6 DEF ElementsOf
  <2> HIDE DEF f
  <2> QED
    BY <2>1 DEF FlagsRead
<1>9. Reading(c, m)'
  BY <1>1, <1>2, <1>7, <1>8 DEF Reading
<1> QED
  BY <1>1, <1>9, Kept

LEMMA TerminateGoing ==
    ASSUME IInv, NEW c \in Calls, call = c, NEW m \in 0 .. Len(c.means), Going(c, m), Terminate
    PROVE  Going(c, m)'
<1>1. pc = "scan" /\ Current = NUL /\ pc' = "done" /\ at' = at /\ arg' = arg
  BY DEF Terminate
<1>2. Reading(c, m)
  BY DEF Going
<1>3. m = Len(c.means)
  <2>1. "%" # NUL
    BY DEF NUL
  <2> QED
    BY <1>1, <1>2, <2>1, ScanAt
<1>4. Reading(c, m)'
  BY <1>1, <1>2, <1>3 DEF Reading
<1>5. ASSUME ~Deviates(c) PROVE HasEnded(Upto(Texts(c), m))'
  <2> DEFINE t == Upto(Texts(c), m)
  <2>1. t \in Text
    <3>1. Texts(c) \in Seq(Seq(Chars)) /\ m \in 0 .. Len(Texts(c))
      BY <1>5, CallIs
    <3> QED
      BY <3>1, UptoIs DEF Text
  <2>2. HasPutOut(t)
    BY <1>1, <1>5 DEF Going
  <2>3. maxlen \in 0 .. SIZE_MAX
    BY DEF IInv, TypeOK
  <2> QED
    BY <2>1, <2>2, <2>3, EndPutOut
<1> QED
  BY <1>1, <1>4, <1>5 DEF Going

\* A number that stands in the format is read as it is meant.
LEMMA NumberStands ==
    ASSUME call \in Calls, NEW from \in Nat, NEW amount \in Nat, amount > 0, amount < INT, NEW t, t = Decimal(amount),
           StandsAt(t, from), from + Len(t) <= Len(call.format), ~_is_digit(FormatChar(from + Len(t) + 1))
    PROVE  /\ NumberEnd(from + 1) = from + 1 + Len(t) /\ _atoi(from + 1) = amount
           /\ _is_digit(FormatChar(from + 1)) /\ FormatChar(from + 1) # "0"
<1> DEFINE l == Len(t)
           b == from + 1
<1>1. l \in Nat /\ Len(call.format) \in Nat
  <2>1. Len(Decimal(amount)) = DigitCount(amount, 10) /\ DigitCount(amount, 10) \in Nat
    BY DecimalIs
  <2> QED
    BY <2>1, PrintfAssumption
<1>2. l = Len(Decimal(amount))
  OBVIOUS
<1>3. \A k \in 1 .. l : FormatChar(from + k) = Decimal(amount)[k]
  BY DEF StandsAt
<1> HIDE DEF l
<1>4. b \in 1 .. Len(call.format) + 1 /\ b + l <= Len(call.format) + 1 /\ b + l = from + l + 1
  BY <1>1 DEF l
<1>5. ASSUME NEW k \in 1 .. l PROVE FormatChar(b + k - 1) = Decimal(amount)[k]
  <2>1. b + k - 1 = from + k
    BY <1>1
  <2> QED
    BY <1>3, <2>1
<1>6. ~_is_digit(FormatChar(b + l))
  BY <1>4 DEF l
<1> HIDE DEF b
<1>7. NumberEnd(b) = b + l /\ _atoi(b) = amount /\ _is_digit(FormatChar(b)) /\ FormatChar(b) # "0"
  BY <1>2, <1>4, <1>5, <1>6, NumberRead
<1> QED
  BY <1>7 DEF b, l

LEMMA NegatedIs ==
    ASSUME NEW amount \in Int, NEW m \in Nat \ {0}, amount <= 0, -amount < m
    PROVE  Negated(amount, m) = -amount
<1>1. (0 - amount) % m = 0 - amount
  OBVIOUS
<1> QED
  BY <1>1 DEF Negated

-----------------------------------------------------------------------------
(* The width. *)

LEMMA WidthIs ==
    ASSUME NEW d, WellFormed(d)
    PROVE  /\ d.star => /\ AfterWidth(d) = AfterFlags(d) + 1 /\ WidthArgs(d) = 1
                        /\ FieldWidth(d) = IF d.width < 0 THEN -d.width ELSE d.width
                        /\ WidthRead(d) = IF d.width < 0 THEN FlagsRead(d) \union {"left"} ELSE FlagsRead(d)
                        /\ d.width \in Ints
           /\ ~d.star /\ d.width = NONE =>
                 AfterWidth(d) = AfterFlags(d) /\ WidthArgs(d) = 0 /\ FieldWidth(d) = 0 /\ WidthRead(d) = FlagsRead(d)
           /\ ~d.star /\ d.width # NONE =>
                 /\ AfterWidth(d) = AfterFlags(d) + Len(WidthText(d)) /\ WidthArgs(d) = 0
                 /\ FieldWidth(d) = d.width /\ WidthRead(d) = FlagsRead(d)
                 /\ WidthText(d) = Decimal(d.width) /\ d.width \in Nat /\ d.width > 0 /\ d.width < INT
<1>1. AfterWidth(d) = AfterFlags(d) + Len(WidthText(d)) /\ d.width \in Ints
  BY DEF AfterWidth, WellFormed
<1>2. AfterFlags(d) \in Nat
  <2>1. FlagText(d.flags) \in Text
    BY PartsAreText
  <2> QED
    BY <2>1 DEF AfterFlags, Text
<1>3. CASE d.star
  <2>1. WidthText(d) = <<"*">> /\ Len(<<"*">>) = 1
    BY <1>3 DEF WidthText
  <2>2. AfterWidth(d) = AfterFlags(d) + 1
    BY <1>1, <2>1
  <2>3. FieldWidth(d) = IF d.width < 0 THEN -d.width ELSE d.width
    <3>1. ~(d.width < 0) => d.width # NONE
      BY <1>1 DEF NONE, Ints
    <3> QED
      BY <1>3, <3>1 DEF FieldWidth
  <2>4. WidthRead(d) = IF d.width < 0 THEN FlagsRead(d) \union {"left"} ELSE FlagsRead(d)
    BY <1>3 DEF WidthRead
  <2>5. WidthArgs(d) = 1
    BY <1>3 DEF WidthArgs
  <2> QED
    BY <1>1, <1>3, <2>2, <2>3, <2>4, <2>5
<1>4. CASE ~d.star
  <2>1. WidthRead(d) = FlagsRead(d) /\ WidthArgs(d) = 0
    BY <1>4 DEF WidthRead, WidthArgs
  <2>2. CASE d.width = NONE
    <3>1. WidthText(d) = <<>> /\ Len(<<>>) = 0 /\ FieldWidth(d) = 0
      BY <1>4, <2>2 DEF WidthText, FieldWidth
    <3>2. AfterWidth(d) = AfterFlags(d)
      BY <1>1, <1>2, <3>1
    <3> QED
      BY <1>4, <2>1, <2>2, <3>1, <3>2
  <2>3. CASE d.width # NONE
    <3>1. WidthText(d) = Decimal(d.width) /\ d.width \in Nat /\ d.width > 0 /\ d.width < INT
      BY <1>4, <2>3, PartsAreText
    <3>2. FieldWidth(d) = d.width
      BY <1>4, <2>3 DEF FieldWidth
    <3> QED
      BY <1>1, <1>4, <2>1, <2>3, <3>1, <3>2
  <2> QED
    BY <2>2, <2>3
<1> QED
  BY <1>3, <1>4

LEMMA WidthAt ==
    ASSUME NEW c \in Calls, call = c, NEW m \in 0 .. Len(c.means), Reading(c, m), pc = "width",
           NEW d, d = c.means[m + 1]
    PROVE  /\ d.star => /\ Current = "*" /\ arg < Len(call.args) /\ Arg = d.width
                        /\ at + 1 = Written(c, m) + 1 + AfterWidth(d)
           /\ ~d.star /\ d.width = NONE => ~_is_digit(Current) /\ Current # "*"
           /\ ~d.star /\ d.width # NONE =>
                 /\ _is_digit(Current) /\ _atoi(at) = d.width
                 /\ NumberEnd(at) = Written(c, m) + 1 + AfterWidth(d)
<1> DEFINE s == Written(c, m)
<1>1. m < Len(c.means) /\ m \in Nat /\ Percented(d) /\ at = s + 1 + AfterFlags(d) /\ arg = Taken(c, m)
  BY DEF Reading
<1>2. s \in Nat /\ WellFormed(d) /\ Len(call.format) \in Nat /\ PlacesOf(d) /\ Sees(d, s)
      /\ Written(c, m + 1) = s + AfterLength(d) + 1 /\ Written(c, m + 1) <= Len(call.format)
  BY <1>1, Seen
<1> HIDE DEF s
<1>3. at = s + AfterFlags(d) + 1 /\ AfterFlags(d) \in Nat
  BY <1>1, <1>2 DEF PlacesOf
<1>4. CASE d.star
  <2>1. Current = "*"
    BY <1>2, <1>3, <1>4 DEF Sees, Current
  <2>2. at + 1 = s + 1 + AfterWidth(d)
    <3>1. AfterWidth(d) = AfterFlags(d) + 1
      BY <1>2, <1>4, WidthIs
    <3> QED
      BY <1>2, <1>3, <3>1
  <2>3. arg < Len(call.args) /\ Arg = d.width
    <3> DEFINE u == ArgsOf(d)
    <3>1. /\ Taken(c, m) \in Nat /\ Len(ArgsOf(d)) \in Nat
          /\ Taken(c, m + 1) = Taken(c, m) + Len(ArgsOf(d))
          /\ Taken(c, m + 1) <= Len(c.args) /\ Len(c.args) \in Nat
      BY <1>1, Along
    <3>2. Len(u) >= 1 /\ u[1] = d.width
      BY <1>2, <1>4, ArgsAre
    <3>3. 1 \in 1 .. Len(u)
      BY <3>1, <3>2
    <3>4. c.args[Taken(c, m) + 1] = u[1]
      BY <1>1, <3>3, ArgumentAt
    <3> QED
      BY <1>1, <3>1, <3>2, <3>4 DEF Arg
  <2> QED
    BY <1>4, <2>1, <2>2, <2>3 DEF s
<1>5. CASE ~d.star /\ d.width = NONE
  <2>1. Current \in {"."} \union LengthChars \union SpecifierChars
    BY <1>2, <1>3, <1>5 DEF Sees, Current
  <2> QED
    BY <1>5, <2>1, Apart
<1>6. CASE ~d.star /\ d.width # NONE
  <2> DEFINE w == WidthText(d)
             from == s + AfterFlags(d)
  <2>1. /\ AfterWidth(d) = AfterFlags(d) + Len(w) /\ w = Decimal(d.width)
        /\ d.width \in Nat /\ d.width > 0 /\ d.width < INT
    BY <1>2, <1>6, WidthIs
  <2>2. StandsAt(w, from)
    BY <1>2 DEF Sees
  <2>3. Len(w) \in Nat
    BY <1>2, PartsAreText DEF Text
  <2>4. from \in Nat /\ from + 1 = at /\ from + Len(w) <= Len(call.format) /\ from + Len(w) = s + AfterWidth(d)
    <3> DEFINE lw == Len(w)
               f  == AfterFlags(d)
               l  == AfterLength(d)
               amount  == Len(call.format)
    <3>1. /\ AfterWidth(d) = f + lw /\ f \in Nat /\ lw \in Nat /\ l \in Nat /\ f + lw <= l /\ s \in Nat
          /\ from = s + f /\ at = s + f + 1 /\ amount \in Nat /\ s + l + 1 <= amount
      BY <1>2, <1>3, <2>1, <2>3 DEF PlacesOf
    <3> HIDE DEF lw, f, l, amount, w, from
    <3>2. from \in Nat /\ from + 1 = at /\ from + lw <= amount /\ from + lw = s + AfterWidth(d)
      BY <3>1, SMTT(30)
    <3> QED
      BY <3>2 DEF lw, amount
  <2>5. ~_is_digit(FormatChar(from + Len(w) + 1))
    <3>1. FormatChar(s + AfterWidth(d) + 1) \in {"."} \union LengthChars \union SpecifierChars
      BY <1>2 DEF Sees
    <3>2. ~_is_digit(FormatChar(s + AfterWidth(d) + 1))
      BY <3>1, Apart
    <3> QED
      BY <2>4, <3>2
  <2> HIDE DEF from, w
  <2>6. NumberEnd(from + 1) = from + 1 + Len(w) /\ _atoi(from + 1) = d.width /\ _is_digit(FormatChar(from + 1))
    BY <2>1, <2>2, <2>4, <2>5, NumberStands
  <2>7. from + 1 + Len(w) = s + 1 + AfterWidth(d)
    <3> DEFINE lw == Len(w)
               aw == AfterWidth(d)
    <3>1. lw \in Nat /\ aw \in Nat /\ s \in Nat /\ from \in Nat /\ from + lw = s + aw
      BY <1>2, <2>3, <2>4 DEF PlacesOf
    <3> HIDE DEF lw, aw
    <3>2. from + 1 + lw = s + 1 + aw
      BY <3>1
    <3> QED
      BY <3>2 DEF lw, aw
  <2> QED
    BY <1>6, <2>4, <2>6, <2>7 DEF Current, s
<1> QED
  BY <1>4, <1>5, <1>6

LEMMA ReachPrecision ==
    ASSUME NEW c \in Calls, call = c, NEW m \in 0 .. Len(c.means), Going(c, m), pc = "width",
           UNCHANGED <<target, output>>, pc' = "precision", precision' = precision,
           NEW d, d = c.means[m + 1],
           at' = Written(c, m) + 1 + AfterWidth(d), arg' = arg + WidthArgs(d),
           flags' = WidthRead(d), width' = FieldWidth(d)
    PROVE  Going(c, m)'
<1>1. Reading(c, m) /\ m < Len(c.means) /\ m \in Nat /\ Percented(d) /\ arg = Taken(c, m) /\ precision = 0
  BY DEF Going, Reading
<1>2. Reading(c, m)'
  BY <1>1 DEF Reading
<1> QED
  BY <1>2, Kept

LEMMA WidthGoing ==
    ASSUME IInv, NEW c \in Calls, call = c, NEW m \in 0 .. Len(c.means), Going(c, m),
           WidthDigits \/ WidthArgument \/ NoWidth
    PROVE  Going(c, m)'
<1> DEFINE d == c.means[m + 1]
           s == Written(c, m)
<1>1. pc = "width" /\ UNCHANGED <<target, output>> /\ pc' = "precision" /\ precision' = precision
  BY DEF WidthDigits, WidthArgument, NoWidth, spec
<1>2. /\ Reading(c, m) /\ at = s + 1 + AfterFlags(d) /\ flags = FlagsRead(d) /\ width = 0
      /\ m \in Nat /\ m < Len(c.means) /\ Percented(d)
  BY <1>1 DEF Going, Reading
<1>3. WellFormed(d) /\ d = c.means[m + 1] /\ s = Written(c, m) /\ arg \in Nat /\ s \in Nat
  <2>1. WellFormed(d) /\ Written(c, m) \in Nat
    BY <1>2, Along
  <2>2. arg \in Nat
    BY <1>1, <1>2, Along DEF Reading
  <2> QED
    BY <2>1, <2>2
<1> HIDE DEF d, s
<1>4. CASE d.star
  <2>1. Current = "*" /\ Arg = d.width /\ at + 1 = s + 1 + AfterWidth(d) /\ ~_is_digit(Current)
    <3>1. Current = "*" /\ Arg = d.width /\ at + 1 = s + 1 + AfterWidth(d)
      BY <1>1, <1>2, <1>3, <1>4, WidthAt
    <3> QED
      BY <3>1, Apart
  <2>2. WidthArgument
    BY <2>1 DEF WidthDigits, NoWidth
  <2>3. /\ WidthArgs(d) = 1 /\ FieldWidth(d) = (IF d.width < 0 THEN -d.width ELSE d.width)
        /\ WidthRead(d) = (IF d.width < 0 THEN FlagsRead(d) \union {"left"} ELSE FlagsRead(d))
        /\ d.width \in Ints
    BY <1>3, <1>4, WidthIs
  <2>4. ASSUME d.width < 0 PROVE Negated(d.width, INT) = -d.width
    <3>1. d.width \in Int /\ 0 - INT <= 2 * d.width /\ INT \in Nat \ {0}
      BY <2>3, WordTypes DEF Ints
    <3>2. d.width <= 0 /\ -d.width < INT
      BY <2>4, <3>1
    <3> QED
      BY <3>1, <3>2, NegatedIs
  <2>5. width' = FieldWidth(d)
    BY <2>1, <2>2, <2>3, <2>4 DEF WidthArgument
  <2>6. flags' = WidthRead(d) /\ at' = s + 1 + AfterWidth(d) /\ arg' = arg + WidthArgs(d)
    BY <1>2, <2>1, <2>2, <2>3 DEF WidthArgument
  <2> QED
    BY <1>1, <1>3, <2>5, <2>6, ReachPrecision
<1>5. CASE ~d.star /\ d.width = NONE
  <2>1. ~_is_digit(Current) /\ Current # "*"
    BY <1>1, <1>2, <1>3, <1>5, WidthAt
  <2>2. NoWidth
    BY <2>1 DEF WidthDigits, WidthArgument
  <2>3. at' = at /\ arg' = arg /\ flags' = flags /\ width' = width
    BY <2>2 DEF NoWidth, spec
  <2>4. AfterWidth(d) = AfterFlags(d) /\ WidthArgs(d) = 0 /\ FieldWidth(d) = 0 /\ WidthRead(d) = FlagsRead(d)
    BY <1>3, <1>5, WidthIs
  <2>5. at' = s + 1 + AfterWidth(d) /\ arg' = arg + WidthArgs(d) /\ flags' = WidthRead(d) /\ width' = FieldWidth(d)
    BY <1>2, <1>3, <2>3, <2>4
  <2> QED
    BY <1>1, <1>3, <2>5, ReachPrecision
<1>6. CASE ~d.star /\ d.width # NONE
  <2>1. _is_digit(Current) /\ _atoi(at) = d.width /\ NumberEnd(at) = s + 1 + AfterWidth(d)
    BY <1>1, <1>2, <1>3, <1>6, WidthAt
  <2>2. Current # "*"
    BY <2>1, Apart
  <2>3. WidthDigits
    BY <2>1, <2>2 DEF WidthArgument, NoWidth
  <2>4. at' = NumberEnd(at) /\ arg' = arg /\ flags' = flags /\ width' = _atoi(at)
    BY <2>3 DEF WidthDigits
  <2>5. WidthArgs(d) = 0 /\ FieldWidth(d) = d.width /\ WidthRead(d) = FlagsRead(d)
    BY <1>3, <1>6, WidthIs
  <2>6. at' = s + 1 + AfterWidth(d) /\ arg' = arg + WidthArgs(d) /\ flags' = WidthRead(d) /\ width' = FieldWidth(d)
    BY <1>2, <1>3, <2>1, <2>4, <2>5
  <2> QED
    BY <1>1, <1>3, <2>6, ReachPrecision
<1> QED
  BY <1>4, <1>5, <1>6

-----------------------------------------------------------------------------
(* The precision. *)

LEMMA PrecisionTextIs ==
    ASSUME NEW d, WellFormed(d)
    PROVE  /\ d.precision = NONE =>
                 /\ AfterPrecision(d) = AfterWidth(d) /\ PrecisionArgs(d) = WidthArgs(d) /\ PrecisionIs(d) = 0
                 /\ PrecisionRead(d) = WidthRead(d)
           /\ d.precision # NONE => PrecisionRead(d) = WidthRead(d) \union {"precision"}
           /\ d.precision # NONE /\ d.star =>
                 /\ PrecisionText(d) = <<".", "*">>
                 /\ AfterPrecision(d) = AfterWidth(d) + 2 /\ PrecisionArgs(d) = WidthArgs(d) + 1
           /\ d.precision = 0 /\ ~d.star =>
                 /\ AfterPrecision(d) = AfterWidth(d) + 1 /\ PrecisionArgs(d) = WidthArgs(d) /\ PrecisionIs(d) = 0
           /\ d.precision \notin {NONE, 0} /\ ~d.star =>
                 /\ d.precision \in Nat /\ d.precision > 0 /\ d.precision < INT
                 /\ PrecisionText(d) = <<".">> \o Decimal(d.precision)
                 /\ AfterPrecision(d) = AfterWidth(d) + 1 + Len(Decimal(d.precision))
                 /\ PrecisionArgs(d) = WidthArgs(d) /\ PrecisionIs(d) = d.precision
           /\ d.precision \in Ints
<1>1. AfterPrecision(d) = AfterWidth(d) + Len(PrecisionText(d)) /\ d.precision \in Ints
  BY DEF AfterPrecision, WellFormed
<1>2. AfterWidth(d) \in Nat /\ WidthArgs(d) \in Nat
  <2>1. /\ FlagText(d.flags) \in Text /\ WidthText(d) \in Text
    BY PartsAreText
  <2> QED
    BY <2>1 DEF AfterFlags, AfterWidth, WidthArgs, Text
<1>3. CASE d.precision = NONE
  <2>1. PrecisionText(d) = <<>> /\ Len(<<>>) = 0 /\ PrecisionRead(d) = WidthRead(d)
    <3>1. d.precision # 0
      BY <1>3 DEF NONE
    <3>2. PrecisionText(d) = <<>>
      BY <1>3, <3>1 DEF PrecisionText
    <3> QED
      BY <1>3, <3>2 DEF PrecisionRead
  <2>2. PrecisionArgs(d) = WidthArgs(d) + 0 /\ PrecisionIs(d) = 0
    BY <1>3 DEF PrecisionArgs, PrecisionIs, NONE
  <2>3. d.precision # 0 /\ NONE # 0
    BY <1>3 DEF NONE
  <2>4. AfterPrecision(d) = AfterWidth(d)
    BY <1>1, <1>2, <2>1
  <2> QED
    BY <1>1, <1>2, <1>3, <2>1, <2>2, <2>3, <2>4
<1>4. CASE d.precision # NONE
  <2>1. PrecisionRead(d) = WidthRead(d) \union {"precision"}
    BY <1>4 DEF PrecisionRead
  <2>2. CASE d.star
    <3>1. PrecisionText(d) = <<".", "*">> /\ Len(<<".", "*">>) = 2
      BY <1>4, <2>2 DEF PrecisionText
    <3>2. PrecisionArgs(d) = WidthArgs(d) + 1
      BY <1>4, <2>2 DEF PrecisionArgs
    <3>3. AfterPrecision(d) = AfterWidth(d) + 2
      BY <1>1, <3>1
    <3> QED
      BY <1>1, <1>4, <2>1, <2>2, <3>1, <3>2, <3>3
  <2>3. CASE ~d.star
    <3>1. PrecisionArgs(d) = WidthArgs(d)
      BY <1>2, <2>3 DEF PrecisionArgs
    <3>2. CASE d.precision = 0
      <4>1. PrecisionText(d) = <<".">> /\ Len(<<".">>) = 1
        BY <1>4, <2>3, <3>2 DEF PrecisionText
      <4>2. PrecisionIs(d) = 0 /\ AfterPrecision(d) = AfterWidth(d) + 1
        BY <1>1, <3>2, <4>1 DEF PrecisionIs
      <4> QED
        BY <1>1, <1>4, <2>1, <2>3, <3>1, <3>2, <4>2
    <3>3. CASE d.precision # 0
      <4> DEFINE x == Decimal(d.precision)
      <4>1. /\ d.precision \in Nat /\ d.precision > 0 /\ d.precision < INT
            /\ PrecisionText(d) = <<".">> \o x
        BY <1>4, <2>3, <3>3, PartsAreText
      <4>2. x \in Text
        BY <4>1, DecimalIs
      <4>3. "." \in Chars
        BY Characters
      <4>4. <<".">> \in Text /\ Len(<<".">>) = 1
        BY <4>3, ShortTexts
      <4>5. Len(<<".">> \o x) = 1 + Len(x) /\ Len(x) \in Nat
        BY <4>2, <4>4, Joined
      <4>6. PrecisionIs(d) = d.precision
        BY <4>1 DEF PrecisionIs
      <4> HIDE DEF x
      <4>7. AfterPrecision(d) = AfterWidth(d) + 1 + Len(x)
        BY <1>1, <1>2, <4>1, <4>5
      <4> QED
        BY <1>1, <1>4, <2>1, <2>3, <3>1, <3>3, <4>1, <4>6, <4>7 DEF x
    <3> QED
      BY <3>2, <3>3
  <2> QED
    BY <2>2, <2>3
<1> QED
  BY <1>3, <1>4

LEMMA PrecisionAt ==
    ASSUME NEW c \in Calls, call = c, NEW m \in 0 .. Len(c.means), Reading(c, m), pc = "precision",
           NEW d, d = c.means[m + 1]
    PROVE  /\ d.precision = NONE => Current # "."
           /\ d.precision # NONE => Current = "."
           /\ d.precision # NONE /\ d.star =>
                 /\ FormatChar(at + 1) = "*" /\ arg < Len(call.args) /\ Arg = d.precision
                 /\ at + 2 = Written(c, m) + 1 + AfterPrecision(d)
           /\ d.precision = 0 /\ ~d.star =>
                 /\ ~_is_digit(FormatChar(at + 1)) /\ FormatChar(at + 1) # "*"
                 /\ at + 1 = Written(c, m) + 1 + AfterPrecision(d)
           /\ d.precision \notin {NONE, 0} /\ ~d.star =>
                 /\ _is_digit(FormatChar(at + 1)) /\ _atoi(at + 1) = d.precision
                 /\ NumberEnd(at + 1) = Written(c, m) + 1 + AfterPrecision(d)
<1> DEFINE s == Written(c, m)
<1>1. /\ m < Len(c.means) /\ m \in Nat /\ Percented(d) /\ at = s + 1 + AfterWidth(d)
      /\ arg = Taken(c, m) + WidthArgs(d)
  BY DEF Reading
<1>2. s \in Nat /\ WellFormed(d) /\ Len(call.format) \in Nat /\ PlacesOf(d) /\ Sees(d, s)
      /\ Written(c, m + 1) = s + AfterLength(d) + 1 /\ Written(c, m + 1) <= Len(call.format)
  BY <1>1, Seen
<1> HIDE DEF s
<1>3. at = s + AfterWidth(d) + 1 /\ AfterWidth(d) \in Nat
  BY <1>1, <1>2 DEF PlacesOf
<1>4. CASE d.precision = NONE
  <2>1. Current \in LengthChars \union SpecifierChars /\ 0 # NONE
    BY <1>2, <1>3, <1>4 DEF Sees, Current, NONE
  <2> QED
    BY <1>4, <2>1, Apart
<1>5. CASE d.precision # NONE /\ d.star
  <2>1. Current = "."
    BY <1>2, <1>3, <1>5 DEF Sees, Current
  <2>2. PrecisionText(d) = <<".", "*">> /\ AfterPrecision(d) = AfterWidth(d) + 2
    BY <1>2, <1>5, PrecisionTextIs
  <2>3. FormatChar(at + 1) = "*"
    <3>1. Len(<<".", "*">>) = 2 /\ <<".", "*">>[2] = "*" /\ 2 \in 1 .. 2
      OBVIOUS
    <3>2. StandsAt(<<".", "*">>, s + AfterWidth(d))
      BY <1>2, <2>2 DEF Sees
    <3>3. FormatChar((s + AfterWidth(d)) + 2) = "*"
      BY <3>1, <3>2 DEF StandsAt
    <3>4. (s + AfterWidth(d)) + 2 = at + 1
      BY <1>2, <1>3
    <3> QED
      BY <3>3, <3>4
  <2>4. at + 2 = s + 1 + AfterPrecision(d)
    BY <1>2, <1>3, <2>2
  <2>5. arg < Len(call.args) /\ Arg = d.precision
    <3> DEFINE u == ArgsOf(d)
    <3>1. /\ Taken(c, m) \in Nat /\ Len(ArgsOf(d)) \in Nat
          /\ Taken(c, m + 1) = Taken(c, m) + Len(ArgsOf(d))
          /\ Taken(c, m + 1) <= Len(c.args) /\ Len(c.args) \in Nat
      BY <1>1, Along
    <3>2. Len(u) >= 2 /\ u[2] = d.precision /\ WidthArgs(d) = 1
      BY <1>2, <1>5, ArgsAre
    <3>3. 2 \in 1 .. Len(u)
      BY <3>1, <3>2
    <3>4. c.args[Taken(c, m) + 2] = u[2]
      BY <1>1, <3>3, ArgumentAt
    <3>5. arg + 1 = Taken(c, m) + 2 /\ arg < Len(c.args)
      BY <1>1, <3>1, <3>2
    <3> QED
      BY <3>2, <3>4, <3>5 DEF Arg
  <2> QED
    BY <1>5, <2>1, <2>3, <2>4, <2>5 DEF s
<1>6. CASE d.precision = 0 /\ ~d.star
  <2>1. Current = "." /\ d.precision # NONE
    BY <1>2, <1>3, <1>6 DEF Sees, Current, NONE
  <2>2. AfterPrecision(d) = AfterWidth(d) + 1
    BY <1>2, <1>6, PrecisionTextIs
  <2>3. at + 1 = s + AfterPrecision(d) + 1 /\ at + 1 = s + 1 + AfterPrecision(d)
    BY <1>2, <1>3, <2>2
  <2>4. FormatChar(at + 1) \in LengthChars \union SpecifierChars
    BY <1>2, <2>3 DEF Sees
  <2> QED
    BY <1>6, <2>1, <2>3, <2>4, Apart DEF s
<1>7. CASE d.precision \notin {NONE, 0} /\ ~d.star
  <2> DEFINE x == Decimal(d.precision)
             from == s + AfterWidth(d) + 1
  <2>1. Current = "."
    BY <1>2, <1>3, <1>7 DEF Sees, Current
  <2>2. /\ d.precision \in Nat /\ d.precision > 0 /\ d.precision < INT
        /\ PrecisionText(d) = <<".">> \o x /\ AfterPrecision(d) = AfterWidth(d) + 1 + Len(x)
    BY <1>2, <1>7, PrecisionTextIs
  <2>3. x \in Text /\ Len(x) \in Nat
    BY <2>2, DecimalIs DEF Text
  <2>4. <<".">> \in Text /\ Len(<<".">>) = 1
    BY Characters, ShortTexts
  <2> HIDE DEF x, from
  <2>5. StandsAt(x, from)
    <3> SUFFICES ASSUME NEW j \in 1 .. Len(x) PROVE FormatChar(from + j) = x[j]
      BY DEF StandsAt
    <3> DEFINE y == <<".">> \o x
    <3>1. Len(y) = 1 + Len(x) /\ y[1 + j] = x[j]
      BY <2>3, <2>4, Joined, Placed
    <3>2. StandsAt(y, s + AfterWidth(d))
      BY <1>2, <2>2 DEF Sees
    <3> HIDE DEF y
    <3>3. 1 + j \in 1 .. Len(y) /\ (s + AfterWidth(d)) + (1 + j) = from + j
      <4> DEFINE a == AfterWidth(d)
                 l == Len(x)
                 k == Len(y)
      <4>1. a \in Nat /\ l \in Nat /\ s \in Nat /\ k = 1 + l /\ from = s + a + 1 /\ j \in 1 .. l
        BY <1>2, <1>3, <2>3, <3>1 DEF from
      <4> HIDE DEF a, l, k
      <4>2. 1 + j \in 1 .. k
        BY <4>1
      <4>3. (s + a) + (1 + j) = from + j
        BY <4>1
      <4> QED
        BY <4>2, <4>3 DEF a, k
    <3>4. FormatChar((s + AfterWidth(d)) + (1 + j)) = y[1 + j]
      BY <3>2, <3>3 DEF StandsAt
    <3> QED
      BY <3>1, <3>3, <3>4
  <2>6. from \in Nat /\ at = from /\ from + Len(x) <= Len(call.format) /\ from + Len(x) = s + AfterPrecision(d)
        /\ from + 1 + Len(x) = s + 1 + AfterPrecision(d)
    <3> DEFINE l == Len(x)
               a == AfterWidth(d)
               b == AfterPrecision(d)
               e == AfterLength(d)
               amount == Len(call.format)
    <3>1. /\ a \in Nat /\ l \in Nat /\ e \in Nat /\ b = a + 1 + l /\ b <= e /\ s \in Nat
          /\ from = s + a + 1 /\ at = s + a + 1 /\ amount \in Nat /\ s + e + 1 <= amount
      BY <1>2, <1>3, <2>2, <2>3 DEF PlacesOf, from
    <3> HIDE DEF l, a, b, e, amount, from
    <3>2. from \in Nat /\ at = from
      BY <3>1
    <3>3. from + l = s + b /\ from + 1 + l = s + 1 + b /\ b \in Nat
      <4>1. a \in Nat /\ l \in Nat /\ s \in Nat /\ b = a + 1 + l /\ from = s + a + 1
        BY <3>1
      <4>2. b \in Nat /\ from + l = s + b
        BY <4>1
      <4> QED
        BY <4>1, <4>2
    <3>4. s + b <= amount
      BY <3>1, <3>3
    <3>5. from + l <= amount
      BY <3>3, <3>4
    <3> QED
      BY <3>2, <3>3, <3>5 DEF l, b, amount
  <2>7. ~_is_digit(FormatChar(from + Len(x) + 1))
    <3>1. FormatChar(s + AfterPrecision(d) + 1) \in LengthChars \union SpecifierChars
      BY <1>2 DEF Sees
    <3>2. ~_is_digit(FormatChar(s + AfterPrecision(d) + 1))
      BY <3>1, Apart
    <3> QED
      BY <2>6, <3>2
  <2>8. NumberEnd(from + 1) = from + 1 + Len(x) /\ _atoi(from + 1) = d.precision /\ _is_digit(FormatChar(from + 1))
    <3>1. x = Decimal(d.precision)
      BY DEF x
    <3> QED
      BY <2>2, <2>5, <2>6, <2>7, <3>1, NumberStands
  <2> QED
    BY <1>7, <2>1, <2>6, <2>8 DEF s
<1> QED
  BY <1>4, <1>5, <1>6, <1>7

LEMMA ReachLength ==
    ASSUME NEW c \in Calls, call = c, NEW m \in 0 .. Len(c.means), Going(c, m), pc = "precision",
           UNCHANGED <<target, output>>, pc' = "length", width' = width,
           NEW d, d = c.means[m + 1],
           at' = Written(c, m) + 1 + AfterPrecision(d), arg' = Taken(c, m) + PrecisionArgs(d),
           flags' = PrecisionRead(d), precision' = PrecisionIs(d)
    PROVE  Going(c, m)'
<1>1. Reading(c, m) /\ m < Len(c.means) /\ m \in Nat /\ Percented(d) /\ width = FieldWidth(d)
  BY DEF Going, Reading
<1>2. Reading(c, m)'
  BY <1>1 DEF Reading
<1> QED
  BY <1>2, Kept

LEMMA PrecisionGoing ==
    ASSUME IInv, NEW c \in Calls, call = c, NEW m \in 0 .. Len(c.means), Going(c, m),
           Precision \/ NoPrecision
    PROVE  Going(c, m)'
<1> DEFINE d == c.means[m + 1]
           s == Written(c, m)
<1>1. pc = "precision" /\ UNCHANGED <<target, output>> /\ pc' = "length" /\ width' = width
  BY DEF Precision, NoPrecision, spec
<1>2. /\ Reading(c, m) /\ at = s + 1 + AfterWidth(d) /\ flags = WidthRead(d) /\ precision = 0
      /\ m \in Nat /\ m < Len(c.means) /\ Percented(d) /\ arg = Taken(c, m) + WidthArgs(d)
  BY <1>1 DEF Going, Reading
<1>3. WellFormed(d) /\ d = c.means[m + 1] /\ s = Written(c, m) /\ Taken(c, m) \in Nat /\ WidthArgs(d) \in Nat
  <2>1. WellFormed(d) /\ Taken(c, m) \in Nat
    BY <1>2, Along
  <2> QED
    BY <2>1 DEF WidthArgs
<1> HIDE DEF d, s
<1>4. CASE d.precision = NONE
  <2>1. Current # "."
    BY <1>1, <1>2, <1>3, <1>4, PrecisionAt
  <2>2. NoPrecision
    BY <2>1 DEF Precision
  <2>3. at' = at /\ arg' = arg /\ flags' = flags /\ precision' = precision
    BY <2>2 DEF NoPrecision, spec
  <2>4. /\ AfterPrecision(d) = AfterWidth(d) /\ PrecisionArgs(d) = WidthArgs(d) /\ PrecisionIs(d) = 0
        /\ PrecisionRead(d) = WidthRead(d)
    BY <1>3, <1>4, PrecisionTextIs
  <2>5. /\ at' = s + 1 + AfterPrecision(d) /\ arg' = Taken(c, m) + PrecisionArgs(d)
        /\ flags' = PrecisionRead(d) /\ precision' = PrecisionIs(d)
    BY <1>2, <2>3, <2>4
  <2> QED
    BY <1>1, <1>3, <2>5, ReachLength
<1>5. CASE d.precision # NONE
  <2>1. Current = "."
    BY <1>1, <1>2, <1>3, <1>5, PrecisionAt
  <2>2. Precision
    BY <2>1 DEF NoPrecision
  <2>3. flags' = PrecisionRead(d)
    BY <1>2, <1>3, <1>5, <2>2, PrecisionTextIs DEF Precision
  <2>4. CASE d.star
    <3>1. FormatChar(at + 1) = "*" /\ Arg = d.precision /\ at + 2 = s + 1 + AfterPrecision(d)
      BY <1>1, <1>2, <1>3, <1>5, <2>4, PrecisionAt
    <3>2. ~_is_digit(FormatChar(at + 1))
      BY <3>1, Apart
    <3>3. precision' = (IF Arg > 0 THEN Arg ELSE 0) /\ at' = at + 2 /\ arg' = arg + 1
      BY <2>2, <3>1, <3>2 DEF Precision
    <3>4. PrecisionArgs(d) = WidthArgs(d) + 1
      BY <1>3, <1>5, <2>4, PrecisionTextIs
    <3>5. precision' = PrecisionIs(d)
      BY <3>1, <3>3 DEF PrecisionIs
    <3>6. arg' = Taken(c, m) + PrecisionArgs(d)
      BY <1>2, <1>3, <3>3, <3>4
    <3>7. at' = s + 1 + AfterPrecision(d)
      BY <3>1, <3>3
    <3> QED
      BY <1>1, <1>3, <2>3, <3>5, <3>6, <3>7, ReachLength
  <2>5. CASE ~d.star /\ d.precision = 0
    <3>1. ~_is_digit(FormatChar(at + 1)) /\ FormatChar(at + 1) # "*" /\ at + 1 = s + 1 + AfterPrecision(d)
      BY <1>1, <1>2, <1>3, <2>5, PrecisionAt
    <3>2. precision' = precision /\ at' = at + 1 /\ arg' = arg
      BY <2>2, <3>1 DEF Precision
    <3>3. PrecisionArgs(d) = WidthArgs(d) /\ PrecisionIs(d) = 0
      BY <1>3, <2>5, PrecisionTextIs
    <3>4. precision' = PrecisionIs(d) /\ at' = s + 1 + AfterPrecision(d) /\ arg' = Taken(c, m) + PrecisionArgs(d)
      BY <1>2, <3>1, <3>2, <3>3
    <3> QED
      BY <1>1, <1>3, <2>3, <3>4, ReachLength
  <2>6. CASE ~d.star /\ d.precision # 0
    <3>1. /\ _is_digit(FormatChar(at + 1)) /\ _atoi(at + 1) = d.precision
          /\ NumberEnd(at + 1) = s + 1 + AfterPrecision(d)
      BY <1>1, <1>2, <1>3, <1>5, <2>6, PrecisionAt
    <3>2. FormatChar(at + 1) # "*"
      BY <3>1, Apart
    <3>3. precision' = _atoi(at + 1) /\ at' = NumberEnd(at + 1) /\ arg' = arg
      BY <2>2, <3>1, <3>2 DEF Precision
    <3>4. PrecisionArgs(d) = WidthArgs(d) /\ PrecisionIs(d) = d.precision
      BY <1>3, <1>5, <2>6, PrecisionTextIs
    <3>5. precision' = PrecisionIs(d) /\ at' = s + 1 + AfterPrecision(d) /\ arg' = Taken(c, m) + PrecisionArgs(d)
      BY <1>2, <3>1, <3>3, <3>4
    <3> QED
      BY <1>1, <1>3, <2>3, <3>5, ReachLength
  <2> QED
    BY <2>4, <2>5, <2>6
<1> QED
  BY <1>4, <1>5

-----------------------------------------------------------------------------
(* The length modifier. *)

LEMMA LengthTextIs ==
    ASSUME NEW l \in Lengths
    PROVE  \/ l = <<>> /\ Len(l) = 0 /\ LengthFlags(l) = {}
           \/ l = <<"h">> /\ Len(l) = 1 /\ l[1] = "h" /\ LengthFlags(l) = {"short"}
           \/ l = <<"h", "h">> /\ Len(l) = 2 /\ l[1] = "h" /\ l[2] = "h" /\ LengthFlags(l) = {"short", "char"}
           \/ l = <<"l">> /\ Len(l) = 1 /\ l[1] = "l" /\ LengthFlags(l) = {"long"}
           \/ l = <<"l", "l">> /\ Len(l) = 2 /\ l[1] = "l" /\ l[2] = "l" /\ LengthFlags(l) = {"long", "long_long"}
           \/ Len(l) = 1 /\ l[1] \in {"t", "j", "z"} /\ LengthFlags(l) = {"long"}
<1>1. <<"h">> # <<>> /\ <<"h", "h">> # <<>> /\ <<"h">> # <<"h", "h">>
  OBVIOUS
<1>2. <<"l", "l">> \notin {<<>>, <<"h">>, <<"h", "h">>}
  OBVIOUS
<1>3. \A x \in {<<"l">>, <<"t">>, <<"j">>, <<"z">>} : x \notin {<<>>, <<"h">>, <<"h", "h">>, <<"l", "l">>}
  OBVIOUS
<1>4. /\ Len(<<>>) = 0 /\ Len(<<"h">>) = 1 /\ <<"h">>[1] = "h"
      /\ Len(<<"l">>) = 1 /\ <<"l">>[1] = "l" /\ Len(<<"t">>) = 1 /\ <<"t">>[1] = "t"
      /\ Len(<<"j">>) = 1 /\ <<"j">>[1] = "j" /\ Len(<<"z">>) = 1 /\ <<"z">>[1] = "z"
      /\ Len(<<"h", "h">>) = 2 /\ <<"h", "h">>[1] = "h" /\ <<"h", "h">>[2] = "h"
      /\ Len(<<"l", "l">>) = 2 /\ <<"l", "l">>[1] = "l" /\ <<"l", "l">>[2] = "l"
  BY Characters, ShortTexts
<1>5. CASE l = <<>>
  <2>1. LengthFlags(l) = {}
    BY <1>1, <1>5 DEF LengthFlags
  <2> QED
    BY <1>4, <1>5, <2>1
<1>6. CASE l = <<"h">>
  <2>1. LengthFlags(l) = {"short"}
    BY <1>1, <1>6 DEF LengthFlags
  <2> QED
    BY <1>4, <1>6, <2>1
<1>7. CASE l = <<"h", "h">>
  <2>1. LengthFlags(l) = {"short", "char"}
    BY <1>1, <1>7 DEF LengthFlags
  <2> QED
    BY <1>4, <1>7, <2>1
<1>8. CASE l = <<"l", "l">>
  <2>1. LengthFlags(l) = {"long", "long_long"}
    BY <1>2, <1>8 DEF LengthFlags
  <2> QED
    BY <1>4, <1>8, <2>1
<1>9. CASE l \in {<<"l">>, <<"t">>, <<"j">>, <<"z">>}
  <2>1. LengthFlags(l) = {"long"}
    BY <1>3, <1>9 DEF LengthFlags
  <2> QED
    BY <1>4, <1>9, <2>1
<1> QED
  BY <1>5, <1>6, <1>7, <1>8, <1>9 DEF Lengths

LEMMA LengthAt ==
    ASSUME NEW c \in Calls, call = c, NEW m \in 0 .. Len(c.means), Reading(c, m), pc = "length",
           NEW d, d = c.means[m + 1]
    PROVE  /\ LengthOf[1] = LengthFlags(d.length)
           /\ at + LengthOf[2] = Written(c, m) + 1 + AfterLength(d)
<1> DEFINE s == Written(c, m)
           l == d.length
           a == AfterPrecision(d)
<1>1. m < Len(c.means) /\ m \in Nat /\ Percented(d) /\ at = s + 1 + a
  BY DEF Reading
<1>2. s \in Nat /\ WellFormed(d) /\ PlacesOf(d) /\ Sees(d, s)
  BY <1>1, Seen
<1>3. /\ l \in Lengths /\ a \in Nat /\ StandsAt(l, s + a) /\ AfterLength(d) = a + Len(l)
      /\ FormatChar(s + AfterLength(d) + 1) = Specifier(d) /\ Specifier(d) \in SpecifierChars
  <2>1. Specifier(d) \in SpecifierChars
    BY <1>1, <1>2, SpecifierIs
  <2> QED
    BY <1>2, <2>1 DEF PlacesOf, Sees, AfterLength, WellFormed
<1> DEFINE e == Specifier(d)
           b == AfterLength(d)
<1>4. e \notin {"h", "l", "t", "j", "z"}
  BY <1>3, Apart DEF LengthChars
<1> HIDE DEF s, l, a, e, b
<1>5. at = (s + a) + 1 /\ at + 1 = (s + a) + 2 /\ s + a \in Nat
  BY <1>1, <1>2, <1>3
<1>6. Len(l) = 0 => Current = e
  <2> SUFFICES ASSUME Len(l) = 0 PROVE Current = e
    OBVIOUS
  <2>1. b = a + 0 /\ FormatChar(s + b + 1) = e
    BY <1>3 DEF e, b
  <2>2. s + b + 1 = at
    BY <1>2, <1>3, <1>5, <2>1
  <2> QED
    BY <2>1, <2>2 DEF Current
<1>7. Len(l) = 1 => Current = l[1] /\ FormatChar(at + 1) = e
  <2> SUFFICES ASSUME Len(l) = 1 PROVE Current = l[1] /\ FormatChar(at + 1) = e
    OBVIOUS
  <2>1. b = a + 1 /\ FormatChar(s + b + 1) = e
    BY <1>3 DEF e, b
  <2>2. s + b + 1 = at + 1
    BY <1>2, <1>3, <1>5, <2>1
  <2>3. FormatChar((s + a) + 1) = l[1]
    BY <1>3 DEF StandsAt
  <2> QED
    BY <1>5, <2>1, <2>2, <2>3 DEF Current
<1>8. Len(l) = 2 => Current = l[1] /\ FormatChar(at + 1) = l[2]
  <2> SUFFICES ASSUME Len(l) = 2 PROVE Current = l[1] /\ FormatChar(at + 1) = l[2]
    OBVIOUS
  <2>1. FormatChar((s + a) + 1) = l[1] /\ FormatChar((s + a) + 2) = l[2]
    BY <1>3 DEF StandsAt
  <2> QED
    BY <1>5, <2>1 DEF Current
<1>9. LengthOf = <<LengthFlags(l), Len(l)>>
  <2>1. l \in Lengths
    BY <1>3
  <2>2. CASE l = <<>> /\ Len(l) = 0 /\ LengthFlags(l) = {}
    <3>1. Current \notin {"h", "l", "t", "j", "z"}
      BY <1>4, <1>6, <2>2
    <3>2. LengthOf = <<{}, 0>>
      BY <3>1 DEF LengthOf
    <3> QED
      BY <2>2, <3>2
  <2>3. CASE l = <<"h">> /\ Len(l) = 1 /\ l[1] = "h" /\ LengthFlags(l) = {"short"}
    <3>1. Current = "h" /\ FormatChar(at + 1) # "h"
      BY <1>4, <1>7, <2>3
    <3>2. LengthOf = <<{"short"}, 1>>
      BY <3>1 DEF LengthOf
    <3> QED
      BY <2>3, <3>2
  <2>4. CASE l = <<"h", "h">> /\ Len(l) = 2 /\ l[1] = "h" /\ l[2] = "h" /\ LengthFlags(l) = {"short", "char"}
    <3>1. Current = "h" /\ FormatChar(at + 1) = "h"
      BY <1>8, <2>4
    <3>2. LengthOf = <<{"short", "char"}, 2>>
      BY <3>1 DEF LengthOf
    <3> QED
      BY <2>4, <3>2
  <2>5. CASE l = <<"l">> /\ Len(l) = 1 /\ l[1] = "l" /\ LengthFlags(l) = {"long"}
    <3>1. Current = "l" /\ FormatChar(at + 1) # "l"
      BY <1>4, <1>7, <2>5
    <3>2. LengthOf = <<{"long"}, 1>>
      BY <3>1 DEF LengthOf
    <3> QED
      BY <2>5, <3>2
  <2>6. CASE l = <<"l", "l">> /\ Len(l) = 2 /\ l[1] = "l" /\ l[2] = "l" /\ LengthFlags(l) = {"long", "long_long"}
    <3>1. Current = "l" /\ FormatChar(at + 1) = "l"
      BY <1>8, <2>6
    <3>2. LengthOf = <<{"long", "long_long"}, 2>>
      BY <3>1 DEF LengthOf
    <3> QED
      BY <2>6, <3>2
  <2>7. CASE Len(l) = 1 /\ l[1] \in {"t", "j", "z"} /\ LengthFlags(l) = {"long"}
    <3>1. Current \in {"t", "j", "z"}
      BY <1>7, <2>7
    <3>2. Current # "l" /\ Current # "h"
      BY <3>1
    <3>3. LengthOf = <<{"long"}, 1>>
      BY <3>1, <3>2 DEF LengthOf
    <3> QED
      BY <2>7, <3>3
  <2> QED
    BY <2>1, <2>2, <2>3, <2>4, <2>5, <2>6, <2>7, LengthTextIs
<1>10. LengthOf[1] = LengthFlags(l) /\ LengthOf[2] = Len(l)
  BY <1>9
<1>11. at + Len(l) = s + 1 + b
  <2>1. Len(l) \in Nat
    BY <1>3, LengthTextIs
  <2>2. b = a + Len(l)
    BY <1>3 DEF b
  <2> QED
    BY <1>1, <1>2, <1>3, <2>1, <2>2
<1> QED
  BY <1>10, <1>11 DEF s, l, b

LEMMA LengthGoing ==
    ASSUME IInv, NEW c \in Calls, call = c, NEW m \in 0 .. Len(c.means), Going(c, m), Length
    PROVE  Going(c, m)'
<1> DEFINE d == c.means[m + 1]
           s == Written(c, m)
<1>1. /\ pc = "length" /\ UNCHANGED <<target, output>> /\ pc' = "specifier" /\ width' = width
      /\ precision' = precision /\ arg' = arg
      /\ flags' = flags \union LengthOf[1] /\ at' = at + LengthOf[2]
  BY DEF Length
<1>2. /\ Reading(c, m) /\ flags = PrecisionRead(d) /\ precision = PrecisionIs(d)
      /\ width = FieldWidth(d) /\ m \in Nat /\ m < Len(c.means) /\ Percented(d)
      /\ arg = Taken(c, m) + PrecisionArgs(d)
  BY <1>1 DEF Going, Reading
<1>3. d = c.means[m + 1] /\ s = Written(c, m)
  OBVIOUS
<1> HIDE DEF d, s
<1>4. flags' = LengthRead(d) /\ at' = s + 1 + AfterLength(d)
  BY <1>1, <1>2, <1>3, LengthAt DEF LengthRead
<1>5. Reading(c, m)'
  BY <1>1, <1>2, <1>3, <1>4 DEF Reading
<1> QED
  BY <1>1, <1>5, Kept

-----------------------------------------------------------------------------
(* The specifiers.                                                         *)

LEMMA SpecifierAt ==
    ASSUME NEW c \in Calls, call = c, NEW m \in 0 .. Len(c.means), Reading(c, m), pc = "specifier",
           NEW d, d = c.means[m + 1]
    PROVE  /\ m \in Nat /\ m < Len(c.means) /\ WellFormed(d) /\ Percented(d)
           /\ Current = Specifier(d) /\ Current \in SpecifierChars
           /\ at + 1 = Written(c, m + 1) + 1
           /\ d.conv = "plain" => Current = "%" /\ d.value = "%" /\ arg = Taken(c, m + 1)
           /\ d.conv # "plain" => /\ Current = d.conv /\ arg < Len(call.args) /\ Arg = d.value
                                  /\ arg + 1 = Taken(c, m + 1)
           /\ flags = LengthRead(d) /\ width = FieldWidth(d) /\ precision = PrecisionIs(d)
<1> DEFINE s == Written(c, m)
           a == Taken(c, m)
           b == AfterLength(d)
           u == ArgsOf(d)
<1>1. /\ m < Len(c.means) /\ m \in Nat /\ Percented(d) /\ at = s + 1 + b /\ arg = a + PrecisionArgs(d)
      /\ flags = LengthRead(d) /\ width = FieldWidth(d) /\ precision = PrecisionIs(d)
  BY DEF Reading
<1>2. /\ s \in Nat /\ WellFormed(d) /\ PlacesOf(d) /\ Sees(d, s) /\ Written(c, m + 1) = s + b + 1
  BY <1>1, Seen
<1>3. b \in Nat /\ FormatChar(s + b + 1) = Specifier(d)
  BY <1>2 DEF PlacesOf, Sees
<1>4. a \in Nat /\ Len(u) \in Nat /\ Taken(c, m + 1) = a + Len(u) /\ Taken(c, m + 1) <= Len(c.args)
      /\ Len(c.args) \in Nat
  BY <1>1, Along
<1>5. u = ArgsOf(d) /\ d = c.means[m + 1]
  OBVIOUS
<1>6. /\ PrecisionArgs(d) \in Nat
      /\ d.conv # "plain" => Len(u) = PrecisionArgs(d) + 1 /\ u[PrecisionArgs(d) + 1] = d.value
      /\ d.conv = "plain" => Len(u) = 0 /\ PrecisionArgs(d) = 0
  BY <1>2, ArgsAre
<1>7. Specifier(d) \in SpecifierChars
  BY <1>1, <1>2, SpecifierIs
<1> HIDE DEF s, b
<1>8. at = s + b + 1 /\ at + 1 = (s + b + 1) + 1
  BY <1>1, <1>2, <1>3
<1>9. Current = Specifier(d)
  BY <1>3, <1>8 DEF Current
<1>10. at + 1 = Written(c, m + 1) + 1
  BY <1>2, <1>8
<1>11. CASE d.conv = "plain"
  <2>1. d.value = "%" /\ Specifier(d) = "%"
    BY <1>1, <1>11 DEF Percented, Specifier
  <2>2. arg = Taken(c, m + 1)
    <3> HIDE DEF u, a
    <3> QED
      BY <1>1, <1>4, <1>6, <1>11
  <2> QED
    BY <1>1, <1>2, <1>7, <1>9, <1>10, <1>11, <2>1, <2>2
<1>12. CASE d.conv # "plain"
  <2>1. Current = d.conv
    BY <1>9, <1>12 DEF Specifier
  <2> DEFINE j == PrecisionArgs(d) + 1
  <2>2. j \in 1 .. Len(u)
    BY <1>4, <1>6, <1>12
  <2>3. c.args[a + j] = u[j]
    BY <1>1, <1>5, <2>2, ArgumentAt
  <2> HIDE DEF u, a
  <2>4. arg + 1 = a + j /\ arg + 1 = Taken(c, m + 1) /\ arg < Len(c.args)
    BY <1>1, <1>4, <1>6, <1>12
  <2>5. Arg = d.value
    BY <1>6, <1>12, <2>3, <2>4 DEF Arg
  <2> QED
    BY <1>1, <1>2, <1>7, <1>9, <1>10, <1>12, <2>1, <2>4, <2>5
<1> QED
  BY <1>11, <1>12

\* The arguments are what the next step asks for.
LEMMA ArgumentsAre ==
    ASSUME NEW c \in Calls, call = c, NEW m \in 0 .. Len(c.means), Reading(c, m)
    PROVE  ArgumentsMatch
<1> DEFINE d == c.means[m + 1]
<1>0. d = c.means[m + 1]
  OBVIOUS
<1>1. ASSUME pc = "width", Current = "*" PROVE Given(Ints)
  <2>1. m \in Nat /\ m < Len(c.means)
    BY <1>1 DEF Reading
  <2>2. WellFormed(d)
    BY <2>1, Along
  <2> HIDE DEF d
  <2>3. ~_is_digit(Current)
    BY <1>1, Apart
  <2>4. d.star
    BY <1>0, <1>1, <2>3, WidthAt
  <2>5. arg < Len(call.args) /\ Arg = d.width
    BY <1>0, <1>1, <2>4, WidthAt
  <2>6. d.width \in Ints
    BY <2>2 DEF WellFormed
  <2> QED
    BY <2>5, <2>6 DEF Given
<1>2. ASSUME pc = "precision", Current = ".", FormatChar(at + 1) = "*" PROVE Given(Ints)
  <2>1. m \in Nat /\ m < Len(c.means)
    BY <1>2 DEF Reading
  <2>2. WellFormed(d)
    BY <2>1, Along
  <2> HIDE DEF d
  <2>3. ~_is_digit(FormatChar(at + 1))
    BY <1>2, Apart
  <2>4. d.star /\ d.precision # NONE
    BY <1>0, <1>2, <2>3, PrecisionAt
  <2>5. arg < Len(call.args) /\ Arg = d.precision
    BY <1>0, <1>2, <2>4, PrecisionAt
  <2>6. d.precision \in Ints
    BY <2>2 DEF WellFormed
  <2> QED
    BY <2>5, <2>6 DEF Given
<1>3. ASSUME pc = "specifier"
      PROVE  /\ Current # NUL
             /\ Current \in SignedChars \union UnsignedChars \union {"p"} => Given(Int)
             /\ Current = "c" => Given(STRING)
             /\ Current = "s" => Given(Seq(STRING))
  <2> HIDE DEF d
  <2>1. /\ WellFormed(d) /\ Current \in SpecifierChars
        /\ d.conv = "plain" => Current = "%"
        /\ d.conv # "plain" => Current = d.conv /\ arg < Len(call.args) /\ Arg = d.value
    BY <1>0, <1>3, SpecifierAt
  <2>2. Current # NUL
    BY <2>1, Apart
  <2>3. CASE Current \in SignedChars \union UnsignedChars \union {"p"}
    <3>1. d.conv # "plain" /\ Current \notin {"plain", "c", "s"}
      BY <2>1, <2>3 DEF SignedChars, UnsignedChars
    <3>2. d.value \in Int
      BY <2>1, <3>1 DEF WellFormed
    <3> QED
      BY <2>1, <2>2, <3>1, <3>2 DEF Given
  <2>4. CASE Current = "c"
    <3>1. d.conv = "c"
      BY <2>1, <2>4
    <3>2. d.value \in STRING
      BY <2>1, <3>1 DEF WellFormed, SignedChars, UnsignedChars
    <3>3. Current \notin SignedChars \union UnsignedChars \union {"p", "s"}
      BY <2>4 DEF SignedChars, UnsignedChars
    <3> QED
      BY <2>1, <2>2, <3>1, <3>2, <3>3 DEF Given
  <2>5. CASE Current = "s"
    <3>1. d.conv = "s"
      BY <2>1, <2>5
    <3>2. d.value \in Seq(STRING \ {NUL})
      BY <2>1, <3>1 DEF WellFormed, SignedChars, UnsignedChars
    <3>3. d.value \in Seq(STRING)
      BY <3>2
    <3>4. Current \notin SignedChars \union UnsignedChars \union {"p", "c"}
      BY <2>5 DEF SignedChars, UnsignedChars
    <3> QED
      BY <2>1, <2>2, <3>1, <3>3, <3>4 DEF Given
  <2> QED
    BY <2>2, <2>3, <2>4, <2>5
<1> QED
  BY <1>1, <1>2, <1>3 DEF ArgumentsMatch

\* What a conversion is given.
NumberIs(d) ==
    /\ ValueOf(d) \in Nat /\ Radix(d) \in 2 .. 16 /\ IsUpper(d) \in BOOLEAN
    /\ "uppercase" \in NumberFlags(d) <=> IsUpper(d)
    /\ "precision" \in NumberFlags(d) <=> d.precision # NONE
    /\ ~KnownDeviation(d) /\ (d.precision = NONE \/ ValueOf(d) # 0) =>
          DigitCount(ValueOf(d), Radix(d)) <= NTOA_BUFFER_SIZE

LEMMA NumberGiven ==
    ASSUME NEW d, WellFormed(d), IsNumber(d)
    PROVE  NumberIs(d)
<1>1. CASE d.conv \in SignedChars \union UnsignedChars
  <2>1. /\ ValueOf(d) \in Nat /\ Radix(d) \in 2 .. 16 /\ IsUpper(d) \in BOOLEAN
        /\ (IsUpper(d) <=> d.conv = "X")
    <3>1. ValueOf(d) \in 0 .. LONG - 1 /\ LONG \in Nat
      BY <1>1, ValueIs, WordTypes
    <3>2. ValueOf(d) \in Nat
      BY <3>1
    <3> QED
      BY <1>1, <3>2, ValueIs
  <2>2. /\ "precision" \in NumberFlags(d) <=> d.precision # NONE
        /\ "uppercase" \in NumberFlags(d) <=> d.conv = "X"
    BY <1>1, NumberFlagsAre
  <2>3. ASSUME ~KnownDeviation(d), d.precision = NONE \/ ValueOf(d) # 0
        PROVE  DigitCount(ValueOf(d), Radix(d)) <= NTOA_BUFFER_SIZE
    <3>1. Integer(d)
      BY <1>1, <2>3 DEF Integer
    <3>2. /\ Len(ValueDigits(d)) \in Nat /\ Len(MinimalDigits(d)) \in Nat
          /\ Len(PrefixOf(d)) \in Nat /\ Len(SignOf(d)) \in Nat
          /\ Len(SignOf(d)) + Len(PrefixOf(d)) + Len(MinimalDigits(d)) <= NTOA_BUFFER_SIZE
          /\ Len(MinimalDigits(d)) = IF PrecisionIs(d) > Len(ValueDigits(d)) THEN PrecisionIs(d)
                                     ELSE Len(ValueDigits(d))
          /\ PrecisionIs(d) \in Nat
      BY <3>1, BareLength
    <3> DEFINE v == Len(ValueDigits(d))
               m == Len(MinimalDigits(d))
               x == Len(PrefixOf(d))
               s == Len(SignOf(d))
               p == PrecisionIs(d)
    <3>3. /\ v \in Nat /\ m \in Nat /\ x \in Nat /\ s \in Nat /\ p \in Nat /\ s + x + m <= NTOA_BUFFER_SIZE
          /\ m = IF p > v THEN p ELSE v
      BY <3>2
    <3>4. v = DigitCount(ValueOf(d), Radix(d))
      <4>1. ValueDigits(d) = DigitsOf(ValueOf(d), Radix(d), IsUpper(d))
        BY <2>3 DEF ValueDigits
      <4> QED
        BY <2>1, <4>1, DigitsAreText
    <3> HIDE DEF v, m, x, s, p
    <3>5. v <= NTOA_BUFFER_SIZE
      BY <3>3, WordTypes
    <3> QED
      BY <3>4, <3>5
  <2> QED
    BY <2>1, <2>2, <2>3 DEF NumberIs
<1>2. CASE d.conv = "p"
  <2>1. d.conv \notin SignedChars \union UnsignedChars \union {"plain", "c", "s"}
    BY <1>2 DEF SignedChars, UnsignedChars
  <2>2. d.value \in Int /\ d.precision = NONE
    BY <2>1 DEF WellFormed, Bare
  <2>3. ValueOf(d) = Unsigned(d.value, LONG) /\ Radix(d) = 16 /\ Radix(d) \in 2 .. 16 /\ IsUpper(d) = TRUE
    BY <1>2 DEF ValueOf, Radix, IsUpper
  <2>4. ValueOf(d) \in 0 .. LONG - 1 /\ LONG \in Nat /\ LONG <= Power(16, NTOA_BUFFER_SIZE)
        /\ NTOA_BUFFER_SIZE \in Nat \ {0}
    BY <2>2, <2>3, Wraps, WordTypes, CFormatAssumption
  <2>5. "precision" \notin NumberFlags(d) /\ "uppercase" \in NumberFlags(d)
    <3> DEFINE l == LengthRead(d)
    <3>1. "precision" \notin l
      BY <2>2, LengthReadIs
    <3>2. NumberFlags(d) = IF ValueOf(d) = 0 THEN (l \union {"zeropad", "uppercase"}) \ {"hash"}
                           ELSE l \union {"zeropad", "uppercase"}
      BY <1>2 DEF NumberFlags
    <3> HIDE DEF l
    <3> QED
      BY <3>1, <3>2
  <2>6. DigitCount(ValueOf(d), Radix(d)) <= NTOA_BUFFER_SIZE
    <3> DEFINE v == ValueOf(d)
               p == Power(16, NTOA_BUFFER_SIZE)
    <3>1. p \in Nat
      <4>1. 16 \in Nat \ {0} /\ NTOA_BUFFER_SIZE \in Nat
        BY <2>4
      <4> QED
        BY <4>1, PowerIs
    <3>2. v \in Nat /\ v < p
      <4>1. v \in 0 .. LONG - 1 /\ LONG \in Nat /\ LONG <= p
        BY <2>4
      <4> HIDE DEF v, p
      <4> QED
        BY <3>1, <4>1
    <3>3. 16 \in Nat /\ 16 >= 2 /\ NTOA_BUFFER_SIZE \in Nat /\ NTOA_BUFFER_SIZE >= 1
      BY <2>4
    <3> HIDE DEF v
    <3>4. DigitCount(v, 16) <= NTOA_BUFFER_SIZE
      BY <3>2, <3>3, FewDigits
    <3> QED
      BY <2>3, <3>4 DEF v
  <2>7. ValueOf(d) \in Nat
    BY <2>4
  <2> QED
    BY <2>2, <2>3, <2>5, <2>6, <2>7 DEF NumberIs
<1> QED
  BY <1>1, <1>2 DEF IsNumber

LEMMA RadixIs == ASSUME NEW r \in 2 .. 16 PROVE r \in Nat /\ r >= 2 /\ r \in Nat \ {0}
  OBVIOUS

\* A conversion begins with the number that is to be shown and no digit of it.
LEMMA ConversionGoing ==
    ASSUME NEW c \in Calls, call = c, NEW m \in 0 .. Len(c.means), Going(c, m), pc = "specifier",
           NEW d, d = c.means[m + 1], IsNumber(d), NEW f,
           NumberFlags(d) = IF ValueOf(d) = 0 THEN f \ {"hash"} ELSE f,
           NEW negative, negative = IsNegative(d),
           _ntoa_long(ValueOf(d), negative, Radix(d), f), width' = NumberWidth(d),
           at' = at + 1, arg' = arg + 1, UNCHANGED <<target, precision, output>>
    PROVE  Going(c, m)'
<1>1. Reading(c, m)
  BY DEF Going
<1>2. d.conv # "plain"
  BY DEF IsNumber, SignedChars, UnsignedChars
<1>3. /\ m \in Nat /\ m < Len(c.means) /\ WellFormed(d) /\ Percented(d)
      /\ at' = Written(c, m + 1) + 1 /\ arg' = Taken(c, m + 1) /\ precision = PrecisionIs(d)
  BY <1>1, <1>2, SpecifierAt
<1>4. /\ flags' = NumberFlags(d)
      /\ num' = [value |-> ValueOf(d), negative |-> negative, base |-> Radix(d), buf |-> <<>>]
      /\ pc' = IF "precision" \notin f \/ ValueOf(d) # 0 THEN "digits" ELSE "format"
  BY DEF _ntoa_long
<1>5. Converting(d)'
  BY <1>3, <1>4 DEF Converting
<1>6. NumberIs(d)
  BY <1>3, NumberGiven
<1>7. "precision" \in f <=> d.precision # NONE
  <2>1. "precision" \in NumberFlags(d) <=> "precision" \in f
    OBVIOUS
  <2> QED
    BY <1>6, <2>1 DEF NumberIs
<1>8. <<>> \in Text /\ Len(<<>>) = 0
  BY Characters, ShortTexts
<1>9. ASSUME pc' = "digits" PROVE Dividing(d)'
  <2> DEFINE v == ValueOf(d)
             r == Radix(d)
  <2>1. num'.buf = <<>> /\ num'.value = v /\ (d.precision = NONE \/ v # 0)
    BY <1>4, <1>7, <1>9
  <2>2. v \in Nat /\ r \in Nat /\ r >= 2 /\ r \in Nat \ {0}
    <3>1. v \in Nat /\ r \in 2 .. 16
      BY <1>6 DEF NumberIs
    <3> HIDE DEF v, r
    <3> QED
      BY <3>1, RadixIs
  <2> HIDE DEF v, r
  <2>3. v \div Power(r, 0) = v /\ DigitCount(v, r) \in Nat /\ DigitCount(v, r) >= 1
    BY <2>2, HigherDigits, DigitsEnd
  <2>4. 0 < DigitCount(v, r) /\ 0 < NTOA_BUFFER_SIZE
    BY <2>3, WordTypes
  <2>5. num'.value = v \div Power(r, 0)
    BY <2>1, <2>3
  <2>6. Len(num'.buf) = 0 /\ num'.buf \in Text
    BY <1>8, <2>1
  <2> QED
    BY <2>1, <2>4, <2>5, <2>6 DEF Dividing, v, r
<1>10. ASSUME pc' = "format" PROVE Reads(num'.buf, ValueDigits(d))
  <2>1. num'.buf = <<>> /\ d.precision # NONE /\ ValueOf(d) = 0
    BY <1>4, <1>7, <1>10
  <2>2. ValueDigits(d) = <<>>
    BY <2>1 DEF ValueDigits
  <2> QED
    BY <1>8, <2>1, <2>2 DEF Reads
<1>11. pc' \in {"digits", "format"}
  BY <1>4
<1>12. Reading(c, m)'
  BY <1>3, <1>5, <1>9, <1>10, <1>11 DEF Reading
<1>13. pc # "done" /\ pc' # "done" /\ UNCHANGED <<target, output>>
  BY <1>11
<1> QED
  BY <1>12, <1>13, Kept

LEMMA IntegerTypeIs ==
    ASSUME NEW c, NEW f
    PROVE  TypeSize(IntegerFlags(c, f)) = TypeSize(f)
<1>1. \A y \in {"long", "long_long", "char", "short"} : y \in IntegerFlags(c, f) <=> y \in f
  BY DEF IntegerFlags
<1> QED
  BY <1>1 DEF TypeSize

LEMMA SignedGoing ==
    ASSUME IInv, NEW c \in Calls, call = c, NEW m \in 0 .. Len(c.means), Going(c, m), SignedInteger
    PROVE  Going(c, m)'
<1> DEFINE d == c.means[m + 1]
           f    == IntegerFlags(Current, flags)
           size == TypeSize(f)
           v    == Signed(Arg, size)
           wide == IF size = LONG THEN LONG ELSE INT
           amount    == IF v > 0 THEN v ELSE Negated(v, wide)
<1>1. /\ pc = "specifier" /\ Current \in SignedChars /\ _ntoa_long(amount, v < 0, 10, f)
      /\ at' = at + 1 /\ arg' = arg + 1 /\ UNCHANGED <<target, width, precision, output>>
  BY DEF SignedInteger, _ntoa_long_long
<1>2. d = c.means[m + 1]
  OBVIOUS
<1>3. Reading(c, m)
  BY DEF Going
<1> HIDE DEF d
<1>4. /\ WellFormed(d) /\ (d.conv = "plain" => Current = "%")
      /\ (d.conv # "plain" => Current = d.conv /\ Arg = d.value)
      /\ flags = LengthRead(d) /\ width = FieldWidth(d)
  BY <1>1, <1>2, <1>3, SpecifierAt
<1>5. Current = d.conv /\ Arg = d.value /\ d.conv \in SignedChars /\ d.conv # "p"
  BY <1>1, <1>4 DEF SignedChars
<1>6. IsNumber(d) /\ IsSigned(d) /\ Radix(d) = 10 /\ NumberWidth(d) = FieldWidth(d)
      /\ ValueOf(d) = Magnitude(d) /\ NumberOf(d) \in Int /\ SizeOf(d) \in {CHAR, SHORT, INT, LONG}
  BY <1>4, <1>5, ValueIs DEF IsNumber, IsSigned, SignedChars, NumberWidth
<1>7. NumberFlags(d) = IF ValueOf(d) = 0 THEN f \ {"hash"} ELSE f
  BY <1>4, <1>5 DEF NumberFlags
<1>8. size = SizeOf(d)
  BY <1>4, IntegerTypeIs, LengthReadIs
<1>9. v = NumberOf(d)
  BY <1>5, <1>6, <1>8 DEF NumberOf
<1> HIDE DEF f
<1>10. amount = ValueOf(d) /\ (v < 0) = IsNegative(d)
  <2>1. size \in Nat \ {0} /\ wide \in Nat \ {0} /\ size <= wide /\ v \in Int
    BY <1>6, <1>8, <1>9, WordTypes
  <2>2. Arg \in Int
    BY <1>4, <1>5 DEF WellFormed, SignedChars
  <2>3. -v < size
    <3> DEFINE r == Arg % size
    <3>1. r \in 0 .. size - 1 /\ v = IF 2 * r < size THEN r ELSE r - size
      BY <2>1, <2>2 DEF Signed
    <3> HIDE DEF r, v, size
    <3> QED
      BY <2>1, <3>1
  <2>4. Magnitude(d) = IF v < 0 THEN -v ELSE v
    BY <1>9 DEF Magnitude
  <2> HIDE DEF v, size, wide
  <2>5. ~(v > 0) => Negated(v, wide) = -v
    <3> SUFFICES ASSUME ~(v > 0) PROVE Negated(v, wide) = -v
      OBVIOUS
    <3>1. v <= 0 /\ -v < wide
      BY <2>1, <2>3
    <3> QED
      BY <2>1, <3>1, NegatedIs
  <2>6. amount = Magnitude(d)
    BY <2>1, <2>4, <2>5
  <2>7. (v < 0) = IsNegative(d)
    BY <1>6, <1>9 DEF IsNegative
  <2> QED
    BY <1>6, <2>6, <2>7
<1> DEFINE neg == v < 0
<1>11. _ntoa_long(ValueOf(d), neg, Radix(d), f) /\ neg = IsNegative(d) /\ width' = NumberWidth(d)
  BY <1>1, <1>4, <1>6, <1>10
<1> HIDE DEF neg
<1> QED
  BY <1>1, <1>2, <1>6, <1>7, <1>11, ConversionGoing

LEMMA UnsignedGoing ==
    ASSUME IInv, NEW c \in Calls, call = c, NEW m \in 0 .. Len(c.means), Going(c, m), UnsignedInteger
    PROVE  Going(c, m)'
<1> DEFINE d == c.means[m + 1]
           f    == IntegerFlags(Current, flags)
           size == TypeSize(f)
           amount    == Unsigned(Arg, size)
<1>1. /\ pc = "specifier" /\ Current \in UnsignedChars /\ _ntoa_long(amount, FALSE, BaseOf(Current), f)
      /\ at' = at + 1 /\ arg' = arg + 1 /\ UNCHANGED <<target, width, precision, output>>
  BY DEF UnsignedInteger, _ntoa_long_long
<1>2. d = c.means[m + 1]
  OBVIOUS
<1>3. Reading(c, m)
  BY DEF Going
<1> HIDE DEF d
<1>4. /\ WellFormed(d) /\ (d.conv = "plain" => Current = "%")
      /\ (d.conv # "plain" => Current = d.conv /\ Arg = d.value)
      /\ flags = LengthRead(d) /\ width = FieldWidth(d)
  BY <1>1, <1>2, <1>3, SpecifierAt
<1>5. Current = d.conv /\ Arg = d.value /\ d.conv \in UnsignedChars /\ d.conv # "p"
  BY <1>1, <1>4 DEF UnsignedChars
<1>6. IsNumber(d) /\ ~IsSigned(d) /\ Radix(d) = BaseOf(d.conv) /\ NumberWidth(d) = FieldWidth(d)
      /\ ValueOf(d) = Magnitude(d) /\ NumberOf(d) \in Int /\ SizeOf(d) \in {CHAR, SHORT, INT, LONG}
  BY <1>4, <1>5, ValueIs DEF IsNumber, IsSigned, UnsignedChars, NumberWidth
<1>7. NumberFlags(d) = IF ValueOf(d) = 0 THEN f \ {"hash"} ELSE f
  BY <1>4, <1>5 DEF NumberFlags
<1>8. size = SizeOf(d)
  BY <1>4, IntegerTypeIs, LengthReadIs
<1>9. amount = NumberOf(d)
  BY <1>5, <1>6, <1>8 DEF NumberOf
<1> HIDE DEF f
<1>10. amount = ValueOf(d) /\ FALSE = IsNegative(d)
  <2>1. size \in Nat \ {0}
    BY <1>6, <1>8, WordTypes
  <2>2. Arg \in Int
    BY <1>4, <1>5 DEF WellFormed, UnsignedChars
  <2>3. amount \in 0 .. size - 1
    BY <2>1, <2>2, Wraps
  <2> HIDE DEF amount, size
  <2>4. ~(amount < 0)
    BY <2>1, <2>3
  <2> QED
    BY <1>6, <1>9, <2>4 DEF Magnitude, IsNegative
<1>11. _ntoa_long(ValueOf(d), FALSE, Radix(d), f) /\ width' = NumberWidth(d)
  BY <1>1, <1>4, <1>5, <1>6, <1>10
<1> QED
  BY <1>1, <1>2, <1>6, <1>7, <1>10, <1>11, ConversionGoing

LEMMA PointerGoing ==
    ASSUME IInv, NEW c \in Calls, call = c, NEW m \in 0 .. Len(c.means), Going(c, m), Pointer
    PROVE  Going(c, m)'
<1> DEFINE d == c.means[m + 1]
           f == flags \union {"zeropad", "uppercase"}
           amount == Unsigned(Arg, LONG)
<1>1. /\ pc = "specifier" /\ Current = "p" /\ _ntoa_long(amount, FALSE, 16, f) /\ width' = POINTER_DIGITS
      /\ at' = at + 1 /\ arg' = arg + 1 /\ UNCHANGED <<target, precision, output>>
  BY DEF Pointer, _ntoa_long_long
<1>2. d = c.means[m + 1]
  OBVIOUS
<1>3. Reading(c, m)
  BY DEF Going
<1> HIDE DEF d
<1>4. /\ WellFormed(d) /\ (d.conv = "plain" => Current = "%")
      /\ (d.conv # "plain" => Current = d.conv /\ Arg = d.value)
      /\ flags = LengthRead(d)
  BY <1>1, <1>2, <1>3, SpecifierAt
<1>5. Arg = d.value /\ d.conv = "p"
  BY <1>1, <1>4
<1>6. IsNumber(d) /\ ~IsSigned(d) /\ Radix(d) = 16 /\ NumberWidth(d) = POINTER_DIGITS
      /\ ValueOf(d) = amount /\ FALSE = IsNegative(d)
  BY <1>5 DEF IsNumber, IsSigned, NumberWidth, Radix, ValueOf, IsNegative
<1>7. NumberFlags(d) = IF ValueOf(d) = 0 THEN f \ {"hash"} ELSE f
  BY <1>4, <1>5 DEF NumberFlags
<1>8. _ntoa_long(ValueOf(d), FALSE, Radix(d), f) /\ width' = NumberWidth(d)
  BY <1>1, <1>6
<1> HIDE DEF f, amount
<1> QED
  BY <1>1, <1>2, <1>6, <1>7, <1>8, ConversionGoing

-----------------------------------------------------------------------------
(* The digits of a number, and what is put out.                            *)

LEMMA NumberPlaces ==
    ASSUME NEW c \in Calls, call = c, NEW m \in 0 .. Len(c.means), Reading(c, m), pc \in {"digits", "format"},
           NEW d, d = c.means[m + 1]
    PROVE  /\ m \in Nat /\ m < Len(c.means) /\ WellFormed(d) /\ Percented(d)
           /\ at = Written(c, m + 1) + 1 /\ arg = Taken(c, m + 1) /\ Converting(d) /\ NumberIs(d)
<1>1. /\ m \in Nat /\ m < Len(c.means) /\ Percented(d)
      /\ at = Written(c, m + 1) + 1 /\ arg = Taken(c, m + 1) /\ Converting(d)
  BY DEF Reading
<1>2. WellFormed(d)
  BY <1>1, Along
<1>3. NumberIs(d)
  BY <1>1, <1>2, NumberGiven DEF Converting
<1> QED
  BY <1>1, <1>2, <1>3

\* The lowest j digits of v, lowest first.
LowDigits(v, r, up, b, j) ==
    /\ b \in Text /\ j \in Nat /\ Len(b) = j
    /\ \A k \in 1 .. j : b[k] = DigitChar((v \div Power(r, k - 1)) % r, up)

\* What is left of v above its lowest i digits, and when nothing is.
LeftAbove(v, r, from) ==
    /\ (v \div Power(r, from - 1)) \div r = v \div Power(r, from)
    /\ (v \div Power(r, from) = 0 <=> from = DigitCount(v, r))
    /\ DigitCount(v, r) \in Nat

\* One more digit.
LEMMA DigitPut ==
    ASSUME NEW v \in Nat, NEW r \in 2 .. 16, NEW up \in BOOLEAN, NEW b, NEW j, LowDigits(v, r, up, b, j),
           j < DigitCount(v, r),
           NEW e, e = Append(b, DigitChar((v \div Power(r, j)) % r, up))
    PROVE  LowDigits(v, r, up, e, j + 1) /\ LeftAbove(v, r, j + 1)
<1> DEFINE x(k) == DigitChar((v \div Power(r, k)) % r, up)
<1>1. j \in Nat /\ r \in Nat \ {0} /\ r \in Nat /\ r >= 2 /\ b \in Text /\ j = Len(b)
  BY DEF LowDigits
<1>2. v \div Power(r, j) \in Nat /\ (v \div Power(r, j)) \div r = v \div Power(r, j + 1)
  <2>1. \A k \in Nat : /\ v \div Power(r, k) \in Nat
                       /\ v \div Power(r, k + 1) = (v \div Power(r, k)) \div r
    <3>1. r \in Nat \ {0}
      BY <1>1
    <3> QED
      BY <3>1, HigherDigits
  <2> QED
    BY <1>1, <2>1
<1>3. x(j) \in Chars
  <2> DEFINE q == v \div Power(r, j)
  <2>1. q \in Nat
    BY <1>2
  <2> HIDE DEF q
  <2>2. q % r \in 0 .. 15
    BY <1>1, <2>1
  <2>3. DigitChar(q % r, up) \in Chars
    BY <2>2, DigitCharIs
  <2> QED
    BY <2>3 DEF q
<1>4. \A k \in 1 .. j : b[k] = x(k - 1)
  BY DEF LowDigits
<1>5. e = Append(b, x(j))
  OBVIOUS
<1> HIDE DEF x
<1>6. e \in Text /\ Len(e) = j + 1 /\ e[j + 1] = x(j) /\ \A k \in 1 .. j : e[k] = b[k]
  BY <1>1, <1>3, <1>5 DEF Text
<1>7. ASSUME NEW k \in 1 .. j + 1 PROVE e[k] = x(k - 1)
  <2>1. CASE k = j + 1
    <3>1. k - 1 = j
      BY <1>1, <2>1
    <3> QED
      BY <1>6, <2>1, <3>1
  <2>2. CASE k # j + 1
    <3>1. k \in 1 .. j
      BY <1>1, <2>2
    <3> QED
      BY <1>4, <1>6, <3>1
  <2> QED
    BY <2>1, <2>2
<1>8. /\ DigitCount(v, r) \in Nat /\ v \div Power(r, DigitCount(v, r)) = 0
      /\ \A k \in 1 .. DigitCount(v, r) - 1 : v \div Power(r, k) > 0
  BY <1>1, DigitsEnd
<1>9. v \div Power(r, j + 1) = 0 <=> j + 1 = DigitCount(v, r)
  <2> DEFINE amount == DigitCount(v, r)
  <2>1. j + 1 # amount => j + 1 \in 1 .. amount - 1
    BY <1>1, <1>8
  <2>2. j + 1 # amount => v \div Power(r, j + 1) > 0
    BY <1>8, <2>1
  <2>3. v \div Power(r, j + 1) > 0 => v \div Power(r, j + 1) # 0
    OBVIOUS
  <2> QED
    BY <1>8, <2>2, <2>3
<1>10. LowDigits(v, r, up, e, j + 1)
  BY <1>1, <1>6, <1>7 DEF LowDigits, x
<1>11. (j + 1) - 1 = j
  BY <1>1
<1>12. LeftAbove(v, r, j + 1)
  BY <1>2, <1>8, <1>9, <1>11 DEF LeftAbove
<1> QED
  BY <1>10, <1>12

LEMMA AllDigitsPut ==
    ASSUME NEW v \in Nat, NEW r \in 2 .. 16, NEW up \in BOOLEAN, NEW b \in Text, Len(b) = DigitCount(v, r),
           \A k \in 1 .. Len(b) : b[k] = DigitChar((v \div Power(r, k - 1)) % r, up)
    PROVE  Reads(b, DigitsOf(v, r, up))
<1> DEFINE amount == DigitCount(v, r)
           t == DigitsOf(v, r, up)
<1>1. /\ t \in Text /\ Len(t) = amount /\ amount \in Nat
      /\ \A k \in 1 .. amount : t[k] = DigitChar((v \div Power(r, amount - k)) % r, up)
  BY DigitsAreText
<1>2. Len(b) = amount
  OBVIOUS
<1>3. \A k \in 1 .. amount : b[k] = DigitChar((v \div Power(r, k - 1)) % r, up)
  OBVIOUS
<1> HIDE DEF amount, t
<1>4. ASSUME NEW k \in 1 .. amount PROVE b[k] = t[amount + 1 - k]
  <2>1. amount + 1 - k \in 1 .. amount /\ amount - (amount + 1 - k) = k - 1
    BY <1>1
  <2>2. t[amount + 1 - k] = DigitChar((v \div Power(r, amount - (amount + 1 - k))) % r, up)
    BY <1>1, <2>1
  <2> QED
    BY <1>3, <2>1, <2>2
<1> QED
  BY <1>1, <1>2, <1>4 DEF Reads, t

LEMMA DivideGoing ==
    ASSUME IInv, NEW c \in Calls, call = c, NEW m \in 0 .. Len(c.means), Going(c, m), Divide
    PROVE  Going(c, m)'
<1> DEFINE d == c.means[m + 1]
           v == ValueOf(d)
           r == Radix(d)
           up == IsUpper(d)
           b == num.buf
           j == Len(b)
           e == Append(b, DigitChar(num.value % num.base, "uppercase" \in flags))
<1>1. /\ pc = "digits"
      /\ num' = [num EXCEPT !.value = @ \div num.base, !.buf = e]
      /\ pc' = IF num'.value # 0 /\ Len(num'.buf) < NTOA_BUFFER_SIZE THEN "digits" ELSE "format"
      /\ UNCHANGED <<target, at, arg, spec, output>>
  BY DEF Divide
<1>2. Reading(c, m) /\ d = c.means[m + 1]
  BY DEF Going
<1>3. Dividing(d)
  BY <1>1, <1>2 DEF Reading
<1>4. /\ m \in Nat /\ m < Len(c.means) /\ WellFormed(d) /\ Percented(d)
      /\ at = Written(c, m + 1) + 1 /\ arg = Taken(c, m + 1) /\ Converting(d) /\ NumberIs(d)
  <2> HIDE DEF d
  <2> QED
    BY <1>1, <1>2, NumberPlaces
<1>5. flags' = flags /\ width' = width /\ precision' = precision /\ at' = at /\ arg' = arg
  BY <1>1 DEF spec
<1>6. /\ num'.value = num.value \div num.base /\ num'.buf = e
      /\ num'.negative = num.negative /\ num'.base = num.base
  <2>1. num \in NumberSet
    BY DEF IInv, NumberOK, NumberSet
  <2> QED
    BY <1>1, <2>1 DEF NumberSet
<1>7. Converting(d)'
  BY <1>4, <1>5, <1>6 DEF Converting
<1>8. /\ v \in Nat /\ r \in 2 .. 16 /\ up \in BOOLEAN /\ num.base = r /\ ("uppercase" \in flags <=> up)
      /\ (~KnownDeviation(d) /\ (d.precision = NONE \/ v # 0) => DigitCount(v, r) <= NTOA_BUFFER_SIZE)
  BY <1>4 DEF Converting, NumberIs
<1>9. /\ b \in Text /\ j < DigitCount(v, r) /\ j < NTOA_BUFFER_SIZE /\ (d.precision = NONE \/ v # 0)
      /\ num.value = v \div Power(r, j)
      /\ \A k \in 1 .. j : b[k] = DigitChar((v \div Power(r, k - 1)) % r, up)
  BY <1>3 DEF Dividing
<1>10. e = Append(b, DigitChar((v \div Power(r, j)) % r, up))
  <2>1. ("uppercase" \in flags) = up
    BY <1>8
  <2> QED
    BY <1>8, <1>9, <2>1
<1>11. j = Len(b)
  OBVIOUS
<1> HIDE DEF d, v, r, up, b, j, e
<1>12. /\ e \in Text /\ Len(e) = j + 1 /\ j \in Nat
       /\ \A k \in 1 .. j + 1 : e[k] = DigitChar((v \div Power(r, k - 1)) % r, up)
       /\ (v \div Power(r, j)) \div r = v \div Power(r, j + 1)
       /\ (v \div Power(r, j + 1) = 0 <=> j + 1 = DigitCount(v, r))
       /\ DigitCount(v, r) \in Nat
  <2>1. v \in Nat /\ r \in 2 .. 16 /\ up \in BOOLEAN
    BY <1>8
  <2>2. j \in Nat
    BY <1>9, <1>11 DEF Text
  <2>3. LowDigits(v, r, up, b, j)
    BY <1>9, <1>11, <2>2 DEF LowDigits
  <2>4. j < DigitCount(v, r)
    BY <1>9
  <2>5. LowDigits(v, r, up, e, j + 1) /\ LeftAbove(v, r, j + 1)
    BY <1>10, <2>1, <2>3, <2>4, DigitPut
  <2>6. (j + 1) - 1 = j
    BY <2>2
  <2> QED
    BY <2>2, <2>5, <2>6 DEF LowDigits, LeftAbove
<1>13. num'.value = v \div Power(r, j + 1)
  BY <1>6, <1>8, <1>9, <1>12
<1>14. ASSUME pc' = "digits" PROVE Dividing(d)'
  <2>1. num'.value # 0 /\ Len(num'.buf) < NTOA_BUFFER_SIZE
    BY <1>1, <1>14
  <2>2. j + 1 # DigitCount(v, r)
    BY <1>12, <1>13, <2>1
  <2>3. j + 1 < DigitCount(v, r)
    <3> DEFINE amount == DigitCount(v, r)
    <3>1. j \in Nat /\ amount \in Nat /\ j < amount /\ j + 1 # amount
      BY <1>9, <1>12, <2>2
    <3> HIDE DEF amount
    <3>2. j + 1 < amount
      BY <3>1
    <3> QED
      BY <3>2 DEF amount
  <2>4. Len(num'.buf) = j + 1 /\ num'.buf = e
    BY <1>6, <1>12
  <2> QED
    BY <1>9, <1>12, <1>13, <2>1, <2>3, <2>4 DEF Dividing, v, r, up
<1>15. ASSUME pc' = "format", ~KnownDeviation(d) PROVE Reads(num'.buf, ValueDigits(d))
  <2>1. ~(num'.value # 0 /\ Len(num'.buf) < NTOA_BUFFER_SIZE)
    BY <1>1, <1>15
  <2>2. j + 1 = DigitCount(v, r)
    <3>1. CASE num'.value = 0
      BY <1>12, <1>13, <3>1
    <3>2. CASE num'.value # 0
      <4> DEFINE amount == DigitCount(v, r)
      <4>1. amount <= NTOA_BUFFER_SIZE /\ amount \in Nat /\ j \in Nat /\ j < amount
        BY <1>8, <1>9, <1>12, <1>15
      <4>2. ~(j + 1 < NTOA_BUFFER_SIZE)
        BY <1>6, <1>12, <2>1, <3>2
      <4> HIDE DEF amount
      <4>3. j + 1 = amount
        BY <4>1, <4>2, WordTypes
      <4> QED
        BY <4>3 DEF amount
    <3> QED
      BY <3>1, <3>2
  <2>3. Reads(e, DigitsOf(v, r, up))
    BY <1>8, <1>12, <2>2, AllDigitsPut
  <2>4. ValueDigits(d) = DigitsOf(v, r, up)
    BY <1>9 DEF ValueDigits, v, r, up
  <2> QED
    BY <1>6, <2>3, <2>4
<1>16. pc' \in {"digits", "format"}
  BY <1>1
<1>17. Reading(c, m)'
  BY <1>2, <1>4, <1>5, <1>7, <1>14, <1>15, <1>16 DEF Reading
<1>18. pc # "done" /\ pc' # "done" /\ UNCHANGED <<target, output>>
  BY <1>1, <1>16
<1> QED
  BY <1>17, <1>18, Kept

LEMMA FormatGoing ==
    ASSUME IInv, NEW c \in Calls, call = c, NEW m \in 0 .. Len(c.means), Going(c, m), Format
    PROVE  m \in Nat /\ m < Len(c.means) /\ Follows(c, m)
<1> DEFINE d == c.means[m + 1]
           s == _ntoa_format(num, flags, width, precision)
<1>1. /\ pc = "format" /\ OutOn(s) /\ pc' = "scan" /\ UNCHANGED target /\ at' = at /\ arg' = arg
  BY DEF Format
<1>2. Reading(c, m) /\ d = c.means[m + 1]
  BY DEF Going
<1>3. ~KnownDeviation(d) => Reads(num.buf, ValueDigits(d))
  BY <1>1, <1>2 DEF Reading
<1>4. /\ m \in Nat /\ m < Len(c.means) /\ WellFormed(d)
      /\ at = Written(c, m + 1) + 1 /\ arg = Taken(c, m + 1) /\ Converting(d)
  <2> HIDE DEF d
  <2> QED
    BY <1>1, <1>2, NumberPlaces
<1>5. ASSUME ~KnownDeviation(d) PROVE s = TextOf(d)
  <2> HIDE DEF d
  <2>1. Given_(d, num)
    BY <1>3, <1>4, <1>5 DEF Converting, Given_
  <2>2. flags = NumberFlags(d) /\ width = NumberWidth(d) /\ precision = PrecisionIs(d) /\ IsNumber(d)
    BY <1>4 DEF Converting
  <2>3. CASE d.conv = "p"
    <3>1. width = POINTER_DIGITS
      BY <2>2, <2>3 DEF NumberWidth
    <3> QED
      BY <1>4, <2>1, <2>2, <2>3, <3>1, PointerShown
  <2>4. CASE d.conv # "p"
    <3>1. d.conv \in SignedChars \union UnsignedChars /\ width = FieldWidth(d)
      BY <2>2, <2>4 DEF NumberWidth, IsNumber
    <3>2. Integer(d)
      BY <1>4, <1>5, <3>1 DEF Integer
    <3>3. s = IntegerText(d)
      BY <2>1, <2>2, <3>1, <3>2, IntegerShownAsInC
    <3>4. d.conv \notin {"plain", "c", "s", "p"}
      BY <3>1 DEF SignedChars, UnsignedChars
    <3>5. TextOf(d) = IntegerText(d)
      BY <3>4 DEF TextOf
    <3> QED
      BY <3>3, <3>5
  <2> QED
    BY <2>3, <2>4
<1> HIDE DEF s
<1> QED
  BY <1>1, <1>4, <1>5, PutOut

LEMMA CharacterGoing ==
    ASSUME IInv, NEW c \in Calls, call = c, NEW m \in 0 .. Len(c.means), Going(c, m),
           Character \/ String \/ Other
    PROVE  m \in Nat /\ m < Len(c.means) /\ Follows(c, m)
<1> DEFINE d == c.means[m + 1]
<1>1. pc = "specifier" /\ pc' = "scan" /\ UNCHANGED target /\ at' = at + 1
  BY DEF Character, String, Other
<1>2. Reading(c, m) /\ d = c.means[m + 1]
  BY DEF Going
<1>3. /\ m \in Nat /\ m < Len(c.means) /\ WellFormed(d)
      /\ Current \in SpecifierChars /\ at' = Written(c, m + 1) + 1
      /\ d.conv = "plain" => Current = "%" /\ d.value = "%" /\ arg = Taken(c, m + 1)
      /\ d.conv # "plain" => /\ Current = d.conv /\ arg < Len(call.args) /\ Arg = d.value
                             /\ arg + 1 = Taken(c, m + 1)
      /\ flags = LengthRead(d) /\ width = FieldWidth(d) /\ precision = PrecisionIs(d)
  <2> HIDE DEF d
  <2> QED
    BY <1>1, <1>2, SpecifierAt
<1>4. CASE Character
  <2> DEFINE s == Padded(<<Arg>>, 1, width, flags)
  <2>1. Current = "c" /\ OutOn(s) /\ arg' = arg + 1
    BY <1>4 DEF Character
  <2>2. d.conv = "c" /\ Arg = d.value /\ arg' = Taken(c, m + 1)
    BY <1>3, <2>1
  <2>3. ~KnownDeviation(d) => s = TextOf(d)
    <3> HIDE DEF d
    <3> QED
      BY <1>3, <2>2, PlainShown
  <2> HIDE DEF s
  <2> QED
    BY <1>1, <1>3, <2>1, <2>2, <2>3, PutOut
<1>5. CASE String
  <2> DEFINE measured == _strnlen_s(Arg, IF precision # 0 THEN precision ELSE SIZE_MAX)
             l == IF "precision" \in flags THEN Least(measured, precision) ELSE measured
             s == Padded(ShownOf(Arg, flags, l), l, width, flags)
  <2>1. Current = "s" /\ OutOn(s) /\ arg' = arg + 1
    BY <1>5 DEF String
  <2>2. d.conv = "s" /\ Arg = d.value /\ arg' = Taken(c, m + 1)
    BY <1>3, <2>1
  <2>3. ~KnownDeviation(d) => s = TextOf(d)
    <3> HIDE DEF d
    <3> QED
      BY <1>3, <2>2, PlainShown
  <2> HIDE DEF s
  <2> QED
    BY <1>1, <1>3, <2>1, <2>2, <2>3, PutOut
<1>6. CASE Other
  <2> DEFINE s == <<Current>>
  <2>1. Current \notin Converted /\ OutOn(s) /\ arg' = arg
    BY <1>6 DEF Other
  <2>2. Current = "%"
    BY <1>3, <2>1 DEF SpecifierChars, Converted, SignedChars, UnsignedChars
  <2>3. d.conv = "plain"
    <3>1. ASSUME d.conv # "plain" PROVE FALSE
      <4>1. d.conv = "%"
        BY <1>3, <2>2, <3>1
      <4> QED
        BY <1>3, <4>1 DEF WellFormed, SignedChars, UnsignedChars
    <3> QED
      BY <3>1
  <2>4. s = TextOf(d) /\ arg' = Taken(c, m + 1)
    BY <1>3, <2>1, <2>2, <2>3 DEF TextOf
  <2> HIDE DEF s
  <2> QED
    BY <1>1, <1>3, <2>1, <2>4, PutOut
<1> QED
  BY <1>4, <1>5, <1>6

-----------------------------------------------------------------------------
(* All of it: a call goes on as the text it writes says, to its end.       *)

LEMMA StepFollows ==
    ASSUME IInv, NEW c \in Calls, call = c, NEW m \in 0 .. Len(c.means), Going(c, m), Next
    PROVE  Follows(c, m) /\ call' = c
<1>1. call' = c
  <2>1. call' = call
    BY DEF Next, Enter, Literal, Percent, Flag, NoFlag, WidthDigits, WidthArgument, NoWidth,
           Precision, NoPrecision, Length, SignedInteger, UnsignedInteger, Pointer, Divide, Format,
           Character, String, Other, Terminate, target
  <2> QED
    BY <2>1
<1>2. Going(c, m)' => Follows(c, m)
  BY DEF Follows
<1>3. Follows(c, m)
  <2>1. CASE Literal
    BY <2>1, LiteralGoing
  <2>2. CASE Enter \/ Percent \/ Terminate
    BY <1>2, <2>2, EnterGoing, PercentGoing, TerminateGoing
  <2>3. CASE Flag \/ NoFlag
    BY <1>2, <2>3, FlagGoing, NoFlagGoing
  <2>4. CASE WidthDigits \/ WidthArgument \/ NoWidth
    BY <1>2, <2>4, WidthGoing
  <2>5. CASE Precision \/ NoPrecision
    BY <1>2, <2>5, PrecisionGoing
  <2>6. CASE Length
    BY <1>2, <2>6, LengthGoing
  <2>7. CASE SignedInteger \/ UnsignedInteger \/ Pointer
    BY <1>2, <2>7, SignedGoing, UnsignedGoing, PointerGoing
  <2>8. CASE Divide
    BY <1>2, <2>8, DivideGoing
  <2>9. CASE Format
    BY <2>9, FormatGoing
  <2>10. CASE Character \/ String \/ Other
    BY <2>10, CharacterGoing
  <2>11. \/ Literal \/ Enter \/ Percent \/ Terminate \/ Flag \/ NoFlag
         \/ WidthDigits \/ WidthArgument \/ NoWidth \/ Precision \/ NoPrecision \/ Length
         \/ SignedInteger \/ UnsignedInteger \/ Pointer \/ Divide \/ Format
         \/ Character \/ String \/ Other
    BY DEF Next
  <2> QED
    BY <2>1, <2>2, <2>3, <2>4, <2>5, <2>6, <2>7, <2>8, <2>9, <2>10, <2>11
<1> QED
  BY <1>1, <1>3

LEMMA GoesOn == ASSUME IInv, GoingOn, [Next]_vars PROVE GoingOn'
<1> DEFINE c == call
<1>1. c \in Calls
  BY DEF IInv
<1>2. PICK m \in 0 .. Len(c.means) : Going(c, m)
  BY DEF GoingOn
<1>3. CASE Next
  <2>1. Follows(c, m) /\ call' = c
    <3> HIDE DEF c
    <3>1. call = c
      BY DEF c
    <3> QED
      BY <1>1, <1>2, <1>3, <3>1, StepFollows
  <2>2. PICK k \in 0 .. Len(c.means) : Going(c, k)'
    <3> HIDE DEF c
    <3> QED
      BY <2>1 DEF Follows
  <2>3. Going(c, k)' => Going(call, k)'
    BY <2>1
  <2> QED
    BY <2>1, <2>2, <2>3 DEF GoingOn
<1>4. CASE UNCHANGED vars
  <2>1. GoingOn' = GoingOn
    BY <1>4 DEF vars, target, spec, output, GoingOn, Going, Reading, Converting, Dividing, HasPutOut, HasEnded
  <2> QED
    BY <2>1
<1> QED
  BY <1>3, <1>4

LEMMA Begins == Init => GoingOn
<1> SUFFICES ASSUME Init PROVE GoingOn
  OBVIOUS
<1>1. call \in Calls
  BY DEF Init
<1>2. Going(call, 0)
  BY <1>1, InitGoing
<1>3. 0 \in 0 .. Len(call.means)
  BY <1>1, WholeCall
<1> QED
  BY <1>2, <1>3 DEF GoingOn

LEMMA GoingMatches == ASSUME IInv, GoingOn PROVE ArgumentsMatch
<1>1. call \in Calls
  BY DEF IInv
<1>2. PICK m \in 0 .. Len(call.means) : Going(call, m)
  BY DEF GoingOn
<1>3. Reading(call, m)
  BY <1>2 DEF Going
<1> QED
  BY <1>1, <1>3, ArgumentsAre

\* The whole text has a terminator in it only if a %c has one.
LEMMA MeaningIsPrinted ==
    ASSUME call \in Calls, ~Deviating,
           ~\E k \in DOMAIN call.means : call.means[k].conv = "c" /\ call.means[k].value = NUL
    PROVE  Meaning \in Printed
<1> DEFINE last == Len(call.means)
           texts == [k \in DOMAIN call.means |-> TextOf(call.means[k])]
<1>1. last \in Nat /\ DOMAIN call.means = 1 .. last /\ \A k \in 1 .. last : WellFormed(call.means[k])
  BY CFormatAssumption DEF WellMeant
<1>2. \A k \in 1 .. last : texts[k] \in Printed
  BY <1>1, TextIsPrinted DEF Deviating
<1>3. texts = [k \in 1 .. last |-> texts[k]]
  BY <1>1
<1> HIDE DEF last
<1>4. Meaning = FlattenSeq(texts)
  BY DEF Meaning
<1> HIDE DEF texts
<1> DEFINE S == Chars \ {NUL}
<1>5. \A k \in 1 .. last : texts[k] \in Seq(S)
  BY <1>2 DEF Printed
<1> HIDE DEF S
<1>6. texts \in Seq(Seq(S)) /\ Len(texts) = last
  <2>1. texts \in [1 .. last -> Seq(S)]
    BY <1>3, <1>5
  <2> QED
    BY <1>1, <2>1
<1>7. FlattenSeq(texts) \in Seq(S)
  BY <1>6, Flattened
<1> QED
  BY <1>4, <1>7 DEF Printed, S

\* What has been put out at the end of the call.
LEMMA EndsAsInC == ASSUME IInv, GoingOn PROVE OutputIsAsInC /\ NulsAreCountedNotSent
<1>1. call \in Calls
  BY DEF IInv
<1>2. PICK m \in 0 .. Len(call.means) : Going(call, m)
  BY DEF GoingOn
<1>3. Terminated
  BY DEF IInv, BufferOK
<1>4. ASSUME pc = "done", ~Deviating PROVE HasEnded(Meaning)
  <2>1. ~Deviates(call)
    BY <1>4 DEF Deviating, Deviates
  <2>2. m = Len(call.means)
    BY <1>2, <1>4 DEF Going, Reading
  <2>3. HasEnded(Upto(Texts(call), m))
    BY <1>2, <1>4, <2>1 DEF Going
  <2>4. Upto(Texts(call), m) = FlattenSeq(Texts(call))
    BY <1>1, <2>1, <2>2, WholeCall
  <2>5. Texts(call) = [from \in DOMAIN call.means |-> TextOf(call.means[from])]
    <3>1. DOMAIN call.means = 1 .. Len(call.means)
      BY <1>1, CFormatAssumption
    <3> QED
      BY <3>1 DEF Texts
  <2>6. Upto(Texts(call), m) = Meaning
    BY <2>4, <2>5 DEF Meaning
  <2> QED
    BY <2>3, <2>6
<1> DEFINE t == Meaning
<1>5. HasEnded(t) => /\ device \in {"char", "fct"} => sent = WithoutNul(t)
                     /\ device = "buffer" =>
                          \A k \in DOMAIN buffer :
                              buffer[k] = IF k < Len(t) /\ k < maxlen - 1 THEN t[k + 1] ELSE NUL
                     /\ idx = Len(t)
  <2> HIDE DEF t
  <2> QED
    BY DEF HasEnded
<1>6. ~Deviating /\ ~NulDropped /\ device \in {"char", "fct"} => WithoutNul(t) = t
  <2> SUFFICES ASSUME ~Deviating, ~NulDropped, device \in {"char", "fct"} PROVE WithoutNul(t) = t
    OBVIOUS
  <2>1. t \in Printed
    BY <1>1, MeaningIsPrinted DEF NulDropped
  <2> HIDE DEF t
  <2> QED
    BY <2>1, NothingDropped
<1>7. NulsAreCountedNotSent
  BY <1>4, <1>5 DEF NulsAreCountedNotSent
<1>8. OutputIsAsInC
  BY <1>3, <1>4, <1>5, <1>6 DEF OutputIsAsInC
<1> QED
  BY <1>7, <1>8

LEMMA StaysInsideCount == IInv => WritesInsideCount
<1> SUFFICES ASSUME IInv PROVE WritesInsideCount
  OBVIOUS
<1>1. idx \in Nat /\ maxlen \in Nat
  BY WordTypes DEF IInv, TypeOK
<1>2. CASE device # "buffer"
  BY <1>2 DEF IInv, BufferOK, WritesInsideCount
<1>3. CASE device = "buffer" /\ pc # "done"
  BY <1>1, <1>3 DEF IInv, BufferOK, WritesInsideCount, Least
<1>4. CASE device = "buffer" /\ pc = "done" /\ maxlen = 0
  BY <1>4 DEF IInv, BufferOK, WritesInsideCount
<1>5. CASE device = "buffer" /\ pc = "done" /\ maxlen # 0
  BY <1>1, <1>5 DEF IInv, BufferOK, Terminated, WritesInsideCount
<1> QED
  BY <1>2, <1>3, <1>4, <1>5

-----------------------------------------------------------------------------
(* The theorems.                                                           *)

\* Through all the steps of _vsnprintf a call is at a place of its format that
\* the directives it writes name, has read the arguments of those before it, and
\* has put out their text (printf.c 577-857).
THEOREM Invariance == Spec => [](IInv /\ GoingOn)
<1>1. Init => IInv /\ GoingOn
  BY InitInv, Begins
<1>2. IInv /\ GoingOn /\ [Next]_vars => (IInv /\ GoingOn)'
  <2> SUFFICES ASSUME IInv, GoingOn, [Next]_vars PROVE IInv' /\ GoingOn'
    OBVIOUS
  <2>1. ArgumentsMatch
    BY GoingMatches
  <2>2. IInv'
    BY <2>1, StepInv
  <2>3. GoingOn'
    BY GoesOn
  <2> QED
    BY <2>2, <2>3
<1> QED
  BY <1>1, <1>2, PTL DEF Spec

\* The parser stays within the format and the arguments, takes no argument for one
\* of another type, and numbers stay in their types and digits in their buffer
\* (printf.c 188, 283-298, 308-323, 577-857).
THEOREM TypeCorrect == Spec => []CallTypeOK
<1>1. IInv /\ GoingOn => CallTypeOK
  BY GoingMatches DEF IInv, CallTypeOK
<1> QED
  BY <1>1, Invariance, PTL

\* Nothing is stored at or behind the count of snprintf_ (printf.c 133, 853).
THEOREM CountRespected == Spec => []WritesInsideCount
  BY StaysInsideCount, Invariance, PTL

\* A text in a buffer is ended by a NUL, behind it or in the last cell there is,
\* and has no gap before it (printf.c 853).
THEOREM EndsWithNul == Spec => []Terminated
<1>1. IInv => Terminated
  BY DEF IInv, BufferOK
<1> QED
  BY <1>1, Invariance, PTL

\* What printf puts out is what C says of its format and arguments, whatever they
\* are but for the directives that deviate and, where the text is sent and not
\* stored, for the NUL of a %c; whatever the device and however large the buffer.
\* The number returned is the length of that text (printf.c 144-199, 200-323,
\* 577-857; printf.h 85).
THEOREM TextIsAsInC == Spec => []OutputIsAsInC
<1>1. IInv /\ GoingOn => OutputIsAsInC
  BY EndsAsInC
<1> QED
  BY <1>1, Invariance, PTL

\* With a NUL of a %c among it, the rest of the text is sent and all of it is counted
\* in what printf and fctprintf return (printf.c 149-167, 796-817; printf.h 111).
THEOREM NulsCounted == Spec => []NulsAreCountedNotSent
<1>1. IInv /\ GoingOn => NulsAreCountedNotSent
  BY EndsAsInC
<1> QED
  BY <1>1, Invariance, PTL

\* A number of the console disturbs no call of printf, and where there is none
\* there is nothing to be said of it.
WithOrWithoutCall == (IInv /\ GoingOn) \/ PrintfIdle

LEMMA RestStays == ASSUME PrintfIdle, [Next]_vars PROVE PrintfIdle'
<1>1. ~Next
  BY DEF PrintfIdle, Next, Enter, Literal, Percent, Flag, NoFlag, WidthDigits, WidthArgument,
         NoWidth, Precision, NoPrecision, Length, SignedInteger, UnsignedInteger, Pointer,
         Divide, Format, Character, String, Other, Terminate
<1> QED
  BY <1>1 DEF PrintfIdle, vars, target, spec, output

LEMMA RestIsAsInC ==
    ASSUME PrintfIdle
    PROVE  CallTypeOK /\ WritesInsideCount /\ OutputIsAsInC /\ NulsAreCountedNotSent
<1>1. TypeOK
  BY WordTypes, NoNumberIs DEF PrintfIdle, TypeOK, NoNumber
<1>2. ArgumentsMatch
  BY DEF PrintfIdle, ArgumentsMatch
<1>3. WritesInsideCount
  BY DEF PrintfIdle, WritesInsideCount
<1>4. Len(Meaning) = 0
  <2> DEFINE texts == [k \in DOMAIN call.means |-> TextOf(call.means[k])]
  <2>1. call.means = <<>>
    BY DEF PrintfIdle
  <2>2. texts = <<>>
    BY <2>1
  <2>3. texts \in Seq(Seq(STRING)) /\ Len(texts) = 0
    BY <2>2
  <2>4. FlattenSeq(texts) = <<>>
    <3> HIDE DEF texts
    <3> QED
      BY <2>3, Flattened
  <2>5. Meaning = FlattenSeq(texts)
    BY DEF Meaning
  <2> QED
    BY <2>4, <2>5
<1>5. OutputIsAsInC
  BY <1>4 DEF PrintfIdle, OutputIsAsInC, Terminated
<1>6. NulsAreCountedNotSent
  BY DEF PrintfIdle, NulsAreCountedNotSent
<1> QED
  BY <1>1, <1>2, <1>3, <1>5, <1>6 DEF CallTypeOK

\* The same of a call of printf with the console's numbers beside it (console.cpp
\* 60-70, 187-225; printf.c 577-857): the two formatters share nothing.
THEOREM BesideNumbers ==
    TextSpec => [](CallTypeOK /\ WritesInsideCount /\ OutputIsAsInC /\ NulsAreCountedNotSent)
<1>1. TextInit => WithOrWithoutCall
  BY InitInv, Begins DEF TextInit, WithOrWithoutCall
<1>2. WithOrWithoutCall /\ [TextNext]_<<vars, numberVars>> => WithOrWithoutCall'
  <2> SUFFICES ASSUME WithOrWithoutCall, [TextNext]_<<vars, numberVars>> PROVE WithOrWithoutCall'
    OBVIOUS
  <2>1. [Next]_vars
    BY DEF TextNext
  <2>2. CASE IInv /\ GoingOn
    <3>1. IInv'
      BY <2>1, <2>2, GoingMatches, StepInv
    <3>2. GoingOn'
      BY <2>1, <2>2, GoesOn
    <3> QED
      BY <3>1, <3>2 DEF WithOrWithoutCall
  <2>3. CASE PrintfIdle
    BY <2>1, <2>3, RestStays DEF WithOrWithoutCall
  <2> QED
    BY <2>2, <2>3 DEF WithOrWithoutCall
<1>3. WithOrWithoutCall => CallTypeOK /\ WritesInsideCount /\ OutputIsAsInC /\ NulsAreCountedNotSent
  <2>1. IInv /\ GoingOn => CallTypeOK
    BY GoingMatches DEF IInv, CallTypeOK
  <2>2. IInv /\ GoingOn => WritesInsideCount /\ OutputIsAsInC /\ NulsAreCountedNotSent
    BY StaysInsideCount, EndsAsInC
  <2> QED
    BY <2>1, <2>2, RestIsAsInC DEF WithOrWithoutCall
<1> QED
  BY <1>1, <1>2, <1>3, PTL DEF TextSpec
=============================================================================
