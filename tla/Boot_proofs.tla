---------------------------- MODULE Boot_proofs ----------------------------
(***************************************************************************)
(* Proofs about the memory map, sbrk and the boot they are stages of.      *)
(* Whatever the firmware answers, the table holds what it offers, the walk *)
(* of memory_analyze_and_print prints it and stays inside its array; for   *)
(* every size of the array and every list that is shorter.  For all maps,  *)
(* sizes and numbers of calls, the blocks of sbrk are disjoint as long as  *)
(* it grows, and sbrk leaves the memory map alone.                         *)
(*                                                                         *)
(* The stages of the boot together do what MemoryMap and Heap say of each  *)
(* of them, and paging is switched on only when it has been prepared, for  *)
(* kernels and page tables of every size.                                  *)
(***************************************************************************)
EXTENDS Boot, FiniteSetTheorems, TLAPS

\* The terminator stands behind the last entry kept, in the table as soon as
\* it is written and in the copy when it fits, and the walk does not pass it.
Closed == /\ Len(answers) <= MaxAnswers
          /\ pc \in {"copy", "walk", "done"} => table[di] = EMPTY
          /\ pc \in {"walk", "done"} /\ di < MapEntries => map[di] = EMPTY
          /\ pc \in {"ask", "terminate", "copy"} => i = 0
          /\ Len(answers) < MapEntries => i <= di

\* The bound on di that TypeOK states becomes an invariant with it.
IInv == TypeOK /\ Closed

\* There is something other than EMPTY to find at 0x5000.
LEMMA JunkIsRegion == Junk \in Region /\ Junk # EMPTY
  BY MemoryMapAssumption DEF Junk

\* The entries the loops index exist.
LEMMA SlotsOfDi ==
    ASSUME IInv
    PROVE  /\ di \in Slots /\ di \in Nat /\ k \in Nat /\ Len(answers) \in Nat
           /\ di <= Len(answers)
           /\ \A slot \in 0 .. MapEntries - 1 : slot \in Slots
<1>1. Len(answers) \in Nat /\ MapEntries \in Nat /\ MaxAnswers \in Nat
  BY MemoryMapAssumption DEF IInv, TypeOK
<1> QED
  BY <1>1 DEF IInv, TypeOK, Closed, Slots

\* The initial states satisfy the invariant.
LEMMA InitIInv == Init => IInv
<1> SUFFICES ASSUME Init PROVE IInv
  OBVIOUS
<1>1. answers \in Seq(Answer) /\ Len(answers) <= MaxAnswers
  <2>1. PICK n \in 0 .. MaxAnswers : answers \in [1 .. n -> Answer]
    BY DEF Init
  <2>2. n \in Nat /\ n <= MaxAnswers
    BY MemoryMapAssumption, <2>1
  <2> QED
    BY <2>1, <2>2
<1>2. TypeOK
  BY <1>1, JunkIsRegion, MemoryMapAssumption DEF Init, TypeOK
<1> QED
  BY <1>1, <1>2 DEF Init, IInv, Closed

\* An answer is stored and kept, or left to be overwritten.
LEMMA AskStep == IInv /\ Ask => IInv'
<1> SUFFICES ASSUME IInv, Ask PROVE IInv'
  OBVIOUS
<1> DEFINE answer == answers[k + 1]
<1>1. answer.region \in Region
  <2>1. answers \in Seq(Answer) /\ k + 1 \in 1 .. Len(answers)
    BY SlotsOfDi DEF Ask, IInv, TypeOK
  <2>2. answer \in Answer
    BY <2>1
  <2> QED
    BY <2>2, MemoryMapAssumption DEF Answer
<1>2. table' \in [Slots -> Region]
  BY <1>1, SlotsOfDi DEF Ask, IInv, TypeOK
<1>3. k' = k + 1 /\ k' \in 0 .. Len(answers)
  BY SlotsOfDi DEF Ask
<1>4. di' \in {di, di + 1}
  BY DEF Ask
<1>5. pc' \in {"ask", "terminate"} /\ pc = "ask"
  BY DEF Ask
<1>6. UNCHANGED <<answers, ending, map, i, printed>>
  BY DEF Ask, firmware
<1>7. di' \in 0 .. k'
  BY <1>3, <1>4, SlotsOfDi DEF IInv, TypeOK
<1>8. TypeOK'
  BY <1>2, <1>3, <1>5, <1>6, <1>7 DEF IInv, TypeOK
<1>9. Closed'
  BY <1>4, <1>5, <1>6, SlotsOfDi DEF IInv, TypeOK, Closed
<1> QED
  BY <1>8, <1>9 DEF IInv

\* The list ends without another answer.
LEMMA RefusedStep == IInv /\ Refused => IInv'
  BY DEF Refused, firmware, IInv, TypeOK, Closed

\* The terminator is written behind the last entry kept.
LEMMA TerminateStep == IInv /\ Terminate => IInv'
<1> SUFFICES ASSUME IInv, Terminate PROVE IInv'
  OBVIOUS
<1>1. table' \in [Slots -> Region] /\ table'[di] = EMPTY
  BY SlotsOfDi, MemoryMapAssumption DEF Terminate, IInv, TypeOK
<1> QED
  BY <1>1 DEF Terminate, firmware, IInv, TypeOK, Closed

\* The copy holds the terminator when the list is short enough.
LEMMA CopyStep == IInv /\ Copy => IInv'
<1> SUFFICES ASSUME IInv, Copy PROVE IInv'
  OBVIOUS
<1>1. map' \in [0 .. MapEntries - 1 -> Region]
  BY SlotsOfDi DEF Copy, IInv, TypeOK
<1>2. di < MapEntries => map'[di] = EMPTY
  BY SlotsOfDi, MemoryMapAssumption DEF Copy, IInv, Closed
<1>3. pc = "copy" /\ pc' = "walk"
      /\ UNCHANGED <<answers, ending, k, di, table, i, printed>>
  BY DEF Copy, firmware
<1>4. TypeOK'
  BY <1>1, <1>3 DEF IInv, TypeOK
<1>5. Closed'
  BY <1>2, <1>3 DEF IInv, Closed
<1> QED
  BY <1>4, <1>5 DEF IInv

\* The walk goes on only before the terminator.
LEMMA WalkStep == IInv /\ Walk => IInv'
<1> SUFFICES ASSUME IInv, Walk PROVE IInv'
  OBVIOUS
<1>1. i \in Nat /\ MapEntries \in Nat
  BY MemoryMapAssumption DEF IInv, TypeOK
<1>2. Entry(i) \in Region
  BY <1>1, JunkIsRegion, MemoryMapAssumption DEF Entry, IInv, TypeOK
<1>3. printed' \in Seq(Region)
  BY <1>2 DEF Walk, IInv, TypeOK
<1>4. i' = i + 1 /\ pc = "walk"
      /\ UNCHANGED <<answers, ending, pc, k, di, table, map>>
  BY DEF Walk, firmware
<1>5. ASSUME Len(answers) < MapEntries PROVE i + 1 <= di
  <2>1. di < MapEntries /\ i <= di /\ map[di] = EMPTY
    BY <1>1, <1>4, <1>5, SlotsOfDi DEF IInv, Closed
  <2>2. i # di
    <3>1. Entry(di) = map[di]
      BY <2>1 DEF Entry
    <3>2. Entry(i) # EMPTY
      BY DEF Walk
    <3> QED
      BY <2>1, <3>1, <3>2
  <2> QED
    BY <1>1, <2>1, <2>2, SlotsOfDi
<1>6. TypeOK'
  BY <1>1, <1>3, <1>4 DEF IInv, TypeOK
<1>7. Closed'
  BY <1>4, <1>5 DEF IInv, Closed
<1> QED
  BY <1>6, <1>7 DEF IInv

\* The walk has found the terminator, or nothing happens any more.
LEMMA EndSteps == IInv /\ (WalkEnds \/ UNCHANGED vars) => IInv'
  BY DEF WalkEnds, vars, firmware, IInv, TypeOK, Closed

\* Every step keeps the invariant.
LEMMA StepIInv == IInv /\ [Next]_vars => IInv'
  BY AskStep, RefusedStep, TerminateStep, CopyStep, WalkStep, EndSteps
  DEF Next, Done

\* The invariant holds.
THEOREM Invariance == Spec => []IInv
  BY StepIInv, InitIInv, PTL DEF Spec

\* Types, and that the entry written next is never behind the answers given.
THEOREM TypeCorrect == Spec => []TypeOK
<1>1. IInv => TypeOK
  BY DEF IInv
<1> QED
  BY <1>1, Invariance, PTL

\* memory_analyze_and_print (memory.cpp 63-74) stays inside its array whenever
\* the firmware has fewer entries than the array.
THEOREM WalkInside == Spec => []WalkStaysInside
<1>1. IInv => WalkStaysInside
  <2> SUFFICES ASSUME IInv, Len(answers) < MapEntries PROVE i < MapEntries
    BY DEF WalkStaysInside
  <2> QED
    BY SlotsOfDi, MemoryMapAssumption DEF IInv, TypeOK, Closed
<1> QED
  BY <1>1, Invariance, PTL
-----------------------------------------------------------------------------
(* What is kept and what is printed.                                       *)

\* The regions offered so far stand in the table in order, every entry before
\* di is one of them, and the answers are all given when the table is closed.
Kept == /\ di = Cardinality(Offered(k))
        /\ \A n \in Offered(k) : table[Before(n)] = answers[n].region
        /\ \A slot \in 0 .. di - 1 : \E n \in Offered(k) : Before(n) = slot
        /\ pc # "ask" => k = Len(answers)

\* The copy is the table, and what is printed its beginning.
Shown == /\ pc \in {"ask", "terminate", "copy"} => printed = <<>>
         /\ pc \in {"walk", "done"} =>
               map = [slot \in 0 .. MapEntries - 1 |-> table[slot]]
         /\ Len(printed) = i
         /\ Len(answers) < MapEntries =>
               \A n \in 1 .. i : printed[n] = table[n - 1] /\ table[n - 1] # EMPTY
         /\ pc = "done" /\ Len(answers) < MapEntries => table[i] = EMPTY

\* Answers offered are counted.
LEMMA OfferedFinite ==
    ASSUME NEW n \in Nat
    PROVE  IsFiniteSet(Offered(n)) /\ Cardinality(Offered(n)) \in Nat
<1>1. IsFiniteSet(1 .. n)
  BY FS_Interval
<1>2. Offered(n) \subseteq 1 .. n
  BY DEF Offered
<1> QED
  BY <1>1, <1>2, FS_Subset, FS_CardinalityType

\* One more answer is offered or not.
LEMMA OfferedNext ==
    ASSUME NEW n \in Nat
    PROVE  /\ Ignored(answers[n + 1]) => Offered(n + 1) = Offered(n)
           /\ ~Ignored(answers[n + 1]) =>
                 /\ Offered(n + 1) = Offered(n) \union {n + 1}
                 /\ Cardinality(Offered(n + 1)) = Cardinality(Offered(n)) + 1
           /\ Before(n + 1) = Cardinality(Offered(n))
<1>1. 1 .. n + 1 = (1 .. n) \union {n + 1} /\ n + 1 \notin 1 .. n
  OBVIOUS
<1>2. n + 1 \notin Offered(n)
  BY <1>1 DEF Offered
<1>3. ~Ignored(answers[n + 1]) => Offered(n + 1) = Offered(n) \union {n + 1}
  BY <1>1 DEF Offered
<1>4. (n + 1) - 1 = n
  OBVIOUS
<1> QED
  BY <1>1, <1>2, <1>3, <1>4, OfferedFinite, FS_AddElement DEF Offered, Before

\* The answers offered are counted in their order.
LEMMA BeforeGrows ==
    ASSUME NEW n \in Nat, NEW m \in Offered(n)
    PROVE  Before(m) \in Nat /\ Before(m) < Cardinality(Offered(n))
<1>1. m \in 1 .. n /\ m - 1 \in Nat /\ (m - 1) + 1 = m /\ ~Ignored(answers[m])
  BY DEF Offered
<1> DEFINE p == m - 1
<1>2. p \in Nat /\ p + 1 = m
  BY <1>1
<1>3. Before(m) = Cardinality(Offered(p)) /\ Cardinality(Offered(p)) \in Nat
  BY <1>2, OfferedFinite DEF Before
<1> HIDE DEF p
<1>4. Cardinality(Offered(m)) = Before(m) + 1
  BY <1>1, <1>2, <1>3, OfferedNext
<1>5. Offered(m) \subseteq Offered(n)
  BY <1>1 DEF Offered
<1>6. Cardinality(Offered(m)) <= Cardinality(Offered(n))
      /\ Cardinality(Offered(n)) \in Nat
  BY <1>5, OfferedFinite, FS_Subset
<1> QED
  BY <1>3, <1>4, <1>6

\* An answer is kept in the table behind those before it, or ignored.
LEMMA AskKeeps == IInv /\ Kept /\ Ask => Kept'
<1> SUFFICES ASSUME IInv, Kept, Ask PROVE Kept'
  OBVIOUS
<1> DEFINE answer == answers[k + 1]
<1>1. /\ k \in Nat /\ k' = k + 1 /\ answers' = answers /\ pc = "ask"
      /\ di' = IF Ignored(answer) THEN di ELSE di + 1
      /\ table' = IF answer.size = 0 THEN table
                  ELSE [table EXCEPT ![di] = answer.region]
      /\ pc' # "ask" => k' = Len(answers')
  BY SlotsOfDi DEF Ask, firmware
<1>2. table \in [Slots -> Region] /\ di \in Slots /\ di \in Nat
  BY SlotsOfDi DEF IInv, TypeOK
<1>3. ASSUME NEW n \in Offered(k)
      PROVE  Before(n) \in Nat /\ Before(n) < di /\ table'[Before(n)] = table[Before(n)]
  <2>1. Before(n) \in Nat /\ Before(n) < di
    BY <1>1, BeforeGrows DEF Kept
  <2>2. Before(n) # di
    BY <1>2, <2>1
  <2> QED
    BY <1>1, <1>2, <2>1, <2>2
<1>4. Offered(k)' = Offered(k + 1) /\ \A n : Before(n)' = Before(n)
  BY <1>1 DEF Offered, Before
<1>5. CASE Ignored(answer)
  <2>1. Offered(k + 1) = Offered(k) /\ di' = di
    BY <1>1, <1>5, OfferedNext
  <2>2. di' = Cardinality(Offered(k)')
    BY <1>4, <2>1 DEF Kept
  <2>3. \A n \in Offered(k)' : table'[Before(n)'] = answers'[n].region
    BY <1>1, <1>3, <1>4, <2>1 DEF Kept
  <2>4. \A slot \in 0 .. di' - 1 : \E n \in Offered(k)' : Before(n)' = slot
    BY <1>4, <2>1 DEF Kept
  <2> QED
    BY <1>1, <2>2, <2>3, <2>4 DEF Kept
<1>6. CASE ~Ignored(answer)
  <2>1. /\ Offered(k + 1) = Offered(k) \union {k + 1}
        /\ Cardinality(Offered(k + 1)) = di + 1 /\ Before(k + 1) = di
    BY <1>1, <1>6, OfferedNext DEF Kept
  <2>2. di' = di + 1 /\ table'[di] = answer.region
    BY <1>1, <1>2, <1>6 DEF Ignored
  <2>3. di' = Cardinality(Offered(k)')
    BY <1>4, <2>1, <2>2
  <2>4. \A n \in Offered(k)' : table'[Before(n)'] = answers'[n].region
    BY <1>1, <1>3, <1>4, <2>1, <2>2 DEF Kept
  <2>5. ASSUME NEW slot \in 0 .. di' - 1
        PROVE  \E n \in Offered(k)' : Before(n)' = slot
    <3>1. slot \in 0 .. di - 1 \/ slot = di
      BY <1>2, <2>2
    <3> QED
      BY <1>4, <2>1, <3>1 DEF Kept
  <2> QED
    BY <1>1, <2>3, <2>4, <2>5 DEF Kept
<1> QED
  BY <1>5, <1>6

\* What is kept stays as it is once the answers are all given.
LEMMA StepKept == IInv /\ Kept /\ [Next]_vars => Kept'
<1> SUFFICES ASSUME IInv, Kept, [Next]_vars PROVE Kept'
  OBVIOUS
<1>1. CASE Ask
  BY <1>1, AskKeeps
<1>2. CASE Terminate
  <2>1. /\ UNCHANGED <<answers, k, di>> /\ pc = "terminate"
        /\ table' = [table EXCEPT ![di] = EMPTY]
    BY <1>2 DEF Terminate, firmware
  <2>2. table \in [Slots -> Region] /\ di \in Nat /\ k \in Nat
    BY SlotsOfDi DEF IInv, TypeOK
  <2>3. ASSUME NEW n \in Offered(k) PROVE table'[Before(n)] = table[Before(n)]
    <3>1. Before(n) \in Nat /\ Before(n) < di
      BY <2>2, BeforeGrows DEF Kept
    <3>2. Before(n) # di
      BY <2>2, <3>1
    <3> QED
      BY <2>1, <2>2, <3>2
  <2>4. Offered(k)' = Offered(k) /\ \A n : Before(n)' = Before(n)
    BY <2>1 DEF Offered, Before
  <2> QED
    BY <2>1, <2>3, <2>4 DEF Kept
<1>3. CASE Refused \/ Copy \/ Walk \/ WalkEnds \/ UNCHANGED vars
  <2>1. UNCHANGED <<answers, k, di, table>> /\ (pc = "ask" /\ k # Len(answers) => pc' = "ask")
        /\ (pc # "ask" => pc' # "ask")
    BY <1>3 DEF Refused, Copy, Walk, WalkEnds, vars, firmware
  <2>2. Offered(k)' = Offered(k) /\ \A n : Before(n)' = Before(n)
    BY <2>1 DEF Offered, Before
  <2> QED
    BY <2>1, <2>2 DEF Kept
<1> QED
  BY <1>1, <1>2, <1>3 DEF Next, Done

\* The copy and the walk show the table as it is.
LEMMA StepShown == IInv /\ Shown /\ [Next]_vars => Shown'
<1> SUFFICES ASSUME IInv, Shown, [Next]_vars PROVE Shown'
  OBVIOUS
<1>1. CASE Ask \/ Refused \/ Terminate
  <2>1. /\ pc \in {"ask", "terminate"} /\ pc' \in {"ask", "terminate", "copy"}
        /\ UNCHANGED <<answers, map, i, printed>>
    BY <1>1 DEF Ask, Refused, Terminate, firmware
  <2>2. i = 0
    BY <2>1 DEF IInv, Closed
  <2> QED
    BY <2>1, <2>2 DEF Shown
<1>2. CASE Copy
  <2>1. /\ pc = "copy" /\ pc' = "walk" /\ UNCHANGED <<answers, table, i, printed>>
        /\ map' = [slot \in 0 .. MapEntries - 1 |-> table[slot]]
    BY <1>2 DEF Copy, firmware
  <2>2. i = 0
    BY <2>1 DEF IInv, Closed
  <2> QED
    BY <2>1, <2>2 DEF Shown
<1>3. CASE Walk
  <2>1. /\ pc = "walk" /\ UNCHANGED <<pc, answers, table, map>>
        /\ i' = i + 1 /\ printed' = Append(printed, Entry(i)) /\ Entry(i) # EMPTY
    BY <1>3 DEF Walk, firmware
  <2>2. printed \in Seq(Region) /\ i \in Nat /\ Len(printed) = i
    BY DEF IInv, TypeOK, Shown
  <2>3. /\ Len(printed') = i + 1 /\ printed'[i + 1] = Entry(i)
        /\ \A n \in 1 .. i : printed'[n] = printed[n]
    BY <2>1, <2>2
  <2>4. ASSUME Len(answers) < MapEntries PROVE Entry(i) = table[i]
    <3>1. i < MapEntries /\ i \in 0 .. MapEntries - 1
      BY <2>2, <2>4, SlotsOfDi, MemoryMapAssumption DEF IInv, Closed
    <3> QED
      BY <2>1, <3>1 DEF Entry, Shown
  <2>5. ASSUME Len(answers) < MapEntries, NEW n \in 1 .. i'
        PROVE  printed'[n] = table[n - 1] /\ table[n - 1] # EMPTY
    <3>1. n \in 1 .. i \/ (n = i + 1 /\ n - 1 = i)
      BY <2>1, <2>2
    <3> QED
      BY <2>1, <2>3, <2>4, <2>5, <3>1 DEF Shown
  <2> QED
    BY <2>1, <2>3, <2>5 DEF Shown
<1>4. CASE WalkEnds
  <2>1. /\ pc = "walk" /\ pc' = "done" /\ Entry(i) = EMPTY
        /\ UNCHANGED <<answers, table, map, i, printed>>
    BY <1>4 DEF WalkEnds, firmware
  <2>2. ASSUME Len(answers) < MapEntries PROVE table[i] = EMPTY
    <3>1. i < MapEntries /\ i \in 0 .. MapEntries - 1
      BY <2>2, SlotsOfDi, MemoryMapAssumption DEF IInv, TypeOK, Closed
    <3> QED
      BY <2>1, <3>1 DEF Entry, Shown
  <2> QED
    BY <2>1, <2>2 DEF Shown
<1>5. CASE UNCHANGED vars
  BY <1>5 DEF vars, Shown
<1> QED
  BY <1>1, <1>2, <1>3, <1>4, <1>5 DEF Next, Done

\* What is kept and shown, in every state.
THEOREM KeptAndShown == Spec => [](Kept /\ Shown)
<1>1. Init => Kept /\ Shown
  <2> SUFFICES ASSUME Init PROVE Kept /\ Shown
    OBVIOUS
  <2>1. Offered(0) = {} /\ Cardinality({}) = 0
    BY FS_EmptySet DEF Offered
  <2>2. 0 .. di - 1 = {} /\ 1 .. i = {}
    BY DEF Init
  <2> QED
    BY <2>1, <2>2 DEF Init, Kept, Shown
<1> QED
  BY <1>1, Invariance, StepKept, StepShown, PTL DEF Spec

\* The table holds what the firmware has offered, in order and closed
\* (memory_lowlevel.asm 12-41).
THEOREM TableFilled == Spec => []TableIsWhatWasOffered
<1>1. IInv /\ Kept => TableIsWhatWasOffered
  BY DEF IInv, TypeOK, Closed, Kept, TableIsWhatWasOffered
<1> QED
  BY <1>1, Invariance, KeptAndShown, PTL

\* The answers before the first empty region are as many as are printed.
LEMMA FullAnswers ==
    ASSUME IInv, Kept, Shown, pc = "done", Len(answers) < MapEntries,
           NEW full, full = {n \in Offered(Len(answers)) :
                               \A m \in Offered(n) : answers[m].region # EMPTY}
    PROVE  Cardinality(full) = i /\ \A n \in full : Before(n) < i
<1>1. /\ k = Len(answers) /\ k \in Nat /\ i \in Nat /\ di \in Nat /\ i <= di
      /\ table[i] = EMPTY
      /\ \A n \in 1 .. i : table[n - 1] # EMPTY
  BY SlotsOfDi DEF IInv, TypeOK, Closed, Kept, Shown
<1>2. ASSUME NEW n \in Offered(k)
      PROVE  /\ Before(n) \in Nat /\ n \in 1 .. k
             /\ Before(n) < i => answers[n].region # EMPTY
             /\ Before(n) = i => answers[n].region = EMPTY
  <2>1. Before(n) \in Nat /\ n \in 1 .. k
    BY <1>1, BeforeGrows DEF Offered
  <2>2. Before(n) < i => table[Before(n)] # EMPTY
    <3> SUFFICES ASSUME Before(n) < i PROVE table[Before(n)] # EMPTY
      OBVIOUS
    <3>1. Before(n) + 1 \in 1 .. i /\ (Before(n) + 1) - 1 = Before(n)
      BY <1>1, <2>1
    <3> QED
      BY <1>1, <3>1
  <2> QED
    BY <1>1, <2>1, <2>2 DEF Kept
<1>3. CASE i < di
  <2>1. PICK e \in Offered(k) : Before(e) = i
    BY <1>1, <1>3 DEF Kept
  <2>2. e \in 1 .. k /\ answers[e].region = EMPTY
    BY <1>2, <2>1
  <2>3. ASSUME NEW n \in Offered(k), n < e PROVE n \in full
    <3>1. ASSUME NEW m \in Offered(n) PROVE answers[m].region # EMPTY
      <4>1. m \in Offered(k) /\ m \in Offered(e - 1)
        BY <1>1, <1>2, <2>2, <2>3 DEF Offered
      <4>2. Before(m) < i
        <5>1. e - 1 \in Nat
          BY <2>2
        <5> QED
          BY <2>1, <4>1, <5>1, BeforeGrows DEF Before
      <4> QED
        BY <1>2, <4>1, <4>2
    <3> QED
      BY <1>1, <3>1
  <2>4. ASSUME NEW n \in full PROVE n < e
    <3> SUFFICES ASSUME e <= n PROVE FALSE
      BY <1>1, <1>2, <2>2
    <3>1. e \in Offered(n)
      BY <1>1, <1>2, <2>1, <2>2 DEF Offered
    <3> QED
      BY <2>2, <3>1
  <2>5. full = Offered(e - 1)
    BY <1>1, <1>2, <2>2, <2>3, <2>4 DEF Offered
  <2>6. e - 1 \in Nat /\ Cardinality(full) = i
    <3>1. e - 1 \in Nat
      BY <2>2
    <3>2. Cardinality(full) = Before(e)
      BY <2>5 DEF Before
    <3> QED
      BY <2>1, <3>1, <3>2
  <2>7. \A n \in Offered(e - 1) : Before(n) < Cardinality(Offered(e - 1))
    BY <2>6, BeforeGrows
  <2> QED
    BY <2>5, <2>6, <2>7
<1>4. CASE i = di
  <2>1. \A n \in Offered(k) : Before(n) < i
    BY <1>1, <1>4, BeforeGrows DEF Kept
  <2>2. full = Offered(k)
    <3>1. ASSUME NEW n \in Offered(k), NEW m \in Offered(n) PROVE answers[m].region # EMPTY
      <4>1. m \in Offered(k)
        BY <1>1, <1>2 DEF Offered
      <4> QED
        BY <1>2, <2>1, <4>1
    <3> QED
      BY <1>1, <3>1
  <2> QED
    BY <1>4, <2>1, <2>2 DEF Kept
<1> QED
  BY <1>1, <1>3, <1>4

\* The walk prints what comes before the first empty region
\* (memory.cpp 63-74).
THEOREM WalkPrintsMap == Spec => []PrintsUpToEmpty
<1>1. IInv /\ Kept /\ Shown => PrintsUpToEmpty
  <2> SUFFICES ASSUME IInv, Kept, Shown, pc = "done", Len(answers) < MapEntries
               PROVE  PrintsUpToEmpty
    BY DEF PrintsUpToEmpty
  <2> DEFINE full == {n \in Offered(Len(answers)) :
                        \A m \in Offered(n) : answers[m].region # EMPTY}
  <2>1. Cardinality(full) = i /\ \A n \in full : Before(n) < i
    BY FullAnswers
  <2>2. Len(printed) = i /\ i \in Nat /\ k = Len(answers) /\ k \in Nat
    BY SlotsOfDi DEF Kept, Shown, IInv, TypeOK
  <2>3. ASSUME NEW n \in full PROVE printed[Before(n) + 1] = answers[n].region
    <3>1. n \in Offered(k) /\ Before(n) \in Nat /\ Before(n) < i
      BY <2>1, <2>2, BeforeGrows
    <3>2. Before(n) + 1 \in 1 .. i /\ (Before(n) + 1) - 1 = Before(n)
      BY <2>2, <3>1
    <3>3. printed[Before(n) + 1] = table[Before(n)]
      BY <3>2 DEF Shown
    <3> QED
      BY <3>1, <3>3 DEF Kept
  <2> QED
    BY <2>1, <2>2, <2>3 DEF PrintsUpToEmpty
<1> QED
  BY <1>1, Invariance, KeptAndShown, PTL
-----------------------------------------------------------------------------
(* The heap.                                                               *)

\* Each block ends before every later one begins.
Ordered == \A m, n \in 1 .. Len(grants) :
               m < n => EndOf(grants[m]) <= grants[n].start

\* The break is where the last block begins; it is never NULL again, so that
\* the search is made once, before the first block.
AtBreak == /\ grants # <<>> => /\ next_heap = grants[Len(grants)].start
                               /\ next_heap # NULL
                               /\ heap_pc \in {"idle", "advance"}
           /\ heap_pc # "idle" => incr # 0

HeapIInv == HeapTypeOK /\ AtBreak /\ (Growing => Ordered)

\* The entry the search looks at.
LEMMA FirstIsRegion == HeapTypeOK => First.base \in Nat
<1> SUFFICES ASSUME HeapTypeOK PROVE First.base \in Nat
  OBVIOUS
<1>1. 0 \in 0 .. MapEntries - 1
  BY MemoryMapAssumption
<1>2. First \in Region
  BY <1>1 DEF First, HeapTypeOK, TypeOK
<1> QED
  BY <1>2, HeapAssumption

\* sbrk leaves the map alone.
LEMMA UnchangedMap == TypeOK /\ UNCHANGED vars => TypeOK'
  BY DEF TypeOK, vars

\* Initially no block is granted.
LEMMA InitHeapIInv == HeapInit => HeapIInv
<1> SUFFICES ASSUME HeapInit PROVE HeapIInv
  OBVIOUS
<1>1. TypeOK
  BY InitIInv DEF HeapInit, IInv
<1> QED
  BY <1>1 DEF HeapInit, HeapIInv, HeapTypeOK, AtBreak, Ordered, NULL

\* A call of sbrk grants nothing yet.
LEMMA CallStep == HeapIInv /\ Call => HeapIInv'
<1> SUFFICES ASSUME HeapIInv, Call PROVE HeapIInv'
  OBVIOUS
<1>1. incr' \in Nat /\ incr' # 0
  BY HeapAssumption DEF Call
<1>2. HeapTypeOK'
  BY <1>1, UnchangedMap DEF Call, HeapIInv, HeapTypeOK
<1>3. AtBreak'
  BY <1>1 DEF Call, HeapIInv, AtBreak
<1>4. (Growing => Ordered)'
  BY DEF Call, HeapIInv, Growing, Ordered
<1> QED
  BY <1>2, <1>3, <1>4 DEF HeapIInv

\* Nor does the search.
LEMMA SearchSteps == HeapIInv /\ (SearchOn \/ Look \/ SearchEnds) => HeapIInv'
<1> SUFFICES ASSUME HeapIInv, SearchOn \/ Look \/ SearchEnds PROVE HeapIInv'
  OBVIOUS
<1>1. grants = <<>> /\ grants' = <<>> /\ incr' = incr /\ incr # 0
  BY DEF SearchOn, Look, SearchEnds, HeapIInv, HeapTypeOK, AtBreak
<1>2. TypeOK'
  BY UnchangedMap DEF SearchOn, Look, SearchEnds, HeapIInv, HeapTypeOK
<1>3. toreturn' \in Nat /\ next_heap' \in Nat
  BY FirstIsRegion DEF SearchOn, Look, SearchEnds, HeapIInv, HeapTypeOK, NULL
<1>4. heap_pc' \in {"search", "look", "advance"}
  BY DEF SearchOn, Look, SearchEnds
<1>5. HeapTypeOK'
  BY <1>1, <1>2, <1>3, <1>4 DEF HeapIInv, HeapTypeOK
<1>6. AtBreak' /\ (Growing => Ordered)'
  BY <1>1 DEF AtBreak, Ordered
<1> QED
  BY <1>5, <1>6 DEF HeapIInv

\* The new block begins at the old break plus its own size.  When it is not
\* smaller than the last block, that is behind the last block's end, and so
\* behind the end of all blocks before it.
LEMMA AdvanceStep == HeapIInv /\ Advance => HeapIInv'
<1> SUFFICES ASSUME HeapIInv, Advance PROVE HeapIInv'
  OBVIOUS
<1> DEFINE g == [start |-> next_heap + incr, size |-> incr]
           len == Len(grants)
<1>1. /\ grants \in Seq(Grant) /\ g \in Grant /\ g.start = next_heap + incr
      /\ g.size = incr /\ incr \in Nat /\ incr # 0 /\ next_heap \in Nat
  BY DEF Advance, HeapIInv, HeapTypeOK, AtBreak, Grant
<1>2. grants' = Append(grants, g) /\ next_heap' = next_heap + incr
  BY DEF Advance
<1>3. /\ len \in Nat /\ Len(grants') = len + 1 /\ grants'[len + 1] = g
      /\ \A m \in 1 .. len : grants'[m] = grants[m] /\ grants[m] \in Grant
  BY <1>1, <1>2
<1>4. HeapTypeOK'
  BY <1>1, <1>2, UnchangedMap DEF Advance, HeapIInv, HeapTypeOK
<1>5. AtBreak'
  BY <1>1, <1>2, <1>3 DEF Advance, AtBreak, NULL
<1>6. ASSUME Growing' PROVE Ordered'
  <2>1. ASSUME NEW m \in 1 .. len - 1 PROVE grants[m].size <= grants[m + 1].size
    <3>1. /\ m \in 1 .. Len(grants') - 1
          /\ m \in 1 .. len /\ m + 1 \in 1 .. len
      BY <1>3
    <3> QED
      BY <1>3, <1>6, <3>1 DEF Growing
  <2>2. Ordered
    BY <2>1 DEF HeapIInv, Growing
  <2>3. ASSUME NEW m \in 1 .. len PROVE EndOf(grants[m]) <= g.start
    <3>1. len \in 1 .. len /\ next_heap = grants[len].start
      BY <1>3 DEF HeapIInv, AtBreak
    <3>2. grants[len].size <= g.size
      <4>1. len \in 1 .. Len(grants') - 1
        BY <1>3, <3>1
      <4> QED
        BY <1>3, <1>6, <3>1, <4>1 DEF Growing
    <3>3. CASE m = len
      BY <1>1, <1>3, <3>1, <3>2, <3>3 DEF EndOf, Grant
    <3>4. CASE m # len
      <4>1. EndOf(grants[m]) <= next_heap
        BY <2>2, <3>1, <3>4 DEF Ordered
      <4>2. EndOf(grants[m]) \in Nat
        BY <1>3 DEF EndOf, Grant
      <4> QED
        BY <1>1, <4>1, <4>2
    <3> QED
      BY <3>3, <3>4
  <2>4. ASSUME NEW m \in 1 .. len + 1, NEW n \in 1 .. len + 1, m < n
        PROVE  EndOf(grants'[m]) <= grants'[n].start
    <3>1. m \in 1 .. len
      BY <1>3, <2>4
    <3>2. CASE n = len + 1
      BY <1>3, <2>3, <3>1, <3>2
    <3>3. CASE n # len + 1
      <4>1. n \in 1 .. len
        BY <1>3, <3>3
      <4> QED
        BY <1>3, <2>2, <2>4, <3>1, <4>1 DEF Ordered
    <3> QED
      BY <3>2, <3>3
  <2> QED
    BY <1>3, <2>4 DEF Ordered, EndOf
<1> QED
  BY <1>4, <1>5, <1>6 DEF HeapIInv

-----------------------------------------------------------------------------
(* The steps of the map.                                                   *)

\* Whatever the boot does with the map, sbrk's own state stays as it is.
LEMMA MapStep ==
    ASSUME HeapIInv, IInv', UNCHANGED heapVars
    PROVE  HeapIInv'
<1>1. UNCHANGED <<next_heap, heap_pc, incr, toreturn, grants>>
  BY DEF heapVars
<1>2. TypeOK'
  BY DEF IInv
<1> QED
  BY <1>1, <1>2 DEF HeapIInv, HeapTypeOK, AtBreak, Growing, Ordered

\* Every step keeps both invariants.
LEMMA StepHeapIInv ==
    IInv /\ HeapIInv /\ [HeapNext]_<<vars, heapVars>> => IInv' /\ HeapIInv'
<1> SUFFICES ASSUME IInv, HeapIInv, [HeapNext]_<<vars, heapVars>>
             PROVE  IInv' /\ HeapIInv'
  OBVIOUS
<1>1. CASE Call \/ Sbrk
  <2>1. UNCHANGED vars
    BY <1>1 DEF Call, Sbrk, SearchOn, Look, SearchEnds, Advance
  <2>2. IInv'
    BY <2>1, StepIInv
  <2> QED
    BY <1>1, <2>2, CallStep, SearchSteps, AdvanceStep DEF Sbrk
<1>2. CASE Next /\ UNCHANGED heapVars
  BY <1>2, StepIInv, MapStep
<1>3. CASE UNCHANGED <<vars, heapVars>>
  BY <1>3, StepIInv, MapStep
<1> QED
  BY <1>1, <1>2, <1>3 DEF HeapNext
-----------------------------------------------------------------------------
(* The theorems.                                                           *)

\* The invariants hold in every behaviour of the map and of sbrk.
THEOREM HeapInvariance == HeapSpec => [](IInv /\ HeapIInv)
<1>1. HeapInit => IInv /\ HeapIInv
  BY InitIInv, InitHeapIInv DEF HeapInit
<1> QED
  BY <1>1, StepHeapIInv, PTL DEF HeapSpec

\* sbrk does nothing to the map: the map goes on as MemoryMap says.
THEOREM HeapKeepsMap == HeapSpec => Spec
<1>1. HeapInit => Init
  BY DEF HeapInit
<1>2. [HeapNext]_<<vars, heapVars>> => [Next]_vars
  BY DEF HeapNext, Call, Sbrk, SearchOn, Look, SearchEnds, Advance
<1> QED
  BY <1>1, <1>2, PTL DEF HeapSpec, Spec

\* The variables of sbrk and of the map keep their types.
THEOREM HeapTypeCorrect == HeapSpec => []HeapTypeOK
<1>1. HeapIInv => HeapTypeOK
  BY DEF HeapIInv
<1> QED
  BY <1>1, HeapInvariance, PTL

\* sbrk (newlib_glue_syscalls.cpp 46-62) hands out disjoint blocks as long as
\* no request is smaller than the one before it.
THEOREM GrowingBlocks == HeapSpec => []GrowingBlocksAreDisjoint
<1>1. HeapIInv => GrowingBlocksAreDisjoint
  <2> SUFFICES ASSUME HeapIInv, Growing PROVE BlocksAreDisjoint
    BY DEF GrowingBlocksAreDisjoint
  <2> QED
    BY DEF HeapIInv, Ordered, BlocksAreDisjoint, Disjoint
<1> QED
  BY <1>1, HeapInvariance, PTL
-----------------------------------------------------------------------------
(* The boot.                                                               *)

\* The kernel and the map leave the boot's own variables alone, and the boot
\* leaves theirs.
LEMMA BootStepIsHeapStep ==
    [BootNext]_<<vars, heapVars, bootVars>> => [HeapNext]_<<vars, heapVars>>
<1> SUFFICES ASSUME [BootNext]_<<vars, heapVars, bootVars>>
             PROVE  [HeapNext]_<<vars, heapVars>>
  OBVIOUS
<1>1. CASE Boots
  <2>1. CASE UNCHANGED <<vars, heapVars>>
    BY <2>1
  <2>2. CASE (BuildMemoryMap \/ PrintMemoryMap) /\ UNCHANGED heapVars
    BY <2>2 DEF BuildMemoryMap, PrintMemoryMap, HeapNext, Next
  <2> QED
    BY <1>1, <2>1, <2>2 DEF Boots
<1>2. CASE Allocates \/ (stage = "kernel" /\ Call /\ UNCHANGED bootVars)
  BY <1>2 DEF Allocates, HeapNext
<1>3. CASE StandsStill \/ LastLoop \/ UNCHANGED <<vars, heapVars, bootVars>>
  BY <1>3 DEF StandsStill, LastLoop, Done
<1> QED
  BY <1>1, <1>2, <1>3 DEF BootNext

\* Every boot is a behaviour of the map and of sbrk, so that what holds of
\* these holds of the boot (boot_sector.asm 40-66, kernel.cpp 30-59).
THEOREM BootImplementsHeap == BootSpec => HeapSpec
<1>1. BootInit => HeapInit
  BY DEF BootInit
<1> QED
  BY <1>1, BootStepIsHeapStep, PTL DEF BootSpec, HeapSpec

\* In a boot the walk stays inside memory_region_map, whenever the firmware
\* has fewer entries than that (memory.cpp 63-74).
THEOREM BootWalkInside == BootSpec => []WalkStaysInside
  BY BootImplementsHeap, HeapKeepsMap, WalkInside, PTL

\* In a boot the table the kernel finds at 0x5000 is what the firmware has
\* offered, and the kernel prints it up to the first empty region
\* (memory_lowlevel.asm 12-41, memory.cpp 63-74).
THEOREM BootShowsMap == BootSpec => [](TableIsWhatWasOffered /\ PrintsUpToEmpty)
  BY BootImplementsHeap, HeapKeepsMap, TableFilled, WalkPrintsMap, PTL

\* In a boot sbrk hands out disjoint blocks as long as no request is smaller
\* than the one before it (newlib_glue_syscalls.cpp 46-62).
THEOREM BootGrowingBlocks == BootSpec => []GrowingBlocksAreDisjoint
  BY BootImplementsHeap, GrowingBlocks, PTL
-----------------------------------------------------------------------------
(* The tables and the registers.                                           *)

Mapped(entry, page) == Found(entry) /\ entry.page = page

\* The tables above the page table have their first entry and nothing else.
Linked == \A level \in Table \ {PT} :
             /\ Mapped(tables[level][0], level + 1)
             /\ \A n \in Index \ {0} : tables[level][n] = Absent

\* The stages from which on each preparation has been made.
Built   == {"pae", "cr3", "lme", "pg", "kernel"}
WithPae == {"cr3", "lme", "pg", "kernel"}
WithCr3 == {"lme", "pg", "kernel"}
WithLme == {"pg", "kernel"}

Prepared ==
    /\ "PG" \in bits => stage = "kernel"
    /\ stage = "kernel" => "PE" \in bits
    /\ stage \in WithPae => "PAE" \in bits
    /\ stage \in WithCr3 => cr3 = PML4
    /\ stage \in WithLme => "LME" \in bits
    /\ stage = "link" => \A level \in Table, n \in Index : tables[level][n] = Absent
    /\ stage = "pages" =>
          /\ Linked /\ eax \in Index
          /\ \A n \in Index : IF n < eax THEN Mapped(tables[PT][n], n)
                              ELSE tables[PT][n] = Absent
    /\ stage \in Built => Linked /\ \A n \in Index : Mapped(tables[PT][n], n)

\* The shape of the tables, and the counter of the loop.
Shaped == /\ DOMAIN tables = Table
          /\ tables = [level \in Table |-> [n \in Index |-> tables[level][n]]]
          /\ stage \in Stage

PagingInv == Shaped /\ Prepared

\* A store into an absent entry makes it one that is found.
LEMMA StoredIsMapped ==
    ASSUME NEW page PROVE Mapped(Stored(Absent, page), page)
  BY DEF Mapped, Found, Stored, Absent

\* Numbers the tables are indexed by.
LEMMA TableNumbers ==
    /\ PT \in Table /\ PT \in Nat /\ Table \subseteq Nat
    /\ 0 \in Index /\ Index \subseteq Nat /\ ENTRIES \in Nat
  BY BootAssumption DEF PT, Table, Index

\* Nothing is prepared in the initial states.
LEMMA InitPaging == BootInit => PagingInv
  BY DEF BootInit, PagingInv, Shaped, Prepared, Stage, WithPae, WithCr3,
         WithLme, Built

\* A stage that touches no table: what was prepared stays.
LEMMA RegisterSteps ==
    ASSUME PagingInv,
           SetPae \/ SetCr3 \/ SetLme \/ SetPg
    PROVE  PagingInv'
<1>1. tables' = tables /\ eax' = eax
  BY DEF SetPae, SetCr3, SetLme, SetPg
<1>2. Linked => Linked'
  BY <1>1 DEF Linked
<1>3. Shaped'
  BY <1>1 DEF PagingInv, Shaped, SetPae, SetCr3, SetLme, SetPg, Goto, Stage
<1>4. Prepared'
  BY <1>1, <1>2 DEF PagingInv, Prepared, SetPae, SetCr3, SetLme, SetPg, Goto,
       WithPae, WithCr3, WithLme, Built
<1> QED
  BY <1>3, <1>4 DEF PagingInv

\* Before the tables are touched nothing is claimed of them.
LEMMA EarlySteps ==
    ASSUME PagingInv, LoadKernel \/ SwitchToPm \/ CheckProcessor
    PROVE  PagingInv'
<1>1. tables' = tables
  BY DEF LoadKernel, ReadSectors, PrintNsg, TestCarry, TestSectors, SwitchToPm,
         CheckProcessor, paging
<1>2. "PG" \notin bits /\ "PG" \notin bits'
  BY DEF PagingInv, Prepared, LoadKernel, ReadSectors, PrintNsg, TestCarry,
         TestSectors, SwitchToPm, CheckProcessor, paging, Goto
<1>3. stage' \in {"print", "test carry", "test sectors", "map", "cpuid", "clear"}
                    \union Halted
  BY DEF LoadKernel, ReadSectors, PrintNsg, TestCarry, TestSectors, SwitchToPm,
         CheckProcessor, Goto, Halted
<1>4. Shaped'
  BY <1>1, <1>3 DEF PagingInv, Shaped, Stage
<1>5. Prepared'
  BY <1>2, <1>3 DEF Prepared, WithPae, WithCr3, WithLme, Built, Halted
<1> QED
  BY <1>4, <1>5 DEF PagingInv

\* The tables are cleared.
LEMMA ClearStep == PagingInv /\ ClearTables => PagingInv'
<1> SUFFICES ASSUME PagingInv, ClearTables PROVE PagingInv'
  OBVIOUS
<1>1. stage = "clear" /\ stage' = "link" /\ bits' = bits
      /\ tables' = [level \in Table |-> [n \in Index |-> Absent]]
  BY DEF ClearTables, Goto
<1>2. Shaped'
  BY <1>1 DEF Shaped, Stage
<1>3. Prepared'
  BY <1>1 DEF PagingInv, Prepared, WithPae, WithCr3, WithLme, Built
<1> QED
  BY <1>2, <1>3 DEF PagingInv

\* Each table is made to lead to the next.
LEMMA LinkStep == PagingInv /\ LinkTables => PagingInv'
<1> SUFFICES ASSUME PagingInv, LinkTables PROVE PagingInv'
  OBVIOUS
<1>1. stage = "link" /\ stage' = "pages" /\ bits' = bits /\ eax' = 0
  BY DEF LinkTables, Goto
<1>2. \A level \in Table, n \in Index : tables[level][n] = Absent
  BY <1>1 DEF PagingInv, Prepared
<1>3. /\ DOMAIN tables' = Table
      /\ tables'[PT] = tables[PT]
      /\ \A level \in Table \ {PT} :
            tables'[level] = [tables[level] EXCEPT ![0] = Stored(@, level + 1)]
  BY TableNumbers DEF LinkTables
<1>4. \A level \in Table : tables[level] = [n \in Index |-> tables[level][n]]
  BY DEF PagingInv, Shaped
<1>5. ASSUME NEW level \in Table \ {PT}
      PROVE  /\ Mapped(tables'[level][0], level + 1)
             /\ \A n \in Index \ {0} : tables'[level][n] = Absent
             /\ tables'[level] = [n \in Index |-> tables'[level][n]]
  <2>1. tables'[level] = [n \in Index |->
            IF n = 0 THEN Stored(tables[level][0], level + 1) ELSE tables[level][n]]
    BY <1>3, <1>4
  <2>2. tables'[level][0] = Stored(Absent, level + 1)
    BY <1>2, <2>1, TableNumbers
  <2> QED
    BY <1>2, <2>1, <2>2, StoredIsMapped
<1>6. Shaped'
  <2>1. ASSUME NEW level \in Table
        PROVE  tables'[level] = [n \in Index |-> tables'[level][n]]
    <3>1. CASE level = PT
      BY <1>3, <1>4, <3>1
    <3>2. CASE level # PT
      BY <1>5, <3>2
    <3> QED
      BY <3>1, <3>2
  <2>2. tables' = [level \in Table |-> tables'[level]]
    BY DEF LinkTables
  <2> QED
    BY <1>1, <2>1, <2>2 DEF Shaped, Stage
<1>7. Linked'
  BY <1>5 DEF Linked
<1>8. Prepared'
  <2>1. eax' \in Index /\ \A n \in Index : ~(n < eax') /\ tables'[PT][n] = Absent
    BY <1>1, <1>2, <1>3, TableNumbers
  <2> QED
    BY <1>1, <1>7, <2>1 DEF PagingInv, Prepared, WithPae, WithCr3, WithLme, Built
<1> QED
  BY <1>6, <1>8 DEF PagingInv

\* One more page is mapped.
LEMMA MapPageStep == PagingInv /\ MapPage => PagingInv'
<1> SUFFICES ASSUME PagingInv, MapPage PROVE PagingInv'
  OBVIOUS
<1>1. /\ stage = "pages" /\ eax' = eax + 1 /\ UNCHANGED bits
      /\ stage' = IF eax + 1 < ENTRIES THEN "pages" ELSE "pae"
      /\ tables' = [tables EXCEPT ![PT][eax] = Stored(@, eax)]
  BY DEF MapPage, Goto
<1>2. /\ Linked /\ eax \in Index
      /\ \A n \in Index : IF n < eax THEN Mapped(tables[PT][n], n)
                          ELSE tables[PT][n] = Absent
  BY <1>1 DEF PagingInv, Prepared
<1>3. /\ \A level \in Table : tables[level] = [n \in Index |-> tables[level][n]]
      /\ DOMAIN tables = Table
      /\ tables = [level \in Table |-> tables[level]]
  BY DEF PagingInv, Shaped
<1>4. /\ tables' = [level \in Table |-> tables'[level]]
      /\ \A level \in Table \ {PT} : tables'[level] = tables[level]
      /\ tables'[PT] = [tables[PT] EXCEPT ![eax] = Stored(@, eax)]
  BY <1>1, <1>3, TableNumbers
<1>5. tables'[PT] = [n \in Index |-> IF n = eax THEN Stored(Absent, eax)
                                     ELSE tables[PT][n]]
  <2>1. tables[PT] = [n \in Index |-> tables[PT][n]]
    BY <1>3, TableNumbers
  <2>2. tables[PT][eax] = Absent
    BY <1>2, TableNumbers
  <2> QED
    BY <1>4, <2>1, <2>2
<1>6. Shaped'
  <2>1. \A level \in Table : tables'[level] = [n \in Index |-> tables'[level][n]]
    BY <1>3, <1>4, <1>5
  <2> QED
    BY <1>1, <1>4, <2>1 DEF Shaped, Stage
<1>7. Linked'
  BY <1>2, <1>4 DEF Linked
<1>8. \A n \in Index : IF n < eax' THEN Mapped(tables'[PT][n], n)
                       ELSE tables'[PT][n] = Absent
  <2> TAKE n \in Index
  <2>1. CASE n = eax
    BY <1>1, <1>2, <1>5, <2>1, StoredIsMapped, TableNumbers
  <2>2. CASE n # eax
    <3>1. n < eax' <=> n < eax
      BY <1>1, <1>2, <2>2, TableNumbers
    <3> QED
      BY <1>2, <1>5, <2>2, <3>1
  <2> QED
    BY <2>1, <2>2
<1>9. CASE eax + 1 < ENTRIES
  <2>1. eax' \in Index
    BY <1>1, <1>2, <1>9, TableNumbers DEF Index
  <2> QED
    BY <1>1, <1>6, <1>7, <1>8, <1>9, <2>1
    DEF PagingInv, Prepared, WithPae, WithCr3, WithLme, Built
<1>10. CASE ~(eax + 1 < ENTRIES)
  <2>1. \A n \in Index : n < eax'
    BY <1>1, <1>2, <1>10, TableNumbers DEF Index
  <2> QED
    BY <1>1, <1>6, <1>7, <1>8, <1>10, <2>1
    DEF PagingInv, Prepared, WithPae, WithCr3, WithLme, Built
<1> QED
  BY <1>9, <1>10

\* The other stages leave paging as it is.
LEMMA OtherSteps == PagingInv /\ UNCHANGED bootVars => PagingInv'
<1> SUFFICES ASSUME PagingInv, UNCHANGED bootVars PROVE PagingInv'
  OBVIOUS
<1>1. UNCHANGED <<stage, bits, cr3, tables, eax>>
  BY DEF bootVars, paging
<1> QED
  BY <1>1 DEF PagingInv, Shaped, Prepared, Linked

\* Every step of the boot keeps it.
LEMMA StepPaging ==
    PagingInv /\ [BootNext]_<<vars, heapVars, bootVars>> => PagingInv'
  BY EarlySteps, ClearStep, LinkStep, MapPageStep, RegisterSteps, OtherSteps
  DEF BootNext, Boots, LoadKernel, EnterLongMode, Allocates, StandsStill, LastLoop

\* Paging is prepared before it is switched on, whatever lay in the memory of
\* the tables (64bit-switch.asm 82-153).
THEOREM PagingPrepared == BootSpec => []PagingIsPrepared
<1>1. PagingInv => PagingIsPrepared
  <2> SUFFICES ASSUME PagingInv, "PG" \in bits PROVE PagingIsPrepared
    BY DEF PagingIsPrepared
  <2>1. stage = "kernel" /\ Linked /\ \A n \in Index : Mapped(tables[PT][n], n)
    BY DEF PagingInv, Prepared, Built
  <2>2. ASSUME NEW level \in Table \ {PT}
        PROVE  Only(level) /\ Found(tables[level][0]) /\ To(level) = level + 1
    <3>1. Mapped(tables[level][0], level + 1)
      BY <2>1 DEF Linked
    <3>2. \A n \in Index : tables[level][n].present <=> n = 0
      BY <2>1, <3>1 DEF Linked, Mapped, Found, Absent
    <3> QED
      BY <3>1, <3>2, TableNumbers DEF Mapped, Only, To
  <2>3. {"PE", "PAE", "LME"} \subseteq bits /\ cr3 = PML4
    BY <2>1 DEF PagingInv, Prepared, WithPae, WithCr3, WithLme
  <2> QED
    BY <2>1, <2>2, <2>3 DEF PagingIsPrepared, Mapped
<1> QED
  BY <1>1, InitPaging, StepPaging, PTL DEF BootSpec
-----------------------------------------------------------------------------
(* Types, and the kernel.                                                  *)

TableEntry == Entries(Table \union Index \union {0})

BootTypes ==
    /\ carry \in BOOLEAN /\ al \in 0 .. SECTORS /\ loaded \in 0 .. SECTORS
    /\ bits \subseteq {"PE", "PG", "PAE", "PGE", "LME"}
    /\ cr3 \in {0, PML4} /\ eax \in 0 .. ENTRIES
    /\ tables \in [Table -> [Index -> TableEntry]]

\* The count of sectors has been compared.
Counted ==
    stage \notin {"read", "print", "test carry", "test sectors"} \union Halted
        => al = SECTORS

\* The entries the boot writes are entries.
LEMMA EntryTypes ==
    /\ Left \in TableEntry /\ Absent \in TableEntry
    /\ \A entry \in TableEntry, page \in Table \union Index :
          Stored(entry, page) \in TableEntry
  BY DEF TableEntry, Entries, Left, Absent, Stored

\* Types hold at first.
LEMMA InitTypes == BootInit => BootTypes /\ Counted
<1> SUFFICES ASSUME BootInit PROVE BootTypes /\ Counted
  OBVIOUS
<1>1. carry \in BOOLEAN
  BY Zenon DEF BootInit
<1>2. al = 0 /\ loaded = 0 /\ bits = {} /\ cr3 = 0 /\ eax = 0 /\ Counted
  BY DEF BootInit, Counted
<1>3. tables \in [Table -> [Index -> TableEntry]]
  BY EntryTypes DEF BootInit
<1> QED
  BY <1>1, <1>2, <1>3, BootAssumption DEF BootTypes

\* Every step keeps the types, and the kernel is counted before it is used.
LEMMA StepTypes ==
    PagingInv /\ BootTypes /\ Counted /\ [BootNext]_<<vars, heapVars, bootVars>>
        => BootTypes' /\ Counted'
<1> SUFFICES ASSUME PagingInv, BootTypes, Counted,
                    [BootNext]_<<vars, heapVars, bootVars>>
             PROVE  BootTypes' /\ Counted'
  OBVIOUS
<1>1. CASE LoadKernel
  <2>1. UNCHANGED <<bits, cr3, tables, eax>>
    BY <1>1 DEF LoadKernel, ReadSectors, PrintNsg, TestCarry, TestSectors, paging
  <2>2. carry' \in BOOLEAN
    <3>1. carry' \in {TRUE, FALSE} \/ carry' = carry
      BY <1>1, Zenon DEF LoadKernel, ReadSectors, PrintNsg, TestCarry, TestSectors, bios
    <3> QED
      BY <3>1 DEF BootTypes
  <2>4. al' \in 0 .. SECTORS /\ loaded' \in 0 .. SECTORS
    <3>1. CASE ReadSectors
      <4>1. SECTORS \in 0 .. SECTORS
        BY BootAssumption
      <4> QED
        BY <3>1, <4>1, Zenon DEF ReadSectors
    <3>2. CASE PrintNsg \/ TestCarry \/ TestSectors
      <4>1. al' = al /\ loaded' = loaded
        BY <3>2, Zenon DEF PrintNsg, TestCarry, TestSectors, bios
      <4> QED
        BY <4>1 DEF BootTypes
    <3> QED
      BY <1>1, <3>1, <3>2 DEF LoadKernel
  <2>3. Counted'
    BY <1>1 DEF LoadKernel, ReadSectors, PrintNsg, TestCarry, TestSectors, bios,
       Counted, Goto, Halted
  <2> QED
    BY <2>1, <2>2, <2>3, <2>4 DEF BootTypes
<1>2. CASE SwitchToPm \/ CheckProcessor \/ SetPae \/ SetCr3 \/ SetLme \/ SetPg
  <2>1. UNCHANGED <<carry, al, loaded, tables, eax>>
    BY <1>2 DEF SwitchToPm, CheckProcessor, SetPae, SetCr3, SetLme, SetPg, bios
  <2>2. bits' \subseteq {"PE", "PG", "PAE", "PGE", "LME"} /\ cr3' \in {0, PML4}
    BY <1>2 DEF SwitchToPm, CheckProcessor, SetPae, SetCr3, SetLme, SetPg, BootTypes
  <2>3. Counted'
    BY <1>2, <2>1 DEF SwitchToPm, CheckProcessor, SetPae, SetCr3, SetLme, SetPg,
       Counted, Goto, Halted
  <2> QED
    BY <2>1, <2>2, <2>3 DEF BootTypes
<1>3. CASE ClearTables \/ LinkTables \/ MapPage
  <2>1. UNCHANGED <<carry, al, loaded, bits, cr3>>
    BY <1>3 DEF ClearTables, LinkTables, MapPage, bios
  <2>2. Counted'
    BY <1>3, <2>1 DEF ClearTables, LinkTables, MapPage, Counted, Goto, Halted
  <2>3. eax' \in 0 .. ENTRIES
    BY <1>3, TableNumbers DEF ClearTables, LinkTables, MapPage, BootTypes,
       PagingInv, Prepared, Goto, Index
  <2>4. tables' \in [Table -> [Index -> TableEntry]]
    <3>1. CASE ClearTables
      BY <3>1, EntryTypes DEF ClearTables
    <3>2. CASE LinkTables
      <4>1. ASSUME NEW level \in Table \ {PT}
            PROVE  [tables[level] EXCEPT ![0] = Stored(@, level + 1)]
                      \in [Index -> TableEntry]
        <5>1. tables[level] \in [Index -> TableEntry]
          BY DEF BootTypes
        <5>2. level + 1 \in Table
          BY BootAssumption DEF Table, PT
        <5> QED
          BY <5>1, <5>2, EntryTypes, TableNumbers
      <4> QED
        BY <3>2, <4>1 DEF LinkTables, BootTypes
    <3>3. CASE MapPage
      <4>1. eax \in Index /\ tables' = [tables EXCEPT ![PT][eax] = Stored(@, eax)]
        BY <3>3 DEF MapPage, PagingInv, Prepared, Goto
      <4>2. Stored(tables[PT][eax], eax) \in TableEntry
        BY <4>1, EntryTypes, TableNumbers DEF BootTypes
      <4> QED
        BY <4>1, <4>2, TableNumbers DEF BootTypes
    <3> QED
      BY <1>3, <3>1, <3>2, <3>3
  <2> QED
    BY <2>1, <2>2, <2>3, <2>4 DEF BootTypes
<1>4. CASE UNCHANGED bootVars
  BY <1>4 DEF bootVars, bios, paging, BootTypes, Counted
<1> QED
  BY <1>1, <1>2, <1>3, <1>4
  DEF BootNext, Boots, EnterLongMode, Allocates, StandsStill, LastLoop

\* The boot and its stages keep their types.
THEOREM BootTypeCorrect == BootSpec => []BootTypeOK
<1>1. HeapTypeOK /\ PagingInv /\ BootTypes => BootTypeOK
  BY DEF BootTypeOK, BootTypes, TableEntry, PagingInv, Shaped
<1> QED
  BY <1>1, InitPaging, InitTypes, StepPaging, StepTypes, BootImplementsHeap,
     HeapTypeCorrect, PTL DEF BootSpec

\* A kernel that is entered is whole, when the BIOS counts its sectors truly
\* (boot_sect_disk.asm 33-46).
THEOREM KernelWhole == BootSpec => []KernelIsWhole
<1>1. Counted => KernelIsWhole
  BY DEF Counted, KernelIsWhole
<1> QED
  BY <1>1, InitPaging, InitTypes, StepPaging, StepTypes, PTL DEF BootSpec
=============================================================================
