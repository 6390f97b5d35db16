----------------------------- MODULE Uefi_proofs -----------------------------
(***************************************************************************)
(* Proofs about UefiBoot: types, the walk over the map and what it prints, *)
(* the map that is in force when the boot services end, the keys and the   *)
(* descriptor table; then about the page allocator that runs beside it,    *)
(* for every set of maps, every size of the buffer, every address of the   *)
(* tss and every number of changes, calls and keys.                        *)
(***************************************************************************)
EXTENDS PageAlloc, NumberLemmas, SequenceTheorems, TLAPS

\* A key names a map: while the key of the answer is current, so is the map.
KeyNamesMap ==
    Whole =>
      /\ uefi_mmap.nbytes = Bytes(uefi_mmap.buffer)
      /\ uefi_mmap.mapkey <= key
      /\ uefi_mmap.mapkey = key => map = uefi_mmap.buffer
      /\ pc # "walk" => MemKey = uefi_mmap.mapkey

IInv == TypeOK /\ WalkStaysInMap /\ KeyNamesMap

-----------------------------------------------------------------------------
(* What the firmware answers.                                              *)

\* An answer of GetMemoryMap has the type of the caller's local.
LEMMA AnswersTyped ==
    ASSUME NEW m \in Maps, NEW k \in Key, NEW ans \in Answers(m, k)
    PROVE  ans \in Answered
<1>1. m \in Seq(Descriptor)
  BY UefiFirmwareAssumption
<1>2. Bytes(m) \in Nat
  BY <1>1, UefiFirmwareAssumption DEF Bytes
<1>3. CASE Fits(m)
  <2>1. ans = [nbytes |-> Bytes(m), buffer |-> m, mapkey |-> k]
    BY <1>3 DEF Answers
  <2> QED  BY <2>1, <1>1, <1>2 DEF Answered
<1>4. CASE ~Fits(m)
  <2>1. ans \in [nbytes : {Bytes(m)}, buffer : {<<>>}, mapkey : Key]
    BY <1>4 DEF Answers
  <2>2. <<>> \in Seq(Descriptor)
    OBVIOUS
  <2> QED  BY <2>1, <2>2, <1>2 DEF Answered
<1> QED  BY <1>3, <1>4

\* An answer that fits is the map, whole, under its key.
LEMMA AnswersWhole ==
    ASSUME NEW m \in Maps, NEW k \in Key, NEW ans \in Answers(m, k),
           ans.nbytes <= UEFI_MMAP_SIZE
    PROVE  ans = [nbytes |-> Bytes(m), buffer |-> m, mapkey |-> k]
<1>1. CASE Fits(m)
  BY <1>1 DEF Answers
<1>2. CASE ~Fits(m)
  <2>1. ans.nbytes = Bytes(m)
    BY <1>2 DEF Answers
  <2> QED  BY <2>1, <1>2 DEF Fits
<1> QED  BY <1>1, <1>2

\* What is found at an offset is a descriptor, garbage or not.
LEMMA FoundTyped ==
    ASSUME NEW ans \in Answered, NEW o \in Nat
    PROVE  DescriptorsAt(ans, o) \subseteq Descriptor
<1>1. Garbage \subseteq Descriptor
  BY DEF Garbage, Descriptor
<1>2. \A n \in 1 .. Len(ans.buffer) : ans.buffer[n] \in Descriptor
  <2>1. ans.buffer \in Seq(Descriptor)
    BY DEF Answered
  <2> QED  BY <2>1
<1> QED  BY <1>1, <1>2 DEF DescriptorsAt

\* One step of the walk.
LEMMA Stride ==
    ASSUME NEW a \in Nat, NEW b \in Nat, NEW d \in Nat, a * d < b * d
    PROVE  (a + 1) * d <= b * d
<1>1. a < b
  <2>1. SUFFICES ASSUME b <= a PROVE FALSE
    OBVIOUS
  <2>2. PICK c \in Nat : a = b + c
    <3>1. a - b \in Nat /\ a = b + (a - b)
      BY <2>1
    <3> QED  BY <3>1
  <2>3. a * d = b * d + c * d
    BY <2>2
  <2>4. c * d >= 0 /\ c * d \in Nat /\ b * d \in Nat
    OBVIOUS
  <2> QED  BY <2>3, <2>4
<1>2. PICK c \in Nat : b = (a + 1) + c
  <2>1. b - (a + 1) \in Nat /\ b = (a + 1) + (b - (a + 1))
    BY <1>1
  <2> QED  BY <2>1
<1>3. b * d = (a + 1) * d + c * d
  BY <1>2
<1>4. c * d \in Nat /\ (a + 1) * d \in Nat
  OBVIOUS
<1> QED  BY <1>3, <1>4
-----------------------------------------------------------------------------
(* The initial states.                                                     *)

\* The invariant holds at first.
LEMMA Initially == Init => IInv
<1> SUFFICES ASSUME Init PROVE IInv
  OBVIOUS
<1>1. TypeOK
  <2>1. uefi_mmap \in Answered
    <3>1. <<>> \in Seq(Descriptor) /\ 0 \in Key
      BY UefiFirmwareAssumption DEF Key
    <3> QED  BY <3>1 DEF Init, Answered
  <2>2. typed \in Seq({"early", "wait"})
        /\ printed \in Seq([index : Nat, desc : Descriptor])
    BY DEF Init
  <2>3. i = index * DESC_SIZE
    BY UefiFirmwareAssumption DEF Init
  <2> QED  BY <2>1, <2>2, <2>3, UefiFirmwareAssumption DEF Init, TypeOK, Key, Label, Gdt
<1>2. ~Whole
  BY DEF Init, Whole
<1> QED  BY <1>1, <1>2 DEF IInv, WalkStaysInMap, KeyNamesMap
-----------------------------------------------------------------------------
(* Types.                                                                  *)

\* Every step keeps the types.
LEMMA TypeStep == TypeOK /\ [Next]_vars => TypeOK'
<1> SUFFICES ASSUME TypeOK, [Next]_vars PROVE TypeOK'
  OBVIOUS
<1> USE DEF TypeOK
<1>1. CASE GetMemoryMap
  <2>1. uefi_mmap' \in Answered
    BY <1>1, AnswersTyped DEF GetMemoryMap
  <2>2. i' = index' * DESC_SIZE
    BY <1>1, UefiFirmwareAssumption DEF GetMemoryMap
  <2> QED  BY <1>1, <2>1, <2>2 DEF GetMemoryMap, firmware, Label
<1>2. CASE Walk
  <2>1. i' = index' * DESC_SIZE
    BY <1>2, UefiFirmwareAssumption DEF Walk
  <2>2. printed' \in Seq([index : Nat, desc : Descriptor])
    <3>0. i \in Nat
      BY UefiFirmwareAssumption
    <3>1. PICK desc \in DescriptorsAt(uefi_mmap, i) :
             printed' = IF desc.Type = "EfiConventionalMemory"
                        THEN Append(printed, [index |-> index, desc |-> desc])
                        ELSE printed
      BY <1>2 DEF Walk
    <3>2. [index |-> index, desc |-> desc] \in [index : Nat, desc : Descriptor]
      BY <3>0, FoundTyped
    <3>3. printed \in Seq([index : Nat, desc : Descriptor])
      OBVIOUS
    <3> HIDE DEF TypeOK
    <3>4. Append(printed, [index |-> index, desc |-> desc])
            \in Seq([index : Nat, desc : Descriptor])
      BY <3>2, <3>3, AppendProperties
    <3> QED  BY <3>1, <3>3, <3>4
  <2>3. index' \in Nat
    BY <1>2 DEF Walk
  <2> QED  BY <1>2, <2>1, <2>2, <2>3 DEF Walk, firmware
<1>3. CASE WalkEnds
  <2>1. MemKey' \in Key
    BY <1>3 DEF WalkEnds, Answered
  <2> QED  BY <1>3, <2>1 DEF WalkEnds, firmware, Label
<1>4. CASE ExitBootServices
  BY <1>4 DEF ExitBootServices, walk, Label
<1>5. CASE Announce
  BY <1>5 DEF Announce, Through, firmware, walk, Label
<1>6. CASE gdt_setup
  BY <1>6 DEF gdt_setup, firmware, walk, Label, Gdt
<1>7. CASE Report
  BY <1>7 DEF Report, Through, firmware, walk, Label
<1>8. CASE Reset
  <2>1. typed' \in Seq({"early", "wait"})
    <3>1. typed' = typed \/ typed' = <<>>
      BY <1>8 DEF Reset
    <3>2. <<>> \in Seq({"early", "wait"})
      OBVIOUS
    <3> QED  BY <3>1, <3>2
  <2> QED  BY <1>8, <2>1 DEF Reset, Through, firmware, walk, Label
<1>9. CASE ReadKeyStroke
  <2>1. typed' \in Seq({"early", "wait"}) /\ answer' \in {"early", "wait"}
    BY <1>9 DEF ReadKeyStroke
  <2> QED  BY <1>9, <2>1 DEF ReadKeyStroke, Through, firmware, walk, Label
<1>10. CASE NotReady
  BY <1>10 DEF NotReady, Through, firmware, walk, Label
<1>11. CASE ReadFails
  BY <1>11 DEF ReadFails, firmware, walk, Label
<1>12. CASE ChangeMap
  BY <1>12, UefiFirmwareAssumption DEF ChangeMap, walk, Key
<1>13. CASE Press
  <2>1. typed' \in Seq({"early", "wait"})
    BY <1>13 DEF Press
  <2> QED  BY <1>13, <2>1 DEF Press, firmware, walk
<1>14. CASE UNCHANGED vars
  BY <1>14 DEF vars
<1> QED
  BY <1>1, <1>2, <1>3, <1>4, <1>5, <1>6, <1>7, <1>8, <1>9, <1>10, <1>11, <1>12,
     <1>13, <1>14 DEF Next, efi_main, Ended
-----------------------------------------------------------------------------
(* The walk and the key.                                                   *)

\* Steps that touch neither the answer nor the firmware, once the walk is over.
LEMMA Aside ==
    ASSUME WalkStaysInMap, KeyNamesMap,
           UNCHANGED <<map, key>>, UNCHANGED walk,
           (pc = "ask") <=> (pc' = "ask"), (pc = "walk") <=> (pc' = "walk")
    PROVE  WalkStaysInMap' /\ KeyNamesMap'
  BY DEF WalkStaysInMap, KeyNamesMap, Whole, Bytes, walk

\* Every step keeps the walk inside the map and the key a name of the map.
LEMMA WalkStep ==
    IInv /\ [Next]_vars => WalkStaysInMap' /\ KeyNamesMap'
<1> SUFFICES ASSUME IInv, [Next]_vars
             PROVE  WalkStaysInMap' /\ KeyNamesMap'
  OBVIOUS
<1> USE DEF IInv
<1>1. CASE GetMemoryMap
  <2> SUFFICES ASSUME Whole' PROVE WalkStaysInMap' /\ KeyNamesMap'
    BY DEF WalkStaysInMap, KeyNamesMap
  <2>1. uefi_mmap' = [nbytes |-> Bytes(map), buffer |-> map, mapkey |-> key]
    BY <1>1, AnswersWhole DEF GetMemoryMap, Whole, TypeOK
  <2>2. map' = map /\ key' = key /\ i' = 0 /\ pc' = "walk"
    BY <1>1 DEF GetMemoryMap, firmware
  <2>3. Bytes(map) \in Nat /\ key \in Int
    <3>1. map \in Seq(Descriptor)
      BY UefiFirmwareAssumption DEF TypeOK
    <3> QED  BY <3>1, UefiFirmwareAssumption DEF Bytes, TypeOK, Key
  <2> QED  BY <2>1, <2>2, <2>3 DEF WalkStaysInMap, KeyNamesMap, Bytes
<1>2. CASE Walk
  <2> SUFFICES ASSUME Whole' PROVE WalkStaysInMap' /\ KeyNamesMap'
    BY DEF WalkStaysInMap, KeyNamesMap
  <2>1. Whole /\ pc = "walk" /\ pc' = "walk" /\ uefi_mmap' = uefi_mmap
        /\ map' = map /\ key' = key /\ MemKey' = MemKey
    BY <1>2 DEF Walk, Whole, firmware
  <2>2. KeyNamesMap'
    BY <2>1 DEF KeyNamesMap, Whole, Bytes
  <2>3. index * DESC_SIZE < Len(uefi_mmap.buffer) * DESC_SIZE
    BY <1>2, <2>1 DEF Walk, KeyNamesMap, Bytes, TypeOK
  <2>4. index \in Nat /\ Len(uefi_mmap.buffer) \in Nat /\ DESC_SIZE \in Nat
    <3>1. uefi_mmap.buffer \in Seq(Descriptor)
      BY DEF TypeOK, Answered
    <3> QED  BY <3>1, UefiFirmwareAssumption DEF TypeOK
  <2>5. (index + 1) * DESC_SIZE <= Len(uefi_mmap.buffer) * DESC_SIZE
    BY <2>3, <2>4, Stride
  <2>6. i' = (index + 1) * DESC_SIZE
    BY <1>2, <2>4 DEF Walk, TypeOK
  <2>7. WalkStaysInMap'
    BY <2>1, <2>5, <2>6 DEF WalkStaysInMap, Bytes
  <2> QED  BY <2>2, <2>7
<1>3. CASE WalkEnds
  <2>1. pc = "walk" /\ pc' = "exit" /\ MemKey' = uefi_mmap.mapkey
        /\ UNCHANGED <<uefi_mmap, i, map, key>>
    BY <1>3 DEF WalkEnds, firmware
  <2> QED  BY <2>1 DEF WalkStaysInMap, KeyNamesMap, Whole, Bytes
<1>4. CASE ExitBootServices
  BY <1>4, Aside DEF ExitBootServices
<1>5. CASE Announce
  BY <1>5, Aside DEF Announce, Through, firmware
<1>6. CASE gdt_setup
  BY <1>6, Aside DEF gdt_setup, firmware
<1>7. CASE Report
  BY <1>7, Aside DEF Report, Through, firmware
<1>8. CASE Reset
  BY <1>8, Aside DEF Reset, Through, firmware
<1>9. CASE ReadKeyStroke
  BY <1>9, Aside DEF ReadKeyStroke, Through, firmware
<1>10. CASE NotReady
  BY <1>10, Aside DEF NotReady, Through, firmware
<1>11. CASE ReadFails
  BY <1>11, Aside DEF ReadFails, firmware
<1>12. CASE ChangeMap
  <2>1. UNCHANGED <<pc, uefi_mmap, i, MemKey>> /\ key' = key + 1
    BY <1>12 DEF ChangeMap, walk
  <2>2. key \in Int /\ (Whole => uefi_mmap.mapkey \in Int)
    BY DEF TypeOK, Key, Answered
  <2> QED  BY <2>1, <2>2 DEF WalkStaysInMap, KeyNamesMap, Whole, Bytes
<1>13. CASE Press
  BY <1>13, Aside DEF Press, firmware
<1>14. CASE UNCHANGED vars
  BY <1>14, Aside DEF vars, walk
<1> QED
  BY <1>1, <1>2, <1>3, <1>4, <1>5, <1>6, <1>7, <1>8, <1>9, <1>10, <1>11, <1>12,
     <1>13, <1>14 DEF Next, efi_main, Ended
-----------------------------------------------------------------------------
(* The theorems.                                                           *)

\* The invariant holds in every state.
THEOREM Invariance == Spec => []IInv
<1>1. Init => IInv
  BY Initially
<1>2. IInv /\ [Next]_vars => IInv'
  BY TypeStep, WalkStep DEF IInv
<1> QED  BY <1>1, <1>2, PTL DEF Spec

\* Types: the walk's offset is always that of a descriptor.
THEOREM TypeCorrect == Spec => []TypeOK
<1>1. IInv => TypeOK
  BY DEF IInv
<1> QED  BY <1>1, Invariance, PTL

\* A map that fits is never read beyond its end (memory_stuff.c 29-40).
THEOREM WalkInMap == Spec => []WalkStaysInMap
<1>1. IInv => WalkStaysInMap
  BY DEF IInv
<1> QED  BY <1>1, Invariance, PTL

\* The boot services end with the printed map in force (main.c 20-27).
THEOREM ExitWithPrinted == Spec => ExitsWithPrintedMap
<1>1. IInv /\ [Next]_vars
         => [services /\ ~services' /\ Whole => map = uefi_mmap.buffer]_vars
  <2> SUFFICES ASSUME IInv, [Next]_vars, services, ~services', Whole
               PROVE  map = uefi_mmap.buffer
    OBVIOUS
  <2>1. ExitBootServices
    BY DEF Next, efi_main, GetMemoryMap, Walk, WalkEnds, Announce, gdt_setup,
           Report, Reset, ReadKeyStroke, NotReady, ReadFails, ChangeMap, Press,
           Ended, firmware, vars
  <2>2. MemKey = key /\ pc # "walk"
    BY <2>1 DEF ExitBootServices
  <2> QED  BY <2>2 DEF IInv, KeyNamesMap
<1> QED  BY <1>1, Invariance, PTL DEF Spec, ExitsWithPrintedMap

-----------------------------------------------------------------------------
(* What is printed.                                                        *)

\* Before GetMemoryMap is asked nothing has been printed.
NothingPrinted == pc = "ask" => printed = <<>> /\ index = 0

PrintInv == PrintedIsUsable /\ NothingPrinted

\* A descriptor of an answer that is whole is found at its offset, and only it.
LEMMA FoundAt ==
    ASSUME NEW ans \in Answered, ans.nbytes = Bytes(ans.buffer),
           NEW n \in Nat, NEW o, o = DESC_SIZE * n, o < ans.nbytes
    PROVE  /\ n + 1 \in 1 .. Len(ans.buffer)
           /\ DescriptorsAt(ans, o) = {ans.buffer[n + 1]}
<1>1. ans.buffer \in Seq(Descriptor) /\ DESC_SIZE \in Nat \ {0}
  BY UefiFirmwareAssumption DEF Answered
<1> DEFINE length == Len(ans.buffer)
<1>2. length \in Nat /\ o < DESC_SIZE * length
  BY <1>1 DEF Bytes
<1> HIDE DEF length
<1>3. n < length
  <2> SUFFICES ASSUME length <= n PROVE FALSE
    BY <1>1, <1>2
  <2>1. DESC_SIZE * length <= DESC_SIZE * n
        /\ DESC_SIZE * length \in Nat /\ DESC_SIZE * n \in Nat
    BY <1>1, <1>2, Multiples
  <2> QED
    BY <1>2, <2>1
<1>4. ASSUME NEW m \in 1 .. length
      PROVE  (m - 1) * DESC_SIZE = o <=> m = n + 1
  <2>1. m - 1 \in Nat /\ (m - 1) * DESC_SIZE = DESC_SIZE * (m - 1)
    BY <1>1, <1>2
  <2>2. m - 1 < n => DESC_SIZE * (m - 1) + DESC_SIZE <= DESC_SIZE * n
    BY <1>1, <2>1, NextMultiple
  <2>3. n < m - 1 => DESC_SIZE * n + DESC_SIZE <= DESC_SIZE * (m - 1)
    BY <1>1, <2>1, NextMultiple
  <2>4. DESC_SIZE * (m - 1) \in Nat /\ DESC_SIZE * n \in Nat
    BY <1>1, <2>1
  <2> QED
    BY <1>1, <1>2, <2>1, <2>2, <2>3, <2>4
<1>5. {m \in 1 .. length : (m - 1) * DESC_SIZE = o} = {n + 1}
  <2> DEFINE Here(m) == (m - 1) * DESC_SIZE = o
  <2>1. n + 1 \in 1 .. length
    BY <1>2, <1>3
  <2>2. \A m \in 1 .. length : Here(m) <=> m = n + 1
    BY <1>4
  <2> HIDE DEF Here
  <2>3. {m \in 1 .. length : Here(m)} = {n + 1}
    BY <2>1, <2>2, Zenon
  <2> QED
    BY <2>3 DEF Here
<1> QED
  BY <1>1, <1>2, <1>3, <1>5 DEF DescriptorsAt, length

\* So it is with the loop of print_memory_map.
LEMMA FoundAtIndex ==
    ASSUME TypeOK, Whole, KeyNamesMap, i < uefi_mmap.nbytes
    PROVE  DescriptorsAt(uefi_mmap, i) = {uefi_mmap.buffer[index + 1]}
<1>1. /\ uefi_mmap \in Answered /\ index \in Nat
      /\ uefi_mmap.nbytes = Bytes(uefi_mmap.buffer)
  BY DEF TypeOK, KeyNamesMap
<1>2. i = DESC_SIZE * index
  BY UefiFirmwareAssumption DEF TypeOK
<1> QED
  BY <1>1, <1>2, FoundAt

\* One turn of the loop prints its descriptor if it is usable, and counts it.
LEMMA WalkPrints == IInv /\ PrintInv /\ Walk => PrintInv'
<1> SUFFICES ASSUME IInv, PrintInv, Walk, Whole' PROVE PrintedIsUsable'
  BY DEF PrintInv, NothingPrinted, Walk, PrintedIsUsable
<1>1. Whole /\ uefi_mmap' = uefi_mmap /\ index' = index + 1 /\ i < uefi_mmap.nbytes
  BY DEF Walk, Whole
<1> DEFINE buffer == uefi_mmap.buffer
           here == buffer[index + 1]
           is_usable(n) == buffer[n].Type = "EfiConventionalMemory"
           usable == {n \in 1 .. index : is_usable(n)}
           entry == [index |-> index, desc |-> here]
<1>2. /\ index \in Nat
      /\ DescriptorsAt(uefi_mmap, i) = {here}
      /\ printed \in Seq([index : Nat, desc : Descriptor])
  BY <1>1, FoundAtIndex DEF IInv, TypeOK
<1>3. printed' = IF is_usable(index + 1) THEN Append(printed, entry) ELSE printed
  BY <1>2 DEF Walk
<1>4. /\ {printed[n].index + 1 : n \in 1 .. Len(printed)} = usable
      /\ \A n \in 1 .. Len(printed) :
            /\ printed[n].desc = buffer[printed[n].index + 1]
            /\ n > 1 => printed[n - 1].index < printed[n].index
  BY <1>1 DEF PrintInv, PrintedIsUsable
<1>5. Len(printed) \in Nat /\ \A n \in 1 .. Len(printed) :
         printed[n].index \in Nat /\ printed[n].index < index
  <2>1. ASSUME NEW n \in 1 .. Len(printed)
        PROVE  printed[n].index \in Nat /\ printed[n].index < index
    <3>1. printed[n].index + 1 \in 1 .. index
      <4>1. printed[n].index + 1 \in usable
        BY <1>4
      <4> QED
        BY <4>1
    <3>2. printed[n].index \in Nat /\ index \in Nat
      <4>1. printed[n] \in [index : Nat, desc : Descriptor]
        BY <1>2, ElementOfSeq
      <4> QED
        BY <1>2, <4>1
    <3> QED
      BY <3>1, <3>2
  <2> QED
    BY <1>2, <2>1
<1> DEFINE now_usable == {n \in 1 .. index + 1 : is_usable(n)}
<1> SUFFICES /\ {printed'[n].index + 1 : n \in 1 .. Len(printed')} = now_usable
             /\ \A n \in 1 .. Len(printed') :
                   /\ printed'[n].desc = buffer[printed'[n].index + 1]
                   /\ n > 1 => printed'[n - 1].index < printed'[n].index
  BY <1>1 DEF PrintedIsUsable
<1>6. CASE ~is_usable(index + 1)
  <2>1. now_usable = usable
    BY <1>2, <1>6
  <2> QED
    BY <1>3, <1>4, <1>6, <2>1
<1>7. CASE is_usable(index + 1)
  <2>1. now_usable = usable \union {index + 1}
    BY <1>2, <1>7
  <2> HIDE DEF is_usable, entry
  <2>2. /\ printed' = Append(printed, entry)
        /\ Len(printed') = Len(printed) + 1
        /\ printed'[Len(printed) + 1] = entry
        /\ \A n \in 1 .. Len(printed) : printed'[n] = printed[n]
    BY <1>2, <1>3, <1>7
  <2>3. 1 .. Len(printed') = (1 .. Len(printed)) \union {Len(printed) + 1}
    BY <1>5, <2>2
  <2>4. entry.index = index /\ entry.desc = buffer[index + 1]
    BY DEF entry
  <2> HIDE DEF now_usable, usable
  <2>5. {printed'[n].index + 1 : n \in 1 .. Len(printed')} = usable \union {index + 1}
    BY <1>4, <2>2, <2>3, <2>4
  <2>6. ASSUME NEW n \in 1 .. Len(printed')
        PROVE  /\ printed'[n].desc = buffer[printed'[n].index + 1]
               /\ n > 1 => printed'[n - 1].index < printed'[n].index
    <3>1. CASE n \in 1 .. Len(printed)
      <4>1. n > 1 => n - 1 \in 1 .. Len(printed)
        BY <1>5, <3>1
      <4> QED
        BY <1>4, <2>2, <3>1, <4>1
    <3>2. CASE n = Len(printed) + 1
      <4>1. n > 1 => n - 1 = Len(printed) /\ Len(printed) \in 1 .. Len(printed)
        BY <1>5, <3>2
      <4> QED
        BY <1>5, <2>2, <2>4, <3>2, <4>1
    <3> QED
      BY <2>3, <3>1, <3>2
  <2> QED
    BY <2>1, <2>5, <2>6
<1> QED
  BY <1>6, <1>7

\* A step that leaves the loop of print_memory_map alone prints nothing.
LEMMA PrintAside ==
    ASSUME PrintInv, UNCHANGED <<uefi_mmap, index, printed>>, pc' # "ask" \/ pc' = pc,
           Whole' => Whole
    PROVE  PrintInv'
  BY DEF PrintInv, PrintedIsUsable, NothingPrinted

\* Every step keeps what has been printed in agreement with the map.
LEMMA PrintStep == IInv /\ PrintInv /\ [Next]_vars => PrintInv'
<1> SUFFICES ASSUME IInv, PrintInv, [Next]_vars PROVE PrintInv'
  OBVIOUS
<1>1. CASE GetMemoryMap
  BY <1>1, EmptySeq DEF GetMemoryMap, PrintInv, NothingPrinted, PrintedIsUsable
<1>2. CASE Walk
  BY <1>2, WalkPrints
<1>3. CASE WalkEnds
  BY <1>3, PrintAside DEF WalkEnds, Whole
<1>4. CASE ~(GetMemoryMap \/ Walk \/ WalkEnds)
  BY <1>4, PrintAside
  DEF Next, efi_main, ExitBootServices, Announce, gdt_setup, Report, Reset,
      ReadKeyStroke, NotReady, ReadFails, ChangeMap, Press, Ended, Through, vars,
      walk, firmware, Whole
<1> QED
  BY <1>1, <1>2, <1>3, <1>4

\* What is printed is the usable memory of the map that was returned
\* (memory_stuff.c 29-44).
THEOREM Printed == Spec => []PrintedIsUsable
<1>1. Init => PrintInv
  BY DEF Init, PrintInv, NothingPrinted, PrintedIsUsable, Whole
<1>2. PrintInv => PrintedIsUsable
  BY DEF PrintInv
<1> QED
  BY <1>1, <1>2, PrintStep, Invariance, PTL DEF Spec
-----------------------------------------------------------------------------
(* The keys.                                                               *)

\* While efi_main waits, the keys in the buffer are those of the wait.
KeyInv == EarlyKeysIgnored /\ (pc = "poll" => typed \in Seq({"wait"}))

\* A key from before the reset never comes through.
LEMMA KeyStep == TypeOK /\ KeyInv /\ [Next]_vars => KeyInv'
<1> SUFFICES ASSUME TypeOK, KeyInv, [Next]_vars PROVE KeyInv'
  OBVIOUS
<1> USE DEF KeyInv, EarlyKeysIgnored
<1>1. CASE Reset
  <2>1. pc' = "poll" => typed' = <<>>
    BY <1>1 DEF Reset, Through
  <2>2. <<>> \in Seq({"wait"})
    OBVIOUS
  <2>3. answer' # "early"
    BY <1>1 DEF Reset
  <2> QED
    BY <2>1, <2>2, <2>3
<1>2. CASE ReadKeyStroke
  BY <1>2 DEF ReadKeyStroke, Through
<1>3. CASE Press
  BY <1>3 DEF Press
<1>4. CASE NotReady
  BY <1>4 DEF NotReady, Through
<1>5. CASE ReadFails
  BY <1>5 DEF ReadFails
<1>6. CASE UNCHANGED vars
  BY <1>6 DEF vars
<1>7. CASE GetMemoryMap \/ Walk \/ WalkEnds \/ ExitBootServices \/ Announce
           \/ gdt_setup \/ Report \/ ChangeMap
  BY <1>7 DEF GetMemoryMap, Walk, WalkEnds, ExitBootServices, Announce, gdt_setup,
              Report, ChangeMap, Through
<1> QED
  BY <1>1, <1>2, <1>3, <1>4, <1>5, <1>6, <1>7 DEF Next, efi_main, Ended

\* A key pressed before the wait never ends it (main.c 37-46).
THEOREM EarlyKeys == Spec => []EarlyKeysIgnored
<1>1. Init => KeyInv
  BY DEF Init, KeyInv, EarlyKeysIgnored
<1>2. KeyInv => EarlyKeysIgnored
  BY DEF KeyInv
<1> QED
  BY <1>1, <1>2, KeyStep, TypeCorrect, PTL DEF Spec
-----------------------------------------------------------------------------
(* The descriptor table.                                                   *)

\* The table has ten entries.
LEMMA GdtTable ==
    /\ DOMAIN gdt_table = 1 .. 10
    /\ gdt_table[2] = Blank("kernel code") /\ gdt_table[3] = Blank("kernel data")
    /\ gdt_table[9] = Blank("tss") /\ gdt_table[10] = Blank("null")
<1>1. gdt_table \in Seq({Blank("null"), Blank("kernel code"), Blank("kernel data"),
                         Blank("user data"), Blank("user code"), Blank("tss")})
  BY DEF gdt_table
<1>2. Len(gdt_table) = 10
  BY DEF gdt_table
<1>3. DOMAIN gdt_table = 1 .. Len(gdt_table)
  BY <1>1, LenProperties
<1>4. /\ gdt_table[2] = Blank("kernel code") /\ gdt_table[3] = Blank("kernel data")
      /\ gdt_table[9] = Blank("tss") /\ gdt_table[10] = Blank("null")
  BY DEF gdt_table
<1> QED
  BY <1>2, <1>3, <1>4

\* What gdt_setup makes of the table's entries.
LEMMA EntriesFor ==
    ASSUME NEW b, NEW low, low = DescriptorAt(TableFor(b), TASK),
           NEW high, high = DescriptorAt(TableFor(b), TASK + 8)
    PROVE  /\ DescriptorAt(TableFor(b), CODE).type = "kernel code"
           /\ DescriptorAt(TableFor(b), DATA).type = "kernel data"
           /\ low.type = "tss"
           /\ low.base15_0 = b % WORD
           /\ low.base23_16 = (b \div WORD) % BYTE
           /\ low.base31_24 = (b \div (WORD * BYTE)) % BYTE
           /\ high.limit15_0 = (b \div (WORD * WORD)) % WORD
           /\ high.base15_0 = (b \div (WORD * WORD * WORD)) % WORD
<1> DEFINE t  == gdt_table
           p0 == b % WORD
           p2 == (b \div WORD) % BYTE
           p3 == (b \div (WORD * BYTE)) % BYTE
           p4 == (b \div (WORD * WORD)) % WORD
           p6 == (b \div (WORD * WORD * WORD)) % WORD
           t9 == [t[9] EXCEPT !.base15_0 = p0, !.base23_16 = p2, !.base31_24 = p3,
                              !.limit15_0 = TSS_SIZE]
           t10 == [t[10] EXCEPT !.limit15_0 = p4, !.base15_0 = p6]
<1>1. TableFor(b) = [t EXCEPT ![9] = t9, ![10] = t10]
  BY DEF TableFor
<1>2. DOMAIN t = 1 .. 10 /\ t[2] = Blank("kernel code") /\ t[3] = Blank("kernel data")
      /\ t[9] = Blank("tss") /\ t[10] = Blank("null")
  BY GdtTable
<1> HIDE DEF t, p0, p2, p3, p4, p6
<1>3. t9.type = "tss" /\ t9.base15_0 = p0 /\ t9.base23_16 = p2 /\ t9.base31_24 = p3
  <2>1. t[9] = [type |-> "tss", limit15_0 |-> 0, base15_0 |-> 0,
                base23_16 |-> 0, base31_24 |-> 0]
    BY <1>2 DEF Blank
  <2> QED
    BY <2>1
<1>4. t10.limit15_0 = p4 /\ t10.base15_0 = p6
  <2>1. t[10] = [type |-> "null", limit15_0 |-> 0, base15_0 |-> 0,
                 base23_16 |-> 0, base31_24 |-> 0]
    BY <1>2 DEF Blank
  <2> QED
    BY <2>1
<1>5. Blank("kernel code").type = "kernel code" /\ Blank("kernel data").type = "kernel data"
  BY DEF Blank
<1> HIDE DEF t9, t10
<1>8. DOMAIN t = 1 .. 10
  BY <1>2
<1>6. /\ TableFor(b)[2] = t[2] /\ TableFor(b)[3] = t[3]
      /\ TableFor(b)[9] = t9 /\ TableFor(b)[10] = t10
  BY <1>1, <1>8
<1>7. CODE \div 8 + 1 = 2 /\ DATA \div 8 + 1 = 3 /\ TASK \div 8 + 1 = 9
      /\ (TASK + 8) \div 8 + 1 = 10
  BY DEF CODE, DATA, TASK
<1> QED
  BY <1>2, <1>3, <1>4, <1>5, <1>6, <1>7 DEF DescriptorAt, p0, p2, p3, p4, p6

\* The byte that begins the upper half of the lower address.
LEMMA ByteOfWord ==
    ASSUME NEW b \in Nat
    PROVE  b \div (WORD * BYTE) = (b \div WORD) \div BYTE
<1>1. BYTE \in Nat \ {0} /\ WORD \in Nat \ {0}
  BY UefiGdtAssumption DEF WORD
<1> QED
  BY <1>1, DivideTwice

\* The six pieces of an address, put together, are the address.
LEMMA PiecesOfAddress ==
    ASSUME NEW b \in Nat, b < WORD * WORD * WORD * WORD
    PROVE  TaskBase(TableFor(b), TASK) = b
<1> DEFINE q1 == b \div WORD
           q2 == b \div (WORD * WORD)
           q3 == b \div (WORD * WORD * WORD)
           p  == b \div (WORD * BYTE)
<1>1. WORD \in Nat \ {0}
  BY UefiGdtAssumption DEF WORD
<1>2. p = q1 \div BYTE
  BY ByteOfWord
<1>3. q2 = q1 \div WORD /\ q3 = q2 \div WORD /\ WORD * WORD * WORD \in Nat \ {0}
  BY <1>1, ThreeQuotients, ZenonT(40)
<1>4. q3 % WORD = q3
  BY <1>1, <1>3, LeadingDigit
<1>5. TaskBase(TableFor(b), TASK)
        = (b % WORD) + WORD * ((q1 % BYTE) + BYTE * (p % BYTE))
            + WORD * WORD * ((q2 % WORD) + WORD * (q3 % WORD))
  <2> DEFINE low  == DescriptorAt(TableFor(b), TASK)
             high == DescriptorAt(TableFor(b), TASK + 8)
  <2>1. /\ low.base15_0 = b % WORD
        /\ low.base23_16 = q1 % BYTE
        /\ low.base31_24 = p % BYTE
        /\ high.limit15_0 = q2 % WORD
        /\ high.base15_0 = q3 % WORD
    BY EntriesFor, ZenonT(40)
  <2>2. TaskBase(TableFor(b), TASK)
          = low.base15_0 + WORD * (low.base23_16 + BYTE * low.base31_24)
              + WORD * WORD * (high.limit15_0 + WORD * high.base15_0)
    BY DEF TaskBase
  <2> HIDE DEF low, high, q1, q2, q3, p
  <2> QED
    BY <2>1, <2>2
<1> HIDE DEF q2, q3, p
<1>6. /\ q1 \in Nat
      /\ b = (b % WORD) + WORD * (q1 % WORD) + WORD * WORD * ((q2 % WORD) + WORD * q3)
  <2> DEFINE p2 == q1 \div WORD
             p3 == p2 \div WORD
  <2>1. q1 \in Nat /\ b = (b % WORD) + WORD * (q1 % WORD)
                            + (WORD * WORD) * ((p2 % WORD) + WORD * p3)
    BY <1>1, FourDigits
  <2>2. p2 = q2 /\ p3 = q3
    BY <1>3
  <2> HIDE DEF q1, q2, q3, p2, p3
  <2> QED
    BY <2>1, <2>2
<1> HIDE DEF q1
<1>7. (q1 % BYTE) + BYTE * ((q1 \div BYTE) % BYTE) = q1 % WORD
  BY <1>1, <1>6, UefiGdtAssumption, TwoDigits DEF WORD
<1> QED
  BY <1>2, <1>4, <1>5, <1>6, <1>7

\* The table that is loaded names the tss, at whatever address the firmware
\* has loaded the program (gdt_stuff.c 66-73).
THEOREM TableNames == Spec => []TableNamesTss
<1>1. TypeOK => TableNamesTss
  <2> SUFFICES ASSUME TypeOK, gdtr # FirmwareGdt PROVE TableNamesTss
    BY DEF TableNamesTss
  <2>1. PICK b \in TssAddresses : gdtr = OurGdt(b)
    BY DEF TypeOK, Gdt
  <2>2. gdtr.table = TableFor(b) /\ gdtr.tss = b
    BY <2>1 DEF OurGdt
  <2>3. b \in Nat /\ b < WORD * WORD * WORD * WORD
    <3> DEFINE w4 == WORD * WORD * WORD * WORD
    <3>1. b \in 0 .. w4 - 1 /\ w4 \in Int
      BY UefiGdtAssumption DEF WORD
    <3> HIDE DEF w4
    <3>2. b \in Nat /\ b < w4
      BY <3>1
    <3> QED
      BY <3>2 DEF w4
  <2>4. TaskBase(gdtr.table, TASK) = gdtr.tss
    BY <2>2, <2>3, PiecesOfAddress
  <2>5. /\ DescriptorAt(TableFor(b), CODE).type = "kernel code"
        /\ DescriptorAt(TableFor(b), DATA).type = "kernel data"
        /\ DescriptorAt(TableFor(b), TASK).type = "tss"
    BY EntriesFor
  <2> QED
    BY <2>2, <2>4, <2>5 DEF TableNamesTss
<1> QED
  BY <1>1, TypeCorrect, PTL
-----------------------------------------------------------------------------
(* The page allocator.                                                     *)

\* A step beside the allocator is one of efi_main and its surroundings, a step
\* of the allocator none.
LEMMA BootStepOrNone == [PageNext]_<<vars, pageVars>> => [Next]_vars
  BY DEF PageNext, Flow, Next

\* With the allocator in use efi_main does what it does without it.
THEOREM PageImplementsBoot == PageSpec => Spec
<1>1. PageInit => Init
  BY DEF PageInit
<1> QED
  BY <1>1, BootStepOrNone, PTL DEF PageSpec, Spec

\* So all that is proved above holds beside the allocator.
THEOREM BootBesidePages ==
    PageSpec => /\ [](WalkStaysInMap /\ PrintedIsUsable)
                /\ [](EarlyKeysIgnored /\ TableNamesTss)
                /\ ExitsWithPrintedMap
  BY PageImplementsBoot, WalkInMap, Printed, EarlyKeys, TableNames, ExitWithPrinted, PTL

\* The descriptors pagealloc_init has compared.
Compared == at \div DESC_SIZE

\* While pagealloc_init is in its loop no page has been handed out after it;
\* before the first call nothing has been looked at.
SearchOrder ==
    /\ searching => handed = <<>> /\ inits > 0
    /\ inits = 0 => compared = {}

\* The chunk that is kept is the largest of those compared so far.
LargestSoFar ==
    /\ \A chunk \in Usable : chunk.NumberOfPages <= best_number_of_pages
    /\ best_number_of_pages > 0 => \E chunk \in Usable : IsBest(chunk)

\* Of a map that fits, the descriptors before the loop's place have been compared.
SearchedSoFar ==
    inits > 0 /\ chunks.nbytes <= UEFI_MMAP_SIZE =>
      /\ chunks.nbytes = Bytes(chunks.buffer)
      /\ ~searching => at >= chunks.nbytes
      /\ \A n \in 1 .. Len(chunks.buffer) :
            n <= Compared => chunks.buffer[n] \in compared
      /\ inits = 1 => compared \subseteq Chunks

\* The pages follow each other from the start of the chunk.
HandedInOrder ==
    inits > 0 /\ ~searching =>
      /\ next_alloc_page = best_alloc_start + Len(handed)
      /\ \A n \in 1 .. Len(handed) : handed[n] = best_alloc_start + n - 1

PageInv == /\ PageTypeOK /\ SearchOrder
           /\ LargestSoFar /\ SearchedSoFar /\ HandedInOrder

\* The invariant of the allocator holds at first.
LEMMA PageInitially == PageInit => PageInv
<1> SUFFICES ASSUME PageInit PROVE PageInv
  OBVIOUS
<1>1. TypeOK
  BY Initially DEF PageInit, IInv
<1>2. <<>> \in Seq(Descriptor) /\ <<>> \in Seq(Nat) /\ 0 \in Key
  BY UefiFirmwareAssumption DEF Key
<1>3. 0 % DESC_SIZE = 0
  BY UefiFirmwareAssumption
<1>4. PageTypeOK
  <2>1. chunks \in Answered
    BY <1>2 DEF PageInit, Answered
  <2>2. 0 \in 0 .. MaxInits /\ 0 \in 0 .. MaxPages
    BY PageAllocAssumption
  <2> QED
    BY <1>1, <1>2, <1>3, <2>1, <2>2 DEF PageInit, PageTypeOK
<1> QED
  BY <1>4 DEF PageInit, PageInv, SearchOrder, LargestSoFar, SearchedSoFar,
              HandedInOrder, Usable

\* Every step keeps the types.
LEMMA PageTypeStep == PageTypeOK /\ [PageNext]_<<vars, pageVars>> => PageTypeOK'
<1> SUFFICES ASSUME PageTypeOK, [PageNext]_<<vars, pageVars>> PROVE PageTypeOK'
  OBVIOUS
<1>1. TypeOK'
  BY BootStepOrNone, TypeStep DEF PageTypeOK
<1> USE DEF PageTypeOK
<1>2. CASE AskForChunks
  <2>1. chunks' \in Answered
    BY <1>2, AnswersTyped DEF AskForChunks, TypeOK
  <2>2. at' \in Nat /\ at' % DESC_SIZE = 0
    BY <1>2, UefiFirmwareAssumption DEF AskForChunks
  <2>3. inits' \in 0 .. MaxInits
    BY <1>2, PageAllocAssumption DEF AskForChunks
  <2>4. handed' \in Seq(Nat)
    BY <1>2 DEF AskForChunks
  <2> QED
    BY <1>1, <1>2, <2>1, <2>2, <2>3, <2>4 DEF AskForChunks, best
<1>3. CASE Search
  <2>1. PICK desc \in DescriptorsAt(chunks, at) :
           /\ compared' = compared \union {desc}
           /\ \/ /\ best_number_of_pages' = desc.NumberOfPages
                 /\ best_alloc_start' = desc.PhysicalStart
              \/ UNCHANGED best
    BY <1>3 DEF Search
  <2>2. desc \in Descriptor /\ compared' \subseteq Descriptor
    BY <2>1, FoundTyped
  <2>3. best_alloc_start' \in Nat /\ best_number_of_pages' \in Nat
    BY <2>1, <2>2 DEF best, Descriptor
  <2>4. at' \in Nat /\ at' % DESC_SIZE = 0
    <3>1. DESC_SIZE \in Nat \ {0} /\ at \in Nat /\ at % DESC_SIZE = 0
          /\ at' = at + DESC_SIZE
      BY <1>3, UefiFirmwareAssumption DEF Search
    <3>2. PICK q \in Nat : at = DESC_SIZE * q
      BY <3>1, NoRemainder
    <3>3. at' = DESC_SIZE * (q + 1)
      BY <3>1, <3>2
    <3> DEFINE p == q + 1
    <3>4. p \in Nat
      OBVIOUS
    <3> HIDE DEF p
    <3>5. DESC_SIZE * p \in Nat /\ (DESC_SIZE * p) % DESC_SIZE = 0
      BY <3>1, <3>4, NoRemainder
    <3> QED
      BY <3>3, <3>5 DEF p
  <2> QED
    BY <1>1, <1>3, <2>2, <2>3, <2>4 DEF Search
<1>4. CASE SearchEnds
  BY <1>1, <1>4 DEF SearchEnds, best
<1>5. CASE pagealloc_alloc
  <2>1. handed' \in Seq(Nat)
    BY <1>5, AppendProperties DEF pagealloc_alloc
  <2>2. pages_used' \in 0 .. MaxPages /\ next_alloc_page' \in Nat
    BY <1>5, PageAllocAssumption DEF pagealloc_alloc
  <2> QED
    BY <1>1, <1>5, <2>1, <2>2 DEF pagealloc_alloc, best
<1>6. CASE UNCHANGED pageVars
  BY <1>1, <1>6 DEF pageVars, best
<1> QED
  BY <1>2, <1>3, <1>4, <1>5, <1>6 DEF PageNext, Flow, pagealloc_init

\* One more descriptor is compared.
LEMMA OneMoreCompared ==
    ASSUME PageTypeOK, at' = at + DESC_SIZE
    PROVE  /\ Compared \in Nat /\ at = DESC_SIZE * Compared
           /\ Compared' = Compared + 1
<1>1. DESC_SIZE \in Nat \ {0} /\ at \in Nat /\ at % DESC_SIZE = 0
  BY UefiFirmwareAssumption DEF PageTypeOK
<1>2. Compared \in Nat /\ at = DESC_SIZE * Compared
  BY <1>1, Split DEF Compared
<1>3. at' = DESC_SIZE * (Compared + 1) + 0 /\ 0 \in 0 .. DESC_SIZE - 1
  BY <1>1, <1>2
<1>4. at' \div DESC_SIZE = Compared + 1
  BY <1>1, <1>2, <1>3, Unique
<1> QED
  BY <1>2, <1>4 DEF Compared

\* Comparing a descriptor keeps the largest chunk.
LEMMA SearchKeepsLargest ==
    ASSUME PageInv, Search
    PROVE  LargestSoFar'
<1>1. PICK desc \in DescriptorsAt(chunks, at) :
         /\ compared' = compared \union {desc}
         /\ IF /\ desc.Type = "EfiConventionalMemory"
               /\ desc.NumberOfPages > best_number_of_pages
            THEN /\ best_number_of_pages' = desc.NumberOfPages
                 /\ best_alloc_start' = desc.PhysicalStart
            ELSE UNCHANGED best
  BY DEF Search
<1>2. /\ LargestSoFar /\ best_number_of_pages \in Nat
      /\ compared \subseteq Descriptor /\ desc \in Descriptor
  BY FoundTyped DEF PageInv, PageTypeOK
<1>3. \A chunk \in Descriptor : chunk.NumberOfPages \in Nat
  BY DEF Descriptor
<1>4. CASE /\ desc.Type = "EfiConventionalMemory"
           /\ desc.NumberOfPages > best_number_of_pages
  <2>1. desc \in Usable' /\ IsBest(desc)'
    BY <1>1, <1>4 DEF Usable, IsBest
  <2>2. ASSUME NEW chunk \in Usable'
        PROVE  chunk.NumberOfPages <= best_number_of_pages'
    <3>1. chunk = desc \/ chunk \in Usable
      BY <1>1 DEF Usable
    <3>2. best_number_of_pages' = desc.NumberOfPages /\ chunk \in Descriptor
      BY <1>1, <1>2, <1>4, <3>1 DEF Usable
    <3> QED
      BY <1>2, <1>3, <1>4, <3>1, <3>2 DEF LargestSoFar
  <2> QED
    BY <2>1, <2>2 DEF LargestSoFar
<1>5. CASE ~(/\ desc.Type = "EfiConventionalMemory"
             /\ desc.NumberOfPages > best_number_of_pages)
  <2>1. UNCHANGED <<best_alloc_start, best_number_of_pages>>
    BY <1>1, <1>5 DEF best
  <2>2. ASSUME NEW chunk \in Usable'
        PROVE  chunk.NumberOfPages <= best_number_of_pages
    <3>1. (chunk = desc /\ desc.Type = "EfiConventionalMemory") \/ chunk \in Usable
      BY <1>1 DEF Usable
    <3> QED
      BY <1>2, <1>3, <1>5, <3>1 DEF LargestSoFar
  <2>3. ASSUME best_number_of_pages > 0
        PROVE  \E chunk \in Usable' : IsBest(chunk)'
    <3>1. PICK chunk \in Usable : IsBest(chunk)
      BY <1>2, <2>3 DEF LargestSoFar
    <3>2. chunk \in Usable' /\ IsBest(chunk)'
      BY <1>1, <2>1, <3>1 DEF Usable, IsBest
    <3> QED
      BY <3>2
  <2> QED
    BY <2>1, <2>2, <2>3 DEF LargestSoFar
<1> QED
  BY <1>4, <1>5

\* And it brings the next descriptor of a map that fits among those compared.
LEMMA SearchGoesOn ==
    ASSUME PageInv, Search
    PROVE  SearchedSoFar'
<1> SUFFICES ASSUME inits' > 0, chunks'.nbytes <= UEFI_MMAP_SIZE
             PROVE  SearchedSoFar'
  BY DEF SearchedSoFar
<1>1. /\ UNCHANGED <<searching, chunks, inits>> /\ searching
      /\ at < chunks.nbytes /\ at' = at + DESC_SIZE
  BY DEF Search
<1> DEFINE buffer == chunks.buffer
<1>2. /\ chunks \in Answered /\ chunks.nbytes = Bytes(buffer)
      /\ \A n \in 1 .. Len(buffer) : n <= Compared => buffer[n] \in compared
      /\ inits = 1 => compared \subseteq Chunks
  BY <1>1 DEF PageInv, SearchedSoFar, PageTypeOK
<1>3. Compared \in Nat /\ at = DESC_SIZE * Compared /\ Compared' = Compared + 1
  BY <1>1, OneMoreCompared DEF PageInv
<1>4. /\ Compared + 1 \in 1 .. Len(buffer)
      /\ DescriptorsAt(chunks, at) = {buffer[Compared + 1]}
  BY <1>1, <1>2, <1>3, FoundAt
<1>5. compared' = compared \union {buffer[Compared + 1]}
  BY <1>4 DEF Search
<1>6. ASSUME NEW n \in 1 .. Len(buffer), n <= Compared + 1
      PROVE  buffer[n] \in compared'
  <2>1. n = Compared + 1 \/ n <= Compared
    BY <1>3, <1>6
  <2> QED
    BY <1>2, <1>5, <2>1
<1>7. buffer[Compared + 1] \in Chunks /\ Chunks' = Chunks
  BY <1>1, <1>4 DEF Chunks
<1> QED
  BY <1>1, <1>2, <1>3, <1>5, <1>6, <1>7 DEF SearchedSoFar

\* Every step keeps the order of the search, its result, and the order of the
\* pages.
LEMMA PageStep == PageInv /\ [PageNext]_<<vars, pageVars>> => PageInv'
<1> SUFFICES ASSUME PageInv, [PageNext]_<<vars, pageVars>> PROVE PageInv'
  OBVIOUS
<1> USE DEF PageInv
<1>1. PageTypeOK'
  BY PageTypeStep
<1>2. CASE AskForChunks
  <2>1. SearchOrder' /\ HandedInOrder' /\ LargestSoFar'
    BY <1>2 DEF AskForChunks, SearchOrder, HandedInOrder, LargestSoFar, Usable,
                IsBest, PageTypeOK, best
  <2>2. ASSUME chunks'.nbytes <= UEFI_MMAP_SIZE PROVE SearchedSoFar'
    <3>1. searching' /\ at' = 0 /\ compared' = compared /\ inits' = inits + 1
      BY <1>2 DEF AskForChunks
    <3>2. chunks'.nbytes = Bytes(chunks'.buffer)
      BY <1>2, <2>2, AnswersWhole DEF AskForChunks, PageTypeOK, TypeOK
    <3>3. Compared' = 0
      <4>1. DESC_SIZE \in Nat \ {0}
        BY UefiFirmwareAssumption
      <4> QED
        BY <3>1, <4>1 DEF Compared
    <3>4. inits' = 1 => compared' = {}
      BY <3>1 DEF SearchOrder, PageTypeOK
    <3> QED
      BY <3>1, <3>2, <3>3, <3>4 DEF SearchedSoFar
  <2> QED
    BY <1>1, <2>1, <2>2 DEF SearchedSoFar
<1>3. CASE Search
  <2>1. SearchOrder'
    BY <1>3 DEF Search, SearchOrder
  <2>2. HandedInOrder'
    BY <1>3 DEF Search, HandedInOrder
  <2> QED
    BY <1>1, <1>3, <2>1, <2>2, SearchKeepsLargest, SearchGoesOn
<1>4. CASE SearchEnds
  <2>1. SearchOrder' /\ LargestSoFar'
    BY <1>4 DEF SearchEnds, SearchOrder, LargestSoFar, Usable, IsBest, best
  <2>2. SearchedSoFar'
    BY <1>4 DEF SearchEnds, SearchedSoFar, Chunks, Compared
  <2>3. handed' = <<>> /\ next_alloc_page' = best_alloc_start'
        /\ best_alloc_start' \in Nat
    BY <1>4 DEF SearchEnds, SearchOrder, best, PageTypeOK
  <2>4. Len(handed') = 0
    BY <2>3
  <2>5. next_alloc_page' = best_alloc_start' + Len(handed')
    <3>1. ASSUME NEW a \in Nat, NEW b, b = 0 PROVE a = a + b
      BY <3>1
    <3> QED
      BY <2>3, <2>4, <3>1
  <2>6. HandedInOrder'
    BY <2>4, <2>5 DEF HandedInOrder
  <2> QED
    BY <1>1, <2>1, <2>2, <2>6
<1>5. CASE pagealloc_alloc
  <2>1. SearchOrder' /\ LargestSoFar'
    BY <1>5 DEF pagealloc_alloc, SearchOrder, LargestSoFar, Usable, IsBest, best
  <2>2. SearchedSoFar'
    BY <1>5 DEF pagealloc_alloc, SearchedSoFar, Chunks, Compared
  <2>3. ASSUME inits' > 0, ~searching' PROVE HandedInOrder'
    <3>1. /\ next_alloc_page = best_alloc_start + Len(handed)
          /\ \A n \in 1 .. Len(handed) : handed[n] = best_alloc_start + n - 1
          /\ handed' = Append(handed, next_alloc_page)
          /\ next_alloc_page' = next_alloc_page + 1
          /\ best_alloc_start' = best_alloc_start
      BY <1>5, <2>3 DEF pagealloc_alloc, HandedInOrder, best
    <3>2. handed \in Seq(Nat) /\ next_alloc_page \in Nat /\ best_alloc_start \in Nat
      BY DEF PageTypeOK
    <3>3. /\ Len(handed') = Len(handed) + 1 /\ Len(handed) \in Nat
          /\ handed'[Len(handed) + 1] = next_alloc_page
          /\ \A n \in 1 .. Len(handed) : handed'[n] = handed[n]
      BY <3>1, <3>2, AppendProperties, LenProperties
    <3>4. next_alloc_page' = best_alloc_start' + Len(handed')
      BY <3>1, <3>2, <3>3
    <3>5. ASSUME NEW n \in 1 .. Len(handed')
          PROVE  handed'[n] = best_alloc_start' + n - 1
      <4>1. n \in 1 .. Len(handed) \/ n = Len(handed) + 1
        BY <3>3
      <4>2. CASE n \in 1 .. Len(handed)
        BY <3>1, <3>3, <4>2
      <4>3. CASE n = Len(handed) + 1
        BY <3>1, <3>2, <3>3, <4>3
      <4> QED
        BY <4>1, <4>2, <4>3
    <3> QED
      BY <3>4, <3>5 DEF HandedInOrder
  <2> QED
    BY <1>1, <2>1, <2>2, <2>3 DEF HandedInOrder
<1>6. CASE UNCHANGED pageVars
  BY <1>1, <1>6 DEF pageVars, best, SearchOrder, LargestSoFar, SearchedSoFar,
                    HandedInOrder, Usable, IsBest, Chunks, Compared
<1> QED
  BY <1>2, <1>3, <1>4, <1>5, <1>6 DEF PageNext, Flow, pagealloc_init

\* The invariant of the allocator holds in every state.
THEOREM PageInvariance == PageSpec => []PageInv
  BY PageInitially, PageStep, PTL DEF PageSpec

\* Types, of the boot and of the allocator.
THEOREM PageTypes == PageSpec => []PageTypeOK
<1>1. PageInv => PageTypeOK
  BY DEF PageInv
<1> QED
  BY <1>1, PageInvariance, PTL

\* The chunk that is kept is the largest of all that any call of pagealloc_init
\* has looked at, and each call looks at all of a map that fits
\* (memory_stuff.c 78-86).
THEOREM LargestChunk == PageSpec => []ChunkIsLargest
<1>1. PageInv => ChunkIsLargest
  <2> SUFFICES ASSUME PageInv, inits > 0, ~searching PROVE ChunkIsLargest
    BY DEF ChunkIsLargest
  <2>1. LargestSoFar
    BY DEF PageInv
  <2>2. ASSUME chunks.nbytes <= UEFI_MMAP_SIZE
        PROVE  Chunks \subseteq compared /\ (inits = 1 => compared = Chunks)
    <3> DEFINE buffer == chunks.buffer
    <3>1. /\ at >= DESC_SIZE * Len(buffer) /\ buffer \in Seq(Descriptor)
          /\ DESC_SIZE \in Nat \ {0} /\ at \in Nat /\ at % DESC_SIZE = 0
          /\ \A n \in 1 .. Len(buffer) : n <= Compared => buffer[n] \in compared
          /\ inits = 1 => compared \subseteq Chunks
      BY <2>2, UefiFirmwareAssumption
      DEF PageInv, SearchedSoFar, PageTypeOK, Answered, Bytes
    <3>2. Compared \in Nat /\ at = DESC_SIZE * Compared
      <4>1. DESC_SIZE \in Nat \ {0} /\ at \in Nat /\ at % DESC_SIZE = 0
        BY <3>1
      <4> QED
        BY <4>1, NoRemainder DEF Compared
    <3>3. Len(buffer) <= Compared
      <4> SUFFICES ASSUME Compared < Len(buffer) PROVE FALSE
        BY <3>1, <3>2, LenProperties
      <4>1. Len(buffer) \in Nat
        BY <3>1, LenProperties
      <4>2. DESC_SIZE * Compared + DESC_SIZE <= DESC_SIZE * Len(buffer)
            /\ DESC_SIZE * Len(buffer) \in Nat
        BY <3>1, <3>2, <4>1, NextMultiple, Multiples
      <4> QED
        BY <3>1, <3>2, <4>2
    <3>4. \A n \in 1 .. Len(buffer) : n <= Compared
      BY <3>1, <3>2, <3>3, LenProperties
    <3> QED
      BY <3>1, <3>4 DEF Chunks
  <2> QED
    BY <2>1, <2>2 DEF ChunkIsLargest, LargestSoFar
<1> QED
  BY <1>1, PageInvariance, PTL

\* The pages handed out since the last pagealloc_init are those of its chunk as
\* long as it lasts, and no page of it afterwards; no two are one
\* (memory_stuff.c 88-97).
THEOREM UsablePages == PageSpec => []PagesAreUsable
<1>1. PageInv => PagesAreUsable
  <2> SUFFICES ASSUME PageInv, inits > 0, ~searching PROVE PagesAreUsable
    BY DEF PagesAreUsable
  <2>1. /\ \A n \in 1 .. Len(handed) : handed[n] = best_alloc_start + n - 1
        /\ handed \in Seq(Nat) /\ best_alloc_start \in Nat
        /\ best_number_of_pages \in Nat
    BY DEF PageInv, HandedInOrder, PageTypeOK
  <2>2. ASSUME NEW m \in 1 .. Len(handed), NEW n \in 1 .. Len(handed),
               handed[m] = handed[n]
        PROVE  m = n
    BY <2>1, <2>2
  <2>3. ASSUME best_number_of_pages > 0
        PROVE  \E chunk \in Usable :
                  /\ IsBest(chunk)
                  /\ \A n \in 1 .. Len(handed) :
                        handed[n] \in PagesOf(chunk) <=> n <= best_number_of_pages
    <3>1. PICK chunk \in Usable : IsBest(chunk)
      BY <2>3 DEF PageInv, LargestSoFar
    <3>2. PagesOf(chunk) = best_alloc_start .. best_alloc_start + best_number_of_pages - 1
      BY <3>1 DEF IsBest, PagesOf
    <3>3. ASSUME NEW n \in 1 .. Len(handed)
          PROVE  handed[n] \in PagesOf(chunk) <=> n <= best_number_of_pages
      BY <2>1, <3>2
    <3> QED
      BY <3>1, <3>3
  <2> QED
    BY <2>2, <2>3 DEF PagesAreUsable
<1> QED
  BY <1>1, PageInvariance, PTL
=============================================================================
