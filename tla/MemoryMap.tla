----------------------------- MODULE MemoryMap -----------------------------
(***************************************************************************)
(* The memory map of the archived kernel.  In real mode the boot code asks *)
(* the BIOS for the map, an entry at a time (build_memory_map in           *)
(* memory_lowlevel.asm), and stores it at 0x5000, closed by an entry of    *)
(* zeros.  In long mode memory_analyze_and_print (memory.cpp) copies it    *)
(* and walks it to the first entry of length zero.                         *)
(*                                                                         *)
(* The two sides share nothing but that convention.                        *)
(*                                                                         *)
(* The kernel's .bss is taken to be zero when it starts, as on a machine   *)
(* whose memory was cleared: no code clears it, the linker does not load   *)
(* it (linker_map.map, NOLOAD), and archived_efforts/README.md:91 says as  *)
(* much of crt0.  memory_region_map lies there, and so does the break of   *)
(* sbrk.  Only an sbrk before the copy reads what nobody has written.      *)
(***************************************************************************)
EXTENDS Integers, Sequences, FiniteSets

CONSTANTS
    Region,       \* what an entry describes, by name
    EMPTY,        \* a region of length zero, or not a region at all
    MapEntries,   \* entries of memory_region_map (256)
    MaxAnswers    \* bound on the entries the firmware has

ASSUME MemoryMapAssumption ==
    /\ EMPTY \in Region /\ \E region \in Region : region # EMPTY
    /\ MapEntries \in Nat \ {0}
    /\ MaxAnswers \in Nat

\* An answer of the BIOS: the region, how many bytes of the entry it has
\* written, and bit 0 of the extended attributes, which only an answer of 24
\* bytes has.  The bit is clear when the entry is to be ignored.
Answer == [region : Region, size : {20},    valid : {TRUE}]
            \union [region : Region,  size : {24}, valid : BOOLEAN]
            \union [region : {EMPTY}, size : {0},  valid : {FALSE}]

\* How the BIOS ends the list: ebx is zero with the last entry, or it refuses
\* the next call, by the carry flag or by a signature other than SMAP.
Ending == {"ebx", "refusal"}

VARIABLES
    answers,   \* the answers the firmware will give
    ending,    \* how it ends the list
    pc,
    k,         \* answers given
    di,        \* the entry at 0x5000 that is written next
    table,     \* the regions of the entries from 0x5000 on
    map,       \* memory_region_map
    i,         \* the index of memory_analyze_and_print
    printed    \* the regions it has printed

vars == <<answers, ending, pc, k, di, table, map, i, printed>>
firmware == <<answers, ending>>

\* Whatever lies at 0x5000, and behind an array.
Junk == CHOOSE region \in Region : region # EMPTY

Slots == 0 .. MaxAnswers + MapEntries

Init == /\ answers \in UNION {[1 .. n -> Answer] : n \in 0 .. MaxAnswers}
        /\ ending \in Ending
        /\ ending = "ebx" => answers # <<>>
        /\ pc = "ask" /\ k = 0 /\ di = 0
        /\ table = [slot \in Slots |-> Junk]
        /\ map = [slot \in 0 .. MapEntries - 1 |-> EMPTY]    \* .bss, taken as zero
        /\ i = 0 /\ printed = <<>>
-----------------------------------------------------------------------------
(* build_memory_map.                                                       *)

\* An entry without length, or whose attributes say that it is to be ignored.
Ignored(answer) == answer.size = 0 \/ (answer.size > 20 /\ ~answer.valid)

\* Mutant: the entry is written and di moved on before the answer is tested.
AskKeepsAll ==
       /\ pc = "ask" /\ k < Len(answers)
       /\ table' = [table EXCEPT ![di] = answers[k + 1].region]
       /\ di' = di + 1
       /\ k' = k + 1
       /\ pc' = IF ending = "ebx" /\ k' = Len(answers) THEN "terminate" ELSE "ask"
       /\ UNCHANGED <<firmware, map, i, printed>>

\* int 0x15, eax = 0xe820.  What the BIOS has written stays in the entry,
\* whether or not the loop then keeps the entry by moving di on.
Ask == /\ pc = "ask" /\ k < Len(answers)
       /\ LET answer == answers[k + 1]
          IN  /\ table' = IF answer.size = 0 THEN table
                          ELSE [table EXCEPT ![di] = answer.region]
              /\ di' = IF Ignored(answer) THEN di ELSE di + 1
       /\ k' = k + 1
       /\ pc' = IF ending = "ebx" /\ k' = Len(answers) THEN "terminate" ELSE "ask"
       /\ UNCHANGED <<firmware, map, i, printed>>

\* The carry flag, or a signature other than SMAP: the list has ended, or
\* the function is not there at all.
Refused == /\ pc = "ask" /\ k = Len(answers)
           /\ pc' = "terminate"
           /\ UNCHANGED <<firmware, k, di, table, map, i, printed>>

\* Mutant: no terminator is written.
NoTerminator == /\ pc = "terminate"
                /\ pc' = "copy"
                /\ UNCHANGED <<firmware, k, di, table, map, i, printed>>

\* Twelve words of zero.
Terminate == /\ pc = "terminate"
             /\ table' = [table EXCEPT ![di] = EMPTY]
             /\ pc' = "copy"
             /\ UNCHANGED <<firmware, k, di, map, i, printed>>
-----------------------------------------------------------------------------
(* memory_analyze_and_print, in long mode.                                 *)

Copy == /\ pc = "copy"
        /\ map' = [slot \in 0 .. MapEntries - 1 |-> table[slot]]
        /\ pc' = "walk"
        /\ UNCHANGED <<firmware, k, di, table, i, printed>>

\* The entry at an index.  Behind the array lies whatever the linker put
\* there; one entry of it that does not look empty is enough to go wrong.
Entry(index) == IF index < MapEntries THEN map[index]
                ELSE IF index = MapEntries THEN Junk ELSE EMPTY

\* Mutant: the index is advanced before it is used.
WalkFromOne ==
        /\ pc = "walk"
        /\ Entry(i) # EMPTY
        /\ printed' = Append(printed, Entry(i + 1))
        /\ i' = i + 1
        /\ UNCHANGED <<firmware, pc, k, di, table, map>>

\* Mutant: the index is never advanced.
WalkStands ==
        /\ pc = "walk"
        /\ Entry(i) # EMPTY
        /\ UNCHANGED vars

Walk == /\ pc = "walk"
        /\ Entry(i) # EMPTY
        /\ printed' = Append(printed, Entry(i))
        /\ i' = i + 1
        /\ UNCHANGED <<firmware, pc, k, di, table, map>>

WalkEnds == /\ pc = "walk"
            /\ Entry(i) = EMPTY
            /\ pc' = "done"
            /\ UNCHANGED <<firmware, k, di, table, map, i, printed>>

Done == pc = "done" /\ UNCHANGED vars

Next == Ask \/ Refused \/ Terminate \/ Copy \/ Walk \/ WalkEnds \/ Done

Spec == Init /\ [][Next]_vars
-----------------------------------------------------------------------------
(* Properties.                                                             *)

\* Types.  di counts no more entries than the firmware has answered.
TypeOK == /\ answers \in Seq(Answer) /\ ending \in Ending
          /\ pc \in {"ask", "terminate", "copy", "walk", "done"}
          /\ k \in 0 .. Len(answers)
          /\ di \in 0 .. k
          /\ table \in [Slots -> Region]
          /\ map \in [0 .. MapEntries - 1 -> Region]
          /\ i \in Nat
          /\ printed \in Seq(Region)

\* Which of the first n answers offer a region and do not ask to ignore it, and
\* how many of these come before an answer.
Offered(n) == {m \in 1 .. n : ~Ignored(answers[m])}
Before(m)  == Cardinality(Offered(m - 1))

\* What has been kept so far is what was offered so far, in its order and
\* without holes, and the bytes of an ignored answer never stay in the list:
\* the next answer or the terminator overwrites them
\* (memory_lowlevel.asm 12-41).
TableIsWhatWasOffered ==
    /\ di = Cardinality(Offered(k))
    /\ \A n \in Offered(k) : table[Before(n)] = answers[n].region
    /\ pc \notin {"ask", "terminate"} => table[di] = EMPTY

\* The walk stays inside memory_region_map (memory.cpp 63-74), provided the
\* firmware keeps fewer entries than the array has.
WalkStaysInside == Len(answers) < MapEntries => i < MapEntries

\* The walk prints exactly the regions offered before the first empty one.
PrintsUpToEmpty ==
    pc = "done" /\ Len(answers) < MapEntries =>
      LET full == {n \in Offered(Len(answers)) :
                     \A m \in Offered(n) : answers[m].region # EMPTY}
      IN  /\ Len(printed) = Cardinality(full)
          /\ \A n \in full : printed[Before(n) + 1] = answers[n].region
=============================================================================
