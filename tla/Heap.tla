-------------------------------- MODULE Heap --------------------------------
(***************************************************************************)
(* sbrk, the one call by which Newlib's malloc gets memory from the        *)
(* archived kernel (newlib_glue_syscalls.cpp 46-62), and the search for    *)
(* memory it begins with (memory_first_usable_memory, memory.cpp 100-109). *)
(*                                                                         *)
(* A caller of sbrk(n) takes the n bytes from the address it is given:     *)
(* that is what sbrk promises, and what malloc relies on.                  *)
(***************************************************************************)
EXTENDS MemoryMap

CONSTANTS
    Increments,   \* sizes callers ask for
    MaxCalls      \* bound on the calls of a behaviour

USABLE == 1                      \* "Type 1: Usable (normal) RAM"
NULL   == 0

\* What sbrk reads of an entry.  An entry without length has no other use than
\* to end the map.
ASSUME HeapAssumption ==
    /\ Region \subseteq [base : Nat, length : Nat, type : Nat]
    /\ \A region \in Region : region.length = 0 <=> region = EMPTY
    /\ Increments \subseteq Nat \ {0}
    /\ MaxCalls \in Nat

VARIABLES
    next_heap,  \* next_heap_to_send
    heap_pc,    \* where sbrk is
    incr,       \* its argument
    toreturn,   \* the local of memory_first_usable_memory
    grants      \* history: the blocks the callers have been given

heapVars == <<next_heap, heap_pc, incr, toreturn, grants>>

HeapInit == /\ Init
            /\ next_heap = NULL                     \* .bss too
            /\ heap_pc = "idle" /\ incr = 0 /\ toreturn = NULL
            /\ grants = <<>>

\* sbrk is called from long mode, before memory_analyze_and_print or after it;
\* the first time it has no heap yet.
Call == /\ heap_pc = "idle" /\ pc \in {"copy", "done"}
        /\ Len(grants) < MaxCalls
        /\ incr' \in Increments
        /\ heap_pc' = IF next_heap = NULL THEN "search" ELSE "advance"
        /\ UNCHANGED <<next_heap, toreturn, grants>> /\ UNCHANGED vars

First == map[0]

\* Mutant: the loop does not look for the terminator.
SearchingForEver == toreturn = NULL

\* The condition of the loop.  Its index is never advanced, so it is the first
\* entry that is looked at, again and again.
Searching == toreturn = NULL /\ First.length # 0

SearchOn == /\ heap_pc = "search" /\ Searching
            /\ heap_pc' = "look"
            /\ UNCHANGED <<next_heap, incr, toreturn, grants>> /\ UNCHANGED vars

Look == /\ heap_pc = "look"
        /\ toreturn' = IF First.type = USABLE THEN First.base ELSE toreturn
        /\ heap_pc' = "search"
        /\ UNCHANGED <<next_heap, incr, grants>> /\ UNCHANGED vars

SearchEnds == /\ heap_pc = "search" /\ ~Searching
              /\ next_heap' = toreturn
              /\ toreturn' = NULL
              /\ heap_pc' = "advance"
              /\ UNCHANGED <<incr, grants>> /\ UNCHANGED vars

\* Mutant: the advanced pointer is returned, but not kept.
AdvanceNotKept ==
           /\ heap_pc = "advance"
           /\ next_heap' = next_heap
           /\ grants' = Append(grants, [start |-> next_heap + incr, size |-> incr])
           /\ heap_pc' = "idle" /\ incr' = 0
           /\ UNCHANGED toreturn /\ UNCHANGED vars

\* The pointer is advanced, and it is the advanced pointer that is returned.
Advance == /\ heap_pc = "advance"
           /\ next_heap' = next_heap + incr
           /\ grants' = Append(grants, [start |-> next_heap', size |-> incr])
           /\ heap_pc' = "idle" /\ incr' = 0
           /\ UNCHANGED toreturn /\ UNCHANGED vars

Sbrk == SearchOn \/ Look \/ SearchEnds \/ Advance

\* sbrk and the walk over the map run in one flow.
HeapNext == Call \/ Sbrk \/ (heap_pc = "idle" /\ Next /\ UNCHANGED heapVars)

HeapSpec == HeapInit /\ [][HeapNext]_<<vars, heapVars>>
-----------------------------------------------------------------------------
(* Properties.                                                             *)

Grant == [start : Nat, size : Nat]

\* Types.  The break never falls below zero.
HeapTypeOK == /\ TypeOK
              /\ next_heap \in Nat /\ incr \in Nat /\ toreturn \in Nat
              /\ heap_pc \in {"idle", "search", "look", "advance"}
              /\ grants \in Seq(Grant)

EndOf(grant) == grant.start + grant.size
Disjoint(g, h) == EndOf(g) <= h.start \/ EndOf(h) <= g.start

\* No two blocks overlap.
BlocksAreDisjoint ==
    \A m, n \in 1 .. Len(grants) : m < n => Disjoint(grants[m], grants[n])

\* sbrk returns the advanced pointer (58-61), so each block begins where the
\* break is moved to, not where it was.  As long as no request is smaller than
\* the one before, no two blocks overlap all the same.
Growing == \A m \in 1 .. Len(grants) - 1 : grants[m].size <= grants[m + 1].size

GrowingBlocksAreDisjoint == Growing => BlocksAreDisjoint

\* The search ends on a map that is empty, or not copied yet, or begins with
\* usable memory at an address that is not zero.
FirstIsUsable ==
    First.length = 0 \/ (First.type = USABLE /\ First.base # 0)

SearchEndsIfFirstIsUsable ==
    (heap_pc = "search" /\ FirstIsUsable) ~> heap_pc = "idle"

\* The search ends on every map, and sbrk returns: "Hooks to allow Newlib to
\* operate in place. Tested and works" (archived_efforts/README.md:25).  A PC's
\* map begins with usable memory at address zero.
SbrkReturns == heap_pc = "search" ~> heap_pc = "idle"
=============================================================================
