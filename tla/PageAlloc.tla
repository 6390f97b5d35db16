----------------------------- MODULE PageAlloc -----------------------------
(***************************************************************************)
(* The page allocator of src/memory_stuff.c beside efi_main: at its first  *)
(* call pagealloc_init picks the largest chunk of conventional memory, and *)
(* pagealloc_alloc hands its pages out one after the other.                *)
(*                                                                         *)
(* No one calls either yet.  pagealloc_init ends with the remark "call     *)
(* ExitBootServices(ImageHandle, mapkey)" (90) and needs the boot services *)
(* itself, so the callers here stand before that call of efi_main; pages   *)
(* are asked for there, and again when the descriptor table is loaded.     *)
(*                                                                         *)
(* Addresses are counted in pages of 4096 bytes.  pagealloc_alloc is       *)
(* declared void and yet returns its page; the page is taken as returned.  *)
(***************************************************************************)
EXTENDS UefiBoot

CONSTANTS
    MaxInits,   \* bound on the calls of pagealloc_init in a behaviour
    MaxPages    \* bound on those of pagealloc_alloc

ASSUME PageAllocAssumption == MaxInits \in Nat /\ MaxPages \in Nat

VARIABLES
    searching,              \* the flow is in the loop of pagealloc_init
    chunks, at,             \* its locals uefi_mmap and i
    best_alloc_start, best_number_of_pages,
    next_alloc_page, pages_used,
    inits,                  \* history: calls of pagealloc_init
    compared,               \* history: the descriptors all of them have looked at
    handed                  \* history: the pages handed out since the last one

best     == <<best_alloc_start, best_number_of_pages>>
pageVars == <<searching, chunks, at, best, next_alloc_page, pages_used, inits,
              compared, handed>>

PageInit == /\ Init
            /\ searching = FALSE
            /\ chunks = [nbytes |-> 0, buffer |-> <<>>, mapkey |-> 0] /\ at = 0
            /\ best_alloc_start = 0 /\ best_number_of_pages = 0
            /\ next_alloc_page = 0 /\ pages_used = 0
            /\ inits = 0 /\ compared = {} /\ handed = <<>>
-----------------------------------------------------------------------------
(* pagealloc_init.  What an earlier call has found is not reset.           *)

AskForChunks == /\ ~searching /\ pc = "exit" /\ services
                /\ inits < MaxInits /\ inits' = inits + 1
                /\ chunks' \in Answers(map, key) /\ at' = 0
                /\ searching' = TRUE
                /\ handed' = <<>>
                /\ UNCHANGED <<best, next_alloc_page, pages_used, compared>>

\* Mutant: reserved memory is compared too.
SearchAnyType ==
    /\ searching /\ at < chunks.nbytes
    /\ \E desc \in DescriptorsAt(chunks, at) :
         /\ compared' = compared \union {desc}
         /\ IF desc.NumberOfPages > best_number_of_pages
            THEN /\ best_number_of_pages' = desc.NumberOfPages
                 /\ best_alloc_start' = desc.PhysicalStart
            ELSE UNCHANGED best
    /\ at' = at + DESC_SIZE
    /\ UNCHANGED <<searching, chunks, next_alloc_page, pages_used, inits, handed>>

\* The first of the largest chunks is kept.
Search ==
    /\ searching /\ at < chunks.nbytes
    /\ \E desc \in DescriptorsAt(chunks, at) :
         /\ compared' = compared \union {desc}
         /\ IF /\ desc.Type = "EfiConventionalMemory"
               /\ desc.NumberOfPages > best_number_of_pages
            THEN /\ best_number_of_pages' = desc.NumberOfPages
                 /\ best_alloc_start' = desc.PhysicalStart
            ELSE UNCHANGED best
    /\ at' = at + DESC_SIZE
    /\ UNCHANGED <<searching, chunks, next_alloc_page, pages_used, inits, handed>>

SearchEnds ==
    /\ searching /\ at >= chunks.nbytes
    /\ next_alloc_page' = best_alloc_start
    /\ searching' = FALSE
    /\ UNCHANGED <<chunks, at, best, pages_used, inits, compared, handed>>
-----------------------------------------------------------------------------
(* pagealloc_alloc.                                                        *)

\* Mutant: the page behind the one that is due.
AllocSkips ==
    /\ ~searching /\ pc \in {"exit", "report"} /\ pages_used < MaxPages
    /\ handed' = Append(handed, next_alloc_page + 1)
    /\ next_alloc_page' = next_alloc_page + 1
    /\ pages_used' = pages_used + 1
    /\ UNCHANGED <<searching, chunks, at, best, inits, compared>>

\* Neither the end of the chunk nor a missing pagealloc_init is looked for.
pagealloc_alloc ==
    /\ ~searching /\ pc \in {"exit", "report"} /\ pages_used < MaxPages
    /\ handed' = Append(handed, next_alloc_page)
    /\ next_alloc_page' = next_alloc_page + 1
    /\ pages_used' = pages_used + 1
    /\ UNCHANGED <<searching, chunks, at, best, inits, compared>>
-----------------------------------------------------------------------------
pagealloc_init == Search \/ SearchEnds

\* The steps of the one flow; its firmware and its user act at any time.
Flow == \/ ~searching /\ efi_main /\ UNCHANGED pageVars
        \/ pagealloc_init /\ UNCHANGED vars

PageNext == \/ Flow
            \/ (AskForChunks \/ pagealloc_alloc) /\ UNCHANGED vars
            \/ /\ NotReady \/ ReadFails \/ ChangeMap \/ Press \/ Ended
               /\ UNCHANGED pageVars

PageSpec == PageInit /\ [][PageNext]_<<vars, pageVars>>

\* The processor executes the program; nobody need call the allocator.
FairPageSpec == PageSpec /\ WF_<<vars, pageVars>>(Flow)
-----------------------------------------------------------------------------
(* Properties.                                                             *)

PageTypeOK ==
    /\ TypeOK
    /\ searching \in BOOLEAN
    /\ chunks \in Answered
    /\ at \in Nat /\ at % DESC_SIZE = 0
    /\ best_alloc_start \in Nat /\ best_number_of_pages \in Nat
    /\ next_alloc_page \in Nat /\ pages_used \in 0 .. MaxPages
    /\ inits \in 0 .. MaxInits /\ compared \subseteq Descriptor /\ handed \in Seq(Nat)

\* The descriptors of the last map pagealloc_init was given, none if it did not fit.
Chunks == {chunks.buffer[n] : n \in 1 .. Len(chunks.buffer)}
Usable == {desc \in compared : desc.Type = "EfiConventionalMemory"}
PagesOf(chunk) ==
    chunk.PhysicalStart .. chunk.PhysicalStart + chunk.NumberOfPages - 1

\* The chunk that is kept, if there is one.
IsBest(chunk) == /\ chunk.PhysicalStart = best_alloc_start
                 /\ chunk.NumberOfPages = best_number_of_pages

\* "Check if this is the largest space" (memory_stuff.c:80): after any number of
\* calls of pagealloc_init none of the usable descriptors they have looked at is
\* larger than the chunk that is kept, and that chunk is one of them.  If the map
\* of the last call fitted into the buffer, all of it has been looked at; if there
\* was no other call, nothing else has.  After several calls the chunk may be one
\* of an older map, and after a map that did not fit one of no map at all.
ChunkIsLargest ==
    inits > 0 /\ ~searching =>
      /\ \A chunk \in Usable : chunk.NumberOfPages <= best_number_of_pages
      /\ best_number_of_pages > 0 => \E chunk \in Usable : IsBest(chunk)
      /\ chunks.nbytes <= UEFI_MMAP_SIZE =>
            /\ Chunks \subseteq compared
            /\ inits = 1 => compared = Chunks

\* Of the pages handed out since the last pagealloc_init those are in the chunk it
\* kept that come before the number of its pages, and no others: the first page
\* too many, and every one after it, lies behind the chunk.  No page among them
\* is handed out twice, also when callers had taken pages before that call, and
\* so from address zero on (memory_stuff.c 88-97).
PagesAreUsable ==
    inits > 0 /\ ~searching =>
      /\ best_number_of_pages > 0 =>
            \E chunk \in Usable :
               /\ IsBest(chunk)
               /\ \A n \in 1 .. Len(handed) :
                     handed[n] \in PagesOf(chunk) <=> n <= best_number_of_pages
      /\ \A m, n \in 1 .. Len(handed) : handed[m] = handed[n] => m = n
=============================================================================
