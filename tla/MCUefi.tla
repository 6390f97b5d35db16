------------------------------- MODULE MCUefi -------------------------------
(***************************************************************************)
(* Instances of the UEFI boot and of the page allocator: maps of up to     *)
(* three descriptors, among them two chunks of one size, of a page each so *)
(* that two requests leave them, and a reserved one that is the largest,   *)
(* and a map of four that the buffer does not hold.                        *)
(***************************************************************************)
EXTENDS PageAlloc

Ram(start, pages)   == [Type |-> "EfiConventionalMemory",
                        PhysicalStart |-> start, NumberOfPages |-> pages]
Taken(start, pages) == [Type |-> "other",
                        PhysicalStart |-> start, NumberOfPages |-> pages]

MCMaps == {<<Taken(0, 2), Ram(2, 1), Ram(4, 1)>>,
           <<Ram(1, 1), Taken(2, 4), Ram(6, 2)>>,
           <<Ram(0, 1), Ram(2, 1), Ram(4, 1), Ram(6, 4)>>}
\* Addresses of sixteen digits to the base two, no two pieces of them alike.
MCTssAddresses == {6699, 40147}
=============================================================================
