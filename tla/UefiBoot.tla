------------------------------ MODULE UefiBoot ------------------------------
(***************************************************************************)
(* The boot through UEFI: efi_main (src/main.c), with print_memory_map     *)
(* (src/memory_stuff.c), and the firmware it runs on.                      *)
(*                                                                         *)
(* Until ExitBootServices succeeds the firmware is alive: its timers fire  *)
(* between any two steps of the program, and its drivers allocate and free *)
(* memory.  ExitBootServices succeeds with the key of the current map      *)
(* only; after that the console is gone with the other boot services, and  *)
(* a call through it may end anywhere.                                     *)
(***************************************************************************)
EXTENDS UefiFirmware, UefiGdt

CONSTANTS
    GdtLinks,      \* whether gdt_setup and load_gdt are linked: the outcomes looked
                   \* at.  At this commit they are not: the Makefile leaves
                   \* gdt_stuff.o out, and the assembly calls the latter gdt_load
    MaxKeystrokes  \* bound on the keys pressed in a behaviour

ASSUME UefiBootAssumption == GdtLinks \subseteq BOOLEAN /\ MaxKeystrokes \in Nat

VARIABLES
    services,   \* the boot services are up
    map, key,   \* the firmware's memory map and its key
    linked,     \* the program was built with gdt_setup and load_gdt in it
    typed,      \* the console's input: keys pressed "early", or when we "wait"
    pc,         \* where efi_main is
    uefi_mmap,  \* the local of print_memory_map
    i, index,   \* its loop
    printed,    \* the descriptors it has printed, each with its index
    MemKey,     \* the key it returned
    gdtr,       \* the descriptor table that is loaded
    answer      \* how efi_main ended: "none" before, then the key or "error"

vars == <<services, map, key, linked, typed, pc, uefi_mmap, i, index, printed,
          MemKey, gdtr, answer>>
firmware == <<services, map, key, linked>>
walk     == <<uefi_mmap, i, index, printed, MemKey>>

Init == /\ services = TRUE /\ map \in Maps /\ key = 0 /\ linked \in GdtLinks
        /\ typed = <<>>
        /\ pc = "ask"
        /\ uefi_mmap = [nbytes |-> 0, buffer |-> <<>>, mapkey |-> 0]
        /\ i = 0 /\ index = 0 /\ printed = <<>> /\ MemKey = 0
        /\ gdtr = FirmwareGdt /\ answer = "none"
-----------------------------------------------------------------------------
(* The firmware and the person at the keyboard.                            *)

ChangeMap == /\ services /\ key < MaxChanges
             /\ map' \in Maps /\ key' = key + 1
             /\ UNCHANGED <<services, linked, typed, pc, gdtr, answer>>
             /\ UNCHANGED walk

Press == /\ Len(typed) < MaxKeystrokes
         /\ typed' = Append(typed, IF pc = "poll" THEN "wait" ELSE "early")
         /\ UNCHANGED <<pc, gdtr, answer>> /\ UNCHANGED firmware /\ UNCHANGED walk
-----------------------------------------------------------------------------
(* print_memory_map.                                                       *)

\* Its status is not looked at.
GetMemoryMap == /\ pc = "ask"
                /\ uefi_mmap' \in Answers(map, key)
                /\ i' = 0 /\ index' = 0
                /\ pc' = "walk"
                /\ UNCHANGED <<printed, MemKey, typed, gdtr, answer>>
                /\ UNCHANGED firmware

\* Mutant: the index counts what is printed.
WalkCountsPrinted ==
        /\ pc = "walk" /\ i < uefi_mmap.nbytes
        /\ \E desc \in DescriptorsAt(uefi_mmap, i) :
              IF desc.Type = "EfiConventionalMemory"
              THEN /\ printed' = Append(printed, [index |-> index, desc |-> desc])
                   /\ index' = index + 1
              ELSE UNCHANGED <<printed, index>>
        /\ i' = i + DESC_SIZE
        /\ UNCHANGED <<pc, uefi_mmap, MemKey, typed, gdtr, answer>>
        /\ UNCHANGED firmware

\* Mutant: from one descriptor to the next by their size, not by desc_size.
WalkBySize ==
        /\ pc = "walk" /\ i < uefi_mmap.nbytes
        /\ \E desc \in DescriptorsAt(uefi_mmap, i) :
              printed' = IF desc.Type = "EfiConventionalMemory"
                         THEN Append(printed, [index |-> index, desc |-> desc])
                         ELSE printed
        /\ i' = i + DESC_SIZE - 1
        /\ index' = index + 1
        /\ UNCHANGED <<pc, uefi_mmap, MemKey, typed, gdtr, answer>>
        /\ UNCHANGED firmware

\* Usable memory is printed; every descriptor counts.
Walk == /\ pc = "walk" /\ i < uefi_mmap.nbytes
        /\ \E desc \in DescriptorsAt(uefi_mmap, i) :
              printed' = IF desc.Type = "EfiConventionalMemory"
                         THEN Append(printed, [index |-> index, desc |-> desc])
                         ELSE printed
        /\ i' = i + DESC_SIZE
        /\ index' = index + 1
        /\ UNCHANGED <<pc, uefi_mmap, MemKey, typed, gdtr, answer>>
        /\ UNCHANGED firmware

\* Mutant: the key is asked for again when the map has been printed.
WalkEndsAsksAgain ==
            /\ pc = "walk" /\ i >= uefi_mmap.nbytes
            /\ MemKey' = key
            /\ pc' = "exit"
            /\ UNCHANGED <<uefi_mmap, i, index, printed, typed, gdtr, answer>>
            /\ UNCHANGED firmware

WalkEnds == /\ pc = "walk" /\ i >= uefi_mmap.nbytes
            /\ MemKey' = uefi_mmap.mapkey
            /\ pc' = "exit"
            /\ UNCHANGED <<uefi_mmap, i, index, printed, typed, gdtr, answer>>
            /\ UNCHANGED firmware
-----------------------------------------------------------------------------
(* The rest of efi_main.                                                   *)

\* Mutant: the call is repeated until it succeeds, with the same key.
ExitBootServicesAgain ==
    /\ pc = "exit"
    /\ services' = (MemKey # key)
    /\ pc' = IF MemKey = key THEN "announce" ELSE "exit"
    /\ UNCHANGED <<map, key, linked, typed, gdtr, answer>> /\ UNCHANGED walk

\* Whether it succeeded is not looked at.
ExitBootServices ==
    /\ pc = "exit"
    /\ services' = (MemKey # key)
    /\ pc' = "announce"
    /\ UNCHANGED <<map, key, linked, typed, gdtr, answer>> /\ UNCHANGED walk

\* A call through the console of the system table: once the boot services are
\* gone, nobody knows where it leads.
Through(next) == pc' \in IF services THEN {next} ELSE {next, "lost"}

Announce == /\ pc = "announce"                    \* "Setting up GDT... "
            /\ Through("gdt")
            /\ UNCHANGED <<typed, gdtr, answer>> /\ UNCHANGED firmware /\ UNCHANGED walk

\* A call of a function the program does not hold leads nobody knows where.
gdt_setup == /\ pc = "gdt"
             /\ IF linked
                THEN /\ \E tss_base \in TssAddresses : gdtr' = OurGdt(tss_base)
                     /\ pc' = "report"
                ELSE gdtr' = gdtr /\ pc' = "lost"
             /\ UNCHANGED <<typed, answer>> /\ UNCHANGED firmware /\ UNCHANGED walk

Report == /\ pc = "report"                        \* "Done"
          /\ Through("reset")
          /\ UNCHANGED <<typed, gdtr, answer>> /\ UNCHANGED firmware /\ UNCHANGED walk

\* Mutant: the keys pressed so far are kept.
ResetKeepsKeys ==
         /\ pc = "reset"
         /\ \/ Through("poll") /\ answer' = answer
            \/ pc' = "returned" /\ answer' = "error"
         /\ UNCHANGED <<typed, gdtr>> /\ UNCHANGED firmware /\ UNCHANGED walk

\* ConIn->Reset empties the input; a keyboard that does not answer is an error.
Reset == /\ pc = "reset"
         /\ \/ Through("poll") /\ typed' = <<>> /\ answer' = answer
            \/ pc' = "returned" /\ typed' = typed /\ answer' = "error"
         /\ UNCHANGED gdtr /\ UNCHANGED firmware /\ UNCHANGED walk

\* ConIn->ReadKeyStroke with a key; without one the loop turns on the spot; an
\* error other than EFI_NOT_READY ends it too.
ReadKeyStroke == /\ pc = "poll" /\ typed # <<>>
                 /\ Through("returned")
                 /\ answer' = Head(typed) /\ typed' = Tail(typed)
                 /\ UNCHANGED gdtr /\ UNCHANGED firmware /\ UNCHANGED walk

NotReady == /\ pc = "poll" /\ typed = <<>>
            /\ Through("poll")
            /\ UNCHANGED <<typed, gdtr, answer>>
            /\ UNCHANGED firmware /\ UNCHANGED walk

ReadFails == /\ pc = "poll"
             /\ pc' = "returned" /\ answer' = "error"
             /\ UNCHANGED <<typed, gdtr>> /\ UNCHANGED firmware /\ UNCHANGED walk

\* efi_main has returned to the firmware, or has gone astray.
Ended == pc \in {"returned", "lost"} /\ UNCHANGED vars

efi_main == \/ GetMemoryMap \/ Walk \/ WalkEnds
            \/ ExitBootServices \/ Announce \/ gdt_setup \/ Report
            \/ Reset \/ ReadKeyStroke

Next == efi_main \/ NotReady \/ ReadFails \/ ChangeMap \/ Press \/ Ended

Spec == Init /\ [][Next]_vars

\* The processor executes the program; nobody need press a key, the keyboard
\* need not fail, and the firmware need not change its map.
FairSpec == Spec /\ WF_vars(efi_main)
-----------------------------------------------------------------------------
(* Properties.                                                             *)

Label == {"ask", "walk", "exit", "announce", "gdt", "report", "reset", "poll",
          "returned", "lost"}

Answered == [nbytes : Nat, buffer : Seq(Descriptor), mapkey : Key]

\* Types.  The offset of the walk stays on descriptors, also when it leaves
\* the buffer.
TypeOK == /\ services \in BOOLEAN /\ map \in Maps /\ key \in Key /\ linked \in GdtLinks
          /\ typed \in Seq({"early", "wait"})
          /\ pc \in Label
          /\ uefi_mmap \in Answered
          /\ index \in Nat /\ i = index * DESC_SIZE
          /\ printed \in Seq([index : Nat, desc : Descriptor])
          /\ MemKey \in Key
          /\ gdtr \in Gdt
          /\ answer \in {"none", "early", "wait", "error"}

\* GetMemoryMap has answered, and the map fitted into the buffer.
Whole == pc # "ask" /\ uefi_mmap.nbytes <= UEFI_MMAP_SIZE

\* A map that fits is read descriptor by descriptor and never beyond its end,
\* however the firmware's own map changes in the meantime
\* (memory_stuff.c 29-40).
WalkStaysInMap == Whole => i <= Bytes(uefi_mmap.buffer)

\* If the map fitted, what has been printed is the usable memory of the map that
\* was returned, in its order, each chunk under its place in it
\* (memory_stuff.c 29-40).
PrintedIsUsable ==
    Whole =>
      LET usable == {n \in 1 .. index :
                       uefi_mmap.buffer[n].Type = "EfiConventionalMemory"}
      IN  /\ {printed[n].index + 1 : n \in 1 .. Len(printed)} = usable
          /\ \A n \in 1 .. Len(printed) :
                /\ printed[n].desc = uefi_mmap.buffer[printed[n].index + 1]
                /\ n > 1 => printed[n - 1].index < printed[n].index

\* If the map fitted into the buffer, the boot services end with the very map
\* that was printed in force: whatever a timer of the firmware allocates between
\* the two calls, the program never goes on alone with a map that is out of date
\* (main.c 20-27).  Of a map that did not fit nothing is known, its key included.
ExitsWithPrintedMap ==
    [][services /\ ~services' /\ Whole => map = uefi_mmap.buffer]_vars

\* "First, we need to empty the console input buffer to flush out any
\* keystrokes entered before this point" (main.c:37): a key pressed before the
\* wait never ends it.
EarlyKeysIgnored == answer # "early"

\* The table that is loaded has the segments the selectors of gdt_load stand
\* for, and the processor finds the tss where it is (gdt_stuff.c 66-73,
\* gdt_stuff_asm.s 4-14).
TableNamesTss ==
    gdtr # FirmwareGdt =>
      /\ DescriptorAt(gdtr.table, CODE).type = "kernel code"
      /\ DescriptorAt(gdtr.table, DATA).type = "kernel data"
      /\ DescriptorAt(gdtr.table, TASK).type = "tss"
      /\ TaskBase(gdtr.table, TASK) = gdtr.tss

AtItsWait == pc \in {"poll", "returned"}

\* A program with gdt_setup linked into it reaches the wait for a keystroke when
\* the boot services survive, or gives up on a keyboard that does not answer, and
\* a key ends the wait.  The program as it is built now never gets there: its call
\* of gdt_setup leads astray (main.c 29-48, gdt_stuff.c 77).
WaitsIffGdtIsLinked ==
    /\ linked /\ [](services) => /\ <>AtItsWait
                                 /\ (pc = "poll" /\ typed # <<>>) ~> pc = "returned"
    /\ ~linked => []~AtItsWait

\* Without either proviso: "Now wait for a keystroke before continuing,
\* otherwise your message will flash off the screen" (main.c:34).
WaitsForKeystroke == <>AtItsWait
=============================================================================
