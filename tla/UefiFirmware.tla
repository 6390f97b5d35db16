---------------------------- MODULE UefiFirmware ----------------------------
(***************************************************************************)
(* The part of the UEFI boot services that src/main.c and                  *)
(* src/memory_stuff.c use: GetMemoryMap.  The firmware is not part of the  *)
(* repository; this is what its callers rely on.                           *)
(***************************************************************************)
EXTENDS Integers, Sequences

CONSTANTS
    Maps,             \* memory maps the firmware may have: sequences of descriptors
    DESC_SIZE,        \* bytes from one descriptor to the next (48)
    UEFI_MMAP_SIZE,   \* bytes of the caller's buffer (0x4000)
    MaxChanges        \* bound on the changes of the map in a behaviour

Type == {"EfiConventionalMemory", "other"}

Descriptor == [Type : Type, PhysicalStart : Nat, NumberOfPages : Nat]

ASSUME UefiFirmwareAssumption ==
    /\ Maps \subseteq Seq(Descriptor)
    /\ DESC_SIZE \in Nat \ {0}
    /\ UEFI_MMAP_SIZE \in Nat
    /\ MaxChanges \in Nat

\* The firmware counts the changes of its map: a key is current as long as
\* the map is the one it was given out with.
Key == 0 .. MaxChanges

Bytes(map) == Len(map) * DESC_SIZE
Fits(map)  == Bytes(map) <= UEFI_MMAP_SIZE

\* What a call leaves in the caller's uefi_mmap_type.  When the buffer is too
\* small the size that is needed is reported, but nothing is written into the
\* buffer and the caller's key stays what it was: not initialized.
Answers(map, key) ==
    IF Fits(map)
    THEN {[nbytes |-> Bytes(map), buffer |-> map, mapkey |-> key]}
    ELSE [nbytes : {Bytes(map)}, buffer : {<<>>}, mapkey : Key]

\* What may be read from a place where no descriptor was written.
Garbage == {[Type |-> type, PhysicalStart |-> 0, NumberOfPages |-> 1] : type \in Type}

\* The descriptors a caller may find at &buffer[i].
DescriptorsAt(answer, i) ==
    LET here == {n \in 1 .. Len(answer.buffer) : (n - 1) * DESC_SIZE = i}
    IN  IF here # {} THEN {answer.buffer[n] : n \in here} ELSE Garbage
=============================================================================
