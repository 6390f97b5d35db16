------------------------------- MODULE MCBoot -------------------------------
(***************************************************************************)
(* Instances of the boot: a kernel of one sector, tables of five pages of  *)
(* which four are the tables themselves, and up to three answers of the    *)
(* BIOS: one more than the array has room for before its terminator.       *)
(***************************************************************************)
EXTENDS Boot

Memory(base, length, type) == [base |-> base, length |-> length, type |-> type]

MCEMPTY  == Memory(0, 0, 0)
HighRam  == Memory(16, 8, USABLE)
Reserved == Memory(8, 8, 2)
MCRegion == {HighRam, Reserved, MCEMPTY}

\* What a PC begins with: memory from address zero.
LowRam   == Memory(0, 8, USABLE)
PCRegion == {LowRam, HighRam, MCEMPTY}
=============================================================================
