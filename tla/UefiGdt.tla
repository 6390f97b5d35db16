------------------------------ MODULE UefiGdt ------------------------------
(***************************************************************************)
(* The descriptor table of src/gdt_stuff.c, and what the processor reads   *)
(* of it when gdt_load (gdt_stuff_asm.s) loads the segment registers.      *)
(*                                                                         *)
(* In long mode the base and limit of a code or data segment are ignored;  *)
(* the task state segment has a descriptor twice as long, whose base is in *)
(* six pieces.                                                             *)
(***************************************************************************)
EXTENDS Integers, Sequences

CONSTANTS
    BYTE,          \* how many values a byte has (2^8)
    TSS_SIZE,      \* sizeof(tss)
    TssAddresses   \* where the firmware may have put the program's tss

WORD == BYTE * BYTE

ASSUME UefiGdtAssumption ==
    /\ BYTE \in Nat \ {0} /\ TSS_SIZE \in Nat
    /\ TssAddresses \subseteq 0 .. WORD * WORD * WORD * WORD - 1

\* The entries of gdt_table before gdt_setup, by what their types say.
Blank(type) == [type |-> type, limit15_0 |-> 0, base15_0 |-> 0,
                base23_16 |-> 0, base31_24 |-> 0]

gdt_table == <<Blank("null"), Blank("kernel code"), Blank("kernel data"),
               Blank("null"), Blank("user data"), Blank("user code"),
               Blank("user data"), Blank("user code"),
               Blank("tss"), Blank("null")>>

\* Mutant: the two words of the upper half the other way round.
TablesSwapped(tss_base) ==
    [gdt_table EXCEPT
        ![9] = [@ EXCEPT
                  !.base15_0  = tss_base % WORD,
                  !.base23_16 = (tss_base \div WORD) % BYTE,
                  !.base31_24 = (tss_base \div (WORD * BYTE)) % BYTE,
                  !.limit15_0 = TSS_SIZE],
        ![10] = [@ EXCEPT
                  !.limit15_0 = (tss_base \div (WORD * WORD * WORD)) % WORD,
                  !.base15_0  = (tss_base \div (WORD * WORD)) % WORD]]

\* gdt_setup writes the address of tss into the last two.
TableFor(tss_base) ==
    [gdt_table EXCEPT
        ![9] = [@ EXCEPT
                  !.base15_0  = tss_base % WORD,
                  !.base23_16 = (tss_base \div WORD) % BYTE,
                  !.base31_24 = (tss_base \div (WORD * BYTE)) % BYTE,
                  !.limit15_0 = TSS_SIZE],
        ![10] = [@ EXCEPT
                  !.limit15_0 = (tss_base \div (WORD * WORD)) % WORD,
                  !.base15_0  = (tss_base \div (WORD * WORD * WORD)) % WORD]]

\* The selectors gdt_load puts into cs, the data segment registers and tr, and
\* the descriptor at a selector.
CODE == 8
DATA == 16
TASK == 64
DescriptorAt(table, selector) == table[selector \div 8 + 1]

\* The processor's reading of the sixteen bytes at a selector.
TaskBase(table, selector) ==
    LET low  == DescriptorAt(table, selector)
        high == DescriptorAt(table, selector + 8)
    IN  low.base15_0 + WORD * (low.base23_16 + BYTE * low.base31_24)
            + WORD * WORD * (high.limit15_0 + WORD * high.base15_0)

\* What lgdt leaves in force: a table, and the tss it was made for.
FirmwareGdt      == [tss |-> 0, table |-> <<>>]
OurGdt(tss_base) == [tss |-> tss_base, table |-> TableFor(tss_base)]
Gdt == {FirmwareGdt} \union {OurGdt(tss_base) : tss_base \in TssAddresses}
=============================================================================
