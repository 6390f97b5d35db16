-------------------------------- MODULE Boot --------------------------------
(***************************************************************************)
(* The boot of the archived kernel, from the boot sector to the endless    *)
(* loop of kernel_c_entry: disk_load reads the kernel through the BIOS,    *)
(* build_memory_map asks it for the memory map (MemoryMap), switch_to_pm   *)
(* leaves it behind, switch_to_longmode builds the page tables, and in     *)
(* long mode the kernel prints the map and may allocate from it (Heap).    *)
(*                                                                         *)
(* The stages run one after the other, and each leaves the next what it    *)
(* needs in memory or in the processor's registers.  Interrupts are off    *)
(* from switch_to_pm on; what happens once interrupts_install has turned   *)
(* them on is the subject of Interrupts and Console.                       *)
(***************************************************************************)
EXTENDS Heap

CONSTANTS
    SECTORS,    \* sectors of the kernel (89)
    ENTRIES,    \* entries of a page table (512)
    PML4        \* the page at which the four tables begin (0x9)

ASSUME BootAssumption ==
    /\ SECTORS \in Nat \ {0} /\ ENTRIES \in Nat \ {0}
    /\ PML4 \in Nat

\* The four tables lie one behind the other; the last is the page table.
PT == PML4 + 3
Table == PML4 .. PT
Index == 0 .. ENTRIES - 1

\* An entry of eight bytes: the stores of switch_to_longmode write the lower
\* four, the present bit and the page; the upper four belong to the page too.
Entries(pages) == [present : BOOLEAN, page : pages, upper : {0, 1}]
Absent == [present |-> FALSE, page |-> 0, upper |-> 0]
Left   == [present |-> TRUE,  page |-> 0, upper |-> 1]   \* whatever lay there

VARIABLES
    stage,     \* where the boot is
    carry, al, \* the flag and the register int 0x13 answers in
    loaded,    \* sectors that have arrived at KERNEL_OFFSET
    bits,      \* the bits that are set in cr0, cr4 and EFER
    cr3,       \* the page of the table the processor begins with
    tables,    \* the memory of the four tables
    eax        \* the next page the loop of the page table maps

bios   == <<carry, al, loaded>>
paging == <<bits, cr3, tables, eax>>
bootVars == <<stage, bios, paging>>

BootInit == /\ HeapInit
            /\ stage = "read" /\ carry = FALSE /\ al = 0 /\ loaded = 0
            /\ bits = {} /\ cr3 = 0 /\ eax = 0
            /\ tables = [level \in Table |-> [n \in Index |-> Left]]

Goto(from, to) == stage = from /\ stage' = to
-----------------------------------------------------------------------------
(* disk_load, in real mode.                                                *)

\* int 0x13.  A read that fails sets the carry flag, and may have got
\* anywhere; al need not tell how far.
ReadSectors ==
    /\ Goto("read", "print")
    /\ \/ carry' = FALSE /\ loaded' = SECTORS /\ al' = SECTORS
       \/ carry' = TRUE  /\ loaded' \in 0 .. SECTORS /\ al' \in 0 .. SECTORS
    /\ UNCHANGED paging

\* print, between the read and the test of its carry flag.  popa restores al,
\* but the flag is the one of the last comparison, with the terminating zero.
PrintNsg ==
    /\ Goto("print", "test carry")
    /\ carry' = FALSE
    /\ UNCHANGED <<al, loaded, paging>>

TestCarry ==
    /\ Goto("test carry", IF carry THEN "disk_error" ELSE "test sectors")
    /\ UNCHANGED <<bios, paging>>

\* Mutant: any number of sectors will do.
TestNothing ==
    /\ Goto("test sectors", "map")
    /\ UNCHANGED <<bios, paging>>

TestSectors ==
    /\ Goto("test sectors", IF al = SECTORS THEN "map" ELSE "sectors_error")
    /\ UNCHANGED <<bios, paging>>
-----------------------------------------------------------------------------
(* The way into long mode.                                                 *)

\* switch_to_pm; the map has been stored by then.
SwitchToPm ==
    /\ Goto("map", "cpuid") /\ pc = "copy"
    /\ bits' = bits \union {"PE"}
    /\ UNCHANGED <<bios, cr3, tables, eax>>

\* A processor without CPUID, without its extended functions or without long
\* mode sends the boot back to kernel_main, where it stands still; on any other
\* paging is switched off.
CheckProcessor ==
    /\ \/ Goto("cpuid", "clear") /\ bits' = bits \ {"PG"}
       \/ Goto("cpuid", "no long mode") /\ bits' = bits
    /\ UNCHANGED <<bios, cr3, tables, eax>>

\* Mutant: the memory of the tables is taken as it is.
ClearNothing ==
    /\ Goto("clear", "link")
    /\ UNCHANGED <<bios, paging>>

\* 0x1000 double words: the four tables.
ClearTables ==
    /\ Goto("clear", "link")
    /\ tables' = [level \in Table |-> [n \in Index |-> Absent]]
    /\ UNCHANGED <<bios, bits, cr3, eax>>

\* A store of a page with its present bit, into the lower half of an entry.
Stored(entry, page) == [entry EXCEPT !.present = TRUE, !.page = page]

\* Each table's first entry leads to the next table.
LinkTables ==
    /\ Goto("link", "pages")
    /\ tables' = [level \in Table |->
                    IF level = PT THEN tables[level]
                    ELSE [tables[level] EXCEPT ![0] = Stored(@, level + 1)]]
    /\ eax' = 0
    /\ UNCHANGED <<bios, bits, cr3>>

\* Mutant: one page too many.
MapOneMore ==
    /\ Goto("pages", IF eax < ENTRIES THEN "pages" ELSE "pae")
    /\ tables' = [tables EXCEPT ![PT] =
                    [n \in Index |-> IF n = eax THEN Stored(@[n], eax) ELSE @[n]]]
    /\ eax' = eax + 1
    /\ UNCHANGED <<bios, bits, cr3>>

\* The loop of the page table, to two megabytes.
MapPage ==
    /\ Goto("pages", IF eax + 1 < ENTRIES THEN "pages" ELSE "pae")
    /\ tables' = [tables EXCEPT ![PT][eax] = Stored(@, eax)]
    /\ eax' = eax + 1
    /\ UNCHANGED <<bios, bits, cr3>>

SetPae == /\ Goto("pae", "cr3")
          /\ bits' = bits \union {"PAE", "PGE"}
          /\ UNCHANGED <<bios, cr3, tables, eax>>

SetCr3 == /\ Goto("cr3", "lme")
          /\ cr3' = PML4
          /\ UNCHANGED <<bios, bits, tables, eax>>

SetLme == /\ Goto("lme", "pg")
          /\ bits' = bits \union {"LME"}
          /\ UNCHANGED <<bios, cr3, tables, eax>>

SetPg == /\ Goto("pg", "kernel")
         /\ bits' = bits \union {"PG", "PE"}
         /\ UNCHANGED <<bios, cr3, tables, eax>>
-----------------------------------------------------------------------------
(* The stages together.                                                    *)

LoadKernel == ReadSectors \/ PrintNsg \/ TestCarry \/ TestSectors

EnterLongMode == \/ SwitchToPm \/ CheckProcessor
                 \/ ClearTables \/ LinkTables \/ MapPage
                 \/ SetPae \/ SetCr3 \/ SetLme \/ SetPg

\* build_memory_map runs in real mode, from load_kernel; nobody is in sbrk.
BuildMemoryMap == stage = "map" /\ heap_pc = "idle" /\ (Ask \/ Refused \/ Terminate)

\* memory_analyze_and_print and sbrk run in long mode; when the map is
\* printed kernel_c_entry is in its last loop.
PrintMemoryMap == stage = "kernel" /\ heap_pc = "idle" /\ (Copy \/ Walk \/ WalkEnds)

Halted == {"disk_error", "sectors_error", "no long mode"}

StandsStill == stage \in Halted /\ UNCHANGED <<vars, heapVars, bootVars>>
LastLoop    == stage = "kernel" /\ heap_pc = "idle" /\ Done /\ UNCHANGED <<heapVars, bootVars>>

Boots == \/ (LoadKernel \/ EnterLongMode) /\ UNCHANGED <<vars, heapVars>>
         \/ (BuildMemoryMap \/ PrintMemoryMap) /\ UNCHANGED <<heapVars, bootVars>>

Allocates == stage = "kernel" /\ Sbrk /\ UNCHANGED bootVars

BootNext == \/ Boots \/ Allocates
            \/ stage = "kernel" /\ Call /\ UNCHANGED bootVars
            \/ StandsStill \/ LastLoop

BootSpec == BootInit /\ [][BootNext]_<<vars, heapVars, bootVars>>

\* The processor executes the boot, and sbrk once it is called; nobody need
\* call it.
FairBootSpec == BootSpec /\ WF_<<vars, heapVars, bootVars>>(Boots \/ Allocates)
-----------------------------------------------------------------------------
(* Properties.                                                             *)

Stage == {"read", "print", "test carry", "test sectors", "map", "cpuid", "clear",
          "link", "pages", "pae", "cr3", "lme", "pg", "kernel"} \union Halted

\* Types of the boot and of the stages it is made of.
BootTypeOK ==
    /\ HeapTypeOK
    /\ stage \in Stage
    /\ carry \in BOOLEAN /\ al \in 0 .. SECTORS /\ loaded \in 0 .. SECTORS
    /\ bits \subseteq {"PE", "PG", "PAE", "PGE", "LME"}
    /\ cr3 \in {0, PML4} /\ eax \in 0 .. ENTRIES
    /\ tables \in [Table -> [Index -> Entries(Table \union Index \union {0})]]

\* The kernel is entered only when it has arrived as a whole, provided that
\* the BIOS tells truly how many sectors it has read: the count catches what
\* the carry flag, lost in print, does not (boot_sect_disk.asm 33-46).
KernelIsWhole ==
    (al = loaded /\ stage \notin {"read", "print", "test carry", "test sectors"} \union Halted)
        => loaded = SECTORS

\* Where the processor finds an entry.
Found(entry) == entry.present /\ entry.upper = 0
Only(level)  == {n \in Index : tables[level][n].present} = {0}
To(level)    == tables[level][0].page

\* When paging is switched on everything it needs is there: the bits that must
\* be set first, and tables that map each of the first pages to itself and
\* nothing else, whatever lay in their memory (64bit-switch.asm 82-153).
PagingIsPrepared ==
    "PG" \in bits =>
      /\ {"PE", "PAE", "LME"} \subseteq bits
      /\ cr3 = PML4
      /\ \A level \in Table \ {PT} :
            Only(level) /\ Found(tables[level][0]) /\ To(level) = level + 1
      /\ \A n \in Index : Found(tables[PT][n]) /\ tables[PT][n].page = n

\* The boot comes to the kernel's last loop with the map printed, or stands
\* still where it says that it cannot go on; a call of sbrk before the map is
\* copied does not stop it.
BootEnds == Len(answers) < MapEntries ~> (stage \in Halted \/ pc = "done")
=============================================================================
