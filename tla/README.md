# Ferrite OS in TLA+

This directory is a verification project for Ferrite OS. The repository holds
two systems: a young UEFI program (`src/src`), and the BIOS kernel it is meant
to replace (`src/archived_efforts`), which is older and does more: it boots
through real, protected and long mode, drives the text screen, takes interrupts
and reads the keyboard, formats text, and carries the hooks Newlib needs. Paths
below are those of the repository, seen from the directory above this one.

## 1. The system

| component | state it keeps | operations | correct when |
|---|---|---|---|
| UEFI boot, `src/src/main.c`, `memory_stuff.c` 1-46 | the returned map and its key | `efi_main`, `print_memory_map` | it prints the usable memory of the map; boot services end with that very map in force; it waits for a key pressed after it asked for one |
| UEFI page allocator, `memory_stuff.c` 50-97 | the best chunk, the next page, a count | `pagealloc_init`, `pagealloc_alloc` | the chunk is a largest one; pages are usable and each is handed out once |
| UEFI descriptor table, `gdt_stuff.c`, `gdt_stuff_asm.s` | GDT and TSS | `gdt_setup`, `gdt_load` | the TSS descriptor decodes to the address of the TSS |
| text console, `console.cpp`, `ports.cpp` | video memory, cursor registers | `console_kprint_at`, `console_kprint`, `console_clear_screen`, `console_printchar` | text appears where the cursor is, scrolls, and nothing but the screen is written |
| numbers as text, `console.cpp` 60-70, 187-225 | a buffer of the caller | `console_kprint_uint64`, `console_kprint_hex` | the digits are those of the number and fit into the buffer |
| printf, `printf.c`, `printf.h` | the device and what it has taken | `printf_` and its kin | the text is the one C gives to the format; no write leaves the buffer |
| interrupts, `interrupts.cpp`, `interrupts_lowlevel.asm` | the IDT, two 8259A controllers, the interrupt flag, the stack | `interrupts_install`, the stubs, `interupt_request_line_handler`, `interupt_service_request_handler` | no vector without its gate, no nesting, every interrupt ended in each controller it came through, every scancode shown once and in order; what was interrupted is restored |
| memory map, `memory_lowlevel.asm` 1-42, `memory.cpp` 9-82 | the entries at 0x5000, `memory_region_map` | `build_memory_map`, `memory_analyze_and_print` | what the BIOS offered is what is printed |
| heap, `memory.cpp` 100-109, `flibc/newlib_glue_syscalls.cpp` 46-62 | the break | `sbrk`, `memory_first_usable_memory` | it returns, and the blocks it gives do not overlap |
| boot sector, `boot_sector.asm`, `boot_sect_disk.asm` | sectors loaded | `disk_load` | all sectors are loaded or the boot stops |
| mode switches, `32bit-switch.asm`, `64bit-switch.asm`, `kernel.asm` | page tables, control registers | `switch_to_pm`, `switch_to_longmode` | each step finds what it needs in place |
| kernel main, `kernel.cpp` | none | `kernel_c_entry` | set-up comes before use |
| Newlib stubs, `efi_boot_src`, build files | none | | not part of the core |

How they interact. The boot sector loads the kernel and stores the memory map
while the BIOS is still there; the mode switches leave the BIOS behind; the
boot code and the kernel share the map through a convention alone, an entry of
zeros at the end. `kernel_c_entry` installs the interrupts first and then
prints, with interrupts enabled; the handlers print with the same functions and
without a lock, so main flow and handlers share the video memory and the cursor
registers, and they share the stack. Devices reach the handlers through two
cascaded controllers, which the handlers program and the main flow has set up.
The heap reads the map and nothing else. The UEFI program shares the machine
with the firmware until `ExitBootServices`: every call may find the firmware's
map changed.

What is hard here: interleavings at the grain of a port access; interrupts
inside interrupts that share one stack; protocols of chips that count the words
they are sent; state read in halves; hardware that forgets (a restart of the
controllers) or withdraws a request; a flag tested after another call has
overwritten it; a key that goes stale between two calls; boundaries (last cell,
last row, last entry, last digit, the terminator of a full buffer). Nothing is
persisted, so there is no crash recovery. `PROJECT.json` lists the hazards, each
at its line.

## 2. The modules

| module | models | extends or composes |
|---|---|---|
| `VgaText` | offsets, columns and rows of `console.cpp` | |
| `Console` | the console calls, one hardware access a step, with interrupts | `VgaText` |
| `Terminal` | what `console.h` promises: abstract, whole calls, no registers | `VgaText` |
| `ConsoleRefinement` | `Console` implements `Terminal` | `Console`, `INSTANCE Terminal` |
| `Pic8259` | one interrupt controller (external) | |
| `Interrupts` | `interrupts_install`, the IRQ stubs, the handler; keyboard, devices, two controllers | `Pic8259` |
| `InterruptFrame` | gates, all stubs, the stack and the registers across an interrupt | |
| `MemoryMap` | `build_memory_map`, copy and walk; the BIOS | |
| `Heap` | `sbrk` and its search, on that map | `MemoryMap` |
| `Boot` | the boot from `disk_load` to the kernel's last loop | `Heap` |
| `UefiFirmware` | `GetMemoryMap` as its callers see it (external) | |
| `UefiGdt` | what `gdt_setup` writes and `gdt_load` loads | |
| `UefiBoot` | `efi_main` and `print_memory_map` with the firmware | `UefiFirmware`, `UefiGdt` |
| `PageAlloc` | `pagealloc_init`, `pagealloc_alloc` beside `efi_main` | `UefiBoot` |
| `MachineWords` | integers of a given width, digits | |
| `Printf` | `_vsnprintf`, its conversions of integers, characters, strings, pointers, its devices and entry points | `MachineWords` |
| `CFormat` | the text C gives to a directive (abstract), and where `Printf` is known to differ | `Printf` |
| `NumberText` | the console's numbers | `MachineWords` |
| `KernelText` | a call of `printf`, or a number of the console beside it; what the one makes of a number against what the other does | `CFormat`, `NumberText` |
| `MC...` | small instances of these for TLC | |
| `NumberLemmas` | facts about quotients, remainders, powers and induction that the proofs share | |
| `..._proofs` | the theorems: `Boot_proofs` about `MemoryMap`, `Heap` and `Boot`, `Printf_proofs` about `CFormat` and what it extends, `KernelText_proofs` about the text as a whole | the module they are about |

### Console

Offsets are counted in cells; the code counts bytes, always even. A frame holds
the locals of the call a flow is in; `cpu` says whose frame moves. The program
counter of a frame names the hardware access that comes next: `ask_high`,
`read_high`, `ask_low`, `read_low` are `get_cursor_offset`, `select_high` to
`write_low` are `set_cursor_offset`, `copy` and `blank` the scroll loops of
`print_char`, `clear` the loop of `console_clear_screen`. `Interrupt` breaks into
the main flow between any two of them; the gates are interrupt gates (flags
0x8E), so a handler runs to its `iretq` (section on interrupts below).
`console_printchar` writes the first cell every time, because its pointer is a
local. `Put` writes a character and its attribute in one step where the code
writes two bytes one after the other: a handler that came in between could leave
a cell with the attribute of one flow and the character of another, and no
property is about attributes. The main flow's script has the shape of `kernel_c_entry`.

`Terminal` is the abstract machine: a screen and a cursor, where printing a
character is one step. A message begins at the cursor or at a position somebody
asks for (`Requested`), and nowhere else. `ConsoleRefinement` maps the video
memory and the cursor of a frame to it; the claim stops at the first interrupt
that falls into a print (`preempted`), because the code makes no promise after
that.

### Interrupts

`Install` is the list of instructions of `interrupts_install` that have an
effect; `InstallStep` executes the next one. `Accept` and `Acknowledge` are the
processor's two looks at the controller: between them a device may withdraw its
request, and then line 7 is reported with nothing in service. The handler's
phases follow the code: end of interrupt to the second controller, to the first,
read of port 0x60, print, `sti`, `iretq`. `shadow` is the instruction for which
`sti` does not take effect. `typed` and `shown` are history.

`InterruptFrame` looks at the same stubs from below. Each address of the stack
holds a tagged word, so that a value that lands in the wrong place shows. The
gates are built by `set_idt_gate` from the stubs' addresses and decoded as the
processor does. Faults of C code, an NMI and requests may come inside one another;
`interrupted` is history, the stack of what ought to be restored. `Parameters`
reads the frame through the struct of `interrupts.h`. What the handler does is
modelled as what a C function may do: it overwrites the registers it need not
preserve and the words below the stack pointer. It does not write its by-value
parameter, which the compiler would be free to do; the handlers of this repository
only read it. `StackAssumption` asks for a stack that holds the deepest nesting
the run allows, sixteen words a frame; the kernel itself sets no limit. The
registers r8 to r11, which the stubs do not save, are not modelled (a hazard in
`PROJECT.json`).

### Boot, memory map and heap

`stage` follows the boot from `disk_load` on. `int 0x13` may fail after any
number of sectors. Its carry flag is tested only after a `print`, whose last
comparison clears it: `TestCarry` never leads to `disk_error`, and what stops a
short read is the count in `al`. The tables' memory begins with whatever lay
there (`Left`): the stores of `switch_to_longmode` write the lower half of an
entry only, so that the clearing loop matters. `bits` are the control bits that
are set, in the order of the code.

An answer of the BIOS for the map is a region, a length of the answer (0, 20 or
24 bytes) and the ignore bit; it may end the list in three ways. What it writes
stays in the slot even when the slot is not kept. `map` is cut to the size of
the array, and behind the array lies one entry of junk. What the table should hold is stated
from the answers alone: the answers worth keeping (`Offered`), each in the slot
that counts those before it (`Before`). The walk ends at the
first entry of length zero, the BIOS's own included (memory.cpp 63, stated by
`PrintsUpToEmpty`). The search of the heap loops on entry 0, as the code does.
`sbrk` may be called at any time in the kernel, and then finds the map the boot
has stored, copied or not. Before the copy it reads `memory_region_map`, and at
its first call the break, as nobody has written them. Both lie in `.bss`, which
the model takes as zero: on a machine whose memory was cleared it is, but no code
clears it, the linker does not load it (`.bss (NOLOAD)` in `linker_map.map`), and
archived_efforts/README.md 91 says of crt0 that it does not initialise it
properly. What `BootEnds` and `GrowingBlocksAreDisjoint` say of an `sbrk` before
the copy rests on this.

### UEFI

The firmware keeps a map and a key that changes with it, and may change both
between any two steps while boot services are up. A map that does not fit leaves
the caller's key undefined and its buffer unwritten. `ExitBootServices` succeeds
when the key is current. After that a call through the console may return or
lead anywhere (`lost`). At this commit `gdt_setup` is not linked: the Makefile
leaves `gdt_stuff.o` out of a link that allows undefined symbols, and `gdt_setup`
calls `load_gdt` while the assembly defines `gdt_load`. Both outcomes of the link
are looked at: `linked` is drawn from the constant `GdtLinks`, without it the
call of `gdt_setup` leads astray, and `WaitsIffGdtIsLinked` states what becomes
of the wait in either case (finding 7). Everything behind the call is executed
only by a program that is linked with it. `UefiGdt` gives the table
that is then loaded: addresses are numbers to the base `BYTE`, split into the
descriptor's pieces and put together again the way the processor does.

Nobody calls the page allocator yet. Its callers stand where its closing remark
puts them, before `ExitBootServices`, and may call `pagealloc_init` again; pages
are asked for there and again after the boot services have ended.

### Text

`Printf` keeps the parser's variables (`flags`, `width`, `precision`, the
position in the format, the number of arguments taken), the conversion of a
number (`num`, least significant digit first, in a buffer of
`NTOA_BUFFER_SIZE`), and what a device has taken: cells of the caller's buffer,
or characters sent. A run of calls of `out` with nothing between them is one
step. A format is a sequence of characters written from a list of directives
(`means`), and `CFormat` says from that list, and not from the format, what the
text should be. C leaves a call undefined that lacks an argument of the right
type for a `*` or a specifier, or whose format ends inside a directive. So the
calls are those whose format and arguments are written from directives C gives a
meaning to (`CFormatAssumption`, `WellMeant`): any flags, any width and precision
an `int` holds, any length modifier of an integer, any value. That the parser then finds an
argument of the type it asks for wherever it asks, `ArgumentsMatch`, is a claim
about the code's own reading of the format, checked and proved (`CallTypeOK`).
The implementation does differ from C in ways its authors do not list;
`KnownDeviation` and `NulDropped` name them, and outside them the agreement is
exact, which `OutputIsAsInC` checks and `TextIsAsInC` proves:

* `-` makes it forget an integer's precision, and a negative precision from an
  argument counts as zero, that of a string too (printf.c 230, 641);
* with `#`, an octal number gets a zero in front of the zeros of its precision,
  and the prefix of a number that just fills its width overwrites digits
  (printf.c 243-262); an octal zero with a precision of zero gets no digit, where
  C asks for a 0 (printf.c 287-292);
* what does not fit the conversion buffer is cut off, padding included
  (printf.c 235, 238, 249-264);
* the NUL of a `%c` is not sent to a device, but counted (printf.c 152, 162);
  `NulsAreCountedNotSent` says so of every text (finding 8).

Wide characters and strings (`%lc`, `%ls`) are not among the calls: the code reads
them as plain ones.

`NumberText` is the console's two conversions, cell by cell: digits in reverse,
the sign taken from the low half of the number, the reversal in place.

## 3. The runs

| run | shows | bounds, and why they are enough |
|---|---|---|
| `console` | six properties of printing under interrupts | 4 x 2 cells with tab stops every 2, bytes of 4 values (16 addresses, 8 on the screen): a torn cursor may lie beyond the screen; the script scrolls, uses tabs, positions off the screen, and clears; 2 interrupts, with three handlers: one can tear a cursor and the next can meet the torn one; 190,730 states |
| `console_torn_cursor` | finding 1 | 2 x 2 cells, 1 interrupt |
| `interrupts` | eight properties of set-up and delivery | 2 scancodes, 2 keys (one in the buffer, one behind it), 2 devices on each controller, one of them masked |
| `interrupts_early_key` | finding 2 | 1 key |
| `interrupt_frame` | three properties of stack and registers | one exception without an error code and two with, an NMI, a request of each controller, 2 inside one another, an even and an odd stack pointer; 50 words hold the deepest nesting; fields of a gate of 8 values, addresses whose fields differ |
| `interrupt_frame_locals` | finding 3 | the same, with 3 words of locals |
| `boot` | nine properties from the boot sector to the last loop | 3 answers of the BIOS against an array of 3: it is too small by its terminator exactly when all are kept; 1 sector (read or not), 5 entries in a table (the four table pages and one more), 2 calls of `sbrk` with sizes 1 and 2: shrinking and growing requests |
| `heap_search` | finding 4 | 1 answer, 1 call |
| `uefi_boot` | eight properties | 3 maps: ties, a larger reserved chunk, one too long for the buffer; 1 change of the map, 1 key before or after the reset, 2 calls of `pagealloc_init`, 2 pages, one more than the largest chunk of one map has; with `gdt_setup` linked and without; bytes of 4 values, two addresses whose pieces differ; 766,680 states |
| `uefi_boot_console_gone` | finding 5 | 1 change of the map, `gdt_setup` linked |
| `text` | six properties | `int` of 32 values, `long` of 1024, a conversion buffer of 5: about 2,000 calls: all sets of flags with widths and precisions on both sides of the digits, every length modifier at its ends in every base, `*`, strings, characters, pointers, and every function with a buffer too small, exact, large and NULL; every `long` as a number of the console; NULs of `%c` to every device, `#` with a zero and a precision of zero; 54,328 states |
| `number_text` | finding 6 | the same numbers |

Every property of a passing run has a mutant of the model in `PROJECT.json`
(operators marked "Mutant" in the modules): a plausible slip in the code that
makes TLC report that property. `CHECK_DEADLOCK FALSE` stands in the two
configurations of the text alone: a call that has returned does nothing more.
The other systems stay in a loop that is a step of theirs.

Fairness. `Console`: weak fairness of the running flow's next step; interrupts
are never forced. `Interrupts`: of the installing flow, the handler, the
processor's acceptance and acknowledge, and the keyboard controller's transfer;
no key and no device is forced. `Boot` and `PageAlloc` (with `UefiBoot`): the
processor executes; nothing forces a call of `sbrk` or of the allocator, a
change of the map or a key. `KernelText`: a call is executed. These are the
fairness of a processor that runs; the code contains no scheduler.

What the liveness properties are worth: `HandlerReturns` and `MainFinishes` say
that no cursor a flow may read, torn or not, keeps a loop going; `BootEnds` that
the walk meets an empty entry or the boot stands still where it says so, if the
firmware has fewer entries than the array; `SearchEndsIfFirstIsUsable` is the
exact condition under which `sbrk` returns; `KeysAreShown` and `FollowerServed`
that no request is left behind after the restart of the controllers.

## 4. Findings

1. `console_torn_cursor`: `set_cursor_offset` is not atomic against handlers
   that print; the cursor of the main flow ends as a mixture (console.cpp 84,
   148-151).
2. `interrupts_early_key`: a key pressed between `cli` and the restart of the
   controllers silences the keyboard for good (interrupts.cpp 280).
3. `interrupt_frame_locals`: the kernel is compiled with a red zone, and an
   interrupt in ring 0 pushes its frame over it (interrupts_lowlevel.asm 42, 70).
4. `heap_search`: the first `sbrk` never returns on a map that begins with
   usable memory at address zero (memory.cpp 100-109).
5. `uefi_boot_console_gone`: the console is used after `ExitBootServices`
   (main.c 27-46).
6. `number_text`: `console_kprint_uint64` of 0x80000000 writes one character
   more than its buffer holds (console.cpp 61, 198).
7. `uefi_boot`: the program the Makefile builds does not hold `gdt_setup`, and
   never reaches its wait for a keystroke (Makefile 4-5, main.c 29-34,
   gdt_stuff.c 77). `WaitsIffGdtIsLinked` states this for every behaviour, next
   to what a program would do that is linked with it.
8. `text`: `printf` and `fctprintf` count the NUL of a `%c` that they do not send,
   against printf.h 58 and 111 (printf.c 152, 162). `NulsAreCountedNotSent` states
   it for every text.

The first six are counterexamples TLC finds; the last two are stated by
properties that hold.

Two observations are modelled and are no findings: an entry of length zero in the
BIOS's list ends the printed map early (memory.cpp 63), which contradicts no line;
and `disk_error` cannot be reached, although the comment on the jump to it says
"if error (stored in the carry bit)" (boot_sect_disk.asm 41): a print stands
between the read and the test. A read that fails is told by its count instead, as
`KernelIsWhole` states.

## 5. The theorems

Each holds for every value of the constants that satisfies the named
assumptions (`VgaTextAssumption`, `ConsoleAssumption`, `ScriptAssumption`,
`InterruptsAssumption`, `FrameAssumption`, `StackAssumption`,
`MemoryMapAssumption`, `HeapAssumption`, `BootAssumption`,
`UefiFirmwareAssumption`, `UefiGdtAssumption`, `UefiBootAssumption`,
`PageAllocAssumption`, `WordsAssumption`, `PrintfAssumption`, `CFormatAssumption`,
`NumberTextAssumption`), all of which TLC evaluates in the runs.

* `Console_proofs`. `TypeOK`, `FramesInBounds` (proved only) and
  `BeyondScreenUntouched` hold together by one induction. A cursor read by an
  interrupted flow may be any 16-bit value, so nothing may be assumed of it: the
  argument is that `print_char` tests what it is given, and that an offset above
  the screen exists only between the put and the scroll.
  `HandlerCursorExact` needs `Exact`: as long as no flow has been broken into
  where it matters, the cursor registers hold exactly what the running flow's
  locals say they hold at its place in the code (`Registered`), and each frame's
  locals fit that place (`Fits`).
  `TerminalImplemented` is the refinement: from `Exact` and `Cleared` (the clear
  loop has blanked what it has passed) each hardware access either leaves the
  mapped screen, cursor and text as they are or is the one step of `Terminal`
  for the character or the clear; a step that is interrupted ends the claim.
* `Interrupts_proofs`: `TypeOK`, `OnlyInstalledVectors`, `HandlersDoNotNest`,
  `NothingInServiceAtRest`, `MaskedLinesAreSilent`. The invariant adds `Setup`
  (what the controllers look like at each instruction of the set-up: vectors
  stay undecided until the third word), `Control` (interrupts are on only when
  no handler runs or in the shadow of `sti`) and `Service` (what is in service
  in each controller, as a function of the running handler's phase).
  `ScancodesInOrder` follows from that invariant and `Handover`: a keyboard
  handler in a phase before `read` finds the output buffer full, so that what it
  reads is a scancode nobody has read.
* `InterruptFrame_proofs`: `FrameTypeOK`, `HandlerSeesWhatWasInterrupted`,
  `ReturnRestores`. The invariant says of each interruption, and not only of the
  last one, that its frame lies on the stack as far as its stub has got (`Frames`),
  between the stack pointer it interrupted and the one that what it runs has now;
  that the stack has room for the deepest nesting (`Room`); and that `ds` and `es`
  agree in every context, because the stub saves one of them and restores both
  (`SegmentsAgree`). Nobody writes above the stack pointer, so an inner interrupt leaves
  the outer frames alone. That the processor finds the stub it was given rests
  on the fields of a gate, split off by quotients and put together again, being
  the address, for every address and every width of a field.
* `Boot_proofs`, the memory map and the heap: the types and `WalkStaysInside`,
  with `Closed`: from the terminator on, some entry the walk has not passed is
  empty. `TableIsWhatWasOffered` and `PrintsUpToEmpty` rest on `Kept` (the next
  slot counts the answers worth keeping so far, and each of these is in its slot)
  and `Shown` (the copy is the table, what is printed its beginning).
  `GrowingBlocksAreDisjoint` has an invariant that adds that the last block begins
  at the break, and that of growing requests each block ends before the next
  begins. `HeapKeepsMap`: the heap's specification implies the map's, so that what
  is proved of the map holds there.
* `Boot_proofs`, the boot: `BootImplementsHeap`, that each step of the boot is a step of
  the map and the heap or leaves them alone. From it `WalkStaysInside`,
  `TableIsWhatWasOffered`, `PrintsUpToEmpty` and `GrowingBlocksAreDisjoint`
  follow for the boot without another induction. `PagingIsPrepared` has an
  invariant of its own, `PagingInv`: at each stage, which control bits are set
  and what the tables hold, and in the loop that the entries below `eax` map
  their own page. `KernelIsWhole` rests on `Counted`, that the stages behind the
  test are reached only with `al` equal to the number of sectors, and
  `BootTypeOK` on all of these.
* `Uefi_proofs`, `efi_main`: the types, `WalkStaysInMap` (proved only; it is the
  invariant the others need), `PrintedIsUsable`, `ExitsWithPrintedMap`,
  `EarlyKeysIgnored`, `TableNamesTss`, of maps that fit where they speak of one.
  The invariant adds `KeyNamesMap`: a key is never newer than the firmware's, and
  while the key of the answer is current the map is the one that was answered.
  `TableNamesTss` is arithmetic: the pieces of an address, taken by quotients, are
  its digits to the base `BYTE`. `PageImplementsBoot`: the boot with the allocator
  beside it is a boot, so all of this holds beside the allocator
  (`BootBesidePages`). `PageTypeOK`, `ChunkIsLargest` and `PagesAreUsable` are
  proved of the allocator for any number of calls, with an invariant that says of
  the chunk kept that it is a largest of the usable descriptors compared so far,
  by all calls (`LargestSoFar`), that the descriptors of the present map the loop
  has passed are among these (`SearchedSoFar`), and in which order pages have been
  handed out (`HandedInOrder`).
* `Printf_proofs`, the parts of `printf`. The invariant `IInv` adds to the types
  which cells are written (`BufferOK`: exactly those below the index and the
  count) and that the conversion buffer has room whenever the digit loop goes on
  (`NumberOK`). `NumberStaysInBuffer`: no padding, prefix or sign leaves that
  buffer, whatever the width and the precision. `IntegerShownAsInC`: from the
  digits of a number, least significant first, `_ntoa_format` and `_out_rev` make
  the text C gives to the directive, for all sets of flags, widths, precisions,
  bases and types, but for the known deviations. The cases are those of the
  padding (left, zeros, blanks) and of the prefix; each is an equation between
  two sequences. That `_atoi` stops, yields an unsigned int, and reads back the
  number a directive's decimal digits were written from, is by induction on them.
* `KernelText_proofs`, `printf` as a whole. `Invariance` adds `GoingOn`, which
  says how far the call has come: some m directives are done, the parser stands at
  one of the places the next one names (after its flags, its width, its precision,
  its length, or at its number), the arguments of those m and of the part that has
  been read are taken (`Reading`), the flags, width, precision and digits are
  those of that directive (`Converting`, `Dividing`), and, unless a directive of
  the call deviates, the text of those m has been put out, each device keeping it
  its own way (`HasPutOut`). A step moves to the next place or the next directive.
  What makes this work is that `FormatOf` can be read in one way only: no
  character of one part of a directive is one the loop before it would take. From
  it `CallTypeOK` (`TypeCorrect`), `WritesInsideCount` (`CountRespected`),
  `EndsWithNul`, `OutputIsAsInC` (`TextIsAsInC`) and `NulsAreCountedNotSent`
  (`NulsCounted`), for every call, every width of the types and every size of the
  buffers; `BesideNumbers` restates them for the specification the run checks.
* `KernelText_proofs`, the console's numbers. `NumberInv` says for each cell
  which digit it holds while digits are added, and, in the reversal, that the
  cells outside the two pointers are final and those between them still turned.
  From it `NumberShownAsPrintfWould` (`NumbersAsInPrintf`), what is printed of
  every number, the negated ones included (`AllNumbersShown`), and that the
  buffers are large enough for all others (`BuffersSuffice`): finding 6 is the
  only way to leave them.

Two remarks on how. The library's induction takes an operator the provers here
cannot instantiate; `NumberLemmas` derives induction and the existence of
recursively defined functions for sets of numbers instead, from the
well-foundedness of the naturals; with it the digits of a number, a folded
sequence or a decimal that is read back can be followed element by element. And
facts about products are lemmas of their own, because the solver does not find
them among other hypotheses.

Every safety property of a passing run, and the refinement, is stated by a
theorem. Left to TLC are the liveness properties (`HandlerReturns`,
`MainFinishes`, `KeysAreShown`, `FollowerServed`, `SearchEndsIfFirstIsUsable`,
`BootEnds`, `WaitsIffGdtIsLinked`, `EveryCallReturns`): fairness is out of the
prover's reach. So are the counterexamples of the findings, which TLC finds.

## 6. What is not modelled

* The floating-point conversions of `printf.c` (`_ftoa`, `_etoa`): TLC has no
  reals, and nothing in the kernel prints one. Formats that end inside a
  directive, and wide characters, are not among the calls.
* The console's `print_isr_irq_handler_parameters` is never called;
  `register_irq_handler` stores handlers that no code calls; `memory_clear` has
  no caller.
* r8 to r11 and the SSE registers across an interrupt.
* The two descriptor tables of the BIOS boot, which are constants, and the text
  it prints. The wording of all other output, and the names of memory types.
* The Newlib stubs other than `sbrk` (they return an error and keep no state),
  `efi_boot_src` (one print), the build files and the tools' patches.

## 7. Plan

Done, in the order of importance: console with interrupts; interrupts and
keyboard; memory map and heap; UEFI boot; page allocator. The second part was an
extension: the frame of an interrupt, the boot as a whole (which composes memory
map and heap), the UEFI descriptor table, `printf` and the numbers. The third and
fourth were proofs, of every safety property the runs check. Left:

1. `Kernel`: `Console` and `Interrupts` composed, one handler for both. Today
   each stands for the other: `Console` assumes that handlers do not nest, and
   `Interrupts` proves it.
2. The parts of `printf` that are left out: formats that end inside a directive,
   and flags, widths and precisions of a pointer.
