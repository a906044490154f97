# A verification of MOS, a small multiprocessor x86-64 kernel

This directory holds TLA+ models of the kernel in `src/`, TLC configurations
that check them on small instances, and proofs, checked by TLAPS, that hold for
every value of the constants. The models are translated from the C and assembly
sources, which are the reference; comments quote the code where a step needs it.

## 1. The system

A FAT32 boot sector loads a loader, which collects the BIOS memory map, sets up
a temporary page table with a recursive entry, enters long mode and reads
`kernel.bin` to 1M. `_start` gives each CPU a stack and calls `Kernel_init`,
first on the boot CPU and, after `ap_init` has sent INIT and start-up IPIs, on
every other CPU. The kernel initialises its devices and then idles with
interrupts enabled; all CPUs share the allocator, the page tables and the
console. Today only the boot CPU allocates and maps (`gdt.c`, `tss.c`, `page.c`,
all under `bsp_flags`), and nothing calls `unmap_pages` yet; the allocator has a
lock because every CPU may call it, and the models take the functions at that
contract, for callers that may come on any CPU.

| component | state it keeps | operations | interacts with |
|---|---|---|---|
| physical page allocator, `memory.c` 88-155 | page bitmap, `free_pages`, `alloc_pages`, spin lock | `alloc_pages`, `free_pages` | called by gdt, tss, map and unmap on any CPU; initialised by `memory_init` |
| memory initialisation, `memory.c` 5-85 | e820 list, bitmap, counters, `kernel_end` | `memory_init` | reads the loader's map at 0x500 |
| kernel initialisation and multiprocessor start, `main.c`, `ap.c`, `loader.asm` | `cpu_init_num`; what the boot CPU has built | `Kernel_init`, `ap_init` | every other routine; IPIs; console lock |
| virtual memory, `memory.c` 158-230 | four levels of page tables seen through the recursive window, TLBs | `map_pages`, `unmap_pages` | allocator |
| kernel page table, `page.c` | `__PML4T`, CR3 | `page_init` | virtual memory, `kernel_end` |
| descriptor tables, `gdt.c`, `tss.c` | GDT, TSS array, stacks, `kernel_end` | `gdt_init`, `tss_init` | allocator |
| interrupts, `idt.c`, `interrupt.c`, `head.S` 54-138 | IDT, IST1 stack of each CPU | gates, entry path, handlers | console, local APIC |
| console, `printk.c` | cursor, lock, one format buffer | `color_printk`, `vsprintf`, `putchar` | everybody, handlers included |
| ACPI, `acpi.c` | I/O APIC address, `irq_to_gsi` | `acpi_init` | firmware tables |
| HPET, I/O APIC, local APIC | device registers | `*_init` | ACPI results |
| CPU identification, `cpuinfo.c` | `cpu_info` | `get_cpuinfo` | `cores_num` is used by tss and ap |
| loader, `bootloader/` | disk, FAT, temporary page table | `read_file`, E820 loop, mode switch | BIOS, kernel |
| `bitmap_memory .c` | as the allocator | as the allocator | not built |

What is hard here. CPUs interleave in the allocator, in the console and in the
start-up barrier. The allocator's bitmap, its counters and its owners are three
accounts of the same pages that must agree at the end of every critical
section. `memory_init` works in three granularities at once (page, bitmap byte,
bitmap word), and every boundary between them is a case. Results of allocations
are not checked by callers, TLBs are not always flushed, handlers print under a
lock that is not interrupt safe, and the barrier of `ap_init` counts with a
plain increment. `PROJECT.json` lists each of these hazards at its line.

What makes each component correct:

- allocator: no page has two owners and none is lost; counters are exact; the
  scan finds the lowest run if there is one in the words it reads; every call
  returns; to its callers the whole is atomic;
- `memory_init`: clear bits are exactly the usable pages outside the kernel,
  the bitmap covers the memory and owns its own pages, counters and bitmap
  agree;
- multiprocessor start: nobody loads tables that are not built, nobody passes
  the barrier early, everybody passes it in the end;
- virtual memory: an entry maps what was asked for, unmapping gives back what
  mapping took, no table is freed while in use, no access to a mapped page ends
  elsewhere;
- descriptor tables and `page_init`: everything allocated during boot lies
  below `kernel_end` and so in the kernel's page table; stacks are disjoint;
- interrupts and console: a handler never waits for the code it interrupted,
  and a nested one never overwrites a live frame; the cursor stays on screen;
- ACPI walk: what it takes for the I/O APIC at the end is the I/O APIC;
- loader: the kernel in memory is the file on the disk, the memory map arrives
  as the BIOS gave it, and no two CPUs start on one stack.

## 2. The modules

| module | models | state and actions |
|---|---|---|
| `PagePool` | what the allocator promises | pages available and held, one request per client; `AskTake`, `Take`, `RefuseTake`, `ReturnTake`, `AskGive`, `AskGiveOutside`, `Give`, `RefuseGive`, `ReturnGive` |
| `PageAllocator` | `alloc_pages`, `free_pages`, `SPIN_LOCK` | `bits_map` as the set of pages whose bit is 1, the counters, the lock byte, and for each CPU its place, arguments and loop variables |
| `MemoryInit` | `memory_init` | the BIOS map, the e820 list, the bitmap as a set, counters; `Collect`, `SizeBitmap`, `ClearRegion`, `MarkKernel`, `Count` |
| `VirtualMemory` | `map_pages`, `unmap_pages` | the contents of every frame as a table, the free frames, the TLB with and without the window's translations, the paging-structure caches, the arguments and loop indices of the call under way; one action per access that matters, other CPUs' `Take` and `Give`, the processor's `Touch`, `TouchTable` and `Forget` |
| `AddressSpace` | what `map_pages` and `unmap_pages` promise | what each virtual page is mapped to, where an access to it may end, and the call under way; `AskMap`, `Appear`, `AskUnmap`, `Vanish`, `StartPruning`, `AnswerUnmap`, `Die`, `Wander` |
| `KernelBoot` | `Kernel_init`, `ap_init` | for each CPU its place and the routine it is at, what is built, the console lock, `cpu_init_num` and the value each CPU has read from it |
| `BootMemory` (extends `MemoryInit`) | `gdt_init`, `tss_init`, `acpi_init`, `page_init` | the bitmap that `memory_init` leaves, the GDT's TSS descriptors, both stacks of every TSS, the firmware's MADT and what the walk takes from it, the pages mapped by `__PML4T`; one action per routine, one per iteration of the loop in `tss_init`, and `AllocFails` |
| `Interrupts` | gates, entry and return path, handlers, routing, console lock | for each CPU the stack of activities that interrupt one another, `RFLAGS.IF`, the frame at the top of IST1, the local APIC's request and in-service bits; one action per step that another activity can see |
| `Console`, `MCConsole` | `color_printk`, `vsprintf`, `number`, `putchar`, `pos_init` | cursor, lock, text buffer, each CPU's place, the last character drawn; one action per branch of the drawing loop |
| `BootLoader` | boot sector, loader, `read_file`, `read_disk`, `_start` | disk and BIOS as inputs, each CPU's place, the E820 list, `read_file`'s locals, buffer and image as sector numbers, `kenelstack_top` |
| `PageAllocatorProofs` | proofs | inductive invariant of `PageAllocator` |
| `PagePoolRefinement` | proofs | `PageAllocator` implements `PagePool` |
| `KernelBootProofs` | proofs | inductive invariant of `KernelBoot` |
| `InterruptsProofs` | proofs | inductive invariant of `Interrupts` |
| `ConsoleProofs` | proofs | layout of a number, cursor, drawing, buffer |
| `BootLoaderProofs` | proofs | stacks, memory map, the file in memory |
| `BootMemoryProofs` | proofs | inductive invariants of `MemoryInit` and `BootMemory`: what `memory_init` leaves, what is allocated from it, what is mapped |
| `VirtualMemoryProofs` | proofs | inductive invariant of `VirtualMemory`: the tree of tables, the account of frames, what is mapped; `VirtualMemory` implements `AddressSpace` |

### PageAllocator

A call is a sequence of steps, and a step is a stretch of statements between
two points at which another CPU could see a difference. `pc` names the points:

| `pc` | code |
|---|---|
| `lock_a`, `lock_f` | in the `cmpxchg` loop of `SPIN_LOCK` |
| `check_a`, `check_f` | lines 92 and 139 |
| `scan` | head of the word loop, line 100 |
| `bits` | body of the bit loop, lines 106-117 |
| `mark` | the loop at 118 |
| `commit_a`, `commit_f` | counters, unlock and return, 123-126 and 151-154 |
| `toggle` | the loop at 146 |

The loops at 118 and 146 change several bits in one step. That is sound: the
lock is held and nothing outside the lock reads the bitmap. The same holds of
the updates of the counters. The scan, in contrast, is modelled bit by bit,
because its correctness is the interesting part. `held` is a history variable,
the pages that callers own. Callers free only what they own, a part of it or
all of it, in any order, or an address beyond the end of memory: `unmap_pages`
passes an address with bit 63 set when the entry it reads has NX. Locals are
reset when a call returns, as C locals cease to exist, which also keeps the
state space small.

The refinement maps the pool's `avail` to the clear bits and its `call` to the
stage of each CPU: a request takes effect when its run is marked (`Mark` is
`Take`) or toggled (`Toggle` is `Give`), a refusal when the call returns.
`Usable` is the number of whole bitmap words times the word width, because the
scan reads whole words only.

### MemoryInit

Addresses are numbers of bytes. `PageSize`, `ByteBits` and `WordBits` stand for
4096, 8 and 64. The bitmap is the set of its 1 bits and `memset` is `MemsetBits`:
it starts at a word and has a length in bytes. One region is one step; the run
is sequential, on one CPU, before any other starts. The BIOS maps enumerated
have low memory that ends anywhere in its last page, a main region from 1M, and
optionally a hole and a third usable region, of every length the bound admits.

### VirtualMemory

A tree of `Depth` levels of tables with `Fan` entries; `mem` says what every
frame of memory holds when it is read as a table, so a page that was data is
full of `Junk` until `ClearTable` zeroes it, and a page that another CPU takes is
so at once. `Junk` stands for any contents: an entry that leads `Anywhere`, and
onward from there anywhere. `TableFrame` and `Translate` are the walk from the
root. The code never uses the address of a table: it reads and writes
through the recursive window, and `Reach` says which frame such an access hits.
An access that finds no table is `PageFault`, whose handler prints and loops; the
code never needs one through `Junk`, which is part of what
`FaultOnlyAfterFailure` says.

| `pc` | code |
|---|---|
| `tables` | lines 215-217: keep an entry, or link a new table |
| `clear` | the memset of line 218 |
| `fill` | an entry and its INVLPG, 225-226 |
| `free`, `zero`, `flush` | 172, 173 and the loop at 176 |
| `prune` | the search of a table, 183-191, and the `free_pages` of 186 |
| `unlink` | line 188 |

`alloc_pages` and `free_pages` appear as the atomic pool that `PageAllocator`
implements, with the two results their callers ignore: -1, which becomes the
entry `Failed`, and the refusal of an address that is not memory. `Nums` and
`Slot` are `nums[]` and the index expressions of the loops; map and unmap compute
them from the same values, in opposite order.

The processor may walk for any page at any step, mapped or not, whether anything
accesses it or not, and keep what it finds: a translation in `tlb` (`Touch`), or
a table it went through in `upper`, its paging-structure caches (`TouchTable`),
from which later walks start (`Found`, `Walked`). It may drop them at any step
(`Forget`). `INVLPG` drops the translation of its page and, as processors do, all
of `upper`. `WindowTlb` says whether translations of the recursive window are
cached too, which a processor may do: without it the functions are right, and
with it they are not (section 3).

The refinement of `AddressSpace` maps a page to the set of places where an access
to it may end (`Leads`): its cached translation if there is one, else what a walk
may find, from the root or from a cached table. There are two windows in which
the tables on the way hold arbitrary contents: between lines 217 and 218 a new
table is linked and not cleared, and between 186 and 188 a table is given back
and not unlinked, while its new owner may write to it. Pages that are not mapped
then lead `Anywhere`, and what is found that way may be cached. `AddressSpace`
therefore promises nothing of pages that are not mapped, except while they are
being unmapped (`Going`); of a mapped page it promises that it leads to its
target and nowhere else (`Appear`, `Firm`). The abstract call is the range and,
for `map_pages`, how many entries are filled. `unmap_pages` has a first stage, in
which pages of the range may vanish and none comes back (`Vanish`), and a second
from when the tables are looked at, which it enters with all of them gone
(`StartPruning`). After that the code flushes nothing any more: a translation
found through a freed table can stay in the TLB after `unmap_pages` has returned,
and goes only when the page is mapped again, by the `INVLPG` of line 226.

One CPU maps, as in the kernel, and its caches are the only ones in the model:
the code sends no other CPU a request to flush. Callers map what is not mapped
and unmap ranges of one kind, memory or device, at consecutive frames:
`unmap_pages` frees `page_num` frames from the first one's address and has no
other contract.

### KernelBoot

Each routine of `Kernel_init` before `ap_init` is one step; when the boot CPU
takes it, what it builds exists, and when another CPU takes it, it loads what
must exist. `ap_init` is modelled whole. The two announcement lines of the boot
CPU are one use of the console. `cpu_init_num++` is two steps, `LoadCount` and
`StoreCount`. The instruction at `ap.c` 22 that would send the start-up IPI
again writes model-specific register 0, since `loop` has left `rcx` at 0, so
one start-up IPI is sent; `DelaySuffices` says whether every CPU's reset is over
by then. A CPU's reset (`ResetDone`) is hardware and marked external.

### BootMemory

The boot CPU is alone until `ap_init`, so an allocation is one step, first fit
over the whole words of the bitmap, which is what `PagePool` promises to a
single client. `kernel_end` follows the code: the bitmap's end, then the start
of the GDT, then the end of the last interrupt stack. `TssEntry` is the index
`SET_TSS` computes when `NUM*2` is expanded with the text `TSS_START + i`;
`TrEntry` is the one in the selector that `ltr` loads. The MADT is a sequence of
records made of the units in which `acpi_init` walks it; one of its processors
may have a number and an APIC id that read as the header of an I/O APIC. The
page tables are modelled by what they map and how many frames they take. Results
of `alloc_pages` are not checked by this code; what it does with the address -1
is undefined, and the model stops there (`lost`).

Assumed of the machine: APIC ids are consecutive from 0, there is one I/O APIC,
the tables that `acpi_init` looks for exist, and the devices' pages lie outside
memory.

### Interrupts

`ctx[c]` is what CPU `c` is doing: the code of `Kernel_init` at the bottom and
above it the handlers that have interrupted one another. The code of each is a
short sequence of the steps others can see: taking the console lock, drawing and
unlocking, reading the scan code, EOI, `iretq`, the empty loop. All gates name
IST1, so `Enter` writes the frame of a delivery at the top of one stack and
`Iret` pops whatever is there. Gates, error codes, the words between the handler
and RIP, and the redirection table are tables copied from `idt.c`, `head.S`,
`linkage.h` and `ioapic.c` by rule, not by row. The processor, the local APIC,
the I/O APIC and the keyboard controller are external: an interrupt is offered
when its class is above everything in service and above the task priority that
`apic_init` sets; an edge on a masked pin is lost; the keyboard raises no edge
before its buffer is read. Exceptions may strike at every step of any code
except the two empty loops, also inside handlers. A non-maskable interrupt has
no source, and `ioapic_init` writes no entry for pins 9 and 10 and above 15.

### Console

A call is `Lock`, `Format`, one action per iteration of the drawing loop, and
`Unlock`. Characters are the five classes the loop tells apart. `Vsprintf` gives
the text of a format as the sequence of those classes: the layout of every
conversion, with flags, width, precision and the missing sign of an `int`, but
not the digits. What `number` counts down in seven places is one expression in
`NumberLayout`. The buffer is as long as the text; the code's has 4096 bytes, which
nothing tests, and the kernel's longest message needs a small part of them. The two
tests at the end of an iteration are `MoveTo`. `glyph` records the pixel `putchar`
was last called with.

### BootLoader

A sector of the disk holds its number, so what is in memory tells where it came
from. The boot CPU runs the boot sector, the loader and `_start`; a CPU that
`ap_init` starts enters the loader at its first instruction, on the same memory,
and skips the memory map, the mode setting and `read_file`. The BIOS ends its
list of memory regions with the last one or by the carry flag of one call more;
the loader takes the latter for a failure and halts. The BPB's numbers are
constants. Not modelled are disk errors, which the code does not look at, and a
file whose contents would look like a directory entry.

## 3. What is checked

| run | bounds | result |
|---|---|---|
| `page_allocator` | 2 CPUs, words of 2 bits, 7 pages, 1 reserved, requests of 0 to 3 pages | all properties hold, 80 492 states |
| `page_allocator_partial_word` | the same | `FailureMeansNoRun` is violated |
| `memory_init` | pages of 2 bytes, bitmap bytes of 2 bits, words of 4, at most 41 pages, 1 to 3 cores with stacks of 2 pages | all hold, 931 338 states |
| `memory_init_unaligned` | at most 21 pages, no core, regions start at any page | `BitmapMatchesBios` is violated |
| `virtual_memory` | 3 levels of 2 entries, 4 frames, ranges of 1 to 3 pages among pages 2, 3 and 4, 1 frame with other CPUs, 1 cached translation or table | all hold, 339 549 states |
| `virtual_memory_nx` | as `virtual_memory`, ranges of up to 2 pages among pages 1 to 4, attribute NX set | `FramesAccounted` is violated |
| `virtual_memory_window` | the same, ranges of up to 2 pages, window translations cached | `MapsWhatWasAsked` is violated |
| `kernel_boot` | 3 CPUs, start-up IPIs may be missed | all hold, about 2 100 states |
| `kernel_boot_lost_update` | 2 CPUs, no IPI missed | `EveryCpuComesUp` is violated |
| `interrupts` | 2 CPUs, 2 exceptions (with and without an error code), pins 2 and 3, 2 edges on them, keys without bound | all hold, 286 037 states |
| `console` | 2 CPUs, 2 calls each, 8 formats, 5 by 2 characters, tab stops at 4 | all hold, 20 405 states |
| `boot_loader` | 3 CPUs, files of 1 to 3 clusters among 3, 4 directory sectors, maps of up to 3 entries with room for 2 | all hold, 9 972 states |

Bounds. With words of 2 bits a request of 3 pages must cross a word, a full
word can lie between two clear ones, and 7 pages leave a partial last word;
two CPUs give every interference the lock must exclude. The proofs remove
these bounds. In `memory_init`, 41 pages leave room for regions that end at every
position in a byte and in a word, for a bitmap of more than one page, and for
the stacks of three cores in one region, around a hole, or not at all; with 16
entries to a table the kernel and the devices need tables of their own at two
levels. On the console's screen a tab can run over the end of a line, and a
format over the end of the screen; two backspaces in a row leave it at the upper
left. Two exceptions suffice for one inside the other and for one on each CPU. In
`boot_loader` the clusters lie in two sectors of the FAT and in both orders, and
the last entry of the memory map may not fit. Of eight pages, 2
and 3 fill a table and 4 shares one with a page that is never mapped;
a range from 3 to 4 crosses a table at both levels, and page 2 keeps both of
its tables when 3 and 4 go; four frames hold the
largest tree a range needs, and nothing else, so every allocation can fail. One
cached translation or table at a time shows every single way in which a walk can
go wrong; the proof has no bound on them. Three CPUs are enough for two to race
while the third is late.

Properties of the allocator:

- `TypeOK`; `LockProtects`: one CPU at a time, on every return path;
- `Conservation`: set bits are reserved, owned or in flight, and only one of them;
- `CountersExact`: counters against bitmap and against each other;
- `ScanKnows`: the loop invariant of the scan, and what each later step relies on;
- `ImplementsPool`: the refinement; `CallEnds`: a call that has the lock returns.

Properties of `memory_init`: `BitmapMatchesBios`, `BitmapOwnsItsPages`,
`CountersMatchBitmap`. The last is what `PageAllocator` assumes of its initial
state (`Init`, `TotalPagesAssumption`), so the two modules fit together.

Properties of the mapping: `MapsWhatWasAsked`: every walk finds what was asked
for, also during a call for pages outside its range; `FramesAccounted`: each
frame is free, owned, mapped or one table; `NoEmptyTable`;
`FaultOnlyAfterFailure`: the window is used only where tables are;
`CallReturns`; `ImplementsAddressSpace`: the refinement, which adds to the others
what an access finds in the middle of a call and through the caches. It depends
on the `INVLPG`s of both functions: without that of `map_pages` (the mutant) a new
page leads where a walk through old table contents ended, and without one of
`unmap_pages` a page of the range is still there when its tables go.

Properties of what the boot CPU builds: `StillReachable`: image, bitmap, tables,
stacks and the I/O APIC are mapped when CR3 is loaded and after; `OwnStacks`:
each CPU's selector names a TSS of its own and no byte of a stack belongs to
anything else.

Properties of interrupts: `OneDrawer`; `SelfDeadlockOnlyByFault`: a device
interrupt never waits for the code it interrupted, an exception inside
`color_printk` can; `ReturnsThroughOwnFrame`: whoever returns finds its own frame
and RIP where the code looks for it, although every delivery overwrites IST1;
`FaultsRunMasked`: trap gates do no harm, because only empty loops run with
interrupts on; `OnlySpuriousIsIgnored`: no device ends in the handler that never
returns; `KeyNotForgotten`; `InterruptsServed` and `LockGivenBack`, each unless
an exception or a spurious interrupt has stopped a CPU, and `LockGivenBack` only
if it was stopped while drawing.

Properties of the console: `CursorOnScreen`, `BufferIsHolders`, `GlyphInFrame`
(except for the blank of a backspace in column 0, which the code draws at a
column computed in pixels), `ReadingOrder`.

Properties of the loader: `LoadedWhole`, `MapHandedOver` (for maps that fit below
the VBE block), `BootStacksApart`.

Properties of the start: `NobodyLeavesEarly`, `TablesBuiltBeforeLoaded`,
`BarrierStaysOpen`.

Deadlock is not checked for `MemoryInit`, `BootMemory`, `BootLoader` and
`Console`, which end, nor for `Interrupts`, where CPUs may end in empty loops, nor for
`VirtualMemory`, where a page fault stops the CPU, nor for `KernelBoot`,
where a CPU that missed its start-up IPI, or a lost increment, stops the
machine, and a finished boot has no further step.

### Fairness

In `PageAllocator` a CPU inside a call keeps executing, since nothing preempts
it: weak fairness of `Critical` and of `Enter` for each CPU. Calls themselves
are not fair: nobody has to make one. `SPIN_LOCK` is no queue, so nothing is
promised to a CPU that spins while others come and go, and `CallEnds` is
claimed only from the moment a call has the lock. In `KernelBoot` every CPU
keeps executing and an IPI is sent when its turn comes; a CPU takes the console
lock a fixed number of times, so weak fairness suffices there. In `VirtualMemory`
the CPU inside a call keeps executing (weak fairness of `Mapper`); other CPUs
and the TLB owe nothing. In `Interrupts`
every CPU keeps executing (weak fairness of `Step`) and takes an interrupt it is
offered (weak fairness of `Deliver`); keys, lines, spurious interrupts and
exceptions owe nothing. A CPU that spins on the console lock competes with a
bounded number of prints of other CPUs, except for those of key presses, which
all happen on the boot CPU; the properties speak of the boot CPU's interrupts and
of the lock, so weak fairness is enough. `MemoryInit`, `BootMemory`, `BootLoader` and
`Console` claim no liveness.

### Disagreements found

1. `memory.c` line 100: the pages of a partial last bitmap word are counted in
   `free_pages` but never handed out, and `alloc_pages` returns -1, "no large
   enough block", while they are free (`page_allocator_partial_word`).
2. `memory.c` line 40: for a usable region that does not start at a multiple of
   256 KiB the wrong bits are cleared (`memory_init_unaligned`). With aligned
   regions the bitmap is right.
3. `ap.c` line 28: an increment can be lost, and then no CPU ever leaves
   `ap_init` (`kernel_boot_lost_update`).
4. `memory.c` line 172: `PAGE_4K_MASK` leaves bit 63 of the entry in the address,
   so memory mapped with an attribute for data, all of which have `PAGE_NX`, is
   never given back (`virtual_memory_nx`).
5. `memory.c` line 176: the window's own translations are not flushed when tables
   are freed; a later `map_pages` writes new entries into the old, freed tables
   (`virtual_memory_window`).

## 4. What is proved

Assumptions: the named `ASSUME`s of the modules and nothing else. `Cpu` is
finite, sizes are natural numbers, a word has at least one bit, reserved pages
lie inside the bitmap, `total_pages` is at least the number of clear bits; in
`KernelBoot` the core count is not below the number of CPUs; in `VirtualMemory` a
table has at least two entries, the tree at least two levels, memory at least
one page, and the pages that callers map exist.

`PageAllocatorProofs`. The five safety properties of the allocator are together
inductive, and none is alone: the scan's knowledge survives only because nobody
else changes the bitmap (`LockProtects`); a marked run had no owner only because
the scan is exact (`ScanKnows`); a toggled run was wholly set only because it was
owned (`Conservation`); the unsigned counters stay natural numbers because they
count clear bits (`CountersExact`). `IInv` is their conjunction. There is one
lemma for each part and step (`TypeStep`, `LockStep`, `ConservationStep`,
`CountersStep`, `ScanStep`), one case for each action, and `InvariantHolds`
combines them; the theorems `TypeCorrect`, `LockIsExclusive`,
`NoPageOwnedTwice`, `CountersAreExact` and `ScanIsExact` read off the parts.
The loop invariant rests on two lemmas without state: a clear page makes the
run one longer (`RunGrows`) and set pages end it (`RunEnds`), whether they are
one bit or a whole word.

`PagePoolRefinement`. `Refinement` is `Spec => ImplementsPool`. Each action maps
to one action of the pool or to a stutter, under the invariant. The two cases
with content are a grant, where `ScanKnows` gives that the run is the lowest
that fits, and a refusal (`NothingFits`), where either fewer pages are free
than asked for, so by `CountersExact` and a cardinality argument no run fits, or
the scan has passed the last word.

`KernelBootProofs`. The invariant says that neither `cpu_init_num` nor a value
read from it exceeds the number of CPUs that have counted themselves; when the
counter equals the core count all CPUs are therefore counted
(`BarrierIsSafe`), lost increments or not. That started CPUs find their tables
(`TablesAreBuilt`) follows from the boot CPU being at `ap_init` before any other
CPU leaves the BIOS.

`InterruptsProofs`. Every safety property of `Interrupts` is a theorem, for any
number of CPUs, any set of exceptions and pins. The invariant (`IInv`) says what
keeps the shared stack and the lock apart: interrupts are enabled only in the
kernel's last, empty loop (`Masking`); so a device handler is always the second
activity, on top of that loop, and everything above it is an exception handler,
which never returns (`Context`); hence the frame at the top of IST1 belongs to
the running activity (`Frames`), a return goes to the loop, and a CPU that waits
for the lock above its own drawing got there by an exception. Steps fall into
three kinds, by what they do to the stack of activities (`Advanced`, `Entered`,
`Returned`); each has one lemma about the activities and one about who draws.

`ConsoleProofs`. `CursorStaysOnScreen`, `DrawsInFrame`, `BufferProtected` and
`DrawsInReadingOrder` hold for every screen that has room for one character,
every tab distance, every set of formats and any number of CPUs. The invariant
is that the cursor is on the screen and that one CPU, the holder of the lock, is
inside `color_printk`. The cells of the screen and their pixels are related by
lemmas on division; `FieldIsFilled` is about the layout of a number as
`NumberLayout` sums it up.

`BootLoaderProofs`. `StacksApart` needs that the boot CPU passes `_start` before
any other leaves the BIOS, and that it raises `kenelstack_top` once.
`MapReachesKernel` follows from the entries being stored in order by the boot
CPU alone. `KernelIsWhole` is an induction along the chain: at cluster `k` the
image is the first `k - 1` clusters of the file (`ReadOneMore` adds one), and the
FAT entry read for it is the next cluster or the end mark (`FatEntryOfChain`),
for which the sector and offset computed by division are those of its entry
(`EntryOfCluster`). Assumed of the disk: every cluster of the file has its entry
inside the FAT and lies behind the sectors of the directory.

`BootMemoryProofs` is about `BootSpec`, which runs `memory_init` first. Every
property of `memory_init` and of what the boot CPU builds is a theorem, for every
width of pages, bytes and words, every memory, every number of cores and every
size of tables and stacks. `BootTypeCorrect` has no hypothesis. The other five
need `Aligned`: regions above 1M start at a bitmap word. Without it the code
clears the wrong bits, which the run `memory_init_unaligned` shows. The
assumptions on constants say that the kernel's stacks end above 1M
(`SizeAssumption`) and that the frame buffer is a finite set of pages.

- The three granularities are related by lemmas on division by a parameter
  (`DivMod`, `DivBounds`, `DivOfMultiple`), from which `MemsetOfPages` and
  `TailOfPages` say which pages the memset and the bit loop reach, and
  `RegionBits` that together they reach a region exactly once. `MInv` is what
  each stage has established about the region table, the counters and the size
  of the bitmap; `Content` is the bitmap itself after each region.
- `OwnInv`: what has been allocated is set in the bitmap, all stacks together
  have as many pages as they should, and none lies in the image or a table. A
  new run consists of clear bits, so it is disjoint from all of that
  (`OwnOfCore`). The counting makes overlap of two stacks impossible.
- `BootStillReachable` needs more than first fit. The kernel maps memory up to
  the end of the last stack, and the GDT and the TSS array were allocated before
  any stack; with a hole in memory a table may have gone above it while stacks
  still fit below. `PlaceInv` has the argument: free memory is two runs
  (`TwoRuns`), so the lowest run of `n` pages has fewer than `n` free pages
  below it (`LowestInTwoRuns`); all the stacks have at least as many pages as
  the table, so one of them lies above it (`TableBelowStacks`). This needs
  `TablesFit`, that the stacks of one core are as large as the GDT of one core:
  8 pages against 12 entries of 512 to a page in the code. `MapInv` says what is
  mapped at each stage, and `LastIoApic` that the last match in the MADT is the
  I/O APIC.

The library's induction theorems take an operator as a parameter, which these
provers cannot instantiate. `SmallestNat` (a set of numbers has a least element)
comes from the well-foundedness of inclusion among finite sets instead, and is
all that `Lowest` and `Min` need. `FlattenSeq`, which is a recursive function, is
unfolded four times (`FlattenOfFour`).

`VirtualMemoryProofs`. Every safety property of `VirtualMemory` is a theorem,
and so is the refinement of `AddressSpace` (`MappingIsAddressSpace`), for tables
of any size, any depth of the tree, memory and ranges of any size, any number of
pages that other CPUs own, and every allocation that fails. The hypothesis of
all is `WindowTlb = FALSE`, and of `CallsAccountForFrames` also `Nx \subseteq
{FALSE}`; the runs `virtual_memory_window` and `virtual_memory_nx` show that
they are needed.

- None of the properties speaks of the middle of a call, where the tables are
  inconsistent: `LinkTable` writes an entry before `ClearTable` zeroes the table it
  leads to, and `FreeTable` gives a table back before `UnlinkTable` clears its
  entry, so that another CPU may own it in between. The invariant `VInv` says that
  there is a memory `c`, equal to `mem` but for 0 in that one entry, and a walk `W`
  of it (`Sound`): in `c` the tables form a tree (`Tree`), every frame has one owner
  (`Accounts`), each page is mapped as far as the call has come (`Contents`), the
  tables that the loops have yet to use are there (`Standing`), and the only empty
  tables are those that the call has made or has yet to look at (`NonEmpty`).
- `Graft` is the step of both loops: an entry that leads to nothing or to an empty
  table is changed into one that leads to an empty table or to nothing. The tree
  stays a tree and no page changes its frame. `LeafTree` is the same for the last
  level.
- `NumsIsSpan`: `nums[]`, computed with masks and shifts from the first page and the
  length, is the number of entries that the range touches, at every level, wherever
  it starts; `SpanLevels` relates the levels. That is why the loops reach all tables
  of a range and no other.
- `ReachTable`: an access through the recursive window hits the table the code
  means. `FaultIsFailure`: it misses only under an entry that holds -1 for a table.
  After a page fault `Broken` keeps what a half-built tree still promises to the
  pages outside the range.
- The refinement is not about what walks find in general, which is anything, but
  about pages that are mapped or being unmapped (`Bound`). `Seen`, which follows
  from `VInv`, says that these are reached through tables of the tree alone, at
  every step of a call, and what stands in their entries. `MemoryChanges`: every
  step but `FillEntry` changes an entry only from or to one that leads to no table
  and no page; so, level by level (`PathKept`), the tables above a page that is
  bound before and after a step are the same, and so is its target (`Steady`,
  `TranslateKept`), whatever the step links, frees, unlinks or overwrites elsewhere.
- `Cached` is the invariant about the caches: of a bound page they know what the
  tables say (`Upright`), but for translations of entries that `ClearEntries` has
  cleared and `FlushPage` has yet to reach (`Stale`). Where that is so walks from
  cached tables find what a walk from the root finds (`WalksAreDirect`). `NextCached`
  needs `INVLPG` twice: a page that becomes bound by `FillEntry` may have been
  cached wrongly, at any level, until then; and pages of an `unmap_pages` are gone
  from the TLB before the first table is given back (`FlushedVanish`).
- With it each step maps to one of `AddressSpace` or to a stutter (`NextRefines`):
  `FillEntry` to `Appear`, the steps from `FreeData` to the last but one
  `FlushPage` to `Vanish`, the last to `StartPruning`, the last step of the loop
  over the tables to `AnswerUnmap`, `PageFault` to `Die`, and everything else to
  `Wander`.

The equations of the recursive functions `Unit`, `TableFrame` and `Found` are
proved with `SmallestNat` (`UnitEquation`, `WalkOfMem`, `FoundOfLevels`).

Only model-checked: the liveness properties `CallEnds`, `CallReturns`,
`BarrierStaysOpen`, `InterruptsServed` and `LockGivenBack` (fairness and
`ENABLED` are beyond the prover); and the violations.

## 5. Not modelled, and the plan

Not modelled:

- `get_cpuinfo`: reads of CPUID; its result `cores_num` is a parameter;
- `hpet_init`, which starts a counter that nothing reads and no comparator, and
  `enable_apic_time`, which nothing calls;
- the search for the RSDP and the RSDT's entries, and the bound of 24 of
  `irq_to_gsi`;
- mode switches, the temporary page table's four entries (`VirtualMemory` starts
  from an empty tree), CR4 and XCR0; clearing of `.bss`, which no code does
  although `memory.h` and `printk.h` define variables that rely on it;
- lists, strings and port I/O of `lib.h`, the font, the build files;
- the UEFI variant `bitmap_memory .c`, which is not built.

Further work: the UEFI allocator as a second implementation of `PagePool`, once it
builds: it includes `uefi.h` and `moslib.h`, which the repository does not have.
