------------------------------ MODULE BootMemory ------------------------------
(***************************************************************************)
(* What the boot CPU allocates between memory_init and the kernel's own    *)
(* page table, and what it finds to map in it: gdt_init (kernel/gdt.c),    *)
(* tss_init (kernel/tss.c), acpi_init (kernel/acpi.c) and page_init        *)
(* (kernel/page.c), on the bitmap that MemoryInit leaves.                  *)
(*                                                                         *)
(* The boot CPU is alone: an allocation is one step, first fit over the    *)
(* whole words of the bitmap (module PageAllocator).  The page tables that *)
(* page_init builds are modelled by the pages they map and the number of   *)
(* tables that takes; how map_pages fills them is module VirtualMemory.    *)
(* No result of an allocation is checked: after one that fails the code    *)
(* goes on with the address -1, and the model stops ("lost").              *)
(***************************************************************************)
EXTENDS MemoryInit, SequencesExt

CONSTANTS
  MaxCores,       \* bound: the largest cores_num
  StackPages,     \* pages of a stack (4 in the code)
  TssStart,       \* TSS_START, the GDT entries before the first TSS (10)
  GdtPageEntries, \* GDT entries per page (512)
  TssPerPage,     \* TSSs per page (39)
  Fan,            \* entries of a page table (512)
  FrameBuffer,    \* the page numbers of Pos.FB_addr
  HpetPage,       \* the page the HPET table names
  IoApicPages     \* pages of I/O APICs the MADT may name

ASSUME BootAssumption ==
  /\ {MaxCores, StackPages, TssStart, GdtPageEntries, TssPerPage, Fan} \subseteq Nat \ {0}
  /\ FrameBuffer \cup IoApicPages \cup {HpetPage} \subseteq Nat
  /\ IsFiniteSet(FrameBuffer)

VARIABLES
  cores_num,   \* cpu_info.cores_num
  gdt_base,    \* gdt_ptr.base, as a page
  gdt,         \* the TSS descriptors: entry number -> index of the TSS
  tss_base,    \* tss_ptr.base, as a page
  rsp0, ist1,  \* of every TSS built: the page its stack ends before
  madt,        \* the firmware's MADT, a sequence of records
  ioapic_baseaddr, hpet_baseaddr, \* as pages, 0 when not found
  irq_to_gsi,
  mapped       \* the pages __PML4T maps at their high addresses

tssVars == <<gdt_base, gdt, tss_base, rsp0, ist1>>
acpiVars == <<ioapic_baseaddr, hpet_baseaddr, irq_to_gsi>>
bootVars == <<cores_num, madt, tssVars, acpiVars, mapped>>

------------------------------------------------------------------------------
(* alloc_pages, for a single caller.                                       *)

Pages(a, n) == a .. a + n - 1

\* The runs of n clear bits in the words the scan reads.
FreeRuns(n) ==
  {a \in 0 .. (bits_size \div WordBits) * WordBits - n : Pages(a, n) \cap bits_map = {}}

CanTake(n) == free_pages >= n /\ FreeRuns(n) # {}

Lowest(n) == Min(FreeRuns(n))

\* The pages S are allocated.
Take(S) ==
  /\ bits_map' = bits_map \cup S
  /\ alloc_pages' = alloc_pages + Cardinality(S)
  /\ free_pages' = free_pages - Cardinality(S)
  /\ UNCHANGED <<bios, e820, total_pages, bits_size, bits_length, cores_num, madt>>

------------------------------------------------------------------------------
(* The MADT.  A record is a sequence of two byte units, the first of which *)
(* is its type and length; an address stands in one unit, as a page.       *)

LocalApic(uid, id) == << <<0, 8>>, <<uid, id>>, <<1, 0>>, <<0, 0>> >>

IoApic(page) == << <<1, 12>>, <<0, 0>>, <<page, 0>>, <<0, 0>>, <<0, 0>>, <<0, 0>> >>

Override(source, gsi) == << <<2, 10>>, <<0, source>>, <<gsi, 0>>, <<0, 0>>, <<0, 0>> >>

\* Processors, among them perhaps one whose number and APIC id read as the
\* header of an I/O APIC, the I/O APIC, and the override of the timer.
Madts ==
  {<<LocalApic(0, 0), LocalApic(1, id), IoApic(page), Override(0, 2)>> :
     id \in {1, 12}, page \in IoApicPages}

Starts(unit) == {k \in DOMAIN FlattenSeq(madt) : FlattenSeq(madt)[k] = unit}

------------------------------------------------------------------------------
(* gdt_init and tss_init.                                                  *)

BootInit ==
  /\ Init
  /\ madt \in Madts
  /\ ioapic_baseaddr = 0 /\ hpet_baseaddr = 0 /\ irq_to_gsi = <<>>
  /\ cores_num \in 1 .. MaxCores
  /\ gdt_base = 0 /\ gdt = <<>> /\ tss_base = 0
  /\ rsp0 = <<>> /\ ist1 = <<>>
  /\ mapped = {}

MemorySteps == Next /\ UNCHANGED bootVars

\* Whole units for n items, per items to a unit.
Units(n, per) == (n + per - 1) \div per

GdtPages == Units(TssStart + 2 * cores_num, GdtPageEntries)

TssPages == Units(cores_num, TssPerPage)

\* gdt_init: kernel_end becomes the start of the GDT.
GdtInit ==
  /\ pc = "done" /\ CanTake(GdtPages)
  /\ gdt_base' = Lowest(GdtPages)
  /\ Take(Pages(gdt_base', GdtPages))
  /\ kernel_end' = gdt_base' * PageSize
  /\ pc' = "gdt"
  /\ UNCHANGED <<p, gdt, tss_base, rsp0, ist1, acpiVars, mapped>>

\* tss_init before its loop; p is the i of the loop.
TssArray ==
  /\ pc = "gdt" /\ CanTake(TssPages)
  /\ tss_base' = Lowest(TssPages)
  /\ Take(Pages(tss_base', TssPages))
  /\ p' = 0
  /\ pc' = "tss"
  /\ UNCHANGED <<kernel_end, gdt_base, gdt, rsp0, ist1, acpiVars, mapped>>

\* MUTANT of TssEntry: the argument of the macro in parentheses.
TssEntryParenthesised(i) == (TssStart + i) * 2

\* SET_TSS writes GDTBASE[NUM*2] and the entry behind it; NUM is the text
\* TSS_START + i.
TssEntry(i) == TssStart + i * 2

\* The GDT with the descriptor of TSS i at entry e.
WithTss(e, i) == [x \in DOMAIN gdt \cup {e} |-> IF x = e THEN i ELSE gdt[x]]

\* The stack in the StackPages pages from page a on ends before this page.
StackEnd(a) == a + StackPages

\* The starts of the second of two allocations of a stack.
SecondRuns == {b \in FreeRuns(StackPages) : b >= StackEnd(Lowest(StackPages))}

CanTakeStacks == free_pages >= 2 * StackPages /\ SecondRuns # {}

\* MUTANT of TssCore: kernel_end follows the first of the two stacks.
TssCoreEndsAtRsp0 ==
  /\ pc = "tss" /\ p < cores_num /\ CanTakeStacks
  /\ LET a == Lowest(StackPages)
         b == Min(SecondRuns)
     IN  /\ Take(Pages(a, StackPages) \cup Pages(b, StackPages))
         /\ rsp0' = Append(rsp0, StackEnd(a))
         /\ ist1' = Append(ist1, StackEnd(b))
         /\ kernel_end' = StackEnd(a) * PageSize
  /\ gdt' = WithTss(TssEntry(p), p)
  /\ p' = p + 1
  /\ UNCHANGED <<pc, gdt_base, tss_base, acpiVars, mapped>>

\* One iteration: the stacks of core p, its descriptor, and kernel_end.
TssCore ==
  /\ pc = "tss" /\ p < cores_num /\ CanTakeStacks
  /\ LET a == Lowest(StackPages)
         b == Min(SecondRuns)
     IN  /\ Take(Pages(a, StackPages) \cup Pages(b, StackPages))
         /\ rsp0' = Append(rsp0, StackEnd(a))
         /\ ist1' = Append(ist1, StackEnd(b))
         /\ kernel_end' = StackEnd(b) * PageSize
  /\ gdt' = WithTss(TssEntry(p), p)
  /\ p' = p + 1
  /\ UNCHANGED <<pc, gdt_base, tss_base, acpiVars, mapped>>

\* ltr: every CPU loads its selector, (cpu_id << 4) + TSS_START * 8.
TrEntry(cpu_id) == cpu_id * 2 + TssStart

\* acpi_init looks for a header in every unit; the last I/O APIC wins.
AcpiInit ==
  /\ pc = "tss" /\ p = cores_num
  /\ LET units == FlattenSeq(madt)
         at    == Starts(<<1, 12>>)
     IN  /\ ioapic_baseaddr' = IF at = {} THEN 0 ELSE units[Max(at) + 2][1]
         /\ irq_to_gsi' = [j \in 1 .. Cardinality(Starts(<<2, 10>>)) |->
                             LET k == SetToSortSeq(Starts(<<2, 10>>), <)[j]
                             IN  <<units[k + 1][2], units[k + 2][1]>>]
  /\ hpet_baseaddr' = HpetPage
  /\ pc' = "acpi"
  /\ UNCHANGED <<bios, e820, total_pages, alloc_pages, free_pages, bits_map, bits_size,
                 bits_length, kernel_end, p, cores_num, madt, tssVars, mapped>>

------------------------------------------------------------------------------
(* page_init.                                                              *)

\* The tables below __PML4T that map the pages S, by level and index.
Tables(S) == {<<level, g \div Fan^level>> : level \in 1 .. 3, g \in S}

\* How many tables map_pages allocates to map S besides what is mapped.
NewTables(S) == Cardinality(Tables(mapped \cup S) \ Tables(mapped))

\* The n lowest free pages: what n allocations of one page return.
LowestPages(n) ==
  {g \in FreeRuns(1) : Cardinality({k \in FreeRuns(1) : k < g}) < n}

CanMap(S) == free_pages >= NewTables(S) /\ Cardinality(FreeRuns(1)) >= NewTables(S)

MapPages(S) ==
  /\ CanMap(S)
  /\ Take(LowestPages(NewTables(S)))
  /\ mapped' = mapped \cup S
  /\ UNCHANGED <<kernel_end, p, tssVars, acpiVars>>

\* Memory up to kernel_end into __PML4T, then SET_CR3.  The entries of the
\* temporary table are saved, used to build it and restored.
PageInit ==
  /\ pc = "acpi"
  /\ MapPages(Pages(0, kernel_end \div PageSize))
  /\ pc' = "paging"

Devices == FrameBuffer \cup {ioapic_baseaddr, hpet_baseaddr}

\* The devices, through the table just loaded.
MapDevices ==
  /\ pc = "paging"
  /\ MapPages(Devices)
  /\ pc' = "running"

\* An allocation fails.
AllocFails ==
  /\ \/ pc = "done" /\ ~ CanTake(GdtPages)
     \/ pc = "gdt" /\ ~ CanTake(TssPages)
     \/ pc = "tss" /\ p < cores_num /\ ~ CanTakeStacks
     \/ pc = "acpi" /\ ~ CanMap(Pages(0, kernel_end \div PageSize))
     \/ pc = "paging" /\ ~ CanMap(Devices)
  /\ pc' = "lost"
  /\ UNCHANGED <<bios, e820, total_pages, alloc_pages, free_pages, bits_map, bits_size,
                 bits_length, kernel_end, p, bootVars>>

BootNext ==
  \/ MemorySteps
  \/ GdtInit \/ TssArray \/ TssCore \/ AcpiInit \/ PageInit \/ MapDevices \/ AllocFails

BootSpec == BootInit /\ [][BootNext]_<<vars, bootVars>>

------------------------------------------------------------------------------
(* Properties.                                                             *)

\* The image, the boot stacks and the bitmap.
ImagePages == PagesOf(OneM * PageSize, StackTop + bits_length)

TablePages == Pages(gdt_base, GdtPages) \cup Pages(tss_base, TssPages)

StackBefore(page) == Pages(page - StackPages, StackPages)

(* page_init maps memory up to kernel_end and nothing above it, and        *)
(* kernel_end is whatever the last of three routines has left there.  What *)
(* the kernel uses after the switch was all allocated before it: its       *)
(* image, the bitmap, the GDT, the TSS array and both stacks of every core *)
(* are mapped, in any memory, with holes or without.  So is, in the end,   *)
(* the I/O APIC, although the walk of the MADT takes other records for it. *)
StillReachable ==
  pc \in {"paging", "running"} =>
    /\ ImagePages \cup TablePages \subseteq mapped
    /\ \A i \in 1 .. cores_num : StackBefore(rsp0[i]) \cup StackBefore(ist1[i]) \subseteq mapped
    /\ pc = "running" => \A i \in DOMAIN madt : madt[i][1] = <<1, 12>> => madt[i][3][1] \in mapped

(* The selector every CPU loads with ltr names, in the GDT, a TSS of its   *)
(* own, and no byte of a stack belongs to another stack, to a table, to    *)
(* the image or to the bitmap.  The index of the descriptor is computed in *)
(* two places, once by a macro without parentheses and once from cpu_id.   *)
OwnStacks ==
  pc \in {"paging", "running"} =>
    LET cpus == 0 .. cores_num - 1
        own  == {gdt[TrEntry(c)] + 1 : c \in cpus}
        used == UNION {StackBefore(rsp0[i]) \cup StackBefore(ist1[i]) : i \in own}
    IN  /\ \A c \in cpus : TrEntry(c) \in DOMAIN gdt /\ TrEntry(c) + 1 < GdtPages * GdtPageEntries
        /\ Cardinality(used) = 2 * cores_num * StackPages
        /\ used \cap (ImagePages \cup TablePages) = {}

==============================================================================
