------------------------------ MODULE MemoryInit ------------------------------
(***************************************************************************)
(* memory_init of kernel/memory.c, run once by the boot CPU: it collects   *)
(* the usable regions of the BIOS memory map, lays the page bitmap behind  *)
(* the kernel, clears the bits of the usable pages with memset and a bit   *)
(* by bit tail, sets those of the kernel again and computes the counters   *)
(* the allocator starts from (PageAllocator!Init).                         *)
(*                                                                         *)
(* Addresses are byte numbers and the three granularities of the code are  *)
(* constants: a page, the 8 pages of a bitmap byte (the mask 0x...8000 and *)
(* the length of a memset) and the 64 pages of a bitmap word (where a      *)
(* memset starts).  The defects a bitmap set up this way can have live in  *)
(* the differences between the three.                                      *)
(***************************************************************************)
EXTENDS Integers, FiniteSets, Sequences

CONSTANTS
  PageSize,    \* bytes of a page (4096 in the code)
  ByteBits,    \* bits of a bitmap byte (8)
  WordBits,    \* bits of a bitmap word (64)
  OneM,        \* 0x100000: where the kernel is loaded, in pages
  StackTop,    \* kenelstack_top, the end of the kernel's stacks, in bytes
  MaxPages,    \* bound: pages of the largest memory
  StartAlign   \* bound: regions above 1M start at a multiple of so many bytes

ASSUME GranularityAssumption ==
  /\ {PageSize, ByteBits, WordBits, StartAlign} \subseteq Nat \ {0}
  /\ WordBits % ByteBits = 0
ASSUME OneMAssumption == OneM \in Nat \ {0} /\ OneM % WordBits = 0
ASSUME SizeAssumption == MaxPages \in Nat /\ StackTop \in Nat /\ StackTop > OneM * PageSize

VARIABLES
  bios,          \* the map the loader left at E820_BASE: [address, length, type]
  e820,          \* memory_management_struct.e820, the usable regions
  total_pages, alloc_pages, free_pages,
  bits_map,      \* the set of bits that are 1
  bits_size, bits_length,
  kernel_end,    \* physical address of the first byte behind the bitmap
  p,             \* loop index: over the BIOS map, then over e820
  pc

vars == <<bios, e820, total_pages, alloc_pages, free_pages, bits_map,
          bits_size, bits_length, kernel_end, p, pc>>

------------------------------------------------------------------------------
(* The BIOS maps: low memory, the memory from 1M on, which holds the       *)
(* kernel, a reserved hole, and perhaps a further usable region.           *)

\* A region may end at any byte from page lo to page hi.
Bytes(lo, hi) == lo * PageSize .. hi * PageSize

Region(a, b, t) == [address |-> a, length |-> b - a, type |-> t]

\* The bitmap needs this many bytes for a memory that ends at byte b.
BitmapBytes(b) ==
  (WordBits \div ByteBits) * ((b \div PageSize + WordBits - 1) \div WordBits)

\* Rounded up to a whole page.
PageCeil(b) == ((b + PageSize - 1) \div PageSize) * PageSize

\* The kernel, its stacks and the bitmap must fit below byte m.
KernelFits(m, end) == PageCeil(StackTop + BitmapBytes(end)) <= m

BiosMaps ==
  LET Low  == {Region(0, b, 1) : b \in Bytes(OneM - 1, OneM)}
      Main == Bytes(OneM + 1, MaxPages)
      High == {r \in Main \X Main :
                 r[1] < r[2] /\ r[1] % StartAlign = 0}
      One  == {<<l, Region(OneM * PageSize, m, 1)>> :
                 l \in Low, m \in {b \in Main : KernelFits(b, b)}}
      Two  == {<<l, Region(OneM * PageSize, m, 1), Region(m, h[1], 2), Region(h[1], h[2], 1)>> :
                 l \in Low, m \in Main, h \in High}
  IN  One \cup {s \in Two : /\ s[3].length >= 0
                            /\ KernelFits(s[3].address, s[4].address + s[4].length)}

------------------------------------------------------------------------------
(* Collecting the usable regions.                                          *)

PageFloor(b) == b - (b % PageSize)

Init ==
  /\ bios \in BiosMaps
  /\ e820 = <<>>
  /\ total_pages = 0 /\ alloc_pages = 0 /\ free_pages = 0
  /\ bits_map = {} /\ bits_size = 0 /\ bits_length = 0
  /\ kernel_end = 0
  /\ p = 1
  /\ pc = "collect"

\* One entry of the BIOS map: type 1 is kept, cut to whole pages.
Collect ==
  /\ pc = "collect" /\ p <= Len(bios)
  /\ IF bios[p].type = 1
       THEN LET r == [address |-> PageFloor(bios[p].address),
                      length  |-> PageFloor(bios[p].length)]
            IN  /\ e820' = Append(e820, r)
                /\ total_pages' = total_pages + r.length \div PageSize
       ELSE UNCHANGED <<e820, total_pages>>
  /\ p' = p + 1
  /\ UNCHANGED <<bios, alloc_pages, free_pages, bits_map, bits_size, bits_length,
                 kernel_end, pc>>

------------------------------------------------------------------------------
(* The bitmap, as sets of bits.                                            *)

EndOf(r) == r.address + r.length

\* The bits memset reaches: n bytes from word w on.
MemsetBits(w, n) == w * WordBits .. w * WordBits + n * ByteBits - 1

\* Pages from byte address lo up to byte address hi, exclusive.
PagesOf(lo, hi) == lo \div PageSize .. (hi + PageSize - 1) \div PageSize - 1

\* The start of the bitmap byte that page address b falls in: & 0x...8000.
ByteFloor(b) == b - (b % (ByteBits * PageSize))

\* The tail loop flips the bits of the pages from ByteFloor(end) to end.
TailPages(end) == PagesOf(ByteFloor(end), end)

Flip(map, bits) == (map \ bits) \cup (bits \ map)

\* MUTANT of SizeBitmap: bits_length rounds down to whole words.
SizeBitmapFloor ==
  /\ pc = "collect" /\ p > Len(bios)
  /\ bits_size' = EndOf(e820[Len(e820)]) \div PageSize
  /\ bits_length' = (WordBits \div ByteBits) * (bits_size' \div WordBits)
  /\ bits_map' = MemsetBits(0, bits_length')
  /\ p' = 2
  /\ pc' = "clear"
  /\ UNCHANGED <<bios, e820, total_pages, alloc_pages, free_pages, kernel_end>>

\* The bitmap covers memory up to the end of the last region; all ones.
SizeBitmap ==
  /\ pc = "collect" /\ p > Len(bios)
  /\ bits_size' = EndOf(e820[Len(e820)]) \div PageSize
  /\ LET wordBytes == WordBits \div ByteBits
         bytes == (bits_size' + WordBits - 1) \div ByteBits
     IN  bits_length' = bytes - (bytes % wordBytes)
  /\ bits_map' = MemsetBits(0, bits_length')
  /\ p' = 2
  /\ pc' = "clear"
  /\ UNCHANGED <<bios, e820, total_pages, alloc_pages, free_pages, kernel_end>>

\* MUTANT of ClearRegion: the tail of the region is not flipped.
ClearRegionNoTail ==
  /\ pc = "clear" /\ p <= Len(e820)
  /\ LET r == e820[p]
         pages == r.length \div PageSize
     IN  bits_map' = bits_map \ MemsetBits((r.address \div PageSize) \div WordBits,
                                           pages \div ByteBits)
  /\ p' = p + 1
  /\ UNCHANGED <<bios, e820, total_pages, alloc_pages, free_pages, bits_size,
                 bits_length, kernel_end, pc>>

\* A region above 1M: memset clears its whole bytes, the loop its last pages.
\* e820[0], the low memory, is skipped (p starts at the second region).
ClearRegion ==
  /\ pc = "clear" /\ p <= Len(e820)
  /\ LET r == e820[p]
         pages == r.length \div PageSize
         body == MemsetBits((r.address \div PageSize) \div WordBits, pages \div ByteBits)
     IN  bits_map' = Flip(bits_map \ body, TailPages(EndOf(r)))
  /\ p' = p + 1
  /\ UNCHANGED <<bios, e820, total_pages, alloc_pages, free_pages, bits_size,
                 bits_length, kernel_end, pc>>

\* MUTANT of MarkKernel: the space of the bitmap itself is forgotten.
MarkKernelWithoutBitmap ==
  /\ pc = "clear" /\ p > Len(e820)
  /\ kernel_end' = PageCeil(StackTop)
  /\ LET pages == kernel_end' \div PageSize - OneM
         body == MemsetBits(OneM \div WordBits, pages \div ByteBits)
     IN  bits_map' = Flip(bits_map \cup body, TailPages(kernel_end'))
  /\ pc' = "count"
  /\ UNCHANGED <<bios, e820, total_pages, alloc_pages, free_pages, bits_size,
                 bits_length, p>>

\* From 1M to the page behind the bitmap everything is in use.
MarkKernel ==
  /\ pc = "clear" /\ p > Len(e820)
  /\ kernel_end' = PageCeil(StackTop + bits_length)
  /\ LET pages == kernel_end' \div PageSize - OneM
         body == MemsetBits(OneM \div WordBits, pages \div ByteBits)
     IN  bits_map' = Flip(bits_map \cup body, TailPages(kernel_end'))
  /\ pc' = "count"
  /\ UNCHANGED <<bios, e820, total_pages, alloc_pages, free_pages, bits_size,
                 bits_length, p>>

\* MUTANT of Count: low memory is not counted as allocated.
CountWithoutLow ==
  /\ pc = "count"
  /\ alloc_pages' = alloc_pages + (kernel_end \div PageSize - OneM)
  /\ free_pages' = total_pages - alloc_pages'
  /\ pc' = "done"
  /\ UNCHANGED <<bios, e820, total_pages, bits_map, bits_size, bits_length, kernel_end, p>>

Count ==
  /\ pc = "count"
  /\ alloc_pages' = alloc_pages + e820[1].length \div PageSize
                                + (kernel_end \div PageSize - OneM)
  /\ free_pages' = total_pages - alloc_pages'
  /\ pc' = "done"
  /\ UNCHANGED <<bios, e820, total_pages, bits_map, bits_size, bits_length, kernel_end, p>>

Next == Collect \/ SizeBitmap \/ ClearRegion \/ MarkKernel \/ Count

Spec == Init /\ [][Next]_vars /\ WF_vars(Next)

------------------------------------------------------------------------------
(* Properties.                                                             *)

TypeOK ==
  /\ bios \in BiosMaps
  /\ Len(e820) <= Len(bios)
  /\ {total_pages, alloc_pages, free_pages, bits_size, bits_length, kernel_end}
       \subseteq 0 .. MaxPages * PageSize
  /\ bits_map \subseteq MemsetBits(0, bits_length)

\* Pages every byte of which the BIOS calls usable, in its k-th entry.
UsablePages(k) ==
  LET r == bios[k]
  IN  IF r.type = 1
        THEN {g \in 0 .. MaxPages - 1 :
                /\ r.address <= g * PageSize
                /\ g * PageSize + PageSize <= r.address + r.length}
        ELSE {}

AboveOneM(S) == {g \in S : g >= OneM}

UsableAboveOneM == AboveOneM(UNION {UsablePages(k) : k \in DOMAIN bios})

KernelPages == OneM .. kernel_end \div PageSize - 1

(* The comment at the loop, "1M and above, usable space is set to 0", and  *)
(* the kernel marked in use behind it: when memory_init is done the clear  *)
(* bits are the pages the BIOS calls usable, above 1M, outside the kernel. *)
(* A clear bit for any other page is memory the allocator will hand out    *)
(* although it does not exist, belongs to a device or holds the kernel.    *)
BitmapMatchesBios ==
  pc = "done" =>
    MemsetBits(0, bits_length) \ bits_map = UsableAboveOneM \ KernelPages

(* The bitmap has a bit for every usable page, and the pages it lies in    *)
(* are marked in use, as are those of the kernel before it: the allocator  *)
(* never hands out the memory its own bitmap occupies.                     *)
BitmapOwnsItsPages ==
  pc \in {"count", "done"} =>
    /\ 0 .. bits_size - 1 \subseteq MemsetBits(0, bits_length)
    /\ PagesOf(OneM * PageSize, StackTop + bits_length) \subseteq bits_map

(* The counters the allocator starts from agree with the bitmap it starts  *)
(* from: this is PageAllocator's Init and TotalPagesAssumption.            *)
CountersMatchBitmap ==
  pc = "done" =>
    /\ alloc_pages + free_pages = total_pages
    /\ free_pages = Cardinality((0 .. bits_size - 1) \ bits_map)

==============================================================================
