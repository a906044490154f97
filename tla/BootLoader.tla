------------------------------ MODULE BootLoader ------------------------------
(***************************************************************************)
(* From the boot sector to Kernel_init: bootloader/boot.asm, loader.asm    *)
(* with read_file (readfile.inc) and read_disk (readdisk.inc), and _start  *)
(* of kernel/head.S.  The boot CPU runs all of it; the other CPUs, started *)
(* by the kernel, enter at the loader, on the same memory, and skip what   *)
(* must be done once.                                                      *)
(*                                                                         *)
(* The disk is numbered by sectors and what a sector holds is its number:  *)
(* the buffer and the image in memory hold sector numbers.  A sector's     *)
(* directory entries are compared in one step, and the contents of files   *)
(* are never mistaken for a directory entry, as the scan would do if the   *)
(* eleven characters of the name stood at a multiple of 32 in one.         *)
(***************************************************************************)
EXTENDS Integers, Sequences

CONSTANTS
  CoresNum,        \* CPUs; their APIC ids are 0 .. CoresNum - 1, 0 boots
  SecPerClus,      \* BPB_SecPerClus
  FatStart,        \* BPB_HiddSec + BPB_RsvdSecCnt, the first sector of the FAT
  FatSecs,         \* BPB_FATSz32 * BPB_NumFATs, the sectors of all copies
  FatEntries,      \* entries of the FAT per sector (128)
  RootSecNum,      \* sectors of the data area, where the scan ends
  RootSecs,        \* of which the first so many hold the root directory
  FileClusters,    \* bound: the clusters kernel.bin may lie in
  MaxClusters,     \* bound: and how many of them it has
  E820Room,        \* entries of 20 bytes from 0x504 to 0x600 (12)
  MaxE820          \* bound: entries the BIOS reports

ASSUME DiskAssumption ==
  /\ {SecPerClus, FatStart, FatSecs, FatEntries, RootSecNum} \subseteq Nat \ {0}
  /\ RootSecs \in 1 .. RootSecNum
  /\ FileClusters \subseteq Nat
  /\ \A k \in FileClusters : k < FatSecs * FatEntries /\ (k - 2) * SecPerClus >= RootSecs
ASSUME BoundAssumption == MaxClusters \in Nat
ASSUME CpuAssumption == CoresNum \in Nat \ {0}
ASSUME E820Assumption == E820Room \in Nat /\ MaxE820 \in Nat

Cpu == 0 .. CoresNum - 1
Bsp == 0

VARIABLES
  disk,             \* where kernel.bin is: its clusters in order, and the
                    \* sector of the root directory that names it (-1: none)
  bios,             \* the BIOS: number of E820 entries, and how it ends them
  pc,               \* where each CPU is
  count, e820,      \* MemStructNumber and the entries stored from 0x504 on
  NextRootSec,      \* read_file's locals, on the stack below 0x10000
  NextClus, PFileAddr,
  fat32buf,         \* the sector in the buffer at 0x700
  image,            \* the sectors at 1M: sector of memory -> sector of disk
  kenelstack_top,   \* in stacks above _end
  rsp               \* of each CPU, in the same unit

boot == <<disk, bios>>
map  == <<count, e820>>
file == <<NextRootSec, NextClus, PFileAddr, fat32buf, image>>
vars == <<boot, pc, map, file, kenelstack_top, rsp>>

------------------------------------------------------------------------------
(* The disk.                                                               *)

RootStartSec == FatStart + FatSecs

\* An end-of-chain mark; the loader knows 0x0fffffff only.
EndOfChain == -1

\* kernel.bin: at least one cluster, in any order, named in any sector of the
\* root directory or in none.
Disks ==
  LET Chains == {s \in UNION {[1 .. n -> FileClusters] : n \in 1 .. MaxClusters} :
                   \A i, j \in DOMAIN s : s[i] = s[j] => i = j}
  IN  [clusters : Chains,
       named    : RootStartSec .. RootStartSec + RootSecs - 1 \cup {-1}]

\* What entry of the FAT stands at offset i of sector s, 0 outside the FAT.
FatEntry(s, i) ==
  LET k == (s - FatStart) * FatEntries + i
      at == {n \in DOMAIN disk.clusters : disk.clusters[n] = k}
  IN  IF at = {} \/ s < FatStart \/ s >= RootStartSec THEN 0
      ELSE LET n == CHOOSE n \in at : TRUE
           IN  IF n = Len(disk.clusters) THEN EndOfChain ELSE disk.clusters[n + 1]

------------------------------------------------------------------------------
Init ==
  /\ disk \in Disks
  /\ bios \in [entries : 1 .. MaxE820, end : {"zero", "carry"}]
  /\ pc = [c \in Cpu |-> IF c = Bsp THEN "boot" ELSE "off"]
  /\ count = 0 /\ e820 = <<>>
  /\ NextRootSec = 0 /\ NextClus = 0 /\ PFileAddr = 0
  /\ fat32buf = 0 /\ image = <<>>
  /\ kenelstack_top = 0
  /\ rsp = [c \in Cpu |-> 0]

Goto(c, label) == pc' = [pc EXCEPT ![c] = label]

Halt(c) == Goto(c, "halt") /\ UNCHANGED <<boot, map, file, kenelstack_top, rsp>>

\* The boot sector reads 20 sectors and looks for the two nops of the loader.
LoadLoader ==
  /\ pc[Bsp] = "boot"
  /\ Goto(Bsp, "loader")
  /\ UNCHANGED <<boot, map, file, kenelstack_top, rsp>>

LoadFails == pc[Bsp] = "boot" /\ Halt(Bsp)

\* The entry of the loader: the boot CPU collects the memory map, the others
\* go on to protected mode.
Loader(c) ==
  /\ pc[c] = "loader"
  /\ IF c = Bsp THEN Goto(c, "e820") /\ count' = 0 /\ e820' = <<>>
     ELSE Goto(c, "setgdt") /\ UNCHANGED map
  /\ UNCHANGED <<boot, file, kenelstack_top, rsp>>

\* MUTANT of StoreEntry: the destination is not moved on.
StoreEntryInPlace(entry) == count' = count + 1 /\ e820' = <<entry>>

\* add di,20 and inc [MemStructNumber].
StoreEntry(entry) == count' = count + 1 /\ e820' = Append(e820, entry)

\* int 15h with E820h: one entry; ebx = 0 with the last, unless this BIOS
\* ends the list with the carry flag of one call more.
E820Entry(c) ==
  /\ pc[c] = "e820" /\ count < bios.entries
  /\ StoreEntry(count + 1)
  /\ Goto(c, IF count' = bios.entries /\ bios.end = "zero" THEN "vbe" ELSE "e820")
  /\ UNCHANGED <<boot, file, kenelstack_top, rsp>>

\* Carry: Label_Get_Mem_Fail.
E820Fails(c) ==
  /\ pc[c] = "e820" /\ count = bios.entries
  /\ count' = 0
  /\ Goto(c, "halt")
  /\ UNCHANGED <<boot, e820, file, kenelstack_top, rsp>>

\* The mode information is written to 0x600, over the entries behind the
\* twelfth.  Then the mode is set.
SetVbe(c) ==
  /\ pc[c] = "vbe"
  /\ e820' = [i \in DOMAIN e820 |-> IF i > E820Room THEN 0 ELSE e820[i]]
  /\ \/ Goto(c, "setgdt")
     \/ Goto(c, "halt")
  /\ UNCHANGED <<boot, count, file, kenelstack_top, rsp>>

\* Protected mode, the temporary page table and long mode: every CPU writes
\* the same values.  Only the boot CPU then calls read_file.
EnterLongMode(c) ==
  /\ pc[c] = "setgdt"
  /\ IF c = Bsp
       THEN /\ Goto(c, "scan")
            /\ NextRootSec' = RootStartSec
            /\ PFileAddr' = 0
            /\ UNCHANGED <<NextClus, fat32buf, image>>
       ELSE Goto(c, "start") /\ UNCHANGED file
  /\ UNCHANGED <<boot, map, kenelstack_top, rsp>>

------------------------------------------------------------------------------
(* read_file.                                                              *)

\* The next sector of the data area; the name is in it.
FindName(c) ==
  /\ pc[c] = "scan"
  /\ fat32buf' = NextRootSec
  /\ fat32buf' = disk.named
  /\ NextClus' = disk.clusters[1]
  /\ Goto(c, "cluster")
  /\ UNCHANGED <<boot, map, NextRootSec, PFileAddr, image, kenelstack_top, rsp>>

\* The name is not in it: on to the next sector.  After the last read_file
\* returns 0, and the loader jumps to 1M all the same, where there is no kernel
\* ("lost").
SkipSector(c) ==
  /\ pc[c] = "scan"
  /\ fat32buf' = NextRootSec
  /\ fat32buf' # disk.named
  /\ NextRootSec' = NextRootSec + 1
  /\ Goto(c, IF NextRootSec' = RootStartSec + RootSecNum THEN "lost" ELSE "scan")
  /\ UNCHANGED <<boot, map, NextClus, PFileAddr, image, kenelstack_top, rsp>>

\* MUTANT of ClusterStart: cluster numbers start at 0.
ClusterStartFromZero(k) == RootStartSec + k * SecPerClus

\* The first sector of cluster k.
ClusterStart(k) == RootStartSec + (k - 2) * SecPerClus

\* read_disk: n sectors from s to memory sector a.
ReadDisk(a, s, n) ==
  image' = [i \in DOMAIN image \cup a .. a + n - 1 |->
              IF i \in a .. a + n - 1 THEN s + (i - a) ELSE image[i]]

ReadCluster(c) ==
  /\ pc[c] = "cluster"
  /\ ReadDisk(PFileAddr, ClusterStart(NextClus), SecPerClus)
  /\ Goto(c, "fat")
  /\ UNCHANGED <<boot, map, NextRootSec, NextClus, PFileAddr, fat32buf, kenelstack_top, rsp>>

\* MUTANT of NextInChain: the next cluster is read over this one.
NextInChainInPlace(c, next) ==
  IF next = EndOfChain THEN Goto(c, "start") /\ UNCHANGED <<NextClus, PFileAddr>>
  ELSE /\ NextClus' = next
       /\ UNCHANGED PFileAddr
       /\ Goto(c, "cluster")

\* okfile, or the next cluster behind this one.
NextInChain(c, next) ==
  IF next = EndOfChain THEN Goto(c, "start") /\ UNCHANGED <<NextClus, PFileAddr>>
  ELSE /\ NextClus' = next
       /\ PFileAddr' = PFileAddr + SecPerClus
       /\ Goto(c, "cluster")

\* The sector of the FAT with this cluster's entry replaces the directory
\* sector in the buffer.
FollowChain(c) ==
  /\ pc[c] = "fat"
  /\ fat32buf' = FatStart + NextClus \div FatEntries
  /\ NextInChain(c, FatEntry(fat32buf', NextClus % FatEntries))
  /\ UNCHANGED <<boot, map, NextRootSec, image, kenelstack_top, rsp>>

------------------------------------------------------------------------------
(* The kernel.                                                             *)

\* MUTANT of GrowStacks: every CPU makes room for all stacks.
GrowStacksAlways(c) == kenelstack_top' = kenelstack_top + CoresNum

\* The boot CPU makes room for the stacks of all CPUs.
GrowStacks(c) ==
  kenelstack_top' = IF c = Bsp THEN kenelstack_top + CoresNum ELSE kenelstack_top

\* _start: the stack of a CPU ends at kenelstack_top - (APIC id << 14).
Start(c) ==
  /\ pc[c] = "start"
  /\ GrowStacks(c)
  /\ rsp' = [rsp EXCEPT ![c] = kenelstack_top' - c]
  /\ Goto(c, "kernel")
  /\ UNCHANGED <<boot, map, file>>

\* ap_init on the boot CPU: the start-up IPI reaches the others.
StartUp(c) ==
  /\ pc[c] = "off" /\ pc[Bsp] = "kernel"
  /\ Goto(c, "loader")
  /\ UNCHANGED <<boot, map, file, kenelstack_top, rsp>>

Next ==
  \/ LoadLoader \/ LoadFails
  \/ \E c \in Cpu :
       \/ Loader(c) \/ E820Entry(c) \/ E820Fails(c) \/ SetVbe(c) \/ EnterLongMode(c)
       \/ FindName(c) \/ SkipSector(c) \/ ReadCluster(c) \/ FollowChain(c)
       \/ Start(c) \/ StartUp(c)

Spec == Init /\ [][Next]_vars

------------------------------------------------------------------------------
(* Properties.                                                             *)

\* Sector i of kernel.bin on the disk.
FileSector(i) ==
  RootStartSec + (disk.clusters[i \div SecPerClus + 1] - 2) * SecPerClus
    + (i % SecPerClus)

(* When a CPU enters the kernel all of kernel.bin is at 1M and in order,   *)
(* however its clusters lie on the disk, and although one buffer serves    *)
(* the directory and the FAT.                                              *)
LoadedWhole ==
  (\E c \in Cpu : pc[c] \in {"start", "kernel"}) =>
    image = [i \in 0 .. Len(disk.clusters) * SecPerClus - 1 |-> FileSector(i)]

(* memory_init finds every entry the BIOS has reported, and their number,  *)
(* at 0x500, if there are no more than the twelve that fit below the VBE   *)
(* information: nothing on the way to the kernel, nor a CPU that is        *)
(* started later, has changed them.                                        *)
MapHandedOver ==
  pc[Bsp] \in {"start", "kernel"} /\ bios.entries <= E820Room =>
    count = bios.entries /\ e820 = [i \in 1 .. bios.entries |-> i]

(* Every CPU in the kernel has a stack of its own between _end and the     *)
(* page bitmap, which memory_init lays at kenelstack_top: the word all     *)
(* CPUs compute their stack from is raised once, before any of them.       *)
BootStacksApart ==
  \A c \in Cpu : pc[c] = "kernel" =>
    /\ rsp[c] - 1 \in 0 .. CoresNum - 1
    /\ kenelstack_top = CoresNum
    /\ \A d \in Cpu : pc[d] = "kernel" /\ rsp[c] = rsp[d] => c = d

==============================================================================
