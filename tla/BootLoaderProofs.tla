--------------------------- MODULE BootLoaderProofs ---------------------------
(***************************************************************************)
(* Proofs about BootLoader, for every number of CPUs, geometry of the disk,*)
(* length of the file, layout of its clusters and BIOS memory map.         *)
(***************************************************************************)
EXTENDS BootLoader, TLAPS

------------------------------------------------------------------------------
(* Where the CPUs can be.                                                  *)

Before == {"boot", "loader", "e820", "vbe", "setgdt", "scan", "cluster", "fat",
           "start", "lost", "halt"}

\* The boot CPU is alone until it is in the kernel, and the others never do
\* what is the boot CPU's to do.
Places ==
  /\ pc \in [Cpu -> Before \cup {"off", "kernel"}]
  /\ pc[Bsp] # "off"
  /\ \A c \in Cpu \ {Bsp} :
       /\ pc[c] \in {"off", "loader", "setgdt", "start", "kernel"}
       /\ pc[Bsp] # "kernel" => pc[c] = "off"

LEMMA BspIsCpu == Bsp \in Cpu /\ Cpu \subseteq Nat
  BY CpuAssumption DEF Bsp, Cpu

LEMMA PlacesInit == Init => Places
  BY BspIsCpu DEF Init, Places, Before

LEMMA PlacesStep ==
  ASSUME Places, [Next]_vars
  PROVE  Places'
<1>. USE BspIsCpu DEF Places, Before, Goto
<1>1. CASE LoadLoader \/ LoadFails
  BY <1>1 DEF LoadLoader, LoadFails, Halt
<1>2. ASSUME NEW c \in Cpu, Loader(c)
      PROVE  Places'
  BY <1>2 DEF Loader
<1>3. ASSUME NEW c \in Cpu, E820Entry(c)
      PROVE  Places'
  BY <1>3 DEF E820Entry
<1>4. ASSUME NEW c \in Cpu, E820Fails(c)
      PROVE  Places'
  BY <1>4 DEF E820Fails
<1>5. ASSUME NEW c \in Cpu, SetVbe(c)
      PROVE  Places'
  BY <1>5 DEF SetVbe
<1>6. ASSUME NEW c \in Cpu, EnterLongMode(c)
      PROVE  Places'
  BY <1>6 DEF EnterLongMode
<1>7. ASSUME NEW c \in Cpu, FindName(c) \/ ReadCluster(c)
      PROVE  Places'
  BY <1>7 DEF FindName, ReadCluster
<1>8. ASSUME NEW c \in Cpu, SkipSector(c)
      PROVE  Places'
  BY <1>8 DEF SkipSector
<1>9. ASSUME NEW c \in Cpu, FollowChain(c)
      PROVE  Places'
  BY <1>9 DEF FollowChain, NextInChain
<1>10. ASSUME NEW c \in Cpu, Start(c)
       PROVE  Places'
  BY <1>10 DEF Start
<1>11. ASSUME NEW c \in Cpu, StartUp(c)
       PROVE  Places'
  BY <1>11 DEF StartUp
<1>12. CASE UNCHANGED vars
  BY <1>12 DEF vars
<1>. QED
  BY <1>1, <1>2, <1>3, <1>4, <1>5, <1>6, <1>7, <1>8, <1>9, <1>10, <1>11, <1>12 DEF Next

------------------------------------------------------------------------------
(* The stacks.                                                             *)

\* kenelstack_top before and after the boot CPU has raised it, and the stack of
\* every CPU that has computed it.
Stacks ==
  /\ kenelstack_top = IF pc[Bsp] = "kernel" THEN CoresNum ELSE 0
  /\ DOMAIN rsp = Cpu
  /\ \A c \in Cpu : pc[c] = "kernel" => rsp[c] = CoresNum - c

LEMMA StacksStep ==
  ASSUME Places, Stacks, [Next]_vars
  PROVE  Stacks'
<1>. USE BspIsCpu, CpuAssumption DEF Places, Stacks
<1>1. ASSUME NEW c \in Cpu, Start(c)
      PROVE  Stacks'
  BY <1>1 DEF Start, GrowStacks, Goto
<1>2. ASSUME UNCHANGED <<kenelstack_top, rsp>>, NEW c \in Cpu, NEW l, l # "kernel", Goto(c, l),
             pc[c] # "kernel"
      PROVE  Stacks'
  BY <1>2 DEF Goto
<1>3. CASE UNCHANGED vars
  BY <1>3 DEF vars
<1>4. CASE LoadLoader \/ LoadFails
  BY <1>2, <1>4 DEF LoadLoader, LoadFails, Halt
<1>5. ASSUME NEW c \in Cpu,
             \/ Loader(c) \/ E820Entry(c) \/ E820Fails(c) \/ SetVbe(c) \/ EnterLongMode(c)
             \/ FindName(c) \/ SkipSector(c) \/ ReadCluster(c) \/ StartUp(c)
      PROVE  Stacks'
  BY <1>2, <1>5 DEF Loader, E820Entry, E820Fails, SetVbe, EnterLongMode, FindName, SkipSector,
                    ReadCluster, StartUp
<1>6. ASSUME NEW c \in Cpu, FollowChain(c)
      PROVE  Stacks'
  BY <1>2, <1>6 DEF FollowChain, NextInChain
<1>. QED
  BY <1>1, <1>3, <1>4, <1>5, <1>6 DEF Next

(* Every CPU in the kernel has a stack of its own below the page bitmap,   *)
(* however many CPUs there are and whenever they start (head.S 12-33).     *)
THEOREM StacksApart == Spec => []BootStacksApart
<1>1. Init => Stacks
  BY BspIsCpu DEF Init, Stacks
<1>2. Places /\ Stacks => BootStacksApart
  <2>. SUFFICES ASSUME Places, Stacks, NEW c \in Cpu, pc[c] = "kernel"
                PROVE  /\ rsp[c] - 1 \in 0 .. CoresNum - 1
                       /\ kenelstack_top = CoresNum
                       /\ \A d \in Cpu : pc[d] = "kernel" /\ rsp[c] = rsp[d] => c = d
    BY DEF BootStacksApart
  <2>1. pc[Bsp] = "kernel"
    BY DEF Places
  <2>. QED
    BY <2>1, CpuAssumption DEF Stacks, Cpu
<1>. QED
  BY <1>1, <1>2, PlacesInit, PlacesStep, StacksStep, PTL DEF Spec

------------------------------------------------------------------------------
(* The memory map.                                                         *)

\* What the loader has stored of the BIOS's map, by where the boot CPU is: a
\* prefix while it collects, the whole before the VBE information is written,
\* the part below it afterwards.
Collected ==
  /\ bios \in [entries : 1 .. MaxE820, end : {"zero", "carry"}]
  /\ pc[Bsp] \in {"e820", "vbe"} =>
       /\ count \in 0 .. bios.entries
       /\ e820 = [i \in 1 .. count |-> i]
  /\ pc[Bsp] = "vbe" => count = bios.entries
  /\ pc[Bsp] \in {"setgdt", "scan", "cluster", "fat", "start", "kernel"} =>
       /\ count = bios.entries
       /\ e820 = [i \in 1 .. count |-> IF i > E820Room THEN 0 ELSE i]

\* Actions that leave the map alone and the boot CPU where it was, or on its way
\* from the map to the kernel.
LEMMA CollectedStays ==
  ASSUME Places, Collected, UNCHANGED <<bios, map>>, NEW c \in Cpu, NEW l, Goto(c, l),
         c = Bsp => \/ l \in {"loader", "halt", "lost"}
                    \/ /\ pc[Bsp] \in {"setgdt", "scan", "cluster", "fat", "start"}
                       /\ l \in {"scan", "cluster", "fat", "start", "kernel"}
  PROVE  Collected'
<1>. USE BspIsCpu DEF Places, Collected, Goto, map
<1>1. CASE c # Bsp
  BY <1>1
<1>2. CASE c = Bsp
  BY <1>2
<1>. QED
  BY <1>1, <1>2

LEMMA CollectedStep ==
  ASSUME Places, Collected, [Next]_vars
  PROVE  Collected'
<1>. USE BspIsCpu DEF Places, boot
<1>1. CASE LoadLoader \/ LoadFails
  BY <1>1, CollectedStays DEF LoadLoader, LoadFails, Halt
<1>2. ASSUME NEW c \in Cpu, Loader(c)
      PROVE  Collected'
  <2>1. CASE c = Bsp
    <3>1. pc'[Bsp] = "e820" /\ count' = 0 /\ e820' = <<>> /\ bios' = bios
      BY <1>2, <2>1 DEF Loader, Goto
    <3>. QED
      BY <3>1, E820Assumption DEF Collected
  <2>2. CASE c # Bsp
    BY <1>2, <2>2, CollectedStays DEF Loader
  <2>. QED
    BY <2>1, <2>2
<1>3. ASSUME NEW c \in Cpu, E820Entry(c)
      PROVE  Collected'
  <2>1. c = Bsp /\ pc[Bsp] = "e820"
    BY <1>3 DEF E820Entry
  <2>2. count' = count + 1 /\ count \in 0 .. bios.entries - 1 /\ bios.entries \in Nat
    BY <1>3, <2>1, E820Assumption DEF E820Entry, StoreEntry, Collected
  <2>3. e820' = [i \in 1 .. count' |-> i]
    <3>1. e820 = [i \in 1 .. count |-> i] /\ e820' = Append(e820, count + 1)
      BY <1>3, <2>1 DEF E820Entry, StoreEntry, Collected
    <3>2. e820 \in Seq(Nat) /\ Len(e820) = count
      BY <2>2, <3>1
    <3>. QED
      BY <2>2, <3>1, <3>2
  <2>4. /\ pc'[Bsp] \in {"e820", "vbe"} /\ bios' = bios
        /\ pc'[Bsp] = "vbe" => count' = bios.entries
    BY <1>3, <2>1 DEF E820Entry, Goto
  <2>. QED
    BY <2>2, <2>3, <2>4 DEF Collected
<1>4. ASSUME NEW c \in Cpu, E820Fails(c)
      PROVE  Collected'
  <2>1. c = Bsp /\ pc'[Bsp] = "halt" /\ bios' = bios
    BY <1>4 DEF E820Fails, Goto
  <2>. QED
    BY <2>1 DEF Collected
<1>5. ASSUME NEW c \in Cpu, SetVbe(c)
      PROVE  Collected'
  <2>1. c = Bsp /\ pc'[Bsp] \in {"setgdt", "halt"} /\ pc[Bsp] = "vbe"
    BY <1>5 DEF SetVbe, Goto
  <2>2. /\ bios' = bios /\ count' = count /\ count = bios.entries
        /\ e820 = [i \in 1 .. count |-> i]
        /\ e820' = [i \in DOMAIN e820 |-> IF i > E820Room THEN 0 ELSE e820[i]]
    BY <1>5, <2>1 DEF SetVbe, Collected
  <2>3. e820' = [i \in 1 .. count |-> IF i > E820Room THEN 0 ELSE i]
    BY <2>2
  <2>. QED
    BY <2>1, <2>2, <2>3 DEF Collected
<1>6. ASSUME NEW c \in Cpu, EnterLongMode(c)
      PROVE  Collected'
  BY <1>6, CollectedStays DEF EnterLongMode
<1>7. ASSUME NEW c \in Cpu, FindName(c) \/ ReadCluster(c)
      PROVE  Collected'
  BY <1>7, CollectedStays DEF FindName, ReadCluster
<1>8. ASSUME NEW c \in Cpu, SkipSector(c)
      PROVE  Collected'
  BY <1>8, CollectedStays DEF SkipSector
<1>9. ASSUME NEW c \in Cpu, FollowChain(c)
      PROVE  Collected'
  BY <1>9, CollectedStays DEF FollowChain, NextInChain
<1>10. ASSUME NEW c \in Cpu, Start(c)
       PROVE  Collected'
  BY <1>10, CollectedStays DEF Start
<1>11. ASSUME NEW c \in Cpu, StartUp(c)
       PROVE  Collected'
  BY <1>11, CollectedStays DEF StartUp
<1>12. CASE UNCHANGED vars
  BY <1>12 DEF vars, map, Collected
<1>. QED
  BY <1>1, <1>2, <1>3, <1>4, <1>5, <1>6, <1>7, <1>8, <1>9, <1>10, <1>11, <1>12 DEF Next

(* What the BIOS has reported is what memory_init reads, for every map     *)
(* that fits below the VBE information (loader.asm 40-95).                 *)
THEOREM MapReachesKernel == Spec => []MapHandedOver
<1>1. Init => Collected
  BY BspIsCpu DEF Init, Collected
<1>2. Collected => MapHandedOver
  BY E820Assumption DEF Collected, MapHandedOver
<1>. QED
  BY <1>1, <1>2, PlacesInit, PlacesStep, CollectedStep, PTL DEF Spec

------------------------------------------------------------------------------
(* The file.                                                               *)

(* Division finds the quotient of a multiple plus a rest.                  *)
LEMMA Quotient ==
  ASSUME NEW q \in Nat, NEW m \in Nat \ {0}, NEW r \in 0 .. m - 1
  PROVE  (q * m + r) \div m = q /\ (q * m + r) % m = r
  BY SMT

(* Every number is the sum of a multiple and a rest.                       *)
LEMMA Quotients ==
  ASSUME NEW n \in Nat, NEW m \in Nat \ {0}
  PROVE  /\ n \div m \in Nat /\ n % m \in 0 .. m - 1
         /\ n = (n \div m) * m + (n % m)
         /\ \A k \in Nat : n < k * m => n \div m < k
  BY SMT

\* What is known of the disk: the chain of kernel.bin.
Chain == disk.clusters
Size  == Len(disk.clusters)

LEMMA ChainIsChain ==
  ASSUME disk \in Disks
  PROVE  /\ Size \in Nat \ {0} /\ DOMAIN Chain = 1 .. Size
         /\ \A k \in 1 .. Size : Chain[k] \in FileClusters
         /\ \A k, n \in 1 .. Size : Chain[k] = Chain[n] => k = n
<1>1. PICK n \in 1 .. MaxClusters : Chain \in [1 .. n -> FileClusters]
  BY DEF Disks, Chain
<1>2. n \in Nat \ {0} /\ Len(Chain) = n
  BY <1>1, BoundAssumption
<1>3. \A i, j \in DOMAIN Chain : Chain[i] = Chain[j] => i = j
  BY DEF Disks, Chain
<1>. QED
  BY <1>1, <1>2, <1>3 DEF Size, Chain

(* The sector and the offset at which the loader looks up the entry of a    *)
(* cluster are in the FAT, and where that entry stands.                    *)
LEMMA EntryOfCluster ==
  ASSUME NEW n \in Nat, n < FatSecs * FatEntries
  PROVE  /\ ~ (FatStart + n \div FatEntries < FatStart \/ FatStart + n \div FatEntries >= RootStartSec)
         /\ ((FatStart + n \div FatEntries) - FatStart) * FatEntries + (n % FatEntries) = n
<1>. DEFINE q == n \div FatEntries
<1>1. FatEntries \in Nat \ {0} /\ FatSecs \in Nat /\ FatStart \in Nat
  BY DiskAssumption
<1>2. q \in Nat /\ n % FatEntries \in Nat /\ n = q * FatEntries + (n % FatEntries) /\ q < FatSecs
  BY <1>1, Quotients
<1>. HIDE DEF q
<1>3. ~ (FatStart + q < FatStart \/ FatStart + q >= RootStartSec) /\ (FatStart + q) - FatStart = q
  BY <1>1, <1>2 DEF RootStartSec
<1>4. ((FatStart + q) - FatStart) * FatEntries + (n % FatEntries) = n
  BY <1>2, <1>3
<1>. QED
  BY <1>3, <1>4 DEF q

(* The FAT entry the loader looks up for the k-th cluster of the file is   *)
(* its successor, or the end mark, and no successor reads as that mark.    *)
LEMMA FatEntryOfChain ==
  ASSUME disk \in Disks, NEW k \in 1 .. Size
  PROVE  LET next == FatEntry(FatStart + Chain[k] \div FatEntries, Chain[k] % FatEntries)
         IN  IF k = Size THEN next = EndOfChain
             ELSE next = Chain[k + 1] /\ next # EndOfChain
<1>. DEFINE s == FatStart + Chain[k] \div FatEntries
            i == Chain[k] % FatEntries
<1>1. Chain[k] \in Nat /\ Chain[k] < FatSecs * FatEntries
  BY ChainIsChain, DiskAssumption
<1>2. ~ (s < FatStart \/ s >= RootStartSec) /\ (s - FatStart) * FatEntries + i = Chain[k]
  BY <1>1, EntryOfCluster
<1>3. {n \in DOMAIN disk.clusters : disk.clusters[n] = Chain[k]} = {k}
  BY ChainIsChain DEF Chain
<1>4. FatEntry(s, i) = IF k = Len(disk.clusters) THEN EndOfChain ELSE disk.clusters[k + 1]
  <2>1. (CHOOSE n \in {k} : TRUE) = k
    OBVIOUS
  <2>. HIDE DEF s, i
  <2>3. {n \in DOMAIN disk.clusters : disk.clusters[n] = (s - FatStart) * FatEntries + i} = {k}
    BY <1>2, <1>3
  <2>. DEFINE at == {n \in DOMAIN disk.clusters : disk.clusters[n] = (s - FatStart) * FatEntries + i}
              m  == CHOOSE n \in at : TRUE
  <2>4. FatEntry(s, i) = IF at = {} \/ s < FatStart \/ s >= RootStartSec THEN 0
                         ELSE IF m = Len(disk.clusters) THEN EndOfChain ELSE disk.clusters[m + 1]
    BY DEF FatEntry
  <2>5. at # {} /\ m = k
    BY <2>1, <2>3
  <2>. HIDE DEF at, m
  <2>. QED
    BY <1>2, <2>4, <2>5
<1>5. k # Size => Chain[k + 1] \in Nat
  <2>1. k # Size => k + 1 \in 1 .. Size
    BY ChainIsChain
  <2>. QED
    BY <2>1, ChainIsChain, DiskAssumption
<1>. QED
  BY <1>4, <1>5 DEF Chain, Size, EndOfChain

\* The first k clusters of the file in memory.
Loaded(k) == [i \in 0 .. k * SecPerClus - 1 |-> FileSector(i)]

(* Reading cluster k behind the first k - 1 gives the first k.             *)
LEMMA ReadOneMore ==
  ASSUME disk \in Disks, NEW k \in 1 .. Size,
         image = Loaded(k - 1),
         ReadDisk((k - 1) * SecPerClus, ClusterStart(Chain[k]), SecPerClus)
  PROVE  image' = Loaded(k)
<1>. DEFINE a == (k - 1) * SecPerClus
<1>1. a \in Nat /\ SecPerClus \in Nat \ {0} /\ k * SecPerClus = a + SecPerClus /\ k \in Nat
  BY DiskAssumption, ChainIsChain
<1>2. (0 .. a - 1) \cup (a .. a + SecPerClus - 1) = 0 .. k * SecPerClus - 1
  BY <1>1
<1>3. DOMAIN image = 0 .. a - 1
  BY DEF Loaded
<1>4. image' = [i \in 0 .. k * SecPerClus - 1 |->
                  IF i \in a .. a + SecPerClus - 1 THEN ClusterStart(Chain[k]) + (i - a) ELSE image[i]]
  BY <1>2, <1>3 DEF ReadDisk
<1>5. ASSUME NEW i \in a .. a + SecPerClus - 1
      PROVE  FileSector(i) = ClusterStart(Chain[k]) + (i - a)
  <2>1. i - a \in 0 .. SecPerClus - 1 /\ i = a + (i - a) /\ k - 1 \in Nat
    BY <1>1
  <2>2. i \div SecPerClus = k - 1 /\ i % SecPerClus = i - a
    <3>. DEFINE r == i - a
    <3>1. r \in 0 .. SecPerClus - 1 /\ i = (k - 1) * SecPerClus + r
      BY <2>1
    <3>. HIDE DEF r, a
    <3>2. ((k - 1) * SecPerClus + r) \div SecPerClus = k - 1 /\ ((k - 1) * SecPerClus + r) % SecPerClus = r
      BY <1>1, <2>1, <3>1, Quotient
    <3>3. i \div SecPerClus = k - 1 /\ i % SecPerClus = r
      BY <3>1, <3>2
    <3>. QED
      BY <3>3 DEF r
  <2>3. i \div SecPerClus + 1 = k
    BY <1>1, <2>2
  <2>. QED
    BY <2>2, <2>3 DEF FileSector, ClusterStart, Chain
<1>6. \A i \in 0 .. a - 1 : image[i] = FileSector(i)
  BY DEF Loaded
<1>7. \A i \in 0 .. k * SecPerClus - 1 : i \in a .. a + SecPerClus - 1 \/ i \in 0 .. a - 1
  BY <1>1
<1>. HIDE DEF a
<1>. QED
  BY <1>4, <1>5, <1>6, <1>7 DEF Loaded

\* How much of the file is in memory, by where the boot CPU is: read_file is
\* at the k-th cluster of the chain.
AtCluster(k) == NextClus = Chain[k] /\ PFileAddr = (k - 1) * SecPerClus

Reading ==
  /\ disk \in Disks
  /\ pc[Bsp] \in {"boot", "loader", "e820", "vbe", "setgdt", "scan"} => image = Loaded(0)
  /\ pc[Bsp] = "scan" => PFileAddr = 0
  /\ pc[Bsp] = "cluster" => \E k \in 1 .. Size : AtCluster(k) /\ image = Loaded(k - 1)
  /\ pc[Bsp] = "fat" => \E k \in 1 .. Size : AtCluster(k) /\ image = Loaded(k)
  /\ pc[Bsp] \in {"start", "kernel"} => image = Loaded(Size)

\* Actions outside read_file leave its work alone.
LEMMA ReadingStays ==
  ASSUME Places, Reading, UNCHANGED <<disk, image>>, NEW c \in Cpu, NEW l, Goto(c, l),
         c = Bsp =>
           \/ l \in {"halt", "lost"}
           \/ /\ pc[Bsp] \in {"boot", "loader", "e820", "vbe"}
              /\ l \in {"loader", "e820", "vbe", "setgdt"}
           \/ pc[Bsp] = "start" /\ l = "kernel",
         c # Bsp => UNCHANGED file
  PROVE  Reading'
<1>1. CASE c # Bsp
  BY <1>1, BspIsCpu DEF Places, Reading, Goto, file, AtCluster, Loaded, FileSector, Chain, Size
<1>2. CASE c = Bsp
  BY <1>2, BspIsCpu DEF Places, Reading, Goto, Loaded, FileSector, Chain, Size
<1>. QED
  BY <1>1, <1>2

LEMMA ReadingStep ==
  ASSUME Places, Reading, [Next]_vars
  PROVE  Reading'
<1>. USE BspIsCpu DEF Places, boot
<1>1. CASE LoadLoader \/ LoadFails
  BY <1>1, ReadingStays DEF LoadLoader, LoadFails, Halt, file
<1>2. ASSUME NEW c \in Cpu, Loader(c) \/ E820Entry(c) \/ E820Fails(c)
      PROVE  Reading'
  BY <1>2, ReadingStays DEF Loader, E820Entry, E820Fails, file
<1>3. ASSUME NEW c \in Cpu, SetVbe(c) \/ Start(c) \/ StartUp(c)
      PROVE  Reading'
  BY <1>3, ReadingStays DEF SetVbe, Start, StartUp, file
<1>4. ASSUME NEW c \in Cpu, EnterLongMode(c)
      PROVE  Reading'
  <2>1. CASE c # Bsp
    BY <1>4, <2>1, ReadingStays DEF EnterLongMode, file
  <2>2. CASE c = Bsp
    BY <1>4, <2>2 DEF EnterLongMode, Goto, Reading, Loaded, FileSector
  <2>. QED
    BY <2>1, <2>2
<1>5. ASSUME NEW c \in Cpu, FindName(c)
      PROVE  Reading'
  <2>1. /\ c = Bsp /\ pc'[Bsp] = "cluster" /\ disk' = disk /\ image' = image
        /\ image = Loaded(0) /\ PFileAddr' = 0 /\ NextClus' = Chain[1] /\ disk \in Disks
    BY <1>5 DEF FindName, Goto, Reading, Chain
  <2>2. 1 \in 1 .. Size /\ (1 - 1) * SecPerClus = 0 /\ Loaded(1 - 1) = Loaded(0)
    BY <2>1, ChainIsChain, DiskAssumption
  <2>3. AtCluster(1)' /\ image' = Loaded(1 - 1)'
    BY <2>1, <2>2 DEF AtCluster, Chain, Loaded, FileSector
  <2>. QED
    BY <2>1, <2>2, <2>3 DEF Reading, Size
<1>6. ASSUME NEW c \in Cpu, SkipSector(c)
      PROVE  Reading'
  BY <1>6 DEF SkipSector, Goto, Reading, Loaded, FileSector
<1>7. ASSUME NEW c \in Cpu, ReadCluster(c)
      PROVE  Reading'
  <2>1. /\ c = Bsp /\ pc[Bsp] = "cluster" /\ pc'[Bsp] = "fat"
        /\ UNCHANGED <<disk, NextClus, PFileAddr>> /\ disk \in Disks
    BY <1>7 DEF ReadCluster, Goto, Reading
  <2>2. PICK k \in 1 .. Size : AtCluster(k) /\ image = Loaded(k - 1)
    BY <2>1 DEF Reading
  <2>3. image' = Loaded(k)
    BY <1>7, <2>1, <2>2, ReadOneMore DEF ReadCluster, AtCluster
  <2>4. AtCluster(k)' /\ image' = Loaded(k)' /\ k \in 1 .. Size'
    BY <2>1, <2>2, <2>3 DEF AtCluster, Chain, Size, Loaded, FileSector
  <2>. QED
    BY <2>1, <2>4 DEF Reading
<1>8. ASSUME NEW c \in Cpu, FollowChain(c)
      PROVE  Reading'
  <2>. DEFINE next == FatEntry(FatStart + NextClus \div FatEntries, NextClus % FatEntries)
  <2>1. /\ c = Bsp /\ pc[Bsp] = "fat" /\ UNCHANGED <<disk, image>> /\ disk \in Disks
        /\ NextInChain(Bsp, next)
    BY <1>8 DEF FollowChain, Reading
  <2>2. PICK k \in 1 .. Size : AtCluster(k) /\ image = Loaded(k)
    BY <2>1 DEF Reading
  <2>3. IF k = Size THEN next = EndOfChain ELSE next = Chain[k + 1] /\ next # EndOfChain
    BY <2>1, <2>2, FatEntryOfChain DEF AtCluster
  <2>. HIDE DEF next
  <2>4. CASE k = Size
    <3>1. pc'[Bsp] = "start" /\ image' = Loaded(Size)
      BY <2>1, <2>2, <2>3, <2>4 DEF NextInChain, Goto
    <3>2. image' = Loaded(Size)'
      BY <2>1, <3>1 DEF Loaded, FileSector, Size
    <3>. QED
      BY <2>1, <3>1, <3>2 DEF Reading
  <2>5. CASE k # Size
    <3>1. /\ pc'[Bsp] = "cluster" /\ NextClus' = Chain[k + 1]
          /\ PFileAddr' = (k - 1) * SecPerClus + SecPerClus /\ image' = Loaded(k)
      BY <2>1, <2>2, <2>3, <2>5 DEF NextInChain, Goto, AtCluster
    <3>2. /\ k + 1 \in 1 .. Size /\ (k + 1) - 1 = k
          /\ (k - 1) * SecPerClus + SecPerClus = k * SecPerClus
      BY <2>1, <2>5, ChainIsChain, DiskAssumption
    <3>3. AtCluster(k + 1)' /\ image' = Loaded((k + 1) - 1)' /\ k + 1 \in 1 .. Size'
      BY <2>1, <3>1, <3>2 DEF AtCluster, Chain, Loaded, FileSector, Size
    <3>. QED
      BY <2>1, <3>1, <3>3 DEF Reading
  <2>. QED
    BY <2>4, <2>5
<1>9. CASE UNCHANGED vars
  BY <1>9 DEF vars, file, Reading, AtCluster, Loaded, FileSector, Chain, Size
<1>. QED
  BY <1>1, <1>2, <1>3, <1>4, <1>5, <1>6, <1>7, <1>8, <1>9 DEF Next

(* All of kernel.bin is in memory, in order, when a CPU enters it, however *)
(* long it is and wherever on the disk its clusters lie (readfile.inc).    *)
THEOREM KernelIsWhole == Spec => []LoadedWhole
<1>1. Init => Reading
  <2>. SUFFICES ASSUME Init
                PROVE  Reading
    OBVIOUS
  <2>1. image = <<>> /\ disk \in Disks /\ pc[Bsp] = "boot"
    BY BspIsCpu DEF Init
  <2>2. 0 * SecPerClus - 1 = -1 /\ 0 .. -1 = {}
    BY DiskAssumption
  <2>3. Loaded(0) = <<>>
    BY <2>2 DEF Loaded
  <2>. QED
    BY <2>1, <2>3 DEF Reading
<1>2. Places /\ Reading => LoadedWhole
  BY BspIsCpu DEF Places, Reading, LoadedWhole, Loaded, Size
<1>. QED
  BY <1>1, <1>2, PlacesInit, PlacesStep, ReadingStep, PTL DEF Spec

==============================================================================
