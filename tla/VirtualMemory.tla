---------------------------- MODULE VirtualMemory ----------------------------
(***************************************************************************)
(* map_pages and unmap_pages of kernel/memory.c on one CPU, over a tree of *)
(* page tables that the code reads and writes through the recursive        *)
(* window, while other CPUs take and give back single pages.               *)
(*                                                                         *)
(* Tables at level l are numbered from left to right, as the window lays   *)
(* them out: entry x of level l, table_bases[l][x], is entry x % Fan of    *)
(* table x \div Fan, and points to table x of level l+1 (at the last       *)
(* level, to the page mapped at x).  An access to the window needs the     *)
(* frame of the table, found by a walk or in the TLB; without one it is a  *)
(* page fault, whose handler never returns.                                *)
(*                                                                         *)
(* What a page holds that was no table, and what another CPU writes to a   *)
(* page it has taken, is arbitrary: read as an entry of a table, it leads  *)
(* anywhere.  Such pages can be walked while a new table is linked and not *)
(* yet cleared, and while a table is given back and not yet unlinked; the  *)
(* processor may walk for any page at any time and cache what it finds.    *)
(*                                                                         *)
(* `space' and `kept' are not in the code: what the calls made so far have *)
(* asked for, and the pages the other CPUs own.  Callers map addresses     *)
(* that are not mapped, to pages of their own or of a device, and unmap    *)
(* what was mapped to consecutive pages, pages of memory to give them back *)
(* and those of a device to have free_pages refuse them.                   *)
(***************************************************************************)
EXTENDS Integers, FiniteSets

CONSTANTS
  Fan,        \* entries of a table (512 in the code)
  Depth,      \* levels of tables (4)
  Frames,     \* pages of physical memory
  Places,     \* bound: virtual pages the callers map
  MaxPages,   \* bound: pages of one call
  MaxKept,    \* bound: pages the other CPUs own at a time
  MaxCached,  \* bound: entries of the TLB and of `upper' at a time
  Nx,         \* values of the attribute PAGE_NX the callers use
  WindowTlb   \* whether the processor caches translations of the window

ASSUME ShapeAssumption == Fan \in Nat \ {0, 1} /\ Depth \in Nat \ {0, 1}
ASSUME BoundsAssumption ==
  Frames \in Nat \ {0} /\ {MaxPages, MaxKept, MaxCached} \subseteq Nat
ASSUME FlagsAssumption == Nx \subseteq BOOLEAN /\ WindowTlb \in BOOLEAN

VARIABLES
  mem,      \* every frame, and the root table's own, seen as a table
  free,     \* frames the allocator can hand out
  kept,     \* frames the other CPUs own
  space,    \* frame each virtual page should be mapped to, or None
  tlb,      \* cached translations of virtual pages
  upper,    \* paging-structure caches: frames of tables, by level and table
  window,   \* cached translations of the window: <<level, table>>
  pc,
  pa, va, n, nx,   \* arguments: first frame, first virtual page, pages, NX
  i, j      \* the loops' indices

args == <<pa, va, n, nx>>
vars == <<mem, free, kept, space, tlb, upper, window, pc, args, i, j>>

------------------------------------------------------------------------------
(* Entries, tables and the walk.                                           *)

Frame  == 0 .. Frames - 1
Bar    == Frames + 1                     \* where a device is, above a gap
Device == Bar .. Bar + MaxPages - 1
Root   == Bar + MaxPages                 \* the root table's own frame
Table  == Frame \cup {Root}
None   == -1

Entry(f, x) == [frame |-> f, nx |-> x]
Zero   == Entry(None, FALSE)
Anywhere == -2
Junk   == Entry(Anywhere, FALSE) \* an entry of a page that was no table
Failed == Entry(-3, TRUE)        \* (void *)-1 from alloc_pages, all bits set

Index == 0 .. Fan - 1

\* Virtual pages below one entry of level l.
Unit[l \in 0 .. Depth - 1] == IF l = Depth - 1 THEN 1 ELSE Fan * Unit[l + 1]

Page == 0 .. Fan * Unit[0] - 1

ASSUME PlacesAssumption == Places \subseteq Page

\* The tables of level l.
TablesAt(l) == 0 .. Unit[0] \div Unit[l] - 1

\* What a present entry leads to.
Present == Table \cup Device \cup {Anywhere}

\* Where entry k of the table in f leads a walk: from what is no table, but
\* there, anywhere.
Onward(f, k) ==
  IF f \in Table THEN mem[f][k].frame ELSE IF f \in Present THEN Anywhere ELSE None

\* Frame of table t of level l, or what a walk from the root finds instead.
TableFrame[l \in 0 .. Depth - 1] ==
  [t \in TablesAt(l) |->
     IF l = 0 THEN Root ELSE Onward(TableFrame[l - 1][t \div Fan], t % Fan)]

\* Frame that a walk from the root finds for a virtual page.
Translate(v) == Onward(TableFrame[Depth - 1][v \div Fan], v % Fan)

\* Frames that a walk may take for table t of level l: it may start at the
\* root, and at any table that the paging-structure caches know.
Found[l \in 0 .. Depth - 1] ==
  [t \in TablesAt(l) |->
     {upper[p] : p \in {<<l, t>>} \cap DOMAIN upper}
       \cup IF l = 0 THEN {Root} ELSE {Onward(f, t % Fan) : f \in Found[l - 1][t \div Fan]}]

\* What it may find for a virtual page.
Walked(v) == {Onward(f, v % Fan) : f \in Found[Depth - 1][v \div Fan]}

------------------------------------------------------------------------------
(* The window.                                                             *)

\* Frame that an access to the window's page of table t, level l reaches.
Reach(l, t) ==
  IF <<l, t>> \in DOMAIN window THEN window[<<l, t>>] ELSE TableFrame[l][t]

\* table_bases[l][x], and the memory after table_bases[l][x] = e for x \in X.
Read(l, x) == mem[Reach(l, x \div Fan)][x % Fan]

Written(l, X, e) ==
  [f \in DOMAIN mem |->
     [k \in Index |->
        IF \E x \in X : Reach(l, x \div Fan) = f /\ x % Fan = k THEN e ELSE mem[f][k]]]

------------------------------------------------------------------------------
(* The allocator, as its callers see it (PagePool).                        *)

Run(f, m) == f .. f + m - 1

CanTake(m) == \E f \in Frame : Run(f, m) \subseteq free

Lowest(m) ==
  CHOOSE f \in Frame : /\ Run(f, m) \subseteq free
                       /\ \A g \in Frame : Run(g, m) \subseteq free => f <= g

\* MUTANT of Freed: no test against the end of memory.
FreedUnchecked(e, m) == (free \ Run(e.frame, m)) \cup (Run(e.frame, m) \ free)

\* Free frames after free_pages of m pages from entry e: refused behind the
\* end of memory, where an address that kept its NX bit is too; otherwise
\* the bits are toggled.
Freed(e, m) ==
  IF e.nx \/ e.frame + m > Frames THEN free
  ELSE (free \ Run(e.frame, m)) \cup (Run(e.frame, m) \ free)

\* The new owner of a page writes to it.
Scribbled(S) == [f \in DOMAIN mem |-> IF f \in S THEN [k \in Index |-> Junk] ELSE mem[f]]

------------------------------------------------------------------------------
(* Other CPUs and the hardware.                                            *)

\* Another CPU takes a page, or gives one back.
Take ==
  /\ pc # "fault" /\ CanTake(1) /\ Cardinality(kept) < MaxKept
  /\ free' = free \ {Lowest(1)}
  /\ kept' = kept \cup {Lowest(1)}
  /\ mem' = Scribbled({Lowest(1)})
  /\ UNCHANGED <<space, tlb, upper, window, pc, args, i, j>>

Give ==
  /\ pc # "fault"
  /\ \E f \in kept : kept' = kept \ {f} /\ free' = free \cup {f}
  /\ UNCHANGED <<mem, space, tlb, upper, window, pc, args, i, j>>

\* The CPU caches a translation of a page, mapped or not, or one of the
\* tables it has walked through.
Touch ==
  /\ pc # "fault" /\ Cardinality(DOMAIN tlb) + Cardinality(DOMAIN upper) < MaxCached
  /\ \E v \in Places \ DOMAIN tlb : \E f \in Walked(v) \cap Present :
       tlb' = [u \in DOMAIN tlb \cup {v} |-> IF u = v THEN f ELSE tlb[u]]
  /\ UNCHANGED <<mem, free, kept, space, upper, window, pc, args, i, j>>

TouchTable ==
  /\ pc # "fault" /\ Cardinality(DOMAIN tlb) + Cardinality(DOMAIN upper) < MaxCached
  /\ \E l \in 1 .. Depth - 1 : \E t \in TablesAt(l) : \E f \in Found[l][t] \cap Present :
       upper' = [p \in DOMAIN upper \cup {<<l, t>>} |-> IF p = <<l, t>> THEN f ELSE upper[p]]
  /\ UNCHANGED <<mem, free, kept, space, tlb, window, pc, args, i, j>>

\* It may forget them at any time.
Forget ==
  /\ pc # "fault"
  /\ \E V \in SUBSET DOMAIN tlb : tlb' = [v \in DOMAIN tlb \ V |-> tlb[v]]
  /\ \E P \in SUBSET DOMAIN upper : upper' = [p \in DOMAIN upper \ P |-> upper[p]]
  /\ \E P \in SUBSET DOMAIN window : window' = [p \in DOMAIN window \ P |-> window[p]]
  /\ UNCHANGED <<mem, free, kept, space, pc, args, i, j>>

\* INVLPG of page v, which empties the paging-structure caches too, whatever
\* v is.
Invlpg(v) ==
  /\ tlb' = [u \in DOMAIN tlb \ {v} |-> tlb[u]]
  /\ upper' = <<>>

------------------------------------------------------------------------------
(* The callers.                                                            *)

Init ==
  /\ mem = [f \in Table |-> [k \in Index |-> IF f = Root THEN Zero ELSE Junk]]
  /\ free = Frame /\ kept = {}
  /\ space = [v \in Page |-> None]
  /\ tlb = <<>> /\ upper = <<>> /\ window = <<>>
  /\ pc = "idle"
  /\ pa = 0 /\ va = 0 /\ n = 0 /\ nx = FALSE
  /\ i = 0 /\ j = 0

\* Pages the call under way is about.
CallRange == va .. va + n - 1

Map(p, v, m, x) ==
  /\ pc = "idle"
  /\ Run(v, m) \subseteq Places /\ \A u \in Run(v, m) : space[u] = None
  /\ pc' = "tables"
  /\ pa' = p /\ va' = v /\ n' = m /\ nx' = x
  /\ i' = 0 /\ j' = 0
  /\ space' = [u \in Page |-> IF u \in Run(v, m) THEN p + u - v ELSE space[u]]
  /\ UNCHANGED <<kept, tlb, upper, window>>

\* map_pages of pages just allocated, or of a device (page_init).
CallMapMemory ==
  \E v \in Places, m \in 1 .. MaxPages, x \in Nx :
    /\ CanTake(m)
    /\ Map(Lowest(m), v, m, x)
    /\ free' = free \ Run(Lowest(m), m)
    /\ mem' = Scribbled(Run(Lowest(m), m))

CallMapDevice ==
  \E v \in Places, m \in 1 .. MaxPages, x \in Nx :
    /\ Map(Bar, v, m, x)
    /\ UNCHANGED <<free, mem>>

CallUnmap ==
  /\ pc = "idle"
  /\ \E v \in Places, m \in 1 .. MaxPages :
       /\ Run(v, m) \subseteq Places /\ space[v] # None
       /\ \A u \in Run(v, m) : space[u] = space[v] + u - v
       /\ va' = v /\ n' = m
       /\ space' = [u \in Page |-> IF u \in Run(v, m) THEN None ELSE space[u]]
  /\ pc' = "free" /\ i' = 0 /\ j' = 0
  /\ UNCHANGED <<mem, free, kept, tlb, upper, window, pa, nx>>

------------------------------------------------------------------------------
(* The loops over the levels.                                              *)

\* MUTANT of Nums: the range is taken to start at a boundary.
NumsUnaligned(l) == (n + Unit[l] - 1) \div Unit[l]

\* nums[]: entries of level l that the range touches.
Nums(l) == (n + (va % Unit[l]) + Unit[l] - 1) \div Unit[l]

\* The j-th of them, and the table it points to.
Slot(l) == va \div Unit[l] + j

\* What follows the j-th entry of level l: the next one or the next level of
\* the `loop', or `done' after the last.
Advance(l, loop, done) ==
  IF j + 1 < Nums(l) THEN j' = j + 1 /\ pc' = loop /\ UNCHANGED i
  ELSE /\ j' = 0
       /\ IF i + 1 < Depth - 1 THEN i' = i + 1 /\ pc' = loop
                               ELSE i' = 0 /\ pc' = done

\* unmap_pages goes from the last level up: the level of the entries that
\* point to the tables it looks at.
Parent == Depth - 2 - i

\* Entries of the table that entry x of a level points to.
Below(x) == x * Fan .. x * Fan + Fan - 1

\* The entries the next step reads or writes, and their level.
Accessed ==
  CASE pc = "tables" -> [level |-> i, entries |-> {Slot(i)}]
    [] pc = "clear"  -> [level |-> i + 1, entries |-> Below(Slot(i))]
    [] pc = "fill"   -> [level |-> Depth - 1, entries |-> {va + i}]
    [] pc = "free"   -> [level |-> Depth - 1, entries |-> {va}]
    [] pc = "zero"   -> [level |-> Depth - 1, entries |-> CallRange]
    [] pc = "prune"  -> [level |-> Parent + 1, entries |-> Below(Slot(Parent))]
    [] pc = "unlink" -> [level |-> Parent, entries |-> {Slot(Parent)}]
    [] OTHER         -> [level |-> 0, entries |-> {}]

\* The pages of the window that holds them.
AccessedTables == {<<Accessed.level, x \div Fan>> : x \in Accessed.entries}

\* They are present, and the TLB may keep where they are.
Access ==
  /\ \A p \in AccessedTables : Reach(p[1], p[2]) \in Table
  /\ window' = IF WindowTlb
                 THEN [p \in DOMAIN window \cup AccessedTables |-> Reach(p[1], p[2])]
                 ELSE window

\* One is not: do_page_fault prints and does not return.
PageFault ==
  /\ \E p \in AccessedTables : Reach(p[1], p[2]) \notin Table
  /\ pc' = "fault"
  /\ UNCHANGED <<mem, free, kept, space, tlb, upper, window, args, i, j>>

------------------------------------------------------------------------------
(* map_pages.                                                              *)

\* MUTANT of KeepTable: the memset is outside the if.
KeepTableCleared ==
  /\ pc = "tables"
  /\ Access /\ Read(i, Slot(i)) # Zero
  /\ pc' = "clear"
  /\ UNCHANGED <<mem, free, kept, space, tlb, upper, args, i, j>>

\* The entry is there already.
KeepTable ==
  /\ pc = "tables"
  /\ Access /\ Read(i, Slot(i)) # Zero
  /\ Advance(i, "tables", "fill")
  /\ UNCHANGED <<mem, free, kept, space, tlb, upper, args>>

\* It is zero: it gets alloc_pages(1), whatever that is.
LinkTable ==
  /\ pc = "tables"
  /\ Access /\ Read(i, Slot(i)) = Zero
  /\ IF CanTake(1)
       THEN /\ mem' = Written(i, {Slot(i)}, Entry(Lowest(1), FALSE))
            /\ free' = free \ {Lowest(1)}
       ELSE /\ mem' = Written(i, {Slot(i)}, Failed)
            /\ UNCHANGED free
  /\ pc' = "clear"
  /\ UNCHANGED <<kept, space, tlb, upper, args, i, j>>

\* The new table is zeroed through the window.
ClearTable ==
  /\ pc = "clear"
  /\ Access
  /\ mem' = Written(i + 1, Below(Slot(i)), Zero)
  /\ Advance(i, "tables", "fill")
  /\ UNCHANGED <<free, kept, space, tlb, upper, args>>

\* MUTANT of FillEntry: no INVLPG, as nothing was mapped there.
FillEntryNoFlush ==
  /\ pc = "fill"
  /\ Access
  /\ mem' = Written(Depth - 1, {va + i}, Entry(pa + i, nx))
  /\ UNCHANGED <<tlb, upper>>
  /\ IF i + 1 < n THEN i' = i + 1 /\ UNCHANGED pc
                  ELSE i' = 0 /\ pc' = "idle"
  /\ UNCHANGED <<free, kept, space, args, j>>

\* A page table entry and the INVLPG of its page.
FillEntry ==
  /\ pc = "fill"
  /\ Access
  /\ mem' = Written(Depth - 1, {va + i}, Entry(pa + i, nx))
  /\ Invlpg(va + i)
  /\ IF i + 1 < n THEN i' = i + 1 /\ UNCHANGED pc
                  ELSE i' = 0 /\ pc' = "idle"
  /\ UNCHANGED <<free, kept, space, args, j>>

------------------------------------------------------------------------------
(* unmap_pages.                                                            *)

\* The pages go back before their entries are cleared.
FreeData ==
  /\ pc = "free"
  /\ Access
  /\ free' = Freed(Read(Depth - 1, va), n)
  /\ pc' = "zero"
  /\ UNCHANGED <<mem, kept, space, tlb, upper, args, i, j>>

ClearEntries ==
  /\ pc = "zero"
  /\ Access
  /\ mem' = Written(Depth - 1, CallRange, Zero)
  /\ pc' = "flush"
  /\ UNCHANGED <<free, kept, space, tlb, upper, args, i, j>>

\* MUTANT of FlushPage: the address is not advanced.
FlushFirstPage ==
  /\ pc = "flush"
  /\ Invlpg(va)
  /\ IF i + 1 < n THEN i' = i + 1 /\ UNCHANGED pc
                  ELSE i' = 0 /\ pc' = "prune"
  /\ UNCHANGED <<mem, free, kept, space, window, args, j>>

FlushPage ==
  /\ pc = "flush"
  /\ Invlpg(va + i)
  /\ IF i + 1 < n THEN i' = i + 1 /\ UNCHANGED pc
                  ELSE i' = 0 /\ pc' = "prune"
  /\ UNCHANGED <<mem, free, kept, space, window, args, j>>

AllZero == \A x \in Below(Slot(Parent)) : Read(Parent + 1, x) = Zero

\* MUTANT of KeepFull: the search for an entry starts over.
KeepFullInPlace ==
  /\ pc = "prune"
  /\ Access /\ ~AllZero
  /\ UNCHANGED <<mem, free, kept, space, tlb, upper, pc, args, i, j>>

\* MUTANT of KeepFull: the break leaves the loop over the tables too.
KeepFullAndRest ==
  /\ pc = "prune"
  /\ Access /\ ~AllZero
  /\ j' = 0
  /\ IF i + 1 < Depth - 1 THEN i' = i + 1 /\ pc' = "prune"
                          ELSE i' = 0 /\ pc' = "idle"
  /\ UNCHANGED <<mem, free, kept, space, tlb, upper, args>>

\* A table with an entry left stays.
KeepFull ==
  /\ pc = "prune"
  /\ Access /\ ~AllZero
  /\ Advance(Parent, "prune", "idle")
  /\ UNCHANGED <<mem, free, kept, space, tlb, upper, args>>

\* An empty one is given back, then unlinked.
FreeTable ==
  /\ pc = "prune"
  /\ Access /\ AllZero
  /\ free' = Freed(Read(Parent, Slot(Parent)), 1)
  /\ pc' = "unlink"
  /\ UNCHANGED <<mem, kept, space, tlb, upper, args, i, j>>

\* MUTANT of UnlinkTable: the entry keeps pointing to the freed table.
UnlinkTableNot ==
  /\ pc = "unlink"
  /\ Access
  /\ Advance(Parent, "prune", "idle")
  /\ UNCHANGED <<mem, free, kept, space, tlb, upper, args>>

UnlinkTable ==
  /\ pc = "unlink"
  /\ Access
  /\ mem' = Written(Parent, {Slot(Parent)}, Zero)
  /\ Advance(Parent, "prune", "idle")
  /\ UNCHANGED <<free, kept, space, tlb, upper, args>>

------------------------------------------------------------------------------

Mapper ==
  \/ KeepTable \/ LinkTable \/ ClearTable \/ FillEntry
  \/ FreeData \/ ClearEntries \/ FlushPage
  \/ KeepFull \/ FreeTable \/ UnlinkTable
  \/ PageFault

Next ==
  \/ CallMapMemory \/ CallMapDevice \/ CallUnmap \/ Mapper
  \/ Take \/ Give \/ Touch \/ TouchTable \/ Forget

Spec == Init /\ [][Next]_vars

(* The CPU inside a call keeps executing.  What the other CPUs do with the *)
(* allocator in the meantime cannot disable its steps, only make its       *)
(* allocations fail.                                                       *)
FairSpec == Spec /\ WF_vars(Mapper)

------------------------------------------------------------------------------
(* Properties.                                                             *)

Entries == [frame : {-3, Anywhere, None} \cup Frame \cup Device, nx : BOOLEAN]

TypeOK ==
  /\ mem \in [Table -> [Index -> Entries]]
  /\ free \subseteq Frame /\ kept \subseteq Frame
  /\ space \in [Page -> Frame \cup Device \cup {None}]
  /\ DOMAIN tlb \subseteq Page
  /\ \A v \in DOMAIN tlb : tlb[v] \in Present
  /\ DOMAIN upper \subseteq UNION {{l} \X TablesAt(l) : l \in 1 .. Depth - 1}
  /\ \A p \in DOMAIN upper : upper[p] \in Present
  /\ DOMAIN window \subseteq UNION {{l} \X TablesAt(l) : l \in 0 .. Depth - 1}
  /\ \A p \in DOMAIN window : window[p] \in Table
  /\ pc \in {"idle", "tables", "clear", "fill", "free", "zero", "flush",
             "prune", "unlink", "fault"}
  /\ pa \in Frame \cup Device /\ va \in Page /\ n \in 0 .. MaxPages /\ nx \in BOOLEAN
  /\ i \in 0 .. Depth + MaxPages /\ j \in 0 .. MaxPages

Idle == pc = "idle"

\* Pages whose mapping is not being changed.
Settled == IF Idle THEN Page ELSE Page \ CallRange

\* Tables other than the root that the walk finds, and the data pages.
Tables == UNION {{<<l, t>> : t \in {u \in TablesAt(l) : TableFrame[l][u] \in Frame}} :
                   l \in 1 .. Depth - 1}
TableFrames == {TableFrame[p[1]][p[2]] : p \in Tables}
DataFrames  == {space[v] : v \in Page} \cap Frame

(* The tables say what the calls asked for: between calls every page       *)
(* translates to the page it was mapped to and the others to none, and a   *)
(* call never disturbs, not even on its way, a mapping outside its range,  *)
(* although it links, frees and unlinks tables that ranges share.          *)
MapsWhatWasAsked ==
  \A v \in Settled : Idle \/ space[v] # None => Translate(v) = space[v]

(* No page of memory is lost or used twice: between calls each is free,    *)
(* owned by another CPU, mapped, or one table, and unmap_pages has given   *)
(* back the pages and the tables that map_pages took.                      *)
FramesAccounted ==
  Idle => /\ free \cup kept \cup DataFrames \cup TableFrames = Frame
          /\ \A p, q \in Tables :
               TableFrame[p[1]][p[2]] = TableFrame[q[1]][q[2]] => p = q
          /\ free \cap (kept \cup DataFrames \cup TableFrames) = {}
          /\ kept \cap (DataFrames \cup TableFrames) = {}
          /\ DataFrames \cap TableFrames = {}

(* unmap_pages leaves no empty table behind, at any level: its counts of   *)
(* tables cover the range wherever it starts.                              *)
NoEmptyTable ==
  Idle => \A p \in Tables : \E x \in Index : mem[TableFrame[p[1]][p[2]]][x] # Zero

(* The recursive window is only ever used where a table is, unless an      *)
(* allocation has failed and its result went into an entry.                *)
FaultOnlyAfterFailure ==
  pc = "fault" => \E f \in Table, x \in Index : mem[f][x] = Failed

(* Every call returns, or dies of a page fault: the loops over the tables  *)
(* end, whatever the other CPUs allocate in the meantime.                  *)
CallReturns == pc # "idle" ~> pc \in {"idle", "fault"}

------------------------------------------------------------------------------
(* What the calls promise.                                                 *)

\* Where an access to page v may end: by the TLB if it has a translation, by
\* a walk otherwise.
Leads(v) == IF v \in DOMAIN tlb THEN {tlb[v]} ELSE Walked(v)

\* Frame page v is mapped to so far: none yet if map_pages has still to fill
\* its entry.
Mapping == pc \in {"tables", "clear", "fill"}

Want(v) ==
  IF Mapping /\ v \in CallRange /\ ~ (pc = "fill" /\ v < va + i) THEN None ELSE space[v]

\* A call that died of a page fault has left its range in no defined state.
Promised(v) == IF pc = "fault" /\ v \in CallRange THEN None ELSE Want(v)

Asked(op, v, m, t, k) == [op |-> op, page |-> v, n |-> m, target |-> t, done |-> k]

AbstractCall ==
  CASE pc = "idle"  -> Asked("idle", 0, 0, 0, 0)
    [] pc = "fault" -> Asked("dead", 0, 0, 0, 0)
    [] pc \in {"tables", "clear"} -> Asked("map", va, n, pa, 0)
    [] pc = "fill"  -> Asked("map", va, n, pa, i)
    [] pc \in {"free", "zero", "flush"} -> Asked("unmap", va, n, 0, 0)
    [] OTHER        -> Asked("prune", va, n, 0, 0)

Promise == INSTANCE AddressSpace WITH
  Target <- Frame \cup Device, call <- AbstractCall,
  target <- [v \in Page |-> Promised(v)], leads <- [v \in Page |-> Leads(v)]

(* Whoever accesses memory sees an address space: a page leads to its      *)
(* target and nowhere else from the moment map_pages fills its entry until *)
(* unmap_pages is called for it, and then to its target or nowhere until   *)
(* all of the call's pages are gone, before the first table is given back. *)
(* Walks that are made for other pages, at any moment, through old         *)
(* contents of a new table or what another CPU has written to a freed one, *)
(* end anywhere and are cached, for pages and for tables; that it holds    *)
(* nevertheless is due to every single INVLPG of both functions, and to    *)
(* its place.                                                              *)
ImplementsAddressSpace == Promise!Spec

==============================================================================
