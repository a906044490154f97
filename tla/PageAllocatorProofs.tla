------------------------- MODULE PageAllocatorProofs -------------------------
(***************************************************************************)
(* Proofs about PageAllocator, for every number of CPUs, size of memory,   *)
(* word width and set of reserved pages.                                   *)
(***************************************************************************)
EXTENDS PageAllocator, FiniteSetTheorems, TLAPS

USE WordBitsAssumption, BitsSizeAssumption, MaxRequestAssumption

------------------------------------------------------------------------------
(* Arithmetic of words and pages, and finite sets of pages.                *)

\* The words the scan reads lie inside the bitmap.
LEMMA UsableInside ==
  NumWords \in Nat /\ NumWords * WordBits \in Nat /\ NumWords * WordBits <= BitsSize
BY Z3 DEF NumWords

\* One word further is WordBits pages further.
LEMMA WordStep ==
  ASSUME NEW w \in Nat, w < NumWords
  PROVE  /\ w * WordBits \in Nat
         /\ (w + 1) * WordBits = w * WordBits + WordBits
         /\ w * WordBits + WordBits <= NumWords * WordBits
BY UsableInside, Z3

LEMMA PagesFinite == IsFiniteSet(Page)
<1>1. BitsSize - 1 \in Int
  OBVIOUS
<1> QED
  BY <1>1, FS_Interval DEF Page

\* Removing a run of n pages from a set of pages that holds it removes n.
LEMMA CardinalityWithoutRun ==
  ASSUME NEW S \in SUBSET Page, NEW s \in Int, NEW n \in Nat, Run(s, n) \subseteq S
  PROVE  /\ Cardinality(S) \in Nat
         /\ Cardinality(S \ Run(s, n)) \in Nat
         /\ Cardinality(S \ Run(s, n)) = Cardinality(S) - n
<1>1. IsFiniteSet(S)
  BY PagesFinite, FS_Subset
<1>2. IsFiniteSet(Run(s, n)) /\ Cardinality(Run(s, n)) = n
  <2>1. s + n - 1 \in Int
    OBVIOUS
  <2> QED
    BY <2>1, FS_Interval DEF Run
<1>3. S \cap Run(s, n) = Run(s, n)
  OBVIOUS
<1>4. Cardinality(S \ Run(s, n)) = Cardinality(S) - Cardinality(S \cap Run(s, n))
  BY <1>1, <1>2, FS_Difference
<1>5. IsFiniteSet(S \ Run(s, n))
  BY <1>1, FS_Subset
<1> QED
  BY <1>1, <1>2, <1>3, <1>4, <1>5, FS_CardinalityType

------------------------------------------------------------------------------
(* The inductive invariant.  The five parts lean on each other: the scan   *)
(* is exact only because nobody else changes the bitmap (LockProtects), a  *)
(* marked run was unowned only because the scan is exact (ScanKnows), a    *)
(* toggled run was set only because it was owned (Conservation), and the   *)
(* counters stay natural numbers because of all of these.                  *)

IInv == TypeOK /\ LockProtects /\ Conservation /\ CountersExact /\ ScanKnows

\* The next-state relation, one disjunct per action.
LEMMA NextCases ==
  ASSUME Next
  PROVE  \E c \in Cpu :
           \/ CallAlloc(c) \/ CallFree(c) \/ CallFreeOutside(c)
           \/ LockAlloc(c) \/ LockFree(c)
           \/ RefuseAlloc(c) \/ StartScan(c)
           \/ SkipFullWord(c) \/ EnterWord(c) \/ FailScan(c)
           \/ SetBit(c) \/ ClearBit(c) \/ Mark(c) \/ CommitAlloc(c)
           \/ RefuseFree(c) \/ AcceptFree(c) \/ Toggle(c) \/ CommitFree(c)
BY DEF Next, Enter, Critical

\* The page the scan looks at is one the bitmap has.
LEMMA PosInside ==
  ASSUME TypeOK, ScanKnows, NEW c \in Cpu, pc[c] = "bits"
  PROVE  /\ i[c] \in Nat /\ j[c] \in Nat /\ i[c] + 1 <= NumWords
         /\ Pos(c) \in Nat /\ Pos(c) < NumWords * WordBits /\ Pos(c) \in Page
<1>1. i[c] \in Nat /\ i[c] < NumWords /\ j[c] \in Nat /\ j[c] < WordBits
  BY DEF TypeOK, ScanKnows, CallKnows
<1>2. /\ i[c] * WordBits \in Nat
      /\ i[c] * WordBits + WordBits <= NumWords * WordBits
  BY <1>1, WordStep
<1>3. Pos(c) \in Nat /\ Pos(c) < NumWords * WordBits
  BY <1>1, <1>2, UsableInside DEF Pos
<1> QED
  BY <1>1, <1>3, UsableInside DEF Page

\* There are never more clear bits than memory_init has counted pages for.
LEMMA FreePagesBounded ==
  ASSUME Conservation
  PROVE  Cardinality(Page \ bits_map) \in Nat /\ Cardinality(Page \ bits_map) <= TotalPages
<1>1. Page \ bits_map \in SUBSET (Page \ Reserved)
  BY DEF Conservation
<1>2. IsFiniteSet(Page \ Reserved)
  BY PagesFinite, FS_Subset
<1>3. Cardinality(Page \ bits_map) <= Cardinality(Page \ Reserved)
  BY <1>1, <1>2, FS_Subset
<1>4. Cardinality(Page \ bits_map) \in Nat /\ Cardinality(Page \ Reserved) \in Nat
  BY <1>1, <1>2, FS_Subset, FS_CardinalityType
<1> QED
  BY <1>3, <1>4, TotalPagesAssumption DEF Page

------------------------------------------------------------------------------
(* Each part of the invariant is preserved.                                *)

LEMMA TypeStep ==
  ASSUME IInv, Next
  PROVE  TypeOK'
<1>1. PICK c \in Cpu :
        \/ CallAlloc(c) \/ CallFree(c) \/ CallFreeOutside(c)
        \/ LockAlloc(c) \/ LockFree(c)
        \/ RefuseAlloc(c) \/ StartScan(c)
        \/ SkipFullWord(c) \/ EnterWord(c) \/ FailScan(c)
        \/ SetBit(c) \/ ClearBit(c) \/ Mark(c) \/ CommitAlloc(c)
        \/ RefuseFree(c) \/ AcceptFree(c) \/ Toggle(c) \/ CommitFree(c)
  BY NextCases
<1>2. TypeOK
  BY DEF IInv
<1>3. NumWords \in Nat
  BY UsableInside
<1>4. CASE CallAlloc(c)
  BY <1>2, <1>3, <1>4 DEF TypeOK, CallAlloc, Goto, shared, AllocPcs
<1>5. CASE CallFree(c)
  <2>1. PICK p \in Page, n \in 0 .. MaxRequest :
          /\ held' = held \ Run(p, n)
          /\ addr' = [addr EXCEPT ![c] = p]
          /\ page_num' = [page_num EXCEPT ![c] = n]
    BY <1>5 DEF CallFree
  <2>2. held' \subseteq Page
    BY <1>2, <2>1 DEF TypeOK
  <2>3. addr' \in [Cpu -> 0 .. BitsSize] /\ page_num' \in [Cpu -> 0 .. MaxRequest]
    BY <1>2, <2>1 DEF TypeOK, Page
  <2> QED
    BY <1>2, <1>3, <1>5, <2>2, <2>3 DEF TypeOK, CallFree, Goto, shared, FreePcs
<1>6. CASE CallFreeOutside(c)
  BY <1>2, <1>3, <1>6 DEF TypeOK, CallFreeOutside, Goto, shared, FreePcs
<1>7. CASE LockAlloc(c)
  BY <1>2, <1>3, <1>7 DEF TypeOK, LockAlloc, SpinLock, Goto, locals, AllocPcs
<1>8. CASE LockFree(c)
  BY <1>2, <1>3, <1>8 DEF TypeOK, LockFree, SpinLock, Goto, locals, FreePcs
<1>9. CASE RefuseAlloc(c)
  BY <1>2, <1>3, <1>9 DEF TypeOK, RefuseAlloc, Return
<1>10. CASE StartScan(c)
  BY <1>2, <1>3, <1>10 DEF TypeOK, StartScan, Goto, shared, locals, AllocPcs
<1>11. CASE SkipFullWord(c)
  BY <1>2, <1>3, <1>11 DEF TypeOK, SkipFullWord, shared
<1>12. CASE EnterWord(c)
  BY <1>2, <1>3, <1>12 DEF TypeOK, EnterWord, Goto, shared, locals, AllocPcs
<1>13. CASE FailScan(c)
  BY <1>2, <1>3, <1>13 DEF TypeOK, FailScan, Return
<1>14. CASE SetBit(c)
  <2>1. i[c] \in Nat /\ j[c] \in Nat /\ i[c] + 1 <= NumWords
    BY <1>14, PosInside DEF IInv, SetBit
  <2> QED
    BY <1>2, <1>3, <1>14, <2>1 DEF TypeOK, SetBit, NextBit, Goto, shared, AllocPcs
<1>15. CASE ClearBit(c)
  <2>1. i[c] \in Nat /\ j[c] \in Nat /\ i[c] + 1 <= NumWords /\ Pos(c) \in 0 .. BitsSize
    BY <1>15, PosInside DEF IInv, ClearBit, Page
  <2>2. current_length[c] + 1 \in 0 .. MaxRequest
    BY <1>2, <1>15 DEF IInv, TypeOK, ScanKnows, CallKnows, ScanSoFar, ClearBit
  <2>3. /\ start_idx' \in [Cpu -> 0 .. BitsSize]
        /\ current_length' \in [Cpu -> 0 .. MaxRequest]
    BY <1>2, <1>15, <2>1, <2>2 DEF TypeOK, ClearBit
  <2>4. /\ pc' \in [Cpu -> {"idle"} \cup AllocPcs \cup FreePcs]
        /\ i' \in [Cpu -> 0 .. NumWords]
        /\ j' \in [Cpu -> 0 .. WordBits - 1]
    BY <1>2, <1>3, <1>15, <2>1 DEF TypeOK, ClearBit, NextBit, Goto, AllocPcs
  <2> QED
    BY <1>2, <1>15, <2>3, <2>4 DEF TypeOK, ClearBit, shared
<1>16. CASE Mark(c)
  <2>1. Run(start_idx[c], page_num[c]) \subseteq Page
    BY <1>2, <1>16, UsableInside
    DEF IInv, TypeOK, ScanKnows, CallKnows, LowestFit, Fits, Mark, Goto, Run, Page
  <2> QED
    BY <1>2, <1>3, <1>16, <2>1 DEF TypeOK, Mark, Goto, locals, AllocPcs
<1>17. CASE CommitAlloc(c)
  <2>1. Run(start_idx[c], page_num[c]) \subseteq Page
    BY <1>2, <1>17, UsableInside DEF IInv, TypeOK, ScanKnows, CallKnows, CommitAlloc, Run, Page
  <2>2. Cardinality(Page \ bits_map) \in Nat
    BY PagesFinite, FS_Subset, FS_CardinalityType
  <2>3. free_pages = Cardinality(Page \ bits_map) + page_num[c]
    BY <1>17 DEF IInv, CountersExact, Lag, Inside, Waiting, CommitAlloc
  <2> QED
    BY <1>2, <1>3, <1>17, <2>1, <2>2, <2>3 DEF TypeOK, CommitAlloc, Return
<1>18. CASE RefuseFree(c)
  BY <1>2, <1>3, <1>18 DEF TypeOK, RefuseFree, Return
<1>19. CASE AcceptFree(c)
  BY <1>2, <1>3, <1>19 DEF TypeOK, AcceptFree, Goto, shared, locals, FreePcs
<1>20. CASE Toggle(c)
  <2>1. Run(addr[c], page_num[c]) \subseteq Page
    BY <1>2, <1>20 DEF IInv, TypeOK, ScanKnows, CallKnows, Toggle, Goto, Run, Page
  <2> QED
    BY <1>2, <1>3, <1>20, <2>1 DEF TypeOK, Toggle, Xor, Goto, locals, FreePcs
<1>21. CASE CommitFree(c)
  <2>1. Cardinality(Page \ bits_map) \in Nat /\ Cardinality(Page \ bits_map) <= TotalPages
    BY FreePagesBounded DEF IInv
  <2>2. free_pages = Cardinality(Page \ bits_map) + (0 - page_num[c])
    <3>1. Inside(c) /\ Lag(c) = 0 - page_num[c]
      BY <1>21 DEF Inside, Waiting, Lag, CommitFree
    <3> QED
      BY <3>1 DEF IInv, CountersExact
  <2>3. alloc_pages + free_pages = TotalPages
    BY DEF IInv, CountersExact
  <2> QED
    BY <1>2, <1>3, <1>21, <2>1, <2>2, <2>3, TotalPagesAssumption
    DEF TypeOK, CommitFree, Return
<1> QED
  BY <1>1, <1>4, <1>5, <1>6, <1>7, <1>8, <1>9, <1>10, <1>11, <1>12, <1>13, <1>14,
     <1>15, <1>16, <1>17, <1>18, <1>19, <1>20, <1>21

\* A CPU that is inside has the lock, and every other CPU is outside.
LEMMA OthersOutside ==
  ASSUME LockProtects, NEW c \in Cpu, Inside(c)
  PROVE  lock = 1 /\ \A d \in Cpu : d # c => ~ Inside(d)
BY DEF LockProtects

LEMMA LockStep ==
  ASSUME IInv, Next
  PROVE  LockProtects'
<1>1. PICK c \in Cpu :
        \/ CallAlloc(c) \/ CallFree(c) \/ CallFreeOutside(c)
        \/ LockAlloc(c) \/ LockFree(c)
        \/ RefuseAlloc(c) \/ StartScan(c)
        \/ SkipFullWord(c) \/ EnterWord(c) \/ FailScan(c)
        \/ SetBit(c) \/ ClearBit(c) \/ Mark(c) \/ CommitAlloc(c)
        \/ RefuseFree(c) \/ AcceptFree(c) \/ Toggle(c) \/ CommitFree(c)
  BY NextCases
<1>2. TypeOK /\ LockProtects
  BY DEF IInv
<1>3. CASE CallAlloc(c) \/ CallFree(c) \/ CallFreeOutside(c)
  <2>1. lock' = lock /\ \A d \in Cpu : Inside(d)' = Inside(d)
    BY <1>2, <1>3
    DEF TypeOK, CallAlloc, CallFree, CallFreeOutside, Goto, shared, Inside, Waiting
  <2> QED
    BY <1>2, <2>1 DEF LockProtects
<1>4. CASE LockAlloc(c) \/ LockFree(c)
  <2>1. lock = 0 /\ lock' = 1
    BY <1>4 DEF LockAlloc, LockFree, SpinLock
  <2>2. \A d \in Cpu : Inside(d)' <=> d = c \/ Inside(d)
    BY <1>2, <1>4 DEF TypeOK, LockAlloc, LockFree, Goto, Inside, Waiting
  <2>3. \A d \in Cpu : ~ Inside(d)
    BY <1>2, <2>1 DEF LockProtects
  <2> QED
    BY <2>1, <2>2, <2>3 DEF LockProtects
<1>5. CASE \/ StartScan(c) \/ SkipFullWord(c) \/ EnterWord(c) \/ SetBit(c) \/ ClearBit(c)
           \/ Mark(c) \/ AcceptFree(c) \/ Toggle(c)
  <2>1. lock' = lock /\ \A d \in Cpu : Inside(d)' = Inside(d)
    BY <1>2, <1>5
    DEF TypeOK, StartScan, SkipFullWord, EnterWord, SetBit, ClearBit, NextBit, Mark,
        AcceptFree, Toggle, Goto, shared, Inside, Waiting
  <2> QED
    BY <1>2, <2>1 DEF LockProtects
<1>6. CASE \/ RefuseAlloc(c) \/ FailScan(c) \/ CommitAlloc(c) \/ RefuseFree(c)
           \/ CommitFree(c)
  <2>1. Inside(c) /\ Return(c)
    BY <1>6 DEF RefuseAlloc, FailScan, CommitAlloc, RefuseFree, CommitFree, Inside, Waiting
  <2>2. lock' = 0 /\ \A d \in Cpu : Inside(d)' <=> d # c /\ Inside(d)
    BY <1>2, <2>1 DEF TypeOK, Return, Inside, Waiting
  <2> QED
    BY <1>2, <2>1, <2>2, OthersOutside DEF LockProtects
<1> QED
  BY <1>1, <1>3, <1>4, <1>5, <1>6

\* When CPU c exchanges its claim for another, Conservation survives if the
\* pages the callers own and the new claim replace, bit for bit, the pages
\* they owned and the old claim.
LEMMA ClaimChange ==
  ASSUME Conservation, NEW c \in Cpu,
         \A d \in Cpu : d # c => Claim(d)' = Claim(d),
         bits_map' = (bits_map \ (held \cup Claim(c))) \cup held' \cup Claim(c)',
         held' \cap Claim(c)' = {},
         (held' \cup Claim(c)') \cap (bits_map \ (held \cup Claim(c))) = {}
  PROVE  Conservation'
<1> DEFINE others == UNION {Claim(d) : d \in Cpu \ {c}}
<1>1. bits_map \ (held \cup Claim(c)) = Reserved \cup others
  BY DEF Conservation
<1>2. \A d \in Cpu : d # c => Claim(d)' \subseteq others
  OBVIOUS
<1>3. UNION {Claim(d)' : d \in Cpu} = others \cup Claim(c)'
  OBVIOUS
<1>4. bits_map' = Reserved \cup held' \cup UNION {Claim(d)' : d \in Cpu}
  BY <1>1, <1>3
<1>5. held' \cap Reserved = {} /\ Claim(c)' \cap (held' \cup Reserved) = {}
  BY <1>1
<1>6. \A d \in Cpu : d # c => Claim(d)' \cap (held' \cup Reserved) = {}
  BY <1>1, <1>2 DEF Conservation
<1>7. \A d \in Cpu : d # c => Claim(d)' \cap Claim(c)' = {}
  BY <1>1, <1>2
<1>8. \A d, e \in Cpu : d # e => Claim(d)' \cap Claim(e)' = {}
  BY <1>7 DEF Conservation
<1> QED
  BY <1>4, <1>5, <1>6, <1>8 DEF Conservation

\* A step that touches neither the bitmap nor what is owned or claimed.
LEMMA ClaimsUntouched ==
  ASSUME Conservation, bits_map' = bits_map, held' = held,
         \A d \in Cpu : Claim(d)' = Claim(d)
  PROVE  Conservation'
<1>1. UNION {Claim(d)' : d \in Cpu} = UNION {Claim(d) : d \in Cpu}
  OBVIOUS
<1> QED
  BY <1>1 DEF Conservation

\* The scan stops at pages nobody owns.
LEMMA FoundRunIsClear ==
  ASSUME ScanKnows, NEW c \in Cpu, pc[c] = "mark"
  PROVE  Run(start_idx[c], page_num[c]) \cap bits_map = {}
BY DEF ScanKnows, CallKnows, LowestFit, Fits

\* A caller's run is inside the memory, so free_pages does not refuse it.
LEMMA OwnedRunAccepted ==
  ASSUME TypeOK, Conservation, NEW c \in Cpu, pc[c] = "check_f", addr[c] < BitsSize
  PROVE  addr[c] + page_num[c] <= BitsSize
<1>1. addr[c] \in Nat /\ page_num[c] \in Nat
  BY DEF TypeOK
<1>2. Run(addr[c], page_num[c]) \subseteq bits_map
  BY DEF Conservation, Claim
<1>3. CASE page_num[c] = 0
  BY <1>1, <1>3
<1>4. CASE page_num[c] > 0
  <2>1. addr[c] + page_num[c] - 1 \in Run(addr[c], page_num[c])
    BY <1>1, <1>4 DEF Run
  <2>2. addr[c] + page_num[c] - 1 \in Page
    BY <1>2, <2>1 DEF TypeOK
  <2> QED
    BY <1>1, <2>2 DEF Page
<1> QED
  BY <1>1, <1>3, <1>4

LEMMA ConservationStep ==
  ASSUME IInv, Next
  PROVE  Conservation'
<1>1. PICK c \in Cpu :
        \/ CallAlloc(c) \/ CallFree(c) \/ CallFreeOutside(c)
        \/ LockAlloc(c) \/ LockFree(c)
        \/ RefuseAlloc(c) \/ StartScan(c)
        \/ SkipFullWord(c) \/ EnterWord(c) \/ FailScan(c)
        \/ SetBit(c) \/ ClearBit(c) \/ Mark(c) \/ CommitAlloc(c)
        \/ RefuseFree(c) \/ AcceptFree(c) \/ Toggle(c) \/ CommitFree(c)
  BY NextCases
<1>2. TypeOK /\ Conservation /\ ScanKnows
  BY DEF IInv
<1>3. CASE CallAlloc(c) \/ CallFreeOutside(c) \/ LockAlloc(c) \/ LockFree(c)
  <2>1. bits_map' = bits_map /\ held' = held /\ \A d \in Cpu : Claim(d)' = Claim(d)
    BY <1>2, <1>3
    DEF TypeOK, CallAlloc, CallFreeOutside, LockAlloc, LockFree, Goto, shared, locals, Claim
  <2> QED
    BY <1>2, <2>1, ClaimsUntouched
<1>4. CASE \/ RefuseAlloc(c) \/ StartScan(c) \/ SkipFullWord(c) \/ EnterWord(c)
           \/ FailScan(c) \/ SetBit(c) \/ ClearBit(c)
  <2>1. bits_map' = bits_map /\ held' = held /\ \A d \in Cpu : Claim(d)' = Claim(d)
    BY <1>2, <1>4
    DEF TypeOK, RefuseAlloc, StartScan, SkipFullWord, EnterWord, FailScan, SetBit,
        ClearBit, NextBit, Return, Goto, shared, locals, Claim
  <2> QED
    BY <1>2, <2>1, ClaimsUntouched
<1>5. CASE CallFree(c)
  <2>1. PICK p \in Page, n \in 0 .. MaxRequest :
          /\ Run(p, n) \subseteq held
          /\ held' = held \ Run(p, n)
          /\ addr' = [addr EXCEPT ![c] = p]
          /\ page_num' = [page_num EXCEPT ![c] = n]
    BY <1>5 DEF CallFree
  <2>2. Claim(c) = {} /\ Claim(c)' = Run(p, n)
    BY <1>2, <1>5, <2>1 DEF TypeOK, CallFree, Goto, Claim, Page
  <2>3. \A d \in Cpu : d # c => Claim(d)' = Claim(d)
    BY <1>2, <1>5, <2>1 DEF TypeOK, CallFree, Goto, Claim
  <2>4. bits_map' = bits_map
    BY <1>5 DEF CallFree, shared
  <2>5. held \subseteq bits_map
    BY <1>2 DEF Conservation
  <2>6. held' \cup Claim(c)' = held
    BY <2>1, <2>2
  <2> QED
    BY <1>2, <2>1, <2>2, <2>3, <2>4, <2>5, <2>6, ClaimChange
<1>6. CASE Mark(c)
  <2>1. Claim(c) = {} /\ Claim(c)' = Run(start_idx[c], page_num[c])
    BY <1>2, <1>6 DEF TypeOK, Mark, Goto, locals, Claim
  <2>2. \A d \in Cpu : d # c => Claim(d)' = Claim(d)
    BY <1>2, <1>6 DEF TypeOK, Mark, Goto, locals, Claim
  <2>3. bits_map' = bits_map \cup Claim(c)' /\ held' = held
    BY <1>6, <2>1 DEF Mark
  <2>4. Claim(c)' \cap bits_map = {}
    BY <1>2, <1>6, <2>1, FoundRunIsClear DEF Mark, Goto
  <2>5. held \subseteq bits_map
    BY <1>2 DEF Conservation
  <2> QED
    BY <1>2, <2>1, <2>2, <2>3, <2>4, <2>5, ClaimChange
<1>7. CASE CommitAlloc(c)
  <2>1. Claim(c)' = {} /\ Claim(c) = Run(start_idx[c], page_num[c])
    BY <1>2, <1>7 DEF TypeOK, CommitAlloc, Return, Claim
  <2>2. \A d \in Cpu : d # c => Claim(d)' = Claim(d)
    BY <1>2, <1>7 DEF TypeOK, CommitAlloc, Return, Claim
  <2>3. bits_map' = bits_map /\ held' = held \cup Claim(c)
    BY <1>7, <2>1 DEF CommitAlloc
  <2>4. held \cup Claim(c) \subseteq bits_map
    BY <1>2 DEF Conservation
  <2> QED
    BY <1>2, <2>1, <2>2, <2>3, <2>4, ClaimChange
<1>8. CASE RefuseFree(c)
  <2>1. addr[c] \in Nat /\ page_num[c] \in Nat /\ pc[c] = "check_f"
    BY <1>2, <1>8 DEF TypeOK, RefuseFree
  <2>2. ~ (addr[c] < BitsSize)
    BY <1>2, <1>8, <2>1, OwnedRunAccepted DEF RefuseFree
  <2>3. bits_map' = bits_map /\ held' = held /\ \A d \in Cpu : Claim(d)' = Claim(d)
    BY <1>2, <1>8, <2>2 DEF TypeOK, RefuseFree, Return, Claim
  <2> QED
    BY <1>2, <2>3, ClaimsUntouched
<1>9. CASE AcceptFree(c) \/ CommitFree(c)
  <2>1. bits_map' = bits_map /\ held' = held /\ \A d \in Cpu : Claim(d)' = Claim(d)
    BY <1>2, <1>9
    DEF TypeOK, AcceptFree, CommitFree, Return, Goto, shared, locals, Claim
  <2> QED
    BY <1>2, <2>1, ClaimsUntouched
<1>10. CASE Toggle(c)
  <2>1. Claim(c)' = {} /\ Claim(c) = Run(addr[c], page_num[c])
    <3>1. CASE addr[c] < BitsSize
      BY <1>2, <1>10, <3>1 DEF TypeOK, Toggle, Goto, locals, Claim
    <3>2. CASE ~ (addr[c] < BitsSize)
      <4>1. addr[c] = BitsSize /\ page_num[c] = 0
        BY <1>2, <1>10, <3>2 DEF TypeOK, ScanKnows, CallKnows, Toggle, Goto
      <4> QED
        BY <1>2, <1>10, <4>1 DEF TypeOK, Toggle, Goto, locals, Claim, Run
    <3> QED
      BY <3>1, <3>2
  <2>2. \A d \in Cpu : d # c => Claim(d)' = Claim(d)
    BY <1>2, <1>10 DEF TypeOK, Toggle, Goto, locals, Claim
  <2>3. Claim(c) \subseteq bits_map /\ held \subseteq bits_map /\ held \cap Claim(c) = {}
    BY <1>2 DEF Conservation
  <2>4. bits_map' = bits_map \ Claim(c) /\ held' = held
    BY <1>10, <2>1, <2>3 DEF Toggle, Xor
  <2> QED
    BY <1>2, <2>1, <2>2, <2>3, <2>4, ClaimChange
<1> QED
  BY <1>1, <1>3, <1>4, <1>5, <1>6, <1>7, <1>8, <1>9, <1>10

\* A critical section that ends with no lag leaves exact counters behind.
LEMMA ReturnExact ==
  ASSUME TypeOK, LockProtects, NEW c \in Cpu, Inside(c), Return(c),
         alloc_pages' + free_pages' = TotalPages,
         free_pages' = Cardinality(Page \ bits_map), bits_map' = bits_map
  PROVE  CountersExact'
<1>1. \A d \in Cpu : ~ Inside(d)'
  BY OthersOutside DEF TypeOK, Return, Inside, Waiting
<1> QED
  BY <1>1 DEF CountersExact, Page

\* Inside a critical section only the lag of its own CPU matters.
LEMMA MidwayExact ==
  ASSUME CountersExact, LockProtects, NEW c \in Cpu, Inside(c),
         UNCHANGED <<lock, alloc_pages, free_pages>>,
         \A d \in Cpu : d # c => ~ Inside(d)',
         free_pages = Cardinality(Page \ bits_map') + Lag(c)'
  PROVE  CountersExact'
<1>1. lock = 1
  BY OthersOutside
<1>2. \A d \in Cpu : Inside(d)' => free_pages' = Cardinality(Page \ bits_map') + Lag(d)'
  OBVIOUS
<1>3. alloc_pages' + free_pages' = TotalPages
  BY DEF CountersExact
<1> QED
  BY <1>1, <1>2, <1>3 DEF CountersExact, Page

LEMMA CountersStep ==
  ASSUME IInv, Next
  PROVE  CountersExact'
<1>1. PICK c \in Cpu :
        \/ CallAlloc(c) \/ CallFree(c) \/ CallFreeOutside(c)
        \/ LockAlloc(c) \/ LockFree(c)
        \/ RefuseAlloc(c) \/ StartScan(c)
        \/ SkipFullWord(c) \/ EnterWord(c) \/ FailScan(c)
        \/ SetBit(c) \/ ClearBit(c) \/ Mark(c) \/ CommitAlloc(c)
        \/ RefuseFree(c) \/ AcceptFree(c) \/ Toggle(c) \/ CommitFree(c)
  BY NextCases
<1>2. TypeOK /\ LockProtects /\ Conservation /\ CountersExact /\ ScanKnows
  BY DEF IInv
<1> DEFINE clear == Cardinality(Page \ bits_map)
<1>3. clear \in Nat /\ alloc_pages \in Nat /\ free_pages \in Nat /\ page_num[c] \in Nat
  BY <1>2, FreePagesBounded DEF TypeOK
<1>4. CASE CallAlloc(c) \/ CallFree(c) \/ CallFreeOutside(c)
  <2>1. UNCHANGED shared /\ \A d \in Cpu : Inside(d)' = Inside(d) /\ Lag(d)' = Lag(d)
    <3>1. UNCHANGED shared
      BY <1>4 DEF CallAlloc, CallFree, CallFreeOutside
    <3>2. \A d \in Cpu : d # c => pc'[d] = pc[d] /\ page_num'[d] = page_num[d]
      BY <1>2, <1>4 DEF TypeOK, CallAlloc, CallFree, CallFreeOutside, Goto
    <3>3. pc[c] = "idle" /\ pc'[c] \in {"lock_a", "lock_f"}
      BY <1>2, <1>4 DEF TypeOK, CallAlloc, CallFree, CallFreeOutside, Goto
    <3>4. Inside(c)' = Inside(c) /\ Lag(c)' = Lag(c)
      BY <3>3 DEF Inside, Waiting, Lag
    <3>5. \A d \in Cpu : d # c => Inside(d)' = Inside(d) /\ Lag(d)' = Lag(d)
      BY <3>2 DEF Inside, Waiting, Lag
    <3> QED
      BY <3>1, <3>4, <3>5
  <2> QED
    BY <1>2, <2>1 DEF CountersExact, shared, Page
<1>5. CASE LockAlloc(c) \/ LockFree(c)
  <2>1. UNCHANGED <<bits_map, alloc_pages, free_pages>> /\ lock = 0 /\ lock' = 1
    BY <1>5 DEF LockAlloc, LockFree, SpinLock
  <2>2. \A d \in Cpu : Inside(d)' => d = c
    BY <1>2, <1>5, <2>1 DEF TypeOK, LockProtects, LockAlloc, LockFree, Goto, Inside, Waiting
  <2>3. Lag(c)' = 0
    BY <1>2, <1>5 DEF TypeOK, LockAlloc, LockFree, Goto, Lag
  <2> QED
    BY <1>2, <1>3, <2>1, <2>2, <2>3 DEF CountersExact, Page
<1>6. CASE \/ StartScan(c) \/ SkipFullWord(c) \/ EnterWord(c) \/ SetBit(c) \/ ClearBit(c)
           \/ AcceptFree(c)
  <2>1. UNCHANGED <<lock, bits_map, alloc_pages, free_pages>>
    BY <1>6 DEF StartScan, SkipFullWord, EnterWord, SetBit, ClearBit, AcceptFree, shared
  <2>2. pc[c] \in {"check_a", "scan", "bits", "check_f"}
    BY <1>6 DEF StartScan, SkipFullWord, EnterWord, SetBit, ClearBit, AcceptFree, Goto
  <2>3. pc'[c] \in {"scan", "bits", "mark", "toggle"}
    BY <1>2, <1>6, <2>2
    DEF TypeOK, StartScan, SkipFullWord, EnterWord, SetBit, ClearBit, AcceptFree, NextBit, Goto
  <2>4. Inside(c) /\ Inside(c)' /\ Lag(c) = 0 /\ Lag(c)' = 0
    BY <2>2, <2>3 DEF Inside, Waiting, Lag
  <2>5. \A d \in Cpu : d # c => pc'[d] = pc[d]
    BY <1>2, <1>6
    DEF TypeOK, StartScan, SkipFullWord, EnterWord, SetBit, ClearBit, AcceptFree, NextBit,
        Goto, shared
  <2>6. \A d \in Cpu : d # c => ~ Inside(d)'
    BY <1>2, <2>4, <2>5, OthersOutside DEF Inside
  <2> QED
    BY <1>2, <1>3, <2>1, <2>4, <2>6 DEF CountersExact, Page
<1>7. CASE Mark(c)
  <2>1. pc[c] = "mark" /\ pc'[c] = "commit_a" /\ page_num'[c] = page_num[c]
    BY <1>2, <1>7 DEF TypeOK, Mark, Goto, locals
  <2>2. Inside(c) /\ Lag(c) = 0 /\ Lag(c)' = page_num[c]
    BY <2>1 DEF Inside, Waiting, Lag
  <2>3. \A d \in Cpu : d # c => ~ Inside(d)'
    BY <1>2, <1>7, <2>2, OthersOutside DEF TypeOK, Mark, Goto, Inside, Waiting
  <2>4. start_idx[c] \in Int /\ Run(start_idx[c], page_num[c]) \subseteq Page \ bits_map
    BY <1>2, <2>1, UsableInside DEF TypeOK, ScanKnows, CallKnows, LowestFit, Fits, Run, Page
  <2>5. Page \ bits_map' = (Page \ bits_map) \ Run(start_idx[c], page_num[c])
    BY <1>7 DEF Mark
  <2>6. Cardinality(Page \ bits_map') = clear - page_num[c]
    BY <1>3, <2>4, <2>5, CardinalityWithoutRun
  <2>7. free_pages = clear
    BY <1>2, <1>3, <2>2 DEF CountersExact
  <2>8. UNCHANGED <<lock, alloc_pages, free_pages>>
    BY <1>7 DEF Mark
  <2>9. free_pages = Cardinality(Page \ bits_map') + Lag(c)'
    BY <1>3, <2>2, <2>6, <2>7
  <2> QED
    BY <1>2, <2>2, <2>3, <2>8, <2>9, MidwayExact
<1>8. CASE RefuseAlloc(c) \/ FailScan(c) \/ RefuseFree(c)
  <2>1. Inside(c) /\ Lag(c) = 0 /\ Return(c) /\ UNCHANGED <<bits_map, alloc_pages, free_pages>>
    BY <1>8 DEF RefuseAlloc, FailScan, RefuseFree, Inside, Waiting, Lag
  <2>2. free_pages = clear /\ alloc_pages + free_pages = TotalPages
    BY <1>2, <1>3, <2>1 DEF CountersExact
  <2> QED
    BY <1>2, <2>1, <2>2, ReturnExact
<1>9. CASE CommitAlloc(c)
  <2>1. Inside(c) /\ Lag(c) = page_num[c] /\ Return(c) /\ bits_map' = bits_map
    BY <1>9 DEF CommitAlloc, Inside, Waiting, Lag
  <2>2. free_pages = clear + page_num[c] /\ alloc_pages + free_pages = TotalPages
    BY <1>2, <2>1 DEF CountersExact
  <2>3. free_pages' = clear /\ alloc_pages' + free_pages' = TotalPages
    BY <1>3, <1>9, <2>2 DEF CommitAlloc
  <2> QED
    BY <1>2, <2>1, <2>3, ReturnExact
<1>10. CASE Toggle(c)
  <2>1. pc[c] = "toggle" /\ pc'[c] = "commit_f" /\ page_num'[c] = page_num[c]
    BY <1>2, <1>10 DEF TypeOK, Toggle, Goto, locals
  <2>2. Inside(c) /\ Lag(c) = 0 /\ Lag(c)' = 0 - page_num[c]
    BY <2>1 DEF Inside, Waiting, Lag
  <2>3. \A d \in Cpu : d # c => ~ Inside(d)'
    BY <1>2, <1>10, <2>2, OthersOutside DEF TypeOK, Toggle, Goto, Inside, Waiting
  <2>4. addr[c] \in Int /\ Run(addr[c], page_num[c]) \subseteq bits_map
    <3>1. CASE addr[c] < BitsSize
      BY <1>2, <2>1, <3>1 DEF TypeOK, Conservation, Claim
    <3>2. CASE ~ (addr[c] < BitsSize)
      <4>1. addr[c] = BitsSize /\ page_num[c] = 0
        BY <1>2, <2>1, <3>2 DEF TypeOK, ScanKnows, CallKnows
      <4> QED
        BY <4>1 DEF Run
    <3> QED
      BY <3>1, <3>2
  <2>5. bits_map' = bits_map \ Run(addr[c], page_num[c])
    BY <1>10, <2>4 DEF Toggle, Xor
  <2>6. Run(addr[c], page_num[c]) \subseteq Page \ bits_map'
    BY <1>2, <2>4, <2>5 DEF TypeOK
  <2>7. Page \ bits_map = (Page \ bits_map') \ Run(addr[c], page_num[c])
    BY <2>4, <2>5
  <2>8. /\ Cardinality(Page \ bits_map') \in Nat
        /\ clear = Cardinality(Page \ bits_map') - page_num[c]
    BY <1>3, <2>4, <2>6, <2>7, CardinalityWithoutRun
  <2>9. free_pages = clear
    <3>1. Inside(c) /\ Lag(c) = 0
      BY <2>2
    <3>2. free_pages = clear + Lag(c)
      BY <1>2, <3>1 DEF CountersExact
    <3> QED
      BY <1>3, <3>1, <3>2
  <2>10. UNCHANGED <<lock, alloc_pages, free_pages>>
    BY <1>10 DEF Toggle
  <2>11. free_pages = Cardinality(Page \ bits_map') + Lag(c)'
    BY <1>3, <2>2, <2>8, <2>9
  <2> QED
    BY <1>2, <2>2, <2>3, <2>10, <2>11, MidwayExact
<1>11. CASE CommitFree(c)
  <2>1. Inside(c) /\ Lag(c) = 0 - page_num[c] /\ Return(c) /\ bits_map' = bits_map
    BY <1>11 DEF CommitFree, Inside, Waiting, Lag
  <2>2. free_pages = clear + (0 - page_num[c]) /\ alloc_pages + free_pages = TotalPages
    BY <1>2, <2>1 DEF CountersExact
  <2>3. free_pages' = clear /\ alloc_pages' + free_pages' = TotalPages
    BY <1>3, <1>11, <2>2 DEF CommitFree
  <2> QED
    BY <1>2, <2>1, <2>3, ReturnExact
<1> QED
  BY <1>1, <1>4, <1>5, <1>6, <1>7, <1>8, <1>9, <1>10, <1>11

------------------------------------------------------------------------------
(* The scan.                                                               *)

\* What a call knows survives a step of another CPU, which changes nothing of
\* this one's and the bitmap only while this one is outside.
LEMMA KnowsFrame ==
  ASSUME NEW d \in Cpu, CallKnows(d),
         pc'[d] = pc[d], page_num'[d] = page_num[d], addr'[d] = addr[d],
         i'[d] = i[d], j'[d] = j[d], start_idx'[d] = start_idx[d],
         current_length'[d] = current_length[d],
         bits_map' = bits_map \/ ~ Inside(d)
  PROVE  CallKnows(d)'
<1>1. CASE bits_map' = bits_map
  BY <1>1 DEF CallKnows, ScanSoFar, LowestFit, Fits, Pos
<1>2. CASE ~ Inside(d)
  <2>1. pc[d] \in {"idle", "lock_a", "lock_f"}
    BY <1>2 DEF Inside, Waiting
  <2> QED
    BY <2>1 DEF CallKnows
<1> QED
  BY <1>1, <1>2

\* One step of the bit loop, into the next word or not, is one page.
LEMMA NextPos ==
  ASSUME TypeOK, ScanKnows, NEW c \in Cpu, pc[c] = "bits", NextBit(c)
  PROVE  /\ Pos(c)' = Pos(c) + 1
         /\ pc'[c] \in {"scan", "bits"}
         /\ pc'[c] = "scan" => j'[c] = 0
         /\ pc'[c] = "bits" => i'[c] < NumWords
<1>1. i[c] \in Nat /\ j[c] \in Nat /\ i[c] < NumWords /\ j[c] < WordBits
  BY DEF TypeOK, ScanKnows, CallKnows
<1>2. i[c] * WordBits \in Nat /\ (i[c] + 1) * WordBits = i[c] * WordBits + WordBits
  BY <1>1, WordStep
<1>3. CASE j[c] + 1 < WordBits
  <2>1. i' = i /\ pc' = pc /\ j'[c] = j[c] + 1
    BY <1>3 DEF NextBit, TypeOK
  <2> QED
    BY <1>1, <1>2, <2>1 DEF Pos
<1>4. CASE ~ (j[c] + 1 < WordBits)
  <2>1. i'[c] = i[c] + 1 /\ j'[c] = 0 /\ pc'[c] = "scan" /\ j[c] + 1 = WordBits
    BY <1>1, <1>4 DEF NextBit, Goto, TypeOK
  <2>2. 0 * WordBits = 0
    OBVIOUS
  <2> QED
    BY <1>1, <1>2, <2>1 DEF Pos
<1> QED
  BY <1>3, <1>4

\* A clear page makes the run one longer.
LEMMA RunGrows ==
  ASSUME NEW k \in Nat, NEW len \in Nat, NEW n \in Nat, NEW start \in Nat,
         ScanSoFar(k, len, start, n), k \notin bits_map
  PROVE  LET first == IF len = 0 THEN k ELSE start
         IN  /\ first = k - len
             /\ len + 1 < n => ScanSoFar(k + 1, len + 1, first, n)
             /\ len + 1 = n /\ k < NumWords * WordBits => LowestFit(first, n)
<1> DEFINE first == IF len = 0 THEN k ELSE start
<1>1. first = k - len
  BY DEF ScanSoFar
<1>2. Run(k - len, len + 1) \cap bits_map = {}
  BY DEF ScanSoFar, Run
<1>3. len = k \/ k - len - 1 \in bits_map
  BY DEF ScanSoFar
<1>4. \A s \in 0 .. k - n : ~ Fits(s, n)
  BY DEF ScanSoFar
<1>5. ASSUME len + 1 < n
      PROVE  ScanSoFar(k + 1, len + 1, first, n)
  <2>1. ASSUME NEW s \in 0 .. k + 1 - n
        PROVE  ~ Fits(s, n)
    <3>1. CASE s \in 0 .. k - n
      BY <1>4, <3>1
    <3>2. CASE s = k + 1 - n
      <4>1. k - len - 1 \in bits_map
        BY <1>3, <1>5, <2>1, <3>2
      <4>2. k - len - 1 \in Run(s, n)
        BY <1>5, <3>2 DEF Run
      <4> QED
        BY <4>1, <4>2 DEF Fits
    <3> QED
      BY <2>1, <3>1, <3>2
  <2>2. (k + 1) - (len + 1) = k - len /\ len + 1 <= k + 1
    BY DEF ScanSoFar
  <2> QED
    BY <1>1, <1>2, <1>3, <1>5, <2>1, <2>2 DEF ScanSoFar
<1>6. ASSUME len + 1 = n, k < NumWords * WordBits
      PROVE  LowestFit(first, n)
  <2>1. Fits(first, n)
    BY <1>1, <1>2, <1>6, UsableInside DEF Fits
  <2>2. 0 .. first - 1 = 0 .. k - n
    BY <1>1, <1>6
  <2> QED
    BY <1>4, <1>6, <2>1, <2>2 DEF LowestFit
<1> QED
  BY <1>1, <1>5, <1>6

\* Set pages end the run; nothing long enough can reach over them.
LEMMA RunEnds ==
  ASSUME NEW k \in Nat, NEW len \in Nat, NEW n \in Nat, NEW start, NEW m \in Nat \ {0},
         ScanSoFar(k, len, start, n), Run(k, m) \subseteq bits_map
  PROVE  ScanSoFar(k + m, 0, start, n)
<1>1. n > 0
  BY DEF ScanSoFar
<1>2. ASSUME NEW s \in 0 .. k + m - n
      PROVE  ~ Fits(s, n)
  <2>1. CASE s \in 0 .. k - n
    BY <2>1 DEF ScanSoFar
  <2>2. CASE s > k - n
    <3>1. s + n - 1 \in Run(k, m) /\ s + n - 1 \in Run(s, n)
      BY <1>1, <1>2, <2>2 DEF Run
    <3> QED
      BY <3>1 DEF Fits
  <2> QED
    BY <1>2, <2>1, <2>2
<1>3. k + m - 1 \in bits_map
  BY DEF Run
<1>4. Run(k + m - 0, 0) = {}
  BY DEF Run
<1> QED
  BY <1>1, <1>2, <1>3, <1>4 DEF ScanSoFar

\* What CPU c knows after a step of its own that scans.
LEMMA OwnScanStep ==
  ASSUME IInv, NEW c \in Cpu,
         \/ StartScan(c) \/ SkipFullWord(c) \/ EnterWord(c) \/ SetBit(c) \/ ClearBit(c)
  PROVE  CallKnows(c)'
<1>1. TypeOK /\ ScanKnows /\ CallKnows(c)
  BY DEF IInv, ScanKnows
<1>2. /\ current_length[c] \in Nat /\ page_num[c] \in Nat /\ start_idx[c] \in Nat
      /\ i[c] \in Nat /\ j[c] \in Nat
  BY <1>1 DEF TypeOK
<1>3. bits_map' = bits_map /\ page_num' = page_num /\ addr' = addr
  BY DEF StartScan, SkipFullWord, EnterWord, SetBit, ClearBit, NextBit, shared, locals
<1>4. addr[c] = 0
  BY <1>1
  DEF CallKnows, AllocPcs, StartScan, SkipFullWord, EnterWord, SetBit, ClearBit, Goto
<1>5. CASE StartScan(c)
  <2>1. pc[c] = "check_a" /\ pc'[c] = "scan" /\ UNCHANGED locals /\ page_num[c] # 0
    BY <1>1, <1>5 DEF TypeOK, StartScan, Goto
  <2>2. i[c] = 0 /\ j[c] = 0 /\ start_idx[c] = 0 /\ current_length[c] = 0
    BY <1>1, <2>1 DEF CallKnows
  <2>3. Pos(c)' = 0
    BY <2>1, <2>2 DEF Pos, locals
  <2>4. ScanSoFar(0, 0, 0, page_num[c])
    BY <1>2, <2>1 DEF ScanSoFar, Run
  <2>5. ScanSoFar(Pos(c), current_length[c], start_idx[c], page_num[c])'
    BY <1>3, <2>1, <2>2, <2>3, <2>4 DEF locals, ScanSoFar, Fits
  <2> QED
    BY <1>3, <1>4, <2>1, <2>2, <2>5 DEF CallKnows, locals
<1>6. CASE SkipFullWord(c)
  <2>1. /\ pc[c] = "scan" /\ pc' = pc /\ j' = j /\ start_idx' = start_idx
        /\ i'[c] = i[c] + 1 /\ current_length'[c] = 0
        /\ i[c] < NumWords /\ Word(i[c]) \subseteq bits_map
    BY <1>1, <1>6 DEF TypeOK, SkipFullWord, shared
  <2>2. j[c] = 0 /\ ScanSoFar(Pos(c), current_length[c], start_idx[c], page_num[c])
    BY <1>1, <2>1 DEF CallKnows
  <2>3. i[c] * WordBits \in Nat /\ (i[c] + 1) * WordBits = i[c] * WordBits + WordBits
    BY <1>2, <2>1, WordStep
  <2>4. Pos(c) \in Nat /\ Pos(c) = i[c] * WordBits /\ Pos(c)' = Pos(c) + WordBits
    BY <2>1, <2>2, <2>3 DEF Pos
  <2>5. Run(Pos(c), WordBits) \subseteq bits_map
    BY <2>1, <2>4 DEF Run, Word
  <2>6. ScanSoFar(Pos(c) + WordBits, 0, start_idx[c], page_num[c])
    BY <1>2, <2>2, <2>4, <2>5, RunEnds
  <2>7. ScanSoFar(Pos(c), current_length[c], start_idx[c], page_num[c])'
    BY <1>3, <2>1, <2>4, <2>6 DEF ScanSoFar, Fits
  <2> QED
    BY <1>3, <1>4, <2>1, <2>2, <2>7 DEF CallKnows
<1>7. CASE EnterWord(c)
  <2>1. pc[c] = "scan" /\ pc'[c] = "bits" /\ UNCHANGED locals /\ i[c] < NumWords
    BY <1>1, <1>7 DEF TypeOK, EnterWord, Goto
  <2>2. ScanSoFar(Pos(c), current_length[c], start_idx[c], page_num[c])
    BY <1>1, <2>1 DEF CallKnows
  <2>3. ScanSoFar(Pos(c), current_length[c], start_idx[c], page_num[c])'
    BY <1>3, <2>1, <2>2 DEF locals, Pos, ScanSoFar, Fits
  <2> QED
    BY <1>3, <1>4, <2>1, <2>3 DEF CallKnows, locals
<1>8. CASE SetBit(c)
  <2>1. /\ pc[c] = "bits" /\ Pos(c) \in bits_map /\ NextBit(c)
        /\ current_length'[c] = 0 /\ start_idx' = start_idx
    BY <1>1, <1>8 DEF TypeOK, SetBit
  <2>2. ScanSoFar(Pos(c), current_length[c], start_idx[c], page_num[c])
    BY <1>1, <2>1 DEF CallKnows
  <2>3. Pos(c) \in Nat
    BY <1>1, <2>1, PosInside
  <2>4. Run(Pos(c), 1) \subseteq bits_map
    BY <2>1, <2>3 DEF Run
  <2>5. ScanSoFar(Pos(c) + 1, 0, start_idx[c], page_num[c])
    BY <1>2, <2>2, <2>3, <2>4, RunEnds
  <2>6. /\ Pos(c)' = Pos(c) + 1 /\ pc'[c] \in {"scan", "bits"}
        /\ pc'[c] = "scan" => j'[c] = 0
        /\ pc'[c] = "bits" => i'[c] < NumWords
    BY <1>1, <2>1, NextPos
  <2>7. ScanSoFar(Pos(c), current_length[c], start_idx[c], page_num[c])'
    BY <1>3, <2>1, <2>5, <2>6 DEF ScanSoFar, Fits
  <2> QED
    BY <1>3, <1>4, <2>6, <2>7 DEF CallKnows
<1>9. CASE ClearBit(c)
  <2> DEFINE first == IF current_length[c] = 0 THEN Pos(c) ELSE start_idx[c]
  <2>1. /\ pc[c] = "bits" /\ Pos(c) \notin bits_map
        /\ start_idx'[c] = first /\ current_length'[c] = current_length[c] + 1
    BY <1>1, <1>9 DEF TypeOK, ClearBit
  <2>2. ScanSoFar(Pos(c), current_length[c], start_idx[c], page_num[c])
    BY <1>1, <2>1 DEF CallKnows
  <2>3. Pos(c) \in Nat /\ Pos(c) < NumWords * WordBits
    BY <1>1, <2>1, PosInside
  <2>4. current_length[c] < page_num[c]
    BY <2>2 DEF ScanSoFar
  <2>5. CASE current_length[c] + 1 = page_num[c]
    <3>1. pc'[c] = "mark"
      BY <1>1, <1>9, <2>5 DEF TypeOK, ClearBit, Goto
    <3>2. LowestFit(first, page_num[c])
      BY <1>2, <2>1, <2>2, <2>3, <2>5, RunGrows
    <3>3. LowestFit(start_idx[c], page_num[c])'
      BY <1>3, <2>1, <3>2 DEF LowestFit, Fits
    <3> QED
      BY <1>3, <1>4, <3>1, <3>3 DEF CallKnows
  <2>6. CASE current_length[c] + 1 < page_num[c]
    <3>1. NextBit(c)
      BY <1>2, <1>9, <2>6 DEF ClearBit
    <3>2. /\ Pos(c)' = Pos(c) + 1 /\ pc'[c] \in {"scan", "bits"}
          /\ pc'[c] = "scan" => j'[c] = 0
          /\ pc'[c] = "bits" => i'[c] < NumWords
      BY <1>1, <2>1, <3>1, NextPos
    <3>3. ScanSoFar(Pos(c) + 1, current_length[c] + 1, first, page_num[c])
      BY <1>2, <2>1, <2>2, <2>3, <2>6, RunGrows
    <3>4. ScanSoFar(Pos(c), current_length[c], start_idx[c], page_num[c])'
      BY <1>3, <2>1, <3>2, <3>3 DEF ScanSoFar, Fits
    <3> QED
      BY <1>3, <1>4, <3>2, <3>4 DEF CallKnows
  <2> QED
    BY <1>2, <2>4, <2>5, <2>6
<1> QED
  BY <1>5, <1>6, <1>7, <1>8, <1>9

\* What CPU c knows after any other step of its own.
LEMMA OwnOtherStep ==
  ASSUME IInv, NEW c \in Cpu,
         \/ CallAlloc(c) \/ CallFree(c) \/ CallFreeOutside(c) \/ LockAlloc(c) \/ LockFree(c)
         \/ RefuseAlloc(c) \/ FailScan(c) \/ Mark(c) \/ CommitAlloc(c)
         \/ RefuseFree(c) \/ AcceptFree(c) \/ Toggle(c) \/ CommitFree(c)
  PROVE  CallKnows(c)'
<1>1. TypeOK /\ ScanKnows /\ CallKnows(c)
  BY DEF IInv, ScanKnows
<1>2. CASE \/ CallAlloc(c) \/ CallFree(c) \/ CallFreeOutside(c) \/ LockAlloc(c) \/ LockFree(c)
  BY <1>1, <1>2
  DEF TypeOK, CallKnows, CallAlloc, CallFree, CallFreeOutside, LockAlloc, LockFree, Goto,
      shared, locals, AllocPcs
<1>3. CASE \/ RefuseAlloc(c) \/ FailScan(c) \/ CommitAlloc(c) \/ RefuseFree(c)
           \/ CommitFree(c)
  <2>1. Return(c)
    BY <1>3 DEF RefuseAlloc, FailScan, CommitAlloc, RefuseFree, CommitFree
  <2> QED
    BY <1>1, <2>1 DEF TypeOK, CallKnows, Return, AllocPcs
<1>4. CASE Mark(c)
  <2>1. pc[c] = "mark" /\ pc'[c] = "commit_a" /\ UNCHANGED locals
    BY <1>1, <1>4 DEF TypeOK, Mark, Goto
  <2> QED
    BY <1>1, <2>1 DEF CallKnows, LowestFit, Fits, locals, AllocPcs
<1>5. CASE AcceptFree(c) \/ Toggle(c)
  <2>1. /\ pc[c] \in {"check_f", "toggle"} /\ pc'[c] \in {"toggle", "commit_f"}
        /\ UNCHANGED locals
    BY <1>1, <1>5 DEF TypeOK, AcceptFree, Toggle, Goto
  <2>2. addr[c] + page_num[c] <= BitsSize
    BY <1>1, <1>5 DEF TypeOK, CallKnows, AcceptFree, Toggle, Goto
  <2> QED
    BY <1>1, <2>1, <2>2 DEF CallKnows, locals, AllocPcs
<1> QED
  BY <1>2, <1>3, <1>4, <1>5

LEMMA ScanStep ==
  ASSUME IInv, Next
  PROVE  ScanKnows'
<1>1. PICK c \in Cpu :
        \/ CallAlloc(c) \/ CallFree(c) \/ CallFreeOutside(c)
        \/ LockAlloc(c) \/ LockFree(c)
        \/ RefuseAlloc(c) \/ StartScan(c)
        \/ SkipFullWord(c) \/ EnterWord(c) \/ FailScan(c)
        \/ SetBit(c) \/ ClearBit(c) \/ Mark(c) \/ CommitAlloc(c)
        \/ RefuseFree(c) \/ AcceptFree(c) \/ Toggle(c) \/ CommitFree(c)
  BY NextCases
<1>2. CallKnows(c)'
  BY <1>1, OwnScanStep, OwnOtherStep
<1>3. TypeOK /\ LockProtects /\ \A d \in Cpu : CallKnows(d)
  BY DEF IInv, ScanKnows
<1>4. \A d \in Cpu : d # c => bits_map' = bits_map \/ ~ Inside(d)
  <2>1. bits_map' = bits_map \/ Mark(c) \/ Toggle(c)
    BY <1>1
    DEF CallAlloc, CallFree, CallFreeOutside, LockAlloc, LockFree, RefuseAlloc, StartScan,
        SkipFullWord, EnterWord, FailScan, SetBit, ClearBit, CommitAlloc, RefuseFree,
        AcceptFree, CommitFree, shared
  <2>2. Mark(c) \/ Toggle(c) => Inside(c)
    BY DEF Mark, Toggle, Goto, Inside, Waiting
  <2> QED
    BY <1>3, <2>1, <2>2, OthersOutside
<1>5. ASSUME NEW d \in Cpu, d # c
      PROVE  CallKnows(d)'
  <2>1. /\ pc'[d] = pc[d] /\ page_num'[d] = page_num[d] /\ addr'[d] = addr[d]
        /\ i'[d] = i[d] /\ j'[d] = j[d] /\ start_idx'[d] = start_idx[d]
        /\ current_length'[d] = current_length[d]
    BY <1>1, <1>3, <1>5
    DEF TypeOK, CallAlloc, CallFree, CallFreeOutside, LockAlloc, LockFree, RefuseAlloc,
        StartScan, SkipFullWord, EnterWord, FailScan, SetBit, ClearBit, NextBit, Mark,
        CommitAlloc, RefuseFree, AcceptFree, Toggle, CommitFree, Return, Goto, shared, locals
  <2> QED
    BY <1>3, <1>4, <1>5, <2>1, KnowsFrame
<1> QED
  BY <1>2, <1>5 DEF ScanKnows

------------------------------------------------------------------------------
(* The invariant.                                                          *)

LEMMA IInvInit ==
  ASSUME Init
  PROVE  IInv
<1>1. Cardinality(Page \ Reserved) \in Nat /\ Cardinality(Page \ Reserved) <= TotalPages
  BY PagesFinite, FS_Subset, FS_CardinalityType, TotalPagesAssumption DEF Page
<1>2. TypeOK
  BY <1>1, TotalPagesAssumption, ReservedAssumption, UsableInside
  DEF Init, Idle, TypeOK, Page
<1>3. LockProtects
  BY DEF Init, Idle, LockProtects, Inside, Waiting
<1>4. Conservation
  <2>1. \A c \in Cpu : Claim(c) = {}
    BY DEF Init, Idle, Claim
  <2>2. UNION {Claim(c) : c \in Cpu} = {}
    BY <2>1
  <2> QED
    BY <2>1, <2>2 DEF Init, Conservation
<1>5. CountersExact
  BY <1>1, <1>3, TotalPagesAssumption DEF Init, Idle, CountersExact, Inside, Waiting, Page
<1>6. ScanKnows
  BY DEF Init, Idle, ScanKnows, CallKnows, AllocPcs
<1> QED
  BY <1>2, <1>3, <1>4, <1>5, <1>6 DEF IInv

LEMMA IInvStep ==
  ASSUME IInv, [Next]_vars
  PROVE  IInv'
<1>1. CASE Next
  BY <1>1, TypeStep, LockStep, ConservationStep, CountersStep, ScanStep DEF IInv
<1>2. CASE UNCHANGED vars
  <2>1. UNCHANGED <<lock, bits_map, alloc_pages, free_pages, held, pc, page_num, addr,
                    i, j, start_idx, current_length>>
    BY <1>2 DEF vars, shared, locals
  <2>2. TypeOK' /\ LockProtects'
    BY <2>1 DEF IInv, TypeOK, LockProtects, Inside
  <2>3. Conservation' /\ CountersExact'
    BY <2>1 DEF IInv, Conservation, CountersExact, Claim, Inside, Lag
  <2>4. ScanKnows'
    BY <2>1, KnowsFrame DEF IInv, ScanKnows
  <2> QED
    BY <2>2, <2>3, <2>4 DEF IInv
<1> QED
  BY <1>1, <1>2

(* The parts of the invariant hold together in every state that any number *)
(* of CPUs calling alloc_pages and free_pages can reach.                   *)
THEOREM InvariantHolds == Spec => []IInv
<1> QED
  BY IInvInit, IInvStep, PTL DEF Spec

(* The counters never go below zero and no index leaves the bitmap: the    *)
(* subtractions of unsigned counters in alloc_pages and free_pages do not  *)
(* wrap, and the scan never reads past the last whole word.                *)
THEOREM TypeCorrect == Spec => []TypeOK
<1>1. IInv => TypeOK
  BY DEF IInv
<1> QED
  BY <1>1, InvariantHolds, PTL

(* SPIN_LOCK and the lock = 0 of every return path admit one CPU at a time *)
(* to the bitmap and leave the lock free when nobody is inside.            *)
THEOREM LockIsExclusive == Spec => []LockProtects
<1>1. IInv => LockProtects
  BY DEF IInv
<1> QED
  BY <1>1, InvariantHolds, PTL

(* alloc_pages never hands out a page that is reserved, owned, or part of  *)
(* another call, and no page is lost between the bitmap and its owners.    *)
THEOREM NoPageOwnedTwice == Spec => []Conservation
<1>1. IInv => Conservation
  BY DEF IInv
<1> QED
  BY <1>1, InvariantHolds, PTL

(* free_pages counts the clear bits whenever the lock is free, and the two *)
(* counters of memory_management_struct always add up to total_pages.      *)
THEOREM CountersAreExact == Spec => []CountersExact
<1>1. IInv => CountersExact
  BY DEF IInv
<1> QED
  BY <1>1, InvariantHolds, PTL

(* The two nested loops of alloc_pages, word skips included, have at every *)
(* step excluded every run behind them and end on the lowest that fits.    *)
THEOREM ScanIsExact == Spec => []ScanKnows
<1>1. IInv => ScanKnows
  BY DEF IInv
<1> QED
  BY <1>1, InvariantHolds, PTL

==============================================================================
