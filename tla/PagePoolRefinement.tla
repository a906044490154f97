-------------------------- MODULE PagePoolRefinement --------------------------
(***************************************************************************)
(* Proof that PageAllocator implements PagePool: every step of the         *)
(* allocator is a step of the abstract pool or changes nothing the callers *)
(* can see.  A request takes effect when its run is marked or toggled, a   *)
(* refusal when the call returns -1.                                       *)
(***************************************************************************)
EXTENDS PageAllocatorProofs

USE WordBitsAssumption, BitsSizeAssumption, MaxRequestAssumption

------------------------------------------------------------------------------
(* What the mapping shows of a call.                                       *)

AbsCall == [c \in Cpu |-> AbstractCall(c)]

Record(op, p, n) == [op |-> op, page |-> p, n |-> n]

\* The stage of a call, of which the mapping shows only a part.
LEMMA Stages ==
  ASSUME NEW c \in Cpu
  PROVE  /\ pc[c] = "idle" => AbstractCall(c) = Record("idle", 0, page_num[c])
         /\ pc[c] \in AllocPcs \ {"commit_a"} =>
              AbstractCall(c) = Record("take", 0, page_num[c])
         /\ pc[c] = "commit_a" =>
              AbstractCall(c) = Record("took", start_idx[c], page_num[c])
         /\ pc[c] \in FreePcs \ {"commit_f"} =>
              AbstractCall(c) = Record("give", addr[c], page_num[c])
         /\ pc[c] = "commit_f" =>
              AbstractCall(c) = Record("gave", addr[c], page_num[c])
BY DEF AbstractCall, AllocPcs, FreePcs, Record

LEMMA StagesNext ==
  ASSUME NEW c \in Cpu
  PROVE  /\ pc'[c] = "idle" => AbstractCall(c)' = Record("idle", 0, page_num'[c])
         /\ pc'[c] \in AllocPcs \ {"commit_a"} =>
              AbstractCall(c)' = Record("take", 0, page_num'[c])
         /\ pc'[c] = "commit_a" =>
              AbstractCall(c)' = Record("took", start_idx'[c], page_num'[c])
         /\ pc'[c] \in FreePcs \ {"commit_f"} =>
              AbstractCall(c)' = Record("give", addr'[c], page_num'[c])
         /\ pc'[c] = "commit_f" =>
              AbstractCall(c)' = Record("gave", addr'[c], page_num'[c])
BY DEF AbstractCall, AllocPcs, FreePcs, Record

\* A CPU in no call shows nothing of the last one.
LEMMA AbstractIdle ==
  ASSUME ScanKnows, NEW c \in Cpu, pc[c] = "idle"
  PROVE  AbstractCall(c) = Pool!Idle
<1>1. page_num[c] = 0
  BY DEF ScanKnows, CallKnows
<1> QED
  BY <1>1, Stages DEF Record, Pool!Idle

\* A run fits for the pool exactly if it fits for the scan.
LEMMA FitsSame ==
  ASSUME NEW s \in Nat, NEW n \in Nat
  PROVE  Pool!Fits(s, n) <=> Fits(s, n)
<1>1. NumWords * WordBits \in Nat /\ NumWords * WordBits <= BitsSize
  BY UsableInside
<1>2. Pool!Run(s, n) = Run(s, n)
  BY DEF Pool!Run, Run
<1>3. ASSUME s + n <= NumWords * WordBits
      PROVE  Run(s, n) \subseteq Page
  BY <1>1, <1>3 DEF Run, Page
<1> QED
  BY <1>2, <1>3, Zenon DEF Pool!Fits, Fits

\* Only the call of the CPU that takes a step can change.
LEMMA CallBecomes ==
  ASSUME TypeOK, NEW c \in Cpu,
         \/ CallAlloc(c) \/ CallFree(c) \/ CallFreeOutside(c)
         \/ LockAlloc(c) \/ LockFree(c)
         \/ RefuseAlloc(c) \/ StartScan(c)
         \/ SkipFullWord(c) \/ EnterWord(c) \/ FailScan(c)
         \/ SetBit(c) \/ ClearBit(c) \/ Mark(c) \/ CommitAlloc(c)
         \/ RefuseFree(c) \/ AcceptFree(c) \/ Toggle(c) \/ CommitFree(c)
  PROVE  AbsCall' = [AbsCall EXCEPT ![c] = AbstractCall(c)']
<1>1. ASSUME NEW d \in Cpu, d # c
      PROVE  /\ pc'[d] = pc[d] /\ page_num'[d] = page_num[d] /\ addr'[d] = addr[d]
             /\ start_idx'[d] = start_idx[d]
  BY <1>1
  DEF TypeOK, CallAlloc, CallFree, CallFreeOutside, LockAlloc, LockFree, RefuseAlloc,
      StartScan, SkipFullWord, EnterWord, FailScan, SetBit, ClearBit, NextBit, Mark,
      CommitAlloc, RefuseFree, AcceptFree, Toggle, CommitFree, Return, Goto, shared, locals
<1>2. ASSUME NEW d \in Cpu, d # c
      PROVE  AbstractCall(d)' = AbstractCall(d)
  BY <1>1, <1>2 DEF AbstractCall
<1> QED
  BY <1>2 DEF AbsCall

------------------------------------------------------------------------------
(* Each action is a step of the pool or a stutter.                         *)

PoolStep == [Pool!Next]_(Pool!vars)

\* A step that leaves the bitmap, the owned pages and the stage of the call
\* alone is invisible.
LEMMA Stutter ==
  ASSUME NEW c \in Cpu, UNCHANGED <<bits_map, held>>,
         AbsCall' = [AbsCall EXCEPT ![c] = AbstractCall(c)'],
         AbstractCall(c)' = AbstractCall(c)
  PROVE  PoolStep
<1>1. AbsCall' = AbsCall
  BY DEF AbsCall
<1>2. (Page \ bits_map)' = Page \ bits_map
  BY DEF Page
<1> QED
  BY <1>1, <1>2 DEF PoolStep, Pool!vars, AbsCall

LEMMA CallsRefine ==
  ASSUME IInv, NEW c \in Cpu, CallAlloc(c) \/ CallFree(c) \/ CallFreeOutside(c)
  PROVE  Pool!AskTake(c) \/ Pool!AskGive(c) \/ Pool!AskGiveOutside(c)
<1>1. TypeOK /\ ScanKnows
  BY DEF IInv
<1>2. AbsCall' = [AbsCall EXCEPT ![c] = AbstractCall(c)']
  BY <1>1, CallBecomes
<1>3. pc[c] = "idle" /\ AbsCall[c] = Pool!Idle
  BY <1>1, AbstractIdle DEF CallAlloc, CallFree, CallFreeOutside, Goto, AbsCall
<1>4. addr[c] = 0
  BY <1>1, <1>3 DEF ScanKnows, CallKnows
<1>5. bits_map' = bits_map /\ (Page \ bits_map)' = Page \ bits_map
  BY DEF CallAlloc, CallFree, CallFreeOutside, shared, Page
<1>6. CASE CallAlloc(c)
  <2>1. PICK n \in 0 .. MaxRequest : page_num' = [page_num EXCEPT ![c] = n]
    BY <1>6 DEF CallAlloc
  <2>2. pc'[c] = "lock_a" /\ page_num'[c] = n /\ held' = held
    BY <1>1, <1>6, <2>1 DEF TypeOK, CallAlloc, Goto
  <2>3. AbstractCall(c)' = Record("take", 0, n)
    BY <2>2, StagesNext DEF AllocPcs
  <2> QED
    BY <1>2, <1>3, <1>5, <2>2, <2>3 DEF Pool!AskTake, Pool!Set, AbsCall, Record
<1>7. CASE CallFree(c)
  <2>1. PICK p \in Page, n \in 0 .. MaxRequest :
          /\ Run(p, n) \subseteq held
          /\ held' = held \ Run(p, n)
          /\ addr' = [addr EXCEPT ![c] = p]
          /\ page_num' = [page_num EXCEPT ![c] = n]
    BY <1>7 DEF CallFree
  <2>2. pc'[c] = "lock_f" /\ page_num'[c] = n /\ addr'[c] = p
    BY <1>1, <1>7, <2>1 DEF TypeOK, CallFree, Goto
  <2>3. AbstractCall(c)' = Record("give", p, n)
    BY <2>2, StagesNext DEF FreePcs
  <2>4. p \in Pool!Page /\ Pool!Run(p, n) = Run(p, n)
    BY DEF Pool!Page, Pool!Run, Page, Run
  <2> QED
    BY <1>2, <1>3, <1>5, <2>1, <2>3, <2>4 DEF Pool!AskGive, Pool!Set, AbsCall, Record
<1>8. CASE CallFreeOutside(c)
  <2>1. PICK n \in 1 .. MaxRequest : page_num' = [page_num EXCEPT ![c] = n]
    BY <1>8 DEF CallFreeOutside
  <2>2. pc'[c] = "lock_f" /\ page_num'[c] = n /\ addr'[c] = BitsSize /\ held' = held
    BY <1>1, <1>8, <2>1 DEF TypeOK, CallFreeOutside, Goto
  <2>3. AbstractCall(c)' = Record("give", BitsSize, n)
    BY <2>2, StagesNext DEF FreePcs
  <2> QED
    BY <1>2, <1>3, <1>5, <2>2, <2>3 DEF Pool!AskGiveOutside, Pool!Set, AbsCall, Record
<1> QED
  BY <1>6, <1>7, <1>8

\* Steps on the way to a grant, a refusal or a return are invisible.
LEMMA HiddenSteps ==
  ASSUME IInv, NEW c \in Cpu,
         \/ LockAlloc(c) \/ LockFree(c) \/ StartScan(c) \/ SkipFullWord(c)
         \/ EnterWord(c) \/ SetBit(c) \/ ClearBit(c) \/ AcceptFree(c)
  PROVE  PoolStep
<1>1. TypeOK
  BY DEF IInv
<1>2. AbsCall' = [AbsCall EXCEPT ![c] = AbstractCall(c)']
  BY <1>1, CallBecomes
<1>3. UNCHANGED <<bits_map, held, page_num, addr>>
  BY DEF LockAlloc, LockFree, StartScan, SkipFullWord, EnterWord, SetBit, ClearBit,
         NextBit, AcceptFree, shared, locals
<1>4. \/ {pc[c], pc'[c]} \subseteq AllocPcs \ {"commit_a"}
      \/ {pc[c], pc'[c]} \subseteq FreePcs \ {"commit_f"}
  BY <1>1
  DEF TypeOK, LockAlloc, LockFree, StartScan, SkipFullWord, EnterWord, SetBit, ClearBit,
      NextBit, AcceptFree, Goto, AllocPcs, FreePcs
<1>5. AbstractCall(c)' = AbstractCall(c)
  BY <1>3, <1>4, Stages, StagesNext
<1> QED
  BY <1>2, <1>3, <1>5, Stutter

\* A refusal: the request was empty, more pages were asked for than are free,
\* or the scan has looked at every page it can.
LEMMA NothingFits ==
  ASSUME IInv, NEW c \in Cpu, RefuseAlloc(c) \/ FailScan(c)
  PROVE  page_num[c] = 0 \/ \A p \in Nat : ~ Fits(p, page_num[c])
<1>1. TypeOK /\ ScanKnows /\ CountersExact /\ Conservation
  BY DEF IInv
<1>2. page_num[c] \in Nat /\ free_pages \in Nat
  BY <1>1 DEF TypeOK
<1>3. CASE RefuseAlloc(c)
  <2>1. pc[c] = "check_a" /\ (free_pages < page_num[c] \/ page_num[c] = 0)
    BY <1>3 DEF RefuseAlloc
  <2>2. free_pages = Cardinality(Page \ bits_map)
    BY <1>1, <2>1, FreePagesBounded DEF CountersExact, Inside, Waiting, Lag
  <2>3. ASSUME NEW p \in Nat, Fits(p, page_num[c])
        PROVE  page_num[c] <= free_pages
    <3>1. Run(p, page_num[c]) \subseteq Page \ bits_map
      BY <1>2, <2>3, UsableInside DEF Fits, Run, Page
    <3>2. /\ Cardinality(Page \ bits_map) \in Nat
          /\ Cardinality((Page \ bits_map) \ Run(p, page_num[c])) \in Nat
          /\ Cardinality((Page \ bits_map) \ Run(p, page_num[c]))
               = Cardinality(Page \ bits_map) - page_num[c]
      BY <1>2, <3>1, CardinalityWithoutRun
    <3> QED
      BY <1>2, <2>2, <3>2
  <2> QED
    BY <1>2, <2>1, <2>3
<1>4. CASE FailScan(c)
  <2>1. pc[c] = "scan" /\ i[c] = NumWords /\ j[c] = 0
    BY <1>1, <1>4, UsableInside DEF TypeOK, FailScan, ScanKnows, CallKnows
  <2>2. Pos(c) = NumWords * WordBits
    BY <2>1, UsableInside DEF Pos
  <2>3. \A s \in 0 .. NumWords * WordBits - page_num[c] : ~ Fits(s, page_num[c])
    BY <1>1, <2>1, <2>2 DEF ScanKnows, CallKnows, ScanSoFar
  <2> QED
    BY <1>2, <2>3, UsableInside DEF Fits
<1> QED
  BY <1>3, <1>4

\* Returns, granted or refused, leave an idle call.
LEMMA ReturnsIdle ==
  ASSUME TypeOK, NEW c \in Cpu, Return(c)
  PROVE  AbstractCall(c)' = Pool!Idle
<1>1. pc'[c] = "idle" /\ page_num'[c] = 0
  BY DEF TypeOK, Return
<1> QED
  BY <1>1, StagesNext DEF Record, Pool!Idle

LEMMA RefusalsRefine ==
  ASSUME IInv, NEW c \in Cpu, RefuseAlloc(c) \/ FailScan(c) \/ RefuseFree(c)
  PROVE  Pool!RefuseTake(c) \/ Pool!RefuseGive(c)
<1>1. TypeOK
  BY DEF IInv
<1>2. AbsCall' = [AbsCall EXCEPT ![c] = AbstractCall(c)']
  BY <1>1, CallBecomes
<1>3. AbstractCall(c)' = Pool!Idle
  BY <1>1, ReturnsIdle DEF RefuseAlloc, FailScan, RefuseFree
<1>4. held' = held /\ (Page \ bits_map)' = Page \ bits_map
  BY DEF RefuseAlloc, FailScan, RefuseFree, Page
<1>5. CASE RefuseAlloc(c) \/ FailScan(c)
  <2>1. AbsCall[c] = Record("take", 0, page_num[c])
    BY <1>5, Stages DEF RefuseAlloc, FailScan, AllocPcs, AbsCall
  <2>2. page_num[c] \in Nat /\ Pool!Page \subseteq Nat
    BY <1>1 DEF TypeOK, Pool!Page
  <2>3. page_num[c] = 0 \/ \A p \in Pool!Page : ~ Pool!Fits(p, page_num[c])
    BY <1>5, <2>2, NothingFits, FitsSame
  <2>4. AbsCall[c].op = "take" /\ AbsCall[c].n = page_num[c]
    BY <2>1 DEF Record
  <2> QED
    BY <1>2, <1>3, <1>4, <2>3, <2>4 DEF Pool!RefuseTake, AbsCall
<1>6. CASE RefuseFree(c)
  <2>1. AbsCall[c] = Record("give", addr[c], page_num[c])
    BY <1>6, Stages DEF RefuseFree, FreePcs, AbsCall
  <2>2. /\ AbsCall[c].op = "give" /\ AbsCall[c].n = page_num[c]
        /\ AbsCall[c].page = addr[c]
    BY <2>1 DEF Record
  <2> QED
    BY <1>2, <1>3, <1>4, <1>6, <2>2 DEF Pool!RefuseGive, RefuseFree, AbsCall
<1> QED
  BY <1>5, <1>6

\* Marking the run is the grant.
LEMMA MarkRefines ==
  ASSUME IInv, NEW c \in Cpu, Mark(c)
  PROVE  Pool!Take(c)
<1> DEFINE s == start_idx[c]
           n == page_num[c]
<1>1. TypeOK /\ ScanKnows
  BY DEF IInv
<1>2. s \in Nat /\ n \in Nat
  BY <1>1 DEF TypeOK
<1>3. pc[c] = "mark" /\ n > 0 /\ Fits(s, n) /\ \A q \in 0 .. s - 1 : ~ Fits(q, n)
  BY <1>1 DEF Mark, Goto, ScanKnows, CallKnows, LowestFit
<1>4. s \in Pool!Page
  BY <1>2, <1>3, UsableInside DEF Fits, Pool!Page
<1>5. AbsCall[c] = Record("take", 0, n)
  BY <1>3, Stages DEF AllocPcs, AbsCall
<1>6. AbsCall[c].op = "take" /\ AbsCall[c].n = n
  BY <1>5 DEF Record
<1>7. pc'[c] = "commit_a" /\ UNCHANGED <<start_idx, page_num, held>>
  BY <1>1 DEF TypeOK, Mark, Goto, locals
<1>8. AbsCall' = [AbsCall EXCEPT ![c] = Record("took", s, n)]
  BY <1>1, <1>7, StagesNext, CallBecomes
<1>9. (Page \ bits_map)' = (Page \ bits_map) \ Pool!Run(s, n)
  BY DEF Mark, Page, Pool!Run, Run
<1>10. Pool!Fits(s, n) /\ \A q \in 0 .. s - 1 : ~ Pool!Fits(q, n)
  BY <1>2, <1>3, FitsSame
<1> QED
  BY <1>3, <1>4, <1>6, <1>7, <1>8, <1>9, <1>10 DEF Pool!Take, Pool!Set, AbsCall, Record

LEMMA CommitAllocRefines ==
  ASSUME IInv, NEW c \in Cpu, CommitAlloc(c)
  PROVE  Pool!ReturnTake(c)
<1>1. TypeOK
  BY DEF IInv
<1>2. AbsCall' = [AbsCall EXCEPT ![c] = Pool!Idle]
  BY <1>1, CallBecomes, ReturnsIdle DEF CommitAlloc
<1>3. AbsCall[c] = Record("took", start_idx[c], page_num[c])
  BY Stages DEF CommitAlloc, AbsCall
<1>4. /\ AbsCall[c].op = "took" /\ AbsCall[c].page = start_idx[c]
      /\ AbsCall[c].n = page_num[c]
  BY <1>3 DEF Record
<1>5. /\ held' = held \cup Pool!Run(start_idx[c], page_num[c])
      /\ (Page \ bits_map)' = Page \ bits_map
  BY DEF CommitAlloc, Page, Pool!Run, Run
<1> QED
  BY <1>2, <1>4, <1>5 DEF Pool!ReturnTake, AbsCall

\* Toggling the run is the gift: every bit of it was set, so ^= clears it.
LEMMA ToggleRefines ==
  ASSUME IInv, NEW c \in Cpu, Toggle(c)
  PROVE  Pool!Give(c)
<1> DEFINE p == addr[c]
           n == page_num[c]
<1>1. TypeOK /\ ScanKnows /\ Conservation
  BY DEF IInv
<1>2. p \in Nat /\ n \in Nat
  BY <1>1 DEF TypeOK
<1>3. pc[c] = "toggle" /\ p + n <= BitsSize
  BY <1>1 DEF Toggle, Goto, ScanKnows, CallKnows
<1>4. Run(p, n) \subseteq bits_map
  <2>1. CASE p < BitsSize
    BY <1>1, <1>3, <2>1 DEF Conservation, Claim
  <2>2. CASE ~ (p < BitsSize)
    BY <1>2, <1>3, <2>2 DEF Run
  <2> QED
    BY <2>1, <2>2
<1>5. Run(p, n) \subseteq Page
  BY <1>1, <1>4 DEF TypeOK
<1>6. (Page \ bits_map)' = (Page \ bits_map) \cup Pool!Run(p, n)
  <2>1. bits_map' = bits_map \ Run(p, n)
    BY <1>4 DEF Toggle, Xor
  <2>2. Pool!Run(p, n) = Run(p, n) /\ Page' = Page
    BY DEF Pool!Run, Run, Page
  <2> QED
    BY <1>5, <2>1, <2>2
<1>7. AbsCall[c] = Record("give", p, n)
  BY <1>3, Stages DEF FreePcs, AbsCall
<1>8. AbsCall[c].op = "give" /\ AbsCall[c].page = p /\ AbsCall[c].n = n
  BY <1>7 DEF Record
<1>9. pc'[c] = "commit_f" /\ UNCHANGED <<addr, page_num, held>>
  BY <1>1 DEF TypeOK, Toggle, Goto, locals
<1>10. AbsCall' = [AbsCall EXCEPT ![c] = Record("gave", p, n)]
  BY <1>1, <1>9, StagesNext, CallBecomes
<1> QED
  BY <1>3, <1>6, <1>8, <1>9, <1>10 DEF Pool!Give, Pool!Set, AbsCall, Record

LEMMA CommitFreeRefines ==
  ASSUME IInv, NEW c \in Cpu, CommitFree(c)
  PROVE  Pool!ReturnGive(c)
<1>1. TypeOK
  BY DEF IInv
<1>2. AbsCall' = [AbsCall EXCEPT ![c] = Pool!Idle]
  BY <1>1, CallBecomes, ReturnsIdle DEF CommitFree
<1>3. AbsCall[c] = Record("gave", addr[c], page_num[c])
  BY Stages DEF CommitFree, AbsCall
<1>4. AbsCall[c].op = "gave"
  BY <1>3 DEF Record
<1>5. held' = held /\ (Page \ bits_map)' = Page \ bits_map
  BY DEF CommitFree, Page
<1> QED
  BY <1>2, <1>4, <1>5 DEF Pool!ReturnGive, AbsCall

------------------------------------------------------------------------------
(* The refinement.                                                         *)

LEMMA InitRefines ==
  ASSUME Init
  PROVE  Pool!Init
<1>1. ScanKnows
  BY IInvInit DEF IInv
<1>2. \A c \in Cpu : AbstractCall(c) = Pool!Idle
  BY <1>1, AbstractIdle DEF Init, Idle
<1> QED
  BY <1>2 DEF Init, Pool!Init, Pool!Page, Page

LEMMA StepRefines ==
  ASSUME IInv, [Next]_vars
  PROVE  PoolStep
<1>1. ASSUME Next
      PROVE  PoolStep
  <2>1. PICK c \in Cpu :
          \/ CallAlloc(c) \/ CallFree(c) \/ CallFreeOutside(c)
          \/ LockAlloc(c) \/ LockFree(c)
          \/ RefuseAlloc(c) \/ StartScan(c)
          \/ SkipFullWord(c) \/ EnterWord(c) \/ FailScan(c)
          \/ SetBit(c) \/ ClearBit(c) \/ Mark(c) \/ CommitAlloc(c)
          \/ RefuseFree(c) \/ AcceptFree(c) \/ Toggle(c) \/ CommitFree(c)
    BY <1>1, NextCases
  <2>2. CASE CallAlloc(c) \/ CallFree(c) \/ CallFreeOutside(c)
    BY <2>2, CallsRefine DEF PoolStep, Pool!Next
  <2>3. CASE \/ LockAlloc(c) \/ LockFree(c) \/ StartScan(c) \/ SkipFullWord(c)
             \/ EnterWord(c) \/ SetBit(c) \/ ClearBit(c) \/ AcceptFree(c)
    BY <2>3, HiddenSteps
  <2>4. CASE RefuseAlloc(c) \/ FailScan(c) \/ RefuseFree(c)
    BY <2>4, RefusalsRefine DEF PoolStep, Pool!Next
  <2>5. CASE Mark(c) \/ CommitAlloc(c) \/ Toggle(c) \/ CommitFree(c)
    BY <2>5, MarkRefines, CommitAllocRefines, ToggleRefines, CommitFreeRefines
    DEF PoolStep, Pool!Next
  <2> QED
    BY <2>1, <2>2, <2>3, <2>4, <2>5
<1>2. CASE UNCHANGED vars
  <2>1. UNCHANGED <<bits_map, held, pc, page_num, addr, start_idx>>
    BY <1>2 DEF vars, shared, locals
  <2>2. AbsCall' = AbsCall /\ (Page \ bits_map)' = Page \ bits_map
    BY <2>1 DEF AbsCall, AbstractCall, Page
  <2> QED
    BY <2>1, <2>2 DEF PoolStep, Pool!vars, AbsCall
<1> QED
  BY <1>1, <1>2

(* alloc_pages and free_pages, lock, scan and all, are the atomic first-fit *)
(* pool to their callers: a grant is the lowest run that fits when it takes *)
(* effect, and -1 is returned only when none does.                          *)
THEOREM Refinement == Spec => ImplementsPool
<1>1. Init => Pool!Init
  BY InitRefines
<1>2. IInv /\ [Next]_vars => [Pool!Next]_(Pool!vars)
  BY StepRefines DEF PoolStep
<1> QED
  BY <1>1, <1>2, InvariantHolds, PTL DEF Spec, ImplementsPool, Pool!Spec

==============================================================================
