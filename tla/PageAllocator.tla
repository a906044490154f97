---------------------------- MODULE PageAllocator ----------------------------
(***************************************************************************)
(* The physical page allocator of kernel/memory.c: alloc_pages and         *)
(* free_pages, called by several CPUs, over the bitmap, the counters and   *)
(* the spin lock of memory_management_struct.                              *)
(*                                                                         *)
(* A bit of bits_map is a page; the bitmap is the SET of pages whose bit   *)
(* is set, so |= is union and ^= is the symmetric difference.  The scan    *)
(* keeps the code's two loop indices, words and bits, because what it does *)
(* at a word boundary (a full word is skipped whole, the last partial word *)
(* is never reached) is where it can go wrong.  Every statement between    *)
(* two shared accesses that another CPU could observe is a step.           *)
(*                                                                         *)
(* `held' is not in the code: it is what the callers own, pages returned   *)
(* by alloc_pages and not yet passed to free_pages.                        *)
(***************************************************************************)
EXTENDS Integers, FiniteSets

CONSTANTS
  Cpu,         \* the CPUs that call the allocator
  WordBits,    \* bits of an unsigned long of the bitmap (64 in the code)
  BitsSize,    \* bits_size: pages up to the end of the last memory region
  Reserved,    \* pages whose bit memory_init leaves set
  TotalPages,  \* total_pages: pages of all the memory regions
  MaxRequest   \* bound: the largest page_num of one call

ASSUME CpuAssumption == IsFiniteSet(Cpu)
ASSUME WordBitsAssumption == WordBits \in Nat \ {0}
ASSUME BitsSizeAssumption == BitsSize \in Nat
ASSUME ReservedAssumption == Reserved \subseteq 0 .. BitsSize - 1
\* memory_init counts every page it clears in total_pages.
ASSUME TotalPagesAssumption ==
  /\ TotalPages \in Nat
  /\ TotalPages >= Cardinality((0 .. BitsSize - 1) \ Reserved)
ASSUME MaxRequestAssumption == MaxRequest \in Nat

VARIABLES
  lock,            \* memory_management_struct.lock
  bits_map,        \* the pages whose bit is set
  alloc_pages,     \* memory_management_struct.alloc_pages
  free_pages,      \* memory_management_struct.free_pages
  held,            \* ghost: the pages the callers own
  pc,              \* where each CPU is in alloc_pages or free_pages
  page_num,        \* argument of the call each CPU is in
  addr,            \* argument of free_pages, as a page number
  i, j,            \* loop indices of the scan: word and bit
  start_idx,       \* first page of the run being measured
  current_length   \* its length so far

shared == <<lock, bits_map, alloc_pages, free_pages>>
locals == <<page_num, addr, i, j, start_idx, current_length>>
vars   == <<shared, held, pc, locals>>

------------------------------------------------------------------------------
(* The bitmap.                                                             *)

Page == 0 .. BitsSize - 1

\* The loop bound bits_size / 64: a last, partial word is not counted.
NumWords == BitsSize \div WordBits

\* The pages of bitmap word w.
Word(w) == w * WordBits .. w * WordBits + WordBits - 1

\* The n pages from page s on.
Run(s, n) == s .. s + n - 1

\* bits_map ^= S, one bit at a time.
Xor(S) == (bits_map \ S) \cup (S \ bits_map)

Idle == /\ pc = [c \in Cpu |-> "idle"]
        /\ page_num = [c \in Cpu |-> 0]
        /\ addr = [c \in Cpu |-> 0]
        /\ i = [c \in Cpu |-> 0]
        /\ j = [c \in Cpu |-> 0]
        /\ start_idx = [c \in Cpu |-> 0]
        /\ current_length = [c \in Cpu |-> 0]

\* What memory_init leaves behind (module MemoryInit).
Init ==
  /\ lock = 0
  /\ bits_map = Reserved
  /\ free_pages = Cardinality(Page \ Reserved)
  /\ alloc_pages = TotalPages - free_pages
  /\ held = {}
  /\ Idle

Goto(c, from, to) == pc[c] = from /\ pc' = [pc EXCEPT ![c] = to]

\* Locals die with the call that owns them.
Return(c) ==
  /\ lock' = 0
  /\ pc' = [pc EXCEPT ![c] = "idle"]
  /\ page_num' = [page_num EXCEPT ![c] = 0]
  /\ addr' = [addr EXCEPT ![c] = 0]
  /\ i' = [i EXCEPT ![c] = 0]
  /\ j' = [j EXCEPT ![c] = 0]
  /\ start_idx' = [start_idx EXCEPT ![c] = 0]
  /\ current_length' = [current_length EXCEPT ![c] = 0]

------------------------------------------------------------------------------
(* Calls.  A caller frees only pages it owns, or, as unmap_pages does when *)
(* the page table entry it reads keeps its NX bit, names an address beyond *)
(* the end of memory; every such address is treated as page BitsSize is.   *)

CallAlloc(c) ==
  /\ Goto(c, "idle", "lock_a")
  /\ \E n \in 0 .. MaxRequest : page_num' = [page_num EXCEPT ![c] = n]
  /\ UNCHANGED <<shared, held, addr, i, j, start_idx, current_length>>

CallFree(c) ==
  /\ Goto(c, "idle", "lock_f")
  /\ \E p \in Page, n \in 0 .. MaxRequest :
       /\ Run(p, n) \subseteq held
       /\ held' = held \ Run(p, n)
       /\ addr' = [addr EXCEPT ![c] = p]
       /\ page_num' = [page_num EXCEPT ![c] = n]
  /\ UNCHANGED <<shared, i, j, start_idx, current_length>>

CallFreeOutside(c) ==
  /\ Goto(c, "idle", "lock_f")
  /\ addr' = [addr EXCEPT ![c] = BitsSize]
  /\ \E n \in 1 .. MaxRequest : page_num' = [page_num EXCEPT ![c] = n]
  /\ UNCHANGED <<shared, held, i, j, start_idx, current_length>>

\* MUTANT of SpinLock: the exchange is not conditional.
SpinLockUnconditional == lock' = 1

\* SPIN_LOCK: lock cmpxchg, retried until it finds 0.
SpinLock ==
  /\ lock = 0
  /\ lock' = 1

LockAlloc(c) ==
  /\ Goto(c, "lock_a", "check_a")
  /\ SpinLock
  /\ UNCHANGED <<bits_map, alloc_pages, free_pages, held, locals>>

LockFree(c) ==
  /\ Goto(c, "lock_f", "check_f")
  /\ SpinLock
  /\ UNCHANGED <<bits_map, alloc_pages, free_pages, held, locals>>

------------------------------------------------------------------------------
(* alloc_pages, with the lock held.                                        *)

RefuseAlloc(c) ==
  /\ pc[c] = "check_a"
  /\ free_pages < page_num[c] \/ page_num[c] = 0
  /\ Return(c)
  /\ UNCHANGED <<bits_map, alloc_pages, free_pages, held>>

StartScan(c) ==
  /\ Goto(c, "check_a", "scan")
  /\ ~ (free_pages < page_num[c] \/ page_num[c] = 0)
  /\ UNCHANGED <<shared, held, locals>>

\* MUTANT of SkipFullWord: `continue' that forgets the run in progress.
SkipFullWordKeepingRun(c) ==
  /\ pc[c] = "scan"
  /\ i[c] < NumWords
  /\ Word(i[c]) \subseteq bits_map
  /\ i' = [i EXCEPT ![c] = @ + 1]
  /\ UNCHANGED <<shared, held, pc, page_num, addr, j, start_idx, current_length>>

\* MUTANT of SkipFullWord: the word index is not advanced.
SkipFullWordInPlace(c) ==
  /\ pc[c] = "scan"
  /\ i[c] < NumWords
  /\ Word(i[c]) \subseteq bits_map
  /\ current_length' = [current_length EXCEPT ![c] = 0]
  /\ UNCHANGED <<shared, held, pc, page_num, addr, i, j, start_idx>>

\* A word of all ones is passed over whole.
SkipFullWord(c) ==
  /\ pc[c] = "scan"
  /\ i[c] < NumWords
  /\ Word(i[c]) \subseteq bits_map
  /\ i' = [i EXCEPT ![c] = @ + 1]
  /\ current_length' = [current_length EXCEPT ![c] = 0]
  /\ UNCHANGED <<shared, held, pc, page_num, addr, j, start_idx>>

EnterWord(c) ==
  /\ Goto(c, "scan", "bits")
  /\ i[c] < NumWords
  /\ ~ (Word(i[c]) \subseteq bits_map)
  /\ UNCHANGED <<shared, held, locals>>

\* No word is left: return -1.
FailScan(c) ==
  /\ pc[c] = "scan"
  /\ ~ (i[c] < NumWords)
  /\ Return(c)
  /\ UNCHANGED <<bits_map, alloc_pages, free_pages, held>>

\* MUTANT of NextBit: the bit loop runs to j <= 64.
NextBitTooFar(c) ==
  IF j[c] < WordBits
    THEN /\ j' = [j EXCEPT ![c] = @ + 1]
         /\ UNCHANGED <<pc, i>>
    ELSE /\ Goto(c, "bits", "scan")
         /\ i' = [i EXCEPT ![c] = @ + 1]
         /\ j' = [j EXCEPT ![c] = 0]

\* for (j = 0; j < 64; j++), and then the next word.
NextBit(c) ==
  IF j[c] + 1 < WordBits
    THEN /\ j' = [j EXCEPT ![c] = @ + 1]
         /\ UNCHANGED <<pc, i>>
    ELSE /\ Goto(c, "bits", "scan")
         /\ i' = [i EXCEPT ![c] = @ + 1]
         /\ j' = [j EXCEPT ![c] = 0]

\* The page the scan looks at next.
Pos(c) == i[c] * WordBits + j[c]

SetBit(c) ==
  /\ pc[c] = "bits"
  /\ Pos(c) \in bits_map
  /\ current_length' = [current_length EXCEPT ![c] = 0]
  /\ NextBit(c)
  /\ UNCHANGED <<shared, held, page_num, addr, start_idx>>

\* A clear bit starts a run or extends one; long enough, the scan ends.
ClearBit(c) ==
  /\ pc[c] = "bits"
  /\ Pos(c) \notin bits_map
  /\ start_idx' = [start_idx EXCEPT ![c] = IF current_length[c] = 0 THEN Pos(c) ELSE @]
  /\ current_length' = [current_length EXCEPT ![c] = @ + 1]
  /\ IF current_length[c] + 1 = page_num[c]
       THEN Goto(c, "bits", "mark") /\ UNCHANGED <<i, j>>
       ELSE NextBit(c)
  /\ UNCHANGED <<shared, held, page_num, addr>>

\* MUTANT of Mark: y < page_num - 1.
MarkOneShort(c) ==
  /\ Goto(c, "mark", "commit_a")
  /\ bits_map' = bits_map \cup Run(start_idx[c], page_num[c] - 1)
  /\ UNCHANGED <<lock, alloc_pages, free_pages, held, locals>>

Mark(c) ==
  /\ Goto(c, "mark", "commit_a")
  /\ bits_map' = bits_map \cup Run(start_idx[c], page_num[c])
  /\ UNCHANGED <<lock, alloc_pages, free_pages, held, locals>>

CommitAlloc(c) ==
  /\ pc[c] = "commit_a"
  /\ alloc_pages' = alloc_pages + page_num[c]
  /\ free_pages' = free_pages - page_num[c]
  /\ held' = held \cup Run(start_idx[c], page_num[c])
  /\ Return(c)
  /\ UNCHANGED bits_map

------------------------------------------------------------------------------
(* free_pages, with the lock held.                                         *)

RefuseFree(c) ==
  /\ pc[c] = "check_f"
  /\ addr[c] + page_num[c] > BitsSize
  /\ Return(c)
  /\ UNCHANGED <<bits_map, alloc_pages, free_pages, held>>

AcceptFree(c) ==
  /\ Goto(c, "check_f", "toggle")
  /\ ~ (addr[c] + page_num[c] > BitsSize)
  /\ UNCHANGED <<shared, held, locals>>

Toggle(c) ==
  /\ Goto(c, "toggle", "commit_f")
  /\ bits_map' = Xor(Run(addr[c], page_num[c]))
  /\ UNCHANGED <<lock, alloc_pages, free_pages, held, locals>>

\* MUTANT of CommitFree: one counter is forgotten.
CommitFreeOneCounter(c) ==
  /\ pc[c] = "commit_f"
  /\ alloc_pages' = alloc_pages - page_num[c]
  /\ Return(c)
  /\ UNCHANGED <<bits_map, free_pages, held>>

CommitFree(c) ==
  /\ pc[c] = "commit_f"
  /\ alloc_pages' = alloc_pages - page_num[c]
  /\ free_pages' = free_pages + page_num[c]
  /\ Return(c)
  /\ UNCHANGED <<bits_map, held>>

------------------------------------------------------------------------------

\* A step of the call CPU c is in, once it holds the lock.
Critical(c) ==
  \/ RefuseAlloc(c) \/ StartScan(c)
  \/ SkipFullWord(c) \/ EnterWord(c) \/ FailScan(c)
  \/ SetBit(c) \/ ClearBit(c) \/ Mark(c) \/ CommitAlloc(c)
  \/ RefuseFree(c) \/ AcceptFree(c) \/ Toggle(c) \/ CommitFree(c)

Enter(c) == LockAlloc(c) \/ LockFree(c)

Next == \E c \in Cpu :
  CallAlloc(c) \/ CallFree(c) \/ CallFreeOutside(c) \/ Enter(c) \/ Critical(c)

Spec == Init /\ [][Next]_vars

(* A CPU inside a call keeps executing: nothing in the kernel preempts it. *)
(* A call is made when some initialisation routine makes it, so no         *)
(* fairness is assumed of the calls; and SPIN_LOCK is not a queue, so a    *)
(* spinning CPU is promised nothing while others keep taking the lock.     *)
Fairness == \A c \in Cpu : WF_vars(Critical(c)) /\ WF_vars(Enter(c))

FairSpec == Spec /\ Fairness

------------------------------------------------------------------------------
(* Properties.                                                             *)

AllocPcs  == {"lock_a", "check_a", "scan", "bits", "mark", "commit_a"}
FreePcs   == {"lock_f", "check_f", "toggle", "commit_f"}
Waiting   == {"idle", "lock_a", "lock_f"}

\* CPU c is between SPIN_LOCK and lock = 0.
Inside(c) == pc[c] \notin Waiting

TypeOK ==
  /\ lock \in {0, 1}
  /\ bits_map \subseteq Page
  /\ alloc_pages \in Nat
  /\ free_pages \in Nat
  /\ held \subseteq Page
  /\ pc \in [Cpu -> {"idle"} \cup AllocPcs \cup FreePcs]
  /\ page_num \in [Cpu -> 0 .. MaxRequest]
  /\ addr \in [Cpu -> 0 .. BitsSize]
  /\ i \in [Cpu -> 0 .. NumWords]
  /\ j \in [Cpu -> 0 .. WordBits - 1]
  /\ start_idx \in [Cpu -> 0 .. BitsSize]
  /\ current_length \in [Cpu -> 0 .. MaxRequest]

(* The lock byte is 1 exactly while one CPU is between its cmpxchg and its *)
(* lock = 0, on every return path: no path leaves without releasing it.    *)
LockProtects ==
  /\ \A c, d \in Cpu : Inside(c) /\ Inside(d) => c = d
  /\ lock = 1 <=> \E c \in Cpu : Inside(c)

\* Pages whose bit a call in progress has set, or not yet cleared.
Claim(c) ==
  IF pc[c] = "commit_a" THEN Run(start_idx[c], page_num[c])
  ELSE IF pc[c] \in {"lock_f", "check_f", "toggle"} /\ addr[c] < BitsSize
         THEN Run(addr[c], page_num[c])
  ELSE {}

(* No page is handed out twice: the reserved pages, the pages the callers  *)
(* own and those of the calls in flight share no page, and together they   *)
(* are exactly the pages whose bit is set, so no page is lost either.      *)
Conservation ==
  /\ bits_map = Reserved \cup held \cup UNION {Claim(c) : c \in Cpu}
  /\ held \cap Reserved = {}
  /\ \A c \in Cpu : Claim(c) \cap (held \cup Reserved) = {}
  /\ \A c, d \in Cpu : c # d => Claim(c) \cap Claim(d) = {}

\* How far the counters lag behind the bitmap while CPU c is inside.
Lag(c) == CASE pc[c] = "commit_a" -> page_num[c]
            [] pc[c] = "commit_f" -> 0 - page_num[c]
            [] OTHER -> 0

(* Whenever the lock is free, free_pages is the number of clear bits and   *)
(* the two counters add up to total_pages; inside a critical section they  *)
(* lag by the run whose bits were just changed and by nothing else.        *)
CountersExact ==
  /\ alloc_pages + free_pages = TotalPages
  /\ lock = 0 => free_pages = Cardinality(Page \ bits_map)
  /\ \A c \in Cpu :
       Inside(c) => free_pages = Cardinality(Page \ bits_map) + Lag(c)

\* A run of n clear bits starts at page s, in the words the scan reads.
Fits(s, n) ==
  /\ s + n <= NumWords * WordBits
  /\ Run(s, n) \cap bits_map = {}

\* What a scan for n pages has established when it reaches page k: the pages
\* just before k are a clear run of len pages that starts at page start and
\* cannot be extended downwards, and no run long enough lies wholly before k.
ScanSoFar(k, len, start, n) ==
  /\ len < n
  /\ len <= k
  /\ len > 0 => start = k - len
  /\ Run(k - len, len) \cap bits_map = {}
  /\ len = k \/ k - len - 1 \in bits_map
  /\ \A s \in 0 .. k - n : ~ Fits(s, n)

\* The run of n pages at start fits, and none below it does.
LowestFit(start, n) ==
  /\ n > 0
  /\ Fits(start, n)
  /\ \A s \in 0 .. start - 1 : ~ Fits(s, n)

\* What the call CPU c is in can rely on.
CallKnows(c) ==
  /\ pc[c] \in {"scan", "bits"} =>
       ScanSoFar(Pos(c), current_length[c], start_idx[c], page_num[c])
  /\ pc[c] = "scan" => j[c] = 0
  /\ pc[c] = "bits" => i[c] < NumWords
  /\ pc[c] = "mark" => LowestFit(start_idx[c], page_num[c])
  /\ pc[c] = "commit_a" =>
       page_num[c] > 0 /\ start_idx[c] + page_num[c] <= NumWords * WordBits
  /\ pc[c] \notin {"scan", "bits", "mark", "commit_a"} =>
       i[c] = 0 /\ j[c] = 0 /\ start_idx[c] = 0 /\ current_length[c] = 0
  /\ pc[c] \in {"toggle", "commit_f"} => addr[c] + page_num[c] <= BitsSize
  /\ pc[c] = "idle" => page_num[c] = 0 /\ addr[c] = 0
  /\ pc[c] \in AllocPcs => addr[c] = 0

(* The scan is exact: it knows about the pages behind it what ScanSoFar    *)
(* says, whatever words it skipped whole and wherever a word ended, and    *)
(* stops only at the lowest run that fits.  A call that is not scanning    *)
(* carries nothing over from an earlier one, and a free that has passed    *)
(* its check stays inside the memory.                                      *)
ScanKnows == \A c \in Cpu : CallKnows(c)

(* Every call that got the lock returns: the scan ends, on every bitmap.   *)
CallEnds == \A c \in Cpu : Inside(c) ~> pc[c] = "idle"

------------------------------------------------------------------------------
(* The allocator implements the abstract pool: each call takes effect at   *)
(* one instant, an alloc_pages when it marks its run, a free_pages when it *)
(* toggles it, a refusal when it returns.                                  *)

AbstractCall(c) ==
  LET Stage(op, p) == [op |-> op, page |-> p, n |-> page_num[c]]
  IN  CASE pc[c] = "idle"       -> Stage("idle", 0)
        [] pc[c] = "commit_a"   -> Stage("took", start_idx[c])
        [] pc[c] = "commit_f"   -> Stage("gave", addr[c])
        [] pc[c] \in AllocPcs \ {"commit_a"} -> Stage("take", 0)
        [] pc[c] \in FreePcs \ {"commit_f"}  -> Stage("give", addr[c])

Pool == INSTANCE PagePool WITH
  Client <- Cpu, Size <- BitsSize, Usable <- NumWords * WordBits,
  avail <- Page \ bits_map, call <- [c \in Cpu |-> AbstractCall(c)]

(* Callers see an atomic first-fit pool: a granted run is the lowest that  *)
(* fits at the instant of the grant, and -1 means that none fitted.        *)
ImplementsPool == Pool!Spec

(* What the comment at the last return of alloc_pages says: no run of free *)
(* pages is long enough.                                                   *)
FailureMeansNoRun ==
  [][\A c \in Cpu : FailScan(c) =>
        \A s \in 0 .. BitsSize - page_num[c] :
          Run(s, page_num[c]) \cap bits_map # {}]_vars

==============================================================================
