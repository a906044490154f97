------------------------------ MODULE PagePool ------------------------------
(***************************************************************************)
(* What the physical page allocator of memory.c promises its callers: a    *)
(* pool of pages from which a client takes contiguous runs, first fit, and *)
(* gives them back, each request taking effect at one instant between its  *)
(* call and its return.  There are no locks, bitmaps, words or counters    *)
(* here; PageAllocator is shown to implement this specification.           *)
(***************************************************************************)
EXTENDS Integers

CONSTANTS
  Client,      \* the callers, CPUs of the machine
  Size,        \* the pool's pages are numbered 0 .. Size-1
  Usable,      \* pages from Usable on are never handed out
  Reserved,    \* pages that never enter the pool
  MaxRequest   \* bound: the largest run one request asks for

VARIABLES
  avail,       \* the pages of the pool nobody owns
  held,        \* the pages the clients own
  call         \* each client's request and how far it has got

vars == <<avail, held, call>>

Page == 0 .. Size - 1

\* The n pages that start at page s.
Run(s, n) == s .. s + n - 1

\* A run of n free pages starts at page s.
Fits(s, n) == s + n <= Usable /\ Run(s, n) \subseteq avail

Idle == [op |-> "idle", page |-> 0, n |-> 0]

Pending == {"take", "took", "give", "gave"}

TypeOK ==
  /\ avail \subseteq Page
  /\ held \subseteq Page
  /\ call \in [Client ->
        {Idle} \cup [op : Pending, page : 0 .. Size, n : 0 .. MaxRequest]]

Init ==
  /\ avail = Page \ Reserved
  /\ held = {}
  /\ call = [c \in Client |-> Idle]

Set(c, op, p, n) == call' = [call EXCEPT ![c] = [op |-> op, page |-> p, n |-> n]]

------------------------------------------------------------------------------
(* A client asks for n pages; the request is granted or refused.           *)

AskTake(c) ==
  /\ call[c] = Idle
  /\ \E n \in 0 .. MaxRequest : Set(c, "take", 0, n)
  /\ UNCHANGED <<avail, held>>

\* Granted: the lowest run that fits leaves the pool.
Take(c) ==
  /\ call[c].op = "take"
  /\ call[c].n > 0
  /\ \E p \in Page :
       /\ Fits(p, call[c].n)
       /\ \A q \in 0 .. p - 1 : ~ Fits(q, call[c].n)
       /\ avail' = avail \ Run(p, call[c].n)
       /\ Set(c, "took", p, call[c].n)
  /\ UNCHANGED held

\* Refused: only an empty request, or one that nothing in the pool fits.
RefuseTake(c) ==
  /\ call[c].op = "take"
  /\ call[c].n = 0 \/ \A p \in Page : ~ Fits(p, call[c].n)
  /\ call' = [call EXCEPT ![c] = Idle]
  /\ UNCHANGED <<avail, held>>

\* The call returns and the client owns the run.
ReturnTake(c) ==
  /\ call[c].op = "took"
  /\ held' = held \cup Run(call[c].page, call[c].n)
  /\ call' = [call EXCEPT ![c] = Idle]
  /\ UNCHANGED avail

------------------------------------------------------------------------------
(* A client gives a run back, or names a run that leaves the memory.       *)

AskGive(c) ==
  /\ call[c] = Idle
  /\ \E p \in Page, n \in 0 .. MaxRequest :
       /\ Run(p, n) \subseteq held
       /\ held' = held \ Run(p, n)
       /\ Set(c, "give", p, n)
  /\ UNCHANGED avail

AskGiveOutside(c) ==
  /\ call[c] = Idle
  /\ \E n \in 1 .. MaxRequest : Set(c, "give", Size, n)
  /\ UNCHANGED <<avail, held>>

Give(c) ==
  /\ call[c].op = "give"
  /\ call[c].page + call[c].n <= Size
  /\ avail' = avail \cup Run(call[c].page, call[c].n)
  /\ Set(c, "gave", call[c].page, call[c].n)
  /\ UNCHANGED held

RefuseGive(c) ==
  /\ call[c].op = "give"
  /\ call[c].page + call[c].n > Size
  /\ call' = [call EXCEPT ![c] = Idle]
  /\ UNCHANGED <<avail, held>>

ReturnGive(c) ==
  /\ call[c].op = "gave"
  /\ call' = [call EXCEPT ![c] = Idle]
  /\ UNCHANGED <<avail, held>>

------------------------------------------------------------------------------

Next == \E c \in Client :
  \/ AskTake(c) \/ Take(c) \/ RefuseTake(c) \/ ReturnTake(c)
  \/ AskGive(c) \/ AskGiveOutside(c) \/ Give(c) \/ RefuseGive(c) \/ ReturnGive(c)

Spec == Init /\ [][Next]_vars

==============================================================================
