----------------------------- MODULE AddressSpace -----------------------------
(***************************************************************************)
(* What map_pages and unmap_pages of memory.c promise their caller: an     *)
(* address space, a function from the virtual pages that are mapped to     *)
(* what they lead to, in which a call changes the pages of its range and   *)
(* no others.  Nothing is promised of where an access to a page that is    *)
(* not mapped ends, but for pages that are being unmapped: they come to    *)
(* lead nowhere, one after the other, all of them before tables are given  *)
(* back.  There are no tables, frames for tables, recursive window or      *)
(* caches here; VirtualMemory is shown to implement this specification.    *)
(***************************************************************************)
EXTENDS Integers

CONSTANTS
  Page,      \* the virtual pages
  Target,    \* what they can be mapped to: page numbers of memory or a device
  None,      \* what an unmapped page leads to, no Target
  MaxPages   \* bound: pages of one call

VARIABLES
  target,    \* what each virtual page is mapped to, or None
  leads,     \* where an access to each virtual page may end
  call       \* the call under way: its range, target, and the pages done

vars == <<target, leads, call>>

Call(op, v, m, t, k) == [op |-> op, page |-> v, n |-> m, target |-> t, done |-> k]
Idle == Call("idle", 0, 0, 0, 0)
Dead == Call("dead", 0, 0, 0, 0)

Range(v, m) == v .. v + m - 1

Mapped == {v \in Page : target[v] # None}
Going  == IF call.op = "unmap" THEN Range(call.page, call.n) ELSE {}

\* Accesses to the pages in S end where they did.
Firm(S) == \A v \in S : leads'[v] = leads[v]

Init ==
  /\ target = [v \in Page |-> None]
  /\ leads = [v \in Page |-> {None}]
  /\ call = Idle

------------------------------------------------------------------------------
(* map_pages: the pages of the range appear one by one, in order, each     *)
(* with its own target at once, and the call ends with the last.           *)

AskMap ==
  /\ call = Idle
  /\ \E v \in Page, m \in 1 .. MaxPages, t \in Target :
       /\ Range(v, m) \subseteq Page \ Mapped
       /\ call' = Call("map", v, m, t, 0)
  /\ UNCHANGED target /\ Firm(Mapped)

Appear ==
  /\ call.op = "map" /\ call.done < call.n
  /\ call' = IF call.done + 1 < call.n THEN [call EXCEPT !.done = @ + 1] ELSE Idle
  /\ LET v == call.page + call.done IN
       /\ target' = [target EXCEPT ![v] = call.target + call.done]
       /\ leads'[v] = {target'[v]}
  /\ Firm(Mapped)

------------------------------------------------------------------------------
(* unmap_pages: the pages vanish in any order and none comes back, and the *)
(* tables that only they needed can go when all of them are gone.          *)

AskUnmap ==
  /\ call = Idle
  /\ \E v \in Page, m \in 1 .. MaxPages :
       /\ Range(v, m) \subseteq Mapped
       /\ call' = Call("unmap", v, m, 0, 0)
       /\ target' = [u \in Page |-> IF u \in Range(v, m) THEN None ELSE target[u]]
  /\ Firm(Mapped)

Vanish ==
  /\ call.op = "unmap"
  /\ UNCHANGED <<target, call>> /\ Firm(Mapped)
  /\ \A v \in Going : leads'[v] \in {leads[v], {None}}

StartPruning ==
  /\ call.op = "unmap" /\ call' = [call EXCEPT !.op = "prune"]
  /\ \A v \in Going : leads'[v] = {None}
  /\ UNCHANGED target /\ Firm(Mapped)

AnswerUnmap ==
  /\ call.op = "prune" /\ call' = Idle
  /\ UNCHANGED target /\ Firm(Mapped)

------------------------------------------------------------------------------

\* A call may never return; it has then still left the other pages alone.
Die ==
  /\ call.op \in {"map", "unmap", "prune"} /\ call' = Dead
  /\ target' = [v \in Page |-> IF v \in Range(call.page, call.n) THEN None ELSE target[v]]
  /\ Firm(Mapped)

\* Accesses to other pages may end elsewhere at any time.
Wander == UNCHANGED <<target, call>> /\ Firm(Mapped \cup Going)

Next ==
  \/ AskMap \/ Appear \/ AskUnmap \/ Vanish \/ StartPruning \/ AnswerUnmap \/ Die \/ Wander

Spec == Init /\ [][Next]_vars

==============================================================================
