------------------------------ MODULE Interrupts ------------------------------
(***************************************************************************)
(* Interrupts and exceptions: the gates of idt_init (kernel/idt.c), the    *)
(* entry code of head.S, the handlers of interrupt.c, the routing that     *)
(* ioapic_init and apic_init set up, and what all of them share: the       *)
(* console lock, one interrupt stack per CPU (IST1) and one local APIC.    *)
(*                                                                         *)
(* Every gate names IST1, so each delivery starts at the top of the same   *)
(* stack and overwrites the frame that is there.  A CPU is a stack of      *)
(* activities (the kernel's own code, then the handlers that interrupt     *)
(* one another), each of which runs a short program of the steps that      *)
(* other activities can see.                                               *)
(*                                                                         *)
(* External are the CPU (what a delivery pushes and masks), the local APIC *)
(* (request and in-service bits), the I/O APIC (an edge on a masked pin is *)
(* lost) and the keyboard controller (no new edge before its buffer is     *)
(* read).  A non-maskable interrupt has no source: apic_init masks LINT1.  *)
(***************************************************************************)
EXTENDS Integers, FiniteSets, Sequences

CONSTANTS
  Cpu,        \* the CPUs
  Bsp,        \* the boot CPU, APIC id 0, where the I/O APIC sends everything
  Faults,     \* the exceptions code may raise
  Pins,       \* the other I/O APIC pins with a device that raises its line
  MaxTicks,   \* bound: edges on those pins
  MaxFaults   \* bound: exceptions raised, over all CPUs

ASSUME CpuAssumption == IsFiniteSet(Cpu) /\ Bsp \in Cpu
ASSUME FaultsAssumption == Faults \subseteq (0 .. 20) \ {15}
ASSUME BoundAssumption == MaxTicks \in Nat /\ MaxFaults \in Nat

VARIABLES
  ctx,        \* the activities of each CPU, the running one last
  iflag,      \* RFLAGS.IF of each CPU
  ist1,       \* the frame at the top of each CPU's interrupt stack
  irr, isr,   \* request and in-service bits of each local APIC
  idtr,       \* the CPUs that have loaded the IDT
  apic,       \* the CPUs whose local APIC is enabled
  routed,     \* whether the redirection table of the I/O APIC is written
  lock,       \* Pos.lock
  scancode,   \* the keyboard controller's buffer
  ticks

vars == <<ctx, iflag, ist1, irr, isr, idtr, apic, routed, lock, scancode, ticks>>

------------------------------------------------------------------------------
(* The gates and the entry code.                                           *)

Kernel    == -1     \* not a vector: the code of Kernel_init
ApicTimer == 32     \* 0x20
Keyboard  == 49     \* 0x31
Hpet      == 50     \* 0x32
Spurious  == 255    \* the reset value of the vector in SVR, which is kept

\* MUTANT of TrapGates: the keyboard gets a trap gate.
TrapGatesAndKeyboard == ((0 .. 20) \ {2, 15}) \cup {Keyboard}

\* Gates that leave IF alone; all others, those of `ignore' included, clear it.
TrapGates == (0 .. 20) \ {2, 15}

\* The vectors with a routine of their own; `ignore' stands in all other gates.
Installed == ((0 .. 20) \ {15}) \cup {ApicTimer, Keyboard, Hpet}

\* The exceptions for which the CPU pushes an error code (external).
PushesErrorCode == {8, 10, 11, 12, 13, 14, 17}

\* The ENTRY lines with has_error_code = 1, which push a 0 in its place.
PushesZero == ((0 .. 255) \ {8, 10, 11, 12, 13, 14, 17})

\* MUTANT of FrameWords: ENTRY pushes its 0 whatever the flag says.
FrameWordsAlways(v) == (IF v \in PushesErrorCode THEN 1 ELSE 0) + 1

\* Words between RIP and the handler's address.  ERRCODE, FUNC and RIP in
\* linkage.h and the `addq $0x10' before iretq count on exactly one.
FrameWords(v) ==
  (IF v \in PushesErrorCode THEN 1 ELSE 0) + (IF v \in PushesZero THEN 1 ELSE 0)

------------------------------------------------------------------------------
(* The handlers.  A print is SPIN_LOCK(Pos.lock), the drawing, the unlock. *)

ColorPrintk == <<"lock", "draw">>

\* MUTANT of Handler: do_keyboard does not read the scan code.
HandlerWithoutRead(v) ==
  CASE v = Keyboard -> ColorPrintk \o <<"eoi", "iret">>
    [] v = Hpet     -> ColorPrintk \o <<"eoi", "iret">>
    [] OTHER        -> ColorPrintk \o <<"loop">>

\* MUTANT of Handler: do_keyboard returns without EOI.
HandlerWithoutEoi(v) ==
  CASE v = Keyboard -> <<"in">> \o ColorPrintk \o <<"iret">>
    [] v = Hpet     -> ColorPrintk \o <<"eoi", "iret">>
    [] OTHER        -> ColorPrintk \o <<"loop">>

\* The handlers of devices, and do_ignore, which never returns.
Handler(v) ==
  CASE v = Keyboard           -> <<"in">> \o ColorPrintk \o <<"eoi", "iret">>
    [] v \in {Hpet, ApicTimer} -> ColorPrintk \o <<"eoi", "iret">>
    [] OTHER                  -> ColorPrintk \o <<"loop">>

\* The first two or nine exceptions print one line; with a selector in the
\* error code three to five; a page fault five to eight; the others one.
PlainLines == {1}
SelectorLines == 3 .. 5
PageFaultLines == 5 .. 8
LateLines == {1}

Lines(v) ==
  IF v \in 10 .. 13 THEN SelectorLines
  ELSE IF v = 14 THEN PageFaultLines
  ELSE IF v \in 16 .. 20 THEN LateLines
  ELSE PlainLines

\* MUTANT of KernelCode: interrupts are enabled before ap_init prints.
KernelCodeEarlySti(c) ==
  IF c = Bsp
    THEN <<"lidt">> \o ColorPrintk \o <<"ioapic_init", "apic_init", "sti">> \o ColorPrintk \o <<"idle">>
    ELSE <<"lidt", "apic_init", "sti">> \o ColorPrintk \o <<"idle">>

\* Kernel_init from idt_init on: the boot CPU's part and the others'.
KernelCode(c) ==
  IF c = Bsp
    THEN <<"lidt">> \o ColorPrintk \o <<"ioapic_init", "apic_init">> \o ColorPrintk \o <<"sti", "idle">>
    ELSE <<"lidt", "apic_init">> \o ColorPrintk \o <<"sti", "idle">>

IsFault(a) == a.vector \in 0 .. 20

\* The step activity a of CPU c is at; an exception handler has a.lines to go.
Code(c, a) ==
  IF a.vector = Kernel THEN KernelCode(c)[a.ip]
  ELSE IF IsFault(a)
    THEN IF a.lines > 0 THEN ColorPrintk[a.ip] ELSE "loop"
  ELSE Handler(a.vector)[a.ip]

Depth(c) == Len(ctx[c])
Top(c) == ctx[c][Depth(c)]

\* The step the CPU is at.
At(c, step) == Code(c, Top(c)) = step

\* Where activity a goes: to the next step; an exception handler that has
\* drawn a line, to the next line.
Succ(c, a) ==
  IF IsFault(a) /\ Code(c, a) = "draw"
    THEN [vector |-> a.vector, lines |-> a.lines - 1, ip |-> 1]
    ELSE [a EXCEPT !.ip = @ + 1]

Advance(c) == ctx' = [ctx EXCEPT ![c] = [@ EXCEPT ![Depth(c)] = Succ(c, Top(c))]]

\* The activity at depth d of CPU c holds the console lock.
Drawing(c, d) == Code(c, ctx[c][d]) = "draw"

\* One kernel activity, one device or spurious interrupt, and the exceptions.
MaxDepth == 2 + MaxFaults

Places == Cpu \X (1 .. MaxDepth)

\* The exception handlers there are; they stay for ever.
FaultFrames == {x \in Places : x[2] <= Depth(x[1]) /\ IsFault(ctx[x[1]][x[2]])}

Init ==
  /\ ctx = [c \in Cpu |-> <<[vector |-> Kernel, lines |-> 0, ip |-> 1]>>]
  /\ iflag = [c \in Cpu |-> FALSE]
  /\ ist1 = [c \in Cpu |-> [owner |-> 0, iflag |-> FALSE, words |-> 1]]
  /\ irr = [c \in Cpu |-> {}] /\ isr = [c \in Cpu |-> {}]
  /\ idtr = {} /\ apic = {} /\ routed = FALSE
  /\ lock = 0
  /\ scancode = "empty"
  /\ ticks = 0

------------------------------------------------------------------------------
(* Routing.  An entry of the redirection table holds a vector and a mask;  *)
(* the destination field of all of them is APIC id 0, the boot CPU.        *)

Entry(vector, masked) == [vector |-> vector, masked |-> masked]

\* MUTANT of LowPins: serial port 2 is left unmasked, like the two before it.
LowPinsSerial ==
  [p \in 0 .. 8 |-> Entry(48 + p, p \notin {1, 2, 3})]

\* Pins 0 to 8: vectors 0x30 to 0x38, the keyboard and the timer unmasked.
LowPins ==
  [p \in 0 .. 8 |-> Entry(48 + p, p \notin {1, 2})]

\* Pins 11 to 15: vectors 0x39 to 0x3D, masked; 9 and 10 are not written.
HighPins ==
  [p \in 11 .. 15 |-> Entry(46 + p, TRUE)]

\* The table as it is reset: everything masked (external).
Rte(p) ==
  IF routed /\ p \in 0 .. 8 THEN LowPins[p]
  ELSE IF routed /\ p \in 11 .. 15 THEN HighPins[p]
  ELSE Entry(0, TRUE)

\* An edge on pin p reaches the boot CPU; otherwise it is lost.
Arrives(p) == ~ Rte(p).masked /\ Bsp \in apic

RequestAt(p) ==
  irr' = IF Arrives(p) THEN [irr EXCEPT ![Bsp] = @ \cup {Rte(p).vector}] ELSE irr

\* A key is pressed.
PressKey ==
  /\ scancode = "empty"
  /\ scancode' = IF Arrives(1) THEN "requested" ELSE "unseen"
  /\ RequestAt(1)
  /\ UNCHANGED <<ctx, iflag, ist1, isr, idtr, apic, routed, lock, ticks>>

\* A device raises its line.
RaiseLine(p) ==
  /\ ticks < MaxTicks
  /\ ticks' = ticks + 1
  /\ RequestAt(p)
  /\ UNCHANGED <<ctx, iflag, ist1, isr, idtr, apic, routed, lock, scancode>>

------------------------------------------------------------------------------
(* Delivery.                                                               *)

\* The frame lands on IST1 whatever is there; the handler starts.
Enter(c, v, n) ==
  /\ ctx' = [ctx EXCEPT ![c] = Append(@, [vector |-> v, lines |-> n, ip |-> 1])]
  /\ ist1' = [ist1 EXCEPT ![c] = [owner |-> Depth(c) + 1, iflag |-> iflag[c],
                                  words |-> FrameWords(v)]]
  /\ iflag' = [iflag EXCEPT ![c] = @ /\ v \in TrapGates]

Class(v) == v \div 16

\* The local APIC offers the highest request above everything in service and
\* above the task priority, 0x10.
Offered(c, v) ==
  /\ v \in irr[c] /\ \A w \in irr[c] : w <= v
  /\ \A w \in isr[c] : Class(w) < Class(v)
  /\ Class(v) > 1

Deliver(c) ==
  /\ iflag[c] /\ c \in idtr /\ c \in apic
  /\ \E v \in irr[c] :
       /\ Offered(c, v)
       /\ Enter(c, v, 0)
       /\ irr' = [irr EXCEPT ![c] = @ \ {v}]
       /\ isr' = [isr EXCEPT ![c] = @ \cup {v}]
  /\ UNCHANGED <<idtr, apic, routed, lock, scancode, ticks>>

\* The local APIC answers with its spurious vector; nothing is in service.
DeliverSpurious(c) ==
  /\ iflag[c] /\ c \in apic
  /\ Enter(c, Spurious, 0)
  /\ UNCHANGED <<irr, isr, idtr, apic, routed, lock, scancode, ticks>>

\* The running code faults.  The empty loops cannot.
Raise(c, v) ==
  /\ c \in idtr
  /\ ~ At(c, "idle") /\ ~ At(c, "loop")
  /\ Cardinality(FaultFrames) < MaxFaults
  /\ \E n \in Lines(v) : Enter(c, v, n)
  /\ UNCHANGED <<irr, isr, idtr, apic, routed, lock, scancode, ticks>>

------------------------------------------------------------------------------
(* The steps of the code.                                                  *)

\* lidt, after the boot CPU has filled the table; the others run only when
\* the boot CPU, in ap_init, has started them.
LoadIdt(c) ==
  /\ At(c, "lidt")
  /\ c # Bsp => Bsp \in apic
  /\ idtr' = idtr \cup {c}
  /\ Advance(c)
  /\ UNCHANGED <<iflag, ist1, irr, isr, apic, routed, lock, scancode, ticks>>

\* The 8259 and the 8254 are silenced, then the redirection table is written.
IoapicInit(c) ==
  /\ At(c, "ioapic_init")
  /\ routed' = TRUE
  /\ Advance(c)
  /\ UNCHANGED <<iflag, ist1, irr, isr, idtr, apic, lock, scancode, ticks>>

\* The local APIC is enabled and its local sources masked.
ApicInit(c) ==
  /\ At(c, "apic_init")
  /\ apic' = apic \cup {c}
  /\ Advance(c)
  /\ UNCHANGED <<iflag, ist1, irr, isr, idtr, routed, lock, scancode, ticks>>

\* MUTANT of LockConsole: the lock is taken without looking.
LockConsoleAlways(c) ==
  /\ At(c, "lock")
  /\ lock' = 1
  /\ Advance(c)
  /\ UNCHANGED <<iflag, ist1, irr, isr, idtr, apic, routed, scancode, ticks>>

\* MUTANT of LockConsole: an atomic increment in place of compare-and-exchange.
LockConsoleByIncrement(c) ==
  /\ At(c, "lock")
  /\ lock' = lock + 1
  /\ Advance(c)
  /\ UNCHANGED <<iflag, ist1, irr, isr, idtr, apic, routed, scancode, ticks>>

\* SPIN_LOCK(Pos.lock).
LockConsole(c) ==
  /\ At(c, "lock")
  /\ lock = 0
  /\ lock' = 1
  /\ Advance(c)
  /\ UNCHANGED <<iflag, ist1, irr, isr, idtr, apic, routed, scancode, ticks>>

\* MUTANT of UnlockConsole: a return without the unlock.
UnlockConsoleNot(c) ==
  /\ At(c, "draw")
  /\ Advance(c)
  /\ UNCHANGED <<iflag, ist1, irr, isr, idtr, apic, routed, lock, scancode, ticks>>

\* The text is drawn and the lock given back.
UnlockConsole(c) ==
  /\ At(c, "draw")
  /\ lock' = 0
  /\ Advance(c)
  /\ UNCHANGED <<iflag, ist1, irr, isr, idtr, apic, routed, scancode, ticks>>

Sti(c) ==
  /\ At(c, "sti")
  /\ iflag' = [iflag EXCEPT ![c] = TRUE]
  /\ Advance(c)
  /\ UNCHANGED <<ist1, irr, isr, idtr, apic, routed, lock, scancode, ticks>>

\* in $0x60: the controller can take the next key.
ReadScancode(c) ==
  /\ At(c, "in")
  /\ scancode' = "empty"
  /\ Advance(c)
  /\ UNCHANGED <<iflag, ist1, irr, isr, idtr, apic, routed, lock, ticks>>

\* EOI clears the highest in-service bit.
Eoi(c) ==
  /\ At(c, "eoi")
  /\ isr' = [isr EXCEPT ![c] = {v \in @ : \E w \in @ : w > v}]
  /\ Advance(c)
  /\ UNCHANGED <<iflag, ist1, irr, idtr, apic, routed, lock, scancode, ticks>>

\* The registers and the frame are popped from IST1.
Iret(c) ==
  /\ At(c, "iret")
  /\ ctx' = [ctx EXCEPT ![c] = SubSeq(@, 1, Len(@) - 1)]
  /\ iflag' = [iflag EXCEPT ![c] = ist1[c].iflag]
  /\ UNCHANGED <<ist1, irr, isr, idtr, apic, routed, lock, scancode, ticks>>

Step(c) ==
  \/ LoadIdt(c) \/ IoapicInit(c) \/ ApicInit(c) \/ Sti(c)
  \/ LockConsole(c) \/ UnlockConsole(c)
  \/ ReadScancode(c) \/ Eoi(c) \/ Iret(c)

Next ==
  \/ PressKey
  \/ \E p \in Pins : RaiseLine(p)
  \/ \E c \in Cpu :
       \/ Step(c) \/ Deliver(c) \/ DeliverSpurious(c)
       \/ \E v \in Faults : Raise(c, v)

Spec == Init /\ [][Next]_vars

(* Every CPU keeps executing and takes an interrupt it is offered.  No     *)
(* fairness for keys, lines, spurious interrupts and faults.  A CPU that   *)
(* spins on the lock competes with finitely many prints of other CPUs.     *)
FairSpec == Spec /\ \A c \in Cpu : WF_vars(Step(c)) /\ WF_vars(Deliver(c))

------------------------------------------------------------------------------
(* Properties.                                                             *)

Activities == [vector : {Kernel} \cup 0 .. 255, lines : 0 .. 8, ip : Nat \ {0}]

TypeOK ==
  /\ \A c \in Cpu : ctx[c] \in Seq(Activities) /\ Depth(c) \in 1 .. MaxDepth
  /\ iflag \in [Cpu -> BOOLEAN]
  /\ ist1 \in [Cpu -> [owner : 0 .. MaxDepth, iflag : BOOLEAN, words : 0 .. 2]]
  /\ irr \in [Cpu -> SUBSET (0 .. 255)] /\ isr \in [Cpu -> SUBSET (0 .. 255)]
  /\ idtr \subseteq Cpu /\ apic \subseteq Cpu
  /\ routed \in BOOLEAN /\ lock \in {0, 1}
  /\ scancode \in {"empty", "requested", "unseen"}
  /\ ticks \in 0 .. MaxTicks

(* Mutual exclusion of the console, handlers that interrupt one another on *)
(* one CPU included: the lock is 1 exactly while one activity draws.       *)
OneDrawer ==
  LET Drawers == {x \in Places :
                    x[2] <= Depth(x[1]) /\ Drawing(x[1], x[2])}
  IN  Cardinality(Drawers) = lock

(* Handlers print with the same spin lock as the code they interrupt.  A   *)
(* CPU can only come to wait for a lock it holds itself when an exception  *)
(* struck inside color_printk: device interrupts are safe, because nothing *)
(* prints with interrupts enabled.                                         *)
SelfDeadlockOnlyByFault ==
  \A c \in Cpu : \A d \in 1 .. Depth(c) - 1 :
    At(c, "lock") /\ Drawing(c, d) => \E e \in d + 1 .. Depth(c) : IsFault(ctx[c][e])

(* IST1 is overwritten by every delivery.  Yet a handler that returns pops *)
(* its own frame, and finds RIP where linkage.h has it: whatever overwrote *)
(* a frame never returns.                                                  *)
ReturnsThroughOwnFrame ==
  \A c \in Cpu :
    /\ Depth(c) > 1 => ist1[c].words = 1
    /\ At(c, "iret") => ist1[c].owner = Depth(c)

(* The exception gates are trap gates, which leave interrupts on, on the   *)
(* shared stack.  An exception handler is not interrupted by a device all  *)
(* the same: the only code that runs with interrupts on is an empty loop.  *)
FaultsRunMasked ==
  \A c \in Cpu : (\E d \in 1 .. Depth(c) : IsFault(ctx[c][d])) => ~ iflag[c]

(* No device interrupt ends in `ignore', which never returns: every pin    *)
(* ioapic_init unmasks has a gate of its own in idt_init.                  *)
OnlySpuriousIsIgnored ==
  \A c \in Cpu : \A d \in 1 .. Depth(c) :
    ctx[c][d].vector \in Installed \cup {Kernel, Spurious}

(* A key whose edge reached the boot CPU is not forgotten: as long as it   *)
(* is in the buffer, its request or the handler that will read it exists.  *)
KeyNotForgotten ==
  scancode = "requested" =>
    \/ Keyboard \in irr[Bsp]
    \/ \E d \in 1 .. Depth(Bsp) :
         ctx[Bsp][d].vector = Keyboard /\ Code(Bsp, ctx[Bsp][d]) = "in"

\* A handler that never returns is on CPU c.
Wedged(c) == \E d \in 1 .. Depth(c) : IsFault(ctx[c][d]) \/ ctx[c][d].vector = Spurious

(* Every request for the keyboard is delivered and every delivery ends     *)
(* with EOI, unless an exception or a spurious interrupt stopped a CPU.    *)
InterruptsServed ==
  /\ Keyboard \in irr[Bsp] ~> (Keyboard \notin irr[Bsp] \/ \E c \in Cpu : Wedged(c))
  /\ Keyboard \in isr[Bsp] ~> (Keyboard \notin isr[Bsp] \/ \E c \in Cpu : Wedged(c))

(* A CPU that is stopped takes the console with it only if it was stopped  *)
(* while drawing: otherwise a taken lock is always given back.             *)
LockGivenBack ==
  lock = 1 ~> (lock = 0 \/ \E c \in Cpu : \E d \in 1 .. Depth(c) - 1 : Drawing(c, d))

==============================================================================
