--------------------------- MODULE InterruptsProofs ---------------------------
(***************************************************************************)
(* Proofs about Interrupts, for every number of CPUs, set of exceptions    *)
(* and pins and every bound: how the shared interrupt stack IST1, the trap *)
(* gates and the console lock get along.                                   *)
(***************************************************************************)
EXTENDS Interrupts, FiniteSetTheorems, TLAPS

USE CpuAssumption, FaultsAssumption, BoundAssumption

------------------------------------------------------------------------------
(* The programs, step by step.                                             *)

LEMMA BootCode ==
  LET s == KernelCode(Bsp) IN
  /\ s[1] = "lidt" /\ s[2] = "lock" /\ s[3] = "draw"
  /\ s[4] = "ioapic_init" /\ s[5] = "apic_init" /\ s[6] = "lock"
  /\ s[7] = "draw" /\ s[8] = "sti" /\ s[9] = "idle"
<1> QED
  BY DEF KernelCode, ColorPrintk

LEMMA ApCode ==
  ASSUME NEW c \in Cpu, c # Bsp
  PROVE  LET s == KernelCode(c) IN
         /\ s[1] = "lidt" /\ s[2] = "apic_init" /\ s[3] = "lock"
         /\ s[4] = "draw" /\ s[5] = "sti" /\ s[6] = "idle"
<1> QED
  BY DEF KernelCode, ColorPrintk

LEMMA HandlerCode ==
  /\ Handler(Keyboard)[1] = "in" /\ Handler(Keyboard)[2] = "lock"
  /\ Handler(Keyboard)[3] = "draw" /\ Handler(Keyboard)[4] = "eoi"
  /\ Handler(Keyboard)[5] = "iret"
  /\ Handler(Hpet)[1] = "lock" /\ Handler(Hpet)[2] = "draw"
  /\ Handler(Hpet)[3] = "eoi" /\ Handler(Hpet)[4] = "iret"
  /\ Handler(Spurious)[1] = "lock" /\ Handler(Spurious)[2] = "draw"
  /\ Handler(Spurious)[3] = "loop"
<1> QED
  BY DEF Handler, ColorPrintk, Keyboard, Hpet, Spurious, ApicTimer

------------------------------------------------------------------------------
(* One activity.                                                           *)

\* The activity a of CPU c is at a step of its program.
Valid(c, a) ==
  /\ a \in Activities
  /\ a.vector \in {Kernel, Keyboard, Hpet, Spurious} \cup Faults
  /\ a.vector = Kernel => a.ip \in 1 .. (IF c = Bsp THEN 9 ELSE 6)
  /\ a.vector = Keyboard => a.ip \in 1 .. 5
  /\ a.vector = Hpet => a.ip \in 1 .. 4
  /\ a.vector = Spurious => a.ip \in 1 .. 3
  /\ IsFault(a) => a.ip \in 1 .. 2

\* The steps after which a program goes on.
Steps == {"lidt", "ioapic_init", "apic_init", "lock", "draw", "sti", "in", "eoi"}

\* Every activity is at a step; it is never at "draw" but after "lock".
Follows(c, a) ==
  /\ Code(c, a) \in Steps \cup {"idle", "loop", "iret"}
  /\ Code(c, a) \in Steps => Valid(c, Succ(c, a))
  /\ Code(c, a) = "lock" => Code(c, Succ(c, a)) = "draw"
  /\ Code(c, a) \in Steps \ {"lock"} => Code(c, Succ(c, a)) # "draw"
  /\ Code(c, a) = "sti" => a.vector = Kernel /\ Code(c, Succ(c, a)) = "idle"
  /\ Code(c, a) = "iret" => a.vector \in {Keyboard, Hpet}
  /\ Code(c, a) = "idle" => a.vector = Kernel
  /\ Code(c, a) = "in" => a.vector = Keyboard

LEMMA Vectors ==
  /\ Kernel = -1 /\ Keyboard = 49 /\ Hpet = 50 /\ Spurious = 255
  /\ ColorPrintk[1] = "lock" /\ ColorPrintk[2] = "draw"
  /\ Faults \subseteq 0 .. 20
<1> QED
  BY DEF Kernel, Keyboard, Hpet, Spurious, ColorPrintk

LEMMA SuccFields ==
  ASSUME NEW c \in Cpu, NEW a \in Activities
  PROVE  /\ Succ(c, a).vector = a.vector
         /\ IsFault(a) /\ Code(c, a) = "draw" =>
              /\ Succ(c, a).ip = 1 /\ Succ(c, a).lines = a.lines - 1
              /\ a.lines > 0 => Succ(c, a) \in Activities
         /\ ~ (IsFault(a) /\ Code(c, a) = "draw") =>
              /\ Succ(c, a).ip = a.ip + 1 /\ Succ(c, a).lines = a.lines
              /\ Succ(c, a) \in Activities
<1>1. CASE IsFault(a) /\ Code(c, a) = "draw"
  <2>1. Succ(c, a) = [vector |-> a.vector, lines |-> a.lines - 1, ip |-> 1]
    BY <1>1 DEF Succ
  <2>2. a.lines > 0 => a.lines - 1 \in 0 .. 8
    BY DEF Activities
  <2>3. a.lines > 0 => Succ(c, a) \in Activities
    BY <2>1, <2>2 DEF Activities
  <2> QED
    BY <1>1, <2>1, <2>3 DEF Activities
<1>2. CASE ~ (IsFault(a) /\ Code(c, a) = "draw")
  <2>1. Succ(c, a) = [a EXCEPT !.ip = @ + 1]
    BY <1>2 DEF Succ
  <2> QED
    BY <1>2, <2>1 DEF Activities
<1> QED
  BY <1>1, <1>2

LEMMA FollowsKernel ==
  ASSUME NEW c \in Cpu, NEW a, Valid(c, a), a.vector = Kernel
  PROVE  Follows(c, a)
<1> DEFINE b == Succ(c, a)
<1>1. ~ IsFault(a) /\ Code(c, a) = KernelCode(c)[a.ip]
  BY Vectors DEF IsFault, Code
<1>2. b.vector = Kernel /\ b.ip = a.ip + 1 /\ b \in Activities /\ ~ IsFault(b)
  BY <1>1, SuccFields, Vectors DEF Valid, IsFault
<1>3. Code(c, b) = KernelCode(c)[a.ip + 1]
  BY <1>2 DEF Code
<1>4. CASE c = Bsp
  <2>1. a.ip \in 1 .. 9
    BY <1>4 DEF Valid
  <2>2. a.ip < 9 => Valid(c, b)
    BY <1>2, <1>4, <2>1, Vectors DEF Valid
  <2> QED
    BY <1>1, <1>3, <1>4, <2>1, <2>2, BootCode DEF Follows, Steps
<1>5. CASE c # Bsp
  <2>1. a.ip \in 1 .. 6
    BY <1>5 DEF Valid
  <2>2. a.ip < 6 => Valid(c, b)
    BY <1>2, <1>5, <2>1, Vectors DEF Valid
  <2> QED
    BY <1>1, <1>3, <1>5, <2>1, <2>2, ApCode DEF Follows, Steps
<1> QED
  BY <1>4, <1>5

LEMMA FollowsHandler ==
  ASSUME NEW c \in Cpu, NEW a, Valid(c, a), a.vector \in {Keyboard, Hpet, Spurious}
  PROVE  Follows(c, a)
<1> DEFINE b == Succ(c, a)
<1>1. ~ IsFault(a) /\ a.vector # Kernel /\ Code(c, a) = Handler(a.vector)[a.ip]
  BY Vectors DEF IsFault, Code
<1>2. b.vector = a.vector /\ b.ip = a.ip + 1 /\ b \in Activities /\ ~ IsFault(b)
  BY <1>1, SuccFields, Vectors DEF Valid, IsFault
<1>3. Code(c, b) = Handler(a.vector)[a.ip + 1]
  BY <1>1, <1>2 DEF Code
<1>4. CASE a.vector = Keyboard
  <2>1. a.ip \in 1 .. 5
    BY <1>4 DEF Valid
  <2>2. a.ip < 5 => Valid(c, b)
    BY <1>2, <1>4, <2>1, Vectors DEF Valid
  <2> QED
    BY <1>1, <1>3, <1>4, <2>1, <2>2, HandlerCode DEF Follows, Steps
<1>5. CASE a.vector = Hpet
  <2>1. a.ip \in 1 .. 4
    BY <1>5 DEF Valid
  <2>2. a.ip < 4 => Valid(c, b)
    BY <1>2, <1>5, <2>1, Vectors DEF Valid
  <2> QED
    BY <1>1, <1>3, <1>5, <2>1, <2>2, HandlerCode DEF Follows, Steps
<1>6. CASE a.vector = Spurious
  <2>1. a.ip \in 1 .. 3
    BY <1>6 DEF Valid
  <2>2. a.ip < 3 => Valid(c, b)
    BY <1>2, <1>6, <2>1, Vectors DEF Valid
  <2> QED
    BY <1>1, <1>3, <1>6, <2>1, <2>2, HandlerCode DEF Follows, Steps
<1> QED
  BY <1>4, <1>5, <1>6

LEMMA FollowsFault ==
  ASSUME NEW c \in Cpu, NEW a, Valid(c, a), a.vector \in Faults
  PROVE  Follows(c, a)
<1> DEFINE b == Succ(c, a)
<1>1. IsFault(a) /\ a.vector # Kernel /\ a.ip \in 1 .. 2 /\ a.lines \in 0 .. 8
  BY Vectors DEF IsFault, Valid, Activities
<1>2. Code(c, a) = IF a.lines > 0 THEN ColorPrintk[a.ip] ELSE "loop"
  BY <1>1 DEF Code
<1>3. b.vector = a.vector /\ b.vector # Kernel /\ IsFault(b)
  BY <1>1, SuccFields DEF Valid, IsFault
<1>4. Code(c, b) = IF b.lines > 0 THEN ColorPrintk[b.ip] ELSE "loop"
  BY <1>3 DEF Code
<1>5. CASE Code(c, a) = "draw"
  <2>1. a.lines > 0
    BY <1>1, <1>2, <1>5
  <2>2. b.ip = 1 /\ b.lines = a.lines - 1 /\ b \in Activities
    BY <1>1, <1>5, <2>1, SuccFields DEF Valid
  <2>3. Valid(c, b)
    BY <1>3, <2>2, Vectors DEF Valid
  <2> QED
    BY <1>4, <1>5, <2>2, <2>3, Vectors DEF Follows, Steps
<1>6. CASE Code(c, a) # "draw"
  <2>1. b.ip = a.ip + 1 /\ b.lines = a.lines /\ b \in Activities
    BY <1>1, <1>6, SuccFields DEF Valid
  <2>2. a.lines > 0 => a.ip = 1
    BY <1>1, <1>2, <1>6, Vectors
  <2>3. a.lines > 0 => Valid(c, b)
    BY <1>1, <1>3, <2>1, <2>2, Vectors DEF Valid
  <2> QED
    BY <1>1, <1>2, <1>4, <2>1, <2>2, <2>3, Vectors DEF Follows, Steps
<1> QED
  BY <1>5, <1>6

LEMMA ActivityFollows ==
  ASSUME NEW c \in Cpu, NEW a, Valid(c, a)
  PROVE  Follows(c, a)
<1> QED
  BY FollowsKernel, FollowsHandler, FollowsFault DEF Valid

------------------------------------------------------------------------------
(* The inductive invariant.  Interrupts are only on in the empty loop of   *)
(* the kernel, so a device handler is always the second activity, above    *)
(* that loop; everything above it is an exception handler, which stays.    *)
(* Hence the frame on top of IST1 belongs to the running activity, and a   *)
(* handler that returns returns to the loop.                               *)

Context(c) ==
  /\ Depth(c) \in 1 .. MaxDepth
  /\ \A d \in 1 .. Depth(c) : Valid(c, ctx[c][d])
  /\ \A d \in 1 .. Depth(c) : ctx[c][d].vector = Kernel <=> d = 1
  /\ \A d \in 3 .. Depth(c) : IsFault(ctx[c][d])
  /\ Depth(c) > 1 /\ ~ IsFault(ctx[c][2]) => Code(c, ctx[c][1]) = "idle"

Contexts == ctx \in [Cpu -> Seq(Activities)] /\ \A c \in Cpu : Context(c)

Masking == \A c \in Cpu : iflag[c] => Depth(c) = 1 /\ At(c, "idle")

Frames == \A c \in Cpu : Depth(c) > 1 => ist1[c].words = 1 /\ ist1[c].owner = Depth(c)

\* Only the two unmasked pins request interrupts.
Requests == \A c \in Cpu : irr[c] \subseteq {Keyboard, Hpet}

\* An activity that draws, by CPU and depth.
Draws(x) == x[1] \in Cpu /\ x[2] \in 1 .. Depth(x[1]) /\ Drawing(x[1], x[2])

Drawers == {x \in Cpu \X Nat : Draws(x)}

Locking == lock \in {0, 1} /\ (lock = 0 => Drawers = {}) /\ (lock = 1 => \E x : Drawers = {x})

IInv == TypeOK /\ Contexts /\ Masking /\ Frames /\ Requests /\ Locking /\ KeyNotForgotten

------------------------------------------------------------------------------
(* The three ways the activities of a CPU change.                          *)

Advanced(c) ==
  /\ Valid(c, Top(c)) /\ Valid(c, Succ(c, Top(c)))
  /\ ctx' \in [Cpu -> Seq(Activities)]
  /\ \A o \in Cpu \ {c} : ctx'[o] = ctx[o]
  /\ Len(ctx'[c]) = Depth(c) /\ Depth(c) \in Nat /\ Depth(c) >= 1
  /\ ctx'[c][Depth(c)] = Succ(c, Top(c))
  /\ \A d \in 1 .. Depth(c) - 1 : ctx'[c][d] = ctx[c][d]

Entered(c, a) ==
  /\ ctx' \in [Cpu -> Seq(Activities)]
  /\ \A o \in Cpu \ {c} : ctx'[o] = ctx[o]
  /\ Len(ctx'[c]) = Depth(c) + 1 /\ Depth(c) \in Nat /\ Depth(c) >= 1
  /\ ctx'[c][Depth(c) + 1] = a
  /\ \A d \in 1 .. Depth(c) : ctx'[c][d] = ctx[c][d]

Returned(c) ==
  /\ ctx' \in [Cpu -> Seq(Activities)]
  /\ \A o \in Cpu \ {c} : ctx'[o] = ctx[o]
  /\ Depth(c) = 2 /\ Len(ctx'[c]) = 1 /\ ctx'[c][1] = ctx[c][1]
  /\ Code(c, ctx[c][1]) = "idle"

LEMMA AdvanceEffect ==
  ASSUME Contexts, NEW c \in Cpu, Code(c, Top(c)) \in Steps, Advance(c)
  PROVE  Advanced(c)
<1>1. ctx[c] \in Seq(Activities) /\ Depth(c) \in Nat /\ Depth(c) >= 1
  BY DEF Contexts, Context, Depth
<1>2. Valid(c, Top(c))
  BY <1>1 DEF Contexts, Context, Top
<1>3. Valid(c, Succ(c, Top(c)))
  BY <1>2, ActivityFollows DEF Follows
<1>4. Succ(c, Top(c)) \in Activities
  BY <1>3 DEF Valid
<1> DEFINE s == [ctx[c] EXCEPT ![Depth(c)] = Succ(c, Top(c))]
<1>5. ctx' = [ctx EXCEPT ![c] = s]
  BY DEF Advance
<1>6. /\ s \in Seq(Activities) /\ Len(s) = Depth(c)
      /\ s[Depth(c)] = Succ(c, Top(c))
      /\ \A d \in 1 .. Depth(c) - 1 : s[d] = ctx[c][d]
  BY <1>1, <1>4 DEF Depth
<1> HIDE DEF s
<1>7. ctx' \in [Cpu -> Seq(Activities)] /\ ctx'[c] = s
      /\ \A o \in Cpu \ {c} : ctx'[o] = ctx[o]
  BY <1>5, <1>6 DEF Contexts
<1> QED
  BY <1>1, <1>2, <1>3, <1>6, <1>7 DEF Advanced

LEMMA EnterEffect ==
  ASSUME Contexts, NEW c \in Cpu, NEW v \in 0 .. 255, NEW n \in 0 .. 8, Enter(c, v, n)
  PROVE  Entered(c, [vector |-> v, lines |-> n, ip |-> 1])
<1> DEFINE a == [vector |-> v, lines |-> n, ip |-> 1]
<1>1. ctx[c] \in Seq(Activities) /\ Depth(c) \in Nat /\ Depth(c) >= 1
  BY DEF Contexts, Context, Depth
<1>2. a \in Activities
  BY DEF Activities
<1> DEFINE s == Append(ctx[c], a)
<1>3. ctx' = [ctx EXCEPT ![c] = s]
  BY DEF Enter
<1> HIDE DEF a
<1>4. /\ s \in Seq(Activities) /\ Len(s) = Depth(c) + 1 /\ s[Depth(c) + 1] = a
      /\ \A d \in 1 .. Depth(c) : s[d] = ctx[c][d]
  BY <1>1, <1>2 DEF Depth
<1> HIDE DEF s
<1>5. ctx' \in [Cpu -> Seq(Activities)] /\ ctx'[c] = s
      /\ \A o \in Cpu \ {c} : ctx'[o] = ctx[o]
  BY <1>3, <1>4 DEF Contexts
<1> QED
  BY <1>1, <1>4, <1>5 DEF a, Entered

\* Only the second activity returns, to the empty loop.
LEMMA IretEffect ==
  ASSUME Contexts, NEW c \in Cpu, At(c, "iret"),
         ctx' = [ctx EXCEPT ![c] = SubSeq(@, 1, Len(@) - 1)]
  PROVE  Returned(c)
<1>1. ctx[c] \in Seq(Activities) /\ Depth(c) \in Nat /\ Depth(c) >= 1 /\ Context(c)
  BY DEF Contexts, Context, Depth
<1>2. Valid(c, Top(c)) /\ Code(c, Top(c)) = "iret"
  BY <1>1 DEF Contexts, Context, Top, At
<1>3. Top(c).vector \in {Keyboard, Hpet}
  BY <1>2, ActivityFollows DEF Follows
<1>4. ~ IsFault(Top(c)) /\ Top(c).vector # Kernel
  BY <1>3, Vectors DEF IsFault
<1>5. Depth(c) = 2
  BY <1>1, <1>4 DEF Context, Top
<1>6. Code(c, ctx[c][1]) = "idle"
  BY <1>1, <1>4, <1>5 DEF Context, Top
<1> DEFINE s == SubSeq(ctx[c], 1, Len(ctx[c]) - 1)
<1>7. s \in Seq(Activities) /\ Len(s) = 1 /\ s[1] = ctx[c][1]
  BY <1>1, <1>5 DEF Depth
<1>8. ctx' = [ctx EXCEPT ![c] = s]
  OBVIOUS
<1> HIDE DEF s
<1>9. ctx' \in [Cpu -> Seq(Activities)] /\ ctx'[c] = s
      /\ \A o \in Cpu \ {c} : ctx'[o] = ctx[o]
  BY <1>7, <1>8 DEF Contexts
<1> QED
  BY <1>5, <1>6, <1>7, <1>9 DEF Returned

------------------------------------------------------------------------------
(* What they do to the activities and to the drawers.                      *)

LEMMA ContextsAdvance ==
  ASSUME Contexts, NEW c \in Cpu, Code(c, Top(c)) \in Steps, Advanced(c)
  PROVE  Contexts'
<1>1. Context(c) /\ Follows(c, Top(c)) /\ Depth(c)' = Depth(c)
  BY ActivityFollows DEF Contexts, Advanced, Depth
<1>2. Succ(c, Top(c)).vector = Top(c).vector
  BY SuccFields DEF Valid, Advanced
<1>3. \A d \in 1 .. Depth(c) : ctx'[c][d].vector = ctx[c][d].vector /\ Valid(c, ctx'[c][d])
  BY <1>1, <1>2 DEF Context, Top, Advanced
<1>4. \A d \in 1 .. Depth(c) : IsFault(ctx'[c][d]) <=> IsFault(ctx[c][d])
  BY <1>3 DEF IsFault
<1>5. Depth(c) > 1 => ctx'[c][1] = ctx[c][1]
  BY DEF Advanced
<1>6. Context(c)'
  BY <1>1, <1>3, <1>4, <1>5 DEF Context
<1>7. ASSUME NEW o \in Cpu \ {c}
      PROVE  Context(o)'
  BY <1>7 DEF Contexts, Context, Depth, Advanced
<1> QED
  BY <1>6, <1>7 DEF Contexts, Advanced

\* A device handler may only start on the empty loop, an exception handler
\* anywhere.
LEMMA ContextsEnter ==
  ASSUME Contexts, NEW c \in Cpu, NEW a, Entered(c, a), a \in Activities, a.ip = 1,
         \/ a.vector \in Faults /\ Depth(c) < MaxDepth
         \/ a.vector \in {Keyboard, Hpet, Spurious} /\ Depth(c) = 1 /\ At(c, "idle")
  PROVE  Contexts'
<1>1. Context(c)
  BY DEF Contexts
<1>2. Valid(c, a) /\ a.vector # Kernel /\ (a.vector \in Faults => IsFault(a))
  <2>1. a.vector # Kernel /\ (a.vector \in Faults => IsFault(a))
    BY Vectors DEF IsFault, Activities
  <2> QED
    BY <2>1 DEF Valid
<1>3. Depth(c)' = Depth(c) + 1 /\ Depth(c) \in Nat /\ Depth(c) >= 1
  BY DEF Entered, Depth
<1>4. Depth(c)' \in 1 .. MaxDepth
  BY <1>3 DEF MaxDepth
<1>5. ASSUME NEW d \in 1 .. Depth(c)'
      PROVE  /\ Valid(c, ctx'[c][d]) /\ (ctx'[c][d].vector = Kernel <=> d = 1)
             /\ d >= 3 => IsFault(ctx'[c][d])
  <2>1. CASE d = Depth(c) + 1
    <3>1. ctx'[c][d] = a
      BY <2>1 DEF Entered
    <3>2. d # 1 /\ (d >= 3 => Depth(c) # 1)
      BY <1>3, <2>1
    <3> QED
      BY <1>2, <3>1, <3>2
  <2>2. CASE d # Depth(c) + 1
    <3>1. d \in 1 .. Depth(c)
      BY <1>3, <2>2
    <3> QED
      BY <1>1, <3>1 DEF Context, Entered
  <2> QED
    BY <2>1, <2>2
<1>6. ~ IsFault(ctx'[c][2]) => Code(c, ctx'[c][1]) = "idle"
  <2>1. CASE Depth(c) > 1
    <3>1. ctx'[c][1] = ctx[c][1] /\ ctx'[c][2] = ctx[c][2]
      BY <1>3, <2>1 DEF Entered
    <3> QED
      BY <1>1, <2>1, <3>1 DEF Context
  <2>2. CASE Depth(c) = 1
    <3>1. ctx'[c][1] = ctx[c][1] /\ ctx'[c][2] = a
      BY <2>2 DEF Entered
    <3> QED
      BY <1>2, <2>2, <3>1 DEF At, Top
  <2> QED
    BY <1>3, <2>1, <2>2
<1>7. Context(c)'
  BY <1>4, <1>5, <1>6 DEF Context
<1>8. ASSUME NEW o \in Cpu \ {c}
      PROVE  Context(o)'
  BY <1>8 DEF Contexts, Context, Depth, Entered
<1> QED
  BY <1>7, <1>8 DEF Contexts, Entered

LEMMA ContextsIret ==
  ASSUME Contexts, NEW c \in Cpu, Returned(c)
  PROVE  Contexts'
<1>1. Context(c) /\ Depth(c)' = 1 /\ 1 \in 1 .. Depth(c)
  BY DEF Contexts, Depth, Returned
<1>2. \A d \in 1 .. 1 : ctx'[c][d] = ctx[c][1] /\ d = 1
  BY DEF Returned
<1>3. Valid(c, ctx[c][1]) /\ ctx[c][1].vector = Kernel /\ 1 \in 1 .. MaxDepth
  BY <1>1 DEF Context, MaxDepth
<1>4. Context(c)'
  BY <1>1, <1>2, <1>3 DEF Context
<1>5. ASSUME NEW o \in Cpu \ {c}
      PROVE  Context(o)'
  BY <1>5 DEF Contexts, Context, Depth, Returned
<1> QED
  BY <1>4, <1>5 DEF Contexts, Returned

\* The drawing activities before and after a step of CPU c.
LEMMA DrawersAdvance ==
  ASSUME Contexts, NEW c \in Cpu, Code(c, Top(c)) \in Steps, Advanced(c)
  PROVE  LET x == <<c, Depth(c)>> IN
         /\ Code(c, Top(c)) \notin {"lock", "draw"} => Drawers' = Drawers
         /\ Code(c, Top(c)) = "lock" => Drawers' = Drawers \cup {x}
         /\ Code(c, Top(c)) = "draw" => x \in Drawers /\ Drawers' = Drawers \ {x}
<1>0. PICK k \in Nat : k = Depth(c)
  BY DEF Advanced
<1> DEFINE x == <<c, k>>
           b == Succ(c, Top(c))
<1>1. Follows(c, Top(c)) /\ x \in Cpu \X Nat
  BY ActivityFollows DEF Advanced
<1>2. Draws(x)' <=> Code(c, b) = "draw"
  BY <1>0 DEF Draws, Drawing, Depth, Advanced
<1>3. Draws(x) <=> Code(c, Top(c)) = "draw"
  BY <1>0 DEF Draws, Drawing, Top, Advanced
<1>4. ASSUME NEW o \in Cpu, NEW d \in Nat, <<o, d>> # x
      PROVE  Draws(<<o, d>>)' <=> Draws(<<o, d>>)
  <2>1. CASE o = c
    <3>1. d # Depth(c) /\ Depth(c)' = Depth(c) /\ Depth(c) \in Nat
      BY <1>0, <1>4, <2>1 DEF Depth, Advanced
    <3>2. d \in 1 .. Depth(c) => ctx'[c][d] = ctx[c][d]
      BY <3>1 DEF Advanced
    <3> QED
      BY <2>1, <3>1, <3>2 DEF Draws, Drawing
  <2>2. CASE o # c
    BY <2>2 DEF Draws, Drawing, Depth, Advanced
  <2> QED
    BY <2>1, <2>2
<1>5. \A y \in Cpu \X Nat : y # x => (y \in Drawers' <=> y \in Drawers)
  BY <1>4 DEF Drawers
<1>6. x \in Drawers' <=> Draws(x)'
  BY <1>1 DEF Drawers
<1>7. x \in Drawers <=> Code(c, Top(c)) = "draw"
  BY <1>1, <1>3 DEF Drawers
<1>8. Drawers \subseteq Cpu \X Nat /\ Drawers' \subseteq Cpu \X Nat
  BY DEF Drawers
<1>9. x \in Drawers' <=> Code(c, Top(c)) = "lock"
  BY <1>1, <1>2, <1>6 DEF Follows
<1> HIDE DEF x
<1>10. x = <<c, Depth(c)>>
  BY <1>0 DEF x
<1> QED
  BY <1>1, <1>5, <1>7, <1>8, <1>9, <1>10

LEMMA DrawersEnter ==
  ASSUME Contexts, NEW c \in Cpu, NEW a, Entered(c, a), a \in Activities, a.ip = 1,
         a.vector \in Faults \cup {Keyboard, Hpet, Spurious}
  PROVE  Drawers' = Drawers
<1>1. Code(c, a) # "draw"
  <2>1. CASE a.vector \in Faults
    <3>1. a.vector # Kernel /\ IsFault(a)
      BY <2>1, Vectors DEF IsFault, Activities
    <3>2. Code(c, a) = IF a.lines > 0 THEN ColorPrintk[1] ELSE "loop"
      BY <3>1 DEF Code
    <3> QED
      BY <3>2, Vectors
  <2>2. CASE a.vector \in {Keyboard, Hpet, Spurious}
    BY <2>2, Vectors, HandlerCode DEF Code, IsFault
  <2> QED
    BY <2>1, <2>2
<1>2. ASSUME NEW o \in Cpu, NEW d \in Nat
      PROVE  Draws(<<o, d>>)' <=> Draws(<<o, d>>)
  <2>1. CASE o = c /\ d = Depth(c) + 1
    BY <1>1, <2>1 DEF Draws, Drawing, Depth, Entered
  <2>2. CASE o = c /\ d # Depth(c) + 1
    <3>1. d \in 1 .. Depth(c)' <=> d \in 1 .. Depth(c)
      BY <2>2 DEF Depth, Entered
    <3> QED
      BY <2>2, <3>1 DEF Draws, Drawing, Entered
  <2>3. CASE o # c
    BY <2>3 DEF Draws, Drawing, Depth, Entered
  <2> QED
    BY <2>1, <2>2, <2>3
<1> QED
  BY <1>2 DEF Drawers

LEMMA DrawersIret ==
  ASSUME NEW c \in Cpu, At(c, "iret"), Returned(c)
  PROVE  Drawers' = Drawers
<1>1. ASSUME NEW o \in Cpu, NEW d \in Nat
      PROVE  Draws(<<o, d>>)' <=> Draws(<<o, d>>)
  <2>1. CASE o = c
    <3>1. ~ Drawing(c, 1) /\ ~ Drawing(c, 2) /\ ~ Drawing(c, 1)'
      BY DEF Drawing, At, Top, Returned
    <3>2. \A e \in 1 .. 2 : e = 1 \/ e = 2
      OBVIOUS
    <3>3. \A e \in 1 .. 1 : e = 1
      OBVIOUS
    <3>4. Depth(c) = 2 /\ Depth(c)' = 1
      BY DEF Depth, Returned
    <3>5. ~ Draws(<<o, d>>)
      BY <2>1, <3>1, <3>2, <3>4 DEF Draws
    <3>6. ~ Draws(<<o, d>>)'
      BY <2>1, <3>1, <3>3, <3>4 DEF Draws
    <3> QED
      BY <3>5, <3>6
  <2>2. CASE o # c
    BY <2>2 DEF Draws, Drawing, Depth, Returned
  <2> QED
    BY <2>1, <2>2
<1> QED
  BY <1>1 DEF Drawers

------------------------------------------------------------------------------
(* The initial states.                                                     *)

LEMMA IInvInit ==
  ASSUME Init
  PROVE  IInv
<1> DEFINE a == [vector |-> Kernel, lines |-> 0, ip |-> 1]
<1>1. a \in Activities /\ a.vector = Kernel /\ a.ip = 1
  BY DEF Activities
<1>2. ctx = [c \in Cpu |-> <<a>>]
  BY DEF Init
<1> HIDE DEF a
<1>3. ASSUME NEW c \in Cpu
      PROVE  ctx[c] = <<a>> /\ Depth(c) = 1 /\ ctx[c][1] = a
  BY <1>2 DEF Depth
<1>4. ASSUME NEW c \in Cpu
      PROVE  Valid(c, a) /\ Code(c, a) = "lidt"
  <2>1. Code(c, a) = KernelCode(c)[1] /\ ~ IsFault(a)
    BY <1>1, Vectors DEF Code, IsFault
  <2> QED
    BY <1>1, <2>1, BootCode, ApCode, Vectors DEF Valid
<1>5. Contexts
  <2>1. ASSUME NEW c \in Cpu
        PROVE  Context(c)
    <3>1. \A d \in 1 .. Depth(c) : d = 1 /\ ctx[c][d] = a
      BY <1>3
    <3> QED
      BY <1>1, <1>3, <1>4, <3>1 DEF Context, MaxDepth
  <2> QED
    BY <1>1, <1>2, <2>1 DEF Contexts
<1>6. TypeOK
  <2>1. \A c \in Cpu : ctx[c] \in Seq(Activities) /\ Depth(c) \in 1 .. MaxDepth
    BY <1>5 DEF Contexts, Context
  <2>2. ist1 \in [Cpu -> [owner : 0 .. MaxDepth, iflag : BOOLEAN, words : 0 .. 2]]
    BY DEF Init, MaxDepth
  <2>3. iflag \in [Cpu -> BOOLEAN] /\ idtr \subseteq Cpu /\ apic \subseteq Cpu
    BY DEF Init
  <2>4. irr \in [Cpu -> SUBSET (0 .. 255)] /\ isr \in [Cpu -> SUBSET (0 .. 255)]
    BY DEF Init
  <2>5. routed = FALSE /\ lock = 0 /\ ticks = 0 /\ scancode = "empty"
    BY DEF Init
  <2>6. routed \in BOOLEAN /\ lock \in {0, 1} /\ scancode \in {"empty", "requested", "unseen"}
    BY <2>5
  <2>7. ticks \in 0 .. MaxTicks
    BY <2>5
  <2> QED
    BY <2>1, <2>2, <2>3, <2>4, <2>6, <2>7 DEF TypeOK
<1>7. Drawers = {}
  <2>1. ASSUME NEW x \in Cpu \X Nat
        PROVE  ~ Draws(x)
    <3>1. x[2] \in 1 .. Depth(x[1]) => x[2] = 1
      BY <1>3
    <3> QED
      BY <1>3, <1>4, <3>1 DEF Draws, Drawing
  <2> QED
    BY <2>1 DEF Drawers
<1>8. Masking /\ Requests /\ KeyNotForgotten /\ lock = 0
  BY DEF Init, Masking, Requests, KeyNotForgotten
<1>9. Frames
  BY <1>3 DEF Frames
<1> QED
  BY <1>5, <1>6, <1>7, <1>8, <1>9 DEF IInv, Locking

------------------------------------------------------------------------------
(* Edges.                                                                  *)

\* The unmasked pins are the keyboard's and the timer's.
LEMMA Routes ==
  ASSUME NEW p, ~ Rte(p).masked
  PROVE  /\ Rte(p).vector \in {Keyboard, Hpet}
         /\ p = 1 => Rte(p).vector = Keyboard
<1>1. p \notin 11 .. 15
  BY DEF Rte, HighPins, Entry
<1>2. routed /\ p \in 0 .. 8 /\ Rte(p) = LowPins[p]
  BY <1>1 DEF Rte, Entry
<1>3. LowPins[p] = [vector |-> 48 + p, masked |-> p \notin {1, 2}]
  BY <1>2 DEF LowPins, Entry
<1>4. LowPins[p].masked = (p \notin {1, 2}) /\ LowPins[p].vector = 48 + p
  BY <1>3
<1>5. p = 1 \/ p = 2
  BY <1>2, <1>4
<1>6. Rte(p).vector = 48 + p
  BY <1>2, <1>4
<1> QED
  BY <1>5, <1>6 DEF Keyboard, Hpet

LEMMA RequestEffect ==
  ASSUME IInv, NEW p, RequestAt(p)
  PROVE  /\ Requests' /\ irr' \in [Cpu -> SUBSET (0 .. 255)]
         /\ irr[Bsp] \subseteq irr'[Bsp]
         /\ p = 1 /\ Arrives(1) => Keyboard \in irr'[Bsp]
<1>1. irr \in [Cpu -> SUBSET (0 .. 255)] /\ Requests
  BY DEF IInv, TypeOK
<1>2. CASE Arrives(p)
  <2>1. Rte(p).vector \in {Keyboard, Hpet} /\ (p = 1 => Rte(p).vector = Keyboard)
    BY <1>2, Routes DEF Arrives
  <2>2. irr' = [irr EXCEPT ![Bsp] = irr[Bsp] \cup {Rte(p).vector}]
    BY <1>2 DEF RequestAt
  <2>3. Requests'
    BY <1>1, <2>1, <2>2 DEF Requests
  <2>4. irr' \in [Cpu -> SUBSET (0 .. 255)]
    BY <1>1, <2>1, <2>2, Vectors
  <2> QED
    BY <1>1, <2>1, <2>2, <2>3, <2>4
<1>3. CASE ~ Arrives(p)
  BY <1>1, <1>3 DEF RequestAt, Requests
<1> QED
  BY <1>2, <1>3

\* The same activities.
LEMMA SameContexts ==
  ASSUME IInv, UNCHANGED <<ctx, lock>>
  PROVE  Contexts' /\ Locking'
<1> QED
  BY DEF IInv, Contexts, Context, Depth, Locking, Drawers, Draws, Drawing

LEMMA EdgeStep ==
  ASSUME IInv, PressKey \/ \E p \in Pins : RaiseLine(p)
  PROVE  IInv'
<1>1. UNCHANGED <<ctx, iflag, ist1, isr, idtr, apic, routed, lock>>
  BY DEF PressKey, RaiseLine
<1>2. Contexts' /\ Locking' /\ Masking' /\ Frames'
  BY <1>1, SameContexts DEF IInv, Masking, Frames, Depth, At, Top
<1>3. CASE PressKey
  <2>1. Requests' /\ irr' \in [Cpu -> SUBSET (0 .. 255)] /\ (Arrives(1) => Keyboard \in irr'[Bsp])
    BY <1>3, RequestEffect DEF PressKey
  <2>2. TypeOK'
    BY <1>1, <1>2, <1>3, <2>1 DEF PressKey, IInv, TypeOK, Contexts, Context
  <2>3. KeyNotForgotten'
    BY <1>3, <2>1 DEF PressKey, KeyNotForgotten
  <2> QED
    BY <1>2, <2>1, <2>2, <2>3 DEF IInv
<1>4. ASSUME NEW p \in Pins, RaiseLine(p)
      PROVE  IInv'
  <2>1. Requests' /\ irr' \in [Cpu -> SUBSET (0 .. 255)] /\ irr[Bsp] \subseteq irr'[Bsp]
    BY <1>4, RequestEffect DEF RaiseLine
  <2>2. TypeOK'
    <3>1. \A c \in Cpu : ctx'[c] \in Seq(Activities) /\ Depth(c)' \in 1 .. MaxDepth
      BY <1>2 DEF Contexts, Context
    <3>2. ticks' \in 0 .. MaxTicks /\ scancode' = scancode
      BY <1>4 DEF RaiseLine, IInv, TypeOK
    <3> QED
      BY <1>1, <2>1, <3>1, <3>2 DEF IInv, TypeOK
  <2>3. KeyNotForgotten'
    BY <1>1, <1>4, <2>1 DEF RaiseLine, IInv, KeyNotForgotten, Depth
  <2> QED
    BY <1>2, <2>1, <2>2, <2>3 DEF IInv
<1> QED
  BY <1>3, <1>4

------------------------------------------------------------------------------
(* Deliveries and exceptions.                                              *)

\* A handler that will read the key.
Reading ==
  \E d \in 1 .. Depth(Bsp) : ctx[Bsp][d].vector = Keyboard /\ Code(Bsp, ctx[Bsp][d]) = "in"

\* Every frame on IST1 has one word more than the CPU's three and its flags.
LEMMA OneWord ==
  ASSUME NEW v \in 0 .. 255
  PROVE  FrameWords(v) = 1
<1> QED
  BY DEF FrameWords, PushesErrorCode, PushesZero

\* Exceptions are the only activities above the second.
LEMMA FaultDepth ==
  ASSUME IInv, NEW c \in Cpu, Cardinality(FaultFrames) < MaxFaults
  PROVE  Depth(c) < MaxDepth
<1> SUFFICES ASSUME Depth(c) >= MaxDepth
             PROVE  FALSE
  BY DEF IInv, Contexts, Context, MaxDepth
<1> DEFINE above == 3 .. MaxDepth
<1>1. Context(c) /\ Depth(c) = MaxDepth /\ MaxDepth = 2 + MaxFaults
  BY DEF IInv, Contexts, Context, MaxDepth
<1>2. IsFiniteSet(above) /\ Cardinality(above) = MaxFaults
  BY <1>1, FS_Interval
<1>3. IsFiniteSet({c}) /\ Cardinality({c}) = 1
  BY FS_Singleton
<1>4. IsFiniteSet({c} \X above) /\ Cardinality({c} \X above) = 1 * MaxFaults
  BY <1>2, <1>3, FS_Product
<1>5. IsFiniteSet(Places)
  <2>1. IsFiniteSet(1 .. MaxDepth)
    BY <1>1, FS_Interval
  <2> QED
    BY <2>1, FS_Product DEF Places
<1>6. FaultFrames \in SUBSET Places
  BY DEF FaultFrames
<1>7. {c} \X above \in SUBSET FaultFrames
  <2>1. ASSUME NEW d \in above
        PROVE  <<c, d>> \in FaultFrames
    BY <1>1 DEF Context, Places, FaultFrames
  <2> QED
    BY <2>1
<1>8. IsFiniteSet(FaultFrames)
  BY <1>5, <1>6, FS_Subset
<1>9. Cardinality({c} \X above) <= Cardinality(FaultFrames)
  BY <1>7, <1>8, FS_Subset
<1> QED
  BY <1>4, <1>8, <1>9, FS_CardinalityType

LEMMA EnterStep ==
  ASSUME IInv, NEW c \in Cpu, NEW v \in 0 .. 255, NEW n \in 0 .. 8, Enter(c, v, n),
         \/ v \in Faults /\ Depth(c) < MaxDepth /\ ~ iflag[c]
         \/ v \in {Keyboard, Hpet, Spurious} /\ iflag[c],
         UNCHANGED <<idtr, apic, routed, lock, scancode, ticks>>,
         irr' \in [Cpu -> SUBSET (0 .. 255)], Requests', isr' \in [Cpu -> SUBSET (0 .. 255)],
         Keyboard \in irr[Bsp] => Keyboard \in irr'[Bsp] \/ (c = Bsp /\ v = Keyboard)
  PROVE  IInv'
<1> DEFINE a == [vector |-> v, lines |-> n, ip |-> 1]
<1>1. a \in Activities /\ a.vector = v /\ a.ip = 1 /\ Entered(c, a)
  <2>1. a \in Activities /\ a.vector = v /\ a.ip = 1
    BY DEF Activities
  <2>2. Contexts
    BY DEF IInv
  <2>3. Entered(c, a)
    BY <2>2, EnterEffect
  <2> QED
    BY <2>1, <2>3
<1> HIDE DEF a
<1>2. iflag[c] => Depth(c) = 1 /\ At(c, "idle")
  BY DEF IInv, Masking
<1>3. Contexts'
  BY <1>1, <1>2, ContextsEnter DEF IInv
<1>4. Drawers' = Drawers
  BY <1>1, DrawersEnter DEF IInv
<1>5. Locking'
  BY <1>4 DEF IInv, Locking
<1>6. iflag' \in [Cpu -> BOOLEAN] /\ ~ iflag'[c] /\ \A o \in Cpu \ {c} : iflag'[o] = iflag[o]
  <2>1. iflag' = [iflag EXCEPT ![c] = iflag[c] /\ v \in TrapGates]
    BY DEF Enter
  <2>2. iflag \in [Cpu -> BOOLEAN]
    BY DEF IInv, TypeOK
  <2>3. (iflag[c] /\ v \in TrapGates) = FALSE
    <3>1. CASE ~ iflag[c]
      BY <3>1
    <3>2. CASE v \in {Keyboard, Hpet, Spurious}
      BY <3>2, Vectors DEF TrapGates
    <3> QED
      BY <3>1, <3>2
  <2>4. iflag' = [iflag EXCEPT ![c] = FALSE]
    BY <2>1, <2>3
  <2> QED
    BY <2>2, <2>4
<1>7. Masking'
  <2>1. \A o \in Cpu \ {c} : ctx'[o] = ctx[o]
    BY <1>1 DEF Entered
  <2> QED
    BY <1>6, <2>1 DEF IInv, Masking, Depth, At, Top
<1>8. ist1' = [ist1 EXCEPT ![c] = [owner |-> Depth(c) + 1, iflag |-> iflag[c], words |-> 1]]
  BY OneWord DEF Enter
<1>9. Depth(c)' = Depth(c) + 1 /\ Depth(c) + 1 \in 0 .. MaxDepth /\ iflag[c] \in BOOLEAN
  BY <1>1, <1>3 DEF Entered, Contexts, Context, Depth, IInv, TypeOK
<1>10. ist1' \in [Cpu -> [owner : 0 .. MaxDepth, iflag : BOOLEAN, words : 0 .. 2]]
  BY <1>8, <1>9 DEF IInv, TypeOK
<1>11. Frames'
  <2>1. \A o \in Cpu \ {c} : Depth(o)' = Depth(o)
    BY <1>1 DEF Entered, Depth
  <2>2. ist1 \in [Cpu -> [owner : 0 .. MaxDepth, iflag : BOOLEAN, words : 0 .. 2]]
    BY DEF IInv, TypeOK
  <2> QED
    BY <1>8, <1>9, <2>1, <2>2 DEF IInv, Frames
<1>12. TypeOK'
  <2>1. \A o \in Cpu : ctx'[o] \in Seq(Activities) /\ Depth(o)' \in 1 .. MaxDepth
    BY <1>3 DEF Contexts, Context
  <2> QED
    BY <1>6, <1>10, <2>1 DEF IInv, TypeOK
<1>13. Reading => Reading'
  <2> SUFFICES ASSUME NEW d \in 1 .. Depth(Bsp), ctx[Bsp][d].vector = Keyboard,
                      Code(Bsp, ctx[Bsp][d]) = "in"
               PROVE  Reading'
    BY DEF Reading
  <2>1. d \in 1 .. Depth(Bsp)' /\ ctx'[Bsp][d] = ctx[Bsp][d]
    BY <1>1 DEF Entered, Depth
  <2> QED
    BY <2>1 DEF Reading
<1>14. c = Bsp /\ v = Keyboard => Reading'
  <2> SUFFICES ASSUME c = Bsp, v = Keyboard
               PROVE  Reading'
    OBVIOUS
  <2>1. Depth(c) + 1 \in 1 .. Depth(Bsp)' /\ ctx'[Bsp][Depth(c) + 1] = a
    BY <1>1, <1>9 DEF Entered
  <2>2. Code(Bsp, a) = "in"
    BY <1>1, Vectors, HandlerCode DEF Code, IsFault
  <2> QED
    BY <1>1, <2>1, <2>2 DEF Reading
<1>15. KeyNotForgotten'
  BY <1>13, <1>14 DEF IInv, KeyNotForgotten, Reading
<1> QED
  BY <1>3, <1>5, <1>7, <1>11, <1>12, <1>15 DEF IInv

LEMMA DeliverStep ==
  ASSUME IInv, NEW c \in Cpu, Deliver(c)
  PROVE  IInv'
<1>1. PICK v \in irr[c] : /\ Enter(c, v, 0)
                          /\ irr' = [irr EXCEPT ![c] = irr[c] \ {v}]
                          /\ isr' = [isr EXCEPT ![c] = isr[c] \cup {v}]
  BY DEF Deliver
<1>2. v \in {Keyboard, Hpet} /\ v \in 0 .. 255
  BY Vectors DEF IInv, Requests
<1>3. irr \in [Cpu -> SUBSET (0 .. 255)] /\ isr \in [Cpu -> SUBSET (0 .. 255)]
  BY DEF IInv, TypeOK
<1>4. irr' \in [Cpu -> SUBSET (0 .. 255)] /\ isr' \in [Cpu -> SUBSET (0 .. 255)]
  BY <1>1, <1>2, <1>3
<1>5. Requests'
  BY <1>1, <1>3 DEF IInv, Requests
<1>6. Keyboard \in irr[Bsp] => Keyboard \in irr'[Bsp] \/ (c = Bsp /\ v = Keyboard)
  BY <1>1, <1>3
<1>7. iflag[c] /\ UNCHANGED <<idtr, apic, routed, lock, scancode, ticks>> /\ 0 \in 0 .. 8
  BY DEF Deliver
<1> QED
  BY <1>1, <1>2, <1>4, <1>5, <1>6, <1>7, EnterStep

LEMMA SpuriousStep ==
  ASSUME IInv, NEW c \in Cpu, DeliverSpurious(c)
  PROVE  IInv'
<1>1. irr' = irr /\ isr' = isr /\ Spurious \in 0 .. 255 /\ 0 \in 0 .. 8
  BY DEF DeliverSpurious, Spurious
<1>2. /\ iflag[c] /\ Enter(c, Spurious, 0)
      /\ UNCHANGED <<idtr, apic, routed, lock, scancode, ticks>>
  BY DEF DeliverSpurious
<1>3. irr' \in [Cpu -> SUBSET (0 .. 255)] /\ isr' \in [Cpu -> SUBSET (0 .. 255)] /\ Requests'
  BY <1>1 DEF IInv, TypeOK, Requests
<1> QED
  BY <1>1, <1>2, <1>3, EnterStep

LEMMA RaiseStep ==
  ASSUME IInv, NEW c \in Cpu, NEW v \in Faults, Raise(c, v)
  PROVE  IInv'
<1>1. irr' = irr /\ isr' = isr /\ v \in 0 .. 255
  BY Vectors DEF Raise
<1>6. irr' \in [Cpu -> SUBSET (0 .. 255)] /\ isr' \in [Cpu -> SUBSET (0 .. 255)] /\ Requests'
  BY <1>1 DEF IInv, TypeOK, Requests
<1>2. PICK n \in Lines(v) : Enter(c, v, n)
  BY DEF Raise
<1>3. n \in 0 .. 8
  BY DEF Lines, SelectorLines, PageFaultLines, LateLines, PlainLines
<1>4. Depth(c) < MaxDepth
  BY FaultDepth DEF Raise
<1>5. ~ iflag[c] /\ UNCHANGED <<idtr, apic, routed, lock, scancode, ticks>>
  BY DEF Raise, IInv, Masking
<1> QED
  BY <1>1, <1>2, <1>3, <1>4, <1>5, <1>6, EnterStep

------------------------------------------------------------------------------
(* The steps of the code.                                                  *)

\* What every step that goes on in its program preserves.
LEMMA GoOn ==
  ASSUME IInv, NEW c \in Cpu, NEW step \in Steps, At(c, step), Advance(c), ist1' = ist1
  PROVE  /\ Contexts' /\ Frames' /\ Advanced(c)
         /\ \A o \in Cpu : ctx'[o] \in Seq(Activities) /\ Depth(o)' \in 1 .. MaxDepth
         /\ ist1' \in [Cpu -> [owner : 0 .. MaxDepth, iflag : BOOLEAN, words : 0 .. 2]]
         /\ iflag' = iflag => Masking'
         /\ step # "in" => (Reading => Reading')
<1>1. Contexts /\ Code(c, Top(c)) = step
  BY DEF IInv, At
<1>2. Advanced(c)
  BY <1>1, AdvanceEffect
<1>3. Contexts'
  BY <1>1, <1>2, ContextsAdvance
<1>4. \A o \in Cpu : Depth(o)' = Depth(o)
  BY <1>2 DEF Advanced, Depth
<1>5. Frames'
  BY <1>4 DEF IInv, Frames
<1>6. \A o \in Cpu : ctx'[o] \in Seq(Activities) /\ Depth(o)' \in 1 .. MaxDepth
  BY <1>3 DEF Contexts, Context
<1>7. ist1' \in [Cpu -> [owner : 0 .. MaxDepth, iflag : BOOLEAN, words : 0 .. 2]]
  BY DEF IInv, TypeOK
<1>8. ~ iflag[c]
  BY DEF IInv, Masking, At, Steps
<1>9. ASSUME iflag' = iflag
      PROVE  Masking'
  <2>1. \A o \in Cpu \ {c} : ctx'[o] = ctx[o]
    BY <1>2 DEF Advanced
  <2> QED
    BY <1>8, <1>9, <2>1 DEF IInv, Masking, Depth, At, Top
<1>10. ASSUME step # "in", Reading
       PROVE  Reading'
  <2>1. PICK d \in 1 .. Depth(Bsp) : ctx[Bsp][d].vector = Keyboard /\ Code(Bsp, ctx[Bsp][d]) = "in"
    BY <1>10 DEF Reading
  <2>2. c = Bsp => d # Depth(c)
    BY <1>1, <1>10, <2>1 DEF Top
  <2>3. d \in 1 .. Depth(Bsp)' /\ ctx'[Bsp][d] = ctx[Bsp][d]
    <3>1. CASE c = Bsp
      <4>1. d \in 1 .. Depth(c) - 1
        BY <1>2, <2>2, <3>1 DEF Advanced
      <4> QED
        BY <1>2, <1>4, <3>1, <4>1 DEF Advanced
    <3>2. CASE c # Bsp
      BY <1>2, <1>4, <3>2 DEF Advanced
    <3> QED
      BY <3>1, <3>2
  <2> QED
    BY <2>1, <2>3 DEF Reading
<1> QED
  BY <1>2, <1>3, <1>5, <1>6, <1>7, <1>9, <1>10

LEMMA KeyKept ==
  ASSUME KeyNotForgotten, Reading => Reading', UNCHANGED <<irr, scancode>>
  PROVE  KeyNotForgotten'
<1> QED
  BY DEF KeyNotForgotten, Reading

\* Steps that neither print nor touch the masks or the keyboard.
LEMMA PlainStep ==
  ASSUME IInv, NEW c \in Cpu, LoadIdt(c) \/ IoapicInit(c) \/ ApicInit(c) \/ Eoi(c)
  PROVE  IInv'
<1>1. PICK step \in {"lidt", "ioapic_init", "apic_init", "eoi"} : At(c, step)
  BY DEF LoadIdt, IoapicInit, ApicInit, Eoi
<1>2. Advance(c) /\ UNCHANGED <<iflag, ist1, irr, lock, scancode, ticks>>
  BY DEF LoadIdt, IoapicInit, ApicInit, Eoi
<1>3. step \in Steps /\ step # "in" /\ step \notin {"lock", "draw"}
  BY <1>1 DEF Steps
<1>4. /\ Contexts' /\ Frames' /\ Advanced(c) /\ Masking' /\ (Reading => Reading')
      /\ \A o \in Cpu : ctx'[o] \in Seq(Activities) /\ Depth(o)' \in 1 .. MaxDepth
      /\ ist1' \in [Cpu -> [owner : 0 .. MaxDepth, iflag : BOOLEAN, words : 0 .. 2]]
  BY <1>1, <1>2, <1>3, GoOn
<1>5. idtr' \subseteq Cpu /\ apic' \subseteq Cpu /\ routed' \in BOOLEAN
  BY DEF LoadIdt, IoapicInit, ApicInit, Eoi, IInv, TypeOK
<1>6. isr' \in [Cpu -> SUBSET (0 .. 255)]
  <2>1. isr \in [Cpu -> SUBSET (0 .. 255)]
    BY DEF IInv, TypeOK
  <2>2. CASE Eoi(c)
    <3>1. PICK S \in SUBSET (0 .. 255) : isr' = [isr EXCEPT ![c] = S]
      BY <2>1, <2>2 DEF Eoi
    <3> QED
      BY <2>1, <3>1
  <2> QED
    BY <2>1, <2>2 DEF LoadIdt, IoapicInit, ApicInit
<1>7. TypeOK'
  BY <1>2, <1>4, <1>5, <1>6 DEF IInv, TypeOK
<1>8. Locking'
  <2>1. Drawers' = Drawers
    BY <1>1, <1>3, <1>4, DrawersAdvance DEF At, IInv
  <2> QED
    BY <1>2, <2>1 DEF IInv, Locking
<1>9. KeyNotForgotten' /\ Requests'
  BY <1>2, <1>4, KeyKept DEF IInv, Requests
<1> QED
  BY <1>4, <1>7, <1>8, <1>9 DEF IInv

\* SPIN_LOCK and its release: the CPU becomes or ceases to be the one drawer.
LEMMA PrintStep ==
  ASSUME IInv, NEW c \in Cpu, LockConsole(c) \/ UnlockConsole(c)
  PROVE  IInv'
<1>1. PICK step \in {"lock", "draw"} : At(c, step)
  BY DEF LockConsole, UnlockConsole
<1>2. Advance(c) /\ UNCHANGED <<iflag, ist1, irr, isr, idtr, apic, routed, scancode, ticks>>
  BY DEF LockConsole, UnlockConsole
<1>3. step \in Steps /\ step # "in"
  BY <1>1 DEF Steps
<1>4. /\ Contexts' /\ Frames' /\ Advanced(c) /\ Masking' /\ (Reading => Reading')
      /\ \A o \in Cpu : ctx'[o] \in Seq(Activities) /\ Depth(o)' \in 1 .. MaxDepth
      /\ ist1' \in [Cpu -> [owner : 0 .. MaxDepth, iflag : BOOLEAN, words : 0 .. 2]]
  BY <1>1, <1>2, <1>3, GoOn
<1> DEFINE x == <<c, Depth(c)>>
<1>5. Contexts /\ Locking
  BY DEF IInv
<1>6. CASE LockConsole(c)
  <2>1. lock = 0 /\ lock' = 1 /\ Code(c, Top(c)) = "lock"
    BY <1>6 DEF LockConsole, At
  <2>2. Drawers' = Drawers \cup {x}
    BY <1>4, <1>5, <2>1, DrawersAdvance DEF Steps
  <2>3. Drawers' = {x}
    BY <1>5, <2>1, <2>2 DEF Locking
  <2> QED
    BY <1>2, <1>4, <2>1, <2>3, KeyKept DEF IInv, TypeOK, Locking, Requests
<1>7. CASE UnlockConsole(c)
  <2>1. lock' = 0 /\ Code(c, Top(c)) = "draw"
    BY <1>7 DEF UnlockConsole, At
  <2>2. x \in Drawers /\ Drawers' = Drawers \ {x}
    BY <1>4, <1>5, <2>1, DrawersAdvance DEF Steps
  <2>3. Drawers' = {}
    BY <1>5, <2>2 DEF Locking
  <2> QED
    BY <1>2, <1>4, <2>1, <2>3, KeyKept DEF IInv, TypeOK, Locking, Requests
<1> QED
  BY <1>6, <1>7

\* sti stands before the empty loop.
LEMMA StiStep ==
  ASSUME IInv, NEW c \in Cpu, Sti(c)
  PROVE  IInv'
<1>1. At(c, "sti") /\ Advance(c) /\ iflag' = [iflag EXCEPT ![c] = TRUE]
      /\ UNCHANGED <<ist1, irr, isr, idtr, apic, routed, lock, scancode, ticks>>
  BY DEF Sti
<1>2. "sti" \in Steps /\ "sti" # "in" /\ "sti" \notin {"lock", "draw"}
  BY DEF Steps
<1>3. /\ Contexts' /\ Frames' /\ Advanced(c) /\ (Reading => Reading')
      /\ \A o \in Cpu : ctx'[o] \in Seq(Activities) /\ Depth(o)' \in 1 .. MaxDepth
      /\ ist1' \in [Cpu -> [owner : 0 .. MaxDepth, iflag : BOOLEAN, words : 0 .. 2]]
  BY <1>1, <1>2, GoOn
<1>4. Top(c).vector = Kernel /\ Code(c, Succ(c, Top(c))) = "idle"
  BY <1>1, <1>3, ActivityFollows DEF Advanced, Follows, At
<1>5. Depth(c) = 1
  BY <1>4 DEF IInv, Contexts, Context, Top
<1>6. Depth(c)' = 1 /\ At(c, "idle")'
  BY <1>3, <1>4, <1>5 DEF Advanced, Depth, At, Top
<1>7. Masking'
  <2>1. \A o \in Cpu \ {c} : ctx'[o] = ctx[o]
    BY <1>3 DEF Advanced
  <2>2. \A o \in Cpu \ {c} : iflag'[o] = iflag[o]
    BY <1>1 DEF IInv, TypeOK
  <2> QED
    BY <1>6, <2>1, <2>2 DEF IInv, Masking, Depth, At, Top
<1>8. Locking'
  <2>1. Drawers' = Drawers
    BY <1>1, <1>2, <1>3, DrawersAdvance DEF At, IInv
  <2> QED
    BY <1>1, <2>1 DEF IInv, Locking
<1>9. TypeOK'
  BY <1>1, <1>3 DEF IInv, TypeOK
<1> QED
  BY <1>1, <1>3, <1>7, <1>8, <1>9, KeyKept DEF IInv, Requests

LEMMA ReadStep ==
  ASSUME IInv, NEW c \in Cpu, ReadScancode(c)
  PROVE  IInv'
<1>1. At(c, "in") /\ Advance(c) /\ scancode' = "empty"
      /\ UNCHANGED <<iflag, ist1, irr, isr, idtr, apic, routed, lock, ticks>>
  BY DEF ReadScancode
<1>2. "in" \in Steps /\ "in" \notin {"lock", "draw"}
  BY DEF Steps
<1>3. /\ Contexts' /\ Frames' /\ Advanced(c) /\ Masking'
      /\ \A o \in Cpu : ctx'[o] \in Seq(Activities) /\ Depth(o)' \in 1 .. MaxDepth
      /\ ist1' \in [Cpu -> [owner : 0 .. MaxDepth, iflag : BOOLEAN, words : 0 .. 2]]
  BY <1>1, <1>2, GoOn
<1>4. Drawers' = Drawers
  BY <1>1, <1>2, <1>3, DrawersAdvance DEF At, IInv
<1>5. Locking' /\ Requests' /\ KeyNotForgotten'
  BY <1>1, <1>4 DEF IInv, Locking, Requests, KeyNotForgotten
<1>6. TypeOK'
  BY <1>1, <1>3 DEF IInv, TypeOK
<1> QED
  BY <1>3, <1>5, <1>6 DEF IInv

\* The frame popped may enable interrupts, as the loop below had them.
LEMMA IretStep ==
  ASSUME IInv, NEW c \in Cpu, Iret(c)
  PROVE  IInv'
<1>1. /\ At(c, "iret") /\ ctx' = [ctx EXCEPT ![c] = SubSeq(@, 1, Len(@) - 1)]
      /\ iflag' = [iflag EXCEPT ![c] = ist1[c].iflag]
      /\ UNCHANGED <<ist1, irr, isr, idtr, apic, routed, lock, scancode, ticks>>
  BY DEF Iret
<1>2. Returned(c)
  BY <1>1, IretEffect DEF IInv
<1>3. Contexts' /\ Drawers' = Drawers
  BY <1>1, <1>2, ContextsIret, DrawersIret DEF IInv
<1>4. Locking'
  BY <1>1, <1>3 DEF IInv, Locking
<1>5. Depth(c)' = 1 /\ At(c, "idle")'
  BY <1>2 DEF Returned, Depth, At, Top
<1>6. \A o \in Cpu \ {c} : ctx'[o] = ctx[o] /\ Depth(o)' = Depth(o)
  BY <1>2 DEF Returned, Depth
<1>7. Masking'
  <2>1. \A o \in Cpu \ {c} : iflag'[o] = iflag[o]
    BY <1>1 DEF IInv, TypeOK
  <2> QED
    BY <1>5, <1>6, <2>1 DEF IInv, Masking, Depth, At, Top
<1>8. Frames'
  BY <1>1, <1>5, <1>6 DEF IInv, Frames
<1>9. TypeOK'
  <2>1. \A o \in Cpu : ctx'[o] \in Seq(Activities) /\ Depth(o)' \in 1 .. MaxDepth
    BY <1>3 DEF Contexts, Context
  <2>2. iflag' \in [Cpu -> BOOLEAN]
    BY <1>1 DEF IInv, TypeOK
  <2> QED
    BY <1>1, <2>1, <2>2 DEF IInv, TypeOK
<1>10. Reading => Reading'
  <2>1. CASE c # Bsp
    BY <1>6, <2>1 DEF Reading
  <2>2. CASE c = Bsp
    <3>1. Code(c, ctx[c][1]) # "in" /\ Code(c, ctx[c][2]) # "in" /\ Depth(c) = 2
      BY <1>1, <1>2 DEF At, Top, Returned
    <3>2. \A d \in 1 .. 2 : d = 1 \/ d = 2
      OBVIOUS
    <3> QED
      BY <2>2, <3>1, <3>2 DEF Reading
  <2> QED
    BY <2>1, <2>2
<1> QED
  BY <1>1, <1>3, <1>4, <1>7, <1>8, <1>9, <1>10, KeyKept DEF IInv, Requests

------------------------------------------------------------------------------
(* The invariant and what follows from it.                                 *)

LEMMA IInvStep ==
  ASSUME IInv, [Next]_vars
  PROVE  IInv'
<1>1. CASE Next
  BY <1>1, EdgeStep, DeliverStep, SpuriousStep, RaiseStep, PlainStep, PrintStep, StiStep,
     ReadStep, IretStep
  DEF Next, Step
<1>2. CASE UNCHANGED vars
  <2>1. Contexts' /\ Locking'
    BY <1>2, SameContexts DEF vars
  <2> QED
    BY <1>2, <2>1
    DEF vars, IInv, TypeOK, Masking, Frames, Requests, KeyNotForgotten, Depth, At, Top
<1> QED
  BY <1>1, <1>2

LEMMA InvariantHolds == Spec => []IInv
<1> QED
  BY IInvInit, IInvStep, PTL DEF Spec

(* Contexts, masks, requests and the interrupt stack keep their types, and *)
(* at most one device handler and MaxFaults exceptions nest on a CPU.      *)
THEOREM TypeCorrect == Spec => []TypeOK
<1>1. IInv => TypeOK
  BY DEF IInv
<1> QED
  BY <1>1, InvariantHolds, PTL

(* Whatever interrupts whatever, on any number of CPUs, one activity draws *)
(* at a time and Pos.lock is 1 exactly then.                               *)
THEOREM OneDrawerAtATime == Spec => []OneDrawer
<1>1. ASSUME IInv
      PROVE  OneDrawer
  <2> DEFINE here == {x \in Places : x[2] <= Depth(x[1]) /\ Drawing(x[1], x[2])}
  <2>1. here = Drawers
    <3>1. ASSUME NEW c \in Cpu, NEW d \in Nat
          PROVE  <<c, d>> \in here <=> <<c, d>> \in Drawers
      <4>1. Depth(c) \in Nat /\ Depth(c) <= MaxDepth /\ MaxDepth \in Nat
        BY <1>1 DEF IInv, Contexts, Context, MaxDepth
      <4>2. d \in 1 .. Depth(c) <=> d \in 1 .. MaxDepth /\ d <= Depth(c)
        BY <4>1
      <4> QED
        BY <4>2 DEF Places, Drawers, Draws
    <3>2. here \subseteq Cpu \X Nat /\ Drawers \subseteq Cpu \X Nat
      BY DEF Places, Drawers
    <3> QED
      BY <3>1, <3>2
  <2> HIDE DEF here
  <2>2. lock \in {0, 1} /\ (lock = 0 => here = {}) /\ (lock = 1 => \E x : here = {x})
    BY <1>1, <2>1 DEF IInv, Locking
  <2>3. Cardinality(here) = lock
    BY <2>2, FS_EmptySet, FS_Singleton
  <2> QED
    BY <2>3 DEF OneDrawer, here
<1> QED
  BY <1>1, InvariantHolds, PTL

(* A CPU waits for a console lock that it holds itself only behind an      *)
(* exception handler: no device interrupt makes a CPU wait for itself.     *)
THEOREM DevicesDoNotDeadlock == Spec => []SelfDeadlockOnlyByFault
<1>1. ASSUME IInv
      PROVE  SelfDeadlockOnlyByFault
  <2> SUFFICES ASSUME NEW c \in Cpu, NEW d \in 1 .. Depth(c) - 1, Drawing(c, d)
               PROVE  \E e \in d + 1 .. Depth(c) : IsFault(ctx[c][e])
    BY DEF SelfDeadlockOnlyByFault
  <2>1. Context(c) /\ Depth(c) \in Nat /\ Depth(c) > 1
    BY <1>1 DEF IInv, Contexts, Context
  <2>2. CASE Depth(c) >= 3
    <3>1. IsFault(ctx[c][Depth(c)]) /\ Depth(c) \in d + 1 .. Depth(c)
      BY <2>1, <2>2 DEF Context
    <3> QED
      BY <3>1
  <2>3. CASE Depth(c) = 2
    <3>1. d = 1 /\ 2 \in d + 1 .. Depth(c)
      BY <2>3
    <3>2. IsFault(ctx[c][2])
      BY <2>1, <3>1 DEF Context, Drawing
    <3> QED
      BY <3>1, <3>2
  <2> QED
    BY <2>1, <2>2, <2>3
<1> QED
  BY <1>1, InvariantHolds, PTL

(* Although all gates share IST1, a handler that returns finds its own     *)
(* frame there, with RIP where linkage.h expects it.                       *)
THEOREM OwnFrame == Spec => []ReturnsThroughOwnFrame
<1>1. ASSUME IInv
      PROVE  ReturnsThroughOwnFrame
  <2> SUFFICES ASSUME NEW c \in Cpu
               PROVE  /\ Depth(c) > 1 => ist1[c].words = 1
                      /\ At(c, "iret") => ist1[c].owner = Depth(c)
    BY DEF ReturnsThroughOwnFrame
  <2>1. Context(c) /\ (Depth(c) > 1 => ist1[c].words = 1 /\ ist1[c].owner = Depth(c))
    BY <1>1 DEF IInv, Contexts, Frames
  <2>2. ASSUME At(c, "iret")
        PROVE  Depth(c) > 1
    <3>1. Depth(c) \in 1 .. Depth(c) /\ Valid(c, Top(c)) /\ Depth(c) \in Nat
      BY <2>1 DEF Context, Top
    <3>2. Top(c).vector # Kernel
      BY <2>2, <3>1, ActivityFollows, Vectors DEF Follows, At
    <3> QED
      BY <2>1, <3>1, <3>2 DEF Context, Top
  <2> QED
    BY <2>1, <2>2
<1> QED
  BY <1>1, InvariantHolds, PTL

(* An exception handler runs with interrupts disabled, although its gate   *)
(* is a trap gate.                                                         *)
THEOREM ExceptionsRunMasked == Spec => []FaultsRunMasked
<1>1. ASSUME IInv
      PROVE  FaultsRunMasked
  <2> SUFFICES ASSUME NEW c \in Cpu, NEW d \in 1 .. Depth(c), IsFault(ctx[c][d]), iflag[c]
               PROVE  FALSE
    BY DEF FaultsRunMasked
  <2>1. Context(c) /\ Depth(c) = 1 /\ d = 1
    BY <1>1 DEF IInv, Contexts, Masking
  <2> QED
    BY <2>1, Vectors DEF Context, IsFault
<1> QED
  BY <1>1, InvariantHolds, PTL

(* Only spurious interrupts end in the handler that never returns.         *)
THEOREM DevicesAreHandled == Spec => []OnlySpuriousIsIgnored
<1>1. ASSUME IInv
      PROVE  OnlySpuriousIsIgnored
  <2> SUFFICES ASSUME NEW c \in Cpu, NEW d \in 1 .. Depth(c)
               PROVE  ctx[c][d].vector \in Installed \cup {Kernel, Spurious}
    BY DEF OnlySpuriousIsIgnored
  <2>1. ctx[c][d].vector \in {Kernel, Keyboard, Hpet, Spurious} \cup Faults
    BY <1>1 DEF IInv, Contexts, Context, Valid
  <2> QED
    BY <2>1 DEF Installed
<1> QED
  BY <1>1, InvariantHolds, PTL

(* A key whose edge arrived is requested or about to be read.              *)
THEOREM KeysAreNotForgotten == Spec => []KeyNotForgotten
<1>1. IInv => KeyNotForgotten
  BY DEF IInv
<1> QED
  BY <1>1, InvariantHolds, PTL

==============================================================================
