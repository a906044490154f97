--------------------------- MODULE KernelBootProofs ---------------------------
(***************************************************************************)
(* Proofs about KernelBoot, for every number of CPUs and every core count  *)
(* that is not below it.                                                   *)
(***************************************************************************)
EXTENDS KernelBoot, FiniteSetTheorems, TLAPS

USE CpuAssumption

------------------------------------------------------------------------------
(* The calls of Kernel_init.                                               *)

\* The stage of ap_init, the last call.
ApInit == 12

LEMMA CallOrder ==
  /\ Len(KernelInit) = ApInit
  /\ Finished = ApInit + 1
  /\ KernelInit[ApInit] = "ap_init"
  /\ \A k \in 1 .. ApInit : KernelInit[k] = "ap_init" => k = ApInit
  /\ \A r \in Loads : \E k \in 1 .. ApInit - 1 : KernelInit[k] = r
<1>1. KernelInit[4] = "gdt_init" /\ KernelInit[5] = "tss_init"
  BY DEF KernelInit
<1>2. KernelInit[6] = "idt_init" /\ KernelInit[11] = "page_init"
  BY DEF KernelInit
<1>3. Len(KernelInit) = 12 /\ KernelInit[12] = "ap_init"
  BY DEF KernelInit
<1>4. \A k \in 1 .. 12 : KernelInit[k] = "ap_init" => k = 12
  BY DEF KernelInit
<1> QED
  BY <1>1, <1>2, <1>3, <1>4 DEF ApInit, Finished, Loads

------------------------------------------------------------------------------
(* The inductive invariant.  A CPU is counted at most once, so neither the *)
(* counter nor a value read from it exceeds the number of counted CPUs;    *)
(* the counter then reaches the core count only when all are counted.      *)

CountedSet == {c \in Cpu : Counted(c)}

\* The boot CPU has not yet started the others.
Early ==
  \/ pc[Bsp] = "kernel" /\ ~ Left(Bsp)
  \/ pc[Bsp] \in {"announce", "announcing", "send_init"}

InApInit == {"announce", "announcing", "send_init", "send_sipi",
             "print", "printing", "load", "store", "spin"}

Progress ==
  /\ \A c \in Cpu : pc[c] \in InApInit => stage[c] = ApInit
  /\ \A c \in Cpu : Left(c) => pc[c] = "kernel"
  /\ pc[Bsp] \in {"kernel"} \cup InApInit
  /\ Early => \A c \in Ap : pc[c] = "bios"

Tables == \A k \in 1 .. ApInit - 1 : k < stage[Bsp] => KernelInit[k] \in built

Counting ==
  /\ cpu_init_num <= Cardinality(CountedSet)
  /\ \A c \in Cpu : pc[c] = "store" => loaded[c] <= Cardinality(CountedSet)

IInv == TypeOK /\ Progress /\ Tables /\ Counting /\ NobodyLeavesEarly

LEMMA CountedFinite ==
  /\ IsFiniteSet(CountedSet) /\ Cardinality(CountedSet) \in Nat
  /\ Cardinality(CountedSet) <= Cardinality(Cpu) /\ Cardinality(Cpu) \in Nat
  /\ Cardinality(CountedSet) = Cardinality(Cpu) => CountedSet = Cpu
<1>1. CountedSet \in SUBSET Cpu
  BY DEF CountedSet
<1> QED
  BY <1>1, FS_Subset, FS_CardinalityType

LEMMA IInvInit ==
  ASSUME Init
  PROVE  IInv
<1>1. TypeOK
  BY CallOrder DEF Init, TypeOK, Pcs, ApInit
<1>2. Progress
  BY CallOrder DEF Init, Progress, Early, Left, ApInit, Ap, InApInit
<1>3. Tables
  BY DEF Init, Tables
<1>4. Counting
  BY CountedFinite DEF Init, Counting
<1>5. NobodyLeavesEarly
  BY CallOrder DEF Init, NobodyLeavesEarly, Left, ApInit
<1> QED
  BY <1>1, <1>2, <1>3, <1>4, <1>5 DEF IInv

------------------------------------------------------------------------------
(* Each part is preserved.                                                 *)

LEMMA NextCases ==
  ASSUME Next
  PROVE  \/ SendInit \/ SendSipi
         \/ \E c \in Cpu :
              \/ Routine(c) \/ EnterApInit(c) \/ LockConsole(c) \/ UnlockConsole(c)
              \/ ResetDone(c) \/ RunLoader(c)
              \/ LoadCount(c) \/ StoreCount(c) \/ Leave(c)
BY DEF Next, Step

LEMMA TypeStep ==
  ASSUME IInv, Next
  PROVE  TypeOK'
<1>1. TypeOK /\ Progress
  BY DEF IInv
<1>2. CASE SendInit
  BY <1>1, <1>2 DEF SendInit, TypeOK, Pcs
<1>3. CASE SendSipi
  BY <1>1, <1>3 DEF SendSipi, TypeOK, Pcs
<1>4. ASSUME NEW c \in Cpu, Routine(c)
      PROVE  TypeOK'
  BY <1>1, <1>4, CallOrder DEF Routine, TypeOK, ApInit
<1>5. ASSUME NEW c \in Cpu, EnterApInit(c)
      PROVE  TypeOK'
  BY <1>1, <1>5 DEF EnterApInit, Goto, TypeOK, Pcs
<1>6. ASSUME NEW c \in Cpu, LockConsole(c) \/ UnlockConsole(c)
      PROVE  TypeOK'
  BY <1>1, <1>6 DEF LockConsole, UnlockConsole, Goto, TypeOK, Pcs
<1>7. ASSUME NEW c \in Cpu, ResetDone(c) \/ RunLoader(c)
      PROVE  TypeOK'
  BY <1>1, <1>7 DEF ResetDone, RunLoader, Goto, TypeOK, Pcs
<1>8. ASSUME NEW c \in Cpu, LoadCount(c) \/ StoreCount(c)
      PROVE  TypeOK'
  BY <1>1, <1>8 DEF LoadCount, StoreCount, Goto, TypeOK, Pcs
<1>9. ASSUME NEW c \in Cpu, Leave(c)
      PROVE  TypeOK'
  <2>1. stage[c] = ApInit
    BY <1>1, <1>9 DEF Leave, Goto, Progress, InApInit
  <2> QED
    BY <1>1, <1>9, <2>1, CallOrder DEF Leave, Goto, TypeOK, Pcs, ApInit
<1> QED
  BY NextCases, <1>2, <1>3, <1>4, <1>5, <1>6, <1>7, <1>8, <1>9

LEMMA ProgressStep ==
  ASSUME IInv, Next
  PROVE  Progress'
<1>1. TypeOK /\ Progress
  BY DEF IInv
<1>2. CASE SendInit
  BY <1>1, <1>2, CallOrder
  DEF SendInit, TypeOK, Progress, Early, Left, Ap, InApInit, ApInit
<1>3. CASE SendSipi
  BY <1>1, <1>3, CallOrder
  DEF SendSipi, TypeOK, Progress, Early, Left, Ap, InApInit, ApInit
<1>4. ASSUME NEW c \in Cpu, Routine(c)
      PROVE  Progress'
  <2>1. pc' = pc /\ pc[c] = "kernel" /\ stage' = [stage EXCEPT ![c] = @ + 1]
    BY <1>4 DEF Routine
  <2>2. stage[c] \in 1 .. ApInit - 1
    BY <1>1, <1>4, CallOrder DEF Routine, At, TypeOK, ApInit
  <2>3. \A d \in Cpu : Left(d)' <=> Left(d)
    BY <1>1, <2>1, <2>2, CallOrder DEF Left, TypeOK, ApInit
  <2>4. \A d \in Cpu : pc'[d] \in InApInit => stage'[d] = ApInit
    BY <1>1, <2>1 DEF Progress, InApInit, TypeOK
  <2>5. \A d \in Cpu : Left(d)' => pc'[d] = "kernel"
    BY <1>1, <2>1, <2>3 DEF Progress
  <2>6. Early' <=> Early
    BY <2>1, <2>3 DEF Early
  <2> QED
    BY <1>1, <2>1, <2>4, <2>5, <2>6 DEF Progress
<1>5. ASSUME NEW c \in Cpu, EnterApInit(c)
      PROVE  Progress'
  <2>1. stage[c] = ApInit /\ ~ Left(c) /\ stage' = stage
    BY <1>1, <1>5, CallOrder DEF EnterApInit, At, TypeOK, ApInit, Left
  <2>2. Early' => Early
    BY <1>1, <1>5, <2>1 DEF EnterApInit, Goto, TypeOK, Early, Left
  <2>3. c \in Ap => pc[c] # "bios"
    BY <1>5 DEF EnterApInit, Goto
  <2> QED
    BY <1>1, <1>5, <2>1, <2>2, <2>3
    DEF EnterApInit, Goto, TypeOK, Progress, Left, Ap, InApInit
<1>6. ASSUME NEW c \in Cpu, LockConsole(c) \/ UnlockConsole(c)
      PROVE  Progress'
  BY <1>1, <1>6, CallOrder
  DEF LockConsole, UnlockConsole, Goto, TypeOK, Progress, Early, Left, Ap, InApInit, ApInit
<1>7. ASSUME NEW c \in Cpu, ResetDone(c) \/ RunLoader(c)
      PROVE  Progress'
  BY <1>1, <1>7, CallOrder
  DEF ResetDone, RunLoader, Goto, TypeOK, Progress, Early, Left, Ap, InApInit, ApInit
<1>8. ASSUME NEW c \in Cpu, LoadCount(c) \/ StoreCount(c)
      PROVE  Progress'
  BY <1>1, <1>8, CallOrder
  DEF LoadCount, StoreCount, Goto, TypeOK, Progress, Early, Left, Ap, InApInit, ApInit
<1>9. ASSUME NEW c \in Cpu, Leave(c)
      PROVE  Progress'
  <2>1. stage[c] = ApInit
    BY <1>1, <1>9 DEF Leave, Goto, Progress, InApInit
  <2> QED
    BY <1>1, <1>9, <2>1, CallOrder
    DEF Leave, Goto, TypeOK, Progress, Early, Left, Ap, InApInit, ApInit
<1> QED
  BY NextCases, <1>2, <1>3, <1>4, <1>5, <1>6, <1>7, <1>8, <1>9

\* The boot CPU leaves no routine behind whose tables it has not built.
LEMMA TablesStep ==
  ASSUME IInv, Next
  PROVE  Tables'
<1>1. TypeOK /\ Progress /\ Tables
  BY DEF IInv
<1>2. ASSUME UNCHANGED <<stage, built>>
      PROVE  Tables'
  BY <1>1, <1>2 DEF Tables
<1>3. ASSUME NEW c \in Cpu, Routine(c)
      PROVE  Tables'
  BY <1>1, <1>3, CallOrder DEF Routine, TypeOK, Tables, ApInit
<1>4. ASSUME NEW c \in Cpu, Leave(c)
      PROVE  Tables'
  <2>1. stage[c] = ApInit
    BY <1>1, <1>4 DEF Leave, Goto, Progress, InApInit
  <2> QED
    BY <1>1, <1>4, <2>1 DEF Leave, TypeOK, Tables, ApInit
<1> QED
  BY NextCases, <1>2, <1>3, <1>4
  DEF SendInit, SendSipi, EnterApInit, LockConsole, UnlockConsole, ResetDone, RunLoader,
      LoadCount, StoreCount

\* Once counted, a CPU stays counted; only its own store counts it.
LEMMA CountedStep ==
  ASSUME IInv, Next
  PROVE  /\ CountedSet \subseteq CountedSet'
         /\ \A c \in Cpu : StoreCount(c) =>
              c \notin CountedSet /\ CountedSet' = CountedSet \cup {c}
<1>1. TypeOK /\ Progress
  BY DEF IInv
<1>2. CASE SendInit
  <2>1. \A d \in Cpu : ~ Counted(d)
    BY <1>1, <1>2 DEF SendInit, Progress, Early, Counted, Left, Ap
  <2> QED
    BY <1>2, <2>1 DEF SendInit, StoreCount, Goto, CountedSet, TypeOK
<1>3. CASE SendSipi
  BY <1>1, <1>3 DEF SendSipi, StoreCount, Goto, Progress, Counted, Left, CountedSet, TypeOK
<1>4. ASSUME NEW c \in Cpu,
             \/ EnterApInit(c) \/ LockConsole(c) \/ UnlockConsole(c)
             \/ ResetDone(c) \/ RunLoader(c) \/ LoadCount(c)
      PROVE  CountedSet' = CountedSet /\ \A d \in Cpu : ~ StoreCount(d)
  BY <1>1, <1>4
  DEF EnterApInit, LockConsole, UnlockConsole, ResetDone, RunLoader, LoadCount, StoreCount,
      Goto, Progress, Counted, Left, CountedSet, TypeOK
<1>5. ASSUME NEW c \in Cpu, Routine(c)
      PROVE  CountedSet' = CountedSet /\ \A d \in Cpu : ~ StoreCount(d)
  <2>1. stage[c] \in 1 .. ApInit - 1 /\ pc' = pc
    BY <1>1, <1>5, CallOrder DEF Routine, At, TypeOK, ApInit
  <2>2. \A d \in Cpu : Left(d)' <=> Left(d)
    BY <1>1, <1>5, <2>1, CallOrder DEF Routine, Left, TypeOK, ApInit
  <2> QED
    BY <1>1, <2>1, <2>2 DEF StoreCount, Goto, Counted, CountedSet, TypeOK
<1>6. ASSUME NEW c \in Cpu, Leave(c)
      PROVE  CountedSet' = CountedSet /\ \A d \in Cpu : ~ StoreCount(d)
  <2>1. stage[c] = ApInit /\ pc[c] = "spin"
    BY <1>1, <1>6 DEF Leave, Goto, Progress, InApInit
  <2>2. Left(c)' /\ \A d \in Cpu : d # c => (Counted(d)' <=> Counted(d))
    BY <1>1, <1>6, <2>1, CallOrder DEF Leave, Goto, Left, Counted, TypeOK, ApInit
  <2>3. Counted(c) /\ Counted(c)'
    BY <2>1, <2>2 DEF Counted
  <2> QED
    BY <1>1, <1>6, <2>2, <2>3 DEF Leave, StoreCount, Goto, CountedSet, TypeOK
<1>7. ASSUME NEW c \in Cpu, StoreCount(c)
      PROVE  c \notin CountedSet /\ CountedSet' = CountedSet \cup {c}
  BY <1>1, <1>7 DEF StoreCount, Goto, Progress, Counted, Left, CountedSet, TypeOK
<1> QED
  BY NextCases, <1>2, <1>3, <1>4, <1>5, <1>6, <1>7

LEMMA CountingStep ==
  ASSUME IInv, Next
  PROVE  Counting'
<1> DEFINE n == Cardinality(CountedSet)
<1>1. TypeOK /\ Counting
  BY DEF IInv
<1>2. n \in Nat /\ n' \in Nat /\ n <= n'
  <2>1. CountedSet' \in SUBSET Cpu
    BY DEF CountedSet
  <2>2. IsFiniteSet(CountedSet') /\ n' \in Nat
    BY <2>1, FS_Subset, FS_CardinalityType
  <2> QED
    BY <2>2, CountedFinite, CountedStep, FS_Subset
<1>3. cpu_init_num \in Nat /\ \A d \in Cpu : loaded[d] \in Nat
  BY <1>1 DEF TypeOK
<1>4. ASSUME UNCHANGED <<cpu_init_num, loaded>>,
             \A d \in Cpu : pc'[d] = "store" => pc[d] = "store"
      PROVE  Counting'
  BY <1>1, <1>2, <1>3, <1>4 DEF Counting
<1>5. ASSUME NEW c \in Cpu, LoadCount(c)
      PROVE  Counting'
  BY <1>1, <1>2, <1>3, <1>5 DEF LoadCount, Goto, Counting, TypeOK
<1>6. ASSUME NEW c \in Cpu, StoreCount(c)
      PROVE  Counting'
  <2>1. c \notin CountedSet /\ CountedSet' = CountedSet \cup {c}
    BY <1>6, CountedStep
  <2>2. n' = n + 1
    BY <2>1, CountedFinite, FS_AddElement
  <2>3. cpu_init_num' <= n + 1
    BY <1>1, <1>2, <1>3, <1>6 DEF StoreCount, Goto, Counting
  <2> QED
    BY <1>1, <1>2, <1>3, <1>6, <2>2, <2>3 DEF StoreCount, Goto, Counting, TypeOK
<1>7. CASE SendInit \/ SendSipi
  BY <1>1, <1>4, <1>7 DEF SendInit, SendSipi, TypeOK
<1>8. ASSUME NEW c \in Cpu,
             \/ Routine(c) \/ EnterApInit(c) \/ LockConsole(c) \/ UnlockConsole(c)
             \/ ResetDone(c) \/ RunLoader(c) \/ Leave(c)
      PROVE  Counting'
  BY <1>1, <1>4, <1>8
  DEF Routine, EnterApInit, LockConsole, UnlockConsole, ResetDone, RunLoader, Leave, Goto,
      TypeOK
<1> QED
  BY NextCases, <1>5, <1>6, <1>7, <1>8

\* A CPU leaves when the counter shows CoresNum, hence when all are counted.
LEMMA BarrierStep ==
  ASSUME IInv, Next
  PROVE  NobodyLeavesEarly'
<1>1. TypeOK /\ Progress /\ Counting /\ NobodyLeavesEarly
  BY DEF IInv
<1>2. CountedSet \subseteq CountedSet'
  BY CountedStep
<1>3. ASSUME NEW c \in Cpu, Leave(c)
      PROVE  CountedSet = Cpu
  <2>1. CoresNum <= Cardinality(CountedSet)
    BY <1>1, <1>3 DEF Leave, Counting
  <2> QED
    BY <2>1, CountedFinite, CoresNumAssumption
<1>4. ASSUME NEW c \in Cpu, Left(c)
      PROVE  CountedSet = Cpu
  BY <1>1, <1>4 DEF NobodyLeavesEarly, CountedSet
<1>5. ASSUME NEW c \in Cpu, Left(c)', ~ Left(c)
      PROVE  Leave(c)
  <2>1. stage'[c] = Finished /\ stage[c] # Finished
    BY <1>5 DEF Left
  <2>2. ASSUME NEW d \in Cpu, Routine(d)
        PROVE  FALSE
    <3>1. stage[d] \in 1 .. ApInit - 1
      BY <1>1, <2>2, CallOrder DEF Routine, At, TypeOK, ApInit
    <3>2. stage'[c] # Finished
      BY <1>1, <2>1, <2>2, <3>1, CallOrder DEF Routine, TypeOK, ApInit
    <3> QED
      BY <2>1, <3>2
  <2>3. ASSUME NEW d \in Cpu, Leave(d)
        PROVE  d = c
    BY <1>1, <2>1, <2>3 DEF Leave, TypeOK
  <2> QED
    BY NextCases, <2>1, <2>2, <2>3
    DEF SendInit, SendSipi, EnterApInit, LockConsole, UnlockConsole, ResetDone, RunLoader,
        LoadCount, StoreCount
<1>6. ASSUME NEW c \in Cpu, NEW d \in Cpu, Left(c)'
      PROVE  Counted(d)'
  <2>1. CountedSet = Cpu
    BY <1>3, <1>4, <1>5, <1>6
  <2> QED
    BY <1>2, <2>1 DEF CountedSet
<1> QED
  BY <1>6 DEF NobodyLeavesEarly

------------------------------------------------------------------------------
(* The invariant and what follows from it.                                 *)

LEMMA IInvStep ==
  ASSUME IInv, [Next]_vars
  PROVE  IInv'
<1>1. CASE Next
  BY <1>1, TypeStep, ProgressStep, TablesStep, CountingStep, BarrierStep DEF IInv
<1>2. CASE UNCHANGED vars
  BY <1>2
  DEF vars, IInv, TypeOK, Progress, Early, Tables, Counting, CountedSet, Counted, Left,
      NobodyLeavesEarly
<1> QED
  BY <1>1, <1>2

LEMMA InvariantHolds == Spec => []IInv
<1> QED
  BY IInvInit, IInvStep, PTL DEF Spec

(* Stages, counter and console lock of Kernel_init and ap_init keep their   *)
(* types for every number of CPUs.                                         *)
THEOREM TypeCorrect == Spec => []TypeOK
<1>1. IInv => TypeOK
  BY DEF IInv
<1> QED
  BY <1>1, InvariantHolds, PTL

(* The wait in ap_init lets nobody through before every CPU has added      *)
(* itself to cpu_init_num, although the additions can overwrite each other *)
(* and the core count may exceed the number of CPUs.                       *)
THEOREM BarrierIsSafe == Spec => []NobodyLeavesEarly
<1>1. IInv => NobodyLeavesEarly
  BY DEF IInv
<1> QED
  BY <1>1, InvariantHolds, PTL

(* A CPU started by the boot CPU finds the tables it loads in gdt_init,    *)
(* tss_init, idt_init and page_init built, because Kernel_init calls       *)
(* ap_init last.                                                           *)
THEOREM TablesAreBuilt == Spec => []TablesBuiltBeforeLoaded
<1>1. IInv => TablesBuiltBeforeLoaded
  <2> SUFFICES ASSUME IInv, NEW c \in Ap, NEW r \in Loads, pc[c] = "kernel", At(c, r)
               PROVE  r \in built
    BY DEF TablesBuiltBeforeLoaded
  <2>1. ~ Early /\ pc[Bsp] \in {"kernel"} \cup InApInit
    BY DEF IInv, Progress
  <2>2. stage[Bsp] \in Nat /\ stage[Bsp] >= ApInit
    BY <2>1, CallOrder DEF IInv, TypeOK, Progress, Early, Left, InApInit, ApInit
  <2>3. PICK k \in 1 .. ApInit - 1 : KernelInit[k] = r
    BY CallOrder
  <2> QED
    BY <2>2, <2>3 DEF IInv, Tables, ApInit
<1> QED
  BY <1>1, InvariantHolds, PTL

==============================================================================
