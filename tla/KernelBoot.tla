------------------------------ MODULE KernelBoot ------------------------------
(***************************************************************************)
(* How the machine comes up: Kernel_init (kernel/main.c), run by the boot  *)
(* CPU and later by every other CPU, and the multiprocessor start of       *)
(* ap_init (kernel/ap.c): the boot CPU broadcasts INIT and one start-up    *)
(* IPI, every CPU prints a line under the console lock, adds 1 to          *)
(* cpu_init_num and waits until the counter has reached the core count.    *)
(*                                                                         *)
(* cpu_init_num++ is not atomic (a load and a store of a plain variable),  *)
(* so its two halves are two steps.  The instructions after the start-up   *)
(* IPI that mean to send it again do not: the delay loop leaves rcx, the   *)
(* register number wrmsr takes, at 0.  Interrupts are off on every CPU     *)
(* until it has left ap_init, so no handler runs here.                     *)
(***************************************************************************)
EXTENDS Integers, FiniteSets, Sequences

CONSTANTS
  Cpu,           \* all the CPUs that really start
  Bsp,           \* the boot CPU
  CoresNum,      \* cpu_info.cores_num, what CPUID reports
  DelaySuffices  \* whether the delay after INIT outlasts every CPU's reset

ASSUME CpuAssumption == IsFiniteSet(Cpu) /\ Bsp \in Cpu
\* CPUID counts at least the CPUs that start.
ASSUME CoresNumAssumption == CoresNum \in Nat /\ CoresNum >= Cardinality(Cpu)
ASSUME DelayAssumption == DelaySuffices \in BOOLEAN

VARIABLES
  pc,            \* where each CPU is
  stage,         \* which routine of Kernel_init it is at
  built,         \* the routines the boot CPU has finished its part of
  console,       \* Pos.lock
  cpu_init_num,
  loaded         \* the value cpu_init_num++ has read, per CPU

vars == <<pc, stage, built, console, cpu_init_num, loaded>>

------------------------------------------------------------------------------

Ap == Cpu \ {Bsp}

\* MUTANT of KernelInit: the other CPUs are started before the page tables.
KernelInitApFirst ==
  <<"get_cpuinfo", "pos_init", "memory_init", "gdt_init", "tss_init", "idt_init",
    "acpi_init", "hpet_init", "ioapic_init", "apic_init", "ap_init", "page_init">>

\* The calls of Kernel_init, in order.
KernelInit ==
  <<"get_cpuinfo", "pos_init", "memory_init", "gdt_init", "tss_init", "idt_init",
    "acpi_init", "hpet_init", "ioapic_init", "apic_init", "page_init", "ap_init">>

\* Routines whose second half every CPU runs: it loads GDTR, TR, IDTR or CR3
\* with what the first half, run by the boot CPU alone, has built.
Loads == {"gdt_init", "tss_init", "idt_init", "page_init"}

Finished == Len(KernelInit) + 1

Init ==
  /\ pc = [c \in Cpu |-> IF c = Bsp THEN "kernel" ELSE "bios"]
  /\ stage = [c \in Cpu |-> 1]
  /\ built = {}
  /\ console = 0
  /\ cpu_init_num = 0
  /\ loaded = [c \in Cpu |-> 0]

Goto(c, from, to) == pc[c] = from /\ pc' = [pc EXCEPT ![c] = to]

At(c, routine) == stage[c] < Finished /\ KernelInit[stage[c]] = routine

------------------------------------------------------------------------------
(* The routines before ap_init.                                            *)

\* The boot CPU builds, and then every CPU loads.
Routine(c) ==
  /\ pc[c] = "kernel"
  /\ stage[c] < Finished /\ ~ At(c, "ap_init")
  /\ built' = IF c = Bsp THEN built \cup {KernelInit[stage[c]]} ELSE built
  /\ stage' = [stage EXCEPT ![c] = @ + 1]
  /\ UNCHANGED <<pc, console, cpu_init_num, loaded>>

\* The boot CPU announces the machine before it starts the others.
EnterApInit(c) ==
  /\ At(c, "ap_init")
  /\ Goto(c, "kernel", IF c = Bsp THEN "announce" ELSE "print")
  /\ UNCHANGED <<stage, built, console, cpu_init_num, loaded>>

\* MUTANT of LockConsole: an increment in place of the compare-and-exchange.
LockConsoleByIncrement(c) ==
  /\ Goto(c, "announce", "announcing") \/ Goto(c, "print", "printing")
  /\ console' = console + 1
  /\ UNCHANGED <<stage, built, cpu_init_num, loaded>>

\* SPIN_LOCK(Pos.lock) at the start of color_printk; Pos.lock = 0 at its end.
LockConsole(c) ==
  /\ Goto(c, "announce", "announcing") \/ Goto(c, "print", "printing")
  /\ console = 0
  /\ console' = 1
  /\ UNCHANGED <<stage, built, cpu_init_num, loaded>>

UnlockConsole(c) ==
  /\ Goto(c, "announcing", "send_init") \/ Goto(c, "printing", "load")
  /\ console' = 0
  /\ UNCHANGED <<stage, built, cpu_init_num, loaded>>

------------------------------------------------------------------------------
(* The inter-processor interrupts, and the CPUs they reach.                *)

\* INIT to all excluding self: every other CPU is reset.
SendInit ==
  /\ pc[Bsp] = "send_init"
  /\ pc' = [c \in Cpu |-> IF c = Bsp THEN "send_sipi" ELSE "reset"]
  /\ UNCHANGED <<stage, built, console, cpu_init_num, loaded>>

\* The reset is over and the CPU waits for a start-up IPI.
ResetDone(c) ==
  /\ Goto(c, "reset", "wait_sipi")
  /\ UNCHANGED <<stage, built, console, cpu_init_num, loaded>>

\* The start-up IPI: a CPU whose reset is not over does not take it, and it
\* is not repeated.
SendSipi ==
  /\ pc[Bsp] = "send_sipi"
  /\ DelaySuffices => \A c \in Ap : pc[c] = "wait_sipi"
  /\ pc' = [c \in Cpu |-> IF c = Bsp THEN "print"
                          ELSE IF pc[c] = "wait_sipi" THEN "loader" ELSE pc[c]]
  /\ UNCHANGED <<stage, built, console, cpu_init_num, loaded>>

\* The loader's path of a CPU that is not the boot CPU, and _start.
RunLoader(c) ==
  /\ Goto(c, "loader", "kernel")
  /\ UNCHANGED <<stage, built, console, cpu_init_num, loaded>>

------------------------------------------------------------------------------
(* cpu_init_num++ and the wait for the others.                             *)

LoadCount(c) ==
  /\ Goto(c, "load", "store")
  /\ loaded' = [loaded EXCEPT ![c] = cpu_init_num]
  /\ UNCHANGED <<stage, built, console, cpu_init_num>>

StoreCount(c) ==
  /\ Goto(c, "store", "spin")
  /\ cpu_init_num' = loaded[c] + 1
  /\ loaded' = [loaded EXCEPT ![c] = 0]
  /\ UNCHANGED <<stage, built, console>>

\* MUTANT of Leave: the first CPU through resets the counter.
LeaveAndReset(c) ==
  /\ Goto(c, "spin", "kernel")
  /\ cpu_init_num = CoresNum
  /\ cpu_init_num' = 0
  /\ stage' = [stage EXCEPT ![c] = @ + 1]
  /\ UNCHANGED <<built, console, loaded>>

\* MUTANT of Leave: the boot CPU is left out of the count to wait for.
LeaveOneEarly(c) ==
  /\ Goto(c, "spin", "kernel")
  /\ cpu_init_num = CoresNum - 1
  /\ stage' = [stage EXCEPT ![c] = @ + 1]
  /\ UNCHANGED <<built, console, cpu_init_num, loaded>>

\* while (1) if (cpu_init_num == cpu_info.cores_num) break;
Leave(c) ==
  /\ Goto(c, "spin", "kernel")
  /\ cpu_init_num = CoresNum
  /\ stage' = [stage EXCEPT ![c] = @ + 1]
  /\ UNCHANGED <<built, console, cpu_init_num, loaded>>

------------------------------------------------------------------------------

Step(c) ==
  \/ Routine(c) \/ EnterApInit(c) \/ LockConsole(c) \/ UnlockConsole(c)
  \/ ResetDone(c) \/ RunLoader(c)
  \/ LoadCount(c) \/ StoreCount(c) \/ Leave(c)

Next == SendInit \/ SendSipi \/ \E c \in Cpu : Step(c)

Spec == Init /\ [][Next]_vars

(* Every CPU keeps executing.  The console lock is a spin lock without a   *)
(* queue, but each CPU takes it a fixed number of times here, so a CPU     *)
(* that spins on it finds it free for good in the end.                     *)
Fairness ==
  /\ WF_vars(SendInit) /\ WF_vars(SendSipi)
  /\ \A c \in Cpu : WF_vars(Step(c))

FairSpec == Spec /\ Fairness

------------------------------------------------------------------------------
(* Properties.                                                             *)

Pcs == {"bios", "kernel", "announce", "announcing", "send_init", "send_sipi",
        "reset", "wait_sipi", "loader", "print", "printing", "load", "store", "spin"}

TypeOK ==
  /\ pc \in [Cpu -> Pcs]
  /\ stage \in [Cpu -> 1 .. Finished]
  /\ console \in {0, 1}
  /\ cpu_init_num \in Nat
  /\ loaded \in [Cpu -> Nat]

\* CPU c has returned from ap_init.
Left(c) == stage[c] = Finished

\* CPU c has stored its increment.
Counted(c) == pc[c] = "spin" \/ Left(c)

(* The wait in ap_init is a barrier: no CPU goes on to enable interrupts   *)
(* before every CPU has finished the whole of Kernel_init up to it.  This  *)
(* holds although increments can be lost, because they are only ever lost. *)
NobodyLeavesEarly == \A c, d \in Cpu : Left(c) => Counted(d)

(* No CPU loads a descriptor table or page table the boot CPU has not      *)
(* built: the order of Kernel_init is what makes the bsp_flags tests safe. *)
TablesBuiltBeforeLoaded ==
  \A c \in Ap : \A r \in Loads : pc[c] = "kernel" /\ At(c, r) => r \in built

(* Once the counter is complete the barrier stays open: every CPU passes,  *)
(* however late it looks at the counter.                                   *)
BarrierStaysOpen == cpu_init_num = CoresNum ~> \A c \in Cpu : Left(c)

(* What ap_init is for, "multi-core initialisation": every CPU comes       *)
(* through it and the kernel goes on.                                      *)
EveryCpuComesUp == <>(\A c \in Cpu : Left(c))

==============================================================================
