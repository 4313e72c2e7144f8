----------------------------- MODULE Topology ------------------------------
(***************************************************************************)
(* What the modules of the kernel's entry paths share: the CPUs that run   *)
(* (smp.cpp's cpus[]) and the threads, each bound to the CPU it was made   *)
(* for (Thread.cpu never changes).                                         *)
(***************************************************************************)
EXTENDS FiniteSets

CONSTANTS
    Cpus,       \* the running CPUs
    BootCpu,    \* index 0: the IO-APIC sends every ISA line to it
    Threads,
    HomeCpu     \* thread -> Thread.cpu

ASSUME TopologyAssumption ==
    /\ IsFiniteSet(Cpus) /\ BootCpu \in Cpus
    /\ HomeCpu \in [Threads -> Cpus]
=============================================================================
