--------------------------- MODULE BigKernelLock ---------------------------
(***************************************************************************)
(* The big kernel lock of kernel/cpu/spinlock.cpp: one word (bkl_owner)    *)
(* and one depth per CPU.  It belongs to a CPU, not to a thread, and       *)
(* nests.  enter, try_enter and leave change both with the CPU's           *)
(* interrupts off, so each attempt is one step; the waiting of enter() is  *)
(* its action not being enabled.                                           *)
(***************************************************************************)
EXTENDS Topology, Naturals

CONSTANT
    Free        \* bkl_owner = 0

ASSUME FreeAssumption == Free \notin Cpus

VARIABLES
    bkl_owner,  \* the CPU that holds the lock, or Free
    bkl_depth   \* Cpu.bkl_depth: how often each CPU holds it

bklVars == <<bkl_owner, bkl_depth>>

BklTypeOK ==
    /\ bkl_owner \in Cpus \cup {Free}
    /\ bkl_depth \in [Cpus -> Nat]

BklInit ==
    /\ bkl_owner = Free
    /\ bkl_depth = [c \in Cpus |-> 0]

\* A plausible slip: the word is stored without looking whether it is free.
TakeUnchecked(c) ==
    /\ bkl_depth' = [bkl_depth EXCEPT ![c] = IF bkl_owner = c THEN @ + 1 ELSE 1]
    /\ bkl_owner' = c

\* The owner goes one deeper; anybody else takes a free lock at depth 1.
Take(c) ==
    /\ bkl_owner \in {c, Free}
    /\ bkl_depth' = [bkl_depth EXCEPT ![c] = IF bkl_owner = c THEN @ + 1 ELSE 1]
    /\ bkl_owner' = c

\* bkl::try_enter() finds another CPU's name in the word and takes nothing.
TryFails(c) ==
    /\ bkl_owner \notin {c, Free}
    /\ UNCHANGED bklVars

\* A slip: the nesting is not looked at.
LeaveWhollyAtOnce(c) ==
    IF bkl_owner # c \/ bkl_depth[c] = 0
    THEN UNCHANGED bklVars
    ELSE /\ bkl_depth' = [bkl_depth EXCEPT ![c] = @ - 1]
         /\ bkl_owner' = Free

\* bkl::leave(); a CPU that does not hold the lock only writes a log line.
Leave(c) ==
    IF bkl_owner # c \/ bkl_depth[c] = 0
    THEN UNCHANGED bklVars
    ELSE /\ bkl_depth' = [bkl_depth EXCEPT ![c] = @ - 1]
         /\ bkl_owner' = IF bkl_depth[c] = 1 THEN Free ELSE bkl_owner

\* What bkl::check_switch() complains about the lack of.
HeldOnce(c) == bkl_owner = c /\ bkl_depth[c] = 1
=============================================================================
