------------------------------ MODULE IrqLines ------------------------------
(***************************************************************************)
(* The interrupt lines of kernel/cpu/irq.cpp: the lines the IO-APIC holds  *)
(* for the boot CPU, and deferred_lines, the word of those whose interrupt *)
(* came while another CPU held the big kernel lock.  `pending' is the      *)
(* local copy run_deferred() works through.                                *)
(*                                                                         *)
(* `due' and `owed' are history: the lines whose interrupt was raised and  *)
(* whose handler has not run since, and for each handler that got the lock *)
(* the lines it found deferred and that nobody has served since.           *)
(***************************************************************************)
EXTENDS Topology, Naturals

CONSTANTS
    Lines,      \* ISA lines as numbers; 0 is IRQ0_TIMER, the system's tick
    CpuTick     \* the local timer of a CPU other than the boot CPU: no line

Timer == 0

ASSUME LinesAssumption == Lines \subseteq Nat /\ Timer \in Lines /\ CpuTick \notin Lines

VARIABLES raised, deferred_lines, pending, due, owed

lineVars == <<raised, deferred_lines, pending, due, owed>>

LinesTypeOK ==
    /\ raised \subseteq Lines \ {Timer}
    /\ deferred_lines \subseteq Lines
    /\ pending \in [Cpus -> SUBSET Lines]
    /\ due \subseteq Lines
    /\ owed \in [Cpus -> SUBSET Lines]

LinesInit ==
    /\ raised = {} /\ deferred_lines = {} /\ due = {}
    /\ pending = [c \in Cpus |-> {}]
    /\ owed = [c \in Cpus |-> {}]

\* A device raises its line; it keeps its data (the keyboard its byte) until
\* the handler has run, and does not raise the line again before.
Raise(l) ==
    /\ l \in Lines \ ({Timer} \cup due)
    /\ raised' = raised \cup {l}
    /\ due' = due \cup {l}
    /\ UNCHANGED <<deferred_lines, pending, owed>>

\* The CPU takes the interrupt from the controller.
Accept(l) ==
    /\ l \in raised \cup {Timer, CpuTick}
    /\ raised' = raised \ {l}
    /\ due' = IF l = Timer THEN due \cup {Timer} ELSE due
    /\ UNCHANGED <<deferred_lines, pending, owed>>

\* A slip the code once had (the comment at deferred_lines): the tick is lost.
DeferDevicesOnly(l) ==
    /\ deferred_lines' = deferred_lines \cup ({l} \ {CpuTick, Timer})
    /\ UNCHANGED <<raised, pending, due, owed>>

\* irq_handler without the lock: another CPU's tick is skipped, a line kept.
DeferLine(l) ==
    /\ deferred_lines' = IF l = CpuTick THEN deferred_lines ELSE deferred_lines \cup {l}
    /\ UNCHANGED <<raised, pending, due, owed>>

\* irq_handler with the lock: "A tick still pending is done by this one."
AbsorbTick(c, l) ==
    /\ deferred_lines' = deferred_lines \ ({l} \cap {Timer})
    /\ owed' = [owed EXCEPT ![c] = deferred_lines]
    /\ UNCHANGED <<raised, pending, due>>

\* run_deferred(): the atomic exchange of the word with 0.
ExchangeDeferred(c) ==
    /\ pending' = [pending EXCEPT ![c] = deferred_lines]
    /\ deferred_lines' = {}
    /\ UNCHANGED <<raised, due, owed>>

\* Running irq_handlers[l] settles what line l was raised for.
Served(ls) ==
    /\ due' = due \ ls
    /\ owed' = [c \in Cpus |-> owed[c] \ ls]

\* One round of run_deferred()'s loop, lowest line first.
RunDeferred(c) ==
    LET l == CHOOSE x \in pending[c] : \A y \in pending[c] : x <= y IN
    /\ pending[c] # {}
    /\ pending' = [pending EXCEPT ![c] = @ \ {l}]
    /\ Served({l})
    /\ UNCHANGED <<raised, deferred_lines>>

\* The handler of the interrupt's own line (none for another CPU's tick).
RunOwn(l) ==
    /\ Served({l})
    /\ UNCHANGED <<raised, deferred_lines, pending>>
=============================================================================
