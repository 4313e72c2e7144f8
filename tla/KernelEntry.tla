---------------------------- MODULE KernelEntry ----------------------------
(***************************************************************************)
(* How a CPU gets into the kernel and out of it, at the grain at which     *)
(* CPUs can interleave: sfcall_entry and handle_exception, irq_handler,    *)
(* the idle loop, thread switches and the TLB interrupt, over the big      *)
(* kernel lock, the interrupt lines and the address spaces.                *)
(*                                                                         *)
(* mode[c] is where the code runs that interrupts may come on top of:      *)
(*   user    ring 3                                                        *)
(*   gate    just trapped, interrupts off until the entry's sti            *)
(*   enter   in bkl::enter(), interrupts on                                *)
(*   kernel  holding the lock: a call, a fault, or the idle loop           *)
(*   flush   waiting in flush_tlb, holding the lock                        *)
(*   exit    ring 0 without the lock, on the way to ring 3 or to hlt       *)
(*   halt    in hlt                                                        *)
(* irq[c] is the stage of an interrupt on top of it (interrupts off):      *)
(*   none, entry (before try_enter), locked, deferred (in run_deferred),   *)
(*   own (its line's handler), out (end_of_interrupt is behind it).        *)
(***************************************************************************)
EXTENDS BigKernelLock, IrqLines, TlbShootdown

CONSTANT Idle   \* Cpu.thread when the idle task runs

ASSUME IdleAssumption == Idle \notin Threads

VARIABLES
    mode, irq,
    line,       \* the line the interrupt is for (CpuTick when there is none)
    thread,     \* Cpu.thread
    saved       \* what a switched-off thread resumes in: "call" or "irq"
                \* ("call" also while it runs)

cpuVars == <<mode, irq, line, thread, saved>>

vars == <<bklVars, lineVars, tlbVars, cpuVars>>

Modes == {"user", "gate", "enter", "kernel", "flush", "exit", "halt"}

Stages == {"none", "entry", "locked", "deferred", "own", "out"}

TypeOK ==
    /\ BklTypeOK /\ LinesTypeOK /\ TlbTypeOK
    /\ mode \in [Cpus -> Modes]
    /\ irq \in [Cpus -> Stages]
    /\ line \in [Cpus -> Lines \cup {CpuTick}]
    /\ thread \in [Cpus -> Threads \cup {Idle}]
    /\ saved \in [Threads -> {"call", "irq"}]

\* Every CPU is about to take the lock for its idle loop; the threads are new
\* and will drop the lock in task_user_start, as a call does at its end.
Init ==
    /\ BklInit /\ LinesInit /\ TlbInit
    /\ mode = [c \in Cpus |-> "enter"]
    /\ irq = [c \in Cpus |-> "none"]
    /\ line = [c \in Cpus |-> CpuTick]
    /\ thread = [c \in Cpus |-> Idle]
    /\ saved = [t \in Threads |-> "call"]

SetMode(c, m) ==
    /\ mode' = [mode EXCEPT ![c] = m]
    /\ UNCHANGED <<irq, line, thread, saved>>

SetStage(c, i) ==
    /\ irq' = [irq EXCEPT ![c] = i]
    /\ UNCHANGED <<mode, line, thread, saved>>

\* An interrupt's return ends a hlt.
Return(c) ==
    /\ irq' = [irq EXCEPT ![c] = "none"]
    /\ mode' = [mode EXCEPT ![c] = IF @ = "halt" THEN "enter" ELSE @]
    /\ line' = [line EXCEPT ![c] = CpuTick]
    /\ UNCHANGED <<thread, saved>>

\* The CPU runs mode[c]'s code, not an interrupt.
At(c, m) == mode[c] = m /\ irq[c] = "none"

\* A slip: bkl::enter() waits with interrupts off.
IfOnButNotWaiting(c) == irq[c] = "none" /\ mode[c] \notin {"gate", "enter"}

IfOn(c) == irq[c] = "none" /\ mode[c] # "gate"
-----------------------------------------------------------------------------
(* System calls, faults and the idle loop.                                 *)

\* The syscall instruction, or an exception in ring 3.
Trap(c) ==
    /\ At(c, "user")
    /\ SetMode(c, "gate")
    /\ UNCHANGED <<bklVars, lineVars, tlbVars>>

\* The sti of sfcall_entry and of handle_exception.
Sti(c) ==
    /\ At(c, "gate")
    /\ SetMode(c, "enter")
    /\ UNCHANGED <<bklVars, lineVars, tlbVars>>

\* bkl::enter() gets the lock.
Enter(c) ==
    /\ At(c, "enter")
    /\ Take(c)
    /\ SetMode(c, "kernel")
    /\ UNCHANGED <<lineVars, tlbVars>>

\* bkl::leave() at the end of a call or fault, or before the idle loop halts.
\* A thread inside load_program is not at the end of its call.
Exit(c) ==
    /\ At(c, "kernel")
    /\ thread[c] # Idle => borrowed_cr3[thread[c]] = NoSpace
    /\ Leave(c)
    /\ SetMode(c, "exit")
    /\ UNCHANGED <<lineVars, tlbVars>>

\* iretq to ring 3, or the idle loop's hlt.
Resume(c) ==
    /\ At(c, "exit")
    /\ SetMode(c, IF thread[c] = Idle THEN "halt" ELSE "user")
    /\ UNCHANGED <<bklVars, lineVars, tlbVars>>
-----------------------------------------------------------------------------
(* Interrupts: irq_handler.                                                *)

Raised(l) ==
    /\ Raise(l)
    /\ UNCHANGED <<bklVars, tlbVars, cpuVars>>

\* The local timer of c, or a device's line at the boot CPU.
Interrupt(c, l) ==
    /\ IfOn(c)
    /\ IF c = BootCpu THEN l \in Lines ELSE l = CpuTick
    /\ Accept(l)
    /\ irq' = [irq EXCEPT ![c] = "entry"]
    /\ line' = [line EXCEPT ![c] = l]
    /\ UNCHANGED <<bklVars, tlbVars, mode, thread, saved>>

\* try_enter() fails: defer, end the interrupt, return.
IrqBusy(c) ==
    /\ irq[c] = "entry"
    /\ TryFails(c)
    /\ DeferLine(line[c])
    /\ Return(c)
    /\ UNCHANGED tlbVars

\* try_enter() succeeds, and a pending tick is taken off the word.
IrqEnter(c) ==
    /\ irq[c] = "entry"
    /\ Take(c)
    /\ AbsorbTick(c, line[c])
    /\ SetStage(c, "locked")
    /\ UNCHANGED tlbVars

\* A slip: only the boot CPU, where the lines go, looks at the word.
ExchangeAtBootOnly(c) ==
    /\ irq[c] = "locked"
    /\ IF c = BootCpu THEN ExchangeDeferred(c) ELSE UNCHANGED lineVars
    /\ SetStage(c, IF c # BootCpu \/ deferred_lines = {} THEN "own" ELSE "deferred")
    /\ UNCHANGED <<bklVars, tlbVars>>

\* if (deferred_lines) run_deferred(): the exchange ...
IrqExchange(c) ==
    /\ irq[c] = "locked"
    /\ ExchangeDeferred(c)
    /\ SetStage(c, IF deferred_lines = {} THEN "own" ELSE "deferred")
    /\ UNCHANGED <<bklVars, tlbVars>>

\* ... and its loop.
IrqDeferred(c) ==
    /\ irq[c] = "deferred"
    /\ RunDeferred(c)
    /\ SetStage(c, IF pending'[c] = {} THEN "own" ELSE "deferred")
    /\ UNCHANGED <<bklVars, tlbVars>>

\* The line's own handler (none for another CPU's tick), end_of_interrupt.
IrqOwn(c) ==
    /\ irq[c] = "own"
    /\ RunOwn(line[c])
    /\ irq' = [irq EXCEPT ![c] = "out"]
    /\ line' = [line EXCEPT ![c] = CpuTick]
    /\ UNCHANGED <<bklVars, tlbVars, mode, thread, saved>>

IrqLeave(c) ==
    /\ irq[c] = "out"
    /\ Leave(c)
    /\ Return(c)
    /\ UNCHANGED <<lineVars, tlbVars>>
-----------------------------------------------------------------------------
(* Thread switches: schedule() and the idle loop.                          *)

\* In a call (sleeping, or on its way out), in the idle loop, or at the end
\* of an interrupt that came from ring 3.
SwitchPoint(c) == At(c, "kernel") \/ (irq[c] = "out" /\ mode[c] = "user")

\* switch_thread / switch_kernel_task: c goes on in t's kernel stack, where t
\* left it.  The lock stays with the CPU.
Switch(c, t) ==
    /\ SwitchPoint(c)
    /\ t # thread[c]
    /\ t # Idle => HomeCpu[t] = c
    /\ saved' = [x \in Threads |-> IF x = t THEN "call"
                                   ELSE IF x # thread[c] THEN saved[x]
                                   ELSE IF irq[c] = "out" THEN "irq" ELSE "call"]
    /\ thread' = [thread EXCEPT ![c] = t]
    /\ IF t # Idle /\ saved[t] = "irq"
       THEN mode' = [mode EXCEPT ![c] = "user"] /\ irq' = [irq EXCEPT ![c] = "out"]
       ELSE mode' = [mode EXCEPT ![c] = "kernel"] /\ irq' = [irq EXCEPT ![c] = "none"]
    /\ SwitchSpace(c, IF t = Idle THEN KernelSpace ELSE ThreadSpace(t))
    /\ UNCHANGED <<bklVars, lineVars, line>>
-----------------------------------------------------------------------------
(* Address spaces.                                                         *)

\* The running thread is in a call and not inside load_program.
InCall(c) ==
    /\ At(c, "kernel")
    /\ thread[c] # Idle
    /\ borrowed_cr3[thread[c]] = NoSpace

Touch(c) ==
    /\ At(c, "user")
    /\ CacheTranslation(c)
    /\ UNCHANGED <<bklVars, lineVars, cpuVars>>

AllocatePages(c) ==
    /\ InCall(c)
    /\ MapPage(c)
    /\ UNCHANGED <<bklVars, lineVars, cpuVars>>

FreePages(c) ==
    /\ InCall(c)
    /\ UnmapAndFlush(c)
    /\ SetMode(c, "flush")
    /\ UNCHANGED <<bklVars, lineVars>>

\* flush_tlb's wait is over.
Flushed(c) ==
    /\ At(c, "flush")
    /\ tlb_pending = 0
    /\ SetMode(c, "kernel")
    /\ UNCHANGED <<bklVars, lineVars, tlbVars>>

\* TLB_VECTOR: taken wherever interrupts are on, without the lock.
TlbIpi(c) ==
    /\ IfOn(c)
    /\ FlushHere(c)
    /\ Return(c)
    /\ UNCHANGED <<bklVars, lineVars>>

\* load_program: between the two the thread may sleep on the file (Switch).
LoadBegin(c) ==
    /\ InCall(c)
    /\ thread[c] \in Loaders
    /\ BorrowSpace(c, thread[c])
    /\ UNCHANGED <<bklVars, lineVars, cpuVars>>

LoadEnd(c) ==
    /\ At(c, "kernel")
    /\ thread[c] # Idle
    /\ borrowed_cr3[thread[c]] # NoSpace
    /\ ReturnSpace(c, thread[c])
    /\ UNCHANGED <<bklVars, lineVars, cpuVars>>
-----------------------------------------------------------------------------
CpuStep(c) ==
    \/ Trap(c) \/ Sti(c) \/ Enter(c) \/ Exit(c) \/ Resume(c)
    \/ IrqBusy(c) \/ IrqEnter(c) \/ IrqExchange(c) \/ IrqDeferred(c)
    \/ IrqOwn(c) \/ IrqLeave(c)
    \/ Touch(c) \/ AllocatePages(c) \/ FreePages(c) \/ Flushed(c)
    \/ TlbIpi(c) \/ LoadBegin(c) \/ LoadEnd(c)
    \/ \E l \in Lines \cup {CpuTick} : Interrupt(c, l)
    \/ \E t \in Threads \cup {Idle} : Switch(c, t)

Next ==
    \/ \E c \in Cpus : CpuStep(c)
    \/ \E l \in Lines : Raised(l)

Spec == Init /\ [][Next]_vars

\* An interrupt handler runs to its end, and an entry reaches its sti: no
\* code there waits.  Interrupts come once a period, so the code they keep
\* interrupting (the loop of flush_tlb, and code a TLB interrupt is due on)
\* also gets on: strong fairness.
Fairness ==
    \A c \in Cpus :
        /\ WF_vars(Sti(c))
        /\ WF_vars(IrqBusy(c) \/ IrqEnter(c) \/ IrqExchange(c) \/ IrqDeferred(c)
                     \/ IrqOwn(c) \/ IrqLeave(c))
        /\ SF_vars(TlbIpi(c))
        /\ SF_vars(Flushed(c))

FairSpec == Spec /\ Fairness
-----------------------------------------------------------------------------
(* Properties.                                                             *)

InHandler(c) == irq[c] \in {"locked", "deferred", "own", "out"}

InKernel(c) == mode[c] \in {"kernel", "flush"}

\* "Only one CPU at a time runs kernel code" (process.h): two CPUs are never
\* both between an entry's bkl::enter / try_enter and its bkl::leave.
OneCpuInKernel ==
    \A c, d \in Cpus :
        (InKernel(c) \/ InHandler(c)) /\ (InKernel(d) \/ InHandler(d)) => c = d

\* The lock is counted exactly: the owner's depth is the number of entries
\* it is inside of, nobody else has any, and a free lock means nobody is in.
\* It is what leave() needs in order to free the lock at the right one.
Held(c) == (IF InKernel(c) THEN 1 ELSE 0) + (IF InHandler(c) THEN 1 ELSE 0)

DepthIsNesting ==
    \A c \in Cpus : /\ bkl_owner = c => bkl_depth[c] = Held(c) /\ Held(c) > 0
                    /\ bkl_owner # c => Held(c) = 0

\* bkl::check_switch never has anything to complain about: a CPU holds the
\* lock exactly once whenever it goes over to another thread's stack.
SwitchAtDepthOne ==
    [][\A c \in Cpus : thread'[c] # thread[c] => HeldOnce(c)]_vars

\* An interrupt that came is never forgotten ("its work is never lost, only
\* late", irq.cpp): until its handler has run, its line is held by the
\* controller, by deferred_lines, by run_deferred or by its own irq_handler.
NoInterruptLost ==
    \A l \in due : \/ l \in raised \cup deferred_lines
                   \/ \E c \in Cpus : l \in pending[c] \/ l = line[c]

\* "Their handlers run on the next CPU to get it on an interrupt" (irq.cpp):
\* when a handler that got the lock is done, no line that was deferred when
\* it got it still waits.
DeferredServedNext ==
    \A c \in Cpus : irq[c] = "out" => owed[c] = {}

\* A CPU keeps no translation of a page that was freed, once the flush_tlb
\* of the CPU that freed it has returned and the frame can be reused.
Coherent(s) ==
    \/ s \in mapped
    \/ \E c \in Cpus : mode[c] = "flush" /\ cr3[c] = s
    \/ \A c \in Cpus : s \notin tlb[c]

\* smp.h on flush_tlb: "make every other CPU that has it loaded drop its TLB
\* entries, and wait until they have".
NoStaleTranslation == \A s \in Spaces : Coherent(s)

\* The same, unless a thread of the process slept inside load_program.
NoStaleTranslationUnlessLoadSlept ==
    \A s \in Spaces \ {SpaceOf[t] : t \in slept_loading} : Coherent(s)

\* A CPU that waits in flush_tlb, with the lock, for the others to answer
\* does not wait for ever: none of them waits for the lock deaf to it.
FlushEnds ==
    \A c \in Cpus : (mode[c] = "flush") ~> (mode[c] # "flush")
=============================================================================
