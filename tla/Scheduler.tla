----------------------------- MODULE Scheduler ------------------------------
(***************************************************************************)
(* Processes, threads and the CPUs that run them (kernel/cpu/process.cpp): *)
(* starting and ending both, the round robin, sleeping and waking, end     *)
(* requests, pauses and doomed threads, with the disks' lock as the one    *)
(* lock that is held across a sleep.                                       *)
(*                                                                         *)
(* One CPU at a time is in the kernel (KernelEntry), and the kernel is not *)
(* preempted.  mode[c] says where CPU c is:                                *)
(*   user, halt    outside the kernel: ring 3, or the idle task's hlt      *)
(*   out           in return_to_user, after a call or an interrupt         *)
(*   choose        in choose_next                                          *)
(*   resumed       switched to a thread, which goes on where it slept      *)
(* A CPU enters only when no other is in one of the last three.            *)
(*                                                                         *)
(* at[t] is what a thread goes on with when it is switched to:             *)
(*   user          the way back to ring 3                                  *)
(*   lock          lock()'s loop, waiting for the disks' lock              *)
(*   disk          a transfer, in the middle of a disk operation           *)
(*   wait          objects::wait for a process to end                      *)
(*                                                                         *)
(* pstate Setup is the code's Unused with a pid: a slot that launch() is   *)
(* still filling.                                                          *)
(***************************************************************************)
EXTENDS TicketLock

CONSTANTS
    MaxThreads, MaxProcesses, MaxCpus,
    EndAsked,   \* bound: the process slots that Ctrl+Alt+C and EndProcess are for
    PauseAsked  \* bound: those that Ctrl+Alt+Z is for

Procs == 1 .. MaxProcesses
NoProc == 0
Cpus == 0 .. MaxCpus - 1

ASSUME SchedulerAssumption ==
    /\ MaxThreads \in Nat \ {0} /\ MaxProcesses \in Nat \ {0} /\ MaxCpus \in Nat \ {0}
    /\ Threads = 1 .. MaxThreads /\ Nobody = 0
    /\ EndAsked \subseteq Procs /\ PauseAsked \subseteq Procs

VARIABLES
    pstate, home, end_requested, reap_when_empty,   \* Process
    space,      \* the process has an address space (cr3 # 0)
    tstate, proc, cpu, running, doomed, woken,      \* Thread
    at,
    waits_for,  \* the process a thread in "wait" waits for, NoProc once ended
    launches,   \* the process a thread is setting up (launch), NoProc: none
    thread,     \* Cpu.thread
    cr3,        \* the address space each CPU is in, NoProc for the kernel's
    last_slot, mode

procVars == <<pstate, home, end_requested, reap_when_empty, space>>
threadVars == <<tstate, proc, cpu, running, doomed, woken, at, waits_for, launches>>
cpuVars == <<thread, cr3, last_slot, mode>>
vars == <<procVars, threadVars, cpuVars, lockVars>>

TypeOK ==
    /\ LockTypeOK
    /\ pstate \in [Procs -> {"Unused", "Setup", "Live", "Stopped", "Ended"}]
    /\ home \in [Procs -> Cpus]
    /\ end_requested \in [Procs -> BOOLEAN] /\ reap_when_empty \in [Procs -> BOOLEAN]
    /\ space \in [Procs -> BOOLEAN]
    /\ tstate \in [Threads -> {"Unused", "Runnable", "Blocked"}]
    /\ proc \in [Threads -> Procs \cup {NoProc}]
    /\ cpu \in [Threads -> Cpus]
    /\ running \in [Threads -> BOOLEAN] /\ doomed \in [Threads -> BOOLEAN]
    /\ woken \in [Threads -> BOOLEAN]
    /\ at \in [Threads -> {"user", "lock", "disk", "wait"}]
    /\ waits_for \in [Threads -> Procs \cup {NoProc}]
    /\ launches \in [Threads -> Procs \cup {NoProc}]
    /\ thread \in [Cpus -> Threads \cup {Nobody}]
    /\ cr3 \in [Cpus -> Procs \cup {NoProc}]
    /\ last_slot \in [Cpus -> Threads]
    /\ mode \in [Cpus -> {"user", "halt", "out", "choose", "resumed"}]

\* The first program has been started; every CPU is in its idle loop.
Init ==
    /\ LockInit
    /\ pstate = [p \in Procs |-> IF p = 1 THEN "Live" ELSE "Unused"]
    /\ home = [p \in Procs |-> 0]
    /\ end_requested = [p \in Procs |-> FALSE]
    /\ reap_when_empty = [p \in Procs |-> FALSE]
    /\ space = [p \in Procs |-> p = 1]
    /\ tstate = [t \in Threads |-> IF t = 1 THEN "Runnable" ELSE "Unused"]
    /\ proc = [t \in Threads |-> IF t = 1 THEN 1 ELSE NoProc]
    /\ cpu = [t \in Threads |-> 0]
    /\ running = [t \in Threads |-> FALSE] /\ doomed = [t \in Threads |-> FALSE]
    /\ woken = [t \in Threads |-> FALSE]
    /\ at = [t \in Threads |-> "user"]
    /\ waits_for = [t \in Threads |-> NoProc]
    /\ launches = [t \in Threads |-> NoProc]
    /\ thread = [c \in Cpus |-> Nobody]
    /\ cr3 = [c \in Cpus |-> NoProc]
    /\ last_slot = [c \in Cpus |-> MaxThreads]
    /\ mode = [c \in Cpus |-> "halt"]
-----------------------------------------------------------------------------
Alive(p) == pstate[p] \in {"Live", "Stopped"}

ThreadsOf(p) == {t \in Threads : proc[t] = p}

\* The lock of the kernel is free: no CPU is inside.
KernelFree == \A c \in Cpus : mode[c] \in {"user", "halt"}

Go(c, m) == mode' = [mode EXCEPT ![c] = m]

Least(S) == CHOOSE x \in S : \A y \in S : x <= y

\* least_loaded_cpu()
LeastLoadedCpu ==
    LET Load(c) == Cardinality({t \in Threads : tstate[t] # "Unused" /\ cpu[t] = c})
    IN  Least({c \in Cpus : \A d \in Cpus : Load(c) <= Load(d)})

\* The slots alloc_thread may give out: a thread that is not started yet has
\* its process already.
FreeSlots == {t \in Threads : tstate[t] = "Unused" /\ proc[t] = NoProc}

\* alloc_thread: slot t is for a thread of process p, on CPU c.
AllocThread(t, p, c) ==
    /\ proc' = [proc EXCEPT ![t] = p]
    /\ cpu' = [cpu EXCEPT ![t] = c]

\* Slips: the thread that runs on another CPU is freed under it; the one that
\* sleeps on the disks' lock is freed with its ticket.
SurvivesIfAsleep(t, c) == holds[t] > 0 /\ t # thread[c]
SurvivesIfRunning(t, c) == running[t] /\ t # thread[c]

\* end_threads cannot free the thread from CPU c, and dooms it.
Survives(t, c) == (running[t] \/ holds[t] > 0) /\ t # thread[c]

\* A slip: only the first on the queue is woken, whoever's turn it is.
WakeOne(T) == IF T = {} THEN woken ELSE [woken EXCEPT ![Least(T)] = TRUE]

\* wait::wake_up on the queue the threads T sleep on.
WakeUp(T) == [t \in Threads |-> woken[t] \/ t \in T]

\* free_thread for the threads `gone`, dooming the threads `left`.
EndThreads(c, gone, left) ==
    /\ tstate' = [t \in Threads |-> IF t \in gone THEN "Unused" ELSE tstate[t]]
    /\ proc' = [t \in Threads |-> IF t \in gone THEN NoProc ELSE proc[t]]
    /\ running' = [t \in Threads |-> running[t] /\ t \notin gone]
    /\ doomed' = [t \in Threads |-> (doomed[t] \/ t \in left) /\ t \notin gone]
    /\ at' = [t \in Threads |-> IF t \in gone THEN "user" ELSE at[t]]
    /\ cpu' = [t \in Threads |-> IF t \in gone THEN 0 ELSE cpu[t]]
    /\ launches' = [t \in Threads |-> IF t \in gone THEN NoProc ELSE launches[t]]
    /\ thread' = [thread EXCEPT ![c] = IF @ \in gone THEN Nobody ELSE @]
    /\ UNCHANGED lockVars

\* release_address_space(p) on CPU c.
LeaveSpace(c, p) == cr3' = [cr3 EXCEPT ![c] = IF @ = p THEN NoProc ELSE @]

\* terminate(p) on CPU c.  Its waiters find it exited; its slot is free, or,
\* while a doomed thread is left, Ended.  (Closing its files takes and gives
\* the disks' lock in one go: SleepLock!Teardown.)
Terminate(c, p) ==
    LET left == {t \in ThreadsOf(p) : Survives(t, c)}
        waiters == {t \in Threads : waits_for[t] = p}
        gone == ThreadsOf(p) \ left
    IN  /\ EndThreads(c, gone, left)
        /\ woken' = [t \in Threads |-> WakeUp(waiters)[t] /\ t \notin gone]
        /\ waits_for' = [t \in Threads |->
                            IF t \in gone \cup waiters THEN NoProc ELSE waits_for[t]]
        /\ IF left = {}
           THEN /\ pstate' = [pstate EXCEPT ![p] = "Unused"]
                /\ space' = [space EXCEPT ![p] = FALSE]
                /\ end_requested' = [end_requested EXCEPT ![p] = FALSE]
                /\ home' = [home EXCEPT ![p] = 0]
                /\ LeaveSpace(c, p)
                /\ UNCHANGED reap_when_empty
           ELSE /\ pstate' = [pstate EXCEPT ![p] = "Ended"]
                /\ reap_when_empty' = [reap_when_empty EXCEPT ![p] = TRUE]
                /\ UNCHANGED <<space, end_requested, home, cr3>>
        /\ UNCHANGED last_slot

\* A slip: the slot of the process is not freed with its last thread.
NeverReap(p) == FALSE

\* end_if_doomed's last thread takes the slot of the process along.
Reap(p) == reap_when_empty[p]

\* end_if_doomed on CPU c: its thread ends, the last one with the address
\* space and the slot of the process; then the scheduler.
EndDoomed(c) ==
    LET t == thread[c]
        p == proc[t]
        last == ThreadsOf(p) = {t}
    IN  /\ doomed[t]
        /\ EndThreads(c, {t}, {})
        /\ woken' = [woken EXCEPT ![t] = FALSE]
        /\ waits_for' = [waits_for EXCEPT ![t] = NoProc]
        /\ IF last THEN LeaveSpace(c, p) /\ space' = [space EXCEPT ![p] = FALSE]
                   ELSE UNCHANGED <<cr3, space>>
        /\ IF last /\ Reap(p)
           THEN /\ pstate' = [pstate EXCEPT ![p] = "Unused"]
                /\ reap_when_empty' = [reap_when_empty EXCEPT ![p] = FALSE]
                /\ end_requested' = [end_requested EXCEPT ![p] = FALSE]
                /\ home' = [home EXCEPT ![p] = 0]
           ELSE UNCHANGED <<pstate, reap_when_empty, end_requested, home>>
        /\ Go(c, "choose")
        /\ UNCHANGED last_slot
-----------------------------------------------------------------------------
(* Kernel entries from ring 3.  All but a doomed thread's begin with       *)
(* syscall_enter, on_user_interrupt or on_user_fault letting it go on.     *)

\* A slip: a call does not begin with end_if_doomed.
EntersUnasked(c) == mode[c] = "user" /\ KernelFree

Enters(c) == mode[c] = "user" /\ KernelFree /\ ~ doomed[thread[c]]

\* end_if_doomed, on the way in from ring 3 and first thing on the way out.
DoomedEntry(c) ==
    /\ thread[c] # Nobody
    /\ (mode[c] = "user" /\ KernelFree) \/ mode[c] = "out"
    /\ EndDoomed(c)

\* sf_exit, on_user_fault.
Exit(c) ==
    /\ Enters(c)
    /\ Terminate(c, proc[thread[c]])
    /\ Go(c, "choose")

\* sf_thread_exit: the last thread's exit is the process's.
ThreadExit(c) ==
    LET t == thread[c] IN
    /\ Enters(c)
    /\ IF Cardinality(ThreadsOf(proc[t])) = 1
       THEN Terminate(c, proc[t])
       ELSE /\ EndThreads(c, {t}, {})
            /\ UNCHANGED <<woken, waits_for, procVars, cr3, last_slot>>
    /\ Go(c, "choose")

\* queue_sleep, as far as its schedule().
Sleep(t, where) ==
    /\ tstate' = [tstate EXCEPT ![t] = "Blocked"]
    /\ at' = [at EXCEPT ![t] = where]

\* sf_thread_create
ThreadCreate(c) ==
    LET t == Least(FreeSlots) IN
    /\ Enters(c)
    /\ FreeSlots # {}
    /\ AllocThread(t, proc[thread[c]], LeastLoadedCpu)
    /\ tstate' = [tstate EXCEPT ![t] = "Runnable"]
    /\ Go(c, "out")
    /\ UNCHANGED <<procVars, running, doomed, woken, at, waits_for, launches,
                   thread, cr3, last_slot, lockVars>>

\* A disk operation asks for the disks' lock, and sleeps for it or, having it,
\* for its first transfer.
DiskOperation(t) ==
    /\ Ask(t)
    /\ Sleep(t, IF owner' = t THEN "disk" ELSE "lock")

\* sf_process_start, with the image loaded, as far as launch's disk operation
\* (open_roots): alloc_process has taken a slot, with its first thread and
\* with a pid that keeps others away.
ProcessStart(c) ==
    LET t == thread[c]
        p == Least({q \in Procs : pstate[q] = "Unused"})
        h == LeastLoadedCpu
    IN  /\ Enters(c)
        /\ FreeSlots # {} /\ \E q \in Procs : pstate[q] = "Unused"
        /\ AllocThread(Least(FreeSlots), p, h)
        /\ pstate' = [pstate EXCEPT ![p] = "Setup"]
        /\ home' = [home EXCEPT ![p] = h]
        /\ space' = [space EXCEPT ![p] = TRUE]
        /\ launches' = [launches EXCEPT ![t] = p]
        /\ DiskOperation(t)
        /\ Go(c, "choose")
        /\ UNCHANGED <<end_requested, reap_when_empty, running, doomed, woken, waits_for,
                       thread, cr3, last_slot>>

\* sf_process_wait on process p, which has not ended yet.
ProcessWait(c, p) ==
    LET t == thread[c] IN
    /\ Enters(c)
    /\ Alive(p) /\ p # proc[t]
    /\ Sleep(t, "wait")
    /\ waits_for' = [waits_for EXCEPT ![t] = p]
    /\ Go(c, "choose")
    /\ UNCHANGED <<procVars, proc, cpu, running, doomed, woken, launches,
                   thread, cr3, last_slot, lockVars>>

\* A file call.
FileCall(c) ==
    /\ Enters(c)
    /\ DiskOperation(thread[c])
    /\ Go(c, "choose")
    /\ UNCHANGED <<procVars, proc, cpu, running, doomed, woken, waits_for, launches,
                   thread, cr3, last_slot>>

\* A tick: the time slice is over, or the thread goes back by return_to_user.
Tick(c, m) ==
    /\ Enters(c)
    /\ Go(c, m)
    /\ UNCHANGED <<procVars, threadVars, thread, cr3, last_slot, lockVars>>

TickSliceOver(c) == Tick(c, "choose")

TickGoesOn(c) == Tick(c, "out")

\* An interrupt ends the hlt of the idle loop.
WakeIdle(c) ==
    /\ mode[c] = "halt" /\ KernelFree
    /\ Go(c, "choose")
    /\ UNCHANGED <<procVars, threadVars, thread, cr3, last_slot, lockVars>>
-----------------------------------------------------------------------------
(* Requests, and the scheduling decision.                                  *)

HoldsLocks(p) == \E t \in ThreadsOf(p) : holds[t] > 0

\* A slip: only the process that runs here is looked at.
ToBeEndedHere(c) ==
    {p \in Procs : /\ thread[c] # Nobody /\ p = proc[thread[c]]
                   /\ home[p] = c /\ Alive(p) /\ end_requested[p] /\ ~ HoldsLocks(p)}

\* Whom service_requests ends on CPU c.
ToBeEnded(c) ==
    {p \in Procs : home[p] = c /\ Alive(p) /\ end_requested[p] /\ ~ HoldsLocks(p)}

ServiceRequest(c) ==
    /\ mode[c] \in {"out", "choose"}
    /\ ToBeEnded(c) # {}
    /\ Terminate(c, Least(ToBeEnded(c)))
    /\ UNCHANGED mode

\* request_end, by EndProcess or by choose_next for Ctrl+Alt+C.
RequestEnd(c, p) ==
    /\ mode[c] \in {"out", "choose"}
    /\ Alive(p) /\ ~ end_requested[p]
    /\ end_requested' = [end_requested EXCEPT ![p] = TRUE]
    /\ UNCHANGED <<pstate, home, reap_when_empty, space, threadVars, cpuVars, lockVars>>

\* pause_process or resume_process, by choose_next for Ctrl+Alt+Z.
PauseOrResume(c, p) ==
    /\ mode[c] = "choose"
    /\ Alive(p)
    /\ pstate' = [pstate EXCEPT ![p] = IF @ = "Live" THEN "Stopped" ELSE "Live"]
    /\ UNCHANGED <<home, end_requested, reap_when_empty, space, threadVars, cpuVars, lockVars>>

WakeReady(t) == end_requested[proc[t]] \/ woken[t]

\* A slip: of a paused process, only the sleeping threads are passed over.
MayRunIfRunnable(t) ==
    \/ pstate[proc[t]] = "Live"
    \/ pstate[proc[t]] = "Stopped" /\ tstate[t] = "Runnable"

\* The process lets the thread run: a paused one only to finish what it holds
\* the disks' lock for.
MayRun(t) ==
    \/ pstate[proc[t]] = "Live"
    \/ pstate[proc[t]] = "Stopped" /\ holds[t] > 0

Ready(c) ==
    {t \in Threads :
        /\ tstate[t] # "Unused" /\ cpu[t] = c /\ MayRun(t)
        /\ tstate[t] = "Blocked" => WakeReady(t)}

\* How far the round robin of CPU c is from slot t.
Turn(c, t) == (t + MaxThreads - last_slot[c] - 1) % MaxThreads

\* A slip: the search always begins at the first slot.
PickFirst(c) == Least(Ready(c))

\* pick_next: the first ready thread after last_slot.
PickNext(c) == CHOOSE t \in Ready(c) : \A u \in Ready(c) : Turn(c, t) <= Turn(c, u)

\* A slip: the thread that is left stays marked as running.
SwitchOnly(c, t) == [running EXCEPT ![t] = TRUE]

\* Thread.running when CPU c switches to thread t.
SwitchRunning(c, t) == [u \in Threads |-> u = t \/ (running[u] /\ u # thread[c])]

\* schedule() and idle() with somebody to run: switch_thread.
Switch(c) ==
    LET t == PickNext(c) IN
    /\ mode[c] = "choose" /\ ToBeEnded(c) = {}
    /\ Ready(c) # {}
    /\ tstate' = [tstate EXCEPT ![t] = "Runnable"]
    /\ running' = SwitchRunning(c, t)
    /\ thread' = [thread EXCEPT ![c] = t]
    /\ cr3' = [cr3 EXCEPT ![c] = proc[t]]
    /\ last_slot' = [last_slot EXCEPT ![c] = t]
    /\ Go(c, "resumed")
    /\ UNCHANGED <<procVars, proc, cpu, doomed, woken, at, waits_for, launches, lockVars>>

\* With nobody: switch_kernel_task, and the idle loop, finding nobody either,
\* halts.
GoIdle(c) ==
    /\ mode[c] = "choose" /\ ToBeEnded(c) = {}
    /\ Ready(c) = {}
    /\ running' = [u \in Threads |-> running[u] /\ u # thread[c]]
    /\ thread' = [thread EXCEPT ![c] = Nobody]
    /\ cr3' = [cr3 EXCEPT ![c] = NoProc]
    /\ Go(c, "halt")
    /\ UNCHANGED <<procVars, tstate, proc, cpu, doomed, woken, at, waits_for, launches,
                   last_slot, lockVars>>

\* The end of return_to_user.
ReturnToUser(c) ==
    LET t == thread[c] IN
    /\ mode[c] = "out" /\ ToBeEnded(c) = {}
    /\ t # Nobody => ~ doomed[t]
    /\ Go(c, IF t # Nobody /\ pstate[proc[t]] = "Live" THEN "user" ELSE "choose")
    /\ UNCHANGED <<procVars, threadVars, thread, cr3, last_slot, lockVars>>
-----------------------------------------------------------------------------
(* What a thread does that was switched to.                                *)

Resumes(c, where) == mode[c] = "resumed" /\ at[thread[c]] = where

ResumeUser(c) ==
    /\ Resumes(c, "user")
    /\ Go(c, "user")
    /\ UNCHANGED <<procVars, threadVars, thread, cr3, last_slot, lockVars>>

\* lock()'s loop: with its turn come it has the lock and sleeps for its first
\* transfer, otherwise it sleeps again.
ResumeLock(c) ==
    LET t == thread[c] IN
    /\ Resumes(c, "lock")
    /\ IF MyTurn(t) THEN Get(t, FALSE) /\ Sleep(t, "disk")
                    ELSE UNCHANGED lockVars /\ Sleep(t, "lock")
    /\ woken' = [woken EXCEPT ![t] = FALSE]
    /\ Go(c, "choose")
    /\ UNCHANGED <<procVars, proc, cpu, running, doomed, waits_for, launches,
                   thread, cr3, last_slot>>

\* The transfer is done (a sleep cut short spins until it is): the operation
\* ends and lets the lock go.  If it was launch's, the new process starts.
ResumeDisk(c) ==
    LET t == thread[c]
        p == launches[t]
        sleepers == {u \in Threads : at[u] = "lock" /\ tstate[u] = "Blocked"}
    IN  /\ Resumes(c, "disk")
        /\ Unlock(t)
        /\ woken' = [WakeUp(sleepers) EXCEPT ![t] = FALSE]
        /\ at' = [at EXCEPT ![t] = "user"]
        /\ pstate' = [q \in Procs |-> IF q = p THEN "Live" ELSE pstate[q]]
        /\ tstate' = [u \in Threads |->
                         IF p # NoProc /\ proc[u] = p THEN "Runnable" ELSE tstate[u]]
        /\ launches' = [launches EXCEPT ![t] = NoProc]
        /\ Go(c, "out")
        /\ UNCHANGED <<home, end_requested, reap_when_empty, space, proc, cpu, running,
                       doomed, waits_for, thread, cr3, last_slot>>

\* objects::wait returns: the process has ended, or the caller is to end.
ResumeWait(c) ==
    LET t == thread[c] IN
    /\ Resumes(c, "wait")
    /\ woken' = [woken EXCEPT ![t] = FALSE]
    /\ at' = [at EXCEPT ![t] = "user"]
    /\ waits_for' = [waits_for EXCEPT ![t] = NoProc]
    /\ Go(c, "out")
    /\ UNCHANGED <<procVars, tstate, proc, cpu, running, doomed, launches,
                   thread, cr3, last_slot, lockVars>>

\* on_timer_tick wakes the sleeper of a transfer, on whatever CPU serves it.
TimerWake(t) ==
    /\ at[t] = "disk" /\ tstate[t] = "Blocked" /\ ~ woken[t]
    /\ woken' = WakeUp({t})
    /\ UNCHANGED <<procVars, tstate, proc, cpu, running, doomed, at, waits_for, launches,
                   cpuVars, lockVars>>

\* What CPU c does inside the kernel, where it does not stop by itself.
InKernel(c) ==
    \/ ServiceRequest(c) \/ Switch(c) \/ GoIdle(c) \/ ReturnToUser(c)
    \/ ResumeUser(c) \/ ResumeLock(c) \/ ResumeDisk(c) \/ ResumeWait(c)

Next ==
    \/ \E c \in Cpus :
          \/ InKernel(c)
          \/ DoomedEntry(c) \/ Exit(c) \/ ThreadExit(c) \/ ThreadCreate(c) \/ ProcessStart(c)
          \/ FileCall(c) \/ TickSliceOver(c) \/ TickGoesOn(c) \/ WakeIdle(c)
          \/ \E p \in Procs : ProcessWait(c, p)
          \/ \E p \in EndAsked : RequestEnd(c, p)
          \/ \E p \in PauseAsked : PauseOrResume(c, p)
    \/ \E t \in Threads : TimerWake(t)

Spec == Init /\ [][Next]_vars

\* A CPU in the kernel goes on; transfers end; every CPU has a timer, and one
\* that finds the kernel free again and again gets in.  Programs call when
\* they please.
FairSpec ==
    /\ Spec
    /\ \A c \in Cpus :
          /\ WF_vars(InKernel(c))
          /\ SF_vars(TickSliceOver(c)) /\ SF_vars(DoomedEntry(c)) /\ SF_vars(WakeIdle(c))
    /\ \A t \in Threads : WF_vars(TimerWake(t))
-----------------------------------------------------------------------------
(* Properties.                                                             *)

\* No CPU is in an address space that release_address_space has destroyed:
\* "the address space goes with the last thread" (process.h), though its
\* threads run on several CPUs and any of them may end the process.
NoCpuInFreedSpace ==
    \A c \in Cpus : cr3[c] # NoProc => space[cr3[c]]

\* Thread.running, Cpu.thread and Cpu.cr3 tell the same story: a thread runs on
\* at most one CPU, its own, in its process's address space.
RunningIsCurrent ==
    /\ \A t \in Threads : running[t] <=> \E c \in Cpus : thread[c] = t
    /\ \A c \in Cpus : thread[c] # Nobody =>
          /\ tstate[thread[c]] # "Unused" /\ cpu[thread[c]] = c
          /\ cr3[c] = proc[thread[c]]

\* Whoever has a ticket of the disks' lock, or the lock, is a thread that still
\* exists: "a thread holding one, or waiting for it, is not ended where it is"
\* (wait.h), whichever of its siblings or CPUs ends the process.
TicketHoldersExist ==
    \A t \in Threads : ticket[t] # NoTicket => tstate[t] # "Unused" /\ at[t] \in {"lock", "disk"}

\* A process slot is empty exactly when it has no threads and no address space,
\* and Ended exactly while doomed threads are left: the slot comes back with
\* the last of them.  One being set up has somebody who will start it.
SlotsAreClean ==
    \A p \in Procs :
        /\ pstate[p] = "Unused" <=> ThreadsOf(p) = {}
        /\ pstate[p] # "Unused" <=> space[p]
        /\ pstate[p] = "Setup" <=> \E t \in Threads : launches[t] = p
        /\ pstate[p] = "Ended" <=> \E t \in ThreadsOf(p) : doomed[t]
        /\ pstate[p] = "Ended" => \A t \in ThreadsOf(p) : doomed[t]

\* A sleeper whose reason to sleep is over has been woken: the process it waits
\* for has ended, or the lock is free and its turn has come.
NoLostWakeup ==
    \A t \in Threads : tstate[t] = "Blocked" =>
        /\ at[t] = "wait" /\ waits_for[t] = NoProc => woken[t]
        /\ at[t] = "lock" /\ MyTurn(t) => woken[t]

\* A thread of a process that ended elsewhere "goes no further" (syscall_enter):
\* the next time it enters the kernel, it ends.
DoomedGoNoFurther ==
    [][\A c \in Cpus :
          mode[c] = "user" /\ doomed[thread[c]] /\ mode'[c] # "user" =>
              tstate'[thread[c]] = "Unused"]_vars

\* No thread of a paused program gets back to ring 3 before the program goes
\* on, however it was paused: in a call, asleep, or waiting for the disks.
PausedStaysOut ==
    [][\A c \in Cpus :
          mode[c] # "user" /\ mode'[c] = "user" => pstate[proc[thread[c]]] = "Live"]_vars
-----------------------------------------------------------------------------
(* Liveness.                                                               *)

\* A doomed thread that sleeps: nothing will run it again.
DoomedAsleep == \E t \in Threads : doomed[t] /\ ~ running[t]

\* A thread that is to end waits for a lock that another CPU's thread has.
EndingInLine ==
    \E t \in Threads : at[t] = "lock" /\ proc[t] # NoProc /\ end_requested[proc[t]]

\* A request to end a program is acted on, paused or not, whatever its threads
\* do, as long as none of them is caught in the disks' lock.
RequestsAreServed ==
    []~(DoomedAsleep \/ EndingInLine) =>
        \A p \in Procs : end_requested[p] ~> ~ Alive(p)

\* Every thread that can run does in the end: the round robin passes over
\* nobody, on any CPU.
EveryThreadRuns ==
    []~(DoomedAsleep \/ EndingInLine) =>
        \A t \in Threads :
            tstate[t] = "Runnable" ~>
                tstate[t] # "Runnable" \/ running[t] \/ pstate[proc[t]] = "Stopped"

\* "One running elsewhere, or asleep holding a lock (the exit of another of
\* its threads), ends once it is back at a way out" (end_threads): a doomed
\* thread ends.
DoomedEnds ==
    \A t \in Threads : doomed[t] ~> ~ doomed[t]
=============================================================================
