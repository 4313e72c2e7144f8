-------------------------- MODULE SchedulerProofs ---------------------------
(***************************************************************************)
(* For any number of threads, processes and CPUs: the CPUs, the threads    *)
(* and the processes agree about who runs where, no thread is freed with   *)
(* the disks' lock or a ticket of it, no CPU is left in a freed address    *)
(* space, no process slot is lost, and no sleeper is forgotten.            *)
(*                                                                         *)
(* First the invariant; then the steps in which threads enter, end, are    *)
(* asked to end or are paused; then those that search a table, sleep, wake *)
(* and start threads; then the theorems.                                   *)
(***************************************************************************)
EXTENDS Scheduler, FiniteSetTheorems, WellFoundedInduction, TLAPS

InKernelModes == {"out", "choose", "resumed"}

\* The disks' lock and the threads: a thread has a ticket, and one hold, just
\* while it is inside a disk operation, and the lock once it transfers.
LockFacts ==
    /\ depth \in {0, 1}
    /\ owner = Nobody <=> depth = 0
    /\ \A t \in Threads :
          /\ at[t] = "disk" <=> owner = t
          /\ ticket[t] # NoTicket <=> at[t] \in {"lock", "disk"}
          /\ holds[t] = IF at[t] \in {"lock", "disk"} THEN 1 ELSE 0

\* One CPU at a time is in the kernel; outside it has the thread and the
\* address space that it runs, and a thread there is in the middle of nothing.
CpuFacts ==
    /\ \A c, d \in Cpus : mode[c] \in InKernelModes /\ mode[d] \in InKernelModes => c = d
    /\ \A c \in Cpus :
          /\ mode[c] = "halt" => thread[c] = Nobody
          /\ mode[c] \in {"user", "resumed"} => thread[c] # Nobody
          /\ mode[c] \in {"user", "halt"} /\ thread[c] = Nobody => cr3[c] = NoProc
          /\ mode[c] \in {"user", "out"} /\ thread[c] # Nobody => at[thread[c]] = "user"
          /\ mode[c] = "resumed" => MayRun(thread[c])

\* A thread slot is in use from alloc_thread on, and has nothing left over
\* when it is not; only one being launched is not started yet.
ThreadFacts ==
    \A t \in Threads :
        /\ tstate[t] # "Unused" => proc[t] # NoProc
        /\ proc[t] # NoProc => (tstate[t] = "Unused" <=> pstate[proc[t]] = "Setup")
        /\ tstate[t] = "Unused" =>
              ~ running[t] /\ ~ doomed[t] /\ at[t] = "user" /\ launches[t] = NoProc
        /\ launches[t] # NoProc => at[t] \in {"lock", "disk"}

\* One thread launches a process; a process that ended is reaped once empty.
ProcFacts ==
    /\ \A t, u \in Threads : launches[t] = launches[u] /\ launches[t] # NoProc => t = u
    /\ \A p \in Procs : reap_when_empty[p] <=> pstate[p] = "Ended"

\* The inductive invariant.
SchedInv ==
    /\ TypeOK /\ LockFacts /\ CpuFacts /\ ThreadFacts /\ ProcFacts
    /\ NoCpuInFreedSpace /\ RunningIsCurrent /\ SlotsAreClean /\ NoLostWakeup
-----------------------------------------------------------------------------
(* The choices the code makes by searching.                                *)

\* What the numbers of the tickets, slots and CPUs are.
LEMMA Numbers ==
    /\ Wrap \in Nat /\ Wrap > 0
    /\ NoTicket = Wrap /\ NoTicket \notin Tickets /\ 0 \in Tickets
    /\ \A n \in Tickets : Succ(n) \in Tickets
    /\ Nobody \notin Threads /\ NoProc \notin Procs
    /\ 1 \in Threads /\ 1 \in Procs /\ 0 \in Cpus /\ MaxThreads \in Threads
    /\ Threads \subseteq Nat /\ Procs \subseteq Nat
BY LockAssumption, SchedulerAssumption DEF Tickets, NoTicket, Succ, NoProc, Procs, Cpus

\* What SlotsAreClean says, thread by thread.
LEMMA SlotsMeaning ==
    SlotsAreClean <=> \A q \in Procs :
        /\ pstate[q] = "Unused" <=> ~ \E u \in Threads : proc[u] = q
        /\ pstate[q] # "Unused" <=> space[q]
        /\ pstate[q] = "Setup" <=> \E u \in Threads : launches[u] = q
        /\ pstate[q] = "Ended" <=> \E u \in Threads : proc[u] = q /\ doomed[u]
        /\ pstate[q] = "Ended" => \A u \in Threads : proc[u] = q => doomed[u]
BY DEF SlotsAreClean, ThreadsOf

\* The same after a step.
LEMMA SlotsMeaningNext ==
    SlotsAreClean' <=> \A q \in Procs :
        /\ pstate'[q] = "Unused" <=> ~ \E u \in Threads : proc'[u] = q
        /\ pstate'[q] # "Unused" <=> space'[q]
        /\ pstate'[q] = "Setup" <=> \E u \in Threads : launches'[u] = q
        /\ pstate'[q] = "Ended" <=> \E u \in Threads : proc'[u] = q /\ doomed'[u]
        /\ pstate'[q] = "Ended" => \A u \in Threads : proc'[u] = q => doomed'[u]
BY DEF SlotsAreClean, ThreadsOf
-----------------------------------------------------------------------------
(* The initial states.                                                     *)

\* The state the kernel starts the first program in satisfies the invariant.
LEMMA InitInv == Init => SchedInv
<1> SUFFICES ASSUME Init PROVE SchedInv
  BY Zenon
<1> USE Numbers DEF Init, LockInit
<1>1. TypeOK
  BY Zenon DEF TypeOK, LockTypeOK
<1>2. LockFacts /\ ThreadFacts /\ ProcFacts
  BY Zenon DEF LockFacts, ThreadFacts, ProcFacts
<1>3. CpuFacts /\ NoCpuInFreedSpace /\ RunningIsCurrent /\ NoLostWakeup
  BY Zenon DEF CpuFacts, NoCpuInFreedSpace, RunningIsCurrent, NoLostWakeup, InKernelModes, NoProc
<1>4. SlotsAreClean
  <2> SUFFICES ASSUME NEW p \in Procs
               PROVE  /\ pstate[p] = "Unused" <=> ThreadsOf(p) = {}
                      /\ pstate[p] # "Unused" <=> space[p]
                      /\ pstate[p] = "Setup" <=> \E t \in Threads : launches[t] = p
                      /\ pstate[p] = "Ended" <=> \E t \in ThreadsOf(p) : doomed[t]
                      /\ pstate[p] = "Ended" => \A t \in ThreadsOf(p) : doomed[t]
    BY Zenon DEF SlotsAreClean
  <2>1. CASE p = 1
    BY <2>1, Zenon DEF ThreadsOf
  <2>2. CASE p # 1
    BY <2>2, Zenon DEF ThreadsOf
  <2> QED
    BY <2>1, <2>2, Zenon
<1> QED
  BY <1>1, <1>2, <1>3, <1>4, Zenon DEF SchedInv
-----------------------------------------------------------------------------
(* Steps that change only where a CPU is.                                  *)

\* No other CPU is in the kernel.
Alone(c) == \A d \in Cpus \ {c} : mode[d] \in {"user", "halt"}

\* The kernel's lock: who enters or is inside is alone there.
LEMMA EntersAlone ==
    ASSUME SchedInv, NEW c \in Cpus, KernelFree \/ mode[c] \in InKernelModes
    PROVE  Alone(c)
BY ZenonT(60) DEF SchedInv, TypeOK, CpuFacts, Alone, KernelFree, InKernelModes

\* A thread that is let in from ring 3 exists, is in the middle of nothing, and
\* its process is alive.
LEMMA EntersFacts ==
    ASSUME SchedInv, NEW c \in Cpus, Enters(c)
    PROVE  /\ Alone(c) /\ mode[c] = "user"
           /\ thread[c] \in Threads /\ at[thread[c]] = "user" /\ ~ doomed[thread[c]]
           /\ tstate[thread[c]] # "Unused" /\ cpu[thread[c]] = c /\ running[thread[c]]
           /\ holds[thread[c]] = 0 /\ ticket[thread[c]] = NoTicket /\ owner # thread[c]
           /\ launches[thread[c]] = NoProc
           /\ proc[thread[c]] \in Procs /\ Alive(proc[thread[c]])
           /\ cr3[c] = proc[thread[c]]
<1>1. Alone(c) /\ mode[c] = "user" /\ ~ doomed[thread[c]]
  BY EntersAlone, Zenon DEF Enters
<1>2. /\ thread[c] \in Threads /\ at[thread[c]] = "user"
      /\ tstate[thread[c]] # "Unused" /\ cpu[thread[c]] = c /\ running[thread[c]]
      /\ cr3[c] = proc[thread[c]]
  BY <1>1, Numbers, Zenon DEF SchedInv, TypeOK, CpuFacts, RunningIsCurrent
<1>3. /\ holds[thread[c]] = 0 /\ ticket[thread[c]] = NoTicket /\ owner # thread[c]
      /\ launches[thread[c]] = NoProc
  BY <1>2 DEF SchedInv, LockFacts, ThreadFacts
<1>4. proc[thread[c]] \in Procs /\ pstate[proc[thread[c]]] # "Setup"
  <2>1. proc[thread[c]] \in Procs \cup {NoProc}
    BY <1>2, Zenon DEF SchedInv, TypeOK
  <2> QED
    BY <1>2, <2>1, Numbers, Zenon DEF SchedInv, ThreadFacts
<1>5. Alive(proc[thread[c]])
  BY <1>1, <1>2, <1>4 DEF SchedInv, SlotsAreClean, ThreadsOf, TypeOK, Alive
<1> QED
  BY <1>1, <1>2, <1>3, <1>4, <1>5, Zenon

\* CPU c goes on in mode m with everything else as it was.
LEMMA GoInv ==
    ASSUME SchedInv, NEW c \in Cpus, NEW m \in {"user", "halt", "out", "choose", "resumed"},
           Alone(c), Go(c, m),
           UNCHANGED <<procVars, threadVars, thread, cr3, last_slot, lockVars>>,
           m = "halt" => thread[c] = Nobody /\ cr3[c] = NoProc,
           m \in {"user", "out"} => thread[c] # Nobody /\ at[thread[c]] = "user",
           m # "resumed"
    PROVE  SchedInv'
<1> USE DEF procVars, threadVars, lockVars
<1>1. TypeOK'
  BY Zenon DEF SchedInv, TypeOK, LockTypeOK, Go
<1>2. CpuFacts'
  BY DEF SchedInv, TypeOK, CpuFacts, Go, Alone, InKernelModes, MayRun
<1>3. LockFacts' /\ ThreadFacts' /\ ProcFacts'
  BY ZenonT(60) DEF SchedInv, LockFacts, ThreadFacts, ProcFacts
<1>4. NoCpuInFreedSpace' /\ RunningIsCurrent' /\ SlotsAreClean' /\ NoLostWakeup'
  BY DEF SchedInv, NoCpuInFreedSpace, RunningIsCurrent, SlotsAreClean, NoLostWakeup, ThreadsOf, MyTurn
<1> QED
  BY <1>1, <1>2, <1>3, <1>4, Zenon DEF SchedInv

\* A tick.
LEMMA TickInv ==
    ASSUME SchedInv, NEW c \in Cpus, TickSliceOver(c) \/ TickGoesOn(c)
    PROVE  SchedInv'
<1>1. PICK m \in {"choose", "out"} : Tick(c, m)
  BY Zenon DEF TickSliceOver, TickGoesOn
<1>2. Alone(c) /\ thread[c] \in Threads /\ at[thread[c]] = "user"
  BY <1>1, EntersFacts, Zenon DEF Tick
<1> QED
  BY <1>1, <1>2, GoInv, Numbers, Zenon DEF Tick

\* An interrupt ends the hlt.
LEMMA WakeIdleInv ==
    ASSUME SchedInv, NEW c \in Cpus, WakeIdle(c)
    PROVE  SchedInv'
BY EntersAlone, GoInv, Zenon DEF WakeIdle

\* The end of return_to_user.
LEMMA ReturnToUserInv ==
    ASSUME SchedInv, NEW c \in Cpus, ReturnToUser(c)
    PROVE  SchedInv'
<1>1. Alone(c) /\ (thread[c] # Nobody => at[thread[c]] = "user")
  BY EntersAlone, Zenon DEF ReturnToUser, SchedInv, CpuFacts, InKernelModes
<1> QED
  BY <1>1, GoInv, Zenon DEF ReturnToUser

\* A thread switched to goes back to ring 3.
LEMMA ResumeUserInv ==
    ASSUME SchedInv, NEW c \in Cpus, ResumeUser(c)
    PROVE  SchedInv'
<1>1. Alone(c) /\ thread[c] # Nobody /\ at[thread[c]] = "user"
  BY EntersAlone, Zenon DEF ResumeUser, Resumes, SchedInv, CpuFacts, InKernelModes
<1> QED
  BY <1>1, GoInv, Zenon DEF ResumeUser
-----------------------------------------------------------------------------
(* Ending threads and processes.                                           *)

\* The threads `gone` may be freed from CPU c: they are started, hold nothing,
\* and run on no other CPU.
MayBeFreed(c, gone) ==
    \A t \in gone :
        t \in Threads /\ tstate[t] # "Unused" /\ holds[t] = 0 /\ (running[t] => t = thread[c])

\* A thread without a hold is in no disk operation and launches nothing.
LEMMA NoHoldNoLock ==
    ASSUME SchedInv, NEW t \in Threads, holds[t] = 0
    PROVE  at[t] \notin {"lock", "disk"} /\ owner # t /\ ticket[t] = NoTicket /\ launches[t] = NoProc
BY DEF SchedInv, LockFacts, ThreadFacts

\* free_thread leaves the lock as it was, and the other threads where they ran.
LEMMA EndThreadsFacts ==
    ASSUME SchedInv, NEW c \in Cpus, NEW gone, NEW left, MayBeFreed(c, gone),
           EndThreads(c, gone, left)
    PROVE  /\ LockFacts'
           /\ \A t \in Threads : t \notin gone =>
                 /\ tstate'[t] = tstate[t] /\ proc'[t] = proc[t] /\ (running'[t] <=> running[t])
                 /\ at'[t] = at[t] /\ cpu'[t] = cpu[t] /\ launches'[t] = launches[t]
                 /\ (doomed'[t] <=> doomed[t] \/ t \in left)
           /\ \A t \in Threads : t \in gone =>
                 /\ tstate'[t] = "Unused" /\ proc'[t] = NoProc /\ ~ running'[t]
                 /\ at'[t] = "user" /\ launches'[t] = NoProc /\ ~ doomed'[t]
                 /\ launches[t] = NoProc /\ tstate[t] # "Unused"
           /\ \A d \in Cpus : thread'[d] # Nobody =>
                 thread'[d] = thread[d] /\ thread[d] \notin gone /\ thread[d] \in Threads
           /\ \A d \in Cpus : d # c => thread'[d] = thread[d]
           /\ thread'[c] = Nobody <=> thread[c] \in gone \cup {Nobody}
           /\ \A t \in Threads : running'[t] <=> \E d \in Cpus : thread'[d] = t
<1> USE DEF EndThreads, lockVars
<1>1. \A t \in Threads : t \in gone =>
         at[t] \notin {"lock", "disk"} /\ owner # t /\ ticket[t] = NoTicket /\ launches[t] = NoProc
  BY NoHoldNoLock, Zenon DEF MayBeFreed
<1>2. LockFacts'
  BY <1>1, Zenon DEF SchedInv, LockFacts, MayBeFreed
<1>3. \A d \in Cpus : thread[d] \in gone => d = c
  <2> SUFFICES ASSUME NEW d \in Cpus, thread[d] \in gone PROVE d = c
    BY Zenon
  <2>1. running[thread[d]] /\ cpu[thread[d]] = d /\ thread[d] \in Threads
    BY Numbers, ZenonT(60) DEF SchedInv, RunningIsCurrent, MayBeFreed
  <2>2. thread[d] = thread[c]
    BY <2>1, Zenon DEF MayBeFreed
  <2> QED
    BY <2>1, <2>2, Numbers DEF SchedInv, RunningIsCurrent
<1>4. thread \in [Cpus -> Threads \cup {Nobody}]
  BY Zenon DEF SchedInv, TypeOK
<1>5. /\ \A d \in Cpus : d # c => thread'[d] = thread[d]
      /\ thread'[c] = IF thread[c] \in gone THEN Nobody ELSE thread[c]
  BY <1>4, Zenon
<1>6. \A d \in Cpus : thread'[d] # Nobody =>
         thread'[d] = thread[d] /\ thread[d] \notin gone /\ thread[d] \in Threads
  BY <1>3, <1>4, <1>5, Zenon
<1>7. thread'[c] = Nobody <=> thread[c] \in gone \cup {Nobody}
  BY <1>5, Zenon
<1>8. ASSUME NEW t \in Threads
      PROVE  running'[t] <=> \E d \in Cpus : thread'[d] = t
  <2>0. running'[t] <=> running[t] /\ t \notin gone
    BY Zenon
  <2>1. running[t] <=> \E d \in Cpus : thread[d] = t
    BY Zenon DEF SchedInv, RunningIsCurrent
  <2>2. t # Nobody
    BY Numbers, Zenon
  <2> QED
    BY <2>0, <2>1, <2>2, <1>3, <1>5, <1>6
<1>9. \A t \in Threads : t \notin gone =>
         /\ tstate'[t] = tstate[t] /\ proc'[t] = proc[t] /\ (running'[t] <=> running[t])
         /\ at'[t] = at[t] /\ cpu'[t] = cpu[t] /\ launches'[t] = launches[t]
         /\ (doomed'[t] <=> doomed[t] \/ t \in left)
  BY Zenon DEF SchedInv, TypeOK
<1>10. \A t \in Threads : t \in gone =>
         /\ tstate'[t] = "Unused" /\ proc'[t] = NoProc /\ ~ running'[t]
         /\ at'[t] = "user" /\ launches'[t] = NoProc /\ ~ doomed'[t]
         /\ launches[t] = NoProc /\ tstate[t] # "Unused"
  BY <1>1, Zenon DEF MayBeFreed
<1> QED
  BY <1>2, <1>5, <1>6, <1>7, <1>8, <1>9, <1>10, Zenon

\* The types after free_thread.
LEMMA EndThreadsTypes ==
    ASSUME SchedInv, NEW c \in Cpus, NEW gone, NEW left, EndThreads(c, gone, left)
    PROVE  /\ LockTypeOK'
           /\ tstate' \in [Threads -> {"Unused", "Runnable", "Blocked"}]
           /\ proc' \in [Threads -> Procs \cup {NoProc}]
           /\ cpu' \in [Threads -> Cpus]
           /\ running' \in [Threads -> BOOLEAN] /\ doomed' \in [Threads -> BOOLEAN]
           /\ at' \in [Threads -> {"user", "lock", "disk", "wait"}]
           /\ launches' \in [Threads -> Procs \cup {NoProc}]
           /\ thread' \in [Cpus -> Threads \cup {Nobody}]
<1> USE DEF EndThreads, lockVars
<1>1. LockTypeOK'
  BY Zenon DEF SchedInv, TypeOK, LockTypeOK
<1>2. /\ tstate' \in [Threads -> {"Unused", "Runnable", "Blocked"}]
      /\ proc' \in [Threads -> Procs \cup {NoProc}]
      /\ cpu' \in [Threads -> Cpus]
      /\ at' \in [Threads -> {"user", "lock", "disk", "wait"}]
      /\ launches' \in [Threads -> Procs \cup {NoProc}]
  BY Numbers, Zenon DEF SchedInv, TypeOK
<1>3. running' \in [Threads -> BOOLEAN] /\ doomed' \in [Threads -> BOOLEAN]
  BY Zenon DEF SchedInv, TypeOK
<1>4. thread' \in [Cpus -> Threads \cup {Nobody}]
  BY Zenon DEF SchedInv, TypeOK
<1> QED
  BY <1>1, <1>2, <1>3, <1>4, Zenon

\* terminate() of a live process, from a CPU that is alone in the kernel and
\* stays in or goes to the scheduler, where the threads it frees hold nothing.
LEMMA TerminateInv ==
    ASSUME SchedInv, NEW c \in Cpus, NEW p \in Procs, NEW m \in {"out", "choose"},
           Alone(c), Alive(p), Terminate(c, p), mode' = [mode EXCEPT ![c] = m],
           m = "out" => mode[c] = "out",
           \A t \in ThreadsOf(p) : ~ Survives(t, c) => holds[t] = 0
    PROVE  SchedInv'
<1> DEFINE left == {t \in ThreadsOf(p) : Survives(t, c)}
           gone == ThreadsOf(p) \ left
           waiters == {t \in Threads : waits_for[t] = p}
<1>1. /\ EndThreads(c, gone, left)
      /\ woken' = [t \in Threads |-> WakeUp(waiters)[t] /\ t \notin gone]
      /\ waits_for' = [t \in Threads |->
                          IF t \in gone \cup waiters THEN NoProc ELSE waits_for[t]]
      /\ UNCHANGED last_slot
  BY Zenon DEF Terminate
<1>2. \/ /\ left = {}
         /\ pstate' = [pstate EXCEPT ![p] = "Unused"]
         /\ space' = [space EXCEPT ![p] = FALSE]
         /\ end_requested' = [end_requested EXCEPT ![p] = FALSE]
         /\ home' = [home EXCEPT ![p] = 0]
         /\ LeaveSpace(c, p)
         /\ UNCHANGED reap_when_empty
      \/ /\ left # {}
         /\ pstate' = [pstate EXCEPT ![p] = "Ended"]
         /\ reap_when_empty' = [reap_when_empty EXCEPT ![p] = TRUE]
         /\ UNCHANGED <<space, end_requested, home, cr3>>
  BY Zenon DEF Terminate
<1>3. /\ \A t \in Threads : t \in gone => proc[t] = p /\ t \notin left
      /\ \A t \in Threads : t \in left => proc[t] = p /\ t \notin gone
      /\ \A t \in Threads : proc[t] = p => t \in gone \/ t \in left
      /\ gone \subseteq Threads /\ left \subseteq Threads
      /\ \A t \in left : t # thread[c]
  BY Zenon DEF ThreadsOf, Survives
<1>4. \A t \in Threads : proc[t] = p => tstate[t] # "Unused"
  BY Numbers DEF SchedInv, ThreadFacts, Alive
<1>5. MayBeFreed(c, gone)
  <2> SUFFICES ASSUME NEW t \in gone
               PROVE  /\ t \in Threads /\ tstate[t] # "Unused" /\ holds[t] = 0
                      /\ running[t] => t = thread[c]
    BY Zenon DEF MayBeFreed
  <2>1. t \in ThreadsOf(p) /\ ~ Survives(t, c)
    BY Zenon
  <2> QED
    BY <1>4, <2>1, Zenon DEF ThreadsOf, Survives
<1> HIDE DEF left, gone
<1>6. /\ LockFacts'
      /\ \A t \in Threads : t \notin gone =>
            /\ tstate'[t] = tstate[t] /\ proc'[t] = proc[t] /\ (running'[t] <=> running[t])
            /\ at'[t] = at[t] /\ cpu'[t] = cpu[t] /\ launches'[t] = launches[t]
            /\ (doomed'[t] <=> doomed[t] \/ t \in left)
      /\ \A t \in Threads : t \in gone =>
            /\ tstate'[t] = "Unused" /\ proc'[t] = NoProc /\ ~ running'[t]
            /\ at'[t] = "user" /\ launches'[t] = NoProc /\ ~ doomed'[t]
            /\ launches[t] = NoProc /\ tstate[t] # "Unused"
      /\ \A d \in Cpus : thread'[d] # Nobody =>
            thread'[d] = thread[d] /\ thread[d] \notin gone /\ thread[d] \in Threads
      /\ \A d \in Cpus : d # c => thread'[d] = thread[d]
      /\ thread'[c] = Nobody <=> thread[c] \in gone \cup {Nobody}
      /\ \A t \in Threads : running'[t] <=> \E d \in Cpus : thread'[d] = t
  BY <1>1, <1>5, EndThreadsFacts, Zenon
<1>7. TypeOK'
  <2>1. /\ LockTypeOK'
        /\ tstate' \in [Threads -> {"Unused", "Runnable", "Blocked"}]
        /\ proc' \in [Threads -> Procs \cup {NoProc}]
        /\ cpu' \in [Threads -> Cpus]
        /\ running' \in [Threads -> BOOLEAN] /\ doomed' \in [Threads -> BOOLEAN]
        /\ at' \in [Threads -> {"user", "lock", "disk", "wait"}]
        /\ launches' \in [Threads -> Procs \cup {NoProc}]
        /\ thread' \in [Cpus -> Threads \cup {Nobody}]
    BY <1>1, EndThreadsTypes, Zenon
  <2>2. woken' \in [Threads -> BOOLEAN] /\ waits_for' \in [Threads -> Procs \cup {NoProc}]
    BY <1>1, Zenon DEF SchedInv, TypeOK
  <2>3. last_slot' \in [Cpus -> Threads]
        /\ mode' \in [Cpus -> {"user", "halt", "out", "choose", "resumed"}]
    BY <1>1, Zenon DEF SchedInv, TypeOK
  <2>4. /\ pstate' \in [Procs -> {"Unused", "Setup", "Live", "Stopped", "Ended"}]
        /\ home' \in [Procs -> Cpus]
        /\ end_requested' \in [Procs -> BOOLEAN] /\ reap_when_empty' \in [Procs -> BOOLEAN]
        /\ space' \in [Procs -> BOOLEAN]
        /\ cr3' \in [Cpus -> Procs \cup {NoProc}]
    <3>1. /\ pstate \in [Procs -> {"Unused", "Setup", "Live", "Stopped", "Ended"}]
          /\ home \in [Procs -> Cpus]
          /\ end_requested \in [Procs -> BOOLEAN] /\ reap_when_empty \in [Procs -> BOOLEAN]
          /\ space \in [Procs -> BOOLEAN]
          /\ cr3 \in [Cpus -> Procs \cup {NoProc}]
      BY Zenon DEF SchedInv, TypeOK
    <3>2. CASE left = {}
      <4>1. /\ pstate' = [pstate EXCEPT ![p] = "Unused"]
            /\ space' = [space EXCEPT ![p] = FALSE]
            /\ end_requested' = [end_requested EXCEPT ![p] = FALSE]
            /\ home' = [home EXCEPT ![p] = 0]
            /\ cr3' = [cr3 EXCEPT ![c] = IF @ = p THEN NoProc ELSE @]
            /\ reap_when_empty' = reap_when_empty
        BY <1>2, <3>2, Zenon DEF LeaveSpace
      <4> QED
        BY <3>1, <4>1, Numbers, Zenon
    <3>3. CASE left # {}
      BY <3>1, <3>3, <1>2, Zenon
    <3> QED
      BY <3>2, <3>3, Zenon
  <2> QED
    BY <2>1, <2>2, <2>3, <2>4, Zenon DEF TypeOK
<1>8. /\ \A q \in Procs : q # p => /\ pstate'[q] = pstate[q] /\ space'[q] = space[q]
                                   /\ reap_when_empty'[q] = reap_when_empty[q]
      /\ left = {} => /\ pstate'[p] = "Unused" /\ ~ space'[p]
                      /\ reap_when_empty'[p] = reap_when_empty[p]
      /\ left # {} => pstate'[p] = "Ended" /\ space'[p] = space[p] /\ reap_when_empty'[p]
      /\ \A d \in Cpus : d # c => cr3'[d] = cr3[d]
      /\ cr3'[c] = IF left = {} /\ cr3[c] = p THEN NoProc ELSE cr3[c]
      /\ \A d \in Cpus : d # c => mode'[d] = mode[d]
      /\ mode'[c] = m
  BY <1>2 DEF SchedInv, TypeOK, LeaveSpace
<1>9. CpuFacts'
  <2>1. \A d, e \in Cpus : mode'[d] \in InKernelModes /\ mode'[e] \in InKernelModes => d = e
    BY <1>8, ZenonT(60) DEF Alone, InKernelModes
  <2> SUFFICES ASSUME NEW d \in Cpus
               PROVE  /\ mode'[d] = "halt" => thread'[d] = Nobody
                      /\ mode'[d] \in {"user", "resumed"} => thread'[d] # Nobody
                      /\ mode'[d] \in {"user", "halt"} /\ thread'[d] = Nobody => cr3'[d] = NoProc
                      /\ mode'[d] \in {"user", "out"} /\ thread'[d] # Nobody => at'[thread'[d]] = "user"
                      /\ mode'[d] # "resumed"
    BY <2>1, Zenon DEF CpuFacts
  <2>2. CASE d = c
    BY <2>2, <1>6, <1>8 DEF SchedInv, CpuFacts
  <2>3. CASE d # c
    BY <2>3, <1>6, <1>8 DEF SchedInv, CpuFacts, Alone
  <2> QED
    BY <2>2, <2>3, Zenon
<1>10. ThreadFacts'
  <2> SUFFICES ASSUME NEW t \in Threads
               PROVE  /\ tstate'[t] # "Unused" => proc'[t] # NoProc
                      /\ proc'[t] # NoProc => (tstate'[t] = "Unused" <=> pstate'[proc'[t]] = "Setup")
                      /\ tstate'[t] = "Unused" =>
                            ~ running'[t] /\ ~ doomed'[t] /\ at'[t] = "user" /\ launches'[t] = NoProc
                      /\ launches'[t] # NoProc => at'[t] \in {"lock", "disk"}
    BY Zenon DEF ThreadFacts
  <2>1. CASE t \in gone
    BY <2>1, <1>6, Zenon
  <2>2. CASE t \notin gone
    <3>1. /\ tstate[t] # "Unused" => proc[t] # NoProc
          /\ proc[t] # NoProc => (tstate[t] = "Unused" <=> pstate[proc[t]] = "Setup")
          /\ tstate[t] = "Unused" =>
                ~ running[t] /\ ~ doomed[t] /\ at[t] = "user" /\ launches[t] = NoProc
          /\ launches[t] # NoProc => at[t] \in {"lock", "disk"}
          /\ proc[t] \in Procs \cup {NoProc}
      BY ZenonT(60) DEF SchedInv, ThreadFacts, TypeOK
    <3> QED
      <4>1. CASE proc[t] = p
        <5>1. pstate'[p] # "Setup" /\ tstate[t] # "Unused"
          BY <1>4, <1>8, <4>1, Zenon
        <5> QED
          BY <2>2, <3>1, <4>1, <5>1, <1>6, Zenon
      <4>2. CASE proc[t] # p
        <5>1. proc[t] # NoProc => pstate'[proc[t]] = pstate[proc[t]]
          BY <3>1, <4>2, <1>8, Zenon
        <5>2. t \notin left
          BY <1>3, <4>2, Zenon
        <5> QED
          BY <2>2, <3>1, <5>1, <5>2, <1>6, SMTT(60)
      <4> QED
        BY <4>1, <4>2, Zenon
  <2> QED
    BY <2>1, <2>2, Zenon
<1>11. ProcFacts'
  BY <1>6, <1>8, SMTT(60) DEF SchedInv, ProcFacts, Alive
<1>12. RunningIsCurrent'
  <2> SUFFICES ASSUME NEW d \in Cpus, thread'[d] # Nobody
               PROVE  /\ tstate'[thread'[d]] # "Unused" /\ cpu'[thread'[d]] = d
                      /\ cr3'[d] = proc'[thread'[d]]
    BY <1>6, Zenon DEF RunningIsCurrent
  <2>1. thread'[d] = thread[d] /\ thread[d] \notin gone /\ thread[d] \in Threads
    BY <1>6, Zenon
  <2>2. tstate[thread[d]] # "Unused" /\ cpu[thread[d]] = d /\ cr3[d] = proc[thread[d]]
    BY <2>1, Numbers, ZenonT(60) DEF SchedInv, RunningIsCurrent
  <2>3. cr3'[d] = cr3[d]
    BY <2>1, <2>2, <1>3, <1>8
  <2> QED
    BY <2>1, <2>2, <2>3, <1>6
<1>13. NoCpuInFreedSpace'
  <2> SUFFICES ASSUME NEW d \in Cpus, cr3'[d] # NoProc PROVE space'[cr3'[d]]
    BY Zenon DEF NoCpuInFreedSpace
  <2>1. cr3'[d] = cr3[d] /\ cr3[d] \in Procs /\ space[cr3[d]]
    BY <1>8, Numbers DEF SchedInv, NoCpuInFreedSpace, TypeOK
  <2>2. CASE left = {} /\ cr3[d] = p
    <3>1. d # c
      BY <2>2, <2>1, <1>8, Numbers, Zenon
    <3>2. thread[d] \in Threads /\ proc[thread[d]] = p
      BY <2>1, <2>2, <3>1, Numbers, ZenonT(60) DEF SchedInv, CpuFacts, Alone, RunningIsCurrent, TypeOK
    <3>3. thread[d] \in gone
      BY <3>2, <2>2, <1>3, Zenon
    <3> QED
      BY <3>1, <3>3, <1>6, <3>2, Numbers, Zenon
  <2>3. CASE left # {} \/ cr3[d] # p
    BY <2>1, <2>3, <1>8, Zenon
  <2> QED
    BY <2>2, <2>3, Zenon
<1>14. SlotsAreClean'
  <2> SUFFICES ASSUME NEW q \in Procs
               PROVE  /\ pstate'[q] = "Unused" <=> ~ \E t \in Threads : proc'[t] = q
                      /\ pstate'[q] # "Unused" <=> space'[q]
                      /\ pstate'[q] = "Setup" <=> \E t \in Threads : launches'[t] = q
                      /\ pstate'[q] = "Ended" <=> \E t \in Threads : proc'[t] = q /\ doomed'[t]
                      /\ pstate'[q] = "Ended" => \A t \in Threads : proc'[t] = q => doomed'[t]
    BY ZenonT(60) DEF SlotsAreClean, ThreadsOf
  <2>1. /\ pstate[q] = "Unused" <=> ~ \E t \in Threads : proc[t] = q
        /\ pstate[q] # "Unused" <=> space[q]
        /\ pstate[q] = "Setup" <=> \E t \in Threads : launches[t] = q
        /\ pstate[q] = "Ended" <=> \E t \in Threads : proc[t] = q /\ doomed[t]
        /\ pstate[q] = "Ended" => \A t \in Threads : proc[t] = q => doomed[t]
    BY SlotsMeaning, ZenonT(60) DEF SchedInv
  <2>2. \A t \in Threads : launches'[t] = launches[t]
    BY <1>6
  <2>3. CASE q = p
    <3>1. \A t \in Threads : (proc'[t] = p <=> t \in left) /\ (t \in left => doomed'[t])
      BY <1>3, <1>6, Numbers
    <3>2. ~ \E t \in Threads : launches'[t] = p
      BY <2>1, <2>2, <2>3, Zenon DEF Alive
    <3>3. space[p]
      BY <2>1, <2>3, Zenon DEF Alive
    <3>4. left = {} <=> ~ \E t \in Threads : t \in left
      BY <1>3, Zenon
    <3> QED
      BY <2>3, <3>1, <3>2, <3>3, <3>4, <1>8, Zenon
  <2>4. CASE q # p
    <3>1. ASSUME NEW t \in Threads
          PROVE  (proc'[t] = q <=> proc[t] = q) /\ (proc[t] = q => (doomed'[t] <=> doomed[t]))
      <4>1. CASE t \in gone
        BY <4>1, <2>4, <1>3, <1>6, Numbers
      <4>2. CASE t \notin gone
        BY <4>2, <2>4, <1>3, <1>6, Zenon
      <4> QED
        BY <4>1, <4>2, Zenon
    <3> QED
      BY <2>1, <2>2, <2>4, <3>1, <1>8, ZenonT(60)
  <2> QED
    BY <2>3, <2>4, Zenon
<1>15. NoLostWakeup'
  <2> SUFFICES ASSUME NEW t \in Threads, tstate'[t] = "Blocked"
               PROVE  /\ at'[t] = "wait" /\ waits_for'[t] = NoProc => woken'[t]
                      /\ at'[t] = "lock" /\ MyTurn(t)' => woken'[t]
    BY Zenon DEF NoLostWakeup
  <2>1. t \notin gone /\ tstate[t] = "Blocked" /\ at'[t] = at[t]
    BY <1>6, Zenon
  <2>2. MyTurn(t)' = MyTurn(t)
    BY <1>1, Zenon DEF EndThreads, lockVars, MyTurn
  <2>3. woken[t] => woken'[t]
    BY <1>1, <2>1, Zenon DEF WakeUp
  <2>4. waits_for'[t] = NoProc => waits_for[t] = NoProc \/ woken'[t]
    BY <1>1, <2>1, Zenon DEF WakeUp
  <2> QED
    BY <2>1, <2>2, <2>3, <2>4, Zenon DEF SchedInv, NoLostWakeup
<1> QED
  BY <1>6, <1>7, <1>9, <1>10, <1>11, <1>12, <1>13, <1>14, <1>15, Zenon DEF SchedInv

\* sf_exit, and sf_thread_exit by the last thread.
LEMMA ExitTerminateInv ==
    ASSUME SchedInv, NEW c \in Cpus, Enters(c), Terminate(c, proc[thread[c]]), Go(c, "choose")
    PROVE  SchedInv'
<1> DEFINE p == proc[thread[c]]
<1>1. /\ Alone(c) /\ thread[c] \in Threads /\ holds[thread[c]] = 0
      /\ p \in Procs /\ Alive(p)
  BY EntersFacts, Zenon
<1>2. \A t \in ThreadsOf(p) : ~ Survives(t, c) => holds[t] = 0
  <2> SUFFICES ASSUME NEW t \in ThreadsOf(p), ~ Survives(t, c) PROVE holds[t] = 0
    BY Zenon
  <2>1. t \in Threads /\ holds[t] \in Nat
    BY ZenonT(60) DEF ThreadsOf, SchedInv, TypeOK, LockTypeOK
  <2> QED
    BY <1>1, <2>1 DEF Survives
<1>3. mode' = [mode EXCEPT ![c] = "choose"]
  BY Zenon DEF Go
<1> HIDE DEF p
<1> QED
  BY <1>1, <1>2, <1>3, TerminateInv, Zenon DEF p

\* free_thread for the thread of CPU c, which is in the middle of nothing.
LEMMA OwnThreadEnds ==
    ASSUME SchedInv, NEW c \in Cpus, NEW t \in Threads, t = thread[c], at[t] = "user",
           EndThreads(c, {t}, {})
    PROVE  /\ LockFacts'
           /\ \A u \in Threads : u # t =>
                 /\ tstate'[u] = tstate[u] /\ proc'[u] = proc[u] /\ (running'[u] <=> running[u])
                 /\ at'[u] = at[u] /\ cpu'[u] = cpu[u] /\ launches'[u] = launches[u]
                 /\ (doomed'[u] <=> doomed[u])
           /\ tstate'[t] = "Unused" /\ proc'[t] = NoProc /\ ~ running'[t]
           /\ at'[t] = "user" /\ launches'[t] = NoProc /\ ~ doomed'[t]
           /\ launches[t] = NoProc /\ tstate[t] # "Unused"
           /\ \A d \in Cpus : d # c => thread'[d] = thread[d] /\ thread[d] # t
           /\ thread'[c] = Nobody
           /\ \A u \in Threads : running'[u] <=> \E d \in Cpus : thread'[d] = u
<1>1. tstate[t] # "Unused" /\ holds[t] = 0 /\ cpu[t] = c
  BY Numbers, ZenonT(60) DEF SchedInv, LockFacts, RunningIsCurrent
<1>2. MayBeFreed(c, {t})
  BY <1>1, Zenon DEF MayBeFreed
<1>3. \A d \in Cpus : d # c => thread[d] # t
  BY <1>1, Numbers DEF SchedInv, RunningIsCurrent
<1> QED
  BY <1>2, <1>3, EndThreadsFacts

\* A thread ends that is not the last of its process: sf_thread_exit, and
\* end_if_doomed.
LEMMA ThreadEndsInv ==
    ASSUME SchedInv, NEW c \in Cpus, NEW t \in Threads, t = thread[c], at[t] = "user",
           Alone(c), EndThreads(c, {t}, {}), ThreadsOf(proc[t]) # {t},
           \A u \in Threads : u # t => (woken'[u] <=> woken[u]) /\ waits_for'[u] = waits_for[u],
           woken' \in [Threads -> BOOLEAN], waits_for' \in [Threads -> Procs \cup {NoProc}],
           UNCHANGED <<procVars, cr3, last_slot>>, Go(c, "choose")
    PROVE  SchedInv'
<1> USE DEF procVars
<1>1. /\ LockFacts'
      /\ \A u \in Threads : u # t =>
            /\ tstate'[u] = tstate[u] /\ proc'[u] = proc[u] /\ (running'[u] <=> running[u])
            /\ at'[u] = at[u] /\ cpu'[u] = cpu[u] /\ launches'[u] = launches[u]
            /\ (doomed'[u] <=> doomed[u])
      /\ tstate'[t] = "Unused" /\ proc'[t] = NoProc /\ ~ running'[t]
      /\ at'[t] = "user" /\ launches'[t] = NoProc /\ ~ doomed'[t]
      /\ launches[t] = NoProc /\ tstate[t] # "Unused"
      /\ \A d \in Cpus : d # c => thread'[d] = thread[d] /\ thread[d] # t
      /\ thread'[c] = Nobody
      /\ \A u \in Threads : running'[u] <=> \E d \in Cpus : thread'[d] = u
  BY OwnThreadEnds
<1>2. TypeOK'
  <2>1. /\ LockTypeOK'
        /\ tstate' \in [Threads -> {"Unused", "Runnable", "Blocked"}]
        /\ proc' \in [Threads -> Procs \cup {NoProc}]
        /\ cpu' \in [Threads -> Cpus]
        /\ running' \in [Threads -> BOOLEAN] /\ doomed' \in [Threads -> BOOLEAN]
        /\ at' \in [Threads -> {"user", "lock", "disk", "wait"}]
        /\ launches' \in [Threads -> Procs \cup {NoProc}]
        /\ thread' \in [Cpus -> Threads \cup {Nobody}]
    BY EndThreadsTypes, Zenon
  <2> QED
    BY <2>1, Zenon DEF SchedInv, TypeOK, Go
<1>3. (\A d \in Cpus : d # c => mode'[d] = mode[d]) /\ mode'[c] = "choose"
  BY ZenonT(60) DEF Go, SchedInv, TypeOK
<1>4. CpuFacts'
  <2>1. \A d, e \in Cpus : mode'[d] \in InKernelModes /\ mode'[e] \in InKernelModes => d = e
    BY <1>3 DEF Alone, InKernelModes
  <2>2. ASSUME NEW d \in Cpus
        PROVE  /\ mode'[d] = "halt" => thread'[d] = Nobody
               /\ mode'[d] \in {"user", "resumed"} => thread'[d] # Nobody
               /\ mode'[d] \in {"user", "halt"} /\ thread'[d] = Nobody => cr3'[d] = NoProc
               /\ mode'[d] \in {"user", "out"} /\ thread'[d] # Nobody => at'[thread'[d]] = "user"
               /\ mode'[d] # "resumed"
    <3>1. CASE d = c
      BY <3>1, <1>3, ZenonT(60)
    <3>2. CASE d # c
      <4>1. mode'[d] = mode[d] /\ thread'[d] = thread[d] /\ thread[d] # t /\ mode[d] # "resumed"
        BY <3>2, <1>1, <1>3, Zenon DEF Alone
      <4>2. thread[d] # Nobody => thread[d] \in Threads
        BY ZenonT(60) DEF SchedInv, TypeOK
      <4> QED
        BY <4>1, <4>2, <1>1 DEF SchedInv, CpuFacts
    <3> QED
      BY <3>1, <3>2, Zenon
  <2> QED
    BY <2>1, <2>2, Zenon DEF CpuFacts
<1>5. ThreadFacts' /\ ProcFacts'
  BY <1>1 DEF SchedInv, ThreadFacts, ProcFacts
<1>6. RunningIsCurrent'
  <2> SUFFICES ASSUME NEW d \in Cpus, thread'[d] # Nobody
               PROVE  /\ tstate'[thread'[d]] # "Unused" /\ cpu'[thread'[d]] = d
                      /\ cr3'[d] = proc'[thread'[d]]
    BY <1>1, Zenon DEF RunningIsCurrent
  <2>1. thread'[d] = thread[d] /\ thread[d] # t /\ thread[d] \in Threads
    BY <1>1 DEF SchedInv, TypeOK
  <2>2. tstate[thread[d]] # "Unused" /\ cpu[thread[d]] = d /\ cr3[d] = proc[thread[d]]
    BY <2>1, Numbers, Zenon DEF SchedInv, RunningIsCurrent
  <2> QED
    BY <2>1, <2>2, <1>1
<1>7. NoCpuInFreedSpace'
  BY ZenonT(60) DEF SchedInv, NoCpuInFreedSpace
<1>8. SlotsAreClean'
  <2> SUFFICES ASSUME NEW q \in Procs
               PROVE  /\ pstate[q] = "Unused" <=> ~ \E u \in Threads : proc'[u] = q
                      /\ pstate[q] # "Unused" <=> space[q]
                      /\ pstate[q] = "Setup" <=> \E u \in Threads : launches'[u] = q
                      /\ pstate[q] = "Ended" <=> \E u \in Threads : proc'[u] = q /\ doomed'[u]
                      /\ pstate[q] = "Ended" => \A u \in Threads : proc'[u] = q => doomed'[u]
    BY <1>1, SlotsMeaningNext, ZenonT(60)
  <2>1. /\ pstate[q] = "Unused" <=> ~ \E u \in Threads : proc[u] = q
        /\ pstate[q] # "Unused" <=> space[q]
        /\ pstate[q] = "Setup" <=> \E u \in Threads : launches[u] = q
        /\ pstate[q] = "Ended" <=> \E u \in Threads : proc[u] = q /\ doomed[u]
        /\ pstate[q] = "Ended" => \A u \in Threads : proc[u] = q => doomed[u]
    BY SlotsMeaning, ZenonT(60) DEF SchedInv
  <2>2. \A u \in Threads : launches'[u] = launches[u]
    BY <1>1
  <2>3. \A u \in Threads : proc'[u] = q <=> proc[u] = q /\ u # t
    BY <1>1, Numbers
  <2>4. PICK w \in Threads : w # t /\ proc[w] = proc[t]
    BY Zenon DEF ThreadsOf
  <2>5. \A u \in Threads : u # t => (doomed'[u] <=> doomed[u])
    BY <1>1, Zenon
  <2> QED
    <3>1. (\E u \in Threads : proc'[u] = q) <=> (\E u \in Threads : proc[u] = q)
      BY <2>3, <2>4, Zenon
    <3>2. \A u \in Threads : proc'[u] = q => (doomed'[u] <=> doomed[u])
      BY <2>3, <2>5, Zenon
    <3>3. (\E u \in Threads : proc'[u] = q /\ doomed'[u]) => pstate[q] = "Ended"
      BY <2>1, <2>3, <3>2, Zenon
    <3>4. pstate[q] = "Ended" => \A u \in Threads : proc'[u] = q => doomed'[u]
      BY <2>1, <2>3, <3>2, Zenon
    <3>5. pstate[q] = "Ended" => \E u \in Threads : proc'[u] = q /\ doomed'[u]
      BY <2>1, <3>1, <3>4, Zenon
    <3> QED
      BY <2>1, <2>2, <3>1, <3>3, <3>4, <3>5, ZenonT(60)
<1>9. NoLostWakeup'
  <2> SUFFICES ASSUME NEW u \in Threads, tstate'[u] = "Blocked"
               PROVE  /\ at'[u] = "wait" /\ waits_for'[u] = NoProc => woken'[u]
                      /\ at'[u] = "lock" /\ MyTurn(u)' => woken'[u]
    BY Zenon DEF NoLostWakeup
  <2>1. u # t /\ tstate[u] = "Blocked" /\ at'[u] = at[u]
    BY <1>1, Zenon
  <2>2. MyTurn(u)' = MyTurn(u)
    BY Zenon DEF EndThreads, lockVars, MyTurn
  <2> QED
    BY <2>1, <2>2, Zenon DEF SchedInv, NoLostWakeup
<1> QED
  BY <1>1, <1>2, <1>4, <1>5, <1>6, <1>7, <1>8, <1>9, Zenon DEF SchedInv

\* sf_exit and a fatal fault.
LEMMA ExitInv ==
    ASSUME SchedInv, NEW c \in Cpus, Exit(c)
    PROVE  SchedInv'
BY ExitTerminateInv, Zenon DEF Exit

\* The last doomed thread ends and takes the process's slot along.
LEMMA LastDoomedInv ==
    ASSUME SchedInv, NEW c \in Cpus, NEW t \in Threads, t = thread[c], at[t] = "user",
           Alone(c), EndThreads(c, {t}, {}), NEW p \in Procs, p = proc[t],
           ThreadsOf(p) = {t}, Go(c, "choose"),
           woken' = [woken EXCEPT ![t] = FALSE],
           waits_for' = [waits_for EXCEPT ![t] = NoProc],
           LeaveSpace(c, p), space' = [space EXCEPT ![p] = FALSE],
           pstate' = [pstate EXCEPT ![p] = "Unused"],
           reap_when_empty' = [reap_when_empty EXCEPT ![p] = FALSE],
           end_requested' = [end_requested EXCEPT ![p] = FALSE],
           home' = [home EXCEPT ![p] = 0], UNCHANGED last_slot
    PROVE  SchedInv'
<1>1. /\ LockFacts'
      /\ \A u \in Threads : u # t =>
            /\ tstate'[u] = tstate[u] /\ proc'[u] = proc[u] /\ (running'[u] <=> running[u])
            /\ at'[u] = at[u] /\ cpu'[u] = cpu[u] /\ launches'[u] = launches[u]
            /\ (doomed'[u] <=> doomed[u])
      /\ tstate'[t] = "Unused" /\ proc'[t] = NoProc /\ ~ running'[t]
      /\ at'[t] = "user" /\ launches'[t] = NoProc /\ ~ doomed'[t]
      /\ launches[t] = NoProc /\ tstate[t] # "Unused"
      /\ \A d \in Cpus : d # c => thread'[d] = thread[d] /\ thread[d] # t
      /\ thread'[c] = Nobody
      /\ \A u \in Threads : running'[u] <=> \E d \in Cpus : thread'[d] = u
  BY OwnThreadEnds
<1>2. TypeOK'
  <2>1. /\ LockTypeOK'
        /\ tstate' \in [Threads -> {"Unused", "Runnable", "Blocked"}]
        /\ proc' \in [Threads -> Procs \cup {NoProc}]
        /\ cpu' \in [Threads -> Cpus]
        /\ running' \in [Threads -> BOOLEAN] /\ doomed' \in [Threads -> BOOLEAN]
        /\ at' \in [Threads -> {"user", "lock", "disk", "wait"}]
        /\ launches' \in [Threads -> Procs \cup {NoProc}]
        /\ thread' \in [Cpus -> Threads \cup {Nobody}]
    BY EndThreadsTypes, Zenon
  <2>2. woken' \in [Threads -> BOOLEAN] /\ waits_for' \in [Threads -> Procs \cup {NoProc}]
    BY Zenon DEF SchedInv, TypeOK
  <2>3. /\ last_slot' \in [Cpus -> Threads]
        /\ mode' \in [Cpus -> {"user", "halt", "out", "choose", "resumed"}]
        /\ cr3' \in [Cpus -> Procs \cup {NoProc}]
    BY Zenon DEF SchedInv, TypeOK, Go, LeaveSpace
  <2>4. /\ pstate' \in [Procs -> {"Unused", "Setup", "Live", "Stopped", "Ended"}]
        /\ home' \in [Procs -> Cpus]
    BY Numbers, Zenon DEF SchedInv, TypeOK
  <2>5. /\ end_requested' \in [Procs -> BOOLEAN] /\ reap_when_empty' \in [Procs -> BOOLEAN]
        /\ space' \in [Procs -> BOOLEAN]
    BY Zenon DEF SchedInv, TypeOK
  <2> QED
    BY <2>1, <2>2, <2>3, <2>4, <2>5, Zenon DEF TypeOK
<1>3. /\ \A q \in Procs : q # p => /\ pstate'[q] = pstate[q] /\ (space'[q] <=> space[q])
                                   /\ (reap_when_empty'[q] <=> reap_when_empty[q])
      /\ pstate'[p] = "Unused" /\ ~ space'[p] /\ ~ reap_when_empty'[p]
      /\ \A d \in Cpus : d # c => cr3'[d] = cr3[d] /\ mode'[d] = mode[d]
      /\ cr3'[c] = (IF cr3[c] = p THEN NoProc ELSE cr3[c])
      /\ mode'[c] = "choose"
      /\ \A u \in Threads : u # t => (woken'[u] <=> woken[u]) /\ waits_for'[u] = waits_for[u]
  BY DEF Go, SchedInv, TypeOK, LeaveSpace
<1>4. \A u \in Threads : u # t => proc[u] # p
  BY Zenon DEF ThreadsOf
<1>5. CpuFacts'
  <2>1. \A d, e \in Cpus : mode'[d] \in InKernelModes /\ mode'[e] \in InKernelModes => d = e
    BY <1>3 DEF Alone, InKernelModes
  <2>2. ASSUME NEW d \in Cpus
        PROVE  /\ mode'[d] = "halt" => thread'[d] = Nobody
               /\ mode'[d] \in {"user", "resumed"} => thread'[d] # Nobody
               /\ mode'[d] \in {"user", "halt"} /\ thread'[d] = Nobody => cr3'[d] = NoProc
               /\ mode'[d] \in {"user", "out"} /\ thread'[d] # Nobody => at'[thread'[d]] = "user"
               /\ mode'[d] # "resumed"
    <3>1. CASE d = c
      BY <3>1, <1>3, ZenonT(60)
    <3>2. CASE d # c
      <4>1. /\ mode'[d] = mode[d] /\ thread'[d] = thread[d] /\ thread[d] # t /\ mode[d] # "resumed"
            /\ cr3'[d] = cr3[d]
        BY <3>2, <1>1, <1>3, Zenon DEF Alone
      <4>2. thread[d] # Nobody => thread[d] \in Threads
        BY Zenon DEF SchedInv, TypeOK
      <4> QED
        BY <4>1, <4>2, <1>1, SMTT(60) DEF SchedInv, CpuFacts
    <3> QED
      BY <3>1, <3>2, Zenon
  <2> QED
    BY <2>1, <2>2, ZenonT(60) DEF CpuFacts
<1>6. ThreadFacts'
  <2> SUFFICES ASSUME NEW u \in Threads
               PROVE  /\ tstate'[u] # "Unused" => proc'[u] # NoProc
                      /\ proc'[u] # NoProc => (tstate'[u] = "Unused" <=> pstate'[proc'[u]] = "Setup")
                      /\ tstate'[u] = "Unused" =>
                            ~ running'[u] /\ ~ doomed'[u] /\ at'[u] = "user" /\ launches'[u] = NoProc
                      /\ launches'[u] # NoProc => at'[u] \in {"lock", "disk"}
    BY Zenon DEF ThreadFacts
  <2>1. CASE u = t
    BY <2>1, <1>1, ZenonT(60)
  <2>2. CASE u # t
    <3>1. proc[u] \in Procs \cup {NoProc}
      BY Zenon DEF SchedInv, TypeOK
    <3>2. proc[u] # NoProc => pstate'[proc[u]] = pstate[proc[u]]
      BY <2>2, <3>1, <1>3, <1>4, Zenon
    <3> QED
      BY <2>2, <3>2, <1>1 DEF SchedInv, ThreadFacts
  <2> QED
    BY <2>1, <2>2, Zenon
<1>7. ProcFacts'
  <2>1. \A u, w \in Threads : launches'[u] = launches'[w] /\ launches'[u] # NoProc => u = w
    <3>1. \A u \in Threads : launches'[u] = launches[u]
      BY <1>1, Zenon
    <3>2. \A u, w \in Threads : launches[u] = launches[w] /\ launches[u] # NoProc => u = w
      BY Zenon DEF SchedInv, ProcFacts
    <3> SUFFICES ASSUME NEW u \in Threads, NEW w \in Threads, launches'[u] = launches'[w], launches'[u] # NoProc
                 PROVE  u = w
      BY Zenon
    <3>3. launches'[u] = launches[u] /\ launches'[w] = launches[w]
      BY <3>1, Zenon
    <3> QED
      BY <3>2, <3>3, Zenon
  <2>2. \A q \in Procs : reap_when_empty'[q] <=> pstate'[q] = "Ended"
    <3> SUFFICES ASSUME NEW q \in Procs PROVE reap_when_empty'[q] <=> pstate'[q] = "Ended"
      BY Zenon
    <3>1. CASE q = p
      BY <3>1, <1>3, Zenon
    <3>2. CASE q # p
      <4>1. pstate'[q] = pstate[q] /\ (reap_when_empty'[q] <=> reap_when_empty[q])
        BY <3>2, <1>3, Zenon
      <4> QED
        BY <4>1, Zenon DEF SchedInv, ProcFacts
    <3> QED
      BY <3>1, <3>2, Zenon
  <2> QED
    BY <2>1, <2>2, ZenonT(60) DEF ProcFacts
<1>8. RunningIsCurrent'
  <2> SUFFICES ASSUME NEW d \in Cpus, thread'[d] # Nobody
               PROVE  /\ tstate'[thread'[d]] # "Unused" /\ cpu'[thread'[d]] = d
                      /\ cr3'[d] = proc'[thread'[d]]
    BY <1>1, Zenon DEF RunningIsCurrent
  <2>1. d # c /\ thread'[d] = thread[d] /\ thread[d] # t /\ thread[d] \in Threads
    BY <1>1 DEF SchedInv, TypeOK
  <2>2. tstate[thread[d]] # "Unused" /\ cpu[thread[d]] = d /\ cr3[d] = proc[thread[d]]
    BY <2>1, Numbers, Zenon DEF SchedInv, RunningIsCurrent
  <2> QED
    <3>1. /\ tstate'[thread[d]] = tstate[thread[d]] /\ cpu'[thread[d]] = cpu[thread[d]]
          /\ proc'[thread[d]] = proc[thread[d]] /\ cr3'[d] = cr3[d]
      BY <2>1, <1>1, <1>3, Zenon
    <3> QED
      BY <2>1, <2>2, <3>1, Zenon
<1>9. NoCpuInFreedSpace'
  <2> SUFFICES ASSUME NEW d \in Cpus, cr3'[d] # NoProc PROVE space'[cr3'[d]]
    BY Zenon DEF NoCpuInFreedSpace
  <2>1. cr3'[d] = cr3[d] /\ cr3[d] \in Procs /\ space[cr3[d]]
    BY <1>3, Numbers DEF SchedInv, NoCpuInFreedSpace, TypeOK
  <2>2. cr3[d] # p
    <3>1. CASE d = c
      BY <3>1, <2>1, <1>3, Numbers, ZenonT(60)
    <3>2. CASE d # c
      <4>1. mode[d] \in {"user", "halt"} /\ cr3[d] # NoProc
        BY <3>2, <2>1, Numbers, Zenon DEF Alone
      <4>2. thread[d] \in Threads /\ cr3[d] = proc[thread[d]]
        BY <4>1, Numbers, ZenonT(60) DEF SchedInv, CpuFacts, RunningIsCurrent, TypeOK
      <4> QED
        BY <4>2, <3>2, <1>1, <1>4
    <3> QED
      BY <3>1, <3>2, Zenon
  <2> QED
    BY <2>1, <2>2, <1>3, Zenon
<1>10. SlotsAreClean'
  <2> SUFFICES ASSUME NEW q \in Procs
               PROVE  /\ pstate'[q] = "Unused" <=> ~ \E u \in Threads : proc'[u] = q
                      /\ pstate'[q] # "Unused" <=> space'[q]
                      /\ pstate'[q] = "Setup" <=> \E u \in Threads : launches'[u] = q
                      /\ pstate'[q] = "Ended" <=> \E u \in Threads : proc'[u] = q /\ doomed'[u]
                      /\ pstate'[q] = "Ended" => \A u \in Threads : proc'[u] = q => doomed'[u]
    BY SlotsMeaningNext, ZenonT(60)
  <2>1. /\ pstate[q] = "Unused" <=> ~ \E u \in Threads : proc[u] = q
        /\ pstate[q] # "Unused" <=> space[q]
        /\ pstate[q] = "Setup" <=> \E u \in Threads : launches[u] = q
        /\ pstate[q] = "Ended" <=> \E u \in Threads : proc[u] = q /\ doomed[u]
        /\ pstate[q] = "Ended" => \A u \in Threads : proc[u] = q => doomed[u]
    BY SMTT(60) DEF SchedInv, SlotsAreClean, ThreadsOf
  <2>2. \A u \in Threads : launches'[u] = launches[u]
    BY <1>1, ZenonT(60)
  <2>3. \A u \in Threads : proc'[u] = q <=> proc[u] = q /\ u # t
    BY <1>1, Numbers, SMTT(60)
  <2>5. \A u \in Threads : u # t => (doomed'[u] <=> doomed[u])
    BY <1>1, ZenonT(60)
  <2>6. CASE q = p
    <3>1. ~ \E u \in Threads : launches[u] = p
      <4>1. tstate[t] # "Unused"
        BY <1>1, Zenon
      <4>2. pstate[p] # "Setup"
        BY <4>1, Numbers, Zenon DEF SchedInv, ThreadFacts
      <4> QED
        BY <4>2, <2>1, <2>6, Zenon
    <3>2. ~ \E u \in Threads : proc'[u] = p
      BY <2>3, <2>6, <1>4, ZenonT(60)
    <3> QED
      BY <2>2, <2>6, <3>1, <3>2, <1>3, SMTT(60)
  <2>7. CASE q # p
    BY <2>1, <2>2, <2>3, <2>5, <2>7, <1>3, SMTT(60)
  <2> QED
    BY <2>6, <2>7, Zenon
<1>11. NoLostWakeup'
  <2> SUFFICES ASSUME NEW u \in Threads, tstate'[u] = "Blocked"
               PROVE  /\ at'[u] = "wait" /\ waits_for'[u] = NoProc => woken'[u]
                      /\ at'[u] = "lock" /\ MyTurn(u)' => woken'[u]
    BY Zenon DEF NoLostWakeup
  <2>1. u # t /\ tstate[u] = "Blocked" /\ at'[u] = at[u]
    BY <1>1, Zenon
  <2>2. MyTurn(u)' = MyTurn(u)
    BY Zenon DEF EndThreads, lockVars, MyTurn
  <2> QED
    BY <2>1, <2>2, <1>3, ZenonT(60) DEF SchedInv, NoLostWakeup
<1> QED
  BY <1>1, <1>2, <1>5, <1>6, <1>7, <1>8, <1>9, <1>10, <1>11, ZenonT(60) DEF SchedInv

\* end_if_doomed.
LEMMA DoomedEntryInv ==
    ASSUME SchedInv, NEW c \in Cpus, DoomedEntry(c)
    PROVE  SchedInv'
<1> DEFINE t == thread[c]
           p == proc[t]
<1>1. Alone(c) /\ t \in Threads /\ at[t] = "user" /\ doomed[t]
  <2>1. mode[c] \in {"user", "out"} /\ t # Nobody /\ doomed[t]
    BY Zenon DEF DoomedEntry, EndDoomed
  <2>2. Alone(c)
    BY EntersAlone, Zenon DEF DoomedEntry, InKernelModes
  <2> QED
    BY <2>1, <2>2, ZenonT(60) DEF SchedInv, CpuFacts, TypeOK
<1>2. p \in Procs /\ pstate[p] = "Ended" /\ reap_when_empty[p]
  <2>1. p \in Procs \cup {NoProc}
    BY <1>1, Zenon DEF SchedInv, TypeOK
  <2>2. tstate[t] # "Unused"
    BY <1>1, Numbers, Zenon DEF SchedInv, RunningIsCurrent
  <2>3. p \in Procs
    BY <1>1, <2>1, <2>2, Zenon DEF SchedInv, ThreadFacts
  <2> QED
    BY <1>1, <2>3, Zenon DEF SchedInv, SlotsAreClean, ThreadsOf, ProcFacts
<1>3. /\ EndThreads(c, {t}, {})
      /\ woken' = [woken EXCEPT ![t] = FALSE]
      /\ waits_for' = [waits_for EXCEPT ![t] = NoProc]
      /\ Go(c, "choose") /\ UNCHANGED last_slot
  BY Zenon DEF DoomedEntry, EndDoomed
<1>4. CASE ThreadsOf(p) = {t}
  <2>1. /\ LeaveSpace(c, p) /\ space' = [space EXCEPT ![p] = FALSE]
        /\ pstate' = [pstate EXCEPT ![p] = "Unused"]
        /\ reap_when_empty' = [reap_when_empty EXCEPT ![p] = FALSE]
        /\ end_requested' = [end_requested EXCEPT ![p] = FALSE]
        /\ home' = [home EXCEPT ![p] = 0]
    BY <1>2, <1>4, Zenon DEF DoomedEntry, EndDoomed, Reap
  <2> HIDE DEF t, p
  <2>2. t = thread[c] /\ p = proc[t]
    BY Zenon DEF t, p
  <2> QED
    BY <1>1, <1>2, <1>3, <1>4, <2>1, <2>2, LastDoomedInv, Zenon
<1>5. CASE ThreadsOf(p) # {t}
  <2>1. UNCHANGED <<pstate, reap_when_empty, end_requested, home, cr3, space>>
    BY <1>5, Zenon DEF DoomedEntry, EndDoomed
  <2>2. /\ woken' \in [Threads -> BOOLEAN] /\ waits_for' \in [Threads -> Procs \cup {NoProc}]
        /\ \A u \in Threads : u # t => (woken'[u] <=> woken[u]) /\ waits_for'[u] = waits_for[u]
    BY <1>3, Zenon DEF SchedInv, TypeOK
  <2>3. UNCHANGED <<procVars, cr3, last_slot>>
    BY <1>3, <2>1, Zenon DEF procVars
  <2> QED
    BY <1>1, <1>3, <1>5, <2>2, <2>3, ThreadEndsInv, Zenon
<1> QED
  BY <1>4, <1>5, Zenon
-----------------------------------------------------------------------------
(* Requests, pauses and the timer's wake-ups.                              *)

\* The slots stay clean where no thread and no process changes for them.
LEMMA SlotsStay ==
    ASSUME SlotsAreClean, proc' = proc, launches' = launches, doomed' = doomed, space' = space,
           \A q \in Procs : /\ pstate'[q] = "Unused" <=> pstate[q] = "Unused"
                            /\ pstate'[q] = "Setup" <=> pstate[q] = "Setup"
                            /\ pstate'[q] = "Ended" <=> pstate[q] = "Ended"
    PROVE  SlotsAreClean'
<1>1. \A q : ThreadsOf(q)' = ThreadsOf(q)
  BY Zenon DEF ThreadsOf
<1> QED
  BY <1>1, Zenon DEF SlotsAreClean

\* request_end.
LEMMA RequestEndInv ==
    ASSUME SchedInv, NEW c \in Cpus, NEW p \in Procs, RequestEnd(c, p)
    PROVE  SchedInv'
<1>0. /\ UNCHANGED <<lockVars, tstate, proc, cpu, running, doomed, woken, at, waits_for, launches>>
      /\ UNCHANGED <<thread, cr3, last_slot, mode, pstate, home, reap_when_empty, space>>
  BY Zenon DEF RequestEnd, threadVars, cpuVars
<1>1. TypeOK'
  BY Zenon DEF SchedInv, TypeOK, LockTypeOK, RequestEnd, threadVars, cpuVars, lockVars
<1>2. LockFacts'
  BY <1>0, Zenon DEF SchedInv, LockFacts, lockVars
<1>3. CpuFacts'
  BY <1>0, Zenon DEF SchedInv, CpuFacts, MayRun, lockVars
<1>4. ThreadFacts' /\ ProcFacts'
  BY <1>0, Zenon DEF SchedInv, ThreadFacts, ProcFacts
<1>5. NoCpuInFreedSpace' /\ RunningIsCurrent'
  BY <1>0, ZenonT(60) DEF SchedInv, NoCpuInFreedSpace, RunningIsCurrent
<1>6. SlotsAreClean' /\ NoLostWakeup'
  <2>1. SlotsAreClean'
    BY <1>0, SlotsStay, Zenon DEF SchedInv
  <2> QED
    BY <1>0, <2>1, Zenon DEF SchedInv, NoLostWakeup, MyTurn, lockVars
<1> QED
  BY <1>1, <1>2, <1>3, <1>4, <1>5, <1>6, Zenon DEF SchedInv

\* pause_process and resume_process.
LEMMA PauseOrResumeInv ==
    ASSUME SchedInv, NEW c \in Cpus, NEW p \in Procs, PauseOrResume(c, p)
    PROVE  SchedInv'
<1> USE DEF PauseOrResume, threadVars, cpuVars, lockVars
<1>1. /\ \A q \in Procs : q # p => pstate'[q] = pstate[q]
      /\ pstate'[p] \in {"Live", "Stopped"} /\ pstate[p] \in {"Live", "Stopped"}
  BY Zenon DEF Alive, SchedInv, TypeOK
<1>2. TypeOK'
  BY Zenon DEF SchedInv, TypeOK, LockTypeOK
<1>3. LockFacts' /\ ProcFacts'
  <2>1. LockFacts'
    BY Zenon DEF SchedInv, LockFacts
  <2>2. \A q \in Procs : pstate'[q] = "Ended" <=> pstate[q] = "Ended"
    BY <1>1, Zenon
  <2> QED
    BY <2>1, <2>2, Zenon DEF SchedInv, ProcFacts
<1>4. CpuFacts'
  <2>1. \A d \in Cpus : mode[d] # "resumed"
    BY Zenon DEF SchedInv, CpuFacts, InKernelModes
  <2> QED
    BY <2>1, Zenon DEF SchedInv, CpuFacts
<1>5. ThreadFacts'
  BY <1>1, SMTT(60) DEF SchedInv, ThreadFacts, TypeOK
<1>6. SlotsAreClean'
  <2>1. \A q \in Procs : /\ pstate'[q] = "Unused" <=> pstate[q] = "Unused"
                         /\ pstate'[q] = "Setup" <=> pstate[q] = "Setup"
                         /\ pstate'[q] = "Ended" <=> pstate[q] = "Ended"
    BY <1>1, Zenon
  <2>2. proc' = proc /\ launches' = launches /\ doomed' = doomed /\ space' = space
    BY Zenon
  <2> QED
    BY <2>1, <2>2, SlotsStay, Zenon DEF SchedInv
<1>7. NoCpuInFreedSpace' /\ RunningIsCurrent' /\ NoLostWakeup'
  BY Zenon DEF SchedInv, NoCpuInFreedSpace, RunningIsCurrent, NoLostWakeup, MyTurn
<1> QED
  BY <1>2, <1>3, <1>4, <1>5, <1>6, <1>7, Zenon DEF SchedInv

\* on_timer_tick wakes a sleeper.
LEMMA TimerWakeInv ==
    ASSUME SchedInv, NEW t \in Threads, TimerWake(t)
    PROVE  SchedInv'
<1>0. /\ UNCHANGED <<lockVars, tstate, proc, cpu, running, doomed, at, waits_for, launches>>
      /\ UNCHANGED <<procVars, thread, cr3, last_slot, mode>>
  BY Zenon DEF TimerWake, cpuVars
<1>1. TypeOK' /\ \A u \in Threads : woken[u] => woken'[u]
  BY Zenon DEF SchedInv, TypeOK, LockTypeOK, WakeUp, TimerWake, procVars, cpuVars, lockVars
<1>2. LockFacts' /\ CpuFacts' /\ ThreadFacts' /\ ProcFacts'
  <2>1. LockFacts'
    BY <1>0, Zenon DEF SchedInv, LockFacts, lockVars
  <2>2. CpuFacts'
    BY <1>0, Zenon DEF SchedInv, CpuFacts, MayRun, lockVars, procVars
  <2>3. ThreadFacts' /\ ProcFacts'
    BY <1>0, Zenon DEF SchedInv, ThreadFacts, ProcFacts, procVars
  <2> QED
    BY <2>1, <2>2, <2>3, Zenon
<1>3. NoCpuInFreedSpace' /\ RunningIsCurrent' /\ SlotsAreClean'
  <2>0. SlotsAreClean'
    BY <1>0, SlotsStay, Zenon DEF SchedInv, procVars
  <2>1. NoCpuInFreedSpace' /\ SlotsAreClean'
    BY <1>0, <2>0, Zenon DEF SchedInv, NoCpuInFreedSpace, procVars
  <2>2. \A d \in Cpus : thread[d] # Nobody => thread[d] \in Threads
    BY DEF SchedInv, TypeOK
  <2> QED
    BY <1>0, <2>1, <2>2, Zenon DEF SchedInv, RunningIsCurrent
<1>4. NoLostWakeup'
  BY <1>0, <1>1, Zenon DEF SchedInv, NoLostWakeup, MyTurn, lockVars
<1> QED
  BY <1>1, <1>2, <1>3, <1>4, Zenon DEF SchedInv
-----------------------------------------------------------------------------
(* The scheduling decision.                                                *)

\* switch_kernel_task and the idle loop.
LEMMA GoIdleInv ==
    ASSUME SchedInv, NEW c \in Cpus, GoIdle(c)
    PROVE  SchedInv'
<1>1. Alone(c) /\ mode[c] = "choose"
  BY EntersAlone, Zenon DEF GoIdle, InKernelModes
<1>2. /\ running' = [u \in Threads |-> running[u] /\ u # thread[c]]
      /\ thread' = [thread EXCEPT ![c] = Nobody]
      /\ cr3' = [cr3 EXCEPT ![c] = NoProc]
      /\ mode' = [mode EXCEPT ![c] = "halt"]
      /\ UNCHANGED <<pstate, home, end_requested, reap_when_empty, space>>
      /\ UNCHANGED <<tstate, proc, cpu, doomed, woken, at, waits_for, launches, last_slot>>
      /\ UNCHANGED <<next, serving, owner, depth, ticket, holds>>
  BY Zenon DEF GoIdle, Go, procVars, lockVars
<1>3. /\ \A d \in Cpus : d # c => thread'[d] = thread[d] /\ cr3'[d] = cr3[d] /\ mode'[d] = mode[d]
      /\ thread'[c] = Nobody /\ cr3'[c] = NoProc /\ mode'[c] = "halt"
      /\ \A u \in Threads : running'[u] <=> running[u] /\ u # thread[c]
  BY <1>2, ZenonT(60) DEF SchedInv, TypeOK
<1>4. TypeOK'
  <2>1. LockTypeOK'
    BY <1>2, Zenon DEF SchedInv, TypeOK, LockTypeOK
  <2> QED
    BY <2>1, <1>2, Zenon DEF SchedInv, TypeOK
<1>5. LockFacts' /\ ProcFacts' /\ ThreadFacts'
  <2>1. LockFacts' /\ ProcFacts'
    BY <1>2, Zenon DEF SchedInv, LockFacts, ProcFacts
  <2>2. ThreadFacts'
    BY <1>2, <1>3, Zenon DEF SchedInv, ThreadFacts
  <2> QED
    BY <2>1, <2>2, Zenon
<1>6. CpuFacts'
  <2>1. "halt" \notin InKernelModes
    BY DEF InKernelModes
  <2>2. \A a, d \in Cpus : mode'[a] \in InKernelModes /\ mode'[d] \in InKernelModes => a = d
    <3>1. \A d \in Cpus : mode'[d] \in InKernelModes => mode[d] \in InKernelModes
      BY <2>1, <1>3, Zenon
    <3> QED
      BY <3>1, Zenon DEF SchedInv, CpuFacts
  <2>3. \A u : MayRun(u)' <=> MayRun(u)
    BY <1>2, Zenon DEF MayRun
  <2>4. ASSUME NEW d \in Cpus
        PROVE  /\ mode'[d] = "halt" => thread'[d] = Nobody
               /\ mode'[d] \in {"user", "resumed"} => thread'[d] # Nobody
               /\ mode'[d] \in {"user", "halt"} /\ thread'[d] = Nobody => cr3'[d] = NoProc
               /\ mode'[d] \in {"user", "out"} /\ thread'[d] # Nobody => at'[thread'[d]] = "user"
               /\ mode'[d] = "resumed" => MayRun(thread[d])
    <3>1. CASE d = c
      BY <3>1, <1>3, Zenon
    <3>2. CASE d # c
      <4>1. mode'[d] = mode[d] /\ thread'[d] = thread[d] /\ cr3'[d] = cr3[d] /\ at' = at
        BY <3>2, <1>2, <1>3, Zenon
      <4> QED
        BY <4>1, Zenon DEF SchedInv, CpuFacts
    <3> QED
      BY <3>1, <3>2, Zenon
  <2>5. \A d \in Cpus : mode'[d] = "resumed" => MayRun(thread[d]) /\ thread'[d] = thread[d]
    BY <2>4, <1>3, Zenon
  <2> QED
    BY <2>2, <2>3, <2>4, <2>5, Zenon DEF CpuFacts
<1>7. RunningIsCurrent'
  <2>1. \A d \in Cpus : d # c /\ thread[d] # Nobody => thread[d] # thread[c]
    BY DEF SchedInv, RunningIsCurrent
  <2>2. \A u \in Threads : running'[u] <=> \E d \in Cpus : thread'[d] = u
    BY <2>1, <1>3, Numbers, SMTT(60) DEF SchedInv, RunningIsCurrent
  <2>3. ASSUME NEW d \in Cpus, thread'[d] # Nobody
        PROVE  /\ tstate'[thread'[d]] # "Unused" /\ cpu'[thread'[d]] = d
               /\ cr3'[d] = proc'[thread'[d]]
    <3>1. d # c /\ thread'[d] = thread[d] /\ cr3'[d] = cr3[d]
      BY <2>3, <1>3, Zenon
    <3> QED
      BY <2>3, <3>1, <1>2, Zenon DEF SchedInv, RunningIsCurrent
  <2> QED
    BY <2>2, <2>3, Zenon DEF RunningIsCurrent
<1>8. NoCpuInFreedSpace' /\ SlotsAreClean' /\ NoLostWakeup'
  <2>1. SlotsAreClean'
    BY <1>2, SlotsStay, Zenon DEF SchedInv
  <2>2. NoLostWakeup'
    BY <1>2, Zenon DEF SchedInv, NoLostWakeup, MyTurn
  <2>3. NoCpuInFreedSpace'
    BY <1>2, <1>3, Zenon DEF SchedInv, NoCpuInFreedSpace
  <2> QED
    BY <2>1, <2>2, <2>3, Zenon
<1> QED
  BY <1>4, <1>5, <1>6, <1>7, <1>8, Zenon DEF SchedInv
-----------------------------------------------------------------------------
(* The choices the code makes by searching.                                *)

\* A search for the smallest value of f finds one.
LEMMA MinExists ==
    ASSUME NEW S, S # {}, NEW f \in [S -> Nat]
    PROVE  \E x \in S : \A y \in S : f[x] <= f[y]
<1> DEFINE Less == OpToRel(<, Nat)
           N == {f[x] : x \in S}
<1>1. IsWellFoundedOn(Less, Nat)
  BY NatLessThanWellFounded, Zenon
<1>2. \A x, y \in Nat : y < x => <<y, x>> \in Less
  BY Zenon DEF OpToRel
<1> HIDE DEF Less
<1>3. N \subseteq Nat /\ N # {}
  BY Zenon
<1>4. PICK n \in N : \A m \in N : ~(<<m, n>> \in Less)
  BY <1>1, <1>3, WFMin, Zenon
<1>5. PICK x \in S : n = f[x]
  BY Zenon
<1>6. ASSUME NEW y \in S PROVE f[x] <= f[y]
  <2>1. n \in Nat /\ f[y] \in Nat /\ f[y] \in N
    BY <1>3, Zenon
  <2>2. ~(f[y] < n)
    BY <1>2, <1>4, <2>1, Zenon
  <2> QED
    BY <1>5, <2>1, <2>2
<1> QED
  BY <1>6, Zenon

\* The first free slot of a table is one of its free slots.
LEMMA LeastIsIn ==
    ASSUME NEW S \in SUBSET Nat, S # {}
    PROVE  Least(S) \in S
<1> DEFINE f == [x \in S |-> x]
<1>1. f \in [S -> Nat]
  BY Zenon
<1>2. PICK x \in S : \A y \in S : f[x] <= f[y]
  <2> HIDE DEF f
  <2> QED
    BY <1>1, MinExists, Zenon
<1>3. \A y \in S : x <= y
  BY <1>2, Zenon
<1> QED
  BY <1>3, Zenon DEF Least

\* least_loaded_cpu returns a CPU.
LEMMA LeastLoadedIsCpu == LeastLoadedCpu \in Cpus
<1> DEFINE T(c) == {t \in Threads : tstate[t] # "Unused" /\ cpu[t] = c}
           f == [c \in Cpus |-> Cardinality(T(c))]
           S == {c \in Cpus : \A d \in Cpus : Cardinality(T(c)) <= Cardinality(T(d))}
<1>1. \A c \in Cpus : Cardinality(T(c)) \in Nat
  <2> TAKE c \in Cpus
  <2>1. T(c) \subseteq Threads
    BY Zenon
  <2> QED
    BY <2>1, LockAssumption, FS_Subset, FS_CardinalityType, Zenon
<1>2. f \in [Cpus -> Nat]
  BY <1>1, Zenon
<1>3. 0 \in Cpus /\ Cpus \subseteq Nat
  BY SchedulerAssumption DEF Cpus
<1>4. \E x \in Cpus : \A y \in Cpus : f[x] <= f[y]
  <2> HIDE DEF f
  <2> QED
    BY <1>2, <1>3, MinExists, Zenon
<1>5. S # {} /\ S \in SUBSET Nat /\ S \subseteq Cpus
  BY <1>3, <1>4, ZenonT(60)
<1>6. Least(S) \in S
  <2> HIDE DEF S
  <2> QED
    BY <1>5, LeastIsIn, Zenon
<1>7. LeastLoadedCpu = Least(S)
  BY Zenon DEF LeastLoadedCpu
<1> QED
  BY <1>5, <1>6, <1>7, Zenon

\* pick_next returns a ready thread.
LEMMA PickNextIsReady ==
    ASSUME TypeOK, NEW c \in Cpus, Ready(c) # {}
    PROVE  PickNext(c) \in Ready(c)
<1> DEFINE f == [t \in Ready(c) |-> Turn(c, t)]
<1>1. Ready(c) \subseteq 1 .. MaxThreads /\ last_slot[c] \in 1 .. MaxThreads
  BY SchedulerAssumption, Zenon DEF Ready, TypeOK
<1>2. f \in [Ready(c) -> Nat]
  <2> SUFFICES ASSUME NEW t \in Ready(c) PROVE Turn(c, t) \in Nat
    BY Zenon
  <2>1. t + MaxThreads - last_slot[c] - 1 \in Nat /\ MaxThreads \in Nat \ {0}
    BY <1>1, SchedulerAssumption
  <2> QED
    BY <2>1 DEF Turn
<1>3. \E x \in Ready(c) : \A y \in Ready(c) : f[x] <= f[y]
  <2> HIDE DEF f
  <2> QED
    BY <1>2, MinExists, Zenon
<1>4. \E x \in Ready(c) : \A y \in Ready(c) : Turn(c, x) <= Turn(c, y)
  BY <1>3, Zenon
<1> QED
  BY <1>4, Zenon DEF PickNext

\* service_requests ends a process none of whose threads holds anything.
LEMMA ServiceRequestInv ==
    ASSUME SchedInv, NEW c \in Cpus, ServiceRequest(c)
    PROVE  SchedInv'
<1> DEFINE p == Least(ToBeEnded(c))
<1>1. p \in ToBeEnded(c)
  <2>1. ToBeEnded(c) \subseteq Nat /\ ToBeEnded(c) # {}
    BY Numbers, Zenon DEF ToBeEnded, ServiceRequest
  <2> QED
    BY <2>1, LeastIsIn, Zenon
<1>2. p \in Procs /\ Alive(p) /\ ~ HoldsLocks(p)
  BY <1>1, Zenon DEF ToBeEnded
<1>3. mode[c] \in {"out", "choose"} /\ Terminate(c, p) /\ mode' = mode
  BY Zenon DEF ServiceRequest
<1>4. Alone(c)
  BY <1>3, EntersAlone, Zenon DEF InKernelModes
<1>5. mode' = [mode EXCEPT ![c] = mode[c]]
  BY <1>3, Zenon DEF SchedInv, TypeOK
<1> HIDE DEF p
<1>6. \A t \in ThreadsOf(p) : holds[t] = 0
  BY <1>2 DEF HoldsLocks, ThreadsOf, SchedInv, LockFacts
<1> QED
  BY <1>2, <1>3, <1>4, <1>5, <1>6, TerminateInv, Zenon

\* sf_thread_exit.
LEMMA ThreadExitInv ==
    ASSUME SchedInv, NEW c \in Cpus, ThreadExit(c)
    PROVE  SchedInv'
<1>1. Enters(c) /\ Go(c, "choose")
  BY Zenon DEF ThreadExit
<1>2. CASE Cardinality(ThreadsOf(proc[thread[c]])) = 1
  <2>1. Terminate(c, proc[thread[c]])
    BY <1>2, Zenon DEF ThreadExit
  <2> QED
    BY <1>1, <2>1, ExitTerminateInv, Zenon
<1>3. CASE Cardinality(ThreadsOf(proc[thread[c]])) # 1
  <2>1. /\ EndThreads(c, {thread[c]}, {})
        /\ UNCHANGED <<woken, waits_for, procVars, cr3, last_slot>>
    BY <1>3, Zenon DEF ThreadExit
  <2>2. ThreadsOf(proc[thread[c]]) # {thread[c]}
    BY <1>3, FS_Singleton, Zenon
  <2>3. Alone(c) /\ thread[c] \in Threads /\ at[thread[c]] = "user"
    BY <1>1, EntersFacts, Zenon
  <2>4. /\ woken' \in [Threads -> BOOLEAN] /\ waits_for' \in [Threads -> Procs \cup {NoProc}]
        /\ \A u \in Threads : (woken'[u] <=> woken[u]) /\ waits_for'[u] = waits_for[u]
    BY <2>1, Zenon DEF SchedInv, TypeOK
  <2> QED
    BY <1>1, <2>1, <2>2, <2>3, <2>4, ThreadEndsInv, Zenon
<1> QED
  BY <1>2, <1>3, Zenon

\* switch_thread to the thread that pick_next chose.
LEMMA SwitchInv ==
    ASSUME SchedInv, NEW c \in Cpus, Switch(c)
    PROVE  SchedInv'
<1>0. PICK t : t = PickNext(c)
  BY Zenon
<1>1. t \in Ready(c)
  BY <1>0, PickNextIsReady, Zenon DEF Switch, SchedInv
<1>2. t \in Threads /\ tstate[t] # "Unused" /\ cpu[t] = c /\ MayRun(t)
  BY <1>1, Zenon DEF Ready
<1>3. Alone(c) /\ mode[c] = "choose"
  BY EntersAlone, Zenon DEF Switch, InKernelModes
<1>4. /\ tstate' = [tstate EXCEPT ![t] = "Runnable"]
      /\ running' = [u \in Threads |-> u = t \/ (running[u] /\ u # thread[c])]
      /\ thread' = [thread EXCEPT ![c] = t]
      /\ cr3' = [cr3 EXCEPT ![c] = proc[t]]
      /\ last_slot' = [last_slot EXCEPT ![c] = t]
      /\ mode' = [mode EXCEPT ![c] = "resumed"]
      /\ UNCHANGED <<pstate, home, end_requested, reap_when_empty, space>>
      /\ UNCHANGED <<proc, cpu, doomed, woken, at, waits_for, launches>>
      /\ UNCHANGED <<next, serving, owner, depth, ticket, holds>>
  BY <1>0, Zenon DEF Switch, SwitchRunning, Go, procVars, lockVars
<1>5. proc[t] \in Procs /\ space[proc[t]]
  <2>1. proc[t] \in Procs
    BY <1>2 DEF SchedInv, ThreadFacts, TypeOK
  <2> QED
    BY <1>2, <2>1, Zenon DEF SchedInv, SlotsAreClean, MayRun
<1>6. /\ \A d \in Cpus : d # c => thread'[d] = thread[d] /\ cr3'[d] = cr3[d] /\ mode'[d] = mode[d]
      /\ thread'[c] = t /\ cr3'[c] = proc[t] /\ mode'[c] = "resumed"
      /\ \A u \in Threads : u # t => tstate'[u] = tstate[u]
      /\ tstate'[t] = "Runnable"
      /\ \A u \in Threads : running'[u] <=> u = t \/ (running[u] /\ u # thread[c])
  BY <1>2, <1>4, ZenonT(60) DEF SchedInv, TypeOK
<1>7. TypeOK'
  <2>1. LockTypeOK'
    BY <1>4, Zenon DEF SchedInv, TypeOK, LockTypeOK
  <2> QED
    BY <2>1, <1>2, <1>4, <1>5, Zenon DEF SchedInv, TypeOK
<1>8. LockFacts' /\ ProcFacts'
  BY <1>4, Zenon DEF SchedInv, LockFacts, ProcFacts
<1>9. CpuFacts'
  <2>1. \A d, e \in Cpus : mode'[d] \in InKernelModes /\ mode'[e] \in InKernelModes => d = e
    BY <1>6, <1>3, ZenonT(60) DEF Alone, InKernelModes
  <2>2. MayRun(t)'
    BY <1>2, <1>4, Zenon DEF MayRun
  <2>3. ASSUME NEW d \in Cpus
        PROVE  /\ mode'[d] = "halt" => thread'[d] = Nobody
               /\ mode'[d] \in {"user", "resumed"} => thread'[d] # Nobody
               /\ mode'[d] \in {"user", "halt"} /\ thread'[d] = Nobody => cr3'[d] = NoProc
               /\ mode'[d] \in {"user", "out"} /\ thread'[d] # Nobody => at'[thread'[d]] = "user"
               /\ mode'[d] = "resumed" => thread'[d] = t
    <3>1. CASE d = c
      <4>1. mode'[d] = "resumed" /\ thread'[d] = t /\ t # Nobody
        BY <3>1, <1>2, <1>6, Numbers, Zenon
      <4> QED
        BY <4>1, Zenon
    <3>2. CASE d # c
      <4>1. /\ mode'[d] = mode[d] /\ thread'[d] = thread[d] /\ cr3'[d] = cr3[d] /\ at' = at
            /\ mode[d] # "resumed"
        BY <3>2, <1>3, <1>4, <1>6, Zenon DEF Alone
      <4>2. /\ mode[d] = "halt" => thread[d] = Nobody
            /\ mode[d] \in {"user", "resumed"} => thread[d] # Nobody
            /\ mode[d] \in {"user", "halt"} /\ thread[d] = Nobody => cr3[d] = NoProc
            /\ mode[d] \in {"user", "out"} /\ thread[d] # Nobody => at[thread[d]] = "user"
        BY Zenon DEF SchedInv, CpuFacts
      <4> QED
        BY <4>1, <4>2, Zenon
    <3> QED
      BY <3>1, <3>2, Zenon
  <2> QED
    BY <2>1, <2>2, <2>3, Zenon DEF CpuFacts
<1>10. ThreadFacts'
  BY <1>2, <1>4, <1>6 DEF SchedInv, ThreadFacts
<1>11. RunningIsCurrent'
  <2>1. \A d \in Cpus : d # c => thread[d] # t /\ (thread[d] # Nobody => thread[d] # thread[c])
    <3> SUFFICES ASSUME NEW d \in Cpus, d # c
                 PROVE  thread[d] # t /\ (thread[d] # Nobody => thread[d] # thread[c])
      BY Zenon
    <3> QED
      BY <1>2, Numbers DEF SchedInv, RunningIsCurrent
  <2>2. \A u \in Threads : running'[u] <=> \E d \in Cpus : thread'[d] = u
    BY <2>1, <1>2, <1>6, Numbers DEF SchedInv, RunningIsCurrent
  <2>3. ASSUME NEW d \in Cpus, thread'[d] # Nobody
        PROVE  /\ tstate'[thread'[d]] # "Unused" /\ cpu'[thread'[d]] = d
               /\ cr3'[d] = proc'[thread'[d]]
    <3>1. CASE d = c
      BY <3>1, <1>2, <1>4, <1>6, ZenonT(60)
    <3>2. CASE d # c
      <4>1. thread'[d] = thread[d] /\ thread[d] \in Threads /\ thread[d] # t
        BY <2>1, <2>3, <3>2, <1>6, SMTT(60) DEF SchedInv, TypeOK
      <4>2. tstate[thread[d]] # "Unused" /\ cpu[thread[d]] = d /\ cr3[d] = proc[thread[d]]
        BY <4>1, Numbers, Zenon DEF SchedInv, RunningIsCurrent
      <4> QED
        BY <4>1, <4>2, <3>2, <1>4, <1>6, ZenonT(60)
    <3> QED
      BY <3>1, <3>2, Zenon
  <2> QED
    BY <2>2, <2>3, Zenon DEF RunningIsCurrent
<1>12. NoCpuInFreedSpace'
  BY <1>4, <1>5, <1>6, ZenonT(60) DEF SchedInv, NoCpuInFreedSpace
<1>13. SlotsAreClean'
  BY <1>4, SMTT(60) DEF SchedInv, SlotsAreClean, ThreadsOf
<1>14. NoLostWakeup'
  <2>1. \A u \in Threads : MyTurn(u)' <=> MyTurn(u)
    BY <1>4, Zenon DEF MyTurn
  <2> QED
    BY <2>1, <1>4, <1>6, ZenonT(60) DEF SchedInv, NoLostWakeup
<1> QED
  BY <1>7, <1>8, <1>9, <1>10, <1>11, <1>12, <1>13, <1>14, ZenonT(60) DEF SchedInv
-----------------------------------------------------------------------------
(* A thread in a call goes to sleep, or goes on after one.                 *)

\* The thread a CPU has is in use, and no other CPU has it.
LEMMA OnlyHere ==
    ASSUME SchedInv, NEW c \in Cpus, NEW t \in Threads, t = thread[c]
    PROVE  tstate[t] # "Unused" /\ \A d \in Cpus : d # c => thread[d] # t
<1>1. t # Nobody
  BY Numbers, Zenon
<1> QED
  BY <1>1, SMTT(60) DEF SchedInv, RunningIsCurrent

\* The thread t of CPU c changes how it sleeps and what it has of the lock, and
\* wakes others, in a step that leaves everything else alone.
LEMMA OwnStepInv ==
    ASSUME SchedInv, NEW c \in Cpus, NEW t \in Threads, t = thread[c], Alone(c),
           NEW m \in {"out", "choose"}, Go(c, m), TypeOK', LockFacts',
           UNCHANGED <<procVars, proc, cpu, running, doomed, launches, thread, cr3, last_slot>>,
           \A u \in Threads : u # t =>
               /\ tstate'[u] = tstate[u] /\ at'[u] = at[u] /\ waits_for'[u] = waits_for[u]
               /\ woken[u] => woken'[u]
               /\ tstate[u] = "Blocked" /\ at[u] = "lock" /\ MyTurn(u)' => MyTurn(u) \/ woken'[u],
           tstate'[t] # "Unused",
           m = "out" => at'[t] = "user",
           launches[t] # NoProc => at'[t] \in {"lock", "disk"},
           tstate'[t] = "Blocked" =>
               /\ at'[t] = "wait" /\ waits_for'[t] = NoProc => woken'[t]
               /\ at'[t] = "lock" /\ MyTurn(t)' => woken'[t]
    PROVE  SchedInv'
<1> USE DEF procVars
<1>1. (\A d \in Cpus : d # c => mode'[d] = mode[d]) /\ mode'[c] = m
  BY SMTT(60) DEF Go, SchedInv, TypeOK
<1>2. tstate[t] # "Unused" /\ \A d \in Cpus : d # c => thread[d] # t
  BY OnlyHere, Zenon
<1>3. CpuFacts'
  <2>1. \A d, e \in Cpus : mode'[d] \in InKernelModes /\ mode'[e] \in InKernelModes => d = e
    BY <1>1, ZenonT(60) DEF Alone, InKernelModes
  <2>2. ASSUME NEW d \in Cpus
        PROVE  /\ mode'[d] = "halt" => thread[d] = Nobody
               /\ mode'[d] \in {"user", "resumed"} => thread[d] # Nobody
               /\ mode'[d] \in {"user", "halt"} /\ thread[d] = Nobody => cr3[d] = NoProc
               /\ mode'[d] \in {"user", "out"} /\ thread[d] # Nobody => at'[thread[d]] = "user"
               /\ mode'[d] # "resumed"
    <3>1. CASE d = c
      BY <3>1, <1>1, Zenon
    <3>2. CASE d # c
      <4>1. mode'[d] = mode[d] /\ thread[d] # t /\ mode[d] # "resumed"
        BY <3>2, <1>1, <1>2, ZenonT(60) DEF Alone
      <4>2. thread[d] # Nobody => thread[d] \in Threads
        BY DEF SchedInv, TypeOK
      <4> QED
        BY <4>1, <4>2, ZenonT(60) DEF SchedInv, CpuFacts
    <3> QED
      BY <3>1, <3>2, Zenon
  <2> QED
    BY <2>1, <2>2, Zenon DEF CpuFacts
<1>4. ThreadFacts' /\ ProcFacts'
  <2>1. ASSUME NEW u \in Threads
        PROVE  /\ tstate'[u] # "Unused" => proc[u] # NoProc
               /\ proc[u] # NoProc => (tstate'[u] = "Unused" <=> pstate[proc[u]] = "Setup")
               /\ tstate'[u] = "Unused" =>
                     ~ running[u] /\ ~ doomed[u] /\ at'[u] = "user" /\ launches[u] = NoProc
               /\ launches[u] # NoProc => at'[u] \in {"lock", "disk"}
    <3>1. CASE u = t
      <4>1. proc[t] # NoProc /\ pstate[proc[t]] # "Setup"
        BY <1>2, ZenonT(60) DEF SchedInv, ThreadFacts
      <4> QED
        BY <3>1, <4>1, Zenon
    <3>2. CASE u # t
      <4>1. tstate'[u] = tstate[u] /\ at'[u] = at[u]
        BY <3>2, Zenon
      <4>2. /\ tstate[u] # "Unused" => proc[u] # NoProc
            /\ proc[u] # NoProc => (tstate[u] = "Unused" <=> pstate[proc[u]] = "Setup")
            /\ tstate[u] = "Unused" =>
                  ~ running[u] /\ ~ doomed[u] /\ at[u] = "user" /\ launches[u] = NoProc
            /\ launches[u] # NoProc => at[u] \in {"lock", "disk"}
        BY Zenon DEF SchedInv, ThreadFacts
      <4> QED
        BY <4>1, <4>2, ZenonT(60)
    <3> QED
      BY <3>1, <3>2, Zenon
  <2>2. ThreadFacts'
    BY <2>1, Zenon DEF ThreadFacts
  <2> QED
    BY <2>2, Zenon DEF SchedInv, ProcFacts
<1>5. RunningIsCurrent'
  <2>1. \A d \in Cpus : thread[d] # Nobody => thread[d] \in Threads
    BY DEF SchedInv, TypeOK
  <2>2. \A u \in Threads : tstate[u] # "Unused" => tstate'[u] # "Unused"
    BY Zenon
  <2> QED
    BY <2>1, <2>2, ZenonT(60) DEF SchedInv, RunningIsCurrent
<1>6. NoCpuInFreedSpace' /\ SlotsAreClean'
  <2>1. NoCpuInFreedSpace'
    BY ZenonT(60) DEF SchedInv, NoCpuInFreedSpace
  <2>2. SlotsAreClean'
    BY SlotsStay, Zenon DEF SchedInv, procVars
  <2> QED
    BY <2>1, <2>2, Zenon
<1>7. NoLostWakeup'
  BY ZenonT(60) DEF SchedInv, NoLostWakeup
<1> QED
  BY <1>3, <1>4, <1>5, <1>6, <1>7, ZenonT(60) DEF SchedInv

\* lock() by a thread in the middle of nothing.
LEMMA DiskOperationFacts ==
    ASSUME SchedInv, NEW t \in Threads, at[t] = "user", DiskOperation(t)
    PROVE  /\ LockTypeOK' /\ LockFacts'
           /\ tstate' \in [Threads -> {"Unused", "Runnable", "Blocked"}]
           /\ at' \in [Threads -> {"user", "lock", "disk", "wait"}]
           /\ \A u \in Threads : u # t =>
                 tstate'[u] = tstate[u] /\ at'[u] = at[u] /\ (MyTurn(u)' => MyTurn(u))
           /\ tstate'[t] = "Blocked" /\ at'[t] \in {"lock", "disk"}
           /\ at'[t] = "lock" => ~ MyTurn(t)'
<1> USE DEF DiskOperation, Ask, Sleep
<1>1. /\ holds[t] = 0 /\ owner # t /\ ticket[t] = NoTicket
      /\ ticket \in [Threads -> Tickets \cup {NoTicket}] /\ next \in Tickets /\ serving \in Tickets
      /\ holds \in [Threads -> Nat] /\ depth \in {0, 1}
      /\ at \in [Threads -> {"user", "lock", "disk", "wait"}]
      /\ tstate \in [Threads -> {"Unused", "Runnable", "Blocked"}]
      /\ owner \in Threads \cup {Nobody}
  BY Zenon DEF SchedInv, TypeOK, LockTypeOK, LockFacts
<1>2. /\ \A u \in Threads : u # t => ticket'[u] = ticket[u] /\ holds'[u] = holds[u]
                                     /\ at'[u] = at[u] /\ tstate'[u] = tstate[u]
      /\ ticket'[t] = next /\ holds'[t] = 1 /\ tstate'[t] = "Blocked"
      /\ at'[t] = IF owner' = t THEN "disk" ELSE "lock"
  BY <1>1
<1>3. LockTypeOK'
  BY <1>1, Numbers DEF LockTypeOK
<1>4. /\ tstate' \in [Threads -> {"Unused", "Runnable", "Blocked"}]
      /\ at' \in [Threads -> {"user", "lock", "disk", "wait"}]
  BY <1>1, Zenon
<1>5. CASE depth = 0 /\ serving = next
  <2>1. owner' = t /\ depth' = 1 /\ owner = Nobody
    BY <1>5, Zenon DEF SchedInv, LockFacts
  <2>2. LockFacts'
    BY <1>1, <1>2, <2>1, Numbers DEF SchedInv, LockFacts
  <2> QED
    BY <1>2, <1>3, <1>4, <2>1, <2>2, ZenonT(60) DEF MyTurn
<1>6. CASE ~ (depth = 0 /\ serving = next)
  <2>1. owner' = owner /\ depth' = depth /\ serving' = serving
    BY <1>6, Zenon
  <2>2. LockFacts'
    BY <1>1, <1>2, <2>1, Numbers, SMTT(60) DEF SchedInv, LockFacts
  <2> QED
    BY <1>1, <1>2, <1>3, <1>4, <1>6, <2>1, <2>2, ZenonT(60) DEF MyTurn
<1> QED
  BY <1>5, <1>6, Zenon

\* A file call.
LEMMA FileCallInv ==
    ASSUME SchedInv, NEW c \in Cpus, FileCall(c)
    PROVE  SchedInv'
<1>0. PICK t : t = thread[c]
  BY Zenon
<1>1. Alone(c) /\ t \in Threads /\ at[t] = "user" /\ launches[t] = NoProc
  BY <1>0, EntersFacts, Zenon DEF FileCall
<1>2. /\ DiskOperation(t) /\ Go(c, "choose")
      /\ UNCHANGED <<procVars, proc, cpu, running, doomed, woken, waits_for, launches,
                     thread, cr3, last_slot>>
  BY <1>0, Zenon DEF FileCall
<1>3. /\ LockTypeOK' /\ LockFacts'
      /\ tstate' \in [Threads -> {"Unused", "Runnable", "Blocked"}]
      /\ at' \in [Threads -> {"user", "lock", "disk", "wait"}]
      /\ \A u \in Threads : u # t =>
            tstate'[u] = tstate[u] /\ at'[u] = at[u] /\ (MyTurn(u)' => MyTurn(u))
      /\ tstate'[t] = "Blocked" /\ at'[t] \in {"lock", "disk"}
      /\ at'[t] = "lock" => ~ MyTurn(t)'
  BY <1>1, <1>2, DiskOperationFacts, Zenon
<1>4. TypeOK'
  BY <1>2, <1>3, ZenonT(60) DEF SchedInv, TypeOK, Go, procVars
<1> QED
  BY <1>0, <1>1, <1>2, <1>3, <1>4, OwnStepInv, ZenonT(60)

\* sf_process_wait.
LEMMA ProcessWaitInv ==
    ASSUME SchedInv, NEW c \in Cpus, NEW p \in Procs, ProcessWait(c, p)
    PROVE  SchedInv'
<1>0. PICK t : t = thread[c]
  BY Zenon
<1>1. Alone(c) /\ t \in Threads /\ at[t] = "user" /\ launches[t] = NoProc
  BY <1>0, EntersFacts, Zenon DEF ProcessWait
<1>2. /\ tstate' = [tstate EXCEPT ![t] = "Blocked"] /\ at' = [at EXCEPT ![t] = "wait"]
      /\ waits_for' = [waits_for EXCEPT ![t] = p] /\ Go(c, "choose")
      /\ UNCHANGED <<procVars, proc, cpu, running, doomed, woken, launches,
                     thread, cr3, last_slot, lockVars>>
  BY <1>0, Zenon DEF ProcessWait, Sleep
<1>3. TypeOK'
  BY <1>1, <1>2, ZenonT(60) DEF SchedInv, TypeOK, LockTypeOK, Go, procVars, lockVars
<1>4. /\ \A u \in Threads : u # t =>
            tstate'[u] = tstate[u] /\ at'[u] = at[u] /\ waits_for'[u] = waits_for[u]
      /\ tstate'[t] = "Blocked" /\ at'[t] = "wait" /\ waits_for'[t] = p
      /\ \A u \in Threads : MyTurn(u)' <=> MyTurn(u)
  BY <1>1, <1>2, ZenonT(60) DEF SchedInv, TypeOK, MyTurn, lockVars
<1>5. LockFacts'
  BY <1>1, <1>2, <1>4 DEF SchedInv, LockFacts, lockVars
<1> QED
  BY <1>0, <1>1, <1>2, <1>3, <1>4, <1>5, OwnStepInv, Numbers, SMTT(60)

\* A thread that was switched to.
LEMMA ResumedFacts ==
    ASSUME SchedInv, NEW c \in Cpus, mode[c] = "resumed"
    PROVE  /\ Alone(c) /\ thread[c] \in Threads /\ tstate[thread[c]] # "Unused"
           /\ MayRun(thread[c]) /\ proc[thread[c]] \in Procs
<1>1. Alone(c) /\ thread[c] \in Threads /\ MayRun(thread[c])
  BY EntersAlone, Numbers, ZenonT(60) DEF SchedInv, CpuFacts, InKernelModes, TypeOK
<1>2. tstate[thread[c]] # "Unused"
  BY <1>1, Numbers, ZenonT(60) DEF SchedInv, RunningIsCurrent
<1>3. proc[thread[c]] \in Procs
  BY <1>1, <1>2 DEF SchedInv, ThreadFacts, TypeOK
<1> QED
  BY <1>1, <1>2, <1>3, Zenon

\* objects::wait returns.
LEMMA ResumeWaitInv ==
    ASSUME SchedInv, NEW c \in Cpus, ResumeWait(c)
    PROVE  SchedInv'
<1>0. PICK t : t = thread[c]
  BY Zenon
<1>1. Alone(c) /\ t \in Threads /\ tstate[t] # "Unused" /\ at[t] = "wait"
  BY <1>0, ResumedFacts, Zenon DEF ResumeWait, Resumes
<1>2. /\ woken' = [woken EXCEPT ![t] = FALSE] /\ at' = [at EXCEPT ![t] = "user"]
      /\ waits_for' = [waits_for EXCEPT ![t] = NoProc] /\ Go(c, "out")
      /\ UNCHANGED <<procVars, tstate, proc, cpu, running, doomed, launches,
                     thread, cr3, last_slot, lockVars>>
  BY <1>0, Zenon DEF ResumeWait
<1>3. TypeOK'
  BY <1>1, <1>2, ZenonT(60) DEF SchedInv, TypeOK, LockTypeOK, Go, procVars, lockVars
<1>4. /\ \A u \in Threads : u # t =>
            (woken'[u] <=> woken[u]) /\ at'[u] = at[u] /\ waits_for'[u] = waits_for[u]
      /\ at'[t] = "user"
      /\ \A u \in Threads : MyTurn(u)' <=> MyTurn(u)
  BY <1>1, <1>2, ZenonT(60) DEF SchedInv, TypeOK, MyTurn, lockVars
<1>5. LockFacts'
  BY <1>1, <1>2, <1>4, Zenon DEF SchedInv, LockFacts, lockVars
<1>6. launches[t] = NoProc
  BY <1>1, Zenon DEF SchedInv, ThreadFacts
<1> QED
  BY <1>0, <1>1, <1>2, <1>3, <1>4, <1>5, <1>6, OwnStepInv, ZenonT(60)

\* lock()'s loop.
LEMMA ResumeLockInv ==
    ASSUME SchedInv, NEW c \in Cpus, ResumeLock(c)
    PROVE  SchedInv'
<1>0. PICK t : t = thread[c]
  BY Zenon
<1>1. Alone(c) /\ t \in Threads /\ tstate[t] # "Unused" /\ at[t] = "lock"
  BY <1>0, ResumedFacts, Zenon DEF ResumeLock, Resumes
<1>2. /\ woken' = [woken EXCEPT ![t] = FALSE] /\ Go(c, "choose")
      /\ UNCHANGED <<procVars, proc, cpu, running, doomed, waits_for, launches,
                     thread, cr3, last_slot>>
  BY <1>0, Zenon DEF ResumeLock
<1>3. /\ ticket \in [Threads -> Tickets \cup {NoTicket}] /\ next \in Tickets /\ serving \in Tickets
      /\ holds \in [Threads -> Nat] /\ depth \in {0, 1}
      /\ at \in [Threads -> {"user", "lock", "disk", "wait"}]
      /\ tstate \in [Threads -> {"Unused", "Runnable", "Blocked"}]
      /\ owner \in Threads \cup {Nobody} /\ woken \in [Threads -> BOOLEAN]
  BY Zenon DEF SchedInv, TypeOK, LockTypeOK, LockFacts
<1>4. /\ \A u \in Threads : u # t => (woken'[u] <=> woken[u])
      /\ woken' \in [Threads -> BOOLEAN]
  BY <1>2, <1>3, Zenon
<1>5. CASE MyTurn(t)
  <2>1. /\ owner' = t /\ depth' = 1 /\ UNCHANGED <<next, serving, ticket>>
        /\ holds' = [holds EXCEPT ![t] = holds[t]]
        /\ tstate' = [tstate EXCEPT ![t] = "Blocked"] /\ at' = [at EXCEPT ![t] = "disk"]
    BY <1>0, <1>5, Zenon DEF ResumeLock, Get, Sleep
  <2>2. holds' = holds /\ owner = Nobody
    BY <1>1, <1>3, <1>5, <2>1, ZenonT(60) DEF MyTurn, SchedInv, LockFacts
  <2>3. /\ \A u \in Threads : u # t => tstate'[u] = tstate[u] /\ at'[u] = at[u]
        /\ tstate'[t] = "Blocked" /\ at'[t] = "disk"
        /\ \A u \in Threads : ~ MyTurn(u)'
    BY <1>1, <1>3, <2>1 DEF MyTurn
  <2>4. LockFacts'
    BY <1>1, <2>1, <2>2, <2>3, Numbers, SMTT(60) DEF SchedInv, LockFacts
  <2>5. TypeOK'
    <3>1. LockTypeOK'
      BY <1>1, <1>3, <2>1, <2>2, Zenon DEF LockTypeOK
    <3>2. /\ tstate' \in [Threads -> {"Unused", "Runnable", "Blocked"}]
          /\ at' \in [Threads -> {"user", "lock", "disk", "wait"}]
      BY <1>3, <2>1, ZenonT(60)
    <3> QED
      BY <3>1, <3>2, <1>2, <1>4, ZenonT(60) DEF SchedInv, TypeOK, Go, procVars
  <2> QED
    BY <1>0, <1>1, <1>2, <1>4, <2>3, <2>4, <2>5, OwnStepInv, ZenonT(60)
<1>6. CASE ~ MyTurn(t)
  <2>1. /\ UNCHANGED lockVars
        /\ tstate' = [tstate EXCEPT ![t] = "Blocked"] /\ at' = [at EXCEPT ![t] = "lock"]
    BY <1>0, <1>6, Zenon DEF ResumeLock, Sleep
  <2>2. at' = at
    BY <1>1, <1>3, <2>1, Zenon
  <2>3. /\ \A u \in Threads : u # t => tstate'[u] = tstate[u]
        /\ tstate'[t] = "Blocked"
        /\ \A u \in Threads : MyTurn(u)' <=> MyTurn(u)
    BY <1>1, <1>3, <2>1, Zenon DEF MyTurn, lockVars
  <2>4. LockFacts'
    BY <2>1, <2>2, ZenonT(60) DEF SchedInv, LockFacts, lockVars
  <2>5. TypeOK'
    <3>1. LockTypeOK'
      BY <2>1, Zenon DEF SchedInv, TypeOK, LockTypeOK, lockVars
    <3>2. /\ tstate' \in [Threads -> {"Unused", "Runnable", "Blocked"}]
          /\ at' \in [Threads -> {"user", "lock", "disk", "wait"}]
      BY <1>3, <2>1, Zenon
    <3> QED
      BY <3>1, <3>2, <1>2, <1>4, Zenon DEF SchedInv, TypeOK, Go, procVars
  <2> QED
    BY <1>0, <1>1, <1>2, <1>4, <1>6, <2>2, <2>3, <2>4, <2>5, OwnStepInv, ZenonT(60)
<1> QED
  BY <1>5, <1>6, Zenon

\* unlock() by the thread that has the lock.
LEMMA UnlockFacts ==
    ASSUME SchedInv, NEW t \in Threads, at[t] = "disk", Unlock(t),
           at' = [at EXCEPT ![t] = "user"]
    PROVE  /\ LockTypeOK' /\ LockFacts' /\ at' \in [Threads -> {"user", "lock", "disk", "wait"}]
           /\ \A u \in Threads : u # t => at'[u] = at[u]
           /\ at'[t] = "user"
<1>1. /\ holds[t] = 1 /\ owner = t /\ ticket[t] # NoTicket /\ depth = 1
      /\ ticket \in [Threads -> Tickets \cup {NoTicket}] /\ next \in Tickets /\ serving \in Tickets
      /\ holds \in [Threads -> Nat]
      /\ at \in [Threads -> {"user", "lock", "disk", "wait"}]
  BY Numbers DEF SchedInv, TypeOK, LockTypeOK, LockFacts
<1>2. /\ owner' = Nobody /\ depth' = 0 /\ serving' = Succ(serving) /\ next' = next
      /\ ticket' = [ticket EXCEPT ![t] = NoTicket]
      /\ holds' = [holds EXCEPT ![t] = 0]
  BY <1>1 DEF Unlock
<1>3. LockTypeOK'
  BY <1>1, <1>2, Numbers, Zenon DEF LockTypeOK
<1>4. /\ \A u \in Threads : u # t =>
            ticket'[u] = ticket[u] /\ holds'[u] = holds[u] /\ at'[u] = at[u]
      /\ ticket'[t] = NoTicket /\ holds'[t] = 0 /\ at'[t] = "user"
  BY <1>1, <1>2, Zenon
<1>5. LockFacts'
  BY <1>1, <1>2, <1>4, Numbers, ZenonT(60) DEF SchedInv, LockFacts
<1>6. at' \in [Threads -> {"user", "lock", "disk", "wait"}]
  BY <1>1, Zenon
<1> QED
  BY <1>3, <1>4, <1>5, <1>6, ZenonT(60)

\* The end of a disk operation, and of launch.
LEMMA ResumeDiskInv ==
    ASSUME SchedInv, NEW c \in Cpus, ResumeDisk(c)
    PROVE  SchedInv'
<1>0. PICK t, p : t = thread[c] /\ p = launches[t]
  BY Zenon
<1> DEFINE sleepers == {u \in Threads : at[u] = "lock" /\ tstate[u] = "Blocked"}
<1>1. Alone(c) /\ t \in Threads /\ tstate[t] # "Unused" /\ at[t] = "disk" /\ proc[t] \in Procs
  BY <1>0, ResumedFacts, Zenon DEF ResumeDisk, Resumes
<1>2. /\ Unlock(t) /\ at' = [at EXCEPT ![t] = "user"]
      /\ woken' = [WakeUp(sleepers) EXCEPT ![t] = FALSE]
      /\ pstate' = [q \in Procs |-> IF q = p THEN "Live" ELSE pstate[q]]
      /\ tstate' = [u \in Threads |->
                       IF p # NoProc /\ proc[u] = p THEN "Runnable" ELSE tstate[u]]
      /\ launches' = [launches EXCEPT ![t] = NoProc]
      /\ mode' = [mode EXCEPT ![c] = "out"]
      /\ UNCHANGED <<home, end_requested, reap_when_empty, space, proc, cpu, running,
                     doomed, waits_for, thread, cr3, last_slot>>
  BY <1>0, Zenon DEF ResumeDisk, Go
<1>3. /\ LockTypeOK' /\ LockFacts' /\ at' \in [Threads -> {"user", "lock", "disk", "wait"}]
      /\ \A u \in Threads : u # t => at'[u] = at[u]
      /\ at'[t] = "user"
  BY <1>1, <1>2, UnlockFacts, ZenonT(60)
<1>4. /\ \A u \in Threads : u # t => launches'[u] = launches[u]
      /\ launches'[t] = NoProc
      /\ \A d \in Cpus : d # c => mode'[d] = mode[d]
      /\ mode'[c] = "out"
      /\ launches' \in [Threads -> Procs \cup {NoProc}]
      /\ mode' \in [Cpus -> {"user", "halt", "out", "choose", "resumed"}]
      /\ p \in Procs \cup {NoProc}
  BY <1>0, <1>1, <1>2, SMTT(60) DEF SchedInv, TypeOK
<1>5. /\ p \in Procs => pstate[p] = "Setup"
      /\ \A u \in Threads : p \in Procs /\ proc[u] = p =>
            tstate[u] = "Unused" /\ ~ doomed[u] /\ at[u] = "user" /\ u # t
      /\ proc[t] # p
      /\ \A u \in Threads : launches[u] = p /\ p \in Procs => u = t
  <2>1. p \in Procs => pstate[p] = "Setup"
    BY <1>0, <1>1, Zenon DEF SchedInv, SlotsAreClean
  <2>2. \A u \in Threads : p \in Procs /\ proc[u] = p => tstate[u] = "Unused"
    BY <2>1, Numbers, Zenon DEF SchedInv, ThreadFacts
  <2>3. \A u \in Threads : tstate[u] = "Unused" => ~ doomed[u] /\ at[u] = "user"
    BY Zenon DEF SchedInv, ThreadFacts
  <2>4. proc[t] # p
    BY <1>1, <2>2, Zenon
  <2>5. \A u \in Threads : launches[u] = p /\ p \in Procs => u = t
    BY <1>0, <1>1, Numbers, Zenon DEF SchedInv, ProcFacts
  <2> QED
    BY <1>1, <2>1, <2>2, <2>3, <2>4, <2>5, ZenonT(60)
<1>6. /\ \A q \in Procs : q # p => pstate'[q] = pstate[q]
      /\ p \in Procs => pstate'[p] = "Live"
      /\ pstate' \in [Procs -> {"Unused", "Setup", "Live", "Stopped", "Ended"}]
  BY <1>2, Zenon DEF SchedInv, TypeOK
<1>7. /\ \A u \in Threads : p \in Procs /\ proc[u] = p => tstate'[u] = "Runnable"
      /\ \A u \in Threads : ~ (p \in Procs /\ proc[u] = p) => tstate'[u] = tstate[u]
      /\ tstate' \in [Threads -> {"Unused", "Runnable", "Blocked"}]
  BY <1>2, <1>4, Numbers, ZenonT(60) DEF SchedInv, TypeOK
<1>8. /\ \A u \in Threads : u # t => (woken'[u] <=> woken[u] \/ u \in sleepers)
      /\ woken' \in [Threads -> BOOLEAN]
  BY <1>2, ZenonT(60) DEF SchedInv, TypeOK, WakeUp
<1>9. TypeOK'
  BY <1>2, <1>3, <1>4, <1>6, <1>7, <1>8, ZenonT(60) DEF SchedInv, TypeOK
<1>10. \A d \in Cpus : d # c => thread[d] # t
  BY <1>0, <1>1, Numbers DEF SchedInv, RunningIsCurrent
<1>11. CpuFacts'
  <2>1. \A d, e \in Cpus : mode'[d] \in InKernelModes /\ mode'[e] \in InKernelModes => d = e
    BY <1>4, <1>1 DEF Alone, InKernelModes
  <2>2. ASSUME NEW d \in Cpus
        PROVE  /\ mode'[d] = "halt" => thread[d] = Nobody
               /\ mode'[d] \in {"user", "resumed"} => thread[d] # Nobody
               /\ mode'[d] \in {"user", "halt"} /\ thread[d] = Nobody => cr3[d] = NoProc
               /\ mode'[d] \in {"user", "out"} /\ thread[d] # Nobody => at'[thread[d]] = "user"
               /\ mode'[d] # "resumed"
    <3>1. CASE d = c
      BY <3>1, <1>0, <1>3, <1>4, ZenonT(60)
    <3>2. CASE d # c
      <4>1. mode'[d] = mode[d] /\ thread[d] # t /\ mode[d] # "resumed"
        BY <3>2, <1>1, <1>4, <1>10, ZenonT(60) DEF Alone
      <4>2. thread[d] # Nobody => thread[d] \in Threads
        BY Zenon DEF SchedInv, TypeOK
      <4> QED
        BY <4>1, <4>2, <1>3, ZenonT(60) DEF SchedInv, CpuFacts
    <3> QED
      BY <3>1, <3>2, Zenon
  <2> QED
    BY <2>1, <2>2, <1>2, ZenonT(60) DEF CpuFacts
<1>12. ThreadFacts'
  <2> SUFFICES ASSUME NEW u \in Threads
               PROVE  /\ tstate'[u] # "Unused" => proc[u] # NoProc
                      /\ proc[u] # NoProc => (tstate'[u] = "Unused" <=> pstate'[proc[u]] = "Setup")
                      /\ tstate'[u] = "Unused" =>
                            ~ running[u] /\ ~ doomed[u] /\ at'[u] = "user" /\ launches'[u] = NoProc
                      /\ launches'[u] # NoProc => at'[u] \in {"lock", "disk"}
    BY <1>2 DEF ThreadFacts
  <2>1. /\ tstate[u] # "Unused" => proc[u] # NoProc
        /\ proc[u] # NoProc => (tstate[u] = "Unused" <=> pstate[proc[u]] = "Setup")
        /\ tstate[u] = "Unused" =>
              ~ running[u] /\ ~ doomed[u] /\ at[u] = "user" /\ launches[u] = NoProc
        /\ launches[u] # NoProc => at[u] \in {"lock", "disk"}
        /\ proc[u] \in Procs \cup {NoProc}
    BY Zenon DEF SchedInv, ThreadFacts, TypeOK
  <2>2. launches'[u] # NoProc => at'[u] \in {"lock", "disk"}
    BY <2>1, <1>3, <1>4, Zenon
  <2>3. CASE p \in Procs /\ proc[u] = p
    BY <2>2, <2>3, <1>6, <1>7, Numbers, ZenonT(60)
  <2>4. CASE ~ (p \in Procs /\ proc[u] = p)
    <3>1. tstate'[u] = tstate[u] /\ (proc[u] # NoProc => pstate'[proc[u]] = pstate[proc[u]])
      BY <2>1, <2>4, <1>6, <1>7, ZenonT(60)
    <3> QED
      BY <2>1, <2>2, <3>1, <1>1, <1>3, <1>4, ZenonT(60)
  <2> QED
    BY <2>3, <2>4, ZenonT(60)
<1>13. ProcFacts'
  <2>1. \A u, w \in Threads : launches'[u] = launches'[w] /\ launches'[u] # NoProc => u = w
    BY <1>4 DEF SchedInv, ProcFacts
  <2>2. \A q \in Procs : reap_when_empty[q] <=> pstate'[q] = "Ended"
    BY <1>5, <1>6, Zenon DEF SchedInv, ProcFacts
  <2> QED
    BY <2>1, <2>2, <1>2, ZenonT(60) DEF ProcFacts
<1>14. RunningIsCurrent'
  <2>1. \A d \in Cpus : thread[d] # Nobody =>
           tstate'[thread[d]] # "Unused" /\ cpu[thread[d]] = d /\ cr3[d] = proc[thread[d]]
    BY <1>7 DEF SchedInv, RunningIsCurrent, TypeOK
  <2> QED
    BY <2>1, <1>2, ZenonT(60) DEF SchedInv, RunningIsCurrent
<1>15. NoCpuInFreedSpace'
  BY <1>2, Zenon DEF SchedInv, NoCpuInFreedSpace
<1>16. SlotsAreClean'
  <2> SUFFICES ASSUME NEW q \in Procs
               PROVE  /\ pstate'[q] = "Unused" <=> ~ \E u \in Threads : proc[u] = q
                      /\ pstate'[q] # "Unused" <=> space[q]
                      /\ pstate'[q] = "Setup" <=> \E u \in Threads : launches'[u] = q
                      /\ pstate'[q] = "Ended" <=> \E u \in Threads : proc[u] = q /\ doomed[u]
                      /\ pstate'[q] = "Ended" => \A u \in Threads : proc[u] = q => doomed[u]
    BY <1>2, SlotsMeaningNext, ZenonT(60)
  <2>1. /\ pstate[q] = "Unused" <=> ~ \E u \in Threads : proc[u] = q
        /\ pstate[q] # "Unused" <=> space[q]
        /\ pstate[q] = "Setup" <=> \E u \in Threads : launches[u] = q
        /\ pstate[q] = "Ended" <=> \E u \in Threads : proc[u] = q /\ doomed[u]
        /\ pstate[q] = "Ended" => \A u \in Threads : proc[u] = q => doomed[u]
    BY SlotsMeaning, ZenonT(60) DEF SchedInv
  <2>2. CASE q = p
    <3>1. \A u \in Threads : launches'[u] # q
      BY <2>2, <1>4, <1>5, Numbers, ZenonT(60)
    <3>2. \A u \in Threads : proc[u] = q => ~ doomed[u]
      BY <2>2, <1>5, Zenon
    <3>3. pstate'[q] = "Live" /\ pstate[q] = "Setup"
      BY <2>2, <1>5, <1>6, ZenonT(60)
    <3> QED
      BY <2>1, <3>1, <3>2, <3>3, Zenon
  <2>3. CASE q # p
    <3>1. \A u \in Threads : launches'[u] = q <=> launches[u] = q
      BY <2>3, <1>0, <1>4, Numbers, ZenonT(60)
    <3>2. pstate'[q] = pstate[q]
      BY <2>3, <1>6, Zenon
    <3> QED
      BY <2>1, <3>1, <3>2, ZenonT(60)
  <2> QED
    BY <2>2, <2>3, ZenonT(60)
<1>17. NoLostWakeup'
  <2> SUFFICES ASSUME NEW u \in Threads, tstate'[u] = "Blocked"
               PROVE  /\ at'[u] = "wait" /\ waits_for[u] = NoProc => woken'[u]
                      /\ at'[u] = "lock" => woken'[u]
    BY <1>2, Zenon DEF NoLostWakeup
  <2>1. tstate[u] = "Blocked"
    BY <1>7, Zenon
  <2>2. CASE u = t
    BY <2>2, <1>3, Zenon
  <2>3. CASE u # t
    BY <2>1, <2>3, <1>3, <1>8, ZenonT(60) DEF SchedInv, NoLostWakeup
  <2> QED
    BY <2>2, <2>3, Zenon
<1> QED
  BY <1>3, <1>9, <1>11, <1>12, <1>13, <1>14, <1>15, <1>16, <1>17, Zenon DEF SchedInv
-----------------------------------------------------------------------------
(* New threads and processes.                                              *)

\* The slot that alloc_thread gives out has nothing left over.
LEMMA FreeSlotFacts ==
    ASSUME SchedInv, FreeSlots # {}
    PROVE  /\ Least(FreeSlots) \in Threads
           /\ tstate[Least(FreeSlots)] = "Unused" /\ proc[Least(FreeSlots)] = NoProc
           /\ ~ running[Least(FreeSlots)] /\ ~ doomed[Least(FreeSlots)]
           /\ at[Least(FreeSlots)] = "user" /\ launches[Least(FreeSlots)] = NoProc
<1>1. Least(FreeSlots) \in FreeSlots
  BY LeastIsIn, Numbers, Zenon DEF FreeSlots
<1> QED
  BY <1>1, Zenon DEF FreeSlots, SchedInv, ThreadFacts

\* sf_thread_create.
LEMMA ThreadCreateInv ==
    ASSUME SchedInv, NEW c \in Cpus, ThreadCreate(c)
    PROVE  SchedInv'
<1>0. PICK s, p, h : s = Least(FreeSlots) /\ p = proc[thread[c]] /\ h = LeastLoadedCpu
  BY Zenon
<1>1. /\ Alone(c) /\ thread[c] \in Threads /\ at[thread[c]] = "user"
      /\ p \in Procs /\ Alive(p) /\ ~ doomed[thread[c]] /\ h \in Cpus
  BY <1>0, EntersFacts, LeastLoadedIsCpu, Zenon DEF ThreadCreate
<1>2. /\ s \in Threads /\ tstate[s] = "Unused" /\ proc[s] = NoProc /\ ~ running[s]
      /\ ~ doomed[s] /\ at[s] = "user" /\ launches[s] = NoProc
  BY <1>0, FreeSlotFacts, Zenon DEF ThreadCreate
<1>3. /\ proc' = [proc EXCEPT ![s] = p] /\ cpu' = [cpu EXCEPT ![s] = h]
      /\ tstate' = [tstate EXCEPT ![s] = "Runnable"]
      /\ mode' = [mode EXCEPT ![c] = "out"]
      /\ UNCHANGED <<pstate, home, end_requested, reap_when_empty, space>>
      /\ UNCHANGED <<running, doomed, woken, at, waits_for, launches, thread, cr3, last_slot>>
      /\ UNCHANGED <<next, serving, owner, depth, ticket, holds>>
  BY <1>0, Zenon DEF ThreadCreate, AllocThread, Go, procVars, lockVars
<1>4. /\ \A u \in Threads : u # s =>
            proc'[u] = proc[u] /\ cpu'[u] = cpu[u] /\ tstate'[u] = tstate[u]
      /\ proc'[s] = p /\ cpu'[s] = h /\ tstate'[s] = "Runnable"
      /\ \A d \in Cpus : d # c => mode'[d] = mode[d]
      /\ mode'[c] = "out"
  BY <1>2, <1>3, ZenonT(60) DEF SchedInv, TypeOK
<1>5. TypeOK'
  <2>1. LockTypeOK'
    BY <1>3, Zenon DEF SchedInv, TypeOK, LockTypeOK
  <2> QED
    BY <2>1, <1>1, <1>3, ZenonT(60) DEF SchedInv, TypeOK
<1>6. LockFacts' /\ ProcFacts' /\ NoCpuInFreedSpace'
  BY <1>3, ZenonT(60) DEF SchedInv, LockFacts, ProcFacts, NoCpuInFreedSpace
<1>7. CpuFacts'
  <2>1. \A d, e \in Cpus : mode'[d] \in InKernelModes /\ mode'[e] \in InKernelModes => d = e
    BY <1>1, <1>4 DEF Alone, InKernelModes
  <2>2. \A d \in Cpus : mode'[d] # "resumed"
    BY <1>1, <1>4, Zenon DEF Alone
  <2> QED
    BY <2>1, <2>2, <1>1, <1>3, <1>4, ZenonT(60) DEF SchedInv, CpuFacts
<1>8. ThreadFacts'
  <2> SUFFICES ASSUME NEW u \in Threads
               PROVE  /\ tstate'[u] # "Unused" => proc'[u] # NoProc
                      /\ proc'[u] # NoProc => (tstate'[u] = "Unused" <=> pstate[proc'[u]] = "Setup")
                      /\ tstate'[u] = "Unused" =>
                            ~ running[u] /\ ~ doomed[u] /\ at[u] = "user" /\ launches[u] = NoProc
                      /\ launches[u] # NoProc => at[u] \in {"lock", "disk"}
    BY <1>3, Zenon DEF ThreadFacts
  <2>1. CASE u = s
    BY <2>1, <1>1, <1>2, <1>4, Numbers, ZenonT(60) DEF Alive
  <2>2. CASE u # s
    <3>1. proc'[u] = proc[u] /\ tstate'[u] = tstate[u]
      BY <2>2, <1>4, Zenon
    <3> QED
      BY <3>1, ZenonT(60) DEF SchedInv, ThreadFacts
  <2> QED
    BY <2>1, <2>2, Zenon
<1>9. RunningIsCurrent'
  <2>1. \A d \in Cpus : thread[d] # s
    BY <1>2, Numbers, ZenonT(60) DEF SchedInv, RunningIsCurrent
  <2>2. \A d \in Cpus : thread[d] # Nobody =>
           tstate'[thread[d]] # "Unused" /\ cpu'[thread[d]] = d /\ cr3[d] = proc'[thread[d]]
    BY <2>1, <1>4 DEF SchedInv, RunningIsCurrent, TypeOK
  <2> QED
    BY <2>2, <1>3 DEF SchedInv, RunningIsCurrent
<1>10. SlotsAreClean'
  <2> SUFFICES ASSUME NEW q \in Procs
               PROVE  /\ pstate[q] = "Unused" <=> ~ \E u \in Threads : proc'[u] = q
                      /\ pstate[q] # "Unused" <=> space[q]
                      /\ pstate[q] = "Setup" <=> \E u \in Threads : launches[u] = q
                      /\ pstate[q] = "Ended" <=> \E u \in Threads : proc'[u] = q /\ doomed[u]
                      /\ pstate[q] = "Ended" => \A u \in Threads : proc'[u] = q => doomed[u]
    BY <1>3, Zenon DEF SlotsAreClean, ThreadsOf
  <2>1. /\ pstate[q] = "Unused" <=> ~ \E u \in Threads : proc[u] = q
        /\ pstate[q] # "Unused" <=> space[q]
        /\ pstate[q] = "Setup" <=> \E u \in Threads : launches[u] = q
        /\ pstate[q] = "Ended" <=> \E u \in Threads : proc[u] = q /\ doomed[u]
        /\ pstate[q] = "Ended" => \A u \in Threads : proc[u] = q => doomed[u]
    BY SlotsMeaning, ZenonT(60) DEF SchedInv
  <2>2. \A u \in Threads : proc'[u] = q <=> proc[u] = q \/ (u = s /\ q = p)
    BY <1>2, <1>4, Numbers
  <2>3. pstate[p] \notin {"Unused", "Ended"}
    BY <1>1, Zenon DEF Alive
  <2> QED
    BY <2>1, <2>2, <2>3, <1>2, ZenonT(60)
<1>11. NoLostWakeup'
  <2>1. \A u \in Threads : MyTurn(u)' <=> MyTurn(u)
    BY <1>3, Zenon DEF MyTurn
  <2> QED
    BY <2>1, <1>3, <1>4, ZenonT(60) DEF SchedInv, NoLostWakeup
<1> QED
  BY <1>5, <1>6, <1>7, <1>8, <1>9, <1>10, <1>11, ZenonT(60) DEF SchedInv

\* sf_process_start, as far as launch's disk operation.
LEMMA ProcessStartInv ==
    ASSUME SchedInv, NEW c \in Cpus, ProcessStart(c)
    PROVE  SchedInv'
<1>0. PICK t, s, p, h : /\ t = thread[c] /\ s = Least(FreeSlots) /\ h = LeastLoadedCpu
                        /\ p = Least({q \in Procs : pstate[q] = "Unused"})
  BY Zenon
<1>1. /\ Alone(c) /\ t \in Threads /\ at[t] = "user" /\ launches[t] = NoProc
      /\ tstate[t] # "Unused" /\ proc[t] \in Procs /\ h \in Cpus
  BY <1>0, EntersFacts, LeastLoadedIsCpu, Zenon DEF ProcessStart
<1>2. /\ s \in Threads /\ tstate[s] = "Unused" /\ proc[s] = NoProc /\ ~ running[s]
      /\ ~ doomed[s] /\ at[s] = "user" /\ launches[s] = NoProc /\ s # t
  BY <1>0, <1>1, FreeSlotFacts, Zenon DEF ProcessStart
<1>3. p \in Procs /\ pstate[p] = "Unused"
  <2> DEFINE S == {q \in Procs : pstate[q] = "Unused"}
  <2>1. S # {} /\ S \in SUBSET Nat
    BY Numbers, Zenon DEF ProcessStart
  <2>2. Least(S) \in S
    <3> HIDE DEF S
    <3> QED
      BY <2>1, LeastIsIn, Zenon
  <2> QED
    BY <2>2, <1>0, Zenon
<1>4. /\ proc' = [proc EXCEPT ![s] = p] /\ cpu' = [cpu EXCEPT ![s] = h]
      /\ pstate' = [pstate EXCEPT ![p] = "Setup"]
      /\ home' = [home EXCEPT ![p] = h]
      /\ space' = [space EXCEPT ![p] = TRUE]
      /\ launches' = [launches EXCEPT ![t] = p]
      /\ mode' = [mode EXCEPT ![c] = "choose"]
      /\ UNCHANGED <<end_requested, reap_when_empty, running, doomed, woken, waits_for,
                     thread, cr3, last_slot>>
      /\ DiskOperation(t)
  BY <1>0, Zenon DEF ProcessStart, AllocThread, Go
<1>5. /\ LockTypeOK' /\ LockFacts'
      /\ tstate' \in [Threads -> {"Unused", "Runnable", "Blocked"}]
      /\ at' \in [Threads -> {"user", "lock", "disk", "wait"}]
      /\ \A u \in Threads : u # t =>
            tstate'[u] = tstate[u] /\ at'[u] = at[u] /\ (MyTurn(u)' => MyTurn(u))
      /\ tstate'[t] = "Blocked" /\ at'[t] \in {"lock", "disk"}
      /\ at'[t] = "lock" => ~ MyTurn(t)'
  BY <1>1, <1>4, DiskOperationFacts, ZenonT(60)
<1>6. /\ \A u \in Threads : u # s => proc'[u] = proc[u] /\ cpu'[u] = cpu[u]
      /\ proc'[s] = p
      /\ \A u \in Threads : u # t => launches'[u] = launches[u]
      /\ launches'[t] = p
      /\ \A q \in Procs : q # p => pstate'[q] = pstate[q] /\ (space'[q] <=> space[q])
      /\ pstate'[p] = "Setup" /\ space'[p]
      /\ \A d \in Cpus : d # c => mode'[d] = mode[d]
      /\ mode'[c] = "choose"
  BY <1>1, <1>2, <1>3, <1>4, ZenonT(60) DEF SchedInv, TypeOK
<1>7. TypeOK'
  <2>1. /\ proc' \in [Threads -> Procs \cup {NoProc}] /\ cpu' \in [Threads -> Cpus]
        /\ launches' \in [Threads -> Procs \cup {NoProc}]
        /\ mode' \in [Cpus -> {"user", "halt", "out", "choose", "resumed"}]
        /\ pstate' \in [Procs -> {"Unused", "Setup", "Live", "Stopped", "Ended"}]
        /\ home' \in [Procs -> Cpus] /\ space' \in [Procs -> BOOLEAN]
    BY <1>1, <1>3, <1>4, ZenonT(60) DEF SchedInv, TypeOK
  <2> QED
    BY <2>1, <1>4, <1>5, ZenonT(60) DEF SchedInv, TypeOK
<1>8. \A u \in Threads : proc[u] # p /\ launches[u] # p
  BY <1>3, ZenonT(60) DEF SchedInv, SlotsAreClean, ThreadsOf
<1>9. \A d \in Cpus : thread[d] # s /\ (d # c => thread[d] # t)
  BY <1>0, <1>1, <1>2, Numbers, SMTT(60) DEF SchedInv, RunningIsCurrent
<1>10. CpuFacts'
  <2>1. \A d, e \in Cpus : mode'[d] \in InKernelModes /\ mode'[e] \in InKernelModes => d = e
    BY <1>1, <1>6 DEF Alone, InKernelModes
  <2>2. ASSUME NEW d \in Cpus
        PROVE  /\ mode'[d] = "halt" => thread[d] = Nobody
               /\ mode'[d] \in {"user", "resumed"} => thread[d] # Nobody
               /\ mode'[d] \in {"user", "halt"} /\ thread[d] = Nobody => cr3[d] = NoProc
               /\ mode'[d] \in {"user", "out"} /\ thread[d] # Nobody => at'[thread[d]] = "user"
               /\ mode'[d] # "resumed"
    <3>1. CASE d = c
      BY <3>1, <1>6, Zenon
    <3>2. CASE d # c
      <4>1. mode'[d] = mode[d] /\ thread[d] # t /\ mode[d] # "resumed"
        BY <3>2, <1>1, <1>6, <1>9, ZenonT(60) DEF Alone
      <4>2. thread[d] # Nobody => thread[d] \in Threads
        BY Zenon DEF SchedInv, TypeOK
      <4> QED
        BY <4>1, <4>2, <1>5, ZenonT(60) DEF SchedInv, CpuFacts
    <3> QED
      BY <3>1, <3>2, Zenon
  <2> QED
    BY <2>1, <2>2, <1>4, ZenonT(60) DEF CpuFacts
<1>11. ThreadFacts'
  <2> SUFFICES ASSUME NEW u \in Threads
               PROVE  /\ tstate'[u] # "Unused" => proc'[u] # NoProc
                      /\ proc'[u] # NoProc => (tstate'[u] = "Unused" <=> pstate'[proc'[u]] = "Setup")
                      /\ tstate'[u] = "Unused" =>
                            ~ running[u] /\ ~ doomed[u] /\ at'[u] = "user" /\ launches'[u] = NoProc
                      /\ launches'[u] # NoProc => at'[u] \in {"lock", "disk"}
    BY <1>4, ZenonT(60) DEF ThreadFacts
  <2>1. /\ tstate[u] # "Unused" => proc[u] # NoProc
        /\ proc[u] # NoProc => (tstate[u] = "Unused" <=> pstate[proc[u]] = "Setup")
        /\ tstate[u] = "Unused" =>
              ~ running[u] /\ ~ doomed[u] /\ at[u] = "user" /\ launches[u] = NoProc
        /\ launches[u] # NoProc => at[u] \in {"lock", "disk"}
        /\ proc[u] \in Procs \cup {NoProc}
    BY Zenon DEF SchedInv, ThreadFacts, TypeOK
  <2>2. CASE u = s
    BY <2>2, <1>2, <1>3, <1>5, <1>6, Numbers, ZenonT(60)
  <2>3. CASE u # s
    <3>1. proc'[u] = proc[u] /\ (proc[u] # NoProc => pstate'[proc[u]] = pstate[proc[u]])
      BY <2>1, <2>3, <1>6, <1>8, ZenonT(60)
    <3>2. CASE u = t
      BY <2>1, <3>1, <3>2, <1>1, <1>5, ZenonT(60)
    <3>3. CASE u # t
      BY <2>1, <3>1, <3>3, <1>5, <1>6, SMTT(60)
    <3> QED
      BY <3>2, <3>3, Zenon
  <2> QED
    BY <2>2, <2>3, Zenon
<1>12. ProcFacts'
  <2>1. \A u, w \in Threads : launches'[u] = launches'[w] /\ launches'[u] # NoProc => u = w
    BY <1>6, <1>8 DEF SchedInv, ProcFacts
  <2>2. \A q \in Procs : reap_when_empty[q] <=> pstate'[q] = "Ended"
    BY <1>3, <1>6, ZenonT(60) DEF SchedInv, ProcFacts
  <2> QED
    BY <2>1, <2>2, <1>4, ZenonT(60) DEF ProcFacts
<1>13. RunningIsCurrent'
  <2>1. \A d \in Cpus : thread[d] # Nobody =>
           tstate'[thread[d]] # "Unused" /\ cpu'[thread[d]] = d /\ cr3[d] = proc'[thread[d]]
    <3> SUFFICES ASSUME NEW d \in Cpus, thread[d] # Nobody
                 PROVE  tstate'[thread[d]] # "Unused" /\ cpu'[thread[d]] = d /\ cr3[d] = proc'[thread[d]]
      BY Zenon
    <3>1. thread[d] \in Threads /\ thread[d] # s
      BY <1>9, Zenon DEF SchedInv, TypeOK
    <3>2. tstate[thread[d]] # "Unused" /\ cpu[thread[d]] = d /\ cr3[d] = proc[thread[d]]
      BY ZenonT(60) DEF SchedInv, RunningIsCurrent
    <3> QED
      BY <3>1, <3>2, <1>5, <1>6, ZenonT(60)
  <2> QED
    BY <2>1, <1>4 DEF SchedInv, RunningIsCurrent
<1>14. NoCpuInFreedSpace'
  BY <1>4, <1>6, SMTT(60) DEF SchedInv, NoCpuInFreedSpace, TypeOK
<1>15. SlotsAreClean'
  <2> SUFFICES ASSUME NEW q \in Procs
               PROVE  /\ pstate'[q] = "Unused" <=> ~ \E u \in Threads : proc'[u] = q
                      /\ pstate'[q] # "Unused" <=> space'[q]
                      /\ pstate'[q] = "Setup" <=> \E u \in Threads : launches'[u] = q
                      /\ pstate'[q] = "Ended" <=> \E u \in Threads : proc'[u] = q /\ doomed[u]
                      /\ pstate'[q] = "Ended" => \A u \in Threads : proc'[u] = q => doomed[u]
    BY <1>4, ZenonT(60) DEF SlotsAreClean, ThreadsOf
  <2>1. /\ pstate[q] = "Unused" <=> ~ \E u \in Threads : proc[u] = q
        /\ pstate[q] # "Unused" <=> space[q]
        /\ pstate[q] = "Setup" <=> \E u \in Threads : launches[u] = q
        /\ pstate[q] = "Ended" <=> \E u \in Threads : proc[u] = q /\ doomed[u]
        /\ pstate[q] = "Ended" => \A u \in Threads : proc[u] = q => doomed[u]
    BY SlotsMeaning, ZenonT(60) DEF SchedInv
  <2>2. \A u \in Threads : proc'[u] = q <=> proc[u] = q \/ (u = s /\ q = p)
    <3> SUFFICES ASSUME NEW u \in Threads PROVE proc'[u] = q <=> proc[u] = q \/ (u = s /\ q = p)
      OBVIOUS
    <3>1. q # NoProc
      BY Numbers, Zenon
    <3>2. CASE u = s
      BY <3>1, <3>2, <1>2, <1>6, Zenon
    <3>3. CASE u # s
      BY <3>3, <1>6, Zenon
    <3> QED
      BY <3>2, <3>3, Zenon
  <2>3. \A u \in Threads : launches'[u] = q <=> launches[u] = q \/ (u = t /\ q = p)
    <3>1. q # NoProc
      BY Numbers, Zenon
    <3> QED
      BY <3>1, <1>1, <1>6, Zenon
  <2>4. CASE q = p
    BY <2>2, <2>3, <2>4, <1>1, <1>2, <1>6, <1>8, ZenonT(60)
  <2>5. CASE q # p
    BY <2>1, <2>2, <2>3, <2>5, <1>6, ZenonT(60)
  <2> QED
    BY <2>4, <2>5, Zenon
<1>16. NoLostWakeup'
  <2> SUFFICES ASSUME NEW u \in Threads, tstate'[u] = "Blocked"
               PROVE  /\ at'[u] = "wait" /\ waits_for[u] = NoProc => woken[u]
                      /\ at'[u] = "lock" /\ MyTurn(u)' => woken[u]
    BY <1>4, Zenon DEF NoLostWakeup
  <2>1. CASE u = t
    BY <2>1, <1>5, Zenon
  <2>2. CASE u # t
    BY <2>2, <1>5, Zenon DEF SchedInv, NoLostWakeup
  <2> QED
    BY <2>1, <2>2, Zenon
<1> QED
  BY <1>5, <1>7, <1>10, <1>11, <1>12, <1>13, <1>14, <1>15, <1>16, ZenonT(60) DEF SchedInv
-----------------------------------------------------------------------------
(* The theorems.                                                           *)

\* Every step keeps the invariant.
LEMMA StepInv == SchedInv /\ [Next]_vars => SchedInv'
<1> SUFFICES ASSUME SchedInv, [Next]_vars PROVE SchedInv'
  BY Zenon
<1>1. CASE UNCHANGED vars
  <2> USE <1>1 DEF vars, procVars, threadVars, cpuVars, lockVars
  <2>1. TypeOK'
    BY ZenonT(60) DEF SchedInv, TypeOK, LockTypeOK
  <2>2. LockFacts' /\ CpuFacts' /\ ThreadFacts' /\ ProcFacts'
    <3>1. LockFacts'
      BY ZenonT(60) DEF SchedInv, LockFacts
    <3>2. CpuFacts'
      BY ZenonT(60) DEF SchedInv, CpuFacts, MayRun
    <3>3. ThreadFacts'
      BY ZenonT(60) DEF SchedInv, ThreadFacts
    <3>4. ProcFacts'
      BY ZenonT(60) DEF SchedInv, ProcFacts
    <3> QED
      BY <3>1, <3>2, <3>3, <3>4, Zenon
  <2>3. NoCpuInFreedSpace' /\ RunningIsCurrent' /\ SlotsAreClean' /\ NoLostWakeup'
    <3>1. NoCpuInFreedSpace'
      BY ZenonT(60) DEF SchedInv, NoCpuInFreedSpace
    <3>2. RunningIsCurrent'
      BY ZenonT(60) DEF SchedInv, RunningIsCurrent
    <3>3. SlotsAreClean'
      BY SlotsStay, Zenon DEF SchedInv
    <3>4. NoLostWakeup'
      BY ZenonT(60) DEF SchedInv, NoLostWakeup, MyTurn
    <3> QED
      BY <3>1, <3>2, <3>3, <3>4, Zenon
  <2> QED
    BY <2>1, <2>2, <2>3, ZenonT(60) DEF SchedInv
<1>2. ASSUME NEW c \in Cpus, InKernel(c) PROVE SchedInv'
  BY <1>2, ServiceRequestInv, SwitchInv, GoIdleInv, ReturnToUserInv, ResumeUserInv,
     ResumeLockInv, ResumeDiskInv, ResumeWaitInv, ZenonT(60) DEF InKernel
<1>3. ASSUME NEW c \in Cpus,
             \/ DoomedEntry(c) \/ Exit(c) \/ ThreadExit(c) \/ ThreadCreate(c) \/ ProcessStart(c)
             \/ FileCall(c) \/ TickSliceOver(c) \/ TickGoesOn(c) \/ WakeIdle(c)
      PROVE  SchedInv'
  BY <1>3, DoomedEntryInv, ExitInv, ThreadExitInv, ThreadCreateInv, ProcessStartInv,
     FileCallInv, TickInv, WakeIdleInv, ZenonT(60)
<1>4. ASSUME NEW c \in Cpus, NEW p \in Procs, ProcessWait(c, p) \/ RequestEnd(c, p) \/ PauseOrResume(c, p)
      PROVE  SchedInv'
  BY <1>4, ProcessWaitInv, RequestEndInv, PauseOrResumeInv, Zenon
<1>5. ASSUME NEW t \in Threads, TimerWake(t) PROVE SchedInv'
  BY <1>5, TimerWakeInv, Zenon
<1> QED
  BY <1>1, <1>2, <1>3, <1>4, <1>5, SchedulerAssumption, ZenonT(60) DEF Next

\* The invariant holds throughout.
THEOREM SchedulerInvariant == Spec => []SchedInv
<1>1. Init => SchedInv
  BY InitInv, Zenon
<1>2. SchedInv /\ [Next]_vars => SchedInv'
  BY StepInv, Zenon
<1> QED
  BY <1>1, <1>2, PTL DEF Spec

\* No CPU is ever in an address space that release_address_space destroyed,
\* however many CPUs run threads of the process and whoever ends it.
THEOREM AddressSpacesOutliveTheirUse == Spec => []NoCpuInFreedSpace
<1>1. SchedInv => NoCpuInFreedSpace
  BY Zenon DEF SchedInv
<1> QED
  BY <1>1, SchedulerInvariant, PTL

\* Thread.running, Cpu.thread and Cpu.cr3 always tell the same story.
THEOREM OneCpuPerThread == Spec => []RunningIsCurrent
<1>1. SchedInv => RunningIsCurrent
  BY Zenon DEF SchedInv
<1> QED
  BY <1>1, SchedulerInvariant, PTL

\* No thread is freed while it holds or awaits the disks' lock.
THEOREM NoTicketWithoutThread == Spec => []TicketHoldersExist
<1>1. SchedInv => TicketHoldersExist
  BY Zenon DEF SchedInv, LockFacts, ThreadFacts, TicketHoldersExist
<1> QED
  BY <1>1, SchedulerInvariant, PTL

\* Process slots are freed with the last thread, and with nothing left over.
THEOREM NoSlotIsLost == Spec => []SlotsAreClean
<1>1. SchedInv => SlotsAreClean
  BY Zenon DEF SchedInv
<1> QED
  BY <1>1, SchedulerInvariant, PTL

\* A sleeper whose reason to sleep is over has been woken.
THEOREM NoSleeperForgotten == Spec => []NoLostWakeup
<1>1. SchedInv => NoLostWakeup
  BY Zenon DEF SchedInv
<1> QED
  BY <1>1, SchedulerInvariant, PTL

\* Only end_if_doomed lets a CPU with a doomed thread out of ring 3, and it
\* frees the thread.
LEMMA DoomedStep ==
    ASSUME SchedInv, [Next]_vars, NEW c \in Cpus, mode[c] = "user", doomed[thread[c]],
           mode'[c] # "user"
    PROVE  tstate'[thread[c]] = "Unused"
<1>1. mode # mode' /\ mode \in [Cpus -> {"user", "halt", "out", "choose", "resumed"}]
  BY Zenon DEF SchedInv, TypeOK
<1>2. Next
  BY <1>1, Zenon DEF vars, cpuVars
<1>3. PICK d \in Cpus : \/ InKernel(d)
                        \/ DoomedEntry(d) \/ Exit(d) \/ ThreadExit(d) \/ ThreadCreate(d)
                        \/ ProcessStart(d) \/ FileCall(d) \/ TickSliceOver(d) \/ TickGoesOn(d)
                        \/ WakeIdle(d) \/ \E p \in Procs : ProcessWait(d, p)
  BY <1>1, <1>2, ZenonT(60) DEF Next, RequestEnd, PauseOrResume, TimerWake, cpuVars
<1>4. PICK m : mode' = [mode EXCEPT ![d] = m]
  <2>1. CASE InKernel(d)
    BY <1>1, <2>1, ZenonT(60) DEF InKernel, ServiceRequest, Switch, GoIdle, ReturnToUser, ResumeUser, ResumeLock,
       ResumeDisk, ResumeWait, Go
  <2>2. CASE DoomedEntry(d)
    BY <2>2, Zenon DEF DoomedEntry, EndDoomed, Go
  <2>3. CASE Exit(d) \/ ThreadExit(d) \/ ThreadCreate(d) \/ ProcessStart(d)
    BY <2>3, Zenon DEF Exit, ThreadExit, ThreadCreate, ProcessStart, Go
  <2>4. CASE \/ FileCall(d) \/ TickSliceOver(d) \/ TickGoesOn(d) \/ WakeIdle(d)
             \/ \E p \in Procs : ProcessWait(d, p)
    BY <2>4, Zenon DEF FileCall, TickSliceOver, TickGoesOn, Tick, WakeIdle, ProcessWait, Go
  <2> QED
    BY <1>3, <2>1, <2>2, <2>3, <2>4, ZenonT(60)
<1>5. d = c
  BY <1>1, <1>4, Zenon
<1>6. ~ InKernel(c)
  BY Zenon DEF InKernel, ServiceRequest, Switch, GoIdle, ReturnToUser, ResumeUser, ResumeLock,
     ResumeDisk, ResumeWait, Resumes
<1>7. ~ Enters(c) /\ ~ WakeIdle(c)
  BY Zenon DEF Enters, WakeIdle
<1>8. DoomedEntry(c)
  BY <1>3, <1>5, <1>6, <1>7, ZenonT(60) DEF Exit, ThreadExit, ThreadCreate, ProcessStart, FileCall, TickSliceOver,
     TickGoesOn, Tick, ProcessWait
<1>9. thread[c] \in Threads
  BY Zenon DEF SchedInv, CpuFacts, TypeOK
<1> QED
  BY <1>8, <1>9, ZenonT(60) DEF DoomedEntry, EndDoomed, EndThreads

\* A thread of a process that ended elsewhere goes no further.
THEOREM DoomedThreadsEnd == Spec => DoomedGoNoFurther
<1>1. SchedInv /\ [Next]_vars =>
         \A c \in Cpus : mode[c] = "user" /\ doomed[thread[c]] /\ mode'[c] # "user" =>
            tstate'[thread[c]] = "Unused"
  BY DoomedStep, Zenon
<1> QED
  BY <1>1, SchedulerInvariant, PTL DEF Spec, DoomedGoNoFurther

\* The two ways back to ring 3 both look whether the process is paused.
LEMMA PausedStep ==
    ASSUME SchedInv, [Next]_vars, NEW c \in Cpus, mode[c] # "user", mode'[c] = "user"
    PROVE  pstate[proc[thread[c]]] = "Live"
<1>1. mode # mode' /\ mode \in [Cpus -> {"user", "halt", "out", "choose", "resumed"}]
  BY Zenon DEF SchedInv, TypeOK
<1>2. Next
  BY <1>1, Zenon DEF vars, cpuVars
<1>3. PICK d \in Cpus : \/ InKernel(d)
                        \/ DoomedEntry(d) \/ Exit(d) \/ ThreadExit(d) \/ ThreadCreate(d)
                        \/ ProcessStart(d) \/ FileCall(d) \/ TickSliceOver(d) \/ TickGoesOn(d)
                        \/ WakeIdle(d) \/ \E p \in Procs : ProcessWait(d, p)
  BY <1>1, <1>2, Zenon DEF Next, RequestEnd, PauseOrResume, TimerWake, cpuVars
<1>4. CASE ReturnToUser(d)
  BY <1>1, <1>4, ZenonT(60) DEF ReturnToUser, Go
<1>5. CASE ResumeUser(d)
  <2>1. d = c /\ mode[c] = "resumed" /\ at[thread[c]] = "user"
    BY <1>1, <1>5, Zenon DEF ResumeUser, Resumes, Go
  <2>2. thread[c] \in Threads /\ MayRun(thread[c])
    BY <2>1, ResumedFacts, Zenon
  <2>3. holds[thread[c]] = 0
    BY <2>1, <2>2, ZenonT(60) DEF SchedInv, LockFacts
  <2> QED
    BY <2>2, <2>3 DEF MayRun
<1>6. ASSUME NEW m \in {"choose", "out", "halt", "resumed"}, Go(d, m) PROVE FALSE
  BY <1>1, <1>6, Zenon DEF Go
<1>7. ~ (InKernel(d) /\ ~ ReturnToUser(d) /\ ~ ResumeUser(d))
  BY <1>1, <1>6, ZenonT(60) DEF InKernel, ServiceRequest, Switch, GoIdle, ResumeLock, ResumeDisk, ResumeWait
<1>8. ~ (DoomedEntry(d) \/ Exit(d) \/ ThreadExit(d) \/ ThreadCreate(d) \/ ProcessStart(d))
  BY <1>6, ZenonT(60) DEF DoomedEntry, EndDoomed, Exit, ThreadExit, ThreadCreate, ProcessStart
<1>9. ~ (\/ FileCall(d) \/ TickSliceOver(d) \/ TickGoesOn(d) \/ WakeIdle(d)
         \/ \E p \in Procs : ProcessWait(d, p))
  BY <1>6, Zenon DEF FileCall, TickSliceOver, TickGoesOn, Tick, WakeIdle, ProcessWait
<1> QED
  BY <1>3, <1>4, <1>5, <1>7, <1>8, <1>9, ZenonT(60)

\* No thread of a paused program gets back to ring 3.
THEOREM PausedProgramsStayOut == Spec => PausedStaysOut
<1>1. SchedInv /\ [Next]_vars =>
         \A c \in Cpus : mode[c] # "user" /\ mode'[c] = "user" => pstate[proc[thread[c]]] = "Live"
  BY PausedStep, Zenon
<1> QED
  BY <1>1, SchedulerInvariant, PTL DEF Spec, PausedStaysOut
=============================================================================
