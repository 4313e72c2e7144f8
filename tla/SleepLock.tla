----------------------------- MODULE SleepLock ------------------------------
(***************************************************************************)
(* Threads that do their disk operations under the disks' lock             *)
(* (block::guard): asking, sleeping for the turn, nesting, passing it on,  *)
(* being asked to end meanwhile, and the closing of a program's files from *)
(* inside the scheduler, where nothing may sleep.  The kernel is not       *)
(* preempted and one CPU at a time runs it, so what a thread does between  *)
(* two sleeps is one step.                                                 *)
(***************************************************************************)
EXTENDS TicketLock

CONSTANT
    MaxDepth    \* bound: how deep guards nest (2 in fileio.cpp's append)

ASSUME DepthAssumption == MaxDepth \in Nat

VARIABLES
    asleep,     \* threads in wait_event on the lock's queue
    woken,      \* Thread.woken: wake_up took the thread off the queue
    passing,    \* threads inside pass()
    ending,     \* threads whose process has end_requested
    mixed       \* threads with another operation run in the middle of theirs

vars == <<lockVars, asleep, woken, passing, ending, mixed>>

TypeOK ==
    /\ LockTypeOK
    /\ asleep \subseteq Threads /\ woken \subseteq asleep
    /\ passing \subseteq asleep /\ ending \subseteq Threads
    /\ mixed \subseteq Threads

Init ==
    /\ LockInit
    /\ asleep = {} /\ woken = {} /\ passing = {} /\ ending = {} /\ mixed = {}

\* A slip: only the sleeper at the head of the queue is woken.
WakeOne(sleepers) ==
    IF sleepers \ woken = {} THEN woken
    ELSE woken \cup {CHOOSE t \in sleepers \ woken : TRUE}

\* A slip: unlock wakes nobody.
WakeNone(sleepers) == woken

\* wake_up(&l->wq)
WakeUp(sleepers) == woken \cup sleepers

\* The thread is not inside lock() or pass().
Idle(t) == ticket[t] = NoTicket

Lock(t) ==
    /\ Idle(t)
    /\ Ask(t)
    /\ asleep' = IF owner' = t THEN asleep ELSE asleep \cup {t}
    /\ UNCHANGED <<woken, passing, ending, mixed>>

LockAgain(t) ==
    /\ depth < MaxDepth
    /\ Nest(t)
    /\ UNCHANGED <<asleep, woken, passing, ending, mixed>>

\* The scheduler runs a sleeper (wake_ready): it looks whether it is its turn,
\* and sleeps again if not - whether it was woken or is to be ended.
Resume(t) ==
    /\ t \in woken \/ (t \in asleep /\ t \in ending)
    /\ woken' = woken \ {t}
    /\ IF MyTurn(t)
       THEN /\ Get(t, t \in passing)
            /\ asleep' = asleep \ {t}
            /\ passing' = passing \ {t}
       ELSE UNCHANGED <<lockVars, asleep, passing>>
    /\ UNCHANGED <<ending, mixed>>

Release(t) ==
    /\ Unlock(t)
    /\ woken' = IF depth = 1 THEN WakeUp(asleep) ELSE woken
    /\ mixed' = IF depth = 1 THEN mixed \ {t} ELSE mixed
    /\ UNCHANGED <<asleep, passing, ending>>

PassTurn(t) ==
    /\ Pass(t)
    /\ woken' = WakeUp(asleep)
    /\ asleep' = asleep \cup {t}
    /\ passing' = passing \cup {t}
    /\ mixed' = mixed \ {t}
    /\ UNCHANGED ending

\* Ctrl+Alt+C or EndProcess.
RequestEnd(t) ==
    /\ t \notin ending
    /\ ending' = ending \cup {t}
    /\ UNCHANGED <<lockVars, asleep, woken, passing, mixed>>

\* service_requests() ends the thread once it holds nothing; its slot goes to
\* a new thread.
EndThread(t) ==
    /\ t \in ending /\ holds[t] = 0
    /\ ending' = ending \ {t}
    /\ UNCHANGED <<lockVars, asleep, woken, passing, mixed>>

\* terminate() closes a program's files inside the scheduler (no_sleep): the
\* last close of one opened for writing is an fsync of its file system.  `me`
\* is the thread that called the scheduler, or Nobody for the idle task.
Teardown(me) ==
    /\ TakeAndGive(me)
    /\ mixed' = IF owner = Nobody THEN mixed ELSE mixed \cup {owner}
    /\ UNCHANGED <<asleep, woken, passing, ending>>

Next ==
    \/ \E t \in Threads :
          \/ Lock(t) \/ LockAgain(t) \/ Resume(t) \/ Release(t) \/ PassTurn(t)
          \/ RequestEnd(t) \/ EndThread(t)
    \/ \E me \in Threads \cup {Nobody} : Teardown(me)

Spec == Init /\ [][Next]_vars

\* The scheduler runs a ready thread in the end (round robin), and a disk
\* operation ends: its timeouts bound every transfer.
FairSpec ==
    /\ Spec
    /\ \A t \in Threads :
          WF_vars(Resume(t)) /\ WF_vars(Release(t)) /\ SF_vars(depth = 1 /\ Release(t))
-----------------------------------------------------------------------------
(* Properties.                                                             *)

\* Thread.holds is what keeps end_threads from freeing a thread that has or
\* awaits the lock: it counts exactly the nested locks, one for a wait, and
\* one more inside pass().
HoldsCounted ==
    \A t \in Threads :
        holds[t] = IF owner = t THEN depth
                   ELSE IF ticket[t] = NoTicket THEN 0
                   ELSE IF t \in passing THEN 2 ELSE 1

\* A thread asleep in lock() when the lock is free and its ticket is served
\* has been woken: unlock's wake_up is not lost between the look at my_turn
\* and the sleep.
NoLostWakeup ==
    \A t \in asleep : MyTurn(t) => t \in woken

\* wait.h: "whoever else wants it sleeps until its turn".  Everybody who asks
\* gets the lock, whoever asks again and again, passes it or is asked to end.
GetsItsTurn ==
    \A t \in Threads : t \in asleep ~> owner = t

\* blkdev.h:87: "one thing at a time works with them", and "nothing else
\* meanwhile sees a filesystem half changed".
OneThingAtATime == mixed = {}
-----------------------------------------------------------------------------
(* Refinement: the queue that wait.h promises.                             *)

holder == owner

waiting == asleep

ahead ==
    [t \in Threads |->
        IF ticket[t] = NoTicket THEN {}
        ELSE {u \in Threads :
                 /\ ticket[u] # NoTicket
                 /\ Distance(serving, ticket[u]) < Distance(serving, ticket[t])}]

Fifo == INSTANCE FifoLock WITH holder <- holder, waiting <- waiting, ahead <- ahead

\* "They get it in the order they asked" (wait.h): the tickets implement a
\* first-come, first-served lock.
FirstComeFirstServed == Fifo!Spec
=============================================================================
