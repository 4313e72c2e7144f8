------------------------------ MODULE UserSync ------------------------------
(***************************************************************************)
(* A program with several threads over the kernel's objects: the lock of   *)
(* the SDK's runtime (SdkLock, sdk/runtime/sync.cpp; HeapLock is one, and  *)
(* so is every SfMutex), events of its own that its threads set, wait for  *)
(* and close under each other, and its end, however it comes.  Then the    *)
(* next program starts with the same pool of events.                       *)
(*                                                                         *)
(* pc[t] is where thread t is with the lock:                               *)
(*   out       not interested                                              *)
(*   want      counted; to wait for the event, or asleep on it             *)
(*   hold      has the lock                                                *)
(*   letting   has given up its count, the event is yet to be set          *)
(***************************************************************************)
EXTENDS KernelObjects

CONSTANTS
    Callers,    \* bound: the threads that create, set, reset and close events
    Waiters     \* bound: those that wait for them

VARIABLES
    alive,      \* a program runs
    ending,     \* Process.end_requested
    Count, pc,
    lost        \* history: references of threads that ended in their sleep

programVars == <<alive, ending, Count, pc, lost>>
vars == <<objectVars, sleepVars, programVars>>

ASSUME CallersAssumption == Callers \subseteq Threads /\ Waiters \subseteq Threads

\* LockInit runs first in a program (MemoryInit): its event is in the first
\* slot.  (Slots taken by files given as arguments are left out.)
LockHandle == 1

TypeOK ==
    /\ ObjectTypeOK
    /\ alive \in BOOLEAN /\ ending \in BOOLEAN
    /\ Count \in 0 .. Cardinality(Threads)
    /\ pc \in [Threads -> {"out", "want", "hold", "letting"}]
    /\ lost \in [Events -> Nat]

Init ==
    /\ ObjectInit
    /\ alive = FALSE /\ ending = FALSE
    /\ Count = 0 /\ pc = [t \in Threads |-> "out"]
    /\ lost = [e \in Events |-> 0]
-----------------------------------------------------------------------------
\* A program starts; without an event left for its lock it does not.
StartProgram ==
    /\ ~ alive
    /\ IF FreeEvents = {} THEN UNCHANGED <<objectVars, alive>>
                          ELSE Create(TRUE) /\ alive' = TRUE
    /\ UNCHANGED <<sleepVars, ending, Count, pc, lost>>

\* Its threads run, and may call, while they are not asleep.
Runs(t) == alive /\ ~ Asleep(t)

MoveTo(t, where) == pc' = [pc EXCEPT ![t] = where]

\* LockAcquire as far as its atomic addition.
LockAcquire(t) ==
    /\ Runs(t) /\ pc[t] = "out"
    /\ Count' = Count + 1
    /\ MoveTo(t, IF Count' = 1 THEN "hold" ELSE "want")
    /\ UNCHANGED <<objectVars, sleepVars, alive, ending, lost>>

\* Its loop: SFCALL_WAIT until it succeeds.
LockWait(t) ==
    /\ Runs(t) /\ pc[t] = "want"
    /\ \/ WaitSucceeds(<<slot[LockHandle]>>) /\ MoveTo(t, "hold")
       \/ WaitSleeps(t, <<slot[LockHandle]>>, FALSE) /\ UNCHANGED pc
    /\ UNCHANGED <<alive, ending, Count, lost>>

\* A slip: the last waiter is not told.
LastIsForgotten == Count' > 1

\* Whether LockRelease, having counted itself out, sets the event.
OthersCounted == Count' > 0

\* LockRelease as far as its atomic subtraction.
LockRelease(t) ==
    /\ Runs(t) /\ pc[t] = "hold"
    /\ Count' = Count - 1
    /\ MoveTo(t, IF OthersCounted THEN "letting" ELSE "out")
    /\ UNCHANGED <<objectVars, sleepVars, alive, ending, lost>>

\* Its SFCALL_EVENT_SET.
LockSet(t) ==
    /\ Runs(t) /\ pc[t] = "letting"
    /\ Set(slot[LockHandle])
    /\ MoveTo(t, "out")
    /\ UNCHANGED <<alive, ending, Count, lost>>

\* A sleeping thread runs on.  One that waits for the lock has it when its
\* wait succeeds, and waits again when it does not.
Resume(t) ==
    /\ alive
    /\ \/ ResumeSignaled(t, ending) /\ MoveTo(t, IF pc[t] = "want" THEN "hold" ELSE pc[t])
       \/ ResumeInVain(t, ending) /\ UNCHANGED pc
       \/ ResumeSleeps(t) /\ UNCHANGED pc
    /\ UNCHANGED <<alive, ending, Count, lost>>

\* What a thread does next without being asked.
GoesOn(t) == LockWait(t) \/ LockSet(t) \/ Resume(t)
-----------------------------------------------------------------------------
(* The program's own events: SfEvent, WaitAny, Close.                      *)

\* A thread calls, with or without the lock; the runtime's event is not the
\* program's to touch.
Calls(t) == Runs(t) /\ pc[t] \in {"out", "hold"} /\ UNCHANGED programVars

Own == {h \in Handles \ {LockHandle} : slot[h] # None}

EventCreate(t, auto) == Calls(t) /\ Create(auto) /\ UNCHANGED sleepVars
EventSet(t, h) == Calls(t) /\ Set(slot[h])
EventReset(t, h) == Calls(t) /\ Reset(slot[h])
EventClose(t, h) == Calls(t) /\ Close(h)

EventWait(t, h, timed) ==
    /\ Calls(t)
    /\ WaitSucceeds(<<slot[h]>>) \/ WaitSleeps(t, <<slot[h]>>, timed)

WaitAny(t, h, g, timed) ==
    /\ Calls(t) /\ h # g
    /\ WaitSucceeds(<<slot[h], slot[g]>>) \/ WaitSleeps(t, <<slot[h], slot[g]>>, timed)

\* The deadline of a wait comes.
TimePasses(t) == Tick(t) /\ UNCHANGED programVars

RequestEnd ==
    /\ alive /\ ~ ending
    /\ ending' = TRUE
    /\ UNCHANGED <<objectVars, sleepVars, alive, Count, pc, lost>>

\* A thread that runs leaves with Exit or a fault, or the program's CPU acts
\* on the request.
Terminate ==
    /\ alive
    /\ ending \/ \E t \in Threads : Runs(t)
    /\ EndProgram
    /\ alive' = FALSE /\ ending' = FALSE
    /\ Count' = 0 /\ pc' = [t \in Threads |-> "out"]
    /\ lost' = [e \in Events |-> lost[e] + Cardinality({t \in Threads : e \in Items(t)})]

Next ==
    \/ StartProgram \/ RequestEnd \/ Terminate
    \/ \E t \in Threads :
          GoesOn(t) \/ LockAcquire(t) \/ LockRelease(t)
    \/ \E t \in Callers :
          \/ \E auto \in BOOLEAN : EventCreate(t, auto)
          \/ \E h \in Own : EventSet(t, h) \/ EventReset(t, h) \/ EventClose(t, h)
    \/ \E t \in Waiters :
          \/ TimePasses(t)
          \/ \E h \in Own, timed \in BOOLEAN : EventWait(t, h, timed)
          \/ \E h, g \in Own, timed \in BOOLEAN : WaitAny(t, h, g, timed)

Spec == Init /\ [][Next]_vars

\* The scheduler runs every thread that can run (Scheduler!EveryThreadRuns),
\* the steps of the lock's own code follow each other, and time passes.
FairSpec ==
    /\ Spec
    /\ \A t \in Threads : WF_vars(GoesOn(t))
    /\ \A t \in Waiters : WF_vars(TimePasses(t))
-----------------------------------------------------------------------------
(* Properties.                                                             *)

\* SdkLock: "The one that takes it from 0 to 1 holds it; everybody after
\* sleeps on the event" (sync.cpp): two threads never have it at once.
MutualExclusion ==
    \A t, u \in Threads : pc[t] = "hold" /\ pc[u] = "hold" => t = u

\* The reference count of an event is exactly the handle's, the sleeping
\* calls' and the lost ones: no call works on a freed object ("another thread
\* may close the handle meanwhile", sfsync.cpp), and but for the lost ones
\* none is kept.
RefsAreCounted ==
    \A e \in Events :
        /\ refcnt[e] = Cardinality({h \in Handles : slot[h] = e})
                       + Cardinality({t \in Threads : e \in Items(t)}) + lost[e]
        /\ used[e] <=> refcnt[e] > 0

\* A thread asleep on an object that is signaled has been woken, whether it
\* waits for one object or for any of several.
NoLostWakeup ==
    \A t \in Threads : Signaled(on[t]) # {} => woken[t]

\* While anybody is counted, somebody gets the lock in the end: no release is
\* lost between the count and the event.
SomebodyGetsIn ==
    (Count > 0) ~> (~ alive \/ \E t \in Threads : pc[t] = "hold")

\* A wait with a deadline comes to an end, whoever sets, resets and closes
\* what it waits for.
DeadlinesEnd ==
    \A t \in Threads : (deadline[t] # "none") ~> (deadline[t] = "none")
=============================================================================
