--------------------------- MODULE KernelObjects ----------------------------
(***************************************************************************)
(* Kernel objects, the handle table of a program and waiting               *)
(* (kernel/obj/object.cpp, kernel/obj/event.cpp, kernel/cpu/sfsync.cpp):   *)
(* the pool of events, their reference counts, and the threads that sleep  *)
(* on them.  Every call runs in the kernel without being preempted, so it  *)
(* is one step up to its sleep and one from there on.                      *)
(***************************************************************************)
EXTENDS Naturals, FiniteSets, Sequences

CONSTANTS Threads, MaxEvents, HandleTableSize

ASSUME ObjectsAssumption ==
    MaxEvents \in Nat /\ HandleTableSize \in Nat \ {0} /\ IsFiniteSet(Threads)

VARIABLES
    used, refcnt, is_set, auto_reset,   \* event_obj
    slot,       \* the handle table: the object in each slot, or None
    on,         \* the objects a sleeping thread waits for and has referenced
    deadline,   \* its wake_tick: none, ahead of pit::ticks(), or due
    woken

objectVars == <<used, refcnt, is_set, auto_reset, slot>>
sleepVars == <<on, deadline, woken>>

Events == 1 .. MaxEvents
Handles == 1 .. HandleTableSize
None == 0

ObjectTypeOK ==
    /\ used \in [Events -> BOOLEAN] /\ refcnt \in [Events -> Nat]
    /\ is_set \in [Events -> BOOLEAN] /\ auto_reset \in [Events -> BOOLEAN]
    /\ slot \in [Handles -> Events \cup {None}]
    /\ on \in [Threads -> Seq(Events)]
    /\ deadline \in [Threads -> {"none", "ahead", "due"}] /\ woken \in [Threads -> BOOLEAN]

ObjectInit ==
    /\ used = [e \in Events |-> FALSE] /\ refcnt = [e \in Events |-> 0]
    /\ is_set = [e \in Events |-> FALSE] /\ auto_reset = [e \in Events |-> FALSE]
    /\ slot = [h \in Handles |-> None]
    /\ on = [t \in Threads |-> <<>>]
    /\ deadline = [t \in Threads |-> "none"] /\ woken = [t \in Threads |-> FALSE]
-----------------------------------------------------------------------------
Asleep(t) == on[t] # <<>>
Items(t) == {on[t][i] : i \in DOMAIN on[t]}
InTable == {slot[h] : h \in Handles} \ {None}

FreeEvents == {e \in Events : ~ used[e]}
FreeHandles == {h \in Handles : slot[h] = None}
Lowest(S) == CHOOSE x \in S : \A y \in S : x <= y

\* event::create and handles::install: the handle has the one reference.
Create(auto) ==
    LET e == Lowest(FreeEvents)
        h == Lowest(FreeHandles)
    IN  /\ FreeEvents # {} /\ FreeHandles # {}
        /\ used' = [used EXCEPT ![e] = TRUE]
        /\ refcnt' = [refcnt EXCEPT ![e] = 1]
        /\ is_set' = [is_set EXCEPT ![e] = FALSE]
        /\ auto_reset' = [auto_reset EXCEPT ![e] = auto]
        /\ slot' = [slot EXCEPT ![h] = e]

\* kobj::put on every object of S: the last reference destroys it.
Put(S) ==
    /\ refcnt' = [e \in Events |->
                     IF e \in S /\ refcnt[e] > 0 THEN refcnt[e] - 1 ELSE refcnt[e]]
    /\ used' = [e \in Events |-> used[e] /\ ~(e \in S /\ refcnt[e] = 1)]

\* Slips: only the sleepers of the event's own queue hear of it; the caller
\* relies on the reference of the handle table.
WokenByOwnQueue(e) == {t \in Threads : on[t] = <<e>>}
BorrowAll(S) == refcnt

\* Whom wait::wake_up wakes for event e: its own sleepers, and everyone in
\* WaitAny, whose sleepers have a queue that every wake_up wakes.
WokenBy(e) == {t \in Threads : on[t] = <<e>> \/ Len(on[t]) > 1}

\* kobj::get on every object of S.
GetAll(S) == [e \in Events |-> IF e \in S THEN refcnt[e] + 1 ELSE refcnt[e]]

\* event::set
Set(e) ==
    /\ is_set' = [is_set EXCEPT ![e] = TRUE]
    /\ woken' = [t \in Threads |-> woken[t] \/ t \in WokenBy(e)]
    /\ UNCHANGED <<used, refcnt, auto_reset, slot, on, deadline>>

\* event::reset
Reset(e) ==
    /\ is_set' = [is_set EXCEPT ![e] = FALSE]
    /\ UNCHANGED <<used, refcnt, auto_reset, slot, sleepVars>>

\* A slip: a manual-reset event is used up as well, an auto-reset one is not.
ConsumeOther(e) == [is_set EXCEPT ![e] = @ /\ auto_reset[e]]

\* ev_consume
Consume(e) == [is_set EXCEPT ![e] = @ /\ ~ auto_reset[e]]

Signaled(es) == {i \in DOMAIN es : is_set[es[i]]}

\* any_ready: the first item that is signaled.
FirstReady(es) == es[Lowest(Signaled(es))]

\* Wait, WaitAny: es are the objects behind the handles.
WaitSucceeds(es) ==
    /\ Signaled(es) # {}
    /\ is_set' = Consume(FirstReady(es))
    /\ UNCHANGED <<used, refcnt, auto_reset, slot, sleepVars>>

WaitSleeps(t, es, timed) ==
    /\ Signaled(es) = {}
    /\ refcnt' = GetAll({es[i] : i \in DOMAIN es})
    /\ on' = [on EXCEPT ![t] = es]
    /\ deadline' = [deadline EXCEPT ![t] = IF timed THEN "ahead" ELSE "none"]
    /\ woken' = [woken EXCEPT ![t] = FALSE]
    /\ UNCHANGED <<used, is_set, auto_reset, slot>>

\* The sleep is over: the call gives its references back.
WaitEnds(t) ==
    /\ Put(Items(t))
    /\ on' = [on EXCEPT ![t] = <<>>]
    /\ deadline' = [deadline EXCEPT ![t] = "none"]
    /\ woken' = [woken EXCEPT ![t] = FALSE]
    /\ UNCHANGED <<auto_reset, slot>>

\* pit::ticks() reaches the deadline of a sleeping thread.
Tick(t) ==
    /\ deadline[t] = "ahead"
    /\ deadline' = [deadline EXCEPT ![t] = "due"]
    /\ UNCHANGED <<objectVars, on, woken>>

\* The thread runs again and finds an object signaled.  (ending: the program
\* is to be ended, Process.end_requested.)
ResumeSignaled(t, ending) ==
    /\ Asleep(t) /\ (woken[t] \/ (deadline[t] = "due" /\ ~ ending))
    /\ Signaled(on[t]) # {}
    /\ is_set' = Consume(FirstReady(on[t]))
    /\ WaitEnds(t)

\* SF_TIMEOUT, or SF_ABORTED: wait_event gave up.
ResumeInVain(t, ending) ==
    /\ Asleep(t)
    /\ \/ deadline[t] = "due" /\ Signaled(on[t]) = {}
       \/ ending /\ ~ woken[t]
    /\ is_set' = is_set
    /\ WaitEnds(t)

\* A slip: the timeout begins anew with every sleep.
ResumeSleepsAnew(t) ==
    /\ Asleep(t) /\ woken[t] /\ Signaled(on[t]) = {}
    /\ woken' = [woken EXCEPT ![t] = FALSE]
    /\ deadline' = [deadline EXCEPT ![t] = IF @ = "none" THEN "none" ELSE "ahead"]
    /\ UNCHANGED <<objectVars, on>>

\* Somebody else took the signal first.
ResumeSleeps(t) ==
    /\ Asleep(t) /\ woken[t] /\ deadline[t] # "due" /\ Signaled(on[t]) = {}
    /\ woken' = [woken EXCEPT ![t] = FALSE]
    /\ UNCHANGED <<objectVars, on, deadline>>

\* handles::close
Close(h) ==
    /\ slot[h] # None
    /\ Put({slot[h]})
    /\ slot' = [slot EXCEPT ![h] = None]
    /\ UNCHANGED <<is_set, auto_reset, sleepVars>>

\* terminate: end_threads frees the sleepers where they sleep, close_all
\* closes every handle.
EndProgram ==
    /\ Put(InTable)
    /\ slot' = [h \in Handles |-> None]
    /\ on' = [t \in Threads |-> <<>>]
    /\ deadline' = [t \in Threads |-> "none"]
    /\ woken' = [t \in Threads |-> FALSE]
    /\ UNCHANGED <<is_set, auto_reset>>
=============================================================================
