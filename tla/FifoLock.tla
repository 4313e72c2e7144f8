------------------------------ MODULE FifoLock ------------------------------
(***************************************************************************)
(* What include/cpu/wait.h promises of a sleep_lock: at most one holder,   *)
(* and those who ask get it in the order they asked.                       *)
(***************************************************************************)
CONSTANTS Threads, Nobody

VARIABLES
    holder,     \* who has the lock
    waiting,    \* those who asked and have not got it yet
    ahead       \* ahead[t]: those who asked before t and have not let go

Init ==
    /\ holder = Nobody
    /\ waiting = {}
    /\ ahead = [t \in Threads |-> {}]

InLine == waiting \cup ({holder} \ {Nobody})

Arrive(t) ==
    /\ t \notin InLine
    /\ ahead' = [ahead EXCEPT ![t] = InLine]
    /\ IF InLine = {}
       THEN holder' = t /\ UNCHANGED waiting
       ELSE waiting' = waiting \cup {t} /\ UNCHANGED holder

Grant(t) ==
    /\ t \in waiting /\ holder = Nobody /\ ahead[t] = {}
    /\ holder' = t
    /\ waiting' = waiting \ {t}
    /\ UNCHANGED ahead

LetGo(t) ==
    /\ holder = t
    /\ holder' = Nobody
    /\ ahead' = [u \in Threads |-> ahead[u] \ {t}]
    /\ UNCHANGED waiting

\* Let go and ask again at once: behind everybody who waits.
ToTheBack(t) ==
    /\ holder = t /\ waiting # {}
    /\ holder' = Nobody
    /\ waiting' = waiting \cup {t}
    /\ ahead' = [u \in Threads |-> IF u = t THEN waiting ELSE ahead[u] \ {t}]

Next == \E t \in Threads : Arrive(t) \/ Grant(t) \/ LetGo(t) \/ ToTheBack(t)

Spec == Init /\ [][Next]_<<holder, waiting, ahead>>
=============================================================================
