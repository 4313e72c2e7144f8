-------------------------- MODULE SleepLockProofs ---------------------------
(***************************************************************************)
(* For any number of threads and any width of the counters that exceeds    *)
(* it: the tickets of the disks' lock form an unbroken queue, holds counts *)
(* exactly, no wakeup is lost, and the lock is first come, first served.   *)
(***************************************************************************)
EXTENDS SleepLock, FiniteSetTheorems, TLAPS

\* Who sleeps, who owns, and which ticket is theirs.
QueueShape ==
    /\ owner = Nobody <=> depth = 0
    /\ owner # Nobody => ticket[owner] = serving
    /\ \A t \in Threads : t \in asleep <=> ticket[t] # NoTicket /\ t # owner

\* The inductive invariant.
LockInv == TypeOK /\ QueueShape /\ NoTicketLeftBehind /\ HoldsCounted /\ NoLostWakeup

\* Tickets count modulo Wrap, and NoTicket is none of them.
LEMMA TicketFacts ==
    /\ Wrap \in Nat /\ Wrap > 0
    /\ NoTicket = Wrap /\ NoTicket \notin Tickets
    /\ 0 \in Tickets
    /\ \A n \in Tickets : Succ(n) \in Tickets /\ Succ(n) = IF n + 1 = Wrap THEN 0 ELSE n + 1
<1>1. Cardinality(Threads) \in Nat
  BY LockAssumption, FS_CardinalityType, Zenon
<1>2. QED
  BY <1>1, LockAssumption DEF Tickets, NoTicket, Succ

\* How far a ticket is from the one being served.
LEMMA DistanceFacts ==
    /\ \A s, n \in Tickets :
          /\ Distance(s, n) \in Nat /\ Distance(s, n) < Wrap
          /\ Distance(s, n) = 0 <=> n = s
          /\ n # s => Distance(Succ(s), n) = Distance(s, n) - 1
          /\ n = s => Distance(Succ(s), n) = Wrap - 1
          /\ Succ(n) # s => Distance(s, Succ(n)) = Distance(s, n) + 1
          /\ Succ(n) = s => Distance(s, n) = Wrap - 1
    /\ \A s, n, m \in Tickets : Distance(s, n) = Distance(s, m) => n = m
BY TicketFacts DEF Distance, Tickets

\* As long as one thread has no ticket, taking one does not make the queue
\* look empty: there are more tickets than threads.
LEMMA RoomInLine ==
    ASSUME LockTypeOK, NoTicketLeftBehind, NEW t \in Threads, ticket[t] = NoTicket
    PROVE  Succ(next) # serving
<1> SUFFICES ASSUME Succ(next) = serving PROVE FALSE
  BY Zenon
<1> DEFINE f == [u \in Threads |-> IF ticket[u] = NoTicket THEN next ELSE ticket[u]]
<1>1. \A n \in Tickets \ {next} : \E u \in Threads : ticket[u] = n
  <2>1. \A n \in Tickets \ {next} : Out(n)
    BY DistanceFacts, TicketFacts DEF LockTypeOK, Out
  <2>2. QED
    BY <2>1, Zenon DEF NoTicketLeftBehind
<1>2. f \in Surjection(Threads, Tickets)
  <2>1. f \in [Threads -> Tickets]
    BY TicketFacts, Zenon DEF LockTypeOK
  <2>2. ASSUME NEW n \in Tickets PROVE \E u \in Threads : f[u] = n
    BY <1>1, TicketFacts, Zenon
  <2>3. QED
    BY <2>1, <2>2, Zenon DEF Surjection
<1>3. Cardinality(Tickets) <= Cardinality(Threads)
  BY <1>2, FS_Surjection, LockAssumption, Zenon
<1>4. Cardinality(Tickets) = Wrap
  <2>1. Cardinality(0 .. Wrap - 1) = Wrap
    BY TicketFacts, FS_Interval
  <2>2. QED
    BY <2>1, Zenon DEF Tickets
<1>5. QED
  BY <1>3, <1>4, LockAssumption, FS_CardinalityType
-----------------------------------------------------------------------------
(* Each action keeps the invariant.                                        *)

\* lock() by a thread outside.
LEMMA LockStep ==
    ASSUME LockInv, NEW t \in Threads, Lock(t)
    PROVE  LockInv'
<1> USE DEF Lock, Ask, Idle
<1>0. /\ TypeOK /\ LockTypeOK /\ QueueShape /\ NoTicketLeftBehind /\ HoldsCounted
      /\ NoLostWakeup
      /\ Succ(next) # serving /\ t # owner
  <2>1. TypeOK /\ LockTypeOK /\ QueueShape /\ NoTicketLeftBehind /\ HoldsCounted /\ NoLostWakeup
    BY Zenon DEF LockInv, TypeOK
  <2>2. Succ(next) # serving
    BY <2>1, RoomInLine, Zenon
  <2>3. t # owner
    BY <2>1, TicketFacts, LockAssumption, Zenon DEF QueueShape, LockTypeOK
  <2>4. QED
    BY <2>1, <2>2, <2>3, Zenon
<1>1. TypeOK'
  BY <1>0, TicketFacts DEF TypeOK, LockTypeOK
<1>2. QueueShape'
  <2>1. CASE depth = 0 /\ serving = next
    BY <2>1, <1>0, TicketFacts, LockAssumption DEF QueueShape, LockTypeOK, TypeOK
  <2>2. CASE ~ (depth = 0 /\ serving = next)
    BY <2>2, <1>0, TicketFacts, LockAssumption, Zenon DEF QueueShape, LockTypeOK, TypeOK
  <2>3. QED
    BY <2>1, <2>2, Zenon
<1>3. NoTicketLeftBehind'
  <2>1. \A n \in Tickets : Out(n)' <=> Out(n) \/ n = next
    BY <1>0, DistanceFacts, TicketFacts DEF LockTypeOK, Out
  <2>2. ~ Out(next)
    BY <1>0, DistanceFacts DEF LockTypeOK, Out
  <2>3. \A u \in Threads : ticket'[u] = IF u = t THEN next ELSE ticket[u]
    BY <1>0, Zenon DEF LockTypeOK
  <2>4. QED
    <3>1. \A u \in Threads : ticket'[u] # NoTicket => Out(ticket[u])'
      BY <1>0, <2>1, <2>3, TicketFacts DEF NoTicketLeftBehind, LockTypeOK, Out
    <3>2. \A u, w \in Threads : ticket'[u] = ticket'[w] /\ ticket'[u] # NoTicket => u = w
      BY <1>0, <2>2, <2>3, TicketFacts DEF NoTicketLeftBehind, LockTypeOK
    <3>3. \A n \in Tickets : Out(n)' => \E u \in Threads : ticket'[u] = n
      BY <1>0, <2>1, <2>3, TicketFacts DEF NoTicketLeftBehind
    <3>4. QED
      BY <3>1, <3>2, <3>3, Zenon DEF NoTicketLeftBehind
<1>4. HoldsCounted'
  <2> SUFFICES ASSUME NEW u \in Threads
               PROVE  (holds[u] = IF owner = u THEN depth
                                  ELSE IF ticket[u] = NoTicket THEN 0
                                  ELSE IF u \in passing THEN 2 ELSE 1)'
    BY Zenon DEF HoldsCounted
  <2>1. t \notin passing /\ holds[t] = 0
    BY <1>0, Zenon DEF TypeOK, QueueShape, HoldsCounted
  <2>2. CASE u = t
    BY <2>1, <2>2, <1>0, TicketFacts DEF LockTypeOK, QueueShape
  <2>3. CASE u # t
    BY <2>3, <1>0, LockAssumption, Zenon DEF LockTypeOK, QueueShape, HoldsCounted
  <2>4. QED
    BY <2>2, <2>3, Zenon
<1>5. NoLostWakeup'
  BY <1>0, TicketFacts, Zenon DEF NoLostWakeup, MyTurn, QueueShape, TypeOK, LockTypeOK
<1>6. QED
  BY <1>1, <1>2, <1>3, <1>4, <1>5, Zenon DEF LockInv

\* lock() by the owner.
LEMMA LockAgainStep ==
    ASSUME LockInv, NEW t \in Threads, LockAgain(t)
    PROVE  LockInv'
<1> USE DEF LockAgain, Nest
<1>1. TypeOK'
  BY DEF LockInv, TypeOK, LockTypeOK
<1>2. QueueShape' /\ HoldsCounted' /\ NoLostWakeup'
  BY LockAssumption DEF LockInv, TypeOK, LockTypeOK, QueueShape, HoldsCounted, NoLostWakeup, MyTurn
<1>3. NoTicketLeftBehind'
  BY Zenon DEF LockInv, NoTicketLeftBehind, Out
<1>4. QED
  BY <1>1, <1>2, <1>3, Zenon DEF LockInv

\* A sleeper looks whether it is its turn.
LEMMA ResumeStep ==
    ASSUME LockInv, NEW t \in Threads, Resume(t)
    PROVE  LockInv'
<1> USE DEF Resume
<1>0. t \in asleep /\ ticket[t] # NoTicket /\ t # owner
  BY Zenon DEF LockInv, TypeOK, QueueShape
<1>1. CASE ~ MyTurn(t)
  <2>1. UNCHANGED <<lockVars, asleep, passing, ending, mixed>> /\ woken' = woken \ {t}
    BY <1>1, Zenon
  <2>2. TypeOK'
    BY <2>1, Zenon DEF LockInv, TypeOK, LockTypeOK, lockVars
  <2>3. QueueShape' /\ NoTicketLeftBehind' /\ HoldsCounted'
    BY <2>1, Zenon DEF LockInv, QueueShape, NoTicketLeftBehind, HoldsCounted, Out, lockVars
  <2>4. NoLostWakeup'
    BY <2>1, <1>1, Zenon DEF LockInv, NoLostWakeup, MyTurn, lockVars
  <2>5. QED
    BY <2>2, <2>3, <2>4, Zenon DEF LockInv
<1>2. CASE MyTurn(t)
  <2> USE <1>2 DEF Get
  <2>1. TypeOK'
    BY <1>0 DEF LockInv, TypeOK, LockTypeOK, HoldsCounted
  <2>2. QueueShape'
    BY <1>0, LockAssumption DEF LockInv, TypeOK, LockTypeOK, QueueShape, MyTurn
  <2>3. HoldsCounted'
    <3>1. owner = Nobody
      BY Zenon DEF LockInv, QueueShape, MyTurn
    <3>2. QED
      BY <3>1, <1>0, LockAssumption DEF LockInv, TypeOK, LockTypeOK, HoldsCounted
  <2>4. NoTicketLeftBehind'
    BY Zenon DEF LockInv, NoTicketLeftBehind, Out
  <2>5. NoLostWakeup'
    BY DEF NoLostWakeup, MyTurn
  <2>6. QED
    BY <2>1, <2>2, <2>3, <2>4, <2>5, Zenon DEF LockInv
<1>3. QED
  BY <1>1, <1>2, Zenon

\* unlock().
LEMMA ReleaseStep ==
    ASSUME LockInv, NEW t \in Threads, Release(t)
    PROVE  LockInv'
<1> USE DEF Release, Unlock
<1>0. /\ owner = t /\ ticket[t] = serving /\ depth # 0 /\ depth \in Nat
      /\ t \notin asleep /\ t \notin passing
      /\ holds[t] = depth /\ TypeOK /\ LockTypeOK /\ NoTicketLeftBehind
  BY LockAssumption, Zenon DEF LockInv, TypeOK, LockTypeOK, QueueShape, HoldsCounted
<1>1. TypeOK'
  BY <1>0, TicketFacts DEF TypeOK, LockTypeOK, WakeUp
<1>2. QueueShape'
  BY <1>0, TicketFacts, LockAssumption DEF LockInv, TypeOK, LockTypeOK, QueueShape
<1>3. HoldsCounted'
  BY <1>0, TicketFacts, LockAssumption DEF LockInv, TypeOK, LockTypeOK, HoldsCounted
<1>4. NoLostWakeup'
  BY <1>0 DEF LockInv, TypeOK, NoLostWakeup, MyTurn, WakeUp
<1>5. NoTicketLeftBehind'
  <2>1. CASE depth # 1
    BY <2>1, <1>0 DEF NoTicketLeftBehind, Out
  <2>2. CASE depth = 1
    <3>1. Out(serving) /\ next # serving
      BY <1>0, TicketFacts, DistanceFacts DEF NoTicketLeftBehind, LockTypeOK, Out
    <3>2. \A n \in Tickets : Out(n)' <=> Out(n) /\ n # serving
      BY <2>2, <3>1, <1>0, DistanceFacts, TicketFacts DEF LockTypeOK, Out
    <3>3. \A u \in Threads : ticket'[u] = IF u = t THEN NoTicket ELSE ticket[u]
      BY <2>2, <1>0, Zenon DEF LockTypeOK
    <3>4. \A u \in Threads : ticket'[u] # NoTicket => Out(ticket[u])'
      BY <1>0, <3>2, <3>3, TicketFacts DEF NoTicketLeftBehind, LockTypeOK, Out
    <3>5. \A u, w \in Threads : ticket'[u] = ticket'[w] /\ ticket'[u] # NoTicket => u = w
      BY <1>0, <3>3 DEF NoTicketLeftBehind
    <3>6. \A n \in Tickets : Out(n)' => \E u \in Threads : ticket'[u] = n
      BY <1>0, <3>2, <3>3 DEF NoTicketLeftBehind
    <3>7. QED
      BY <3>4, <3>5, <3>6, Zenon DEF NoTicketLeftBehind
  <2>3. QED
    BY <2>1, <2>2, Zenon
<1>6. QED
  BY <1>1, <1>2, <1>3, <1>4, <1>5, Zenon DEF LockInv

\* The owner goes to the back of the queue.
LEMMA PassTurnStep ==
    ASSUME LockInv, NEW t \in Threads, PassTurn(t)
    PROVE  LockInv'
<1> USE DEF PassTurn, Pass
<1>0. /\ owner = t /\ ticket[t] = serving /\ depth = 1
      /\ t \notin asleep /\ t \notin passing
      /\ holds[t] = 1 /\ TypeOK /\ LockTypeOK /\ NoTicketLeftBehind
  BY LockAssumption, Zenon DEF LockInv, TypeOK, LockTypeOK, QueueShape, HoldsCounted
<1>1. TypeOK'
  BY <1>0, TicketFacts DEF TypeOK, LockTypeOK, WakeUp
<1>2. QueueShape'
  BY <1>0, TicketFacts, LockAssumption, Zenon DEF LockInv, TypeOK, LockTypeOK, QueueShape
<1>3. HoldsCounted'
  BY <1>0, TicketFacts, LockAssumption DEF LockInv, TypeOK, LockTypeOK, HoldsCounted
<1>4. NoLostWakeup'
  BY <1>0, TicketFacts DEF LockInv, TypeOK, LockTypeOK, NoLostWakeup, MyTurn, WakeUp
<1>5. NoTicketLeftBehind'
  <2>1. Out(serving) /\ next # serving
    BY <1>0, TicketFacts, DistanceFacts DEF NoTicketLeftBehind, LockTypeOK, Out
  <2>2. Distance(serving', next') = Distance(serving, next)
    BY <2>1, <1>0, DistanceFacts, TicketFacts DEF LockTypeOK
  <2>3. \A n \in Tickets : Out(n)' <=> n = next \/ (Out(n) /\ n # serving)
    BY <2>1, <2>2, <1>0, DistanceFacts, TicketFacts DEF LockTypeOK, Out
  <2>4. ~ Out(next)
    BY <1>0, DistanceFacts DEF LockTypeOK, Out
  <2>5. \A u \in Threads : ticket'[u] = IF u = t THEN next ELSE ticket[u]
    BY <1>0, Zenon DEF LockTypeOK
  <2>6. \A u \in Threads : ticket'[u] # NoTicket => Out(ticket[u])'
    BY <1>0, <2>3, <2>5, TicketFacts DEF NoTicketLeftBehind, LockTypeOK, Out
  <2>7. \A u, w \in Threads : ticket'[u] = ticket'[w] /\ ticket'[u] # NoTicket => u = w
    BY <1>0, <2>4, <2>5, TicketFacts DEF NoTicketLeftBehind, LockTypeOK
  <2>8. \A n \in Tickets : Out(n)' => \E u \in Threads : ticket'[u] = n
    BY <1>0, <2>3, <2>5 DEF NoTicketLeftBehind
  <2>9. QED
    BY <2>6, <2>7, <2>8, Zenon DEF NoTicketLeftBehind
<1>6. QED
  BY <1>1, <1>2, <1>3, <1>4, <1>5, Zenon DEF LockInv

\* The lock taken and given back for a thread that is torn down.
LEMMA TeardownStep ==
    ASSUME LockInv, NEW me \in Threads \cup {Nobody}, Teardown(me)
    PROVE  LockInv'
<1> USE DEF Teardown, TakeAndGive
<1>1. TypeOK'
  BY TicketFacts, Zenon DEF LockInv, TypeOK, LockTypeOK
<1>2. CASE depth = 0 /\ serving = next
  <2>1. \A n \in Tickets : ~ Out(n) /\ ~ Out(n)'
    BY <1>2, DistanceFacts, TicketFacts DEF LockInv, TypeOK, LockTypeOK, Out
  <2>2. \A u \in Threads : ticket[u] = NoTicket
    BY <2>1, Zenon DEF LockInv, TypeOK, LockTypeOK, NoTicketLeftBehind
  <2>3. owner = Nobody /\ asleep = {}
    BY <2>2, <1>2, Zenon DEF LockInv, TypeOK, QueueShape
  <2>4. QueueShape' /\ HoldsCounted' /\ NoLostWakeup'
    BY <2>2, <2>3, Zenon DEF LockInv, QueueShape, HoldsCounted, NoLostWakeup
  <2>5. NoTicketLeftBehind'
    BY <2>1, <2>2, Zenon DEF NoTicketLeftBehind
  <2>6. QED
    BY <1>1, <2>4, <2>5, Zenon DEF LockInv
<1>3. CASE ~ (depth = 0 /\ serving = next)
  BY <1>1, <1>3, Zenon DEF LockInv, QueueShape, HoldsCounted, NoLostWakeup, MyTurn,
                    NoTicketLeftBehind, Out
<1>4. QED
  BY <1>2, <1>3, Zenon

\* A thread that is to end has changed nothing of the lock yet.
LEMMA EndingStep ==
    ASSUME LockInv, UNCHANGED <<lockVars, asleep, woken, passing, mixed>>,
           ending' \subseteq Threads
    PROVE  LockInv'
BY Zenon DEF LockInv, TypeOK, LockTypeOK, QueueShape, HoldsCounted, NoLostWakeup, MyTurn,
       NoTicketLeftBehind, Out, lockVars
-----------------------------------------------------------------------------
(* The invariant, and what follows from it.                                *)

\* The lock starts free ...
LEMMA InvInit == Init => LockInv
<1> SUFFICES ASSUME Init PROVE LockInv
  BY Zenon
<1> USE DEF Init, LockInit
<1>1. TypeOK
  BY TicketFacts, Zenon DEF TypeOK, LockTypeOK
<1>2. QueueShape /\ HoldsCounted /\ NoLostWakeup
  BY LockAssumption, Zenon DEF QueueShape, HoldsCounted, NoLostWakeup
<1>3. \A n \in Tickets : ~ Out(n)
  BY DistanceFacts, TicketFacts DEF Out
<1>4. QED
  BY <1>1, <1>2, <1>3, Zenon DEF LockInv, NoTicketLeftBehind

\* ... and every step keeps the invariant.
LEMMA InvStep == LockInv /\ [Next]_vars => LockInv'
<1> SUFFICES ASSUME LockInv, [Next]_vars PROVE LockInv'
  BY Zenon
<1>1. CASE UNCHANGED vars
  BY <1>1, EndingStep, Zenon DEF vars, LockInv, TypeOK
<1>2. ASSUME NEW t \in Threads, RequestEnd(t) \/ EndThread(t) PROVE LockInv'
  BY <1>2, EndingStep, Zenon DEF RequestEnd, EndThread, LockInv, TypeOK
<1>3. QED
  BY <1>1, <1>2, LockStep, LockAgainStep, ResumeStep, ReleaseStep, PassTurnStep, TeardownStep, Zenon
  DEF Next

\* The queue of tickets of lock(), unlock() and pass() is unbroken, for any
\* number of threads: its inductive invariant.
THEOREM QueueIsWhole == Spec => []LockInv
BY InvInit, InvStep, PTL DEF Spec

\* Type correctness of the lock and of its sleepers.
THEOREM LockTypes == Spec => []TypeOK
<1>1. LockInv => TypeOK
  BY Zenon DEF LockInv
<1>2. QED
  BY <1>1, QueueIsWhole, PTL

\* No ticket is left behind or given out twice: unlock's serving++ always
\* comes to the ticket of a thread that waits for it.
THEOREM TicketsAreKept == Spec => []NoTicketLeftBehind
<1>1. LockInv => NoTicketLeftBehind
  BY Zenon DEF LockInv
<1>2. QED
  BY <1>1, QueueIsWhole, PTL

\* Thread.holds is zero exactly when the thread neither has nor awaits the
\* lock, which is what end_threads and service_requests rely on.
THEOREM HoldsAreExact == Spec => []HoldsCounted
<1>1. LockInv => HoldsCounted
  BY Zenon DEF LockInv
<1>2. QED
  BY <1>1, QueueIsWhole, PTL

\* The thread whose turn it is has been woken.
THEOREM TurnsAreTold == Spec => []NoLostWakeup
<1>1. LockInv => NoLostWakeup
  BY Zenon DEF LockInv
<1>2. QED
  BY <1>1, QueueIsWhole, PTL
-----------------------------------------------------------------------------
(* The lock implements FifoLock.                                           *)

\* Those in line are those with a ticket.
LEMMA LineIsTickets ==
    ASSUME LockInv
    PROVE  /\ Fifo!InLine = {u \in Threads : ticket[u] # NoTicket}
           /\ \A u \in Threads : u \in Fifo!InLine => ticket[u] \in Tickets /\ Out(ticket[u])
<1>1. \A u \in Threads : owner = u => ticket[u] # NoTicket
  BY TicketFacts, LockAssumption, Zenon DEF LockInv, TypeOK, LockTypeOK, QueueShape
<1>2. Fifo!InLine = {u \in Threads : ticket[u] # NoTicket}
  BY <1>1, LockAssumption, Zenon DEF Fifo!InLine, waiting, holder, LockInv, TypeOK, LockTypeOK, QueueShape
<1>3. QED
  BY <1>2, Zenon DEF LockInv, TypeOK, LockTypeOK, NoTicketLeftBehind

\* Before: t is ahead of u, as FifoLock sees it.
LEMMA AheadIs ==
    ASSUME NEW u \in Threads, NEW w \in Threads
    PROVE  w \in ahead[u] <=>
               /\ ticket[u] # NoTicket /\ ticket[w] # NoTicket
               /\ Distance(serving, ticket[w]) < Distance(serving, ticket[u])
BY Zenon DEF ahead

\* Who is ahead of whom after a step.
LEMMA AheadNext ==
    ASSUME NEW u \in Threads, NEW w \in Threads
    PROVE  w \in ahead'[u] <=>
               /\ ticket'[u] # NoTicket /\ ticket'[w] # NoTicket
               /\ Distance(serving', ticket'[w]) < Distance(serving', ticket'[u])
BY Zenon DEF ahead

\* ahead is a function from threads to sets of threads.
LEMMA AheadShape ==
    /\ ahead = [u \in Threads |-> ahead[u]] /\ ahead' = [u \in Threads |-> ahead'[u]]
    /\ \A u \in Threads : ahead[u] \subseteq Threads /\ ahead'[u] \subseteq Threads
BY Zenon DEF ahead

\* lock() lines up behind everybody.
LEMMA LockArrives ==
    ASSUME LockInv, NEW t \in Threads, Lock(t)
    PROVE  Fifo!Arrive(t)
<1> USE DEF Lock, Ask, Idle
<1>0. LockTypeOK /\ t \notin Fifo!InLine /\ t # owner
  BY LineIsTickets, TicketFacts, LockAssumption, Zenon DEF LockInv, TypeOK, LockTypeOK, QueueShape
<1>1. \A u \in Threads : ticket'[u] = IF u = t THEN next ELSE ticket[u]
  BY <1>0, Zenon DEF LockTypeOK
<1>2. \A u \in Fifo!InLine : Distance(serving, ticket[u]) < Distance(serving, next)
  BY LineIsTickets, Zenon DEF Out
<1>3. ahead' = [ahead EXCEPT ![t] = Fifo!InLine]
  <2>1. \A w \in Threads : w \in ahead'[t] <=> w \in Fifo!InLine
    BY <1>0, <1>1, <1>2, AheadNext, LineIsTickets, TicketFacts, DistanceFacts, SMTT(60) DEF LockTypeOK
  <2>2. ASSUME NEW u \in Threads \ {t}, NEW w \in Threads
        PROVE  w \in ahead'[u] <=> w \in ahead[u]
    <3>1. CASE w = t
      <4>1. t \notin ahead[u]
        BY AheadIs, Zenon
      <4>2. ticket[u] # NoTicket => ~ (Distance(serving, next) < Distance(serving, ticket[u]))
        BY <1>2, <1>0, LineIsTickets, DistanceFacts DEF LockTypeOK
      <4>3. QED
        BY <3>1, <4>1, <4>2, <1>1, AheadNext, Zenon
    <3>2. CASE w # t
      BY <3>2, <1>1, AheadNext, AheadIs
    <3>3. QED
      BY <3>1, <3>2, Zenon
  <2>3. ahead'[t] = Fifo!InLine
    BY <2>1, AheadShape, LineIsTickets, Zenon
  <2>4. \A u \in Threads \ {t} : ahead'[u] = ahead[u]
    BY <2>2, AheadShape, ZenonT(60)
  <2>5. QED
    BY <2>3, <2>4, AheadShape, Zenon
<1>4. Fifo!InLine = {} <=> depth = 0 /\ serving = next
  <2>1. serving # next => Out(serving)
    BY <1>0, DistanceFacts DEF LockTypeOK, Out
  <2>2. serving = next => \A n \in Tickets : ~ Out(n)
    BY <1>0, DistanceFacts DEF LockTypeOK, Out
  <2>3. Out(serving) => Fifo!InLine # {}
    BY LineIsTickets, TicketFacts, <1>0, Zenon DEF LockInv, NoTicketLeftBehind, LockTypeOK
  <2>4. depth # 0 => Fifo!InLine # {}
    BY Zenon DEF LockInv, QueueShape, Fifo!InLine, holder
  <2>5. QED
    BY <2>1, <2>2, <2>3, <2>4, LineIsTickets, Zenon
<1>5. IF Fifo!InLine = {} THEN holder' = t /\ UNCHANGED waiting
      ELSE waiting' = waiting \cup {t} /\ UNCHANGED holder
  BY <1>0, <1>4, Zenon DEF holder, waiting
<1>6. QED
  BY <1>0, <1>3, <1>5, Zenon DEF Fifo!Arrive

\* A sleeper that gets the lock is the one at the front.
LEMMA ResumeGrants ==
    ASSUME LockInv, NEW t \in Threads, Resume(t)
    PROVE  Fifo!Grant(t) \/ UNCHANGED <<holder, waiting, ahead>>
<1> USE DEF Resume
<1>1. CASE ~ MyTurn(t)
  BY <1>1, Zenon DEF lockVars, holder, waiting, ahead
<1>2. CASE MyTurn(t)
  <2>1. /\ t \in asleep /\ owner = Nobody /\ serving = ticket[t] /\ LockTypeOK
        /\ UNCHANGED <<serving, ticket>>
    BY <1>2, Zenon DEF LockInv, TypeOK, QueueShape, MyTurn, Get
  <2>2. ahead[t] = {}
    <3>1. \A w \in Threads : w \notin ahead[t]
      <4>1. Distance(serving, ticket[t]) = 0
        BY <2>1, DistanceFacts, Zenon DEF LockTypeOK
      <4>2. \A w \in Threads : ticket[w] # NoTicket => Distance(serving, ticket[w]) \in Nat
        BY <2>1, DistanceFacts, TicketFacts, SMTT(60) DEF LockTypeOK
      <4>3. QED
        BY <4>1, <4>2, AheadIs
    <3>2. QED
      BY <3>1, AheadShape, Zenon
  <2>3. UNCHANGED ahead
    BY <2>1, Zenon DEF ahead
  <2>4. QED
    BY <1>2, <2>1, <2>2, <2>3, Zenon DEF Fifo!Grant, holder, waiting, Get
<1>3. QED
  BY <1>1, <1>2, Zenon

\* The last unlock() lets go, the others change nothing of the queue.
LEMMA ReleaseLetsGo ==
    ASSUME LockInv, NEW t \in Threads, Release(t)
    PROVE  Fifo!LetGo(t) \/ UNCHANGED <<holder, waiting, ahead>>
<1> USE DEF Release, Unlock
<1>1. CASE depth # 1
  BY <1>1, Zenon DEF holder, waiting, ahead
<1>2. CASE depth = 1
  <2>1. /\ owner = t /\ ticket[t] = serving /\ LockTypeOK /\ serving' = Succ(serving)
        /\ \A u \in Threads : ticket'[u] = IF u = t THEN NoTicket ELSE ticket[u]
    BY <1>2, LockAssumption, Zenon DEF LockInv, TypeOK, LockTypeOK, QueueShape
  <2>2. \A u \in Threads : ticket'[u] # NoTicket =>
           u # t /\ ticket[u] \in Tickets /\ ticket[u] # serving
    BY <2>1, TicketFacts DEF LockTypeOK, LockInv, NoTicketLeftBehind
  <2>3. ASSUME NEW u \in Threads, NEW w \in Threads
        PROVE  w \in ahead'[u] <=> w \in ahead[u] /\ w # t
    <3>1. u = t => w \notin ahead'[u] /\ w \notin ahead[u]
      BY <2>1, AheadIs, AheadNext, DistanceFacts, TicketFacts, SMTT(60) DEF LockTypeOK
    <3>2. CASE u # t
      <4>1. CASE w = t \/ ticket[w] = NoTicket \/ ticket[u] = NoTicket
        BY <4>1, <2>1, <3>2, AheadIs, AheadNext, Zenon
      <4>2. CASE w # t /\ ticket[w] # NoTicket /\ ticket[u] # NoTicket
        <5> DEFINE n == ticket[w]
                   k == ticket[u]
        <5>1. n \in Tickets /\ k \in Tickets /\ n # serving /\ k # serving
          BY <4>2, <3>2, <2>1, <2>2, Zenon
        <5>2. Distance(Succ(serving), n) < Distance(Succ(serving), k)
              <=> Distance(serving, n) < Distance(serving, k)
          <6> HIDE DEF n, k
          <6> QED
            BY <5>1, <2>1, DistanceFacts DEF LockTypeOK
        <5>3. QED
          BY <5>2, <4>2, <3>2, <2>1, AheadIs, AheadNext, Zenon
      <4>3. QED
        BY <4>1, <4>2, Zenon
    <3>3. QED
      BY <3>1, <3>2, Zenon
  <2>4. ahead' = [u \in Threads |-> ahead[u] \ {t}]
    <3>1. \A u \in Threads : ahead'[u] = ahead[u] \ {t}
      BY <2>3, AheadShape, Zenon
    <3>2. QED
      BY <3>1, AheadShape, Zenon
  <2>5. QED
    BY <1>2, <2>1, <2>4, Zenon DEF Fifo!LetGo, holder, waiting
<1>3. QED
  BY <1>1, <1>2, Zenon

\* The owner that passes its turn is behind everybody.
LEMMA PassGoesToTheBack ==
    ASSUME LockInv, NEW t \in Threads, PassTurn(t)
    PROVE  Fifo!ToTheBack(t)
<1> USE DEF PassTurn, Pass
<1>1. /\ owner = t /\ ticket[t] = serving /\ LockTypeOK /\ serving' = Succ(serving)
      /\ t \notin asleep /\ next # Succ(serving)
      /\ \A u \in Threads : ticket'[u] = IF u = t THEN next ELSE ticket[u]
  BY LockAssumption, Zenon DEF LockInv, TypeOK, LockTypeOK, QueueShape
<1>2. \A u \in Threads : ticket[u] # NoTicket /\ u # t =>
         /\ ticket[u] \in Tickets /\ ticket[u] # serving
         /\ Distance(serving, ticket[u]) < Distance(serving, next)
  BY <1>1, TicketFacts, SMTT(60) DEF LockTypeOK, LockInv, NoTicketLeftBehind, Out
<1>3. next # serving /\ Out(serving)
  BY <1>1, TicketFacts, DistanceFacts DEF LockTypeOK, LockInv, NoTicketLeftBehind, Out
<1>4. waiting # {}
  <2>1. Out(Succ(serving))
    <3>1. Succ(serving) # serving
      BY <1>1, <1>3, TicketFacts, SMTT(60) DEF LockTypeOK, Tickets
    <3>2. Distance(serving, Succ(serving)) = 1 /\ Distance(serving, next) # 1
      BY <3>1, <1>1, DistanceFacts, TicketFacts, SMTT(60) DEF LockTypeOK
    <3>3. Distance(serving, next) \in Nat /\ Distance(serving, next) # 0
      BY <1>1, <1>3, DistanceFacts DEF LockTypeOK
    <3>4. QED
      BY <3>2, <3>3 DEF Out
  <2>2. PICK u \in Threads : ticket[u] = Succ(serving)
    BY <2>1, <1>1, TicketFacts, Zenon DEF LockInv, NoTicketLeftBehind, LockTypeOK
  <2>3. Succ(serving) # serving
    BY <1>1, <1>3, TicketFacts DEF LockTypeOK, Tickets
  <2>4. u # t /\ ticket[u] # NoTicket
    BY <2>2, <2>3, <1>1, TicketFacts DEF LockTypeOK
  <2>5. QED
    BY <2>4, <1>1, Zenon DEF LockInv, QueueShape, waiting
<1>5. \A w \in Threads : w \in ahead'[t] <=> w \in waiting
  <2> SUFFICES ASSUME NEW w \in Threads PROVE w \in ahead'[t] <=> w \in waiting
    BY Zenon
  <2>1. w \in waiting <=> w # t /\ ticket[w] # NoTicket
    BY <1>1, Zenon DEF LockInv, QueueShape, waiting
  <2>2. CASE w = t \/ ticket[w] = NoTicket
    <3>1. ~ (Distance(serving', next) < Distance(serving', next))
      BY <1>1, DistanceFacts, TicketFacts, SMTT(60) DEF LockTypeOK
    <3>2. QED
      BY <2>1, <2>2, <3>1, <1>1, AheadNext, Zenon
  <2>3. CASE w # t /\ ticket[w] # NoTicket
    <3> DEFINE n == ticket[w]
    <3>1. n \in Tickets /\ n # serving /\ Distance(serving, n) < Distance(serving, next)
      BY <2>3, <1>2, Zenon
    <3>2. Distance(Succ(serving), n) < Distance(Succ(serving), next)
      <4> HIDE DEF n
      <4> QED
        BY <3>1, <1>1, <1>3, DistanceFacts DEF LockTypeOK
    <3>3. next # NoTicket
      BY <1>1, TicketFacts, Zenon DEF LockTypeOK
    <3>4. QED
      BY <3>2, <3>3, <2>1, <2>3, <1>1, AheadNext, Zenon
  <2>4. QED
    BY <2>2, <2>3, Zenon
<1>6. ASSUME NEW u \in Threads, u # t, NEW w \in Threads
      PROVE  w \in ahead'[u] <=> w \in ahead[u] /\ w # t
  <2>1. CASE ticket[u] = NoTicket \/ ticket[w] = NoTicket
    <3>1. CASE w # t
      BY <2>1, <3>1, <1>1, <1>6, AheadIs, AheadNext, Zenon
    <3>2. CASE w = t
      BY <2>1, <3>2, <1>1, <1>6, AheadIs, AheadNext, TicketFacts, Zenon DEF LockTypeOK
    <3>3. QED
      BY <3>1, <3>2, Zenon
  <2>2. CASE ticket[u] # NoTicket /\ ticket[w] # NoTicket
    <3> DEFINE k == ticket[u]
    <3>1. k \in Tickets /\ k # serving /\ Distance(serving, k) < Distance(serving, next)
      BY <2>2, <1>2, <1>6, Zenon
    <3>2. CASE w = t
      <4>1. ~ (Distance(Succ(serving), next) < Distance(Succ(serving), k))
        <5> HIDE DEF k
        <5> QED
          BY <3>1, <1>1, <1>3, DistanceFacts, SMTT(60) DEF LockTypeOK
      <4>2. QED
        BY <4>1, <3>2, <1>1, <1>6, AheadNext, Zenon
    <3>3. CASE w # t
      <4> DEFINE n == ticket[w]
      <4>1. n \in Tickets /\ n # serving
        BY <2>2, <3>3, <1>2, Zenon
      <4>2. Distance(Succ(serving), n) < Distance(Succ(serving), k)
            <=> Distance(serving, n) < Distance(serving, k)
        <5> HIDE DEF n, k
        <5> QED
          BY <3>1, <4>1, <1>1, DistanceFacts DEF LockTypeOK
      <4>3. QED
        BY <4>2, <2>2, <3>3, <1>1, <1>6, AheadIs, AheadNext, Zenon
    <3>4. QED
      BY <3>2, <3>3, Zenon
  <2>3. QED
    BY <2>1, <2>2, Zenon
<1>7. ahead' = [u \in Threads |-> IF u = t THEN waiting ELSE ahead[u] \ {t}]
  <2>1. ahead'[t] = waiting
    BY <1>5, AheadShape, Zenon DEF waiting, LockInv, TypeOK
  <2>2. \A u \in Threads \ {t} : ahead'[u] = ahead[u] \ {t}
    BY <1>6, AheadShape, Zenon
  <2>3. QED
    BY <2>1, <2>2, AheadShape, Zenon
<1>8. QED
  BY <1>1, <1>4, <1>7, Zenon DEF Fifo!ToTheBack, holder, waiting

\* A teardown leaves the queue as it was.
LEMMA TeardownStutters ==
    ASSUME LockInv, NEW me \in Threads \cup {Nobody}, Teardown(me)
    PROVE  UNCHANGED <<holder, waiting, ahead>>
<1> USE DEF Teardown, TakeAndGive
<1>1. CASE depth = 0 /\ serving = next
  <2>1. \A n \in Tickets : ~ Out(n)
    BY <1>1, DistanceFacts DEF LockInv, TypeOK, LockTypeOK, Out
  <2>2. \A u \in Threads : ticket[u] = NoTicket
    BY <2>1, Zenon DEF LockInv, TypeOK, LockTypeOK, NoTicketLeftBehind
  <2>3. QED
    BY <2>2, Zenon DEF holder, waiting, ahead
<1>2. CASE ~ (depth = 0 /\ serving = next)
  BY <1>2, Zenon DEF holder, waiting, ahead
<1>3. QED
  BY <1>1, <1>2, Zenon

\* "They get it in the order they asked" (wait.h): every step of the tickets,
\* the wait queue, the nesting and the passing on is a step of the
\* first-come, first-served lock, or leaves it alone.
THEOREM OrderIsKept == Spec => FirstComeFirstServed
<1>1. Init => Fifo!Init
  BY Zenon DEF Init, LockInit, Fifo!Init, holder, waiting, ahead
<1>2. LockInv /\ [Next]_vars => [Fifo!Next]_<<holder, waiting, ahead>>
  <2> SUFFICES ASSUME LockInv, [Next]_vars
               PROVE  Fifo!Next \/ UNCHANGED <<holder, waiting, ahead>>
    BY Zenon
  <2>1. CASE UNCHANGED vars
    BY <2>1, Zenon DEF vars, lockVars, holder, waiting, ahead
  <2>2. ASSUME NEW t \in Threads, LockAgain(t) \/ RequestEnd(t) \/ EndThread(t)
        PROVE  UNCHANGED <<holder, waiting, ahead>>
    BY <2>2, Zenon DEF LockAgain, Nest, RequestEnd, EndThread, lockVars, holder, waiting, ahead
  <2>3. QED
    BY <2>1, <2>2, LockArrives, ResumeGrants, ReleaseLetsGo, PassGoesToTheBack,
       TeardownStutters, Zenon DEF Next, Fifo!Next
<1>3. QED
  BY <1>1, <1>2, QueueIsWhole, PTL DEF Spec, FirstComeFirstServed, Fifo!Spec
=============================================================================
