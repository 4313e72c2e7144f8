--------------------------- MODULE UserSyncProofs ---------------------------
(***************************************************************************)
(* Proofs about UserSync, for any number of threads, events and handles:   *)
(* reference counts are exact, SdkLock lets one thread in at a time, and   *)
(* no wake-up is lost.                                                     *)
(***************************************************************************)
EXTENDS UserSync, TLAPS, FiniteSetTheorems, WellFoundedInduction

\* The lowest member of a set of numbers is one of it, and no other is lower.
LEMMA LowestIsIn ==
    ASSUME NEW S \in SUBSET Nat, S # {}
    PROVE  Lowest(S) \in S /\ \A y \in S : Lowest(S) <= y
<1> DEFINE Less == OpToRel(<, Nat)
<1>1. IsWellFoundedOn(Less, Nat)
    BY NatLessThanWellFounded, Zenon
<1>2. \A x, y \in Nat : y < x => <<y, x>> \in Less
    BY DEF OpToRel
<1> HIDE DEF Less
<1>3. \E x \in S : \A y \in S : ~(<<y, x>> \in Less)
  <2>1. S \subseteq Nat
    OBVIOUS
  <2> QED
    BY <1>1, <2>1, WFMin, Zenon
<1> PICK x \in S : \A y \in S : ~(<<y, x>> \in Less)
    BY <1>3
<1>4. ASSUME NEW y \in S
      PROVE  x <= y
  <2>1. x \in Nat /\ y \in Nat
    OBVIOUS
  <2>2. ~(y < x)
    BY <1>2, <2>1, Zenon
  <2> QED
    BY <2>1, <2>2
<1> QED
    BY <1>4, Zenon DEF Lowest

SleepersOn(o, e) == {t \in Threads : \E i \in DOMAIN o[t] : o[t][i] = e}
Injective(s) == \A h, g \in Handles : s[h] = s[g] /\ s[h] # None => h = g
InSlots(s, e) == IF \E h \in Handles : s[h] = e THEN 1 ELSE 0

\* Threads asleep on an object are finitely many.
LEMMA SleepersCounted ==
    ASSUME NEW o, NEW e
    PROVE  IsFiniteSet(SleepersOn(o, e)) /\ Cardinality(SleepersOn(o, e)) \in Nat
BY ObjectsAssumption, FS_Subset, FS_CardinalityType DEF SleepersOn

\* An object has at most one handle.
LEMMA OneHandle ==
    ASSUME NEW s \in [Handles -> Events \cup {None}], NEW e \in Events, Injective(s)
    PROVE  Cardinality({h \in Handles : s[h] = e}) = InSlots(s, e)
<1>0. e # None
    BY DEF Events, None
<1>1. CASE \E h \in Handles : s[h] = e
  <2>1. PICK h \in Handles : s[h] = e
    BY <1>1
  <2>2. {g \in Handles : s[g] = e} = {h}
    BY <1>0, <2>1 DEF Injective
  <2> QED
    BY <1>1, <2>2, FS_Singleton DEF InSlots
<1>2. CASE ~ \E h \in Handles : s[h] = e
  <2>1. {g \in Handles : s[g] = e} = {}
    BY <1>2
  <2> QED
    BY <1>2, <2>1, FS_EmptySet DEF InSlots
<1> QED
    BY <1>1, <1>2

Among(es, e) == IF \E i \in DOMAIN es : es[i] = e THEN 1 ELSE 0

\* A thread t goes to sleep (o before, o2 after), or wakes (the other way round).
LEMMA OneSleeper ==
    ASSUME NEW t \in Threads, NEW o, NEW o2, NEW e,
           o[t] = <<>>, \A u \in Threads : u # t => o2[u] = o[u]
    PROVE  Cardinality(SleepersOn(o2, e)) = Cardinality(SleepersOn(o, e)) + Among(o2[t], e)
<1>1. t \notin SleepersOn(o, e)
    BY DEF SleepersOn
<1>2. CASE \E i \in DOMAIN o2[t] : o2[t][i] = e
  <2>1. SleepersOn(o2, e) = SleepersOn(o, e) \cup {t}
    BY <1>2 DEF SleepersOn
  <2>2. Among(o2[t], e) = 1
    BY <1>2 DEF Among
  <2> QED
    BY <1>1, <2>1, <2>2, FS_AddElement, SleepersCounted, Zenon
<1>3. CASE ~ \E i \in DOMAIN o2[t] : o2[t][i] = e
  <2>1. SleepersOn(o2, e) = SleepersOn(o, e)
    BY <1>1, <1>3 DEF SleepersOn
  <2>2. Among(o2[t], e) = 0
    BY <1>3 DEF Among
  <2> QED
    BY <2>1, <2>2, SleepersCounted
<1> QED
    BY <1>2, <1>3
-----------------------------------------------------------------------------
(* The inductive invariant: what is referenced is counted, and SdkLock has *)
(* one token, which is the holder, the one about to set the event, or the  *)
(* event.                                                                  *)

Counting(p) == {t \in Threads : p[t] \in {"want", "hold"}}
HasToken(t) == pc[t] \in {"hold", "letting"}

RefInv ==
    /\ Injective(slot)
    /\ \A e \in Events :
          /\ refcnt[e] = InSlots(slot, e) + Cardinality(SleepersOn(on, e)) + lost[e]
          /\ used[e] <=> refcnt[e] > 0

TokenInv ==
    /\ Count = Cardinality(Counting(pc))
    /\ alive => slot[LockHandle] \in Events /\ auto_reset[slot[LockHandle]]
    /\ ~ alive => /\ \A t \in Threads : pc[t] = "out" /\ on[t] = <<>>
                  /\ \A h \in Handles : slot[h] = None
    /\ \A t, u \in Threads : HasToken(t) /\ HasToken(u) => t = u
    /\ \A t \in Threads : HasToken(t) => Count > 0 /\ ~ is_set[slot[LockHandle]]
    /\ alive /\ Count = 0 => ~ is_set[slot[LockHandle]]
    /\ \A t \in Threads : Asleep(t) =>
          IF pc[t] = "want" THEN on[t] = <<slot[LockHandle]>>
                            ELSE pc[t] # "letting" /\ slot[LockHandle] \notin Items(t)

SyncInv == TypeOK /\ RefInv /\ TokenInv
-----------------------------------------------------------------------------
(* The kernel's operations keep the counts.                                *)

\* An event that is not used is referenced by nobody.
LEMMA FreeIsFree ==
    ASSUME TypeOK, RefInv, NEW e \in FreeEvents
    PROVE  /\ e \in Events /\ refcnt[e] = 0 /\ lost[e] = 0
           /\ Cardinality(SleepersOn(on, e)) = 0
           /\ \A h \in Handles : slot[h] # e
<1>1. e \in Events /\ ~ used[e] /\ refcnt[e] \in Nat /\ lost[e] \in Nat
    BY DEF FreeEvents, TypeOK, ObjectTypeOK
<1>2. Cardinality(SleepersOn(on, e)) \in Nat
    BY SleepersCounted
<1>3. InSlots(slot, e) \in {0, 1}
    BY DEF InSlots
<1>4. refcnt[e] = 0 /\ InSlots(slot, e) = 0 /\ Cardinality(SleepersOn(on, e)) = 0 /\ lost[e] = 0
    BY <1>1, <1>2, <1>3 DEF RefInv
<1> QED
    BY <1>1, <1>4 DEF InSlots

\* Create picks an event nobody knows and a slot nobody uses.
LEMMA CreatePicks ==
    ASSUME FreeEvents # {}, FreeHandles # {}
    PROVE  Lowest(FreeEvents) \in FreeEvents /\ Lowest(FreeHandles) \in FreeHandles
<1>1. FreeEvents \in SUBSET Nat /\ FreeHandles \in SUBSET Nat
    BY ObjectsAssumption DEF FreeEvents, FreeHandles, Events, Handles
<1> QED
    BY <1>1, LowestIsIn

\* A new object has the one reference of its handle.
LEMMA CreateCounts ==
    ASSUME TypeOK, RefInv, NEW auto, Create(auto), UNCHANGED <<on, lost>>
    PROVE  RefInv'
<1> DEFINE e0 == Lowest(FreeEvents)
           h0 == Lowest(FreeHandles)
<1>1. e0 \in FreeEvents /\ h0 \in FreeHandles
    BY CreatePicks DEF Create
<1>2. /\ e0 \in Events /\ h0 \in Handles /\ slot[h0] = None /\ e0 # None
      /\ refcnt[e0] = 0 /\ lost[e0] = 0 /\ Cardinality(SleepersOn(on, e0)) = 0
      /\ \A h \in Handles : slot[h] # e0
    BY <1>1, FreeIsFree DEF FreeHandles, Events, None
<1>3. /\ used' = [used EXCEPT ![e0] = TRUE] /\ refcnt' = [refcnt EXCEPT ![e0] = 1]
      /\ slot' = [slot EXCEPT ![h0] = e0]
    BY DEF Create
<1> HIDE DEF e0, h0
<1>4. slot \in [Handles -> Events \cup {None}] /\ refcnt \in [Events -> Nat] /\ used \in [Events -> BOOLEAN]
    BY DEF TypeOK, ObjectTypeOK
<1>5. Injective(slot')
    BY <1>2, <1>3, <1>4 DEF RefInv, Injective
<1>6. ASSUME NEW e \in Events
      PROVE  /\ refcnt'[e] = InSlots(slot', e) + Cardinality(SleepersOn(on, e)) + lost[e]
             /\ used'[e] <=> refcnt'[e] > 0
  <2>1. CASE e = e0
    <3>1. InSlots(slot', e0) = 1
      BY <1>2, <1>3, <1>4 DEF InSlots
    <3> QED
      BY <1>2, <1>3, <1>4, <2>1, <3>1
  <2>2. CASE e # e0
    <3>1. e # None
      BY DEF Events, None
    <3>2. InSlots(slot', e) = InSlots(slot, e)
      BY <1>2, <1>3, <1>4, <2>2, <3>1 DEF InSlots
    <3> QED
      BY <1>3, <1>4, <2>2, <3>2 DEF RefInv
  <2> QED
    BY <2>1, <2>2
<1> QED
    BY <1>5, <1>6 DEF RefInv

\* A call that goes to sleep has its own reference to what it waits for.
LEMMA SleepCounts ==
    ASSUME TypeOK, RefInv, NEW t \in Threads, on[t] = <<>>,
           NEW es \in Seq(Events), \A i \in DOMAIN es : \E h \in Handles : slot[h] = es[i],
           NEW timed, WaitSleeps(t, es, timed), UNCHANGED lost
    PROVE  RefInv'
<1>1. /\ on' = [on EXCEPT ![t] = es] /\ UNCHANGED <<used, slot>>
      /\ refcnt' = GetAll({es[i] : i \in DOMAIN es})
    BY DEF WaitSleeps
<1>2. on \in [Threads -> Seq(Events)] /\ refcnt \in [Events -> Nat] /\ lost \in [Events -> Nat]
    BY DEF TypeOK, ObjectTypeOK
<1>3. ASSUME NEW e \in Events
      PROVE  /\ refcnt'[e] = InSlots(slot, e) + Cardinality(SleepersOn(on', e)) + lost[e]
             /\ used[e] <=> refcnt'[e] > 0
  <2>1. Cardinality(SleepersOn(on', e)) = Cardinality(SleepersOn(on, e)) + Among(es, e)
    <3>1. on'[t] = es /\ \A u \in Threads : u # t => on'[u] = on[u]
      BY <1>1, <1>2
    <3> QED
      BY <3>1, OneSleeper
  <2>2. refcnt'[e] = refcnt[e] + Among(es, e)
    BY <1>1, <1>2 DEF GetAll, Among
  <2>3. Among(es, e) = 1 => InSlots(slot, e) = 1
    BY DEF InSlots, Among
  <2>4. /\ Cardinality(SleepersOn(on, e)) \in Nat
        /\ InSlots(slot, e) \in {0, 1} /\ Among(es, e) \in {0, 1}
    BY SleepersCounted DEF InSlots, Among
  <2> QED
    BY <1>2, <2>1, <2>2, <2>3, <2>4 DEF RefInv
<1> QED
    BY <1>1, <1>3, Zenon DEF RefInv

\* A call that comes back gives its references up.
LEMMA WakeCounts ==
    ASSUME TypeOK, RefInv, NEW t \in Threads, WaitEnds(t), UNCHANGED lost
    PROVE  RefInv'
<1>1. on' = [on EXCEPT ![t] = <<>>] /\ Put(Items(t)) /\ UNCHANGED slot
    BY DEF WaitEnds
<1>2. /\ on \in [Threads -> Seq(Events)] /\ refcnt \in [Events -> Nat]
      /\ lost \in [Events -> Nat] /\ used \in [Events -> BOOLEAN]
    BY DEF TypeOK, ObjectTypeOK
<1>3. on'[t] = <<>> /\ \A u \in Threads : u # t => on[u] = on'[u]
    BY <1>1, <1>2
<1>4. ASSUME NEW e \in Events
      PROVE  /\ refcnt'[e] = InSlots(slot, e) + Cardinality(SleepersOn(on', e)) + lost[e]
             /\ used'[e] <=> refcnt'[e] > 0
  <2> DEFINE k == Among(on[t], e)
  <2>1. Cardinality(SleepersOn(on, e)) = Cardinality(SleepersOn(on', e)) + k
    BY <1>3, OneSleeper
  <2>2. k = 1 <=> e \in Items(t)
    BY DEF Items, Among
  <2>3. /\ Cardinality(SleepersOn(on, e)) \in Nat /\ Cardinality(SleepersOn(on', e)) \in Nat
        /\ InSlots(slot, e) \in {0, 1} /\ k \in {0, 1}
    BY SleepersCounted DEF InSlots, Among
  <2> HIDE DEF k
  <2>4. refcnt[e] >= k
    BY <1>2, <2>1, <2>3 DEF RefInv
  <2>5. refcnt'[e] = refcnt[e] - k
    BY <1>1, <1>2, <2>2, <2>3, <2>4 DEF Put
  <2>6. used'[e] <=> used[e] /\ ~(k = 1 /\ refcnt[e] = 1)
    BY <1>1, <1>2, <2>2, Zenon DEF Put
  <2> QED
    BY <1>2, <2>1, <2>3, <2>4, <2>5, <2>6 DEF RefInv
<1> QED
    BY <1>1, <1>4, Zenon DEF RefInv

\* A handle is closed: the event loses the reference of the table.
LEMMA CloseCounts ==
    ASSUME TypeOK, RefInv, NEW h \in Handles, Close(h), UNCHANGED lost
    PROVE  RefInv'
<1>1. /\ slot[h] # None /\ Put({slot[h]}) /\ slot' = [slot EXCEPT ![h] = None]
      /\ UNCHANGED on
    BY DEF Close, sleepVars
<1>2. /\ slot \in [Handles -> Events \cup {None}] /\ refcnt \in [Events -> Nat]
      /\ lost \in [Events -> Nat] /\ used \in [Events -> BOOLEAN]
    BY DEF TypeOK, ObjectTypeOK
<1>3. Injective(slot')
    BY <1>1, <1>2 DEF RefInv, Injective
<1>4. ASSUME NEW e \in Events
      PROVE  /\ refcnt'[e] = InSlots(slot', e) + Cardinality(SleepersOn(on, e)) + lost[e]
             /\ used'[e] <=> refcnt'[e] > 0
  <2>0. e # None /\ Cardinality(SleepersOn(on, e)) \in Nat
    BY SleepersCounted DEF Events, None
  <2>1. CASE e = slot[h]
    <3>0. \A g \in Handles : slot'[g] # e
      BY <1>1, <1>2, <2>0, <2>1 DEF RefInv, Injective
    <3>1. InSlots(slot, e) = 1 /\ InSlots(slot', e) = 0
      BY <2>1, <3>0, Zenon DEF InSlots
    <3>2. refcnt[e] = 1 + Cardinality(SleepersOn(on, e)) + lost[e] /\ used[e]
      BY <1>2, <2>0, <3>1 DEF RefInv
    <3>3. refcnt[e] \in Nat /\ lost[e] \in Nat /\ refcnt[e] > 0
      BY <1>2, <2>0, <3>2
    <3>4. refcnt'[e] = refcnt[e] - 1
      BY <1>1, <2>1, <3>3 DEF Put
    <3>5. used'[e] <=> refcnt[e] # 1
      BY <1>1, <2>1, <3>2, Zenon DEF Put
    <3> QED
      BY <2>0, <3>1, <3>2, <3>3, <3>4, <3>5
  <2>2. CASE e # slot[h]
    <3>1. InSlots(slot', e) = InSlots(slot, e)
      BY <1>1, <1>2, <2>0, <2>2 DEF InSlots
    <3>2. refcnt'[e] = refcnt[e] /\ used'[e] = used[e]
      BY <1>1, <1>2, <2>2 DEF Put
    <3> QED
      BY <3>1, <3>2 DEF RefInv
  <2> QED
    BY <2>1, <2>2
<1> QED
    BY <1>1, <1>3, <1>4, Zenon DEF RefInv

\* The program ends: the table gives its references up, the threads that
\* sleep leave theirs behind.
LEMMA EndCounts ==
    ASSUME TypeOK, RefInv, Terminate
    PROVE  RefInv'
<1>1. /\ Put(InTable) /\ slot' = [h \in Handles |-> None] /\ on' = [t \in Threads |-> <<>>]
      /\ lost' = [e \in Events |-> lost[e] + Cardinality({t \in Threads : e \in Items(t)})]
    BY DEF Terminate, EndProgram
<1>2. /\ refcnt \in [Events -> Nat] /\ lost \in [Events -> Nat] /\ used \in [Events -> BOOLEAN]
    BY DEF TypeOK, ObjectTypeOK
<1>3. Injective(slot')
    BY <1>1 DEF Injective
<1>4. ASSUME NEW e \in Events
      PROVE  /\ refcnt'[e] = InSlots(slot', e) + Cardinality(SleepersOn(on', e)) + lost'[e]
             /\ used'[e] <=> refcnt'[e] > 0
  <2>0. e # None /\ Cardinality(SleepersOn(on, e)) \in Nat
    BY SleepersCounted DEF Events, None
  <2>1. InSlots(slot', e) = 0
    BY <1>1, <2>0 DEF InSlots
  <2>2. Cardinality(SleepersOn(on', e)) = 0
    <3>1. SleepersOn(on', e) = {}
      BY <1>1 DEF SleepersOn
    <3> QED
      BY <3>1, FS_EmptySet
  <2>3. {t \in Threads : e \in Items(t)} = SleepersOn(on, e)
    BY DEF Items, SleepersOn
  <2>4. lost'[e] = lost[e] + Cardinality(SleepersOn(on, e))
    BY <1>1, <2>3
  <2>5. InSlots(slot, e) = 1 <=> e \in InTable
    BY <2>0 DEF InSlots, InTable
  <2>6. InSlots(slot, e) \in {0, 1}
    BY DEF InSlots
  <2>7. refcnt[e] = InSlots(slot, e) + Cardinality(SleepersOn(on, e)) + lost[e] /\ (used[e] <=> refcnt[e] > 0)
    BY DEF RefInv
  <2>8. refcnt'[e] = refcnt[e] - InSlots(slot, e)
    BY <1>1, <1>2, <2>0, <2>5, <2>6, <2>7 DEF Put
  <2>9. used'[e] <=> used[e] /\ ~(InSlots(slot, e) = 1 /\ refcnt[e] = 1)
    BY <1>1, <1>2, <2>5, Zenon DEF Put
  <2> QED
    BY <1>2, <2>0, <2>1, <2>2, <2>4, <2>6, <2>7, <2>8, <2>9
<1> QED
    BY <1>3, <1>4 DEF RefInv

\* What leaves the references alone.
LEMMA NoRefs ==
    ASSUME RefInv, UNCHANGED <<used, refcnt, slot, on, lost>>
    PROVE  RefInv'
BY DEF RefInv
-----------------------------------------------------------------------------
(* The references through every step.                                      *)

\* The item a wait succeeds with is one of those it waits for.
LEMMA ReadyIsOne ==
    ASSUME NEW es \in Seq(Events), Signaled(es) # {}
    PROVE  \E i \in DOMAIN es : FirstReady(es) = es[i] /\ is_set[es[i]] /\ es[i] \in Events
<1>1. Signaled(es) \in SUBSET Nat
    BY DEF Signaled
<1>2. Lowest(Signaled(es)) \in Signaled(es)
    BY <1>1, LowestIsIn
<1>3. PICK i \in Signaled(es) : i = Lowest(Signaled(es))
    BY <1>2, Zenon
<1>4. i \in DOMAIN es /\ is_set[es[i]] /\ es[i] \in Events
    BY DEF Signaled
<1>5. FirstReady(es) = es[i]
    BY <1>3 DEF FirstReady
<1> QED
    BY <1>4, <1>5

\* A handle of the program's own is that of an event, and not the lock's.
LEMMA OwnFacts ==
    ASSUME TypeOK, RefInv, TokenInv, alive, NEW h \in Own
    PROVE  /\ h \in Handles /\ LockHandle \in Handles
           /\ slot[h] \in Events /\ slot[LockHandle] \in Events /\ slot[h] # slot[LockHandle]
<1>1. h \in Handles /\ h # LockHandle /\ slot[h] # None /\ LockHandle \in Handles
    BY ObjectsAssumption DEF Own, LockHandle, Handles
<1>2. slot[h] \in Events
    BY <1>1 DEF TypeOK, ObjectTypeOK
<1> QED
    BY <1>1, <1>2 DEF TokenInv, RefInv, Injective

\* Every step keeps the references exact.
LEMMA RefStep ==
    ASSUME SyncInv, Next
    PROVE  RefInv'
<1>0. TypeOK /\ RefInv /\ TokenInv
    BY DEF SyncInv
<1>1. CASE StartProgram
    BY <1>0, <1>1, CreateCounts, NoRefs, Zenon DEF StartProgram, objectVars, sleepVars
<1>2. CASE RequestEnd
    BY <1>0, <1>2, NoRefs DEF RequestEnd, objectVars, sleepVars
<1>3. CASE Terminate
    BY <1>0, <1>3, EndCounts
<1>4. ASSUME NEW t \in Threads, LockAcquire(t) \/ LockRelease(t) \/ LockSet(t)
      PROVE  RefInv'
    BY <1>0, <1>4, NoRefs DEF LockAcquire, LockRelease, LockSet, Set, objectVars, sleepVars
<1>5. ASSUME NEW t \in Threads, LockWait(t)
      PROVE  RefInv'
  <2> DEFINE es == <<slot[LockHandle]>>
  <2>1. CASE WaitSucceeds(es)
    BY <1>0, <1>5, <2>1, NoRefs DEF LockWait, WaitSucceeds, sleepVars
  <2>2. CASE WaitSleeps(t, es, FALSE)
    <3>1. alive /\ on[t] = <<>> /\ UNCHANGED lost
      BY <1>5 DEF LockWait, Runs, Asleep
    <3>2. LockHandle \in Handles /\ slot[LockHandle] \in Events
      BY <1>0, <3>1, ObjectsAssumption DEF TokenInv, LockHandle, Handles
    <3>3. es \in Seq(Events) /\ \A i \in DOMAIN es : \E h \in Handles : slot[h] = es[i]
      BY <3>2
    <3> QED
      BY <1>0, <2>2, <3>1, <3>3, SleepCounts, Zenon
  <2> QED
    BY <1>5, <2>1, <2>2, Zenon DEF LockWait
<1>6. ASSUME NEW t \in Threads, Resume(t)
      PROVE  RefInv'
  <2>1. CASE WaitEnds(t)
    BY <1>0, <1>6, <2>1, WakeCounts DEF Resume
  <2>2. CASE ResumeSleeps(t)
    BY <1>0, <1>6, <2>2, NoRefs DEF Resume, ResumeSleeps, objectVars
  <2> QED
    BY <1>6, <2>1, <2>2 DEF Resume, ResumeSignaled, ResumeInVain
<1>7. ASSUME NEW t \in Threads, NEW auto \in BOOLEAN, EventCreate(t, auto)
      PROVE  RefInv'
    BY <1>0, <1>7, CreateCounts DEF EventCreate, Calls, programVars, sleepVars
<1>8. ASSUME NEW t \in Threads, NEW h \in Own,
             EventSet(t, h) \/ EventReset(t, h) \/ EventClose(t, h)
      PROVE  RefInv'
  <2>1. h \in Handles /\ UNCHANGED lost
    BY <1>8 DEF Own, EventSet, EventReset, EventClose, Calls, programVars
  <2>2. CASE Close(h)
    BY <1>0, <2>1, <2>2, CloseCounts
  <2>3. CASE Set(slot[h]) \/ Reset(slot[h])
    BY <1>0, <2>1, <2>3, NoRefs DEF Set, Reset, sleepVars
  <2> QED
    BY <1>8, <2>2, <2>3 DEF EventSet, EventReset, EventClose
<1>9. ASSUME NEW t \in Threads, TimePasses(t)
      PROVE  RefInv'
    BY <1>0, <1>9, NoRefs DEF TimePasses, Tick, objectVars, programVars
<1>10. ASSUME NEW t \in Threads, Calls(t), NEW timed, NEW es \in Seq(Events),
              \A i \in DOMAIN es : \E h \in Handles : slot[h] = es[i],
              WaitSucceeds(es) \/ WaitSleeps(t, es, timed)
       PROVE  RefInv'
  <2>1. on[t] = <<>> /\ UNCHANGED lost
    BY <1>10 DEF Calls, Runs, Asleep, programVars
  <2>2. CASE WaitSucceeds(es)
    BY <1>0, <2>1, <2>2, NoRefs DEF WaitSucceeds, sleepVars
  <2>3. CASE WaitSleeps(t, es, timed)
    BY <1>0, <1>10, <2>1, <2>3, SleepCounts
  <2> QED
    BY <1>10, <2>2, <2>3
<1>11. ASSUME NEW t \in Threads, NEW h \in Own, NEW timed \in BOOLEAN, EventWait(t, h, timed)
       PROVE  RefInv'
  <2>1. alive /\ Calls(t)
    BY <1>11 DEF EventWait, Calls, Runs
  <2>2. h \in Handles /\ slot[h] \in Events
    BY <1>0, <2>1, OwnFacts
  <2>3. /\ <<slot[h]>> \in Seq(Events)
        /\ \A i \in DOMAIN <<slot[h]>> : \E g \in Handles : slot[g] = <<slot[h]>>[i]
    BY <2>2
  <2> QED
    BY <1>10, <1>11, <2>1, <2>3, Zenon DEF EventWait
<1>12. ASSUME NEW t \in Threads, NEW h \in Own, NEW g \in Own, NEW timed \in BOOLEAN,
              WaitAny(t, h, g, timed)
       PROVE  RefInv'
  <2>1. alive /\ Calls(t)
    BY <1>12 DEF WaitAny, Calls, Runs
  <2>2. h \in Handles /\ slot[h] \in Events /\ g \in Handles /\ slot[g] \in Events
    BY <1>0, <2>1, OwnFacts
  <2>3. /\ <<slot[h], slot[g]>> \in Seq(Events)
        /\ \A i \in DOMAIN <<slot[h], slot[g]>> :
              \E f \in Handles : slot[f] = <<slot[h], slot[g]>>[i]
    BY <2>2
  <2> QED
    BY <1>10, <1>12, <2>1, <2>3, Zenon DEF WaitAny
<1> QED
    BY <1>1, <1>2, <1>3, <1>4, <1>5, <1>6, <1>7, <1>8, <1>9, <1>11, <1>12, CallersAssumption, SMTT(60)
       DEF Next, GoesOn
-----------------------------------------------------------------------------
(* The lock's token through every step.                                    *)

\* The threads the lock counts are finitely many.
LEMMA CountingIsFinite ==
    ASSUME NEW p
    PROVE  /\ IsFiniteSet(Counting(p)) /\ Cardinality(Counting(p)) \in Nat
           /\ Cardinality(Counting(p)) <= Cardinality(Threads)
BY ObjectsAssumption, FS_Subset, FS_CardinalityType DEF Counting

\* One more thread is counted (p before, p2 after), or one fewer.
LEMMA CountOne ==
    ASSUME NEW t \in Threads, NEW p, NEW p2, \A u \in Threads : u # t => p2[u] = p[u],
           p[t] \notin {"want", "hold"}, p2[t] \in {"want", "hold"}
    PROVE  Cardinality(Counting(p2)) = Cardinality(Counting(p)) + 1
<1>1. Counting(p2) = Counting(p) \cup {t} /\ t \notin Counting(p)
    BY DEF Counting
<1> QED
    BY <1>1, FS_AddElement, CountingIsFinite, Zenon

\* A counted thread is one at least.
LEMMA CountedOnce ==
    ASSUME NEW t \in Threads, NEW p, p[t] \in {"want", "hold"}
    PROVE  Cardinality(Counting(p)) > 0
<1>1. t \in Counting(p)
    BY DEF Counting
<1>2. Cardinality(Counting(p)) # 0
    BY <1>1, FS_EmptySet, CountingIsFinite, SMTT(60)
<1> QED
    BY <1>2, CountingIsFinite

\* What leaves the lock, its event and those who sleep on it alone.
LEMMA LockUntouched ==
    ASSUME TokenInv, alive, UNCHANGED <<alive, Count, pc>>,
           slot'[LockHandle] = slot[LockHandle],
           auto_reset'[slot[LockHandle]] = auto_reset[slot[LockHandle]],
           is_set'[slot[LockHandle]] = is_set[slot[LockHandle]],
           \A t \in Threads :
              \/ on'[t] = <<>> \/ on'[t] = on[t]
              \/ pc[t] \in {"out", "hold"} /\ slot[LockHandle] \notin Items(t)'
    PROVE  TokenInv'
<1>1. \A t \in Threads : Asleep(t)' =>
          IF pc[t] = "want" THEN on'[t] = <<slot[LockHandle]>>
                            ELSE pc[t] # "letting" /\ slot[LockHandle] \notin Items(t)'
    BY DEF TokenInv, Asleep, Items
<1> QED
    BY <1>1, SMTT(60) DEF TokenInv, HasToken

\* A program starts with its lock free.
LEMMA StartToken ==
    ASSUME SyncInv, StartProgram
    PROVE  TokenInv'
<1>0. TypeOK /\ RefInv /\ TokenInv /\ ~ alive
    BY SMTT(60) DEF SyncInv, StartProgram
<1>1. CASE FreeEvents = {}
    BY <1>0, <1>1, SMTT(60) DEF StartProgram, TokenInv, objectVars, sleepVars, HasToken, Asleep
<1>2. CASE FreeEvents # {}
  <2>1. LockHandle \in FreeHandles /\ FreeHandles \in SUBSET Nat
    BY <1>0, ObjectsAssumption DEF TokenInv, FreeHandles, Handles, LockHandle
  <2>2. Lowest(FreeHandles) \in FreeHandles /\ Lowest(FreeHandles) <= LockHandle
    BY <2>1, LowestIsIn
  <2>3. Lowest(FreeHandles) = LockHandle
    BY <2>1, <2>2 DEF LockHandle, FreeHandles, Handles
  <2>4. Lowest(FreeEvents) \in Events
    BY <1>2, <2>1, CreatePicks DEF FreeEvents
  <2> DEFINE e == Lowest(FreeEvents)
  <2>5. /\ slot' = [slot EXCEPT ![LockHandle] = e] /\ auto_reset' = [auto_reset EXCEPT ![e] = TRUE]
        /\ is_set' = [is_set EXCEPT ![e] = FALSE]
        /\ UNCHANGED <<on, Count, pc>> /\ alive'
    BY <1>2, <2>3 DEF StartProgram, Create, sleepVars
  <2> HIDE DEF e
  <2>6. slot'[LockHandle] = e /\ auto_reset'[e] /\ ~ is_set'[e]
    BY <1>0, <2>1, <2>4, <2>5, SMTT(60) DEF TypeOK, ObjectTypeOK, FreeHandles, e
  <2>7. \A t \in Threads : pc[t] = "out" /\ on[t] = <<>>
    BY <1>0 DEF TokenInv
  <2>8. Count = Cardinality(Counting(pc)) /\ e \in Events
    BY <1>0, <2>4, SMTT(60) DEF TokenInv, e
  <2> QED
    BY <2>5, <2>6, <2>7, <2>8, SMTT(60) DEF TokenInv, HasToken, Asleep
<1> QED
    BY <1>1, <1>2

\* A program that ended has no lock left.
LEMMA TerminateToken ==
    ASSUME SyncInv, Terminate
    PROVE  TokenInv'
<1>1. /\ on' = [t \in Threads |-> <<>>] /\ slot' = [h \in Handles |-> None]
      /\ alive' = FALSE /\ Count' = 0 /\ pc' = [t \in Threads |-> "out"]
    BY DEF Terminate, EndProgram
<1>2. Cardinality(Counting(pc')) = 0
  <2>1. Counting(pc') = {}
    BY <1>1, SMTT(60) DEF Counting
  <2> QED
    BY <2>1, FS_EmptySet
<1> QED
    BY <1>1, <1>2 DEF TokenInv, HasToken, Asleep

\* The token goes to a thread that waited for it: it has used the event up.
LEMMA TokenTaken ==
    ASSUME SyncInv, alive, NEW t \in Threads, pc[t] = "want",
           is_set[slot[LockHandle]], is_set' = Consume(slot[LockHandle]),
           pc' = [pc EXCEPT ![t] = "hold"], on' = [on EXCEPT ![t] = <<>>],
           UNCHANGED <<alive, Count, slot, auto_reset>>
    PROVE  TokenInv'
<1> DEFINE L == slot[LockHandle]
<1>0. TypeOK /\ TokenInv
    BY DEF SyncInv
<1>1. /\ pc \in [Threads -> {"out", "want", "hold", "letting"}]
      /\ on \in [Threads -> Seq(Events)] /\ is_set \in [Events -> BOOLEAN]
    BY <1>0 DEF TypeOK, ObjectTypeOK
<1>2. L \in Events /\ auto_reset[L] /\ is_set[L]
    BY <1>0 DEF TokenInv
<1>3. ~ is_set'[L]
    BY <1>1, <1>2, ZenonT(60) DEF Consume
<1>4. \A u \in Threads : ~ HasToken(u)
    BY <1>0, <1>2, SMTT(60) DEF TokenInv
<1>5. Count > 0 /\ Count' = Cardinality(Counting(pc'))
  <2>1. Counting(pc') = Counting(pc)
    BY <1>1 DEF Counting
  <2> QED
    BY <1>0, <2>1, CountedOnce DEF TokenInv
<1>6. \A u \in Threads : HasToken(u)' => u = t
    BY <1>1, <1>4 DEF HasToken
<1>7. \A u \in Threads : Asleep(u)' => u # t /\ Asleep(u) /\ pc'[u] = pc[u] /\ on'[u] = on[u]
    BY <1>1, SMTT(60) DEF Asleep
<1> QED
  <2>1. \A u \in Threads : Asleep(u)' =>
          IF pc'[u] = "want" THEN on'[u] = <<L>> ELSE pc'[u] # "letting" /\ L \notin Items(u)'
    BY <1>0, <1>7 DEF TokenInv, Items
  <2> QED
    BY <1>2, <1>3, <1>5, <1>6, <2>1, SMTT(60) DEF TokenInv

\* The first to count itself has the token.
LEMMA LockAcquireToken ==
    ASSUME SyncInv, NEW t \in Threads, LockAcquire(t)
    PROVE  TokenInv'
<1>0. TypeOK /\ TokenInv
    BY DEF SyncInv
<1>1. /\ alive /\ on[t] = <<>> /\ pc[t] = "out" /\ Count' = Count + 1
      /\ pc' = [pc EXCEPT ![t] = IF Count = 0 THEN "hold" ELSE "want"]
      /\ UNCHANGED <<slot, auto_reset, is_set, on, alive>> /\ Count \in Nat
  <2>1. Count \in Nat
    BY <1>0, CountingIsFinite DEF TokenInv
  <2>2. Count' = Count + 1 /\ pc' = [pc EXCEPT ![t] = IF Count' = 1 THEN "hold" ELSE "want"]
    BY DEF LockAcquire, MoveTo
  <2>3. Count' = 1 <=> Count = 0
    BY <2>1, <2>2
  <2> QED
    BY <2>1, <2>2, <2>3, Zenon DEF LockAcquire, Runs, Asleep, objectVars, sleepVars
<1>2. pc \in [Threads -> {"out", "want", "hold", "letting"}]
    BY <1>0, SMTT(60) DEF TypeOK
<1>3. Count' = Cardinality(Counting(pc'))
  <2>1. pc'[t] \in {"want", "hold"} /\ \A u \in Threads : u # t => pc'[u] = pc[u]
    BY <1>1, <1>2
  <2>2. Cardinality(Counting(pc')) = Cardinality(Counting(pc)) + 1
    BY <1>1, <2>1, CountOne, ZenonT(60)
  <2> QED
    BY <1>0, <1>1, <2>2 DEF TokenInv
<1>4. \A u \in Threads : HasToken(u)' => HasToken(u) \/ (u = t /\ Count = 0)
    BY <1>1, <1>2 DEF HasToken
<1>5. /\ \A u, w \in Threads : HasToken(u)' /\ HasToken(w)' => u = w
      /\ \A u \in Threads : HasToken(u)' => ~ is_set[slot[LockHandle]]
    BY <1>0, <1>1, <1>4 DEF TokenInv
<1>6. \A u \in Threads : Asleep(u) => pc'[u] = pc[u]
    BY <1>1, <1>2 DEF Asleep
<1> QED
  <2>1. Count' > 0
    BY <1>1, SMTT(60)
  <2>2. \A u \in Threads : Asleep(u)' =>
          IF pc'[u] = "want" THEN on[u] = <<slot[LockHandle]>>
                             ELSE pc'[u] # "letting" /\ slot[LockHandle] \notin Items(u)'
    BY <1>0, <1>1, <1>6 DEF TokenInv, Asleep, Items
  <2> QED
    BY <1>0, <1>1, <1>3, <1>5, <2>1, <2>2, SMTT(60) DEF TokenInv

\* The holder leaves with the token if somebody counted itself meanwhile.
LEMMA LockReleaseToken ==
    ASSUME SyncInv, NEW t \in Threads, LockRelease(t)
    PROVE  TokenInv'
<1>0. TypeOK /\ TokenInv
    BY DEF SyncInv
<1>1. /\ alive /\ on[t] = <<>> /\ pc[t] = "hold" /\ Count' = Count - 1
      /\ pc' = [pc EXCEPT ![t] = IF Count' > 0 THEN "letting" ELSE "out"]
      /\ UNCHANGED <<slot, auto_reset, is_set, on, alive>>
    BY SMTT(60) DEF LockRelease, MoveTo, OthersCounted, Runs, Asleep, objectVars, sleepVars
<1>2. pc \in [Threads -> {"out", "want", "hold", "letting"}] /\ Count \in Nat
    BY <1>0, CountingIsFinite DEF TypeOK, TokenInv
<1>3. Count' = Cardinality(Counting(pc'))
  <2>1. /\ pc'[t] \notin {"want", "hold"} /\ pc[t] \in {"want", "hold"}
        /\ \A u \in Threads : u # t => pc[u] = pc'[u]
    BY <1>1, <1>2
  <2>2. Cardinality(Counting(pc)) = Cardinality(Counting(pc')) + 1
    BY <2>1, CountOne, Zenon
  <2>3. Cardinality(Counting(pc')) \in Nat /\ Count = Cardinality(Counting(pc))
    BY <1>0, CountingIsFinite, SMTT(60) DEF TokenInv
  <2> QED
    BY <1>1, <2>2, <2>3
<1>4. HasToken(t) /\ ~ is_set[slot[LockHandle]] /\ \A u \in Threads : HasToken(u) => u = t
    BY <1>0, <1>1, SMTT(60) DEF TokenInv, HasToken
<1>5. \A u \in Threads : HasToken(u)' => u = t /\ Count' > 0
    BY <1>1, <1>2, <1>4 DEF HasToken
<1>6. \A u \in Threads : Asleep(u) => pc'[u] = pc[u]
    BY <1>1, <1>2, SMTT(60) DEF Asleep
<1> QED
  <2>1. \A u \in Threads : Asleep(u)' =>
          IF pc'[u] = "want" THEN on[u] = <<slot[LockHandle]>>
                             ELSE pc'[u] # "letting" /\ slot[LockHandle] \notin Items(u)'
    BY <1>0, <1>1, <1>6 DEF TokenInv, Asleep, Items
  <2> QED
    BY <1>0, <1>1, <1>3, <1>4, <1>5, <2>1, SMTT(60) DEF TokenInv

\* The releaser hands the token to the event.
LEMMA LockSetToken ==
    ASSUME SyncInv, NEW t \in Threads, LockSet(t)
    PROVE  TokenInv'
<1>0. TypeOK /\ TokenInv
    BY DEF SyncInv
<1>1. /\ alive /\ on[t] = <<>> /\ pc[t] = "letting" /\ pc' = [pc EXCEPT ![t] = "out"]
      /\ UNCHANGED <<slot, auto_reset, on, alive, Count>>
    BY DEF LockSet, MoveTo, Set, Runs, Asleep
<1>2. pc \in [Threads -> {"out", "want", "hold", "letting"}]
    BY <1>0 DEF TypeOK
<1>3. Counting(pc') = Counting(pc)
    BY <1>1, <1>2, SMTT(60) DEF Counting
<1>4. HasToken(t) /\ Count > 0 /\ \A u \in Threads : HasToken(u) => u = t
    BY <1>0, <1>1 DEF TokenInv, HasToken
<1>5. \A u \in Threads : ~ HasToken(u)'
    BY <1>1, <1>2, <1>4 DEF HasToken
<1>6. \A u \in Threads : Asleep(u) => pc'[u] = pc[u]
    BY <1>1, <1>2 DEF Asleep
<1> QED
  <2>1. \A u \in Threads : Asleep(u)' =>
          IF pc'[u] = "want" THEN on[u] = <<slot[LockHandle]>>
                             ELSE pc'[u] # "letting" /\ slot[LockHandle] \notin Items(u)'
    BY <1>0, <1>1, <1>6, SMTT(60) DEF TokenInv, Asleep, Items
  <2>2. Count # 0 /\ Count' = Cardinality(Counting(pc'))
    BY <1>0, <1>1, <1>3, <1>4, CountingIsFinite, SMTT(60) DEF TokenInv
  <2> QED
    BY <1>0, <1>1, <1>5, <2>1, <2>2, SMTT(60) DEF TokenInv

\* A waiter takes the token from the event, or sleeps.
LEMMA LockWaitToken ==
    ASSUME SyncInv, NEW t \in Threads, LockWait(t)
    PROVE  TokenInv'
<1> DEFINE es == <<slot[LockHandle]>>
<1>0. TypeOK /\ TokenInv /\ alive /\ on[t] = <<>> /\ pc[t] = "want" /\ UNCHANGED <<alive, Count>>
    BY DEF SyncInv, LockWait, Runs, Asleep
<1>1. slot[LockHandle] \in Events /\ on \in [Threads -> Seq(Events)]
    BY <1>0 DEF TokenInv, TypeOK, ObjectTypeOK
<1>2. CASE WaitSucceeds(es) /\ MoveTo(t, "hold")
  <2>1. es \in Seq(Events) /\ Signaled(es) # {} /\ \A i \in DOMAIN es : es[i] = slot[LockHandle]
    BY <1>1, <1>2 DEF WaitSucceeds
  <2>2. FirstReady(es) = slot[LockHandle] /\ is_set[slot[LockHandle]]
    BY <2>1, ReadyIsOne, ZenonT(60)
  <2>3. on' = [on EXCEPT ![t] = <<>>]
    BY <1>0, <1>1, <1>2, SMTT(60) DEF WaitSucceeds, sleepVars
  <2> QED
    BY <1>0, <1>2, <2>2, <2>3, TokenTaken, Zenon DEF WaitSucceeds, MoveTo
<1>3. CASE WaitSleeps(t, es, FALSE) /\ UNCHANGED pc
  <2>1. /\ on' = [on EXCEPT ![t] = es] /\ UNCHANGED <<slot, auto_reset, is_set>>
    BY <1>3, SMTT(60) DEF WaitSleeps
  <2>2. \A u \in Threads : Asleep(u)' =>
          IF pc[u] = "want" THEN on'[u] = es
                            ELSE pc[u] # "letting" /\ slot[LockHandle] \notin Items(u)'
    BY <1>0, <1>1, <2>1 DEF TokenInv, Asleep, Items
  <2> QED
    BY <1>0, <1>3, <2>1, <2>2, SMTT(60) DEF TokenInv, HasToken
<1> QED
    BY <1>2, <1>3, Zenon DEF LockWait

\* A sleeper that wakes takes the token, or leaves it.
LEMMA ResumeToken ==
    ASSUME SyncInv, NEW t \in Threads, Resume(t)
    PROVE  TokenInv'
<1>0. TypeOK /\ TokenInv /\ alive /\ on[t] # <<>> /\ UNCHANGED <<alive, Count>>
    BY DEF SyncInv, Resume, ResumeSignaled, ResumeInVain, ResumeSleeps, Asleep
<1>1. /\ slot[LockHandle] \in Events /\ on[t] \in Seq(Events)
      /\ on \in [Threads -> Seq(Events)] /\ is_set \in [Events -> BOOLEAN]
      /\ pc \in [Threads -> {"out", "want", "hold", "letting"}]
    BY <1>0 DEF TokenInv, TypeOK, ObjectTypeOK
<1>2. CASE ResumeSignaled(t, ending) /\ MoveTo(t, IF pc[t] = "want" THEN "hold" ELSE pc[t])
  <2>1. /\ Signaled(on[t]) # {} /\ is_set' = Consume(FirstReady(on[t]))
        /\ on' = [on EXCEPT ![t] = <<>>] /\ UNCHANGED <<auto_reset, slot>>
    BY <1>2 DEF ResumeSignaled, WaitEnds
  <2>2. PICK i \in DOMAIN on[t] : FirstReady(on[t]) = on[t][i] /\ is_set[on[t][i]] /\ on[t][i] \in Events
    BY <1>1, <2>1, ReadyIsOne, SMTT(60)
  <2>3. CASE pc[t] = "want"
    <3>1. on[t][i] = slot[LockHandle]
      BY <1>0, <2>2, <2>3, SMTT(60) DEF TokenInv, Asleep
    <3> QED
      BY <1>0, <1>2, <2>1, <2>2, <2>3, <3>1, TokenTaken, ZenonT(60) DEF MoveTo
  <2>4. CASE pc[t] # "want"
    <3>1. on[t][i] # slot[LockHandle]
      BY <1>0, <2>2, <2>4, SMTT(60) DEF TokenInv, Asleep, Items
    <3>2. is_set'[slot[LockHandle]] = is_set[slot[LockHandle]]
      BY <1>1, <2>1, <2>2, <3>1 DEF Consume
    <3>3. pc' = pc
      BY <1>1, <1>2, <2>4 DEF MoveTo
    <3>4. \A u \in Threads : on'[u] = <<>> \/ on'[u] = on[u]
      BY <1>1, <2>1
    <3> QED
      BY <1>0, <2>1, <3>2, <3>3, <3>4, LockUntouched, SMTT(60)
  <2> QED
    BY <2>3, <2>4
<1>3. CASE ResumeInVain(t, ending) /\ UNCHANGED pc
  <2>1. on' = [on EXCEPT ![t] = <<>>] /\ UNCHANGED <<auto_reset, slot, is_set>>
    BY <1>3 DEF ResumeInVain, WaitEnds
  <2>2. \A u \in Threads : on'[u] = <<>> \/ on'[u] = on[u]
    BY <1>1, <2>1, SMTT(60)
  <2> QED
    BY <1>0, <1>3, <2>1, <2>2, LockUntouched
<1>4. CASE ResumeSleeps(t) /\ UNCHANGED pc
    BY <1>0, <1>4, LockUntouched, SMTT(60) DEF ResumeSleeps, objectVars
<1> QED
    BY <1>2, <1>3, <1>4, SMTT(60) DEF Resume

\* The program's own calls leave the lock alone.
LEMMA CallToken ==
    ASSUME SyncInv, NEW t \in Threads, Calls(t), NEW h \in Own,
           Set(slot[h]) \/ Reset(slot[h]) \/ Close(h)
    PROVE  TokenInv'
<1>0. TypeOK /\ RefInv /\ TokenInv /\ alive /\ UNCHANGED <<alive, Count, pc>>
    BY SMTT(60) DEF SyncInv, Calls, Runs, programVars
<1>1. /\ h \in Handles /\ LockHandle \in Handles /\ h # LockHandle
      /\ slot[h] \in Events /\ slot[LockHandle] \in Events /\ slot[h] # slot[LockHandle]
    BY <1>0, OwnFacts DEF Own
<1>2. is_set \in [Events -> BOOLEAN] /\ slot \in [Handles -> Events \cup {None}]
    BY <1>0 DEF TypeOK, ObjectTypeOK
<1>3. UNCHANGED <<on, auto_reset>> /\ slot'[LockHandle] = slot[LockHandle]
    BY <1>1, <1>2 DEF Set, Reset, Close, sleepVars
<1>4. is_set'[slot[LockHandle]] = is_set[slot[LockHandle]]
    BY <1>1, <1>2, SMTT(60) DEF Set, Reset, Close
<1> QED
    BY <1>0, <1>3, <1>4, LockUntouched

\* A new event is not the lock's.
LEMMA CreateToken ==
    ASSUME SyncInv, NEW t \in Threads, NEW auto, EventCreate(t, auto)
    PROVE  TokenInv'
<1> DEFINE e == Lowest(FreeEvents)
           h == Lowest(FreeHandles)
           L == slot[LockHandle]
<1>0. TypeOK /\ RefInv /\ TokenInv /\ alive /\ UNCHANGED <<alive, Count, pc, on>>
    BY DEF SyncInv, EventCreate, Calls, Runs, programVars, sleepVars
<1>1. e \in FreeEvents /\ h \in FreeHandles
    BY CreatePicks, SMTT(60) DEF EventCreate, Create
<1>2. LockHandle \in Handles /\ L \in Events /\ L # None
    BY <1>0, ObjectsAssumption, SMTT(60) DEF TokenInv, Handles, LockHandle, Events, None
<1>3. e # L /\ h # LockHandle /\ h \in Handles /\ e \in Events
    BY <1>0, <1>1, <1>2, FreeIsFree DEF FreeHandles, FreeEvents
<1>4. /\ is_set' = [is_set EXCEPT ![e] = FALSE] /\ auto_reset' = [auto_reset EXCEPT ![e] = auto]
      /\ slot' = [slot EXCEPT ![h] = e]
    BY DEF EventCreate, Create
<1>5. /\ is_set \in [Events -> BOOLEAN] /\ auto_reset \in [Events -> BOOLEAN]
      /\ slot \in [Handles -> Events \cup {None}]
    BY <1>0 DEF TypeOK, ObjectTypeOK
<1> HIDE DEF e, h
<1>6. is_set'[L] = is_set[L] /\ auto_reset'[L] = auto_reset[L] /\ slot'[LockHandle] = L
    BY <1>2, <1>3, <1>4, <1>5, ZenonT(60)
<1> QED
    BY <1>0, <1>6, LockUntouched

\* A wait for other events takes nothing from the lock's.
LEMMA WaitSucceedsToken ==
    ASSUME SyncInv, NEW t \in Threads, Calls(t), NEW es \in Seq(Events),
           \A i \in DOMAIN es : es[i] # slot[LockHandle],
           WaitSucceeds(es)
    PROVE  TokenInv'
<1>0. TypeOK /\ TokenInv /\ alive /\ UNCHANGED <<alive, Count, pc>>
    BY Zenon DEF SyncInv, Calls, Runs, programVars
<1>1. is_set \in [Events -> BOOLEAN] /\ slot[LockHandle] \in Events
    BY <1>0, Zenon DEF TypeOK, ObjectTypeOK, TokenInv
<1>2. Signaled(es) # {} /\ is_set' = Consume(FirstReady(es)) /\ UNCHANGED <<slot, auto_reset, on>>
    BY Zenon DEF WaitSucceeds, sleepVars
<1>3. FirstReady(es) # slot[LockHandle]
    BY <1>2, ReadyIsOne, Zenon
<1>4. is_set'[slot[LockHandle]] = is_set[slot[LockHandle]]
    BY <1>1, <1>2, <1>3, Zenon DEF Consume
<1> QED
    BY <1>0, <1>2, <1>4, LockUntouched, ZenonT(60)

\* Neither does one that sleeps.
LEMMA WaitSleepsToken ==
    ASSUME SyncInv, NEW t \in Threads, Calls(t), NEW timed, NEW es \in Seq(Events),
           \A i \in DOMAIN es : es[i] # slot[LockHandle],
           WaitSleeps(t, es, timed)
    PROVE  TokenInv'
<1>0. TypeOK /\ TokenInv /\ alive /\ pc[t] \in {"out", "hold"} /\ UNCHANGED <<alive, Count, pc>>
    BY Zenon DEF SyncInv, Calls, Runs, programVars
<1>1. on \in [Threads -> Seq(Events)]
    BY <1>0, Zenon DEF TypeOK, ObjectTypeOK
<1>2. on' = [on EXCEPT ![t] = es] /\ UNCHANGED <<slot, auto_reset, is_set>>
    BY Zenon DEF WaitSleeps
<1>3. \A u \in Threads : u # t => on'[u] = on[u]
    BY <1>1, <1>2, Zenon
<1>4. slot[LockHandle] \notin Items(t)'
    BY <1>1, <1>2, Zenon DEF Items
<1> QED
    BY <1>0, <1>2, <1>3, <1>4, LockUntouched, ZenonT(60)

\* Every step keeps at most one token.
LEMMA TokenStep ==
    ASSUME SyncInv, Next
    PROVE  TokenInv'
<1>0. TypeOK /\ RefInv /\ TokenInv
    BY DEF SyncInv
<1>1. CASE StartProgram
    BY <1>1, StartToken, SMTT(60)
<1>2. CASE RequestEnd
    BY <1>0, <1>2, LockUntouched, SMTT(60) DEF RequestEnd, objectVars, sleepVars
<1>3. CASE Terminate
    BY <1>3, TerminateToken
<1>4. ASSUME NEW t \in Threads, GoesOn(t) \/ LockAcquire(t) \/ LockRelease(t)
      PROVE  TokenInv'
    BY <1>4, LockWaitToken, LockSetToken, ResumeToken, LockAcquireToken, LockReleaseToken, SMTT(60) DEF GoesOn
<1>5. ASSUME NEW t \in Threads, NEW auto \in BOOLEAN, EventCreate(t, auto)
      PROVE  TokenInv'
    BY <1>5, CreateToken
<1>6. ASSUME NEW t \in Threads, NEW h \in Own,
             EventSet(t, h) \/ EventReset(t, h) \/ EventClose(t, h)
      PROVE  TokenInv'
    BY <1>6, CallToken, SMTT(60) DEF EventSet, EventReset, EventClose
<1>7. ASSUME NEW t \in Threads, TimePasses(t)
      PROVE  TokenInv'
  <2>1. UNCHANGED <<is_set, auto_reset, slot, on, alive, Count, pc>>
    BY <1>7 DEF TimePasses, Tick, objectVars, programVars
  <2> QED
    BY <1>0, <2>1 DEF TokenInv, HasToken, Asleep, Items
<1>8. ASSUME NEW t \in Threads, NEW h \in Own, NEW timed \in BOOLEAN, EventWait(t, h, timed)
      PROVE  TokenInv'
  <2>1. Calls(t) /\ alive
    BY <1>8 DEF EventWait, Calls, Runs
  <2>2. slot[h] \in Events /\ slot[h] # slot[LockHandle]
    BY <1>0, <2>1, OwnFacts
  <2>3. <<slot[h]>> \in Seq(Events) /\ \A i \in DOMAIN <<slot[h]>> : <<slot[h]>>[i] # slot[LockHandle]
    BY <2>2
  <2> QED
    BY <1>8, <2>1, <2>3, WaitSucceedsToken, WaitSleepsToken, ZenonT(60) DEF EventWait
<1>9. ASSUME NEW t \in Threads, NEW h \in Own, NEW g \in Own, NEW timed \in BOOLEAN,
             WaitAny(t, h, g, timed)
      PROVE  TokenInv'
  <2> DEFINE es == <<slot[h], slot[g]>>
  <2>1. Calls(t) /\ alive
    BY <1>9 DEF WaitAny, Calls, Runs
  <2>2. /\ slot[h] \in Events /\ slot[h] # slot[LockHandle]
        /\ slot[g] \in Events /\ slot[g] # slot[LockHandle]
    BY <1>0, <2>1, OwnFacts
  <2>3. es \in Seq(Events) /\ \A i \in DOMAIN es : es[i] # slot[LockHandle]
    BY <2>2
  <2> QED
    BY <1>9, <2>1, <2>3, WaitSucceedsToken, WaitSleepsToken, ZenonT(60) DEF WaitAny
<1> QED
    BY <1>1, <1>2, <1>3, <1>4, <1>5, <1>6, <1>7, <1>8, <1>9, CallersAssumption, SMTT(60) DEF Next
-----------------------------------------------------------------------------
(* Types through every step.                                               *)

\* Every step keeps the types of the objects.
LEMMA ObjectTypeStep ==
    ASSUME SyncInv, Next
    PROVE  ObjectTypeOK'
<1>0. TypeOK /\ RefInv /\ TokenInv /\ ObjectTypeOK
    BY DEF SyncInv, TypeOK
<1>1. ASSUME NEW auto \in BOOLEAN, Create(auto), UNCHANGED sleepVars
      PROVE  ObjectTypeOK'
  <2>1. Lowest(FreeEvents) \in Events /\ Lowest(FreeHandles) \in Handles
    BY <1>1, CreatePicks DEF Create, FreeEvents, FreeHandles
  <2> QED
    BY <1>0, <1>1, <2>1, SMTT(60) DEF Create, ObjectTypeOK, sleepVars
<1>2. ASSUME NEW t \in Threads, NEW es \in Seq(Events), NEW timed,
             WaitSucceeds(es) \/ WaitSleeps(t, es, timed)
      PROVE  ObjectTypeOK'
  <2>1. CASE WaitSucceeds(es)
    <3>1. is_set' \in [Events -> BOOLEAN]
      BY <1>0, <2>1, Zenon DEF ObjectTypeOK, WaitSucceeds, Consume
    <3> QED
      BY <1>0, <2>1, <3>1, SMTT(60) DEF ObjectTypeOK, WaitSucceeds, sleepVars
  <2>2. CASE WaitSleeps(t, es, timed)
    <3>1. refcnt' \in [Events -> Nat]
      BY <1>0, <2>2, SMTT(60) DEF ObjectTypeOK, WaitSleeps, GetAll
    <3>2. /\ on' \in [Threads -> Seq(Events)] /\ woken' \in [Threads -> BOOLEAN]
          /\ deadline' \in [Threads -> {"none", "ahead", "due"}]
      BY <1>0, <1>2, <2>2, SMTT(60) DEF ObjectTypeOK, WaitSleeps
    <3> QED
      BY <1>0, <2>2, <3>1, <3>2, Zenon DEF ObjectTypeOK, WaitSleeps
  <2> QED
    BY <1>2, <2>1, <2>2, SMTT(60)
<1>3. ASSUME NEW t \in Threads, Resume(t)
      PROVE  ObjectTypeOK'
  <2>1. is_set' \in [Events -> BOOLEAN]
    BY <1>0, <1>3, Zenon DEF Resume, ResumeSignaled, ResumeInVain, ResumeSleeps, Consume, ObjectTypeOK, objectVars
  <2>2. CASE WaitEnds(t)
    BY <1>0, <2>1, <2>2 DEF WaitEnds, Put, ObjectTypeOK
  <2>3. CASE ResumeSleeps(t)
    BY <1>0, <2>3 DEF ResumeSleeps, ObjectTypeOK, objectVars
  <2> QED
    BY <1>3, <2>2, <2>3, SMTT(60) DEF Resume, ResumeSignaled, ResumeInVain
<1>4. ASSUME NEW e \in Events, Set(e) \/ Reset(e)
      PROVE  ObjectTypeOK'
    BY <1>0, <1>4, Zenon DEF Set, Reset, ObjectTypeOK, sleepVars
<1>5. ASSUME NEW h \in Handles, Close(h)
      PROVE  ObjectTypeOK'
    BY <1>0, <1>5, SMTT(60) DEF Close, Put, ObjectTypeOK, sleepVars
<1>6. CASE EndProgram
    BY <1>0, <1>6, SMTT(60) DEF EndProgram, Put, ObjectTypeOK
<1>7. ASSUME NEW t \in Threads, Tick(t)
      PROVE  ObjectTypeOK'
    BY <1>0, <1>7, SMTT(60) DEF Tick, ObjectTypeOK, objectVars
<1>8. CASE UNCHANGED <<objectVars, sleepVars>>
    BY <1>0, <1>8 DEF ObjectTypeOK, objectVars, sleepVars
<1>9. ASSUME alive, NEW h \in Own
      PROVE  h \in Handles /\ slot[h] \in Events /\ <<slot[h]>> \in Seq(Events)
    BY <1>0, <1>9, OwnFacts, SMTT(60)
<1>10. alive => slot[LockHandle] \in Events /\ <<slot[LockHandle]>> \in Seq(Events)
    BY <1>0 DEF TokenInv
<1>11. CASE StartProgram \/ RequestEnd \/ Terminate
    BY <1>1, <1>6, <1>8, <1>11, Zenon DEF StartProgram, RequestEnd, Terminate
<1>12. ASSUME NEW t \in Threads, GoesOn(t) \/ LockAcquire(t) \/ LockRelease(t)
       PROVE  ObjectTypeOK'
    BY <1>2, <1>3, <1>4, <1>8, <1>10, <1>12, ZenonT(60) DEF GoesOn, LockWait, LockSet, LockAcquire, LockRelease, Runs
<1>13. ASSUME NEW t \in Threads, NEW auto \in BOOLEAN, EventCreate(t, auto)
       PROVE  ObjectTypeOK'
    BY <1>1, <1>13 DEF EventCreate
<1>14. ASSUME NEW t \in Threads, NEW h \in Own, NEW timed,
              \/ EventSet(t, h) \/ EventReset(t, h) \/ EventClose(t, h) \/ EventWait(t, h, timed)
       PROVE  ObjectTypeOK'
  <2>1. h \in Handles /\ slot[h] \in Events /\ <<slot[h]>> \in Seq(Events)
    BY <1>9, <1>14 DEF EventSet, EventReset, EventClose, EventWait, Calls, Runs
  <2>2. CASE EventSet(t, h) \/ EventReset(t, h) \/ EventClose(t, h)
    BY <1>4, <1>5, <2>1, <2>2, SMTT(60) DEF EventSet, EventReset, EventClose
  <2>3. CASE EventWait(t, h, timed)
    BY <1>2, <2>1, <2>3, Zenon DEF EventWait
  <2> QED
    BY <1>14, <2>2, <2>3, SMTT(60)
<1>15. ASSUME NEW t \in Threads, NEW h \in Own, NEW g \in Own, NEW timed, WaitAny(t, h, g, timed)
       PROVE  ObjectTypeOK'
  <2>1. slot[h] \in Events /\ slot[g] \in Events
    BY <1>9, <1>15 DEF WaitAny, Calls, Runs
  <2>2. <<slot[h], slot[g]>> \in Seq(Events)
    BY <2>1
  <2> QED
    BY <1>2, <1>15, <2>2, Zenon DEF WaitAny
<1> QED
    BY <1>7, <1>11, <1>12, <1>13, <1>14, <1>15, CallersAssumption, SMTT(60) DEF Next, TimePasses

\* Every step keeps the types of the threads and of the lock.
LEMMA TypeStep ==
    ASSUME SyncInv, Next, TokenInv'
    PROVE  TypeOK'
<1>0. TypeOK
    BY DEF SyncInv
<1>1. ObjectTypeOK'
    BY ObjectTypeStep
<1>2. Count' \in 0 .. Cardinality(Threads)
  <2>1. Count' = Cardinality(Counting(pc'))
    BY SMTT(60) DEF TokenInv
  <2> QED
    BY <2>1, CountingIsFinite, ObjectsAssumption, FS_CardinalityType, SMTT(60)
<1>3. alive' \in BOOLEAN /\ ending' \in BOOLEAN
    BY <1>0, Zenon DEF TypeOK, Next, StartProgram, RequestEnd, Terminate, GoesOn, LockWait, LockSet, Resume,
          LockAcquire, LockRelease, EventCreate, EventSet, EventReset, EventClose, EventWait, WaitAny,
          TimePasses, Calls, programVars
<1>4. pc' \in [Threads -> {"out", "want", "hold", "letting"}]
    BY <1>0, ZenonT(60) DEF TypeOK, Next, StartProgram, RequestEnd, Terminate, GoesOn, LockWait, LockSet, Resume,
          LockAcquire, LockRelease, EventCreate, EventSet, EventReset, EventClose, EventWait, WaitAny,
          TimePasses, Calls, programVars, MoveTo
<1>5. lost' \in [Events -> Nat]
  <2>1. CASE Terminate
    <3>1. ASSUME NEW e \in Events
          PROVE  Cardinality({t \in Threads : e \in Items(t)}) \in Nat
      BY ObjectsAssumption, FS_Subset, FS_CardinalityType
    <3>2. /\ lost \in [Events -> Nat]
          /\ lost' = [e \in Events |-> lost[e] + Cardinality({t \in Threads : e \in Items(t)})]
      BY <1>0, <2>1, SMTT(60) DEF TypeOK, Terminate
    <3> QED
      BY <3>1, <3>2
  <2>2. CASE ~ Terminate
    BY <1>0, <2>2, Zenon DEF TypeOK, Next, StartProgram, RequestEnd, GoesOn, LockWait, LockSet, Resume,
          LockAcquire, LockRelease, EventCreate, EventSet, EventReset, EventClose, EventWait, WaitAny,
          TimePasses, Calls, programVars
  <2> QED
    BY <2>1, <2>2
<1> QED
    BY <1>1, <1>2, <1>3, <1>4, <1>5 DEF TypeOK
-----------------------------------------------------------------------------
(* The theorems.                                                           *)

\* There is no program at the start.
LEMMA SyncInit ==
    ASSUME Init
    PROVE  SyncInv
<1>1. TypeOK
  <2>1. Cardinality(Threads) \in Nat
    BY ObjectsAssumption, FS_CardinalityType
  <2>2. <<>> \in Seq(Events)
    OBVIOUS
  <2>3. ObjectTypeOK
    BY <2>2 DEF Init, ObjectInit, ObjectTypeOK
  <2>4. Count \in 0 .. Cardinality(Threads)
    BY <2>1 DEF Init
  <2>5. /\ alive \in BOOLEAN /\ ending \in BOOLEAN /\ lost \in [Events -> Nat]
        /\ pc \in [Threads -> {"out", "want", "hold", "letting"}]
    BY Zenon DEF Init
  <2> QED
    BY <2>3, <2>4, <2>5 DEF TypeOK
<1>2. RefInv
  <2>1. ASSUME NEW e \in Events
        PROVE  Cardinality(SleepersOn(on, e)) = 0 /\ InSlots(slot, e) = 0
    <3>1. SleepersOn(on, e) = {}
      BY DEF Init, ObjectInit, SleepersOn
    <3>2. e # None
      BY DEF Events, None
    <3> QED
      BY <3>1, <3>2, FS_EmptySet, Zenon DEF Init, ObjectInit, InSlots
  <2> QED
    BY <2>1 DEF Init, ObjectInit, RefInv, Injective
<1>3. TokenInv
  <2>1. Counting(pc) = {}
    BY DEF Init, Counting
  <2> QED
    BY <2>1, FS_EmptySet, Zenon DEF Init, ObjectInit, TokenInv, HasToken, Asleep
<1> QED
    BY <1>1, <1>2, <1>3 DEF SyncInv

\* References and the lock's token are accounted for in every reachable
\* state, however calls, closes, wake-ups and ends interleave.
THEOREM SyncInvHolds == Spec => []SyncInv
<1>1. SyncInv /\ [Next]_vars => SyncInv'
  <2>1. SyncInv /\ Next => SyncInv'
    BY RefStep, TokenStep, TypeStep DEF SyncInv
  <2>2. SyncInv /\ UNCHANGED vars => SyncInv'
    <3> SUFFICES ASSUME SyncInv, UNCHANGED vars
                 PROVE  SyncInv'
      OBVIOUS
    <3> USE DEF vars, objectVars, sleepVars, programVars
    <3>1. TypeOK'
      BY DEF SyncInv, TypeOK, ObjectTypeOK
    <3>2. RefInv'
      BY NoRefs, SMTT(60) DEF SyncInv
    <3>3. TokenInv'
      BY DEF SyncInv, TokenInv, HasToken, Asleep, Items
    <3> QED
      BY <3>1, <3>2, <3>3 DEF SyncInv
  <2> QED
    BY <2>1, <2>2
<1> QED
    BY <1>1, SyncInit, PTL DEF Spec

\* The types of the events, the handle table, the sleepers and the lock.
THEOREM SyncTypes == Spec => []TypeOK
<1>1. SyncInv => TypeOK
    BY DEF SyncInv
<1> QED
    BY <1>1, SyncInvHolds, PTL

\* SdkLock lets one thread in at a time: LockAcquire's count and the event
\* that LockRelease sets never admit two.
THEOREM LockIsExclusive == Spec => []MutualExclusion
<1>1. SyncInv => MutualExclusion
    BY SMTT(60) DEF SyncInv, TokenInv, HasToken, MutualExclusion
<1> QED
    BY <1>1, SyncInvHolds, PTL

\* kobj::get and kobj::put balance: an event's count is the handle's
\* reference, the sleeping calls' and those of threads ended in their sleep.
THEOREM RefsAreExact == Spec => []RefsAreCounted
<1>1. SyncInv => RefsAreCounted
  <2> SUFFICES ASSUME SyncInv, NEW e \in Events
               PROVE  /\ refcnt[e] = Cardinality({h \in Handles : slot[h] = e})
                                    + Cardinality({t \in Threads : e \in Items(t)}) + lost[e]
                      /\ used[e] <=> refcnt[e] > 0
    BY DEF RefsAreCounted
  <2>1. Cardinality({h \in Handles : slot[h] = e}) = InSlots(slot, e)
    BY OneHandle, Zenon DEF SyncInv, RefInv, TypeOK, ObjectTypeOK
  <2>2. {t \in Threads : e \in Items(t)} = SleepersOn(on, e)
    BY DEF Items, SleepersOn
  <2> QED
    BY <2>1, <2>2, Zenon DEF SyncInv, RefInv
<1> QED
    BY <1>1, SyncInvHolds, PTL

-----------------------------------------------------------------------------
(* Wake-ups.                                                               *)

\* Fewer objects are signaled, or the same, and nobody goes to sleep.
LEMMA FewerSignals ==
    ASSUME TypeOK, NoLostWakeup, UNCHANGED <<on, woken>>,
           \A e \in Events : is_set'[e] => is_set[e]
    PROVE  NoLostWakeup'
<1> SUFFICES ASSUME NEW t \in Threads, Signaled(on[t])' # {} PROVE woken'[t]
    BY DEF NoLostWakeup
<1>1. on[t] \in Seq(Events) /\ on' = on /\ woken' = woken
    BY DEF TypeOK, ObjectTypeOK
<1>2. PICK i \in DOMAIN on[t] : is_set'[on[t][i]]
    BY <1>1 DEF Signaled
<1>3. on[t][i] \in Events
    BY <1>1, <1>2
<1>4. i \in Signaled(on[t])
    BY <1>2, <1>3, Zenon DEF Signaled
<1> QED
    BY <1>1, <1>4, Zenon DEF NoLostWakeup

\* event::set wakes whoever waits for the event, alone or among others.
LEMMA SetWakes ==
    ASSUME TypeOK, NoLostWakeup, NEW e \in Events, Set(e)
    PROVE  NoLostWakeup'
<1> SUFFICES ASSUME NEW t \in Threads, Signaled(on[t])' # {} PROVE woken'[t]
    BY DEF NoLostWakeup
<1>1. on[t] \in Seq(Events) /\ on' = on /\ is_set \in [Events -> BOOLEAN]
    BY DEF TypeOK, ObjectTypeOK, Set
<1>2. PICK i \in DOMAIN on[t] : is_set'[on[t][i]]
    BY <1>1 DEF Signaled
<1>3. on[t][i] \in Events
    BY <1>1, <1>2
<1>4. CASE on[t][i] = e
  <2>1. on[t] = <<e>> \/ Len(on[t]) > 1
    BY <1>1, <1>2, <1>4
  <2> QED
    BY <2>1, Zenon DEF Set, WokenBy
<1>5. CASE on[t][i] # e
  <2>1. is_set[on[t][i]]
    BY <1>1, <1>2, <1>3, <1>5, Zenon DEF Set
  <2>2. woken[t]
    BY <2>1, Zenon DEF NoLostWakeup, Signaled
  <2> QED
    BY <2>2, Zenon DEF Set
<1> QED
    BY <1>4, <1>5, Zenon

\* A call sleeps only when nothing it waits for is signaled.
LEMMA SleepHears ==
    ASSUME TypeOK, NoLostWakeup, NEW t \in Threads, NEW es, NEW timed, WaitSleeps(t, es, timed)
    PROVE  NoLostWakeup'
<1> SUFFICES ASSUME NEW u \in Threads, Signaled(on[u])' # {} PROVE woken'[u]
    BY DEF NoLostWakeup
<1>1. on \in [Threads -> Seq(Events)] /\ woken \in [Threads -> BOOLEAN]
    BY DEF TypeOK, ObjectTypeOK
<1>2. /\ Signaled(es) = {} /\ is_set' = is_set
      /\ on' = [on EXCEPT ![t] = es] /\ woken' = [woken EXCEPT ![t] = FALSE]
    BY Zenon DEF WaitSleeps
<1>3. CASE u = t
  <2>1. on'[u] = es
    BY <1>1, <1>2, <1>3, Zenon
  <2> QED
    BY <1>2, <2>1, Zenon DEF Signaled
<1>4. CASE u # t
  <2>1. on'[u] = on[u] /\ woken'[u] = woken[u]
    BY <1>1, <1>2, <1>4, Zenon
  <2>2. Signaled(on[u]) # {}
    BY <1>2, <2>1, Zenon DEF Signaled
  <2> QED
    BY <2>1, <2>2, Zenon DEF NoLostWakeup
<1> QED
    BY <1>3, <1>4, Zenon

\* Whoever runs on waits for nothing any more.
LEMMA EndHears ==
    ASSUME TypeOK, NoLostWakeup, NEW t \in Threads, WaitEnds(t),
           \A e \in Events : is_set'[e] => is_set[e]
    PROVE  NoLostWakeup'
<1> SUFFICES ASSUME NEW u \in Threads, Signaled(on[u])' # {} PROVE woken'[u]
    BY DEF NoLostWakeup
<1>1. on \in [Threads -> Seq(Events)] /\ woken \in [Threads -> BOOLEAN]
    BY DEF TypeOK, ObjectTypeOK
<1>2. on' = [on EXCEPT ![t] = <<>>] /\ woken' = [woken EXCEPT ![t] = FALSE]
    BY Zenon DEF WaitEnds
<1>3. u # t
  <2>1. u = t => on'[u] = <<>>
    BY <1>1, <1>2, Zenon
  <2> QED
    BY <2>1 DEF Signaled
<1>4. on'[u] = on[u] /\ woken'[u] = woken[u]
    BY <1>1, <1>2, <1>3, Zenon
<1>5. on[u] \in Seq(Events)
    BY <1>1, Zenon
<1>6. PICK i \in DOMAIN on[u] : is_set'[on[u][i]]
    BY <1>4 DEF Signaled
<1>7. on[u][i] \in Events
    BY <1>5, <1>6
<1>8. i \in Signaled(on[u])
    BY <1>6, <1>7, Zenon DEF Signaled
<1> QED
    BY <1>4, <1>8, Zenon DEF NoLostWakeup

\* What a wait takes is gone for the others.
LEMMA ConsumeTakes ==
    ASSUME TypeOK, NEW e, is_set' = Consume(e)
    PROVE  \A d \in Events : is_set'[d] => is_set[d]
<1>1. is_set \in [Events -> BOOLEAN]
    BY DEF TypeOK, ObjectTypeOK
<1> QED
    BY <1>1 DEF Consume

\* No step leaves a sleeper behind.
LEMMA WakeupStep ==
    ASSUME SyncInv, NoLostWakeup, [Next]_vars
    PROVE  NoLostWakeup'
<1>0. TypeOK /\ RefInv /\ TokenInv /\ is_set \in [Events -> BOOLEAN]
    BY DEF SyncInv, TypeOK, ObjectTypeOK
<1>1. ASSUME UNCHANGED <<is_set, on, woken>> PROVE NoLostWakeup'
    BY <1>0, <1>1, FewerSignals
<1>2. ASSUME NEW auto, Create(auto), UNCHANGED sleepVars PROVE NoLostWakeup'
  <2>1. \A e \in Events : is_set'[e] => is_set[e]
    BY <1>0, <1>2 DEF Create
  <2> QED
    BY <1>0, <1>2, <2>1, FewerSignals DEF sleepVars
<1>3. CASE StartProgram
    BY <1>1, <1>2, <1>3 DEF StartProgram, objectVars, sleepVars
<1>4. CASE RequestEnd
    BY <1>1, <1>4 DEF RequestEnd, objectVars, sleepVars
<1>5. CASE Terminate
  <2>1. \A t \in Threads : on'[t] = <<>>
    BY <1>5 DEF Terminate, EndProgram
  <2> QED
    BY <2>1 DEF NoLostWakeup, Signaled
<1>6. ASSUME NEW t \in Threads, LockAcquire(t) \/ LockRelease(t) PROVE NoLostWakeup'
    BY <1>1, <1>6 DEF LockAcquire, LockRelease, objectVars, sleepVars
<1>7. ASSUME NEW t \in Threads, NEW es, NEW timed, WaitSucceeds(es) \/ WaitSleeps(t, es, timed)
      PROVE  NoLostWakeup'
  <2>1. CASE WaitSucceeds(es)
    <3>1. is_set' = Consume(FirstReady(es)) /\ UNCHANGED <<on, woken>>
      BY <2>1 DEF WaitSucceeds, sleepVars
    <3> QED
      BY <1>0, <3>1, ConsumeTakes, FewerSignals, Zenon
  <2>2. CASE WaitSleeps(t, es, timed)
    BY <1>0, <2>2, SleepHears, Zenon
  <2> QED
    BY <1>7, <2>1, <2>2, Zenon
<1>8. ASSUME NEW t \in Threads, LockWait(t) PROVE NoLostWakeup'
    BY <1>7, <1>8, Zenon DEF LockWait
<1>9. ASSUME NEW t \in Threads, LockSet(t) PROVE NoLostWakeup'
  <2>1. slot[LockHandle] \in Events /\ Set(slot[LockHandle])
    BY <1>0, <1>9, Zenon DEF LockSet, Runs, TokenInv
  <2> QED
    BY <1>0, <2>1, SetWakes, Zenon
<1>10. ASSUME NEW t \in Threads, Resume(t) PROVE NoLostWakeup'
  <2>1. CASE ResumeSignaled(t, ending)
    <3>1. is_set' = Consume(FirstReady(on[t])) /\ WaitEnds(t)
      BY <2>1, Zenon DEF ResumeSignaled
    <3> QED
      BY <1>0, <3>1, ConsumeTakes, EndHears, Zenon
  <2>2. CASE ResumeInVain(t, ending)
    <3>1. is_set' = is_set /\ WaitEnds(t)
      BY <2>2, Zenon DEF ResumeInVain
    <3> QED
      BY <1>0, <3>1, EndHears, Zenon
  <2>3. CASE ResumeSleeps(t)
    <3>1. /\ Signaled(on[t]) = {} /\ is_set' = is_set /\ on' = on
          /\ woken' = [woken EXCEPT ![t] = FALSE]
      BY <2>3 DEF ResumeSleeps, objectVars
    <3>2. \A u \in Threads : u # t => woken'[u] = woken[u]
      BY <1>0, <3>1 DEF TypeOK, ObjectTypeOK
    <3> QED
      BY <3>1, <3>2, Zenon DEF NoLostWakeup, Signaled
  <2> QED
    BY <1>10, <2>1, <2>2, <2>3, Zenon DEF Resume
<1>11. ASSUME NEW t \in Threads, NEW auto \in BOOLEAN, EventCreate(t, auto) PROVE NoLostWakeup'
    BY <1>2, <1>11, Zenon DEF EventCreate
<1>12. ASSUME NEW t \in Threads, NEW h \in Own,
              EventSet(t, h) \/ EventReset(t, h) \/ EventClose(t, h)
       PROVE  NoLostWakeup'
  <2>1. alive /\ slot[h] \in Events
    BY <1>0, <1>12, OwnFacts, Zenon DEF EventSet, EventReset, EventClose, Calls, Runs
  <2>2. CASE Set(slot[h])
    BY <1>0, <2>1, <2>2, SetWakes, Zenon
  <2>3. CASE Reset(slot[h])
    <3>1. \A e \in Events : is_set'[e] => is_set[e]
      BY <1>0, <2>3 DEF Reset
    <3> QED
      BY <1>0, <2>3, <3>1, FewerSignals DEF Reset, sleepVars
  <2>4. CASE Close(h)
    BY <1>1, <2>4 DEF Close, sleepVars
  <2> QED
    BY <1>12, <2>2, <2>3, <2>4, Zenon DEF EventSet, EventReset, EventClose
<1>13. ASSUME NEW t \in Threads, TimePasses(t) PROVE NoLostWakeup'
    BY <1>1, <1>13 DEF TimePasses, Tick, objectVars
<1>14. ASSUME NEW t \in Threads, NEW h \in Own, NEW timed \in BOOLEAN, EventWait(t, h, timed)
       PROVE  NoLostWakeup'
    BY <1>7, <1>14, Zenon DEF EventWait
<1>15. ASSUME NEW t \in Threads, NEW h \in Own, NEW g \in Own, NEW timed \in BOOLEAN,
              WaitAny(t, h, g, timed)
       PROVE  NoLostWakeup'
    BY <1>7, <1>15, Zenon DEF WaitAny
<1>16. CASE UNCHANGED vars
    BY <1>1, <1>16 DEF vars, objectVars, sleepVars
<1>17. Callers \subseteq Threads /\ Waiters \subseteq Threads
    BY CallersAssumption
<1>18. ASSUME NEW t \in Callers,
              \/ \E auto \in BOOLEAN : EventCreate(t, auto)
              \/ \E h \in Own : EventSet(t, h) \/ EventReset(t, h) \/ EventClose(t, h)
       PROVE  NoLostWakeup'
    BY <1>11, <1>12, <1>17, <1>18, Zenon
<1>19. ASSUME NEW t \in Waiters,
              \/ TimePasses(t)
              \/ \E h \in Own, timed \in BOOLEAN : EventWait(t, h, timed)
              \/ \E h, g \in Own, timed \in BOOLEAN : WaitAny(t, h, g, timed)
       PROVE  NoLostWakeup'
    BY <1>13, <1>14, <1>15, <1>17, <1>19, Zenon
<1> QED
    BY <1>3, <1>4, <1>5, <1>6, <1>8, <1>9, <1>10, <1>16, <1>18, <1>19, Zenon DEF Next, GoesOn

\* A thread asleep on an object that is signaled has been woken, with any
\* number of threads, events and handles.
THEOREM NoWakeupIsLost == Spec => []NoLostWakeup
<1>1. Init => NoLostWakeup
  <2> SUFFICES ASSUME Init, NEW t \in Threads PROVE Signaled(on[t]) = {}
    BY DEF NoLostWakeup
  <2>1. on[t] = <<>>
    BY DEF Init, ObjectInit
  <2> QED
    BY <2>1 DEF Signaled
<1>2. SyncInv /\ NoLostWakeup /\ [Next]_vars => NoLostWakeup'
    BY WakeupStep, Zenon
<1> QED
    BY <1>1, <1>2, SyncInvHolds, PTL DEF Spec

=============================================================================
