----------------------------- MODULE TicketLock -----------------------------
(***************************************************************************)
(* The sleep_lock of include/cpu/wait.h and what lock, unlock and pass     *)
(* (kernel/cpu/process.cpp, namespace wait) do to it.  Who sleeps and who  *)
(* is woken meanwhile is the business of the modules that use this one.    *)
(***************************************************************************)
EXTENDS Naturals, FiniteSets

CONSTANTS
    Threads,
    Nobody,     \* owner = nullptr: free, or taken where no thread runs
    Wrap        \* the tickets are 64-bit counters: Wrap is 2^64

ASSUME LockAssumption ==
    /\ Nobody \notin Threads
    /\ IsFiniteSet(Threads)
    /\ Wrap \in Nat \ {0}
    /\ Cardinality(Threads) < Wrap

VARIABLES
    next,       \* the ticket the next one asking gets
    serving,    \* whose turn it is
    owner, depth,
    ticket,     \* ticket_wait.ticket, until the unlock that passes it
    holds       \* Thread.holds

lockVars == <<next, serving, owner, depth, ticket, holds>>

Tickets == 0 .. Wrap - 1

NoTicket == Wrap

LockTypeOK ==
    /\ next \in Tickets /\ serving \in Tickets
    /\ owner \in Threads \cup {Nobody}
    /\ depth \in Nat
    /\ ticket \in [Threads -> Tickets \cup {NoTicket}]
    /\ holds \in [Threads -> Nat]

LockInit ==
    /\ next = 0 /\ serving = 0
    /\ owner = Nobody /\ depth = 0
    /\ ticket = [t \in Threads |-> NoTicket]
    /\ holds = [t \in Threads |-> 0]

Succ(n) == IF n + 1 = Wrap THEN 0 ELSE n + 1

\* A slip: whoever looks first after an unlock has the lock.
AnyTurn(t) == depth = 0 /\ ticket[t] # NoTicket

MyTurn(t) == depth = 0 /\ serving = ticket[t]

\* lock() by the thread that has it already.
Nest(t) ==
    /\ depth # 0 /\ owner = t
    /\ depth' = depth + 1
    /\ holds' = [holds EXCEPT ![t] = @ + 1]
    /\ UNCHANGED <<next, serving, owner, ticket>>

\* lock() by another: a ticket, and the lock at once if it is its turn.
Ask(t) ==
    /\ next' = Succ(next)
    /\ ticket' = [ticket EXCEPT ![t] = next]
    /\ holds' = [holds EXCEPT ![t] = @ + 1]
    /\ IF depth = 0 /\ serving = next
       THEN owner' = t /\ depth' = 1
       ELSE UNCHANGED <<owner, depth>>
    /\ UNCHANGED serving

\* The way out of lock()'s loop; the end of a pass also gives up the hold
\* that pass() took.
Get(t, passing) ==
    /\ owner' = t
    /\ depth' = 1
    /\ holds' = [holds EXCEPT ![t] = IF passing THEN @ - 1 ELSE @]
    /\ UNCHANGED <<next, serving, ticket>>

\* A slip: the turn goes on with every unlock, the nested ones too.
UnlockEvery(t) ==
    /\ owner = t
    /\ holds' = [holds EXCEPT ![t] = @ - 1]
    /\ depth' = depth - 1
    /\ serving' = Succ(serving)
    /\ IF depth = 1
       THEN owner' = Nobody /\ ticket' = [ticket EXCEPT ![t] = NoTicket]
       ELSE UNCHANGED <<owner, ticket>>
    /\ UNCHANGED next

Unlock(t) ==
    /\ owner = t
    /\ holds' = [holds EXCEPT ![t] = @ - 1]
    /\ depth' = depth - 1
    /\ IF depth = 1
       THEN /\ owner' = Nobody
            /\ serving' = Succ(serving)
            /\ ticket' = [ticket EXCEPT ![t] = NoTicket]
       ELSE UNCHANGED <<owner, serving, ticket>>
    /\ UNCHANGED next

\* A slip: the hold that covers the time in the queue is not taken.
PassUncovered(t) ==
    /\ owner = t /\ depth = 1 /\ next # Succ(serving)
    /\ owner' = Nobody /\ depth' = 0
    /\ serving' = Succ(serving)
    /\ ticket' = [ticket EXCEPT ![t] = next]
    /\ next' = Succ(next)
    /\ UNCHANGED holds

\* pass(), as far as the sleep in its lock(): when somebody waits, unlock and
\* a new ticket at the end of the queue, with one hold more.
Pass(t) ==
    /\ owner = t /\ depth = 1 /\ next # Succ(serving)
    /\ owner' = Nobody /\ depth' = 0
    /\ serving' = Succ(serving)
    /\ ticket' = [ticket EXCEPT ![t] = next]
    /\ next' = Succ(next)
    /\ holds' = [holds EXCEPT ![t] = @ + 1]

\* lock() and unlock() around something that does not sleep, where nothing
\* may sleep.  Nested, or refused because another has or awaits the lock, it
\* leaves no trace; otherwise it has used up a ticket.
TakeAndGive(me) ==
    /\ IF depth = 0 /\ serving = next
       THEN next' = Succ(next) /\ serving' = Succ(serving)
       ELSE UNCHANGED <<next, serving>>
    /\ UNCHANGED <<owner, depth, ticket, holds>>
-----------------------------------------------------------------------------
\* How many tickets there are from s up to n.
Distance(s, n) == IF n >= s THEN n - s ELSE n + Wrap - s

\* Ticket n is out.
Out(n) == Distance(serving, n) < Distance(serving, next)

\* The tickets from serving up to next are each held by one thread, and no
\* other ticket is out: none was left behind (the comment in lock(): "a ticket
\* left behind would stop the queue"), and none is doubled.
NoTicketLeftBehind ==
    /\ \A t \in Threads : ticket[t] # NoTicket => Out(ticket[t])
    /\ \A t, u \in Threads :
          ticket[t] = ticket[u] /\ ticket[t] # NoTicket => t = u
    /\ \A n \in Tickets : Out(n) => \E t \in Threads : ticket[t] = n
=============================================================================
