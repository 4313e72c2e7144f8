------------------------------ MODULE Consoles ------------------------------
(***************************************************************************)
(* Who gets a screen's keys (cpu/process.cpp): the programs on the shown   *)
(* screens and in the background, the console of each shown screen, which  *)
(* cmdkeeper starts again when it is gone, Ctrl+Alt+C and Ctrl+Alt+Z, fg   *)
(* and bg, and the reads that wait for a key (cpu/sfconsole.cpp,           *)
(* drivers/tty.cpp).                                                       *)
(*                                                                         *)
(* What a thread does in the kernel between two sleeps is one step (module *)
(* KernelEntry). A program has one thread and a CPU of its own, and every  *)
(* program has the admin right.                                            *)
(***************************************************************************)
EXTENDS Integers, FiniteSets

CONSTANTS
    Shown,          \* the screens that can be shown, TERM_SCREENS of them
    Hidden,         \* the screens of programs in the background
    Pids,           \* process ids
    Sizes,          \* bound: the pids in use at a time, and the screens that can
                    \* have a console
    Readers,        \* bound: those of them that read keys
    MaxBusy,        \* bound: programs in a call that sleeps, or told to end
    FgDisturbed     \* may programs end or move while fg, moving them, sleeps?

Screens == Shown \cup Hidden
None == -1          \* no process, no screen
Failed == -2        \* a console that cannot be started

ASSUME ConsolesAssumption ==
    /\ Shown \subseteq Nat /\ Hidden \subseteq Nat /\ Pids \subseteq Nat
    /\ IsFiniteSet(Shown) /\ IsFiniteSet(Pids)
    /\ Shown \cap Hidden = {} /\ Readers \subseteq Pids /\ MaxBusy \in Nat
    /\ FgDisturbed \in BOOLEAN
    /\ Sizes \subseteq [pids : SUBSET Pids, screens : SUBSET Shown]

VARIABLE
    sys             \* the process table, the screens' tables and cmdkeeper

NoProg == [state |-> "Unused", screen |-> None, giver |-> None, end |-> FALSE,
           at |-> "user", scr |-> None, to |-> None, who |-> None, woken |-> FALSE]
New(s, giver) == [NoProg EXCEPT !.state = "Live", !.screen = s, !.giver = giver]

Init ==
    \E size \in Sizes :
    sys = [size |-> size,
           prog |-> [p \in Pids |-> NoProg],
           owner |-> [s \in Screens |-> None],       \* input_owner
           console |-> [s \in Screens |-> None],     \* screen_console
           paused |-> [s \in Screens |-> None],      \* paused_owner
           open |-> {},                              \* hidden screens in use
           keeper |-> "woken",                       \* where cmdkeeper is
           loading |-> None,                         \* the screen it loads CMD.BIN for
           fault |-> FALSE]                          \* a null pointer was followed

alive(v, p) == p \in Pids /\ v.prog[p].state \in {"Live", "Stopped"}
On(v, p, s) == alive(v, p) /\ v.prog[p].screen = s
\* The programs of a screen that Ctrl+Alt+C and Z, fg and bg are about.
moves(v, p, s) == On(v, p, s) /\ p # v.console[s]

\* A pid is free again once its process is gone and no screen names it.
FreePids(v) == {p \in v.size.pids : v.prog[p] = NoProg /\ \A s \in Shown : v.owner[s] # p}
FreePid(v) == CHOOSE p \in FreePids(v) : TRUE
-----------------------------------------------------------------------------
\* wake_up() of the readers' queues.
Woken(prog, queues) == [p \in Pids |-> [prog[p] EXCEPT !.woken = @ \/ prog[p].at \in queues]]

\* A slip: the readers of the screen are not told.
set_input_ownerQuietly(v, s, p) == [v EXCEPT !.owner[s] = p]

set_input_owner(v, s, p) ==
    [v EXCEPT !.owner[s] = p, !.prog = Woken(@, {"input", "key"})]

\* The console of screen s, if it has one.
ConsoleOf(v, s) == IF v.console[s] >= 0 THEN v.console[s] ELSE None

\* return_input(): p ends, and its screen goes to whoever gave it, or to the
\* console.
return_input(v, p) ==
    LET giver == v.prog[p].giver
        back(s) == IF On(v, giver, s) /\ giver # p THEN giver
                   ELSE IF v.console[s] # p THEN ConsoleOf(v, s) ELSE None
        mine == {s \in Screens : v.owner[s] = p}
    IN  IF mine = {} THEN v
        ELSE [v EXCEPT !.owner = [s \in Screens |-> IF s \in mine THEN back(s) ELSE @[s]],
                       !.prog = Woken(@, {"input", "key"})]

close_hidden_screen(v, s) ==
    [v EXCEPT !.owner[s] = None, !.paused[s] = None, !.open = @ \ {s}]

\* A slip: the screen goes with the first program that ends on it.
release_screenAtOnce(v, p) ==
    LET s == v.prog[p].screen IN IF s \in Hidden THEN close_hidden_screen(v, s) ELSE v

release_screen(v, p) ==
    LET s == v.prog[p].screen IN
    IF s \in Hidden /\ \A q \in Pids \ {p} : ~On(v, q, s) THEN close_hidden_screen(v, s) ELSE v

\* retitle_after(): the last program of a screen whose console has the keys.
retitle_after(v, p) ==
    LET s == v.prog[p].screen
        c == v.console[s]
    IN  IF s \in Shown /\ c >= 0 /\ p # c /\ v.owner[s] = c
             /\ \A q \in Pids \ {p} : ~moves(v, q, s)
        THEN set_input_owner([v EXCEPT !.paused[s] = None], s, c)
        ELSE v

\* A slip: cmdkeeper is not told that a console ended.
NoConsoleQuietly(v, p) ==
    LET s == v.prog[p].screen IN
    IF s \in Shown /\ v.console[s] = p THEN [v EXCEPT !.console[s] = None] ELSE v
\* terminate(), where a screen's console ended.
NoConsole(v, p) ==
    LET s == v.prog[p].screen IN
    IF s \in Shown /\ v.console[s] = p THEN [v EXCEPT !.console[s] = None,
                                                     !.keeper = IF @ = "waits" THEN "woken" ELSE @] ELSE v

\* A pid whose process is gone is as good as none wherever it is only given
\* to find_live(): in input_giver, paused_owner, move_to_background's owner
\* and the input_owner of a hidden screen.
Forgotten(v, p) ==
    LET no(q) == IF q = p THEN None ELSE q
        prog(q) == [v.prog[q] EXCEPT !.giver = no(v.prog[q].giver), !.who = no(v.prog[q].who)]
    IN  [v EXCEPT !.prog = [q \in Pids |-> IF q = p THEN NoProg ELSE prog(q)],
                  !.paused = [s \in Screens |-> no(v.paused[s])],
                  !.owner = [s \in Screens |-> IF s \in Hidden THEN no(v.owner[s]) ELSE v.owner[s]]]

terminate(v, p) ==
    Forgotten(retitle_after(release_screen(return_input(NoConsole(v, p), p), p), p), p)
-----------------------------------------------------------------------------
\* Ctrl+Alt+C: the console is left alone while anything else runs there.
end_programs_on(v, s) ==
    LET others == \E p \in Pids : moves(v, p, s)
        end(p) == v.prog[p].end \/ (On(v, p, s) /\ (others => p # v.console[s]))
    IN  [v EXCEPT !.prog = [p \in Pids |-> [v.prog[p] EXCEPT !.end = end(p)]]]

\* The programs of screen s in another state.
Put(v, s, state) ==
    [v EXCEPT !.prog = [p \in Pids |-> IF moves(v, p, s) THEN [@[p] EXCEPT !.state = state] ELSE @[p]]]

\* Ctrl+Alt+Z: pause, and the console gets the keys; or go on, and who had
\* them has them again.
pause_programs_on(v, s) ==
    LET paused == \E p \in Pids : moves(v, p, s) /\ v.prog[p].state = "Stopped"
        owner == v.owner[s]
        had == v.paused[s]
    IN  IF ~\E p \in Pids : moves(v, p, s) THEN v
        ELSE IF paused
        THEN LET u == [Put(v, s, "Live") EXCEPT !.paused[s] = None]
             IN  IF On(v, had, s) THEN set_input_owner(u, s, had) ELSE u
        ELSE IF v.console[s] >= 0 /\ moves(v, owner, s)
        THEN set_input_owner([Put(v, s, "Stopped") EXCEPT !.paused[s] = owner], s, v.console[s])
        ELSE Put(v, s, "Stopped")

\* service_requests() on the CPU of p: a program asleep in a disk operation
\* is ended once that is over.
ToEnd(v, p) == alive(v, p) /\ v.prog[p].end /\ v.prog[p].at \notin {"start", "log", "fg"}

\* fg sleeps between moving the programs to screen s and giving it to p.
Bringing(v, p, s) == \E c \in Pids : v.prog[c].at = "fg" /\ (v.prog[c].who = p \/ v.prog[c].to = s)
Steady(p, s) == FgDisturbed \/ ~Bringing(sys, p, s)

\* choose_next() there, up to the choice. Ctrl+Alt+C and Ctrl+Alt+Z leave the
\* shown screen's number in end_screen and pause_screen, which only this
\* function reads and clears: what it finds there is an input of the action.
choose_next(p, end_screen, pause_screen) ==
    LET v1 == IF end_screen # None THEN end_programs_on(sys, end_screen) ELSE sys
        v2 == IF pause_screen # None THEN pause_programs_on(v1, pause_screen) ELSE v1
    IN  /\ ToEnd(v2, p) => Steady(p, None)
        /\ sys' = IF ToEnd(v2, p) THEN terminate(v2, p) ELSE v2

\* emit(), on_key(): a key for the owner of the shown screen.
Key(s) ==
    /\ sys.owner[s] # None
    /\ sys' = [sys EXCEPT !.prog = Woken(@, {"key"})]
-----------------------------------------------------------------------------
(* cmdkeeper.                                                              *)

Missing(v) == {s \in Shown : v.console[s] = None}

\* cmdkeeper_main() goes on with the next screen after `last' that has no
\* console; after the last of them it rests for a second.
Loads(v, last) ==
    LET todo == {s \in Missing(v) : s > last} IN
    IF todo = {} THEN [v EXCEPT !.keeper = "rests", !.loading = None]
    ELSE [v EXCEPT !.keeper = "loads", !.loading = CHOOSE s \in todo : \A t \in todo : s <= t]

\* Rested, or woken by a console's end.
KeeperLooks ==
    /\ sys.keeper \in {"rests", "woken"}
    /\ sys' = IF Missing(sys) = {} THEN [sys EXCEPT !.keeper = "waits"] ELSE Loads(sys, None)

\* start_cmd() once the program is loaded, or could not be.
start_cmd ==
    /\ sys.keeper = "loads"
    /\ LET s == sys.loading
           p == FreePid(sys)
           u == [sys EXCEPT !.prog[p] = New(s, None), !.console[s] = p]
       IN  \/ sys' = Loads([sys EXCEPT !.console[s] = Failed], s)
           \/ /\ FreePids(sys) # {} /\ s \in sys.size.screens
              /\ sys' = Loads(IF alive(sys, sys.owner[s]) THEN u ELSE set_input_owner(u, s, p), s)
-----------------------------------------------------------------------------
(* The programs' calls.                                                    *)

\* The bound: one more call that sleeps, or request to end.
Room(v) == Cardinality({p \in Pids : v.prog[p].at # "user" \/ v.prog[p].end}) < MaxBusy

\* The program runs in ring 3 and makes a call.
Calls(p) == sys.prog[p].state = "Live" /\ sys.prog[p].at = "user"

\* Program p goes on in the kernel, or back in ring 3, as `at'.
Goes(v, p, at, scr, to, who) ==
    [v EXCEPT !.prog[p] = [@ EXCEPT !.at = at, !.scr = scr, !.to = to, !.who = who, !.woken = FALSE]]
Returns(v, p) == Goes(v, p, "user", None, None, None)

\* sf_exit(), or a fault.
Exit(p) ==
    /\ Calls(p) /\ Steady(p, None)
    /\ sys' = terminate(sys, p)

\* sf_start() up to the loading of the program, which sleeps: in the
\* background, a hidden screen is taken first.
StartCall(p) ==
    /\ Calls(p) /\ Room(sys)
    /\ \/ sys' = Goes(sys, p, "start", None, None, None)
       \/ \E s \in Hidden \ sys.open :
            sys' = [Goes(sys, p, "start", s, None, None) EXCEPT !.open = @ \cup {s}]

\* The rest of it. (The program that is ended again because its handle does
\* not fit in the table is one that exits at once.)
StartDone(p) ==
    /\ sys.prog[p].at = "start"
    /\ LET here == sys.prog[p].screen
           hidden == sys.prog[p].scr
           q == FreePid(sys)
           v == Returns(sys, p)
       IN  \/ sys' = [v EXCEPT !.open = @ \ {hidden}]
           \/ /\ FreePids(sys) # {} /\ hidden # None
              /\ sys' = [v EXCEPT !.prog[q] = New(hidden, None)]
           \/ /\ FreePids(sys) # {} /\ hidden = None
              /\ \/ sys' = [v EXCEPT !.prog[q] = New(here, None)]
                 \/ /\ sys.owner[here] = p
                    /\ sys' = set_input_owner([v EXCEPT !.prog[q] = New(here, p)], here, q)

\* move_programs(): which of the programs that move had the keys.
HadKeys(v, from) ==
    IF moves(v, v.owner[from], from) THEN v.owner[from]
    ELSE IF moves(v, v.paused[from], from) THEN v.paused[from] ELSE None

Moved(v, from, to) ==
    [v EXCEPT !.prog = [p \in Pids |-> IF moves(v, p, from) THEN [@[p] EXCEPT !.screen = to] ELSE @[p]]]

\* A slip: the screen that is left keeps its owner.
move_programsKeeping(v, from, to) == [Moved(v, from, to) EXCEPT !.paused[from] = None]

\* The programs of the shown screen `from' move, and the console has it.
move_programs(v, from, to) ==
    LET u == [Moved(v, from, to) EXCEPT !.paused[from] = None] IN
    IF HadKeys(v, from) # None \/ ~alive(v, v.owner[from])
    THEN set_input_owner(u, from, ConsoleOf(v, from))
    ELSE [u EXCEPT !.prog = Woken(@, {"key"})]

\* The end of move_to_foreground(), called by c: `owner' gets the keys.
FgDone(v, c, to, owner) ==
    IF alive(v, owner)
    THEN set_input_owner([Put(v, to, "Live") EXCEPT !.prog[owner].giver = c], to, owner)
    ELSE [v EXCEPT !.fault = TRUE]

\* move_to_foreground() of p, called by c. A hidden screen that is left has its
\* log written out before it is closed, which sleeps.
Foreground(c, p) ==
    /\ Calls(c) /\ alive(sys, p)
    /\ LET from == sys.prog[p].screen
           to == sys.prog[c].screen
           had == IF from # to THEN HadKeys(sys, from)
                  ELSE IF moves(sys, sys.paused[to], to) THEN sys.paused[to] ELSE None
           owner == IF had = None THEN p ELSE had
       IN  /\ p # sys.console[from] /\ to \in Shown /\ Steady(p, from)
           /\ from # to => \A q \in Pids \ {c} : ~moves(sys, q, to)
           /\ \/ from = to /\ sys' = FgDone([sys EXCEPT !.paused[to] = None], c, to, owner)
              \/ from \in Shown \ {to} /\ sys' = FgDone(move_programs(sys, from, to), c, to, owner)
              \/ from \in Hidden /\ Room(sys) /\ sys' = Goes(Moved(sys, from, to), c, "fg", from, to, owner)

\* The rest of it, whatever became of the programs meanwhile.
ForegroundDone(c) ==
    /\ sys.prog[c].at = "fg"
    /\ LET me == sys.prog[c]
           v == close_hidden_screen(sys, me.scr)
       IN  sys' = Returns(FgDone([v EXCEPT !.prog = Woken(@, {"key"})], c, me.to, me.who), c)

\* move_to_background() of p, called by c, up to the making of the log, which
\* sleeps; p may be there already.
Background(c, p) ==
    /\ Calls(c) /\ alive(sys, p)
    /\ LET from == sys.prog[p].screen IN
         /\ p # sys.console[from] /\ Steady(p, from)
         /\ \/ from \in Hidden /\ sys' = Put(sys, from, "Live")
            \/ /\ from \in Shown /\ Room(sys)
               /\ \E s \in Hidden \ sys.open :
                    sys' = Goes([move_programs(sys, from, s) EXCEPT !.open = @ \cup {s}],
                                c, "log", s, None, HadKeys(sys, from))

\* The rest of it, whatever became of the programs meanwhile. No reader is
\* told: nobody types on a hidden screen.
LogDone(c) ==
    /\ sys.prog[c].at = "log"
    /\ LET s == sys.prog[c].scr IN
         sys' = Returns([Put(sys, s, "Live") EXCEPT !.owner[s] = sys.prog[c].who], c)

\* EndProcess.
end_program(c, p) ==
    /\ Calls(c) /\ alive(sys, p) /\ Room(sys)
    /\ sys' = [sys EXCEPT !.prog[p].end = TRUE]

\* next_key(): called, or woken in wait_for_input (at "input") or in wait_key
\* for the ring of screen scr (at "key"). There is a key for it in the ring,
\* or none.
next_key(p) ==
    LET me == sys.prog[p]
        owns == sys.owner[me.screen] = p
        stayed == me.at = "key" /\ me.scr = me.screen
    IN  /\ p \in Readers /\ me.state = "Live" /\ me.at \in {"user", "input", "key"}
        /\ IF me.at = "user" THEN Room(sys) ELSE me.woken
        /\ \/ ~owns /\ stayed /\ sys' = Returns(sys, p)
           \/ ~owns /\ ~stayed /\ sys' = Goes(sys, p, "input", None, None, None)
           \/ owns /\ sys' = Returns(sys, p)
           \/ owns /\ sys' = Goes(sys, p, "key", me.screen, None, None)
-----------------------------------------------------------------------------
KeeperStep == KeeperLooks \/ start_cmd

Next ==
    \/ KeeperStep
    \/ \E s \in Shown : Key(s)
    \/ \E s \in Shown : choose_next(None, s, None) \/ choose_next(None, None, s)
    \/ \E p \in Pids : choose_next(p, None, None) \/ Exit(p) \/ StartCall(p) \/ StartDone(p) \/ LogDone(p) \/ ForegroundDone(p) \/ next_key(p)
    \/ \E c, p \in Pids : Foreground(c, p) \/ Background(c, p) \/ end_program(c, p)

\* cmdkeeper's second of rest and its disk operations end, and it gets a CPU;
\* of the programs nothing is assumed.
Fairness == WF_sys(KeeperStep)

Spec == Init /\ [][Next]_sys /\ Fairness
-----------------------------------------------------------------------------
(***************************************************************************)
(* A shown screen's keys go to nobody or to a program that runs on that    *)
(* screen, and its console is one too, wherever fg, bg, pausing and ending *)
(* moved the programs; and fg finds the program it gives the keys to.      *)
(***************************************************************************)
KeysFollow ==
    /\ ~sys.fault
    /\ \A s \in Shown :
        /\ sys.owner[s] # None => On(sys, sys.owner[s], s)
        /\ sys.console[s] \notin {None, Failed} => On(sys, sys.console[s], s)

(***************************************************************************)
(* A hidden screen is in use exactly while a program runs on it, Start has *)
(* yet to put one there or fg to close it: none is lost, and none is taken *)
(* from under a program ("The screen and the log go when the last program  *)
(* on the screen ends").                                                   *)
(***************************************************************************)
HiddenInUse ==
    \A s \in Hidden :
        s \in sys.open <=>
            \E p \in Pids : On(sys, p, s) \/ (sys.prog[p].at \in {"start", "fg"} /\ sys.prog[p].scr = s)

(***************************************************************************)
(* A program asleep in ReadLine or ReadKey is told what concerns it: that  *)
(* the keys of its (shown) screen are its own now, that they are no        *)
(* longer, or that it was moved (once fg, asleep, goes on).                *)
(***************************************************************************)
ReadersAreTold ==
    \A p \in Pids :
        LET me == sys.prog[p] IN
        alive(sys, p) /\ me.screen \in Shown /\ me.at \in {"input", "key"} /\ ~me.woken =>
            IF me.at = "input" THEN sys.owner[me.screen] # p
            ELSE \/ me.scr = me.screen /\ sys.owner[me.screen] = p
                 \/ Bringing(sys, p, me.screen)

(***************************************************************************)
(* A shown screen whose keys go to nobody gets an owner again, unless its  *)
(* console cannot be started: cmdkeeper hears of every console that ends.  *)
(***************************************************************************)
KeysComeBack ==
    \A s \in Shown : (sys.owner[s] = None) ~> (sys.owner[s] # None \/ sys.console[s] = Failed)
=============================================================================
