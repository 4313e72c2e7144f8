--------------------------- MODULE ConsolesProofs ---------------------------
(***************************************************************************)
(* The keys of a shown screen go to a program on it, the programs that     *)
(* wait for keys are told, and hidden screens are in use as long as they   *)
(* are needed, whatever the numbers of screens and programs, as long as    *)
(* nothing disturbs fg.                                                    *)
(***************************************************************************)
EXTENDS Consoles, TLAPS, WellFoundedInduction

Some == Pids \cup {None}
Places == {"user", "start", "log", "fg", "input", "key"}

Progs == [state : {"Unused", "Live", "Stopped"}, screen : Screens \cup {None}, giver : Some,
          end : BOOLEAN, at : Places, scr : Screens \cup {None}, to : Screens \cup {None},
          who : Some, woken : BOOLEAN]

Systems == [size : Sizes, prog : [Pids -> Progs], owner : [Screens -> Some],
            console : [Screens -> Some \cup {Failed}], paused : [Screens -> Some],
            open : SUBSET Hidden, keeper : {"woken", "waits", "rests", "loads"},
            loading : Shown \cup {None}, fault : BOOLEAN]

\* Program p is on a screen as long as it is alive, and in a call only then;
\* bg and Start took a hidden screen, and fg, asleep, has the program it gives
\* the keys to where it moved it.
Placed(v, p) ==
    /\ alive(v, p) => v.prog[p].screen \in Screens
    /\ ~alive(v, p) => v.prog[p].at = "user"
    /\ v.prog[p].at = "log" => v.prog[p].scr \in Hidden
    /\ v.prog[p].at = "start" => v.prog[p].scr \in Hidden \cup {None}
    /\ v.prog[p].at = "fg" => v.prog[p].to \in Shown /\ On(v, v.prog[p].who, v.prog[p].to)

\* The keys of screen s, if it can be shown, and its console are somebody's on it.
Served(v, s) ==
    /\ s \in Shown /\ v.owner[s] # None => On(v, v.owner[s], s)
    /\ v.console[s] \notin {None, Failed} => s \in Shown /\ On(v, v.console[s], s)

(***************************************************************************)
(* The inductive invariant. KeysFollow alone is not: it has to be known    *)
(* that what fg, asleep, remembers is still so, and which screens may be   *)
(* taken by calls that sleep.                                              *)
(***************************************************************************)
Good(v) ==
    /\ v \in Systems
    /\ ~v.fault
    /\ v.keeper = "loads" => v.loading \in Shown
    /\ \A p \in Pids : Placed(v, p)
    /\ \A s \in Screens : Served(v, s)

\* The programs of u are where those of v are, and in the same calls.
Alike(v, u) ==
    \A p \in Pids :
        /\ u.prog[p].screen = v.prog[p].screen /\ (alive(u, p) <=> alive(v, p))
        /\ u.prog[p].at = v.prog[p].at /\ u.prog[p].scr = v.prog[p].scr
        /\ u.prog[p].to = v.prog[p].to /\ u.prog[p].who = v.prog[p].who

\* None and Failed are no programs, and no screen is of both kinds.
LEMMA Names ==
    /\ None \notin Pids /\ Failed \notin Pids /\ None # Failed
    /\ None \notin Screens /\ Shown \cap Hidden = {}
    /\ \A c \in Some \cup {Failed} : (c >= 0 <=> c \in Pids)
BY ConsolesAssumption DEF None, Failed, Screens, Some

\* Good does not look at more than Alike keeps.
LEMMA AlikeIsGood ==
    ASSUME NEW v, NEW u, Good(v), u \in Systems, Alike(v, u), ~u.fault,
           u.keeper = "loads" => u.loading \in Shown,
           \A s \in Screens : Served(u, s) \/ (u.owner[s] = v.owner[s] /\ u.console[s] = v.console[s])
    PROVE  Good(u)
<1>1. \A p, s : On(u, p, s) <=> On(v, p, s)
  BY Zenon DEF Alike, On, alive
<1>2. \A p \in Pids : Placed(u, p)
  BY <1>1, Zenon DEF Alike, Good, Placed
<1>3. \A s \in Screens : Served(u, s)
  BY <1>1, Zenon DEF Good, Served
<1> QED
  BY <1>2, <1>3, Zenon DEF Good

\* wake_up() tells the readers and does nothing else.
LEMMA WokenTells ==
    ASSUME NEW prog \in [Pids -> Progs], NEW Q
    PROVE  /\ Woken(prog, Q) \in [Pids -> Progs]
           /\ \A p \in Pids :
                /\ Woken(prog, Q)[p].state = prog[p].state /\ Woken(prog, Q)[p].screen = prog[p].screen
                /\ Woken(prog, Q)[p].at = prog[p].at /\ Woken(prog, Q)[p].scr = prog[p].scr
                /\ Woken(prog, Q)[p].to = prog[p].to /\ Woken(prog, Q)[p].who = prog[p].who
BY ZenonT(60) DEF Woken, Progs

\* set_input_owner() may name a program of the screen, or nobody.
LEMMA OwnerSet ==
    ASSUME NEW v, Good(v), NEW s \in Screens, NEW q \in Some,
           s \in Shown /\ q # None => On(v, q, s)
    PROVE  Good(set_input_owner(v, s, q)) /\ Alike(v, set_input_owner(v, s, q))
<1> DEFINE w == Woken(v.prog, {"input", "key"})
           u == [v EXCEPT !.owner[s] = q, !.prog = w]
<1>1. v \in Systems /\ v.prog \in [Pids -> Progs] /\ v.owner \in [Screens -> Some]
  BY Zenon DEF Good, Systems
<1>2. w \in [Pids -> Progs]
  BY <1>1, WokenTells, Zenon
<1>3. /\ u \in Systems /\ u.prog = w /\ u.owner = [v.owner EXCEPT ![s] = q]
      /\ u.console = v.console /\ u.fault = v.fault /\ u.keeper = v.keeper /\ u.loading = v.loading
  BY <1>1, <1>2, Zenon DEF Systems
<1>4. Alike(v, u)
  BY <1>1, <1>3, WokenTells DEF Alike, alive
<1>5. ASSUME NEW t \in Screens
      PROVE  Served(u, t) \/ (u.owner[t] = v.owner[t] /\ u.console[t] = v.console[t])
  <2>1. CASE t # s
    BY <1>1, <1>3, <2>1, Zenon
  <2>2. CASE t = s
    <3>1. \A p : On(u, p, s) <=> On(v, p, s)
      BY <1>4, Zenon DEF Alike, On, alive
    <3> QED
      BY <1>1, <1>3, <2>2, <3>1, Zenon DEF Served, Good
  <2> QED
    BY <2>1, <2>2, Zenon
<1>6. u = set_input_owner(v, s, q)
  BY Zenon DEF set_input_owner
<1> HIDE DEF u
<1> QED
  BY <1>3, <1>4, <1>5, <1>6, AlikeIsGood, Zenon DEF Good

-----------------------------------------------------------------------------
(* terminate(), one of its parts after the other.                          *)

\* No screen is left to p: neither as its console nor, shown, with its keys.
Quit(v, p) ==
    \A s \in Screens : v.console[s] # p /\ (s \in Shown => v.owner[s] # p)

\* No fg that sleeps will give the keys to p.
Unbrought(v, p) == \A c \in Pids : v.prog[c].at = "fg" => v.prog[c].who # p

\* A console that ends leaves its screen without one.
LEMMA NoConsoleGood ==
    ASSUME NEW v, Good(v), NEW p \in Pids
    PROVE  /\ Good(NoConsole(v, p)) /\ Alike(v, NoConsole(v, p))
           /\ \A s \in Screens : NoConsole(v, p).console[s] # p
<1> DEFINE s == v.prog[p].screen
           k == IF v.keeper = "waits" THEN "woken" ELSE v.keeper
           u == [v EXCEPT !.console[s] = None, !.keeper = k]
<1>1. \A t \in Screens : v.console[t] = p => t = s /\ t \in Shown
  BY Names, ZenonT(60) DEF Good, Served, On
<1>2. CASE s \in Shown /\ v.console[s] = p
  <2>1. v \in Systems /\ s \in Screens /\ v.console \in [Screens -> Some \cup {Failed}]
    BY <1>2, Zenon DEF Good, Systems, Screens
  <2>2. /\ u \in Systems /\ u.prog = v.prog /\ u.owner = v.owner
        /\ u.console = [v.console EXCEPT ![s] = None]
        /\ u.fault = v.fault /\ u.keeper = k /\ u.loading = v.loading
    BY <2>1, Zenon DEF Systems, Some
  <2>3. Alike(v, u)
    BY <2>2, Zenon DEF Alike, alive
  <2>4. \A t \in Screens : u.console[t] # p
    BY <1>1, <2>1, <2>2, Names
  <2>5. ASSUME NEW t \in Screens
        PROVE  Served(u, t) \/ (u.owner[t] = v.owner[t] /\ u.console[t] = v.console[t])
    <3>1. CASE t # s
      BY <2>1, <2>2, <3>1, ZenonT(60)
    <3>2. CASE t = s
      BY <2>1, <2>2, <3>2 DEF Served, Good, On, alive
    <3> QED
      BY <3>1, <3>2, Zenon
  <2>6. u = NoConsole(v, p)
    BY <1>2, Zenon DEF NoConsole
  <2> HIDE DEF u
  <2>7. ~u.fault /\ (u.keeper = "loads" => u.loading \in Shown)
    BY <2>2, Zenon DEF Good
  <2> QED
    BY <2>2, <2>3, <2>4, <2>5, <2>6, <2>7, AlikeIsGood, Zenon
<1>3. CASE ~(s \in Shown /\ v.console[s] = p)
  <2>1. NoConsole(v, p) = v
    BY <1>3, Zenon DEF NoConsole
  <2> QED
    BY <1>1, <1>3, <2>1, Zenon DEF Alike
<1> QED
  BY <1>2, <1>3, Zenon

\* return_input() finds somebody on the screen, other than p, or nobody.
LEMMA ReturnInputGood ==
    ASSUME NEW v, Good(v), NEW p \in Pids, \A s \in Screens : v.console[s] # p
    PROVE  Good(return_input(v, p)) /\ Alike(v, return_input(v, p)) /\ Quit(return_input(v, p), p)
<1> DEFINE giver == v.prog[p].giver
           back(s) == IF On(v, giver, s) /\ giver # p THEN giver
                      ELSE IF v.console[s] # p THEN ConsoleOf(v, s) ELSE None
           mine == {s \in Screens : v.owner[s] = p}
           o == [s \in Screens |-> IF s \in mine THEN back(s) ELSE v.owner[s]]
           w == Woken(v.prog, {"input", "key"})
           u == [v EXCEPT !.owner = o, !.prog = w]
<1>1. /\ v \in Systems /\ v.prog \in [Pids -> Progs] /\ v.owner \in [Screens -> Some]
      /\ v.console \in [Screens -> Some \cup {Failed}]
  BY Zenon DEF Good, Systems
<1>2. w \in [Pids -> Progs]
  BY <1>1, WokenTells, Zenon
<1>3. ASSUME NEW s \in Screens
      PROVE  /\ back(s) \in Some /\ back(s) # p
             /\ s \in Shown /\ back(s) # None => On(v, back(s), s)
  <2>1. CASE On(v, giver, s) /\ giver # p
    BY <2>1, Zenon DEF On, alive, Some
  <2>2. CASE ~(On(v, giver, s) /\ giver # p)
    <3>1. back(s) = ConsoleOf(v, s)
      BY <2>2, Zenon
    <3>2. v.console[s] \in Some \cup {Failed} /\ Served(v, s)
      BY <1>1, Zenon DEF Good
    <3> QED
      BY <3>1, <3>2, Names, Zenon DEF ConsoleOf, Served, Some
  <2> QED
    BY <2>1, <2>2, Zenon
<1>4. o \in [Screens -> Some] /\ \A s \in Screens : o[s] # p
  BY <1>1, <1>3, Zenon
<1>5. /\ u \in Systems /\ u.prog = w /\ u.owner = o /\ u.console = v.console
      /\ u.fault = v.fault /\ u.keeper = v.keeper /\ u.loading = v.loading
  BY <1>1, <1>2, <1>4, Zenon DEF Systems
<1>6. Alike(v, u)
  BY <1>1, <1>5, WokenTells DEF Alike, alive
<1>7. ASSUME NEW s \in Screens
      PROVE  Served(u, s) \/ (u.owner[s] = v.owner[s] /\ u.console[s] = v.console[s])
  <2>1. CASE s \notin mine
    BY <1>5, <2>1, Zenon
  <2>2. CASE s \in mine
    <3>1. \A q : On(u, q, s) <=> On(v, q, s)
      BY <1>6, Zenon DEF Alike, On, alive
    <3>2. u.owner[s] = back(s)
      BY <1>5, <2>2, Zenon
    <3> HIDE DEF back
    <3> QED
      BY <1>3, <1>5, <3>1, <3>2, Zenon DEF Served, Good
  <2> QED
    BY <2>1, <2>2, Zenon
<1>8. return_input(v, p) = IF mine = {} THEN v ELSE u
  BY Zenon DEF return_input
<1>9. CASE mine = {}
  BY <1>8, <1>9, Zenon DEF Quit, Alike
<1>10. CASE mine # {}
  <2> HIDE DEF u
  <2>1. return_input(v, p) = u
    BY <1>8, <1>10, Zenon
  <2>2. ~u.fault /\ (u.keeper = "loads" => u.loading \in Shown)
    BY <1>5, Zenon DEF Good
  <2>3. Quit(u, p)
    BY <1>4, <1>5, Zenon DEF Quit
  <2> QED
    BY <1>5, <1>6, <1>7, <2>1, <2>2, <2>3, AlikeIsGood, Zenon
<1> QED
  BY <1>9, <1>10, Zenon

\* Closing a hidden screen, too, leaves the shown ones alone.
LEMMA CloseGood ==
    ASSUME NEW v, Good(v), NEW s
    PROVE  /\ Good(close_hidden_screen(v, s)) /\ Alike(v, close_hidden_screen(v, s))
           /\ close_hidden_screen(v, s).prog = v.prog
           /\ \A p \in Pids : Quit(v, p) => Quit(close_hidden_screen(v, s), p)
<1> DEFINE u == [v EXCEPT !.owner[s] = None, !.paused[s] = None, !.open = @ \ {s}]
<1>1. /\ v \in Systems /\ v.owner \in [Screens -> Some] /\ v.paused \in [Screens -> Some]
      /\ v.open \in SUBSET Hidden
  BY Zenon DEF Good, Systems
<1>2. [v.owner EXCEPT ![s] = None] \in [Screens -> Some] /\ [v.paused EXCEPT ![s] = None] \in [Screens -> Some]
  BY <1>1, Zenon DEF Some
<1>3. /\ u \in Systems /\ u.prog = v.prog /\ u.owner = [v.owner EXCEPT ![s] = None]
      /\ u.console = v.console /\ u.fault = v.fault /\ u.keeper = v.keeper /\ u.loading = v.loading
  BY <1>1, <1>2, Zenon DEF Systems
<1>4. Alike(v, u)
  BY <1>3, Zenon DEF Alike, alive
<1>5. ASSUME NEW t \in Screens
      PROVE  Served(u, t) \/ (u.owner[t] = v.owner[t] /\ u.console[t] = v.console[t])
  <2>1. u.owner[t] = v.owner[t] \/ u.owner[t] = None
    BY <1>1, <1>3, ZenonT(60)
  <2> QED
    BY <1>3, <2>1, Zenon DEF Served, Good, On, alive
<1>6. \A p \in Pids : Quit(v, p) => Quit(u, p)
  BY <1>1, <1>3, Names DEF Quit
<1>7. u = close_hidden_screen(v, s)
  BY Zenon DEF close_hidden_screen
<1>8. ~u.fault /\ (u.keeper = "loads" => u.loading \in Shown)
  BY <1>3, Zenon DEF Good
<1> HIDE DEF u
<1> QED
  BY <1>3, <1>4, <1>5, <1>6, <1>7, <1>8, AlikeIsGood, Zenon

\* release_screen() closes a hidden screen at most.
LEMMA ReleaseGood ==
    ASSUME NEW v, Good(v), NEW p \in Pids, Quit(v, p)
    PROVE  Good(release_screen(v, p)) /\ Alike(v, release_screen(v, p)) /\ Quit(release_screen(v, p), p)
<1>1. release_screen(v, p) \in {v, close_hidden_screen(v, v.prog[p].screen)}
  BY Zenon DEF release_screen
<1>2. Alike(v, v)
  BY Zenon DEF Alike
<1> QED
  BY <1>1, <1>2, CloseGood, Zenon

\* retitle_after() gives the keys to the console that has them.
LEMMA RetitleGood ==
    ASSUME NEW v, Good(v), NEW p \in Pids, Quit(v, p)
    PROVE  Good(retitle_after(v, p)) /\ Alike(v, retitle_after(v, p)) /\ Quit(retitle_after(v, p), p)
<1> DEFINE s == v.prog[p].screen
           c == v.console[s]
           u == [v EXCEPT !.paused[s] = None]
<1>1. /\ v \in Systems /\ v.owner \in [Screens -> Some] /\ v.paused \in [Screens -> Some]
      /\ v.console \in [Screens -> Some \cup {Failed}]
  BY Zenon DEF Good, Systems
<1>2. CASE s \in Shown /\ c >= 0 /\ p # c /\ v.owner[s] = c
             /\ \A q \in Pids \ {p} : ~moves(v, q, s)
  <2>1. retitle_after(v, p) = set_input_owner(u, s, c)
    BY <1>2, Zenon DEF retitle_after
  <2>2. s \in Screens /\ c \in Pids /\ On(v, c, s)
    BY <1>1, <1>2, Names, Zenon DEF Screens, Good, Served
  <2>3. [v.paused EXCEPT ![s] = None] \in [Screens -> Some]
    BY <1>1, Zenon DEF Some
  <2>4. /\ u \in Systems /\ u.prog = v.prog /\ u.owner = v.owner /\ u.console = v.console
        /\ u.fault = v.fault /\ u.keeper = v.keeper /\ u.loading = v.loading
    BY <1>1, <2>3, Zenon DEF Systems
  <2>5. Good(u) /\ Alike(v, u) /\ On(u, c, s)
    <3>1. Alike(v, u) /\ On(u, c, s)
      BY <2>2, <2>4, Zenon DEF Alike, On, alive
    <3>2. ~u.fault /\ (u.keeper = "loads" => u.loading \in Shown)
      BY <2>4, Zenon DEF Good
    <3> HIDE DEF u
    <3> QED
      BY <2>4, <3>1, <3>2, AlikeIsGood, Zenon
  <2>6. c \in Some
    BY <2>2, Zenon DEF Some
  <2> HIDE DEF u, c, s
  <2>7. Good(set_input_owner(u, s, c)) /\ Alike(u, set_input_owner(u, s, c))
    BY <2>2, <2>5, <2>6, OwnerSet, Zenon
  <2>8. Alike(v, set_input_owner(u, s, c))
    BY <2>5, <2>7 DEF Alike
  <2>9. /\ set_input_owner(u, s, c).console = v.console
        /\ set_input_owner(u, s, c).owner = [v.owner EXCEPT ![s] = c]
    BY <2>4, Zenon DEF set_input_owner, Systems
  <2>10. Quit(set_input_owner(u, s, c), p)
    BY <1>1, <1>2, <2>9, Zenon DEF Quit
  <2> QED
    BY <2>1, <2>7, <2>8, <2>10, Zenon
<1>3. CASE ~(s \in Shown /\ c >= 0 /\ p # c /\ v.owner[s] = c
             /\ \A q \in Pids \ {p} : ~moves(v, q, s))
  <2>1. retitle_after(v, p) = v
    BY <1>3, Zenon DEF retitle_after
  <2> QED
    BY <2>1, Zenon DEF Alike
<1> QED
  BY <1>2, <1>3, Zenon

\* Nothing that counts names a program that quit every screen.
LEMMA ForgottenGood ==
    ASSUME NEW v, Good(v), NEW p \in Pids, Quit(v, p), Unbrought(v, p)
    PROVE  Good(Forgotten(v, p))
<1> DEFINE no(q) == IF q = p THEN None ELSE q
           r(q) == [v.prog[q] EXCEPT !.giver = no(v.prog[q].giver), !.who = no(v.prog[q].who)]
           g == [q \in Pids |-> IF q = p THEN NoProg ELSE r(q)]
           b == [s \in Screens |-> no(v.paused[s])]
           o == [s \in Screens |-> IF s \in Hidden THEN no(v.owner[s]) ELSE v.owner[s]]
           u == [v EXCEPT !.prog = g, !.paused = b, !.owner = o]
<1>1. /\ v \in Systems /\ v.owner \in [Screens -> Some] /\ v.paused \in [Screens -> Some]
      /\ v.prog \in [Pids -> Progs]
  BY Zenon DEF Good, Systems
<1>2. NoProg \in Progs
  BY Zenon DEF NoProg, Progs, Some, Places
<1>3. ASSUME NEW q \in Pids, q # p
      PROVE  /\ g[q] \in Progs
             /\ g[q].state = v.prog[q].state /\ g[q].screen = v.prog[q].screen
             /\ g[q].at = v.prog[q].at /\ g[q].scr = v.prog[q].scr /\ g[q].to = v.prog[q].to
             /\ v.prog[q].who # p => g[q].who = v.prog[q].who
  <2>1. v.prog[q] \in Progs
    BY <1>1, Zenon
  <2>2. g[q] = [v.prog[q] EXCEPT !.giver = no(v.prog[q].giver), !.who = no(v.prog[q].who)]
    BY <1>3, Zenon
  <2>3. no(v.prog[q].giver) \in Some /\ no(v.prog[q].who) \in Some
    BY <2>1, Zenon DEF Progs, Some
  <2>4. v.prog[q].who # p => no(v.prog[q].who) = v.prog[q].who
    BY Zenon
  <2> HIDE DEF no, g
  <2> QED
    BY <2>1, <2>2, <2>3, <2>4, ZenonT(60) DEF Progs
<1>4. g \in [Pids -> Progs] /\ g[p] = NoProg
  BY <1>2, <1>3, Zenon
<1>5. b \in [Screens -> Some] /\ o \in [Screens -> Some] /\ \A s \in Shown : o[s] = v.owner[s]
  BY <1>1, Names, Zenon DEF Some, Screens
<1>6. /\ u \in Systems /\ u.prog = g /\ u.owner = o /\ u.console = v.console
      /\ u.fault = v.fault /\ u.keeper = v.keeper /\ u.loading = v.loading
  BY <1>1, <1>4, <1>5, Zenon DEF Systems
<1> HIDE DEF u, g, o, b
<1>7. /\ ~alive(u, p) /\ u.prog[p].at = "user"
      /\ \A q \in Pids \ {p} : alive(u, q) <=> alive(v, q)
      /\ \A q, s : q # p => (On(u, q, s) <=> On(v, q, s))
  BY <1>3, <1>4, <1>6 DEF alive, On, NoProg
<1>8. ASSUME NEW q \in Pids PROVE Placed(u, q)
  <2>1. CASE q = p
    BY <1>7, <2>1, Zenon DEF Placed
  <2>2. CASE q # p
    <3>1. v.prog[q].at = "fg" => v.prog[q].who # p
      BY Zenon DEF Unbrought
    <3>2. Placed(v, q)
      BY Zenon DEF Good
    <3> QED
      BY <1>3, <1>6, <1>7, <2>2, <3>1, <3>2, Zenon DEF Placed
  <2> QED
    BY <2>1, <2>2, Zenon
<1>9. ASSUME NEW s \in Screens PROVE Served(u, s)
  <2>1. Served(v, s) /\ v.console[s] # p /\ (s \in Shown => v.owner[s] # p /\ u.owner[s] = v.owner[s])
    BY <1>5, <1>6, Zenon DEF Good, Quit
  <2> QED
    BY <1>6, <1>7, <2>1, Zenon DEF Served
<1>10. u = Forgotten(v, p)
  BY Zenon DEF Forgotten, u, g, o, b
<1> QED
  BY <1>6, <1>8, <1>9, <1>10, Zenon DEF Good

\* A program can end that no fg is bringing.
LEMMA TerminateGood ==
    ASSUME NEW v, Good(v), NEW p \in Pids, Unbrought(v, p)
    PROVE  Good(terminate(v, p))
<1> DEFINE v1 == NoConsole(v, p)
           v2 == return_input(v1, p)
           v3 == release_screen(v2, p)
           v4 == retitle_after(v3, p)
<1>1. Good(v1) /\ Alike(v, v1) /\ \A s \in Screens : v1.console[s] # p
  BY NoConsoleGood, Zenon
<1> HIDE DEF v1
<1>2. Good(v2) /\ Alike(v1, v2) /\ Quit(v2, p)
  BY <1>1, ReturnInputGood, Zenon
<1> HIDE DEF v2
<1>3. Good(v3) /\ Alike(v2, v3) /\ Quit(v3, p)
  BY <1>2, ReleaseGood, Zenon
<1> HIDE DEF v3
<1>4. Good(v4) /\ Alike(v3, v4) /\ Quit(v4, p)
  BY <1>3, RetitleGood, Zenon
<1> HIDE DEF v4
<1>5. Unbrought(v4, p)
  BY <1>1, <1>2, <1>3, <1>4 DEF Alike, Unbrought
<1>6. terminate(v, p) = Forgotten(v4, p)
  BY Zenon DEF terminate, v1, v2, v3, v4
<1> QED
  BY <1>4, <1>5, <1>6, ForgottenGood, Zenon
-----------------------------------------------------------------------------
(* What the other operators do to a good system.                           *)

\* Another process table, with the programs where they were.
LEMMA ProgGood ==
    ASSUME NEW v, Good(v), NEW g \in [Pids -> Progs], Alike(v, [v EXCEPT !.prog = g])
    PROVE  Good([v EXCEPT !.prog = g])
<1> DEFINE u == [v EXCEPT !.prog = g]
<1>1. v \in Systems
  BY Zenon DEF Good
<1>2. /\ u \in Systems /\ u.owner = v.owner /\ u.console = v.console
      /\ u.fault = v.fault /\ u.keeper = v.keeper /\ u.loading = v.loading
  BY <1>1, Zenon DEF Systems
<1>3. ~u.fault /\ (u.keeper = "loads" => u.loading \in Shown)
  BY <1>2, Zenon DEF Good
<1> HIDE DEF u
<1> QED
  BY <1>2, <1>3, AlikeIsGood, Zenon DEF u

\* Waking the readers.
LEMMA WakeGood ==
    ASSUME NEW v, Good(v), NEW Q
    PROVE  Good([v EXCEPT !.prog = Woken(v.prog, Q)]) /\ Alike(v, [v EXCEPT !.prog = Woken(v.prog, Q)])
<1> DEFINE w == Woken(v.prog, Q)
<1>1. v.prog \in [Pids -> Progs] /\ v \in Systems
  BY Zenon DEF Good, Systems
<1>2. w \in [Pids -> Progs]
  BY <1>1, WokenTells, Zenon
<1>3. [v EXCEPT !.prog = w].prog = w
  BY <1>1, Zenon DEF Systems
<1>4. Alike(v, [v EXCEPT !.prog = w])
  BY <1>1, <1>3, WokenTells DEF Alike, alive
<1> HIDE DEF w
<1>5. Good([v EXCEPT !.prog = w])
  BY <1>2, <1>4, ProgGood, Zenon
<1> QED
  BY <1>4, <1>5, Zenon DEF w

\* Pausing and going on.
LEMMA PutGood ==
    ASSUME NEW v, Good(v), NEW s, NEW state \in {"Live", "Stopped"}
    PROVE  Good(Put(v, s, state)) /\ Alike(v, Put(v, s, state))
<1> DEFINE g == [p \in Pids |-> IF moves(v, p, s) THEN [v.prog[p] EXCEPT !.state = state] ELSE v.prog[p]]
           u == [v EXCEPT !.prog = g]
<1>1. v.prog \in [Pids -> Progs] /\ v \in Systems
  BY Zenon DEF Good, Systems
<1>2. ASSUME NEW p \in Pids
      PROVE  /\ g[p] \in Progs
             /\ g[p].screen = v.prog[p].screen /\ g[p].at = v.prog[p].at /\ g[p].scr = v.prog[p].scr
             /\ g[p].to = v.prog[p].to /\ g[p].who = v.prog[p].who
             /\ g[p].state \in {"Live", "Stopped"} <=> v.prog[p].state \in {"Live", "Stopped"}
  <2>1. v.prog[p] \in Progs
    BY <1>1, Zenon
  <2>2. CASE moves(v, p, s)
    <3>1. v.prog[p].state \in {"Live", "Stopped"} /\ g[p] = [v.prog[p] EXCEPT !.state = state]
      BY <2>2, Zenon DEF moves, On, alive
    <3> HIDE DEF g
    <3> QED
      BY <2>1, <3>1, Zenon DEF Progs
  <2>3. CASE ~moves(v, p, s)
    BY <2>1, <2>3, Zenon
  <2> QED
    BY <2>2, <2>3, Zenon
<1>3. g \in [Pids -> Progs]
  BY <1>2, Zenon
<1>4. u.prog = g
  BY <1>1, Zenon DEF Systems
<1> HIDE DEF g
<1>5. Alike(v, u)
  BY <1>2, <1>4, Zenon DEF Alike, alive
<1>6. Good(u)
  BY <1>3, <1>5, ProgGood, Zenon
<1>7. u = Put(v, s, state)
  BY Zenon DEF Put, g
<1> HIDE DEF u
<1> QED
  BY <1>5, <1>6, <1>7, Zenon

\* Whose keys are kept for later is of no account.
LEMMA PausedGood ==
    ASSUME NEW v, Good(v), NEW s, NEW q \in Some
    PROVE  /\ Good([v EXCEPT !.paused[s] = q]) /\ Alike(v, [v EXCEPT !.paused[s] = q])
           /\ [v EXCEPT !.paused[s] = q].prog = v.prog
<1> DEFINE u == [v EXCEPT !.paused[s] = q]
<1>1. v \in Systems /\ v.paused \in [Screens -> Some]
  BY Zenon DEF Good, Systems
<1>2. [v.paused EXCEPT ![s] = q] \in [Screens -> Some]
  BY <1>1, Zenon
<1>3. /\ u \in Systems /\ u.prog = v.prog /\ u.owner = v.owner /\ u.console = v.console
      /\ u.fault = v.fault /\ u.keeper = v.keeper /\ u.loading = v.loading
  BY <1>1, <1>2, Zenon DEF Systems
<1>4. Alike(v, u)
  BY <1>3, Zenon DEF Alike, alive
<1>5. ~u.fault /\ (u.keeper = "loads" => u.loading \in Shown)
  BY <1>3, Zenon DEF Good
<1> HIDE DEF u
<1>6. Good(u)
  BY <1>3, <1>4, <1>5, AlikeIsGood, Zenon
<1> QED
  BY <1>3, <1>4, <1>6, Zenon DEF u

\* Ctrl+Alt+C and EndProcess tell programs to end, no more.
LEMMA EndGood ==
    ASSUME NEW v, Good(v), NEW e \in [Pids -> BOOLEAN]
    PROVE  LET u == [v EXCEPT !.prog = [p \in Pids |-> [v.prog[p] EXCEPT !.end = e[p]]]]
           IN  Good(u) /\ Alike(v, u)
<1> DEFINE g == [p \in Pids |-> [v.prog[p] EXCEPT !.end = e[p]]]
           u == [v EXCEPT !.prog = g]
<1>1. v.prog \in [Pids -> Progs] /\ v \in Systems
  BY Zenon DEF Good, Systems
<1>2. ASSUME NEW p \in Pids
      PROVE  /\ g[p] \in Progs /\ g[p].state = v.prog[p].state
             /\ g[p].screen = v.prog[p].screen /\ g[p].at = v.prog[p].at /\ g[p].scr = v.prog[p].scr
             /\ g[p].to = v.prog[p].to /\ g[p].who = v.prog[p].who
  BY <1>1, ZenonT(60) DEF Progs
<1>3. g \in [Pids -> Progs]
  BY <1>2, Zenon
<1>4. u.prog = g
  BY <1>1, Zenon DEF Systems
<1>5. Alike(v, u)
  <2> HIDE DEF g
  <2> QED
    BY <1>2, <1>4 DEF Alike, alive
<1> HIDE DEF g
<1>6. Good(u)
  BY <1>3, <1>5, ProgGood, Zenon
<1> QED
  BY <1>5, <1>6, Zenon DEF g

\* end_programs_on(), Ctrl+Alt+C.
LEMMA EndProgramsGood ==
    ASSUME NEW v, Good(v), NEW s
    PROVE  Good(end_programs_on(v, s)) /\ Alike(v, end_programs_on(v, s))
<1> DEFINE others == \E p \in Pids : moves(v, p, s)
           end(p) == v.prog[p].end \/ (On(v, p, s) /\ (others => p # v.console[s]))
           e == [p \in Pids |-> end(p)]
<1>1. e \in [Pids -> BOOLEAN] /\ \A p \in Pids : e[p] = end(p)
  BY Zenon
<1>2. end_programs_on(v, s) = [v EXCEPT !.prog = [p \in Pids |-> [v.prog[p] EXCEPT !.end = end(p)]]]
  BY Zenon DEF end_programs_on
<1> HIDE DEF end, e
<1>3. end_programs_on(v, s) = [v EXCEPT !.prog = [p \in Pids |-> [v.prog[p] EXCEPT !.end = e[p]]]]
  BY <1>1, <1>2, Zenon
<1> QED
  BY <1>1, <1>3, EndGood

\* pause_programs_on(): who gets the keys, the console or who had them before,
\* is on the screen.
LEMMA PauseGood ==
    ASSUME NEW v, Good(v), NEW s \in Shown
    PROVE  Good(pause_programs_on(v, s)) /\ Alike(v, pause_programs_on(v, s))
<1> DEFINE paused == \E p \in Pids : moves(v, p, s) /\ v.prog[p].state = "Stopped"
           owner == v.owner[s]
           had == v.paused[s]
           c == v.console[s]
           v1 == Put(v, s, "Live")
           u1 == [v1 EXCEPT !.paused[s] = None]
           v2 == Put(v, s, "Stopped")
           u2 == [v2 EXCEPT !.paused[s] = owner]
<1>1. s \in Screens /\ owner \in Some /\ had \in Some /\ c \in Some \cup {Failed} /\ None \in Some
  BY Zenon DEF Good, Systems, Screens, Some
<1>2. Good(v1) /\ Alike(v, v1) /\ Good(v2) /\ Alike(v, v2)
  BY PutGood, Zenon
<1> HIDE DEF v1, v2
<1>3. Good(u1) /\ Alike(v1, u1)
  BY <1>1, <1>2, PausedGood, Zenon
<1>4. Good(u2) /\ Alike(v2, u2)
  BY <1>1, <1>2, PausedGood, Zenon
<1> HIDE DEF u1, u2
<1>5. Alike(v, u1) /\ Alike(v, u2)
  BY <1>2, <1>3, <1>4, SMTT(60) DEF Alike
<1>6. On(v, had, s) => Good(set_input_owner(u1, s, had)) /\ Alike(v, set_input_owner(u1, s, had))
  <2>1. On(v, had, s) => On(u1, had, s)
    BY <1>5, Zenon DEF Alike, On, alive
  <2>2. On(v, had, s) => Good(set_input_owner(u1, s, had)) /\ Alike(u1, set_input_owner(u1, s, had))
    BY <1>1, <1>3, <2>1, OwnerSet, ZenonT(60)
  <2> QED
    BY <1>5, <2>2 DEF Alike
<1>7. c >= 0 => Good(set_input_owner(u2, s, c)) /\ Alike(v, set_input_owner(u2, s, c))
  <2>1. c >= 0 => c \in Some /\ On(v, c, s)
    BY <1>1, Names, Zenon DEF Good, Served, Some
  <2>2. c >= 0 => On(u2, c, s)
    BY <1>5, <2>1, Zenon DEF Alike, On, alive
  <2>3. c >= 0 => Good(set_input_owner(u2, s, c)) /\ Alike(u2, set_input_owner(u2, s, c))
    BY <1>1, <1>4, <2>1, <2>2, OwnerSet, Zenon
  <2> QED
    BY <1>5, <2>3 DEF Alike
<1>8. pause_programs_on(v, s) =
        IF ~\E p \in Pids : moves(v, p, s) THEN v
        ELSE IF paused THEN IF On(v, had, s) THEN set_input_owner(u1, s, had) ELSE u1
        ELSE IF c >= 0 /\ moves(v, owner, s) THEN set_input_owner(u2, s, c)
        ELSE v2
  BY Zenon DEF pause_programs_on, u1, u2, v1, v2
<1>9. Alike(v, v)
  BY Zenon DEF Alike
<1> HIDE DEF paused, had, c, owner
<1> QED
  BY <1>2, <1>3, <1>5, <1>6, <1>7, <1>8, <1>9, Zenon

\* A program that is alive goes into a call, or out of one.
LEMMA GoesGood ==
    ASSUME NEW v, Good(v), NEW p \in Pids, alive(v, p), NEW at \in Places,
           NEW scr \in Screens \cup {None}, NEW to \in Screens \cup {None}, NEW who \in Some,
           at = "log" => scr \in Hidden, at = "start" => scr \in Hidden \cup {None},
           at = "fg" => to \in Shown /\ On(v, who, to)
    PROVE  Good(Goes(v, p, at, scr, to, who)) /\ \A q, s : On(Goes(v, p, at, scr, to, who), q, s) <=> On(v, q, s)
<1> DEFINE r == [v.prog[p] EXCEPT !.at = at, !.scr = scr, !.to = to, !.who = who, !.woken = FALSE]
           u == [v EXCEPT !.prog[p] = r]
<1>1. v \in Systems /\ v.prog \in [Pids -> Progs] /\ v.prog[p] \in Progs
  BY Zenon DEF Good, Systems
<1>2. /\ r \in Progs /\ r.state = v.prog[p].state /\ r.screen = v.prog[p].screen
      /\ r.at = at /\ r.scr = scr /\ r.to = to /\ r.who = who
  BY <1>1, Zenon DEF Progs
<1> HIDE DEF r
<1>3. /\ u \in Systems /\ u.prog = [v.prog EXCEPT ![p] = r] /\ u.owner = v.owner /\ u.console = v.console
      /\ u.fault = v.fault /\ u.keeper = v.keeper /\ u.loading = v.loading
  BY <1>1, <1>2, Zenon DEF Systems
<1> HIDE DEF u
<1>4. u.prog[p] = r /\ \A q \in Pids \ {p} : u.prog[q] = v.prog[q]
  BY <1>1, <1>3, Zenon
<1>5. /\ \A q : alive(u, q) <=> alive(v, q)
      /\ \A q, s : On(u, q, s) <=> On(v, q, s)
  BY <1>2, <1>4, Zenon DEF alive, On
<1>6. ASSUME NEW q \in Pids PROVE Placed(u, q)
  <2>1. Placed(v, q)
    BY Zenon DEF Good
  <2>2. CASE q = p
    BY <1>2, <1>4, <1>5, <2>1, <2>2, Zenon DEF Placed
  <2>3. CASE q # p
    BY <1>4, <1>5, <2>1, <2>3, Zenon DEF Placed
  <2> QED
    BY <2>2, <2>3, Zenon
<1>7. \A s \in Screens : Served(u, s)
  BY <1>3, <1>5, Zenon DEF Good, Served
<1>8. u = Goes(v, p, at, scr, to, who)
  BY Zenon DEF Goes, u, r
<1> QED
  BY <1>3, <1>5, <1>6, <1>7, <1>8, Zenon DEF Good

\* A new program under a pid that was free.
LEMMA FreshGood ==
    ASSUME NEW v, Good(v), NEW q \in Pids, ~alive(v, q), NEW s \in Screens, NEW giver \in Some
    PROVE  LET u == [v EXCEPT !.prog[q] = New(s, giver)]
           IN  Good(u) /\ On(u, q, s) /\ \A p, t : On(v, p, t) => On(u, p, t)
<1> DEFINE r == New(s, giver)
           u == [v EXCEPT !.prog[q] = r]
<1>1. v \in Systems /\ v.prog \in [Pids -> Progs]
  BY Zenon DEF Good, Systems
<1>2. r \in Progs /\ r.state = "Live" /\ r.screen = s /\ r.at = "user"
  BY ZenonT(60) DEF Progs, New, NoProg, Some, Places
<1> HIDE DEF r
<1>3. /\ u \in Systems /\ u.prog = [v.prog EXCEPT ![q] = r] /\ u.owner = v.owner /\ u.console = v.console
      /\ u.fault = v.fault /\ u.keeper = v.keeper /\ u.loading = v.loading
  BY <1>1, <1>2, Zenon DEF Systems
<1> HIDE DEF u
<1>4. u.prog[q] = r /\ \A p \in Pids \ {q} : u.prog[p] = v.prog[p]
  BY <1>1, <1>3, Zenon
<1>5. /\ \A p \in Pids \ {q} : alive(u, p) <=> alive(v, p)
      /\ \A p, t : On(v, p, t) => On(u, p, t)
      /\ On(u, q, s) /\ alive(u, q)
  BY <1>2, <1>4, Zenon DEF alive, On
<1>6. ASSUME NEW p \in Pids PROVE Placed(u, p)
  <2>1. Placed(v, p)
    BY Zenon DEF Good
  <2>2. CASE p = q
    BY <1>2, <1>4, <1>5, <2>2, Zenon DEF Placed
  <2>3. CASE p # q
    BY <1>4, <1>5, <2>1, <2>3, Zenon DEF Placed
  <2> QED
    BY <2>2, <2>3, Zenon
<1>7. \A t \in Screens : Served(u, t)
  BY <1>3, <1>5, Zenon DEF Good, Served
<1>8. Good(u)
  BY <1>3, <1>6, <1>7, Zenon DEF Good
<1> QED
  BY <1>5, <1>8, Zenon DEF u, r

\* The programs of screen `from' but its console are on screen `to' instead, the
\* others where they were.
LEMMA MovedPrograms ==
    ASSUME NEW v, Good(v), NEW from \in Screens, NEW to \in Screens
    PROVE  LET m == Moved(v, from, to) IN
           /\ m \in Systems /\ m.owner = v.owner /\ m.console = v.console /\ m.paused = v.paused
           /\ m.open = v.open
           /\ m.fault = v.fault /\ m.keeper = v.keeper /\ m.loading = v.loading
           /\ \A p : alive(m, p) <=> alive(v, p)
           /\ \A p : moves(v, p, from) => On(m, p, to)
           /\ \A p, s : ~moves(v, p, from) /\ On(v, p, s) => On(m, p, s)
           /\ \A p \in Pids : /\ m.prog[p].at = v.prog[p].at /\ m.prog[p].scr = v.prog[p].scr
                              /\ m.prog[p].to = v.prog[p].to /\ m.prog[p].who = v.prog[p].who
<1> DEFINE g == [p \in Pids |-> IF moves(v, p, from) THEN [v.prog[p] EXCEPT !.screen = to] ELSE v.prog[p]]
           m == [v EXCEPT !.prog = g]
<1>1. v.prog \in [Pids -> Progs] /\ v \in Systems
  BY Zenon DEF Good, Systems
<1>2. ASSUME NEW p \in Pids
      PROVE  /\ g[p] \in Progs /\ g[p].state = v.prog[p].state
             /\ g[p].screen = IF moves(v, p, from) THEN to ELSE v.prog[p].screen
             /\ g[p].at = v.prog[p].at /\ g[p].scr = v.prog[p].scr
             /\ g[p].to = v.prog[p].to /\ g[p].who = v.prog[p].who
  BY <1>1, ZenonT(60) DEF Progs
<1>3. g \in [Pids -> Progs]
  BY <1>2, Zenon
<1> HIDE DEF g
<1>4. /\ m \in Systems /\ m.prog = g /\ m.owner = v.owner /\ m.console = v.console
      /\ m.paused = v.paused /\ m.open = v.open
      /\ m.fault = v.fault /\ m.keeper = v.keeper /\ m.loading = v.loading
  BY <1>1, <1>3, Zenon DEF Systems
<1> HIDE DEF m
<1>5. \A p : alive(m, p) <=> alive(v, p)
  BY <1>2, <1>4, Zenon DEF alive
<1>6. /\ \A p : moves(v, p, from) => On(m, p, to)
      /\ \A p, s : ~moves(v, p, from) /\ On(v, p, s) => On(m, p, s)
  <2>1. \A p, s : On(v, p, s) => p \in Pids
    BY Zenon DEF On, alive
  <2>2. \A p : moves(v, p, from) => p \in Pids /\ alive(v, p)
    BY Zenon DEF On, alive, moves
  <2> QED
    BY <1>2, <1>4, <1>5, <2>1, <2>2, Zenon DEF On
<1>7. m = Moved(v, from, to)
  BY Zenon DEF Moved, m, g
<1> QED
  BY <1>2, <1>4, <1>5, <1>6, <1>7, Zenon

\* Such a system is good once the keys of screen `from' are nobody's that moved,
\* if no fg brings a program there.
LEMMA MovedGood ==
    ASSUME NEW v, Good(v), NEW from \in Screens, NEW to \in Screens, from # to,
           \A c \in Pids : v.prog[c].at = "fg" => v.prog[c].to # from,
           NEW u \in Systems, Alike(Moved(v, from, to), u), u.console = v.console, ~u.fault,
           u.keeper = v.keeper, u.loading = v.loading,
           \A s \in Screens \ {from} : u.owner[s] = v.owner[s],
           from \in Shown /\ u.owner[from] # None =>
               On(v, u.owner[from], from) /\ ~moves(v, u.owner[from], from)
    PROVE  Good(u) /\ \A p : moves(v, p, from) => On(u, p, to)
<1> DEFINE m == Moved(v, from, to)
<1>1. /\ \A p : alive(m, p) <=> alive(v, p)
      /\ \A p : moves(v, p, from) => On(m, p, to)
      /\ \A p, s : ~moves(v, p, from) /\ On(v, p, s) => On(m, p, s)
      /\ \A p \in Pids : /\ m.prog[p].at = v.prog[p].at /\ m.prog[p].scr = v.prog[p].scr
                         /\ m.prog[p].to = v.prog[p].to /\ m.prog[p].who = v.prog[p].who
  BY MovedPrograms, ZenonT(60)
<1> HIDE DEF m
<1>2. /\ \A p : alive(u, p) <=> alive(v, p)
      /\ \A p : moves(v, p, from) => On(u, p, to)
      /\ \A p, s : ~moves(v, p, from) /\ On(v, p, s) => On(u, p, s)
      /\ \A p \in Pids : /\ u.prog[p].at = v.prog[p].at /\ u.prog[p].scr = v.prog[p].scr
                         /\ u.prog[p].to = v.prog[p].to /\ u.prog[p].who = v.prog[p].who
  <2>1. \A p, s : On(m, p, s) <=> On(u, p, s)
    BY Zenon DEF m, Alike, On, alive
  <2>2. \A p : alive(m, p) <=> alive(u, p)
    BY Zenon DEF m, Alike, alive
  <2> QED
    BY <1>1, <2>1, <2>2, Zenon DEF m, Alike
<1>3. \A p, s : On(v, p, s) /\ s # from => ~moves(v, p, from)
  BY Zenon DEF moves, On
<1>4. ASSUME NEW p \in Pids PROVE Placed(u, p)
  <2>1. Placed(v, p) /\ (v.prog[p].at = "fg" => v.prog[p].to # from)
    BY Zenon DEF Good
  <2>2. alive(u, p) => u.prog[p].screen \in Screens
    BY <1>2, <2>1, SMTT(60) DEF Placed, On
  <2>3. v.prog[p].at = "fg" => On(u, v.prog[p].who, v.prog[p].to)
    BY <1>2, <1>3, <2>1, Zenon DEF Placed
  <2> QED
    BY <1>2, <2>1, <2>2, <2>3, Zenon DEF Placed
<1>5. ASSUME NEW s \in Screens PROVE Served(u, s)
  <2>1. Served(v, s)
    BY Zenon DEF Good
  <2>2. \A p : On(v, p, s) /\ p = v.console[s] => ~moves(v, p, from)
    BY Zenon DEF moves, On
  <2>3. CASE s = from
    BY <1>2, <2>1, <2>2, <2>3, Zenon DEF Served
  <2>4. CASE s # from
    BY <1>2, <1>3, <2>1, <2>4, Zenon DEF Served
  <2> QED
    BY <2>3, <2>4, Zenon
<1> QED
  BY <1>2, <1>4, <1>5, Zenon DEF Good

\* move_programs() from a shown screen.
LEMMA MoveProgramsGood ==
    ASSUME NEW v, Good(v), NEW from \in Shown, NEW to \in Screens, from # to,
           \A c \in Pids : v.prog[c].at = "fg" => v.prog[c].to # from
    PROVE  LET u == move_programs(v, from, to) IN
           /\ Good(u) /\ u.open = v.open
           /\ \A p : alive(u, p) <=> alive(v, p)
           /\ \A p : moves(v, p, from) => On(u, p, to)
<1> DEFINE m == Moved(v, from, to)
           n == [m EXCEPT !.paused[from] = None]
           c == ConsoleOf(v, from)
           Q == {"input", "key"}
           w == Woken(m.prog, Q)
           k == Woken(m.prog, {"key"})
           u1 == [n EXCEPT !.owner[from] = c, !.prog = w]
           u2 == [n EXCEPT !.prog = k]
<1>1. from \in Screens /\ v \in Systems /\ v.owner[from] \in Some
  BY Zenon DEF Good, Systems, Screens
<1>2. /\ m \in Systems /\ m.owner = v.owner /\ m.console = v.console /\ m.paused = v.paused
      /\ m.open = v.open /\ m.fault = v.fault /\ m.keeper = v.keeper /\ m.loading = v.loading
      /\ \A p : alive(m, p) <=> alive(v, p)
  BY <1>1, MovedPrograms
<1> HIDE DEF m
<1>3. m.prog \in [Pids -> Progs] /\ m.paused \in [Screens -> Some] /\ m.owner \in [Screens -> Some]
  BY <1>2, Zenon DEF Systems
<1>4. w \in [Pids -> Progs] /\ k \in [Pids -> Progs]
  BY <1>3, WokenTells, Zenon
<1>5. /\ c \in Some
      /\ c # None => On(v, c, from) /\ ~moves(v, c, from)
  <2>1. v.console[from] \in Some \cup {Failed} /\ Served(v, from)
    BY <1>1, Zenon DEF Good, Systems
  <2> QED
    BY <1>1, <2>1, Names, Zenon DEF ConsoleOf, Served, Some, moves
<1>6. /\ n \in Systems /\ n.owner = m.owner /\ n.prog = m.prog /\ n.open = m.open
      /\ n.console = m.console /\ n.fault = m.fault /\ n.keeper = m.keeper /\ n.loading = m.loading
  <2>1. [m.paused EXCEPT ![from] = None] \in [Screens -> Some]
    BY <1>3, Zenon DEF Some
  <2> QED
    BY <1>2, <2>1, Zenon DEF Systems
<1> HIDE DEF n, c
<1>7. /\ u1 \in Systems /\ u1.owner = [v.owner EXCEPT ![from] = c] /\ u1.prog = w /\ u1.open = v.open
      /\ u1.console = v.console /\ u1.fault = v.fault /\ u1.keeper = v.keeper /\ u1.loading = v.loading
  <2>1. [n.owner EXCEPT ![from] = c] \in [Screens -> Some]
    BY <1>1, <1>3, <1>5, <1>6, Zenon
  <2> HIDE DEF w
  <2> QED
    BY <1>2, <1>4, <1>6, <2>1, Zenon DEF Systems
<1>8. /\ u2 \in Systems /\ u2.owner = v.owner /\ u2.prog = k /\ u2.open = v.open
      /\ u2.console = v.console /\ u2.fault = v.fault /\ u2.keeper = v.keeper /\ u2.loading = v.loading
  <2> HIDE DEF k
  <2> QED
    BY <1>2, <1>4, <1>6, Zenon DEF Systems
<1>9. Alike(m, u1) /\ Alike(m, u2)
  BY <1>3, <1>7, <1>8, WokenTells, SMTT(60) DEF Alike, alive
<1> HIDE DEF u1, u2, w, k
<1>10. (\A p : alive(u1, p) <=> alive(v, p)) /\ (\A p : alive(u2, p) <=> alive(v, p))
  BY <1>2, <1>9, Zenon DEF Alike, alive
<1>11. Good(u1) /\ \A p : moves(v, p, from) => On(u1, p, to)
  <2>1. u1.owner[from] = c /\ \A s \in Screens \ {from} : u1.owner[s] = v.owner[s]
    BY <1>1, <1>2, <1>3, <1>7, Zenon
  <2>2. ~u1.fault
    BY <1>7, Zenon DEF Good
  <2> QED
    BY <1>1, <1>5, <1>7, <1>9, <2>1, <2>2, MovedGood, ZenonT(60) DEF m
<1>12. ASSUME HadKeys(v, from) = None, alive(v, v.owner[from])
       PROVE  Good(u2) /\ \A p : moves(v, p, from) => On(u2, p, to)
  <2>1. ~moves(v, v.owner[from], from)
    BY <1>12, Names, Zenon DEF HadKeys, moves, On, alive
  <2>2. On(v, v.owner[from], from)
    BY <1>1, <1>12, Names, Zenon DEF Good, Served, alive
  <2>3. ~u2.fault
    BY <1>8, Zenon DEF Good
  <2> QED
    BY <1>1, <1>8, <1>9, <2>1, <2>2, <2>3, MovedGood, Zenon DEF m
<1>13. move_programs(v, from, to) =
         IF HadKeys(v, from) # None \/ ~alive(v, v.owner[from]) THEN u1 ELSE u2
  <2>1. set_input_owner(n, from, c) = u1
    BY <1>6, Zenon DEF set_input_owner, u1, w
  <2>2. [n EXCEPT !.prog = Woken(n.prog, {"key"})] = u2
    BY <1>6, Zenon DEF u2, k
  <2> QED
    BY <2>1, <2>2, Zenon DEF move_programs, n, m, c
<1> QED
  BY <1>7, <1>8, <1>10, <1>11, <1>12, <1>13, Zenon

\* fg gives the keys to a program it finds on the screen.
LEMMA FgDoneGood ==
    ASSUME NEW v, Good(v), NEW c \in Pids, NEW to \in Shown, NEW owner, On(v, owner, to)
    PROVE  Good(FgDone(v, c, to, owner)) /\ Alike(v, FgDone(v, c, to, owner))
<1> DEFINE w == Put(v, to, "Live")
           r == [w.prog[owner] EXCEPT !.giver = c]
           g == [w.prog EXCEPT ![owner] = r]
           u == [w EXCEPT !.prog = g]
<1>1. Good(w) /\ Alike(v, w)
  BY PutGood, Zenon
<1> HIDE DEF w
<1>2. w \in Systems /\ w.prog \in [Pids -> Progs] /\ owner \in Pids /\ alive(v, owner) /\ to \in Screens
  BY <1>1, Zenon DEF Good, Systems, On, alive, Screens
<1>3. /\ r \in Progs /\ r.state = w.prog[owner].state /\ r.screen = w.prog[owner].screen
      /\ r.at = w.prog[owner].at /\ r.scr = w.prog[owner].scr
      /\ r.to = w.prog[owner].to /\ r.who = w.prog[owner].who
  BY <1>2, SMTT(60) DEF Progs, Some
<1> HIDE DEF r
<1>4. g \in [Pids -> Progs] /\ g[owner] = r /\ \A p \in Pids \ {owner} : g[p] = w.prog[p]
  BY <1>2, <1>3, Zenon
<1> HIDE DEF g
<1>5. u.prog = g
  BY <1>2, Zenon DEF Systems
<1>6. Alike(w, u)
  BY <1>3, <1>4, <1>5, Zenon DEF Alike, alive
<1>7. Good(u)
  BY <1>1, <1>4, <1>6, ProgGood, Zenon
<1>8. u = [w EXCEPT !.prog[owner].giver = c]
  BY Zenon DEF g, r
<1> HIDE DEF u
<1>9. Alike(v, u) /\ On(u, owner, to)
  BY <1>1, <1>2, <1>6, SMTT(60) DEF Alike, On, alive
<1>10. Good(set_input_owner(u, to, owner)) /\ Alike(u, set_input_owner(u, to, owner))
  BY <1>2, <1>7, <1>9, OwnerSet, Zenon DEF Some
<1>11. FgDone(v, c, to, owner) = set_input_owner(u, to, owner)
  BY <1>2, <1>8, Zenon DEF FgDone, w
<1> QED
  BY <1>9, <1>10, <1>11 DEF Alike
-----------------------------------------------------------------------------
(* The steps. Undisturbed, a program that ends or moves is none that a     *)
(* sleeping fg moved, and does not leave the screen such an fg moves to.   *)

\* What is asked of p and s where they could disturb an fg.
LEMMA SteadyMeans ==
    ASSUME ~FgDisturbed, NEW p, NEW s, Steady(p, s)
    PROVE  Unbrought(sys, p) /\ \A c \in Pids : sys.prog[c].at = "fg" => sys.prog[c].to # s
BY Zenon DEF Steady, Bringing, Unbrought

\* choose_next() with any request that may be there.
LEMMA ChooseNextGood ==
    ASSUME Good(sys), ~FgDisturbed
    PROVE  /\ \A s \in Shown : choose_next(None, s, None) \/ choose_next(None, None, s) => Good(sys')
           /\ \A p \in Pids : choose_next(p, None, None) => Good(sys')
<1>1. ASSUME NEW s \in Shown, choose_next(None, s, None)
      PROVE  Good(sys')
  <2>1. s # None /\ \A v : ~ToEnd(v, None)
    BY ConsolesAssumption DEF None, ToEnd, alive
  <2>2. sys' = end_programs_on(sys, s)
    BY <1>1, <2>1, Zenon DEF choose_next
  <2> QED
    BY <2>2, EndProgramsGood, Zenon
<1>2. ASSUME NEW s \in Shown, choose_next(None, None, s)
      PROVE  Good(sys')
  <2>1. s # None /\ \A v : ~ToEnd(v, None)
    BY ConsolesAssumption DEF None, ToEnd, alive
  <2>2. sys' = pause_programs_on(sys, s)
    BY <1>2, <2>1, Zenon DEF choose_next
  <2> QED
    BY <2>2, PauseGood, Zenon
<1>3. ASSUME NEW p \in Pids, choose_next(p, None, None)
      PROVE  Good(sys')
  <2>1. CASE ToEnd(sys, p)
    <3>1. sys' = terminate(sys, p) /\ Steady(p, None)
      BY <1>3, <2>1, Zenon DEF choose_next
    <3> QED
      BY <3>1, SteadyMeans, TerminateGood, Zenon
  <2>2. CASE ~ToEnd(sys, p)
    <3>1. sys' = sys
      BY <1>3, <2>2, Zenon DEF choose_next
    <3> QED
      BY <3>1, Zenon
  <2> QED
    BY <2>1, <2>2, Zenon
<1> QED
  BY <1>1, <1>2, <1>3, Zenon

\* A set of screens has a first one.
LEMMA FirstIsIn ==
    ASSUME NEW S \in SUBSET Nat, S # {}
    PROVE  (CHOOSE s \in S : \A t \in S : s <= t) \in S
<1> DEFINE Less == OpToRel(<, Nat)
<1>1. IsWellFoundedOn(Less, Nat)
  BY NatLessThanWellFounded, Zenon
<1>2. \A x, y \in Nat : y < x => <<y, x>> \in Less
  BY Zenon DEF OpToRel
<1> HIDE DEF Less
<1>3. S \subseteq Nat
  BY Zenon
<1>4. PICK x \in S : \A y \in S : ~(<<y, x>> \in Less)
  BY <1>1, <1>3, WFMin, Zenon
<1>5. ASSUME NEW y \in S
      PROVE  x <= y
  <2>1. x \in Nat /\ y \in Nat
    BY <1>3, Zenon
  <2>2. ~(y < x)
    BY <1>2, <1>4, <2>1, Zenon
  <2> QED
    BY <2>1, <2>2
<1> QED
  BY <1>5, Zenon

\* cmdkeeper goes on, rests or waits.
LEMMA KeeperGood ==
    ASSUME NEW v, Good(v), NEW k \in {"woken", "waits", "rests", "loads"}, NEW l \in Shown \cup {None},
           k = "loads" => l \in Shown,
           NEW u, u = [v EXCEPT !.keeper = k, !.loading = l]
    PROVE  Good(u)
<1>1. v \in Systems
  BY Zenon DEF Good
<1>2. /\ u \in Systems /\ u.prog = v.prog /\ u.owner = v.owner /\ u.console = v.console
      /\ u.fault = v.fault /\ u.keeper = k /\ u.loading = l
  BY <1>1, Zenon DEF Systems
<1>3. Alike(v, u)
  BY <1>2, Zenon DEF Alike, alive
<1>4. ~u.fault /\ (u.keeper = "loads" => u.loading \in Shown)
  BY <1>2, Zenon DEF Good
<1> QED
  BY <1>2, <1>3, <1>4, AlikeIsGood, ZenonT(60)

\* cmdkeeper_main() goes on with a shown screen.
LEMMA LoadsGood ==
    ASSUME NEW v, Good(v), NEW last
    PROVE  Good(Loads(v, last))
<1> DEFINE todo == {s \in Missing(v) : s > last}
           first == CHOOSE s \in todo : \A t \in todo : s <= t
<1>2. todo \in SUBSET Shown /\ todo \in SUBSET Nat
  BY ConsolesAssumption, Zenon DEF Missing
<1> HIDE DEF todo
<1>3. CASE todo = {}
  <2>1. Loads(v, last) = [v EXCEPT !.keeper = "rests", !.loading = None]
    BY <1>3, Zenon DEF Loads, todo
  <2> QED
    BY <2>1, KeeperGood, Zenon
<1>4. CASE todo # {}
  <2>1. Loads(v, last) = [v EXCEPT !.keeper = "loads", !.loading = first]
    BY <1>4, Zenon DEF Loads, todo
  <2>2. first \in Shown
    BY <1>2, <1>4, FirstIsIn, Zenon
  <2> HIDE DEF first
  <2> QED
    BY <2>1, <2>2, KeeperGood, Zenon
<1> QED
  BY <1>3, <1>4, Zenon

\* Another console, or none: somebody on the shown screen.
LEMMA ConsoleGood ==
    ASSUME NEW v, Good(v), NEW s \in Shown, NEW c \in Some \cup {Failed},
           c \notin {None, Failed} => On(v, c, s)
    PROVE  LET u == [v EXCEPT !.console[s] = c]
           IN  Good(u) /\ Alike(v, u) /\ u.prog = v.prog /\ u.owner = v.owner
<1> DEFINE u == [v EXCEPT !.console[s] = c]
<1>1. v \in Systems /\ s \in Screens /\ v.console \in [Screens -> Some \cup {Failed}]
  BY Zenon DEF Good, Systems, Screens
<1>2. /\ u \in Systems /\ u.prog = v.prog /\ u.owner = v.owner
      /\ u.console = [v.console EXCEPT ![s] = c]
      /\ u.fault = v.fault /\ u.keeper = v.keeper /\ u.loading = v.loading
  BY <1>1, Zenon DEF Systems
<1> HIDE DEF u
<1>3. Alike(v, u)
  BY <1>2, Zenon DEF Alike, alive
<1>4. ~u.fault /\ (u.keeper = "loads" => u.loading \in Shown)
  BY <1>2, Zenon DEF Good
<1>5. ASSUME NEW t \in Screens
      PROVE  Served(u, t) \/ (u.owner[t] = v.owner[t] /\ u.console[t] = v.console[t])
  <2>1. CASE t # s
    BY <1>1, <1>2, <2>1, Zenon
  <2>2. CASE t = s
    <3>1. \A p : On(u, p, s) <=> On(v, p, s)
      BY <1>3, Zenon DEF Alike, On, alive
    <3> QED
      BY <1>1, <1>2, <2>2, <3>1, Zenon DEF Served, Good
  <2> QED
    BY <2>1, <2>2, Zenon
<1>6. Good(u)
  BY <1>2, <1>3, <1>4, <1>5, AlikeIsGood, Zenon
<1> QED
  BY <1>2, <1>3, <1>6, Zenon DEF u

\* A pid that is free is nobody's.
LEMMA FreeIsFree ==
    ASSUME NEW v, Good(v), FreePids(v) # {}
    PROVE  FreePid(v) \in Pids /\ ~alive(v, FreePid(v))
<1>1. FreePid(v) \in FreePids(v)
  BY Zenon DEF FreePid
<1>2. v.size.pids \subseteq Pids
  BY ConsolesAssumption, Zenon DEF Good, Systems
<1> QED
  BY <1>1, <1>2 DEF FreePids, alive, NoProg

\* Taking or giving back a hidden screen.
LEMMA OpenGood ==
    ASSUME NEW v, Good(v), NEW o \in SUBSET Hidden
    PROVE  Good([v EXCEPT !.open = o]) /\ Alike(v, [v EXCEPT !.open = o])
<1> DEFINE u == [v EXCEPT !.open = o]
<1>1. v \in Systems
  BY Zenon DEF Good
<1>2. /\ u \in Systems /\ u.prog = v.prog /\ u.owner = v.owner /\ u.console = v.console
      /\ u.fault = v.fault /\ u.keeper = v.keeper /\ u.loading = v.loading
  BY <1>1, Zenon DEF Systems
<1> HIDE DEF u
<1>3. Alike(v, u)
  BY <1>2, Zenon DEF Alike, alive
<1>4. ~u.fault /\ (u.keeper = "loads" => u.loading \in Shown)
  BY <1>2, Zenon DEF Good
<1>5. Good(u)
  BY <1>2, <1>3, <1>4, AlikeIsGood, Zenon
<1> QED
  BY <1>3, <1>5, Zenon DEF u

\* The keys of a hidden screen are kept for whoever had them.
LEMMA HiddenOwnerGood ==
    ASSUME NEW v, Good(v), NEW s \in Hidden, NEW q \in Some
    PROVE  Good([v EXCEPT !.owner[s] = q]) /\ Alike(v, [v EXCEPT !.owner[s] = q])
<1> DEFINE u == [v EXCEPT !.owner[s] = q]
<1>1. v \in Systems /\ v.owner \in [Screens -> Some]
  BY Zenon DEF Good, Systems
<1>2. [v.owner EXCEPT ![s] = q] \in [Screens -> Some]
  BY <1>1, ZenonT(60)
<1>3. /\ u \in Systems /\ u.prog = v.prog /\ u.owner = [v.owner EXCEPT ![s] = q] /\ u.console = v.console
      /\ u.fault = v.fault /\ u.keeper = v.keeper /\ u.loading = v.loading
  BY <1>1, <1>2, Zenon DEF Systems
<1> HIDE DEF u
<1>4. Alike(v, u)
  BY <1>3, Zenon DEF Alike, alive
<1>5. ~u.fault /\ (u.keeper = "loads" => u.loading \in Shown)
  BY <1>3, Zenon DEF Good
<1>6. ASSUME NEW t \in Screens
      PROVE  Served(u, t) \/ (u.owner[t] = v.owner[t] /\ u.console[t] = v.console[t])
  <2>1. CASE t # s
    BY <1>1, <1>3, <2>1, Zenon
  <2>2. CASE t = s
    <3>1. \A p : On(u, p, s) <=> On(v, p, s)
      BY <1>4, Zenon DEF Alike, On, alive
    <3>2. s \notin Shown /\ Served(v, s)
      BY <2>2, Names, Zenon DEF Good
    <3> QED
      BY <1>3, <2>2, <3>1, <3>2, Zenon DEF Served
  <2> QED
    BY <2>1, <2>2, Zenon
<1>7. Good(u)
  BY <1>3, <1>4, <1>5, <1>6, AlikeIsGood, Zenon
<1> QED
  BY <1>4, <1>7, Zenon DEF u

\* cmdkeeper_main() looks for the screens without a console.
LEMMA KeeperLooksGood ==
    ASSUME Good(sys), KeeperLooks
    PROVE  Good(sys')
<1>1. CASE Missing(sys) = {}
  <2>1. sys \in Systems /\ sys.loading \in Shown \cup {None}
    BY Zenon DEF Good, Systems
  <2>2. sys' = [sys EXCEPT !.keeper = "waits", !.loading = sys.loading]
    <3>1. sys' = [sys EXCEPT !.keeper = "waits"]
      BY <1>1, Zenon DEF KeeperLooks
    <3> QED
      BY <2>1, <3>1, Zenon DEF Systems
  <2> QED
    BY <2>1, <2>2, KeeperGood, Zenon
<1>2. CASE Missing(sys) # {}
  <2>1. sys' = Loads(sys, None)
    BY <1>2, Zenon DEF KeeperLooks
  <2> QED
    BY <2>1, LoadsGood, Zenon
<1> QED
  BY <1>1, <1>2, Zenon

\* Whoever has the keys of the screen keeps them; if nobody has, the new
\* console gets them.
LEMMA StartCmdGood ==
    ASSUME Good(sys), start_cmd
    PROVE  Good(sys')
<1> DEFINE s == sys.loading
           p == FreePid(sys)
           n == [sys EXCEPT !.prog[p] = New(s, None)]
           u == [n EXCEPT !.console[s] = p]
           z == [sys EXCEPT !.console[s] = Failed]
<1>1. s \in Shown /\ sys \in Systems /\ s \in Screens
  BY Zenon DEF start_cmd, Good, Screens
<1>2. Good(z)
  BY <1>1, ConsoleGood, Zenon
<1>3. ASSUME FreePids(sys) # {}
      PROVE  /\ Good(u) /\ On(u, p, s) /\ p \in Some
             /\ alive(sys, sys.owner[s]) \/ Good(set_input_owner(u, s, p))
  <2>1. p \in Pids /\ ~alive(sys, p)
    BY <1>3, FreeIsFree, Zenon
  <2>2. p \in Some /\ None \in Some
    BY <2>1, Zenon DEF Some
  <2> HIDE DEF p, s
  <2>3. Good(n) /\ On(n, p, s)
    BY <1>1, <2>1, <2>2, FreshGood, Zenon
  <2> HIDE DEF n
  <2>4. Good(u) /\ Alike(n, u)
    BY <1>1, <2>2, <2>3, ConsoleGood, Zenon
  <2>5. On(u, p, s)
    BY <2>3, <2>4, Zenon DEF Alike, On, alive
  <2> HIDE DEF u
  <2> QED
    BY <1>1, <2>2, <2>4, <2>5, OwnerSet, Zenon
<1>4. \/ sys' = Loads(z, s)
      \/ FreePids(sys) # {} /\ sys' = Loads(IF alive(sys, sys.owner[s]) THEN u ELSE set_input_owner(u, s, p), s)
  <2>1. u = [sys EXCEPT !.prog[p] = New(s, None), !.console[s] = p]
    BY <1>1, Zenon DEF Systems
  <2> QED
    BY <2>1, Zenon DEF start_cmd
<1> HIDE DEF u, z
<1> QED
  BY <1>2, <1>3, <1>4, LoadsGood, Zenon

\* A call ends.
LEMMA ReturnsGood ==
    ASSUME NEW v, Good(v), NEW p \in Pids, alive(v, p)
    PROVE  Good(Returns(v, p)) /\ \A q, s : On(Returns(v, p), q, s) <=> On(v, q, s)
<1>1. "user" \in Places /\ None \in Some /\ None \in Screens \cup {None}
  BY Zenon DEF Places, Some
<1>2. Good(Goes(v, p, "user", None, None, None))
      /\ \A q, s : On(Goes(v, p, "user", None, None, None), q, s) <=> On(v, q, s)
  BY <1>1, GoesGood, Zenon
<1> QED
  BY <1>2, Zenon DEF Returns

\* The calls of one program.
LEMMA StartCallGood ==
    ASSUME Good(sys), NEW p \in Pids, StartCall(p)
    PROVE  Good(sys')
<1>1. /\ alive(sys, p) /\ "start" \in Places /\ None \in Some /\ sys.open \in SUBSET Hidden
      /\ Hidden \subseteq Screens /\ None \in Screens \cup {None}
  BY Zenon DEF StartCall, Calls, alive, Places, Some, Good, Systems, Screens
<1>2. CASE sys' = Goes(sys, p, "start", None, None, None)
  BY <1>1, <1>2, GoesGood, Zenon
<1>3. ASSUME NEW s \in Hidden \ sys.open,
             sys' = [Goes(sys, p, "start", s, None, None) EXCEPT !.open = @ \cup {s}]
      PROVE  Good(sys')
  <2> DEFINE v == Goes(sys, p, "start", s, None, None)
  <2>1. Good(v)
    BY <1>1, GoesGood, Zenon
  <2> HIDE DEF v
  <2>2. v.open \cup {s} \in SUBSET Hidden
    BY <2>1, Zenon DEF Good, Systems
  <2>3. sys' = [v EXCEPT !.open = v.open \cup {s}]
    BY <1>3, Zenon DEF v
  <2> QED
    BY <2>1, <2>2, <2>3, OpenGood, Zenon
<1> QED
  BY <1>2, <1>3, Zenon DEF StartCall

\* sf_start() puts the new program on the screen it took, or on its own, which
\* it may hand over.
LEMMA StartDoneGood ==
    ASSUME Good(sys), NEW p \in Pids, StartDone(p)
    PROVE  Good(sys')
<1> DEFINE here == sys.prog[p].screen
           hidden == sys.prog[p].scr
           q == FreePid(sys)
           v == Returns(sys, p)
<1>1. alive(sys, p) /\ here \in Screens /\ hidden \in Hidden \cup {None} /\ Placed(sys, p)
  BY Zenon DEF StartDone, Good, Placed
<1>2. Good(v) /\ \A r, s : On(v, r, s) <=> On(sys, r, s)
  BY <1>1, ReturnsGood, Zenon
<1>3. \A r : alive(v, r) => alive(sys, r)
  BY <1>2, Zenon DEF On
<1>4. p \in Some /\ None \in Some /\ Hidden \subseteq Screens
  BY Zenon DEF Some, Screens
<1>5. \/ sys' = [v EXCEPT !.open = v.open \ {hidden}]
      \/ FreePids(sys) # {} /\ hidden # None /\ sys' = [v EXCEPT !.prog[q] = New(hidden, None)]
      \/ FreePids(sys) # {} /\ sys' = [v EXCEPT !.prog[q] = New(here, None)]
      \/ FreePids(sys) # {} /\ sys' = set_input_owner([v EXCEPT !.prog[q] = New(here, p)], here, q)
  BY Zenon DEF StartDone
<1>6. FreePids(sys) # {} => q \in Pids /\ ~alive(v, q)
  BY <1>3, FreeIsFree, Zenon
<1> HIDE DEF here, hidden, q, v
<1>7. CASE sys' = [v EXCEPT !.open = v.open \ {hidden}]
  <2>1. v.open \ {hidden} \in SUBSET Hidden
    BY <1>2, Zenon DEF Good, Systems
  <2> QED
    BY <1>2, <1>7, <2>1, OpenGood, Zenon
<1>8. CASE FreePids(sys) # {} /\ hidden # None /\ sys' = [v EXCEPT !.prog[q] = New(hidden, None)]
  BY <1>1, <1>2, <1>4, <1>6, <1>8, FreshGood, Zenon
<1>9. CASE FreePids(sys) # {} /\ sys' = [v EXCEPT !.prog[q] = New(here, None)]
  BY <1>1, <1>2, <1>4, <1>6, <1>9, FreshGood, Zenon
<1>10. CASE FreePids(sys) # {} /\ sys' = set_input_owner([v EXCEPT !.prog[q] = New(here, p)], here, q)
  <2> DEFINE u == [v EXCEPT !.prog[q] = New(here, p)]
  <2>1. Good(u) /\ On(u, q, here)
    BY <1>1, <1>2, <1>4, <1>6, <1>10, FreshGood, Zenon
  <2>2. q \in Some
    BY <1>6, <1>10, Zenon DEF Some
  <2>3. sys' = set_input_owner(u, here, q)
    BY <1>10, Zenon
  <2> HIDE DEF u
  <2> QED
    BY <1>1, <2>1, <2>2, <2>3, OwnerSet, Zenon
<1> QED
  BY <1>5, <1>7, <1>8, <1>9, <1>10, Zenon

\* next_key() sleeps, or returns.
LEMMA NextKeyGood ==
    ASSUME Good(sys), NEW p \in Pids, next_key(p)
    PROVE  Good(sys')
<1> DEFINE here == sys.prog[p].screen
<1>1. alive(sys, p)
  BY Zenon DEF next_key, alive
<1>2. /\ "input" \in Places /\ "key" \in Places /\ None \in Some /\ None \in Screens \cup {None}
      /\ here \in Screens \cup {None}
  BY <1>1, Zenon DEF Places, Some, Good, Placed
<1>3. \/ sys' = Returns(sys, p)
      \/ sys' = Goes(sys, p, "input", None, None, None)
      \/ sys' = Goes(sys, p, "key", here, None, None)
  BY Zenon DEF next_key
<1> HIDE DEF here
<1>4. Good(Returns(sys, p))
  BY <1>1, ReturnsGood, Zenon
<1>5. Good(Goes(sys, p, "input", None, None, None))
  BY <1>1, <1>2, GoesGood, Zenon
<1>6. Good(Goes(sys, p, "key", here, None, None))
  BY <1>1, <1>2, GoesGood, Zenon
<1> QED
  BY <1>3, <1>4, <1>5, <1>6, Zenon

\* EndProcess.
LEMMA EndProgramGood ==
    ASSUME Good(sys), NEW c \in Pids, NEW p \in Pids, end_program(c, p)
    PROVE  Good(sys')
<1> DEFINE r == [sys.prog[p] EXCEPT !.end = TRUE]
           g == [sys.prog EXCEPT ![p] = r]
<1>1. sys \in Systems /\ sys.prog \in [Pids -> Progs]
  BY Zenon DEF Good, Systems
<1>2. /\ r \in Progs /\ r.state = sys.prog[p].state /\ r.screen = sys.prog[p].screen
      /\ r.at = sys.prog[p].at /\ r.scr = sys.prog[p].scr
      /\ r.to = sys.prog[p].to /\ r.who = sys.prog[p].who
  BY <1>1, ZenonT(60) DEF Progs
<1>3. sys' = [sys EXCEPT !.prog = g]
  BY Zenon DEF end_program
<1> HIDE DEF r
<1>4. g \in [Pids -> Progs] /\ g[p] = r /\ \A q \in Pids \ {p} : g[q] = sys.prog[q]
  BY <1>1, <1>2, Zenon
<1> HIDE DEF g
<1>5. [sys EXCEPT !.prog = g].prog = g
  BY <1>1, Zenon DEF Systems
<1>6. Alike(sys, [sys EXCEPT !.prog = g])
  BY <1>2, <1>4, <1>5, Zenon DEF Alike, alive
<1> QED
  BY <1>3, <1>4, <1>6, ProgGood, Zenon

\* Who had the keys of a screen is a program that moves, or none.
LEMMA HadKeysMoves ==
    ASSUME NEW v, NEW from
    PROVE  HadKeys(v, from) = None \/ (HadKeys(v, from) \in Pids /\ moves(v, HadKeys(v, from), from))
BY Zenon DEF HadKeys, moves, On, alive

\* move_to_foreground(), up to where it may sleep: the owner it will name is
\* one of the programs it moved.
LEMMA ForegroundGood ==
    ASSUME Good(sys), ~FgDisturbed, NEW c \in Pids, NEW p \in Pids, Foreground(c, p)
    PROVE  Good(sys')
<1> DEFINE from == sys.prog[p].screen
           to == sys.prog[c].screen
           had == IF from # to THEN HadKeys(sys, from)
                  ELSE IF moves(sys, sys.paused[to], to) THEN sys.paused[to] ELSE None
           owner == IF had = None THEN p ELSE had
<1>1. alive(sys, c) /\ alive(sys, p) /\ from \in Screens /\ to \in Shown /\ to \in Screens
  BY ZenonT(60) DEF Foreground, Calls, alive, Good, Placed
<1>2. moves(sys, p, from) /\ Steady(p, from)
  BY <1>1, ZenonT(60) DEF Foreground, moves, On
<1>3. \A b \in Pids : sys.prog[b].at = "fg" => sys.prog[b].to # from
  BY <1>2, SteadyMeans, Zenon
<1>4. moves(sys, owner, from) /\ owner \in Pids
  <2>1. had = None \/ (had \in Pids /\ moves(sys, had, from))
    BY HadKeysMoves, ZenonT(60) DEF moves, On, alive
  <2> HIDE DEF had
  <2> QED
    BY <1>2, <2>1, Zenon
<1>5. \/ from = to /\ sys' = FgDone([sys EXCEPT !.paused[to] = None], c, to, owner)
      \/ from \in Shown \ {to} /\ sys' = FgDone(move_programs(sys, from, to), c, to, owner)
      \/ from \in Hidden /\ sys' = Goes(Moved(sys, from, to), c, "fg", from, to, owner)
  BY Zenon DEF Foreground
<1> HIDE DEF from, to, had, owner
<1>6. CASE from = to /\ sys' = FgDone([sys EXCEPT !.paused[to] = None], c, to, owner)
  <2> DEFINE v == [sys EXCEPT !.paused[to] = None]
  <2>1. Good(v) /\ Alike(sys, v)
    BY PausedGood, Zenon DEF Some
  <2> HIDE DEF v
  <2>2. On(v, owner, to)
    BY <1>4, <1>6, <2>1, Zenon DEF moves, Alike, On, alive
  <2>3. sys' = FgDone(v, c, to, owner)
    BY <1>6, Zenon DEF v
  <2> QED
    BY <1>1, <2>1, <2>2, <2>3, FgDoneGood, Zenon
<1>7. CASE from \in Shown \ {to} /\ sys' = FgDone(move_programs(sys, from, to), c, to, owner)
  <2> DEFINE v == move_programs(sys, from, to)
  <2>1. Good(v) /\ On(v, owner, to)
    BY <1>1, <1>3, <1>4, <1>7, MoveProgramsGood, Zenon
  <2> HIDE DEF v
  <2>2. sys' = FgDone(v, c, to, owner)
    BY <1>7, Zenon DEF v
  <2> QED
    BY <1>1, <2>1, <2>2, FgDoneGood, Zenon
<1>8. CASE from \in Hidden /\ sys' = Goes(Moved(sys, from, to), c, "fg", from, to, owner)
  <2> DEFINE v == Moved(sys, from, to)
  <2>1. from # to /\ from \notin Shown
    BY <1>1, <1>8, Names, Zenon
  <2>2. /\ v \in Systems /\ v.owner = sys.owner /\ v.console = sys.console
        /\ v.fault = sys.fault /\ v.keeper = sys.keeper /\ v.loading = sys.loading
        /\ \A q : alive(v, q) <=> alive(sys, q)
    BY <1>1, MovedPrograms
  <2>3. Alike(v, v) /\ ~v.fault
    BY <2>2, Zenon DEF Alike, Good
  <2>4. Good(v) /\ On(v, owner, to)
    <3> HIDE DEF v
    <3>1. Alike(Moved(sys, from, to), v)
      BY <2>3, Zenon DEF v
    <3> QED
      BY <1>1, <1>3, <1>4, <2>1, <2>2, <2>3, <3>1, MovedGood, Zenon
  <2> HIDE DEF v
  <2>5. alive(v, c) /\ "fg" \in Places /\ owner \in Some
    BY <1>1, <1>4, <2>2, Zenon DEF Places, Some
  <2>6. sys' = Goes(v, c, "fg", from, to, owner)
    BY <1>8, Zenon DEF v
  <2> QED
    BY <1>1, <2>4, <2>5, <2>6, GoesGood, Zenon
<1> QED
  BY <1>5, <1>6, <1>7, <1>8, Zenon

\* The rest of move_to_foreground(): undisturbed, that program is still there.
LEMMA ForegroundDoneGood ==
    ASSUME Good(sys), NEW c \in Pids, ForegroundDone(c)
    PROVE  Good(sys')
<1> DEFINE me == sys.prog[c]
           v == close_hidden_screen(sys, me.scr)
           w == [v EXCEPT !.prog = Woken(v.prog, {"key"})]
           u == FgDone(w, c, me.to, me.who)
<1>1. alive(sys, c) /\ me.to \in Shown /\ On(sys, me.who, me.to)
  BY Zenon DEF ForegroundDone, Good, Placed
<1>2. Good(v) /\ Alike(sys, v)
  BY CloseGood, Zenon
<1>3. sys' = Returns(u, c)
  BY Zenon DEF ForegroundDone
<1> HIDE DEF v, me
<1>4. Good(w) /\ Alike(v, w)
  BY <1>2, WakeGood, Zenon
<1> HIDE DEF w
<1>5. On(w, me.who, me.to) /\ alive(w, c)
  BY <1>1, <1>2, <1>4, Zenon DEF Alike, On, alive
<1>6. Good(u) /\ Alike(w, u)
  BY <1>1, <1>4, <1>5, FgDoneGood, Zenon
<1> HIDE DEF u
<1>7. alive(u, c)
  BY <1>5, <1>6, Zenon DEF Alike
<1> QED
  BY <1>3, <1>6, <1>7, ReturnsGood, Zenon

\* move_to_background() leaves the shown screen to its console.
LEMMA BackgroundGood ==
    ASSUME Good(sys), ~FgDisturbed, NEW c \in Pids, NEW p \in Pids, Background(c, p)
    PROVE  Good(sys')
<1> DEFINE from == sys.prog[p].screen
           had == HadKeys(sys, from)
<1>1. alive(sys, c) /\ from \in Screens /\ Steady(p, from)
  BY Zenon DEF Background, Calls, alive, Good, Placed
<1>2. \A b \in Pids : sys.prog[b].at = "fg" => sys.prog[b].to # from
  BY <1>1, SteadyMeans, Zenon
<1>3. \/ sys' = Put(sys, from, "Live")
      \/ from \in Shown /\ \E s \in Hidden :
            sys' = Goes([move_programs(sys, from, s) EXCEPT !.open = @ \cup {s}], c, "log", s, None, had)
  BY Zenon DEF Background
<1>4. had \in Some
  BY HadKeysMoves, Zenon DEF Some
<1> HIDE DEF from, had
<1>5. CASE sys' = Put(sys, from, "Live")
  BY <1>5, PutGood, Zenon
<1>6. ASSUME from \in Shown, NEW s \in Hidden,
             sys' = Goes([move_programs(sys, from, s) EXCEPT !.open = @ \cup {s}], c, "log", s, None, had)
      PROVE  Good(sys')
  <2> DEFINE v == move_programs(sys, from, s)
             o == v.open \cup {s}
             u == [v EXCEPT !.open = o]
  <2>1. s # from /\ s \in Screens
    BY <1>6, Names, Zenon DEF Screens
  <2>2. Good(v) /\ alive(v, c)
    BY <1>1, <1>2, <1>6, <2>1, MoveProgramsGood, Zenon
  <2>3. sys' = Goes(u, c, "log", s, None, had)
    BY <1>6, Zenon
  <2> HIDE DEF v
  <2>4. o \in SUBSET Hidden
    BY <2>2, Zenon DEF Good, Systems
  <2> HIDE DEF o
  <2>5. Good(u) /\ Alike(v, u)
    BY <2>2, <2>4, OpenGood, Zenon
  <2> HIDE DEF u
  <2>6. alive(u, c) /\ "log" \in Places /\ None \in Screens \cup {None}
    BY <2>2, <2>5, Zenon DEF Alike, Places
  <2> QED
    BY <1>4, <2>1, <2>3, <2>5, <2>6, GoesGood, Zenon
<1> QED
  BY <1>3, <1>5, <1>6, Zenon

\* The rest of move_to_background() is about a hidden screen.
LEMMA LogDoneGood ==
    ASSUME Good(sys), NEW c \in Pids, LogDone(c)
    PROVE  Good(sys')
<1> DEFINE s == sys.prog[c].scr
           q == sys.prog[c].who
           v == Put(sys, s, "Live")
           u == [v EXCEPT !.owner[s] = q]
<1>1. alive(sys, c) /\ s \in Hidden /\ q \in Some
  BY Zenon DEF LogDone, Good, Placed, Systems, Progs
<1>2. sys' = Returns(u, c)
  BY Zenon DEF LogDone
<1> HIDE DEF s, q
<1>3. Good(v) /\ Alike(sys, v)
  BY PutGood, Zenon
<1> HIDE DEF v
<1>4. Good(u) /\ Alike(v, u)
  BY <1>1, <1>3, HiddenOwnerGood, Zenon
<1> HIDE DEF u
<1>5. alive(u, c)
  BY <1>1, <1>3, <1>4, Zenon DEF Alike
<1> QED
  BY <1>2, <1>4, <1>5, ReturnsGood, Zenon
-----------------------------------------------------------------------------
ConsoleInv == Good(sys)

\* The system starts good.
LEMMA InitGood ==
    ASSUME Init
    PROVE  ConsoleInv
<1>1. PICK size \in Sizes :
        sys = [size |-> size, prog |-> [p \in Pids |-> NoProg],
               owner |-> [s \in Screens |-> None], console |-> [s \in Screens |-> None],
               paused |-> [s \in Screens |-> None], open |-> {}, keeper |-> "woken",
               loading |-> None, fault |-> FALSE]
  BY Zenon DEF Init
<1>2. NoProg \in Progs /\ NoProg.state = "Unused" /\ NoProg.at = "user"
  BY Zenon DEF NoProg, Progs, Some, Places
<1>3. sys \in Systems
  BY <1>1, <1>2, Zenon DEF Systems, Some
<1>4. \A p \in Pids : Placed(sys, p)
  BY <1>1, <1>2, Zenon DEF Placed, alive
<1>5. \A s \in Screens : Served(sys, s)
  BY <1>1, Zenon DEF Served
<1> QED
  BY <1>1, <1>3, <1>4, <1>5, Zenon DEF ConsoleInv, Good

\* And stays so.
LEMMA StepGood ==
    ASSUME ~FgDisturbed, ConsoleInv, [Next]_sys
    PROVE  ConsoleInv'
<1> SUFFICES Good(sys')
  BY Zenon DEF ConsoleInv
<1>0. Good(sys)
  BY Zenon DEF ConsoleInv
<1>1. CASE KeeperStep
  BY <1>0, <1>1, KeeperLooksGood, StartCmdGood, Zenon DEF KeeperStep
<1>2. ASSUME NEW s \in Shown, Key(s) PROVE Good(sys')
  BY <1>0, <1>2, WakeGood, Zenon DEF Key
<1>3. ASSUME NEW s \in Shown, choose_next(None, s, None) \/ choose_next(None, None, s) PROVE Good(sys')
  BY <1>0, <1>3, ChooseNextGood, Zenon
<1>4. ASSUME NEW p \in Pids, choose_next(p, None, None) PROVE Good(sys')
  BY <1>0, <1>4, ChooseNextGood, Zenon
<1>5. ASSUME NEW p \in Pids, Exit(p) PROVE Good(sys')
  BY <1>0, <1>5, SteadyMeans, TerminateGood, Zenon DEF Exit
<1>6. ASSUME NEW p \in Pids, StartCall(p) \/ StartDone(p) \/ next_key(p) PROVE Good(sys')
  BY <1>0, <1>6, StartCallGood, StartDoneGood, NextKeyGood, Zenon
<1>7. ASSUME NEW p \in Pids, LogDone(p) \/ ForegroundDone(p) PROVE Good(sys')
  BY <1>0, <1>7, LogDoneGood, ForegroundDoneGood, Zenon
<1>8. ASSUME NEW c \in Pids, NEW p \in Pids, Foreground(c, p) \/ Background(c, p) \/ end_program(c, p)
      PROVE  Good(sys')
  BY <1>0, <1>8, ForegroundGood, BackgroundGood, EndProgramGood, Zenon
<1>9. CASE UNCHANGED sys
  BY <1>0, <1>9, Zenon
<1> QED
  BY <1>1, <1>2, <1>3, <1>4, <1>5, <1>6, <1>7, <1>8, <1>9, Zenon DEF Next

(***************************************************************************)
(* Keys and consoles stay with the programs on their screen, for every set *)
(* of screens and of programs, unless programs end or move while fg sleeps *)
(* between moving them and giving one of them the keys.                    *)
(***************************************************************************)
THEOREM KeysFollowThePrograms ==
    ASSUME ~FgDisturbed
    PROVE  Spec => []KeysFollow
<1>1. Init => ConsoleInv
  BY InitGood, Zenon
<1>2. ConsoleInv /\ [Next]_sys => ConsoleInv'
  BY StepGood, Zenon
<1>3. ConsoleInv => KeysFollow
  BY Zenon DEF ConsoleInv, Good, KeysFollow, Served, Screens
<1> QED
  BY <1>1, <1>2, <1>3, PTL DEF Spec
-----------------------------------------------------------------------------
(* Who is told, and which hidden screens are in use.                       *)

\* Every program that waits for a key will look again.
Roused(v) == \A p \in Pids : v.prog[p].at \in {"input", "key"} => v.prog[p].woken

\* ReadersAreTold, of system v and program p.
Told(v, p) ==
    LET me == v.prog[p] IN
    alive(v, p) /\ me.screen \in Shown /\ me.at \in {"input", "key"} /\ ~me.woken =>
        IF me.at = "input" THEN v.owner[me.screen] # p
        ELSE \/ me.scr = me.screen /\ v.owner[me.screen] = p
             \/ Bringing(v, p, me.screen)

AllTold(v) == \A p \in Pids : Told(v, p)

\* Start, asleep, has taken the hidden screen s, or fg has emptied it.
Claims(v, p, s) == v.prog[p].at \in {"start", "fg"} /\ v.prog[p].scr = s

(***************************************************************************)
(* HiddenInUse is not inductive: it has to be known that a screen a call   *)
(* that sleeps is about is nobody else's, or the end of that call would    *)
(* take it from under them.                                                *)
(***************************************************************************)
Held(v) ==
    \A s \in Hidden :
        /\ s \in v.open <=> \E p \in Pids : On(v, p, s) \/ Claims(v, p, s)
        /\ \A p, q \in Pids : Claims(v, p, s) => ~On(v, q, s) /\ (Claims(v, q, s) => q = p)

\* From v to u no program moves, and the readers are told if the keys of a
\* shown screen do.
Keeps(v, u) ==
    /\ Alike(v, u)
    /\ \/ Roused(u)
       \/ /\ \A p \in Pids : v.prog[p].woken => u.prog[p].woken
          /\ \A s \in Shown : u.owner[s] = v.owner[s]

\* Told does not look at more than Keeps keeps.
LEMMA KeepsTold ==
    ASSUME NEW v, NEW u, Keeps(v, u), AllTold(v)
    PROVE  AllTold(u)
<1> SUFFICES ASSUME NEW p \in Pids PROVE Told(u, p)
  BY Zenon DEF AllTold
<1>1. /\ u.prog[p].screen = v.prog[p].screen /\ (alive(u, p) <=> alive(v, p))
      /\ u.prog[p].at = v.prog[p].at /\ u.prog[p].scr = v.prog[p].scr
  BY Zenon DEF Keeps, Alike
<1>2. \A s : Bringing(v, p, s) => Bringing(u, p, s)
  BY Zenon DEF Keeps, Alike, Bringing
<1>3. CASE Roused(u)
  BY <1>3, Zenon DEF Roused, Told
<1>4. CASE ~Roused(u)
  <2>1. (v.prog[p].woken => u.prog[p].woken) /\ \A s \in Shown : u.owner[s] = v.owner[s]
    BY <1>4, Zenon DEF Keeps
  <2>2. Told(v, p)
    BY Zenon DEF AllTold
  <2> QED
    BY <1>1, <1>2, <2>1, <2>2, Zenon DEF Told
<1> QED
  BY <1>3, <1>4, Zenon

\* One such change after the other.
LEMMA KeepsOn ==
    ASSUME NEW v, NEW u, NEW w, Keeps(v, u), Keeps(u, w)
    PROVE  Keeps(v, w)
<1>1. Alike(v, w)
  BY DEF Keeps, Alike
<1>2. CASE Roused(w)
  BY <1>1, <1>2, Zenon DEF Keeps
<1>3. CASE ~Roused(w)
  <2>1. /\ \A p \in Pids : u.prog[p].woken => w.prog[p].woken
        /\ \A s \in Shown : w.owner[s] = u.owner[s]
        /\ \A p \in Pids : w.prog[p].at = u.prog[p].at
    BY <1>3, Zenon DEF Keeps, Alike
  <2>2. ~Roused(u)
    BY <1>3, <2>1, Zenon DEF Roused
  <2> QED
    BY <1>1, <2>1, <2>2, Zenon DEF Keeps
<1> QED
  BY <1>2, <1>3, Zenon

\* Nor does Held, where no screen is opened or closed.
LEMMA AlikeHeld ==
    ASSUME NEW v, NEW u, Alike(v, u), u.open = v.open, Held(v)
    PROVE  Held(u)
<1>1. \A p \in Pids : \A s : (On(u, p, s) <=> On(v, p, s)) /\ (Claims(u, p, s) <=> Claims(v, p, s))
  BY Zenon DEF Alike, On, Claims
<1> QED
  BY <1>1, Zenon DEF Held

\* Both at once.
LEMMA KeepsBoth ==
    ASSUME NEW v, NEW u, Keeps(v, u), u.open = v.open, AllTold(v), Held(v)
    PROVE  AllTold(u) /\ Held(u)
BY KeepsTold, AlikeHeld, Zenon DEF Keeps

\* wake_up() wakes whoever sleeps in one of the queues, and nobody less.
LEMMA WokenWakes ==
    ASSUME NEW prog \in [Pids -> Progs], NEW Q, NEW p \in Pids
    PROVE  /\ prog[p].at \in Q => Woken(prog, Q)[p].woken
           /\ prog[p].woken => Woken(prog, Q)[p].woken
<1>1. prog[p] \in Progs /\ Woken(prog, Q)[p] = [prog[p] EXCEPT !.woken = prog[p].woken \/ prog[p].at \in Q]
  BY Zenon DEF Woken
<1>2. Woken(prog, Q)[p].woken = (prog[p].woken \/ prog[p].at \in Q)
  BY <1>1, Zenon DEF Progs
<1> QED
  BY <1>2, Zenon

\* Waking the readers' queues, and set_input_owner.
LEMMA WakeKeeps ==
    ASSUME NEW v, Good(v), NEW Q
    PROVE  LET u == [v EXCEPT !.prog = Woken(v.prog, Q)]
           IN  Keeps(v, u) /\ u.open = v.open
<1> DEFINE u == [v EXCEPT !.prog = Woken(v.prog, Q)]
<1>1. v.prog \in [Pids -> Progs] /\ v \in Systems
  BY Zenon DEF Good, Systems
<1>2. u.prog = Woken(v.prog, Q) /\ u.owner = v.owner /\ u.open = v.open
  BY <1>1, Zenon DEF Systems
<1>3. \A p \in Pids : v.prog[p].woken => u.prog[p].woken
  BY <1>1, <1>2, WokenWakes, Zenon
<1>4. Alike(v, u)
  BY WakeGood, Zenon
<1> QED
  BY <1>2, <1>3, <1>4, Zenon DEF Keeps

\* tty::set_input_owner() gives a screen's keys to a program on it, and wakes
\* every reader that has to look again.
LEMMA OwnerKeeps ==
    ASSUME NEW v, Good(v), NEW s \in Screens, NEW q \in Some,
           s \in Shown /\ q # None => On(v, q, s)
    PROVE  LET u == set_input_owner(v, s, q)
           IN  Keeps(v, u) /\ Roused(u) /\ u.open = v.open
<1> DEFINE u == set_input_owner(v, s, q)
<1>1. v.prog \in [Pids -> Progs] /\ v \in Systems
  BY Zenon DEF Good, Systems
<1>2. u.prog = Woken(v.prog, {"input", "key"}) /\ u.open = v.open
  BY <1>1, Zenon DEF Systems, set_input_owner
<1>3. Alike(v, u)
  BY OwnerSet, Zenon
<1>4. Roused(u)
  <2> SUFFICES ASSUME NEW p \in Pids, u.prog[p].at \in {"input", "key"} PROVE u.prog[p].woken
    BY Zenon DEF Roused
  <2>1. v.prog[p].at \in {"input", "key"}
    BY <1>3, Zenon DEF Alike
  <2> QED
    BY <1>1, <1>2, <2>1, WokenWakes, Zenon
<1> QED
  BY <1>2, <1>3, <1>4, Zenon DEF Keeps

\* Another process table, with the programs where they were and no less woken.
LEMMA ProgKeeps ==
    ASSUME NEW v, Good(v), NEW g, Alike(v, [v EXCEPT !.prog = g]),
           \A p \in Pids : v.prog[p].woken => g[p].woken
    PROVE  LET u == [v EXCEPT !.prog = g]
           IN  Keeps(v, u) /\ u.open = v.open
<1>1. LET u == [v EXCEPT !.prog = g]
      IN  u.prog = g /\ u.owner = v.owner /\ u.open = v.open
  BY Zenon DEF Good, Systems
<1> QED
  BY <1>1, Zenon DEF Keeps

\* Pausing and going on.
LEMMA PutKeeps ==
    ASSUME NEW v, Good(v), NEW s, NEW state \in {"Live", "Stopped"}
    PROVE  Keeps(v, Put(v, s, state)) /\ Put(v, s, state).open = v.open
<1> DEFINE g == [p \in Pids |-> IF moves(v, p, s) THEN [v.prog[p] EXCEPT !.state = state] ELSE v.prog[p]]
<1>1. v.prog \in [Pids -> Progs] /\ v \in Systems
  BY Zenon DEF Good, Systems
<1>2. Put(v, s, state) = [v EXCEPT !.prog = g]
  BY Zenon DEF Put
<1>3. ASSUME NEW p \in Pids, v.prog[p].woken PROVE g[p].woken
  <2>1. v.prog[p] \in Progs
    BY <1>1, Zenon
  <2>2. [v.prog[p] EXCEPT !.state = state].woken = v.prog[p].woken
    BY <2>1, Zenon DEF Progs
  <2> QED
    BY <1>3, <2>2, Zenon
<1>4. Alike(v, Put(v, s, state))
  BY PutGood, Zenon
<1> HIDE DEF g
<1> QED
  BY <1>2, <1>3, <1>4, ProgKeeps, ZenonT(60)

\* A console ends: cmdkeeper is told.
LEMMA NoConsoleKeeps ==
    ASSUME NEW v, Good(v), NEW p \in Pids
    PROVE  Keeps(v, NoConsole(v, p)) /\ NoConsole(v, p).open = v.open
<1> DEFINE s == v.prog[p].screen
           k == IF v.keeper = "waits" THEN "woken" ELSE v.keeper
           u == [v EXCEPT !.console[s] = None, !.keeper = k]
<1>1. Alike(v, NoConsole(v, p))
  BY NoConsoleGood, Zenon
<1>2. NoConsole(v, p) = v \/ NoConsole(v, p) = u
  BY Zenon DEF NoConsole
<1>3. u.prog = v.prog /\ u.owner = v.owner /\ u.open = v.open
  BY Zenon DEF Good, Systems
<1> QED
  BY <1>1, <1>2, <1>3, Zenon DEF Keeps

\* return_input() changes no owner, or tells the readers.
LEMMA ReturnInputKeeps ==
    ASSUME NEW v, Good(v), NEW p \in Pids, \A s \in Screens : v.console[s] # p
    PROVE  Keeps(v, return_input(v, p)) /\ return_input(v, p).open = v.open
<1> DEFINE giver == v.prog[p].giver
           back(s) == IF On(v, giver, s) /\ giver # p THEN giver
                      ELSE IF v.console[s] # p THEN ConsoleOf(v, s) ELSE None
           mine == {s \in Screens : v.owner[s] = p}
           o == [s \in Screens |-> IF s \in mine THEN back(s) ELSE v.owner[s]]
           u == [v EXCEPT !.owner = o, !.prog = Woken(v.prog, {"input", "key"})]
<1>1. Alike(v, return_input(v, p))
  BY ReturnInputGood, Zenon
<1>2. CASE mine = {}
  <2>1. return_input(v, p) = v
    BY <1>2, Zenon DEF return_input
  <2> QED
    BY <1>1, <2>1, Zenon DEF Keeps
<1>3. CASE mine # {}
  <2>1. return_input(v, p) = u
    BY <1>3, Zenon DEF return_input
  <2>2. v.prog \in [Pids -> Progs] /\ v \in Systems
    BY Zenon DEF Good, Systems
  <2> HIDE DEF o
  <2>3. u.prog = Woken(v.prog, {"input", "key"}) /\ u.open = v.open
    BY <2>2, Zenon DEF Systems
  <2>4. Roused(u)
    <3> HIDE DEF u
    <3> SUFFICES ASSUME NEW q \in Pids, u.prog[q].at \in {"input", "key"} PROVE u.prog[q].woken
      BY Zenon DEF Roused
    <3>1. v.prog[q].at \in {"input", "key"}
      BY <1>1, <2>1, Zenon DEF Alike
    <3> QED
      BY <2>2, <2>3, <3>1, WokenWakes, Zenon
  <2> HIDE DEF u
  <2> QED
    BY <1>1, <2>1, <2>3, <2>4, Zenon DEF Keeps
<1> QED
  BY <1>2, <1>3, Zenon

\* A hidden screen is closed.
LEMMA CloseKeeps ==
    ASSUME NEW v, Good(v), NEW s \in Hidden
    PROVE  LET u == close_hidden_screen(v, s)
           IN  Keeps(v, u) /\ u.open = v.open \ {s}
<1> DEFINE u == close_hidden_screen(v, s)
<1>1. Alike(v, u)
  BY CloseGood, Zenon
<1>2. v \in Systems /\ v.owner \in [Screens -> Some]
  BY Zenon DEF Good, Systems
<1>3. u.prog = v.prog /\ u.owner = [v.owner EXCEPT ![s] = None] /\ u.open = v.open \ {s}
  BY <1>2, Zenon DEF close_hidden_screen, Systems
<1>4. \A t \in Shown : t \in Screens /\ t # s
  BY Names, Zenon DEF Screens
<1>5. \A t \in Shown : u.owner[t] = v.owner[t]
  BY <1>2, <1>3, <1>4, Zenon
<1> QED
  BY <1>1, <1>3, <1>5, Zenon DEF Keeps

\* The last program of a screen whose console has the keys.
LEMMA RetitleKeeps ==
    ASSUME NEW v, Good(v), NEW p \in Pids, Quit(v, p)
    PROVE  Keeps(v, retitle_after(v, p)) /\ retitle_after(v, p).open = v.open
<1> DEFINE s == v.prog[p].screen
           c == v.console[s]
           u == [v EXCEPT !.paused[s] = None]
<1>1. Alike(v, retitle_after(v, p))
  BY RetitleGood, Zenon
<1>2. retitle_after(v, p) = v \/ retitle_after(v, p) = set_input_owner(u, s, c)
  BY Zenon DEF retitle_after
<1>3. CASE retitle_after(v, p) = v
  BY <1>1, <1>3, Zenon DEF Keeps
<1>4. CASE retitle_after(v, p) = set_input_owner(u, s, c)
  <2>1. v.prog \in [Pids -> Progs] /\ v \in Systems
    BY Zenon DEF Good, Systems
  <2>2. /\ set_input_owner(u, s, c).prog = Woken(v.prog, {"input", "key"})
        /\ set_input_owner(u, s, c).open = v.open
    BY <2>1, Zenon DEF Systems, set_input_owner
  <2>3. Roused(retitle_after(v, p))
    <3> SUFFICES ASSUME NEW q \in Pids, retitle_after(v, p).prog[q].at \in {"input", "key"}
                 PROVE  retitle_after(v, p).prog[q].woken
      BY Zenon DEF Roused
    <3>1. v.prog[q].at \in {"input", "key"}
      BY <1>1, Zenon DEF Alike
    <3> HIDE DEF s, c, u
    <3> QED
      BY <1>4, <2>1, <2>2, <3>1, WokenWakes, Zenon
  <2> HIDE DEF s, c, u
  <2> QED
    BY <1>1, <1>4, <2>2, <2>3, Zenon DEF Keeps
<1> QED
  BY <1>2, <1>3, <1>4, Zenon

\* A hidden screen goes with the last program on it.
LEMMA ReleaseKeeps ==
    ASSUME NEW v, Good(v), NEW p \in Pids
    PROVE  LET u == release_screen(v, p)
               s == v.prog[p].screen
           IN  /\ Keeps(v, u)
               /\ u.open = IF s \in Hidden /\ \A q \in Pids \ {p} : ~On(v, q, s) THEN v.open \ {s} ELSE v.open
<1> DEFINE s == v.prog[p].screen
           last == s \in Hidden /\ \A q \in Pids \ {p} : ~On(v, q, s)
<1>1. release_screen(v, p) = IF last THEN close_hidden_screen(v, s) ELSE v
  BY Zenon DEF release_screen
<1>2. Keeps(v, v)
  BY Zenon DEF Keeps, Alike
<1>3. last => Keeps(v, close_hidden_screen(v, s)) /\ close_hidden_screen(v, s).open = v.open \ {s}
  BY CloseKeeps, Zenon
<1> QED
  BY <1>1, <1>2, <1>3, Zenon

\* What is left of the others when program p is forgotten.
LEMMA ForgottenOthers ==
    ASSUME NEW v, Good(v), NEW p \in Pids, Unbrought(v, p)
    PROVE  LET u == Forgotten(v, p) IN
           /\ u.open = v.open /\ \A s \in Shown : u.owner[s] = v.owner[s]
           /\ ~alive(u, p) /\ u.prog[p].at = "user"
           /\ \A q \in Pids \ {p} :
                /\ u.prog[q].screen = v.prog[q].screen /\ (alive(u, q) <=> alive(v, q))
                /\ u.prog[q].at = v.prog[q].at /\ u.prog[q].scr = v.prog[q].scr
                /\ u.prog[q].to = v.prog[q].to /\ u.prog[q].woken = v.prog[q].woken
                /\ u.prog[q].at = "fg" => u.prog[q].who = v.prog[q].who
<1> DEFINE no(q) == IF q = p THEN None ELSE q
           pr(q) == [v.prog[q] EXCEPT !.giver = no(v.prog[q].giver), !.who = no(v.prog[q].who)]
           g == [q \in Pids |-> IF q = p THEN NoProg ELSE pr(q)]
           pa == [s \in Screens |-> no(v.paused[s])]
           o == [s \in Screens |-> IF s \in Hidden THEN no(v.owner[s]) ELSE v.owner[s]]
           u == [v EXCEPT !.prog = g, !.paused = pa, !.owner = o]
<1>1. v \in Systems /\ v.prog \in [Pids -> Progs]
  BY Zenon DEF Good, Systems
<1>2. Forgotten(v, p) = u
  BY Zenon DEF Forgotten
<1>3. u.prog = g /\ u.owner = o /\ u.open = v.open
  <2> HIDE DEF g, pa, o
  <2> QED
    BY <1>1, Zenon DEF Systems
<1>4. \A s \in Shown : s \in Screens /\ s \notin Hidden
  BY Names, Zenon DEF Screens
<1>5. \A s \in Shown : u.owner[s] = v.owner[s]
  BY <1>3, <1>4, Zenon
<1>6. u.prog[p] = NoProg
  BY <1>3, Zenon
<1>7. ~alive(u, p) /\ u.prog[p].at = "user"
  BY <1>6 DEF alive, NoProg
<1>8. ASSUME NEW q \in Pids \ {p}
      PROVE  /\ u.prog[q].screen = v.prog[q].screen /\ (alive(u, q) <=> alive(v, q))
             /\ u.prog[q].at = v.prog[q].at /\ u.prog[q].scr = v.prog[q].scr
             /\ u.prog[q].to = v.prog[q].to /\ u.prog[q].woken = v.prog[q].woken
             /\ u.prog[q].at = "fg" => u.prog[q].who = v.prog[q].who
  <2>1. u.prog[q] = pr(q) /\ v.prog[q] \in Progs
    BY <1>1, <1>3, <1>8, Zenon
  <2>2. /\ pr(q).screen = v.prog[q].screen /\ pr(q).state = v.prog[q].state
        /\ pr(q).at = v.prog[q].at /\ pr(q).scr = v.prog[q].scr
        /\ pr(q).to = v.prog[q].to /\ pr(q).woken = v.prog[q].woken
        /\ pr(q).who = no(v.prog[q].who)
    BY <2>1, Zenon DEF Progs
  <2>3. v.prog[q].at = "fg" => no(v.prog[q].who) = v.prog[q].who
    BY <1>8, Zenon DEF Unbrought
  <2> HIDE DEF pr, no
  <2> QED
    BY <2>1, <2>2, <2>3, Zenon DEF alive
<1> HIDE DEF u
<1> QED
  BY <1>2, <1>3, <1>5, <1>7, <1>8, Zenon

\* A program ends that is in no call that sleeps.
LEMMA TerminateBoth ==
    ASSUME NEW v, Good(v), NEW p \in Pids, Unbrought(v, p), alive(v, p),
           v.prog[p].at \notin {"start", "log", "fg"}, AllTold(v), Held(v)
    PROVE  AllTold(terminate(v, p)) /\ Held(terminate(v, p))
<1> DEFINE v1 == NoConsole(v, p)
           v2 == return_input(v1, p)
           v3 == release_screen(v2, p)
           v4 == retitle_after(v3, p)
           u == Forgotten(v4, p)
           s == v.prog[p].screen
           last == s \in Hidden /\ \A q \in Pids \ {p} : ~On(v, q, s)
<1>1. Good(v1) /\ Keeps(v, v1) /\ v1.open = v.open /\ \A t \in Screens : v1.console[t] # p
  BY NoConsoleGood, NoConsoleKeeps, Zenon
<1> HIDE DEF v1
<1>2. Good(v2) /\ Keeps(v1, v2) /\ v2.open = v1.open /\ Quit(v2, p)
  BY <1>1, ReturnInputGood, ReturnInputKeeps, Zenon
<1> HIDE DEF v2
<1>3. Keeps(v, v2)
  BY <1>1, <1>2, KeepsOn, Zenon
<1>4. v2.prog[p].screen = s /\ \A q \in Pids : On(v2, q, s) <=> On(v, q, s)
  BY <1>3, Zenon DEF Keeps, Alike, On
<1>5. Good(v3) /\ Keeps(v2, v3) /\ Quit(v3, p)
  BY <1>2, ReleaseGood, ReleaseKeeps, Zenon
<1>6. v3.open = IF last THEN v.open \ {s} ELSE v.open
  <2>1. v3.open = IF s \in Hidden /\ \A q \in Pids \ {p} : ~On(v2, q, s) THEN v2.open \ {s} ELSE v2.open
    BY <1>2, <1>4, ReleaseKeeps, Zenon
  <2> QED
    BY <1>1, <1>2, <1>4, <2>1, Zenon
<1> HIDE DEF v3
<1>7. Good(v4) /\ Keeps(v3, v4) /\ Quit(v4, p) /\ v4.open = v3.open
  BY <1>5, RetitleGood, RetitleKeeps, Zenon
<1> HIDE DEF v4
<1>8. Keeps(v, v4)
  BY <1>3, <1>5, <1>7, KeepsOn, Zenon
<1>9. AllTold(v4)
  BY <1>8, KeepsTold, Zenon
<1>10. \A q \in Pids : /\ v4.prog[q].screen = v.prog[q].screen /\ (alive(v4, q) <=> alive(v, q))
                       /\ v4.prog[q].at = v.prog[q].at /\ v4.prog[q].scr = v.prog[q].scr
                       /\ v4.prog[q].to = v.prog[q].to /\ v4.prog[q].who = v.prog[q].who
  BY <1>8, Zenon DEF Keeps, Alike
<1>11. Unbrought(v4, p)
  BY <1>10, Zenon DEF Unbrought
<1>12. /\ u.open = v4.open /\ \A t \in Shown : u.owner[t] = v4.owner[t]
       /\ ~alive(u, p) /\ u.prog[p].at = "user"
       /\ \A q \in Pids \ {p} :
            /\ u.prog[q].screen = v4.prog[q].screen /\ (alive(u, q) <=> alive(v4, q))
            /\ u.prog[q].at = v4.prog[q].at /\ u.prog[q].scr = v4.prog[q].scr
            /\ u.prog[q].to = v4.prog[q].to /\ u.prog[q].woken = v4.prog[q].woken
            /\ u.prog[q].at = "fg" => u.prog[q].who = v4.prog[q].who
  BY <1>7, <1>11, ForgottenOthers
<1>13. terminate(v, p) = u
  BY Zenon DEF terminate, u, v4, v3, v2, v1
<1> HIDE DEF u
<1>14. AllTold(u)
  <2> SUFFICES ASSUME NEW q \in Pids PROVE Told(u, q)
    BY Zenon DEF AllTold
  <2>1. CASE q = p
    BY <1>12, <2>1, Zenon DEF Told
  <2>2. CASE q # p
    <3>1. Told(v4, q)
      BY <1>9, Zenon DEF AllTold
    <3>2. ASSUME NEW t, Bringing(v4, q, t) PROVE Bringing(u, q, t)
      <4>1. PICK c \in Pids : v4.prog[c].at = "fg" /\ (v4.prog[c].who = q \/ v4.prog[c].to = t)
        BY <3>2, Zenon DEF Bringing
      <4>2. c # p
        BY <1>10, <4>1, Zenon
      <4>3. u.prog[c].at = "fg" /\ u.prog[c].to = v4.prog[c].to /\ u.prog[c].who = v4.prog[c].who
        BY <1>12, <4>1, <4>2, Zenon
      <4> QED
        BY <4>1, <4>3, Zenon DEF Bringing
    <3>3. /\ u.prog[q].screen = v4.prog[q].screen /\ (alive(u, q) <=> alive(v4, q))
          /\ u.prog[q].at = v4.prog[q].at /\ u.prog[q].scr = v4.prog[q].scr
          /\ u.prog[q].woken = v4.prog[q].woken
          /\ \A t \in Shown : u.owner[t] = v4.owner[t]
      BY <1>12, <2>2, Zenon
    <3> QED
      BY <3>1, <3>2, <3>3, ZenonT(30) DEF Told
  <2> QED
    BY <2>1, <2>2, Zenon
<1>15. Held(u)
  <2> SUFFICES ASSUME NEW t \in Hidden
               PROVE  /\ t \in u.open <=> \E q \in Pids : On(u, q, t) \/ Claims(u, q, t)
                      /\ \A q, r \in Pids : Claims(u, q, t) => ~On(u, r, t) /\ (Claims(u, r, t) => r = q)
    BY Zenon DEF Held
  <2>1. /\ t \in v.open <=> \E q \in Pids : On(v, q, t) \/ Claims(v, q, t)
        /\ \A q, r \in Pids : Claims(v, q, t) => ~On(v, r, t) /\ (Claims(v, r, t) => r = q)
    BY Zenon DEF Held
  <2>2. /\ ~On(u, p, t) /\ ~Claims(u, p, t) /\ ~Claims(v, p, t) /\ On(v, p, s)
        /\ On(v, p, t) => t = s
    BY <1>12, Zenon DEF On, Claims
  <2>3. \A q \in Pids \ {p} : (On(u, q, t) <=> On(v, q, t)) /\ (Claims(u, q, t) <=> Claims(v, q, t))
    <3> TAKE q \in Pids \ {p}
    <3>1. /\ u.prog[q].screen = v.prog[q].screen /\ (alive(u, q) <=> alive(v, q))
          /\ u.prog[q].at = v.prog[q].at /\ u.prog[q].scr = v.prog[q].scr
      BY <1>10, <1>12
    <3> QED
      BY <3>1, Zenon DEF On, Claims
  <2>4. \A q, r \in Pids : Claims(u, q, t) => ~On(u, r, t) /\ (Claims(u, r, t) => r = q)
    BY <2>1, <2>2, <2>3, Zenon
  <2>5. t \in u.open <=> t \in v.open /\ ~(last /\ t = s)
    BY <1>6, <1>7, <1>12, ZenonT(60)
  <2>6. CASE t # s
    BY <2>1, <2>2, <2>3, <2>4, <2>5, <2>6, Zenon
  <2>7. CASE t = s
    <3>1. \A q \in Pids : ~Claims(v, q, t)
      BY <2>1, <2>2, <2>7, Zenon
    <3>2. t \in v.open
      BY <2>1, <2>2, <2>7, Zenon
    <3>3. (\E q \in Pids : On(u, q, t) \/ Claims(u, q, t)) <=> \E q \in Pids \ {p} : On(v, q, t)
      BY <2>2, <2>3, <3>1, Zenon
    <3>4. last <=> ~\E q \in Pids \ {p} : On(v, q, t)
      BY <2>7, Zenon
    <3> QED
      BY <2>4, <2>5, <2>7, <3>2, <3>3, <3>4, ZenonT(60)
  <2> QED
    BY <2>6, <2>7, Zenon
<1> QED
  BY <1>13, <1>14, <1>15, Zenon

\* What the pause of a screen remembers concerns no reader.
LEMMA PausedKeeps ==
    ASSUME NEW v, Good(v), NEW s, NEW q \in Some
    PROVE  LET u == [v EXCEPT !.paused[s] = q]
           IN  Good(u) /\ Keeps(v, u) /\ u.open = v.open
<1> DEFINE u == [v EXCEPT !.paused[s] = q]
<1>1. v \in Systems
  BY Zenon DEF Good
<1>2. u.prog = v.prog /\ u.owner = v.owner /\ u.open = v.open
  BY <1>1, Zenon DEF Systems
<1>3. Good(u) /\ Alike(v, u)
  BY PausedGood, Zenon
<1> QED
  BY <1>2, <1>3, Zenon DEF Keeps

\* Nor does a request to end.
LEMMA EndKeeps ==
    ASSUME NEW v, Good(v), NEW e \in [Pids -> BOOLEAN]
    PROVE  LET u == [v EXCEPT !.prog = [p \in Pids |-> [v.prog[p] EXCEPT !.end = e[p]]]]
           IN  Keeps(v, u) /\ u.open = v.open
<1> DEFINE g == [p \in Pids |-> [v.prog[p] EXCEPT !.end = e[p]]]
<1>1. v.prog \in [Pids -> Progs]
  BY Zenon DEF Good, Systems
<1>2. ASSUME NEW p \in Pids, v.prog[p].woken PROVE g[p].woken
  <2>1. v.prog[p] \in Progs
    BY <1>1, Zenon
  <2>2. [v.prog[p] EXCEPT !.end = e[p]].woken = v.prog[p].woken
    BY <2>1, Zenon DEF Progs
  <2> QED
    BY <1>2, <2>2, Zenon
<1>3. Alike(v, [v EXCEPT !.prog = g])
  BY EndGood, Zenon
<1> HIDE DEF g
<1>4. Keeps(v, [v EXCEPT !.prog = g]) /\ [v EXCEPT !.prog = g].open = v.open
  BY <1>2, <1>3, ProgKeeps, Zenon
<1> QED
  BY <1>4, Zenon DEF g

\* Ctrl+Alt+C.
LEMMA EndProgramsKeeps ==
    ASSUME NEW v, Good(v), NEW s
    PROVE  Keeps(v, end_programs_on(v, s)) /\ end_programs_on(v, s).open = v.open
<1> DEFINE others == \E p \in Pids : moves(v, p, s)
           end(p) == v.prog[p].end \/ (On(v, p, s) /\ (others => p # v.console[s]))
           e == [p \in Pids |-> end(p)]
<1>1. e \in [Pids -> BOOLEAN] /\ \A p \in Pids : e[p] = end(p)
  BY Zenon
<1>2. end_programs_on(v, s) = [v EXCEPT !.prog = [p \in Pids |-> [v.prog[p] EXCEPT !.end = end(p)]]]
  BY Zenon DEF end_programs_on
<1> HIDE DEF end, e
<1>3. end_programs_on(v, s) = [v EXCEPT !.prog = [p \in Pids |-> [v.prog[p] EXCEPT !.end = e[p]]]]
  BY <1>1, <1>2, Zenon
<1> QED
  BY <1>1, <1>3, EndKeeps, ZenonT(60)

\* Ctrl+Alt+Z: when the keys go to another, the readers are told.
LEMMA PauseKeeps ==
    ASSUME NEW v, Good(v), NEW s \in Shown
    PROVE  Keeps(v, pause_programs_on(v, s)) /\ pause_programs_on(v, s).open = v.open
<1> DEFINE paused == \E p \in Pids : moves(v, p, s) /\ v.prog[p].state = "Stopped"
           owner == v.owner[s]
           had == v.paused[s]
           c == v.console[s]
           v1 == Put(v, s, "Live")
           u1 == [v1 EXCEPT !.paused[s] = None]
           v2 == Put(v, s, "Stopped")
           u2 == [v2 EXCEPT !.paused[s] = owner]
<1>1. s \in Screens /\ owner \in Some /\ had \in Some /\ c \in Some \cup {Failed} /\ None \in Some
  BY Zenon DEF Good, Systems, Screens, Some
<1>2. Good(v1) /\ Keeps(v, v1) /\ v1.open = v.open /\ Good(v2) /\ Keeps(v, v2) /\ v2.open = v.open
  BY PutGood, PutKeeps, Zenon
<1> HIDE DEF v1, v2
<1>3. Good(u1) /\ Keeps(v1, u1) /\ u1.open = v1.open
  BY <1>1, <1>2, PausedKeeps, ZenonT(60)
<1>4. Good(u2) /\ Keeps(v2, u2) /\ u2.open = v2.open
  BY <1>1, <1>2, PausedKeeps, ZenonT(60)
<1> HIDE DEF u1, u2
<1>5. Keeps(v, u1) /\ Keeps(v, u2)
  BY <1>2, <1>3, <1>4, KeepsOn, Zenon
<1>6. \A q \in Pids : On(v, q, s) => On(u1, q, s) /\ On(u2, q, s)
  BY <1>5, Zenon DEF Keeps, Alike, On
<1>7. ASSUME On(v, had, s)
      PROVE  Keeps(v, set_input_owner(u1, s, had)) /\ set_input_owner(u1, s, had).open = v.open
  <2>1. On(u1, had, s)
    BY <1>6, <1>7, Zenon DEF On, alive
  <2>2. Keeps(u1, set_input_owner(u1, s, had)) /\ set_input_owner(u1, s, had).open = u1.open
    BY <1>1, <1>3, <2>1, OwnerKeeps, Zenon
  <2> QED
    BY <1>2, <1>3, <1>5, <2>2, KeepsOn, Zenon
<1>8. ASSUME c >= 0
      PROVE  Keeps(v, set_input_owner(u2, s, c)) /\ set_input_owner(u2, s, c).open = v.open
  <2>1. c \in Pids
    BY <1>1, <1>8, Names, Zenon
  <2>2. On(v, c, s) /\ c \in Some
    BY <1>1, <2>1, Names, Zenon DEF Good, Served, Some
  <2>3. On(u2, c, s)
    BY <1>6, <2>1, <2>2, Zenon
  <2>4. Keeps(u2, set_input_owner(u2, s, c)) /\ set_input_owner(u2, s, c).open = u2.open
    BY <1>1, <1>4, <2>2, <2>3, OwnerKeeps, Zenon
  <2> QED
    BY <1>2, <1>4, <1>5, <2>4, KeepsOn, Zenon
<1>9. pause_programs_on(v, s) =
        IF ~\E p \in Pids : moves(v, p, s) THEN v
        ELSE IF paused THEN IF On(v, had, s) THEN set_input_owner(u1, s, had) ELSE u1
        ELSE IF c >= 0 /\ moves(v, owner, s) THEN set_input_owner(u2, s, c)
        ELSE v2
  BY Zenon DEF pause_programs_on, u1, u2, v1, v2
<1>10. Keeps(v, v)
  BY Zenon DEF Keeps, Alike
<1> HIDE DEF paused, had, c, owner
<1> QED
  BY <1>2, <1>3, <1>5, <1>7, <1>8, <1>9, <1>10, Zenon

\* The end of move_to_foreground() tells every reader.
LEMMA FgDoneKeeps ==
    ASSUME NEW v, Good(v), NEW c \in Pids, NEW to \in Shown, NEW owner, On(v, owner, to)
    PROVE  LET u == FgDone(v, c, to, owner)
           IN  Good(u) /\ Keeps(v, u) /\ Roused(u) /\ u.open = v.open
<1> DEFINE w == Put(v, to, "Live")
           u == [w EXCEPT !.prog[owner].giver = c]
           d == set_input_owner(u, to, owner)
<1>1. Good(w) /\ w.open = v.open
  BY PutGood, PutKeeps, Zenon
<1>2. FgDone(v, c, to, owner) = d
  BY Zenon DEF FgDone, On
<1> HIDE DEF w
<1>3. w \in Systems /\ w.prog \in [Pids -> Progs] /\ owner \in Pids
  BY <1>1, Zenon DEF Good, Systems, On, alive
<1>4. u.open = w.open /\ u.prog = [w.prog EXCEPT ![owner].giver = c]
  BY <1>3, Zenon DEF Systems
<1>5. u.prog \in [Pids -> Progs]
  <2>1. [w.prog[owner] EXCEPT !.giver = c] \in Progs
    BY <1>3, ZenonT(60) DEF Progs, Some
  <2> QED
    BY <1>3, <1>4, <2>1, Zenon
<1>6. d.prog = Woken(u.prog, {"input", "key"}) /\ d.open = u.open
  BY <1>3, Zenon DEF set_input_owner, Systems
<1>7. Roused(d)
  <2> SUFFICES ASSUME NEW q \in Pids, d.prog[q].at \in {"input", "key"} PROVE d.prog[q].woken
    BY Zenon DEF Roused
  <2> HIDE DEF u, d
  <2>1. u.prog[q].at = d.prog[q].at
    BY <1>5, <1>6, WokenTells
  <2> QED
    BY <1>5, <1>6, <2>1, WokenWakes, Zenon
<1>8. Good(d) /\ Alike(v, d)
  BY <1>2, FgDoneGood, Zenon
<1> HIDE DEF u, d
<1> QED
  BY <1>1, <1>2, <1>4, <1>6, <1>7, <1>8, Zenon DEF Keeps

\* choose_next() with any request that may be there.
LEMMA ChooseNextBoth ==
    ASSUME Good(sys), AllTold(sys), Held(sys), ~FgDisturbed
    PROVE  /\ \A s \in Shown : choose_next(None, s, None) \/ choose_next(None, None, s) => AllTold(sys') /\ Held(sys')
           /\ \A p \in Pids : choose_next(p, None, None) => AllTold(sys') /\ Held(sys')
<1>1. ASSUME NEW s \in Shown, choose_next(None, s, None) \/ choose_next(None, None, s)
      PROVE  AllTold(sys') /\ Held(sys')
  <2>1. s # None /\ \A v : ~ToEnd(v, None)
    BY Names, Zenon DEF Screens, ToEnd, alive
  <2>2. sys' = end_programs_on(sys, s) \/ sys' = pause_programs_on(sys, s)
    BY <1>1, <2>1, Zenon DEF choose_next
  <2>3. Keeps(sys, sys') /\ sys'.open = sys.open
    BY <2>2, EndProgramsKeeps, PauseKeeps, ZenonT(60)
  <2> QED
    BY <2>3, KeepsBoth, Zenon
<1>2. ASSUME NEW p \in Pids, choose_next(p, None, None)
      PROVE  AllTold(sys') /\ Held(sys')
  <2>1. CASE ToEnd(sys, p)
    <3>1. sys' = terminate(sys, p) /\ Steady(p, None)
      BY <1>2, <2>1, Zenon DEF choose_next
    <3>2. alive(sys, p) /\ sys.prog[p].at \notin {"start", "log", "fg"}
      BY <2>1, Zenon DEF ToEnd
    <3>3. Unbrought(sys, p)
      BY <3>1, SteadyMeans, Zenon
    <3> QED
      BY <3>1, <3>2, <3>3, TerminateBoth, Zenon
  <2>2. CASE ~ToEnd(sys, p)
    <3>1. sys' = sys
      BY <1>2, <2>2, Zenon DEF choose_next
    <3> QED
      BY <3>1, Zenon
  <2> QED
    BY <2>1, <2>2, Zenon
<1> QED
  BY <1>1, <1>2, Zenon
-----------------------------------------------------------------------------
(* Programs that go into a call and out of one, and new programs.          *)

\* What Goes changes.
LEMMA GoesOne ==
    ASSUME NEW v, Good(v), NEW p \in Pids, NEW at, NEW scr, NEW to, NEW who
    PROVE  LET u == Goes(v, p, at, scr, to, who) IN
           /\ u.open = v.open /\ u.owner = v.owner
           /\ \A q \in Pids \ {p} : u.prog[q] = v.prog[q]
           /\ \A q : alive(u, q) <=> alive(v, q)
           /\ \A q \in Pids : u.prog[q].screen = v.prog[q].screen
           /\ u.prog[p].at = at /\ u.prog[p].scr = scr /\ u.prog[p].to = to /\ u.prog[p].who = who
<1> DEFINE r == [v.prog[p] EXCEPT !.at = at, !.scr = scr, !.to = to, !.who = who, !.woken = FALSE]
           u == [v EXCEPT !.prog[p] = r]
<1>1. v \in Systems /\ v.prog \in [Pids -> Progs] /\ v.prog[p] \in Progs
  BY Zenon DEF Good, Systems
<1>2. /\ r.state = v.prog[p].state /\ r.screen = v.prog[p].screen
      /\ r.at = at /\ r.scr = scr /\ r.to = to /\ r.who = who
  BY <1>1, Zenon DEF Progs
<1>3. Goes(v, p, at, scr, to, who) = u
  BY Zenon DEF Goes
<1> HIDE DEF r
<1>4. u.prog = [v.prog EXCEPT ![p] = r] /\ u.owner = v.owner /\ u.open = v.open
  BY <1>1, Zenon DEF Systems
<1> HIDE DEF u
<1>5. u.prog[p] = r /\ \A q \in Pids \ {p} : u.prog[q] = v.prog[q]
  BY <1>1, <1>4, Zenon
<1>6. \A q \in Pids : u.prog[q].screen = v.prog[q].screen /\ u.prog[q].state = v.prog[q].state
  BY <1>2, <1>5, Zenon
<1>7. \A q : alive(u, q) <=> alive(v, q)
  BY <1>6, Zenon DEF alive
<1> QED
  BY <1>2, <1>3, <1>4, <1>5, <1>6, <1>7, Zenon

\* A program may sleep in ReadLine on a screen whose keys are not its own, and
\* in ReadKey on one whose keys are; and fg may go on once all were told.
LEMMA GoesTold ==
    ASSUME NEW v, Good(v), AllTold(v), NEW p \in Pids, NEW at, NEW scr, NEW to, NEW who,
           v.prog[p].at = "fg" => Roused(v),
           at = "input" => v.owner[v.prog[p].screen] # p,
           at = "key" => scr = v.prog[p].screen /\ v.owner[v.prog[p].screen] = p
    PROVE  AllTold(Goes(v, p, at, scr, to, who))
<1> DEFINE u == Goes(v, p, at, scr, to, who)
<1>1. /\ u.owner = v.owner
      /\ \A q \in Pids \ {p} : u.prog[q] = v.prog[q]
      /\ \A q : alive(u, q) <=> alive(v, q)
      /\ \A q \in Pids : u.prog[q].screen = v.prog[q].screen
      /\ u.prog[p].at = at /\ u.prog[p].scr = scr
  BY GoesOne
<1> HIDE DEF u
<1> SUFFICES ASSUME NEW q \in Pids PROVE Told(u, q)
  BY Zenon DEF AllTold, u
<1>2. CASE q = p
  <2>1. u.prog[q].at = "input" => u.owner[u.prog[q].screen] # q
    BY <1>1, <1>2, Zenon
  <2>2. u.prog[q].at = "key" => u.prog[q].scr = u.prog[q].screen /\ u.owner[u.prog[q].screen] = q
    BY <1>1, <1>2, Zenon
  <2> QED
    BY <2>1, <2>2, Zenon DEF Told
<1>3. CASE q # p
  <2>1. u.prog[q] = v.prog[q] /\ u.owner = v.owner /\ (alive(u, q) <=> alive(v, q)) /\ Told(v, q)
    BY <1>1, <1>3, Zenon DEF AllTold
  <2>2. CASE Roused(v)
    <3>1. u.prog[q].at \in {"input", "key"} => u.prog[q].woken
      BY <2>1, <2>2, Zenon DEF Roused
    <3> QED
      BY <3>1, Zenon DEF Told
  <2>3. CASE v.prog[p].at # "fg"
    <3>1. ASSUME NEW s, Bringing(v, q, s) PROVE Bringing(u, q, s)
      BY <1>1, <2>3, <3>1, Zenon DEF Bringing
    <3> QED
      BY <2>1, <3>1, Zenon DEF Told
  <2> QED
    BY <2>2, <2>3, Zenon
<1> QED
  BY <1>2, <1>3, ZenonT(60)

\* Program p drops the hidden screen it had a claim on, which is closed, or
\* has one on a screen that was free.
LEMMA ClaimHeld ==
    ASSUME NEW v, NEW u, Held(v), NEW p \in Pids,
           \A q \in Pids : \A s : On(u, q, s) <=> On(v, q, s),
           \A q \in Pids \ {p} : \A s : Claims(u, q, s) <=> Claims(v, q, s),
           \A s \in Hidden : Claims(u, p, s) => s \notin v.open,
           \A s \in Hidden : s \in u.open <=> (s \in v.open /\ ~Claims(v, p, s)) \/ Claims(u, p, s)
    PROVE  Held(u)
<1> SUFFICES ASSUME NEW t \in Hidden
             PROVE  /\ t \in u.open <=> \E q \in Pids : On(u, q, t) \/ Claims(u, q, t)
                    /\ \A q, r \in Pids : Claims(u, q, t) => ~On(u, r, t) /\ (Claims(u, r, t) => r = q)
  BY Zenon DEF Held
<1>1. /\ t \in v.open <=> \E q \in Pids : On(v, q, t) \/ Claims(v, q, t)
      /\ \A q, r \in Pids : Claims(v, q, t) => ~On(v, r, t) /\ (Claims(v, r, t) => r = q)
  BY Zenon DEF Held
<1>2. /\ \A q \in Pids : On(u, q, t) <=> On(v, q, t)
      /\ \A q \in Pids \ {p} : Claims(u, q, t) <=> Claims(v, q, t)
      /\ t \in u.open <=> (t \in v.open /\ ~Claims(v, p, t)) \/ Claims(u, p, t)
  BY Zenon
<1>3. CASE Claims(u, p, t)
  <2>1. t \notin v.open
    BY <1>3, Zenon
  <2>2. \A q \in Pids : ~On(v, q, t) /\ ~Claims(v, q, t)
    BY <1>1, <2>1, Zenon
  <2> QED
    BY <1>2, <1>3, <2>2, Zenon
<1>4. CASE ~Claims(u, p, t)
  <2>1. CASE Claims(v, p, t)
    <3>1. \A q \in Pids : ~On(u, q, t) /\ ~Claims(u, q, t)
      BY <1>1, <1>2, <1>4, <2>1, Zenon
    <3> QED
      BY <1>2, <1>4, <2>1, <3>1, Zenon
  <2>2. CASE ~Claims(v, p, t)
    <3>1. \A q \in Pids : Claims(u, q, t) <=> Claims(v, q, t)
      BY <1>2, <1>4, <2>2, Zenon
    <3>2. t \in u.open <=> t \in v.open
      BY <1>2, <1>4, <2>2, Zenon
    <3> QED
      BY <1>1, <1>2, <3>1, <3>2, Zenon
  <2> QED
    BY <2>1, <2>2, Zenon
<1> QED
  BY <1>3, <1>4, Zenon

\* A new program: no reader, and on a screen nobody has a claim on.
LEMMA FreshBoth ==
    ASSUME NEW v, Good(v), AllTold(v), Held(v), NEW q \in Pids, ~alive(v, q),
           NEW s \in Screens, NEW giver, s \in Hidden => \A p \in Pids : ~Claims(v, p, s),
           NEW u, u.prog = [v.prog EXCEPT ![q] = New(s, giver)], u.owner = v.owner,
           \A t \in Hidden : t \in u.open <=> t \in v.open \/ t = s
    PROVE  AllTold(u) /\ Held(u)
<1>1. v.prog \in [Pids -> Progs] /\ v.prog[q].at = "user"
  BY Zenon DEF Good, Systems, Placed
<1>2. u.prog[q] = New(s, giver) /\ \A p \in Pids \ {q} : u.prog[p] = v.prog[p]
  BY <1>1, Zenon
<1>3. /\ New(s, giver).state = "Live" /\ New(s, giver).screen = s /\ New(s, giver).at = "user"
  BY Zenon DEF New, NoProg
<1>4. u.prog[q].at = "user" /\ On(u, q, s) /\ \A t : On(u, q, t) => t = s
  BY <1>2, <1>3, Zenon DEF On, alive
<1>5. \A p \in Pids \ {q} : /\ alive(u, p) <=> alive(v, p)
                           /\ \A t : (On(u, p, t) <=> On(v, p, t)) /\ (Claims(u, p, t) <=> Claims(v, p, t))
  BY <1>2, Zenon DEF On, alive, Claims
<1>6. \A t : ~Claims(u, q, t) /\ ~Claims(v, q, t) /\ ~On(v, q, t)
  BY <1>1, <1>4, Zenon DEF Claims, On
<1>7. ASSUME NEW p \in Pids PROVE Told(u, p)
  <2>1. CASE p = q
    BY <1>4, <2>1, Zenon DEF Told
  <2>2. CASE p # q
    <3>1. u.prog[p] = v.prog[p] /\ u.owner = v.owner /\ (alive(u, p) <=> alive(v, p)) /\ Told(v, p)
      BY <1>2, <1>5, <2>2, Zenon DEF AllTold
    <3>2. ASSUME NEW t, Bringing(v, p, t) PROVE Bringing(u, p, t)
      BY <1>1, <1>2, <3>2, Zenon DEF Bringing
    <3> QED
      BY <3>1, <3>2, Zenon DEF Told
  <2> QED
    BY <2>1, <2>2, Zenon
<1>8. Held(u)
  <2> SUFFICES ASSUME NEW t \in Hidden
               PROVE  /\ t \in u.open <=> \E p \in Pids : On(u, p, t) \/ Claims(u, p, t)
                      /\ \A p, r \in Pids : Claims(u, p, t) => ~On(u, r, t) /\ (Claims(u, r, t) => r = p)
    BY Zenon DEF Held
  <2>1. /\ t \in v.open <=> \E p \in Pids : On(v, p, t) \/ Claims(v, p, t)
        /\ \A p, r \in Pids : Claims(v, p, t) => ~On(v, r, t) /\ (Claims(v, r, t) => r = p)
    BY Zenon DEF Held
  <2>2. \A p \in Pids : Claims(u, p, t) <=> Claims(v, p, t)
    BY <1>5, <1>6, Zenon
  <2>3. t \in u.open <=> t \in v.open \/ t = s
    BY Zenon
  <2>4. CASE t = s
    <3>1. \A p \in Pids : ~Claims(u, p, t)
      BY <2>2, <2>4, Zenon
    <3> QED
      BY <1>4, <2>3, <2>4, <3>1, Zenon
  <2>5. CASE t # s
    <3>1. \A p \in Pids : On(u, p, t) <=> On(v, p, t)
      BY <1>4, <1>5, <1>6, <2>5, ZenonT(60)
    <3> QED
      BY <2>1, <2>2, <2>3, <2>5, <3>1, ZenonT(60)
  <2> QED
    BY <2>4, <2>5, Zenon
<1> QED
  BY <1>7, <1>8, Zenon DEF AllTold
-----------------------------------------------------------------------------
(* The steps.                                                              *)

\* cmdkeeper's own state concerns nobody.
LEMMA LoadsKeeps ==
    ASSUME NEW v, Good(v), NEW last
    PROVE  Keeps(v, Loads(v, last)) /\ Loads(v, last).open = v.open
<1>1. v \in Systems
  BY Zenon DEF Good
<1>2. \E k, l : Loads(v, last) = [v EXCEPT !.keeper = k, !.loading = l]
  BY Zenon DEF Loads
<1>3. PICK k, l : Loads(v, last) = [v EXCEPT !.keeper = k, !.loading = l]
  BY <1>2, Zenon
<1>4. LET u == Loads(v, last) IN u.prog = v.prog /\ u.owner = v.owner /\ u.open = v.open
  BY <1>1, <1>3, Zenon DEF Systems
<1> QED
  BY <1>4, Zenon DEF Keeps, Alike, alive

\* The keeper looks for a console that is missing; no reader goes untold.
LEMMA KeeperLooksBoth ==
    ASSUME Good(sys), AllTold(sys), Held(sys), KeeperLooks
    PROVE  AllTold(sys') /\ Held(sys')
<1>1. CASE Missing(sys) = {}
  <2>1. sys' = [sys EXCEPT !.keeper = "waits"] /\ sys \in Systems
    BY <1>1, Zenon DEF KeeperLooks, Good
  <2>2. sys'.prog = sys.prog /\ sys'.owner = sys.owner /\ sys'.open = sys.open
    BY <2>1, Zenon DEF Systems
  <2>3. Keeps(sys, sys')
    BY <2>2, Zenon DEF Keeps, Alike, alive
  <2> QED
    BY <2>2, <2>3, KeepsBoth, Zenon
<1>2. CASE Missing(sys) # {}
  <2>1. sys' = Loads(sys, None)
    BY <1>2, Zenon DEF KeeperLooks
  <2> QED
    BY <2>1, LoadsKeeps, KeepsBoth, Zenon
<1> QED
  BY <1>1, <1>2, Zenon

\* A shown screen's new console.
LEMMA StartCmdBoth ==
    ASSUME Good(sys), AllTold(sys), Held(sys), start_cmd
    PROVE  AllTold(sys') /\ Held(sys')
<1> DEFINE s == sys.loading
           p == FreePid(sys)
           n == [sys EXCEPT !.prog[p] = New(s, None)]
           u == [n EXCEPT !.console[s] = p]
           z == [sys EXCEPT !.console[s] = Failed]
<1>1. s \in Shown /\ sys \in Systems /\ s \in Screens /\ s \notin Hidden
  BY Names, Zenon DEF start_cmd, Good, Screens
<1>2. Good(z) /\ AllTold(z) /\ Held(z)
  <2>1. Good(z) /\ Alike(sys, z)
    BY <1>1, ConsoleGood, Zenon
  <2>2. z.prog = sys.prog /\ z.owner = sys.owner /\ z.open = sys.open
    BY <1>1, Zenon DEF Systems
  <2>3. Keeps(sys, z)
    BY <2>1, <2>2, Zenon DEF Keeps
  <2> QED
    BY <2>1, <2>2, <2>3, KeepsBoth, Zenon
<1>3. ASSUME FreePids(sys) # {}
      PROVE  /\ Good(u) /\ AllTold(u) /\ Held(u)
             /\ LET w == set_input_owner(u, s, p) IN Good(w) /\ AllTold(w) /\ Held(w)
  <2>1. p \in Pids /\ ~alive(sys, p)
    BY <1>3, FreeIsFree, Zenon
  <2>2. p \in Some /\ None \in Some
    BY <2>1, Zenon DEF Some
  <2> HIDE DEF p, s
  <2>3. Good(n) /\ On(n, p, s)
    BY <1>1, <2>1, <2>2, FreshGood, Zenon
  <2>4. n.prog = [sys.prog EXCEPT ![p] = New(s, None)] /\ n.owner = sys.owner /\ n.open = sys.open
    BY <1>1, Zenon DEF Systems
  <2>5. AllTold(n) /\ Held(n)
    <3>1. \A t \in Hidden : t \in n.open <=> t \in sys.open \/ t = s
      BY <1>1, <2>4, Zenon
    <3> HIDE DEF n
    <3> QED
      BY <1>1, <2>1, <2>4, <3>1, FreshBoth, ZenonT(60)
  <2> HIDE DEF n
  <2>6. Good(u) /\ Alike(n, u) /\ u.prog = n.prog /\ u.owner = n.owner
    BY <1>1, <2>2, <2>3, ConsoleGood, Zenon
  <2>7. u.open = n.open
    BY <2>3, Zenon DEF Good, Systems
  <2>8. Keeps(n, u) /\ On(u, p, s)
    BY <2>3, <2>6, Zenon DEF Keeps, Alike, On, alive
  <2> HIDE DEF u
  <2>9. AllTold(u) /\ Held(u)
    BY <2>5, <2>7, <2>8, KeepsBoth, Zenon
  <2>10. Good(set_input_owner(u, s, p)) /\ Keeps(u, set_input_owner(u, s, p)) /\ set_input_owner(u, s, p).open = u.open
    BY <1>1, <2>2, <2>6, <2>8, OwnerSet, OwnerKeeps, ZenonT(60)
  <2> QED
    BY <2>6, <2>9, <2>10, KeepsBoth, Zenon
<1>4. \/ sys' = Loads(z, s)
      \/ FreePids(sys) # {} /\ (sys' = Loads(u, s) \/ sys' = Loads(set_input_owner(u, s, p), s))
  <2>1. u = [sys EXCEPT !.prog[p] = New(s, None), !.console[s] = p]
    BY <1>1, Zenon DEF Systems
  <2> QED
    BY <2>1, Zenon DEF start_cmd
<1> HIDE DEF u, z
<1>5. PICK w : sys' = Loads(w, s) /\ Good(w) /\ AllTold(w) /\ Held(w)
  BY <1>2, <1>3, <1>4, Zenon
<1> QED
  BY <1>5, LoadsKeeps, KeepsBoth, Zenon

\* Start takes a hidden screen that is free.
LEMMA StartCallBoth ==
    ASSUME Good(sys), AllTold(sys), Held(sys), NEW p \in Pids, StartCall(p)
    PROVE  AllTold(sys') /\ Held(sys')
<1>1. alive(sys, p) /\ sys.prog[p].at = "user"
  BY Zenon DEF StartCall, Calls, alive
<1>2. ASSUME NEW s \in Hidden \cup {None}, s \notin sys.open,
             sys'.prog = Goes(sys, p, "start", s, None, None).prog,
             sys'.owner = Goes(sys, p, "start", s, None, None).owner,
             \A t \in Hidden : t \in sys'.open <=> t \in sys.open \/ t = s
      PROVE  AllTold(sys') /\ Held(sys')
  <2> DEFINE v == Goes(sys, p, "start", s, None, None)
  <2>1. /\ v.owner = sys.owner
        /\ \A q \in Pids \ {p} : v.prog[q] = sys.prog[q]
        /\ \A q : alive(v, q) <=> alive(sys, q)
        /\ \A q \in Pids : v.prog[q].screen = sys.prog[q].screen
        /\ v.prog[p].at = "start" /\ v.prog[p].scr = s
    BY GoesOne
  <2>2. AllTold(v)
    BY <1>1, GoesTold, Zenon
  <2> HIDE DEF v
  <2>3. sys'.prog = v.prog /\ sys'.owner = v.owner
    BY <1>2, Zenon DEF v
  <2>4. AllTold(sys')
    <3>1. Keeps(v, sys')
      BY <2>3, Zenon DEF Keeps, Alike, alive
    <3> QED
      BY <2>2, <3>1, KeepsTold, Zenon
  <2>5. \A q \in Pids : \A t : On(sys', q, t) <=> On(sys, q, t)
    BY <2>1, <2>3, Zenon DEF On, alive
  <2>6. \A q \in Pids \ {p} : \A t : Claims(sys', q, t) <=> Claims(sys, q, t)
    BY <2>1, <2>3, Zenon DEF Claims
  <2>7. \A t : (Claims(sys', p, t) <=> t = s) /\ ~Claims(sys, p, t)
    BY <1>1, <2>1, <2>3, Zenon DEF Claims
  <2>8. \A t \in Hidden : Claims(sys', p, t) => t \notin sys.open
    BY <1>2, <2>7
  <2>9. \A t \in Hidden : t \in sys'.open <=> (t \in sys.open /\ ~Claims(sys, p, t)) \/ Claims(sys', p, t)
    BY <1>2, <2>7, Zenon
  <2>10. Held(sys')
    BY <2>5, <2>6, <2>8, <2>9, ClaimHeld, ZenonT(60)
  <2> QED
    BY <2>4, <2>10, ZenonT(60)
<1>3. sys \in Systems /\ None \notin Hidden /\ None \notin sys.open /\ \A t \in Hidden : t # None
  BY Names, Zenon DEF Good, Systems, Screens
<1>4. CASE sys' = Goes(sys, p, "start", None, None, None)
  <2>1. sys'.open = sys.open
    BY <1>4, GoesOne
  <2> QED
    BY <1>2, <1>3, <1>4, <2>1, ZenonT(60)
<1>5. ASSUME NEW s \in Hidden \ sys.open,
             sys' = [Goes(sys, p, "start", s, None, None) EXCEPT !.open = @ \cup {s}]
      PROVE  AllTold(sys') /\ Held(sys')
  <2>1. Goes(sys, p, "start", s, None, None).open = sys.open
    BY GoesOne
  <2>2. Good(Goes(sys, p, "start", s, None, None))
    BY <1>1, GoesGood, Zenon DEF Places, Some, Screens
  <2>3. /\ sys'.prog = Goes(sys, p, "start", s, None, None).prog
        /\ sys'.owner = Goes(sys, p, "start", s, None, None).owner
        /\ sys'.open = sys.open \cup {s}
    BY <1>5, <2>1, <2>2, Zenon DEF Good, Systems
  <2> QED
    BY <1>2, <1>5, <2>3, ZenonT(60)
<1> QED
  BY <1>4, <1>5, Zenon DEF StartCall

\* A call that has no claim on a hidden screen, nor had one.
LEMMA GoesHeld ==
    ASSUME NEW v, Good(v), Held(v), NEW p \in Pids, NEW at, NEW scr, NEW to, NEW who,
           v.prog[p].at \notin {"start", "fg"}, at \notin {"start", "fg"}
    PROVE  Held(Goes(v, p, at, scr, to, who))
<1> DEFINE u == Goes(v, p, at, scr, to, who)
<1>1. /\ u.open = v.open
      /\ \A q \in Pids \ {p} : u.prog[q] = v.prog[q]
      /\ \A q : alive(u, q) <=> alive(v, q)
      /\ \A q \in Pids : u.prog[q].screen = v.prog[q].screen
      /\ u.prog[p].at = at
  BY GoesOne
<1> HIDE DEF u
<1>2. \A q \in Pids : \A s : On(u, q, s) <=> On(v, q, s)
  BY <1>1, Zenon DEF On
<1>3. \A q \in Pids \ {p} : \A s : Claims(u, q, s) <=> Claims(v, q, s)
  BY <1>1, Zenon DEF Claims
<1>4. \A s : ~Claims(u, p, s) /\ ~Claims(v, p, s)
  BY <1>1, Zenon DEF Claims
<1>5. Held(u)
  BY <1>1, <1>2, <1>3, <1>4, ClaimHeld, ZenonT(60)
<1> QED
  BY <1>5, Zenon DEF u

\* The end of a call that has a claim on a hidden screen, which is closed.
LEMMA DropHeld ==
    ASSUME NEW v, Good(v), Held(v), NEW p \in Pids, v.prog[p].at \in {"start", "fg"},
           NEW u, \A q \in Pids : \A s : On(u, q, s) <=> On(v, q, s),
           \A q \in Pids \ {p} : u.prog[q].at = v.prog[q].at /\ u.prog[q].scr = v.prog[q].scr,
           u.prog[p].at = "user", u.open = v.open \ {v.prog[p].scr}
    PROVE  Held(u)
<1>1. \A q \in Pids \ {p} : \A s : Claims(u, q, s) <=> Claims(v, q, s)
  BY Zenon DEF Claims
<1>2. \A s : ~Claims(u, p, s) /\ (Claims(v, p, s) <=> s = v.prog[p].scr)
  BY Zenon DEF Claims
<1>3. \A s \in Hidden : s \in u.open <=> (s \in v.open /\ ~Claims(v, p, s)) \/ Claims(u, p, s)
  BY <1>2, Zenon
<1> QED
  BY <1>1, <1>2, <1>3, ClaimHeld, Zenon

\* Start puts the program on the screen it took, or on the one it is on itself.
LEMMA StartDoneBoth ==
    ASSUME Good(sys), AllTold(sys), Held(sys), NEW p \in Pids, StartDone(p)
    PROVE  AllTold(sys') /\ Held(sys')
<1> DEFINE here == sys.prog[p].screen
           hidden == sys.prog[p].scr
           q == FreePid(sys)
           v == Returns(sys, p)
           o == v.open \ {hidden}
           d == [v EXCEPT !.open = o]
<1>1. alive(sys, p) /\ here \in Screens /\ hidden \in Hidden \cup {None} /\ sys.prog[p].at = "start"
  BY Zenon DEF StartDone, Good, Placed
<1>2. Good(v) /\ v \in Systems
  BY <1>1, ReturnsGood, Zenon DEF Good
<1>3. /\ v.open = sys.open /\ v.owner = sys.owner
      /\ \A r \in Pids \ {p} : v.prog[r] = sys.prog[r]
      /\ \A r : alive(v, r) <=> alive(sys, r)
      /\ \A r \in Pids : v.prog[r].screen = sys.prog[r].screen
      /\ v.prog[p].at = "user"
  BY GoesOne DEF Returns
<1>4. AllTold(v)
  BY <1>1, GoesTold, Zenon DEF Returns
<1>5. \/ sys' = d
      \/ FreePids(sys) # {} /\ hidden # None /\ sys' = [v EXCEPT !.prog[q] = New(hidden, None)]
      \/ FreePids(sys) # {} /\ hidden = None /\ sys' = [v EXCEPT !.prog[q] = New(here, None)]
      \/ FreePids(sys) # {} /\ hidden = None /\ sys' = set_input_owner([v EXCEPT !.prog[q] = New(here, p)], here, q)
  BY Zenon DEF StartDone
<1>6. FreePids(sys) # {} => q \in Pids /\ ~alive(v, q)
  BY <1>3, FreeIsFree, Zenon
<1> HIDE DEF here, hidden, q, v
<1>7. o \in SUBSET Hidden
  BY <1>2, Zenon DEF Systems
<1>8. Good(d) /\ Alike(v, d)
  BY <1>2, <1>7, OpenGood, Zenon
<1>9. d.open = v.open \ {hidden} /\ d.prog = v.prog /\ d.owner = v.owner
  BY <1>2, Zenon DEF Systems
<1> HIDE DEF o, d
<1>10. AllTold(d) /\ Held(d)
  <2>1. Keeps(v, d)
    BY <1>8, <1>9, Zenon DEF Keeps
  <2>2. \A r \in Pids : \A s : On(d, r, s) <=> On(sys, r, s)
    BY <1>3, <1>9, Zenon DEF On, alive
  <2>3. \A r \in Pids \ {p} : d.prog[r].at = sys.prog[r].at /\ d.prog[r].scr = sys.prog[r].scr
    BY <1>3, <1>9, Zenon
  <2>4. d.open = sys.open \ {sys.prog[p].scr} /\ d.prog[p].at = "user"
    BY <1>3, <1>9, Zenon DEF hidden
  <2>5. Held(d)
    BY <1>1, <2>2, <2>3, <2>4, DropHeld, ZenonT(60)
  <2> QED
    BY <1>4, <2>1, <2>5, KeepsTold, ZenonT(60)
<1>11. CASE sys' = d
  BY <1>10, <1>11, Zenon
<1>12. \A r \in Pids : \A s \in Hidden : Claims(sys, r, s) => s \in sys.open /\ ~On(sys, p, s) /\ (s = hidden => r = p)
  <2>1. \A s \in Hidden : s = hidden => Claims(sys, p, s)
    BY <1>1, Zenon DEF Claims, hidden
  <2> QED
    BY <2>1, Zenon DEF Held
<1>13. \A r \in Pids : \A s \in Hidden : Claims(d, r, s) => Claims(sys, r, s) /\ r # p
  BY <1>3, <1>9, Zenon DEF Claims
<1>14. CASE FreePids(sys) # {} /\ hidden # None /\ sys' = [v EXCEPT !.prog[q] = New(hidden, None)]
  <2>1. /\ sys'.prog = [d.prog EXCEPT ![q] = New(hidden, None)] /\ sys'.owner = d.owner
        /\ sys'.open = sys.open
    BY <1>2, <1>3, <1>9, <1>14, Zenon DEF Systems
  <2>2. hidden \in Hidden /\ hidden \in Screens /\ q \in Pids /\ ~alive(d, q)
    BY <1>1, <1>6, <1>9, <1>14, Zenon DEF Screens, alive
  <2>3. hidden \in sys.open /\ \A r \in Pids : ~Claims(d, r, hidden)
    <3>1. Claims(sys, p, hidden)
      BY <1>1, Zenon DEF Claims, hidden
    <3> QED
      BY <1>12, <1>13, <2>2, <3>1, Zenon
  <2>4. \A t \in Hidden : t \in sys'.open <=> t \in d.open \/ t = hidden
    BY <1>3, <1>9, <2>1, <2>3, Zenon
  <2> QED
    BY <1>8, <1>10, <2>1, <2>2, <2>3, <2>4, FreshBoth, ZenonT(60)
<1>15. ASSUME FreePids(sys) # {}, hidden = None, NEW g \in Some
       PROVE  LET n == [v EXCEPT !.prog[q] = New(here, g)]
              IN  Good(n) /\ On(n, q, here) /\ AllTold(n) /\ Held(n)
  <2> DEFINE n == [v EXCEPT !.prog[q] = New(here, g)]
  <2>1. n.prog = [d.prog EXCEPT ![q] = New(here, g)] /\ n.owner = d.owner /\ n.open = sys.open
    BY <1>2, <1>3, <1>9, Zenon DEF Systems
  <2>2. q \in Pids /\ ~alive(d, q) /\ ~alive(v, q)
    BY <1>6, <1>9, <1>15, Zenon DEF alive
  <2>3. On(sys, p, here) /\ d.open = sys.open
    <3>1. None \notin sys.open
      BY Names, Zenon DEF Good, Systems, Screens
    <3>2. On(sys, p, here)
      BY <1>1, Zenon DEF On, here
    <3> QED
      BY <1>3, <1>9, <1>15, <3>1, <3>2, ZenonT(60)
  <2>4. here \in Hidden => here \in sys.open /\ \A r \in Pids : ~Claims(d, r, here)
    BY <1>12, <1>13, <2>3, Zenon DEF Held
  <2>5. \A t \in Hidden : t \in n.open <=> t \in d.open \/ t = here
    BY <2>1, <2>3, <2>4, Zenon
  <2>6. Good(n) /\ On(n, q, here)
    BY <1>1, <1>2, <1>15, <2>2, FreshGood, ZenonT(60)
  <2> HIDE DEF n
  <2>7. AllTold(n) /\ Held(n)
    <3>1. here \in Hidden => \A r \in Pids : ~Claims(d, r, here)
      BY <2>4, Zenon
    <3>2. here \in Screens
      BY <1>1, Zenon
    <3> QED
      BY <1>8, <1>10, <2>1, <2>2, <2>5, <3>1, <3>2, FreshBoth, ZenonT(60)
  <2> QED
    BY <2>6, <2>7, Zenon DEF n
<1>16. p \in Some /\ None \in Some
  BY Zenon DEF Some
<1>17. CASE FreePids(sys) # {} /\ hidden = None /\ sys' = [v EXCEPT !.prog[q] = New(here, None)]
  BY <1>15, <1>16, <1>17, Zenon
<1>18. CASE FreePids(sys) # {} /\ hidden = None /\ sys' = set_input_owner([v EXCEPT !.prog[q] = New(here, p)], here, q)
  <2> DEFINE n == [v EXCEPT !.prog[q] = New(here, p)]
  <2>1. Good(n) /\ On(n, q, here) /\ AllTold(n) /\ Held(n)
    BY <1>15, <1>16, <1>18, Zenon
  <2>2. sys' = set_input_owner(n, here, q) /\ q \in Some
    BY <1>6, <1>18, Zenon DEF Some
  <2> HIDE DEF n
  <2>3. Keeps(n, sys') /\ sys'.open = n.open
    BY <1>1, <2>1, <2>2, OwnerKeeps, ZenonT(60)
  <2> QED
    BY <2>1, <2>3, KeepsBoth, Zenon
<1> QED
  BY <1>5, <1>11, <1>14, <1>17, <1>18, ZenonT(60)

\* next_key() sleeps only where what it waits for has not happened yet.
LEMMA NextKeyBoth ==
    ASSUME Good(sys), AllTold(sys), Held(sys), NEW p \in Pids, next_key(p)
    PROVE  AllTold(sys') /\ Held(sys')
<1> DEFINE here == sys.prog[p].screen
<1>1. sys.prog[p].at \in {"user", "input", "key"}
  BY Zenon DEF next_key
<1>2. sys.prog[p].at \notin {"start", "fg"} /\ sys.prog[p].at # "fg"
  BY <1>1, Zenon
<1>3. \/ sys' = Goes(sys, p, "user", None, None, None)
      \/ sys.owner[here] # p /\ sys' = Goes(sys, p, "input", None, None, None)
      \/ sys.owner[here] = p /\ sys' = Goes(sys, p, "key", here, None, None)
  BY Zenon DEF next_key, Returns
<1>4. CASE sys' = Goes(sys, p, "user", None, None, None)
  BY <1>2, <1>4, GoesTold, GoesHeld, ZenonT(60)
<1>5. CASE sys.owner[here] # p /\ sys' = Goes(sys, p, "input", None, None, None)
  BY <1>2, <1>5, GoesTold, GoesHeld, ZenonT(60)
<1>6. CASE sys.owner[here] = p /\ sys' = Goes(sys, p, "key", here, None, None)
  BY <1>2, <1>6, GoesTold, GoesHeld, ZenonT(60)
<1> QED
  BY <1>3, <1>4, <1>5, <1>6, Zenon

\* EndProcess.
LEMMA EndProgramBoth ==
    ASSUME Good(sys), AllTold(sys), Held(sys), NEW c \in Pids, NEW p \in Pids, end_program(c, p)
    PROVE  AllTold(sys') /\ Held(sys')
<1> DEFINE e == [q \in Pids |-> IF q = p THEN TRUE ELSE sys.prog[q].end]
           g == [q \in Pids |-> [sys.prog[q] EXCEPT !.end = e[q]]]
<1>1. sys \in Systems /\ sys.prog \in [Pids -> Progs]
  BY Zenon DEF Good, Systems
<1>2. ASSUME NEW q \in Pids
      PROVE  sys.prog[q].end \in BOOLEAN /\ sys.prog[q] = [sys.prog[q] EXCEPT !.end = sys.prog[q].end]
  <2>1. sys.prog[q] \in Progs
    BY <1>1, Zenon
  <2> QED
    BY <2>1, Zenon DEF Progs
<1>3. e \in [Pids -> BOOLEAN]
  BY <1>2, Zenon
<1>4. [sys.prog EXCEPT ![p] = [sys.prog[p] EXCEPT !.end = TRUE]] = g
  BY <1>1, <1>2, Zenon
<1>5. sys' = [sys EXCEPT !.prog = g]
  BY <1>4, Zenon DEF end_program
<1> HIDE DEF e
<1>6. Keeps(sys, sys') /\ sys'.open = sys.open
  BY <1>3, <1>5, EndKeeps, Zenon
<1> QED
  BY <1>6, KeepsBoth, Zenon

\* The rest of move_to_background() is about a hidden screen, where nobody
\* types.
LEMMA LogDoneBoth ==
    ASSUME Good(sys), AllTold(sys), Held(sys), NEW c \in Pids, LogDone(c)
    PROVE  AllTold(sys') /\ Held(sys')
<1> DEFINE s == sys.prog[c].scr
           q == sys.prog[c].who
           v == Put(sys, s, "Live")
           u == [v EXCEPT !.owner[s] = q]
<1>1. alive(sys, c) /\ s \in Hidden /\ q \in Some /\ sys.prog[c].at = "log"
  BY Zenon DEF LogDone, Good, Placed, Systems, Progs
<1>2. sys' = Goes(u, c, "user", None, None, None)
  BY Zenon DEF LogDone, Returns
<1> HIDE DEF s, q
<1>3. Good(v) /\ Keeps(sys, v) /\ v.open = sys.open /\ v \in Systems
  BY PutGood, PutKeeps, Zenon DEF Good
<1> HIDE DEF v
<1>4. Good(u) /\ Alike(v, u)
  BY <1>1, <1>3, HiddenOwnerGood, Zenon
<1>5. u.prog = v.prog /\ u.open = v.open /\ u.owner = [v.owner EXCEPT ![s] = q]
  BY <1>3, Zenon DEF Systems
<1>6. \A t \in Shown : u.owner[t] = v.owner[t]
  <2>1. \A t \in Shown : t \in Screens /\ t # s
    BY <1>1, Names, Zenon DEF Screens
  <2>2. v.owner \in [Screens -> Some]
    BY <1>3, Zenon DEF Systems
  <2> QED
    BY <1>5, <2>1, <2>2, Zenon
<1> HIDE DEF u
<1>7. Keeps(v, u)
  BY <1>4, <1>5, <1>6, Zenon DEF Keeps
<1>8. Keeps(sys, u) /\ u.open = sys.open
  BY <1>3, <1>5, <1>7, KeepsOn, ZenonT(60)
<1>9. AllTold(u) /\ Held(u)
  BY <1>8, KeepsBoth, Zenon
<1>10. u.prog[c].at = "log"
  BY <1>1, <1>8, Zenon DEF Keeps, Alike
<1> QED
  BY <1>2, <1>4, <1>9, <1>10, GoesTold, GoesHeld, ZenonT(60)

\* The rest of move_to_foreground(): every reader is told, and the hidden
\* screen that was left is closed.
LEMMA ForegroundDoneBoth ==
    ASSUME Good(sys), AllTold(sys), Held(sys), NEW c \in Pids, ForegroundDone(c)
    PROVE  AllTold(sys') /\ Held(sys')
<1> DEFINE s == sys.prog[c].scr
           to == sys.prog[c].to
           who == sys.prog[c].who
           v == close_hidden_screen(sys, s)
           w == [v EXCEPT !.prog = Woken(v.prog, {"key"})]
           u == FgDone(w, c, to, who)
<1>1. alive(sys, c) /\ to \in Shown /\ On(sys, who, to) /\ sys.prog[c].at = "fg"
  BY Zenon DEF ForegroundDone, Good, Placed
<1>2. Good(v) /\ Alike(sys, v) /\ v.open = sys.open \ {s}
  <2>1. v.open = sys.open \ {s}
    BY Zenon DEF close_hidden_screen, Good, Systems
  <2> QED
    BY <2>1, CloseGood, Zenon
<1>3. sys' = Goes(u, c, "user", None, None, None)
  BY Zenon DEF ForegroundDone, Returns
<1> HIDE DEF v
<1>4. Good(w) /\ Alike(v, w) /\ w.open = v.open
  BY <1>2, WakeGood, WakeKeeps, ZenonT(60)
<1> HIDE DEF w
<1>5. \A q \in Pids : /\ w.prog[q].screen = sys.prog[q].screen /\ (alive(w, q) <=> alive(sys, q))
                      /\ w.prog[q].at = sys.prog[q].at /\ w.prog[q].scr = sys.prog[q].scr
  BY <1>2, <1>4, ZenonT(60) DEF Alike
<1>6. On(w, who, to)
  BY <1>1, <1>5, Zenon DEF On, alive
<1> HIDE DEF to, who
<1>7. Good(u) /\ Alike(w, u) /\ Roused(u) /\ u.open = w.open
  BY <1>1, <1>4, <1>6, FgDoneKeeps, Zenon DEF Keeps
<1> HIDE DEF u
<1>8. AllTold(u)
  BY <1>7, Zenon DEF Roused, AllTold, Told
<1>9. AllTold(sys')
  BY <1>3, <1>7, <1>8, GoesTold, ZenonT(60)
<1>10. /\ sys'.open = u.open
       /\ \A q \in Pids \ {c} : sys'.prog[q] = u.prog[q]
       /\ \A q : alive(sys', q) <=> alive(u, q)
       /\ \A q \in Pids : sys'.prog[q].screen = u.prog[q].screen
       /\ sys'.prog[c].at = "user"
  BY <1>3, <1>7, GoesOne
<1>11. \A q \in Pids : /\ u.prog[q].screen = sys.prog[q].screen /\ (alive(u, q) <=> alive(sys, q))
                       /\ u.prog[q].at = sys.prog[q].at /\ u.prog[q].scr = sys.prog[q].scr
  BY <1>5, <1>7, ZenonT(60) DEF Alike
<1>12. \A q \in Pids : \A t : On(sys', q, t) <=> On(sys, q, t)
  BY <1>10, <1>11, Zenon DEF On
<1>13. \A q \in Pids \ {c} : sys'.prog[q].at = sys.prog[q].at /\ sys'.prog[q].scr = sys.prog[q].scr
  BY <1>10, <1>11, ZenonT(60)
<1>14. sys'.open = sys.open \ {sys.prog[c].scr}
  BY <1>2, <1>4, <1>7, <1>10, ZenonT(60)
<1>15. Held(sys')
  BY <1>1, <1>10, <1>12, <1>13, <1>14, DropHeld, ZenonT(60)
<1> QED
  BY <1>9, <1>15, Zenon

\* Where the programs are when those of screen `from' moved.
LEMMA MovedOn ==
    ASSUME NEW v, Good(v), NEW from \in Screens, NEW to \in Screens, from # to
    PROVE  LET m == Moved(v, from, to) IN
           /\ m.open = v.open /\ m.owner = v.owner /\ m.prog \in [Pids -> Progs]
           /\ \A p \in Pids :
                /\ alive(m, p) <=> alive(v, p)
                /\ moves(v, p, from) => m.prog[p].screen = to
                /\ ~moves(v, p, from) => m.prog[p].screen = v.prog[p].screen
                /\ m.prog[p].at = v.prog[p].at /\ m.prog[p].scr = v.prog[p].scr
                /\ m.prog[p].to = v.prog[p].to /\ m.prog[p].who = v.prog[p].who
                /\ m.prog[p].woken = v.prog[p].woken
<1> DEFINE g == [p \in Pids |-> IF moves(v, p, from) THEN [v.prog[p] EXCEPT !.screen = to] ELSE v.prog[p]]
           m == Moved(v, from, to)
<1>1. v \in Systems /\ v.prog \in [Pids -> Progs]
  BY Zenon DEF Good, Systems
<1>2. m = [v EXCEPT !.prog = g]
  BY Zenon DEF Moved
<1>3. m.prog = g /\ m.open = v.open /\ m.owner = v.owner
  <2> HIDE DEF g
  <2> QED
    BY <1>1, <1>2, Zenon DEF Systems
<1>4. m \in Systems /\ \A p : alive(m, p) <=> alive(v, p)
  BY MovedPrograms, Zenon
<1> HIDE DEF m
<1>5. m.prog \in [Pids -> Progs]
  BY <1>4, Zenon DEF Systems
<1>6. ASSUME NEW p \in Pids
      PROVE  /\ moves(v, p, from) => m.prog[p].screen = to
             /\ ~moves(v, p, from) => m.prog[p].screen = v.prog[p].screen
             /\ m.prog[p].at = v.prog[p].at /\ m.prog[p].scr = v.prog[p].scr
             /\ m.prog[p].to = v.prog[p].to /\ m.prog[p].who = v.prog[p].who
             /\ m.prog[p].woken = v.prog[p].woken
  <2> DEFINE r == [v.prog[p] EXCEPT !.screen = to]
  <2>1. v.prog[p] \in Progs
    BY <1>1, Zenon
  <2>2. /\ r.screen = to /\ r.at = v.prog[p].at /\ r.scr = v.prog[p].scr
        /\ r.to = v.prog[p].to /\ r.who = v.prog[p].who /\ r.woken = v.prog[p].woken
    BY <2>1, Zenon DEF Progs
  <2>3. m.prog[p] = IF moves(v, p, from) THEN r ELSE v.prog[p]
    BY <1>3, Zenon
  <2> HIDE DEF r
  <2> QED
    BY <2>2, <2>3, Zenon
<1> QED
  BY <1>3, <1>4, <1>5, <1>6, ZenonT(60) DEF m

\* move_programs() moves them, and tells those that read keys; it tells them
\* all if the keys go to another.
LEMMA MoveProgramsMoves ==
    ASSUME NEW v, Good(v), NEW from \in Screens, NEW to \in Screens, from # to
    PROVE  LET u == move_programs(v, from, to) IN
           /\ Alike(Moved(v, from, to), u)
           /\ \/ Roused(u)
              \/ /\ u.owner = v.owner
                 /\ \A p \in Pids : u.prog[p].at = "key" \/ v.prog[p].woken => u.prog[p].woken
<1> DEFINE m == Moved(v, from, to)
           n == [m EXCEPT !.paused[from] = None]
           c == ConsoleOf(v, from)
           u1 == set_input_owner(n, from, c)
           u2 == [n EXCEPT !.prog = Woken(n.prog, {"key"})]
<1>1. m \in Systems /\ m.owner = v.owner /\ m.prog \in [Pids -> Progs]
  BY MovedPrograms, MovedOn, ZenonT(60)
<1>2. \A p \in Pids : m.prog[p].woken = v.prog[p].woken
  BY MovedOn
<1>3. move_programs(v, from, to) = u1 \/ move_programs(v, from, to) = u2
  BY Zenon DEF move_programs
<1> HIDE DEF m
<1>4. n.prog = m.prog /\ n.owner = m.owner /\ DOMAIN n = DOMAIN m
  BY <1>1, Zenon DEF Systems
<1>5. u1.prog = Woken(m.prog, {"input", "key"})
  BY <1>1, <1>4, Zenon DEF set_input_owner, Systems
<1>6. u2.prog = Woken(m.prog, {"key"}) /\ u2.owner = v.owner
  BY <1>1, <1>4, Zenon DEF Systems
<1> HIDE DEF u1, u2, n
<1>7. ASSUME NEW u, NEW Q, u.prog = Woken(m.prog, Q)
      PROVE  Alike(m, u) /\ \A p \in Pids : u.prog[p].at \in Q \/ v.prog[p].woken => u.prog[p].woken
  <2> SUFFICES ASSUME NEW p \in Pids
               PROVE  /\ u.prog[p].screen = m.prog[p].screen /\ u.prog[p].state = m.prog[p].state
                      /\ u.prog[p].at = m.prog[p].at /\ u.prog[p].scr = m.prog[p].scr
                      /\ u.prog[p].to = m.prog[p].to /\ u.prog[p].who = m.prog[p].who
                      /\ u.prog[p].at \in Q \/ v.prog[p].woken => u.prog[p].woken
    BY Zenon DEF Alike, alive
  <2> DEFINE x == Woken(m.prog, Q)[p]
             y == m.prog[p]
  <2>1. /\ x.state = y.state /\ x.screen = y.screen /\ x.at = y.at
        /\ x.scr = y.scr /\ x.to = y.to /\ x.who = y.who
    BY <1>1, WokenTells
  <2>2. (y.at \in Q => x.woken) /\ (y.woken => x.woken)
    BY <1>1, WokenWakes, Zenon
  <2>3. u.prog[p] = x /\ y.woken = v.prog[p].woken
    BY <1>2, <1>7, Zenon
  <2> HIDE DEF x, y
  <2> QED
    BY <2>1, <2>2, <2>3, ZenonT(60) DEF y
<1>8. Alike(m, u1) /\ Roused(u1)
  BY <1>5, <1>7, Zenon DEF Roused
<1>9. Alike(m, u2) /\ u2.owner = v.owner /\ \A p \in Pids : u2.prog[p].at = "key" \/ v.prog[p].woken => u2.prog[p].woken
  BY <1>6, <1>7, Zenon
<1> QED
  BY <1>3, <1>8, <1>9, ZenonT(60) DEF m

\* A reader that was moved has not the keys of the screen it is on now.
LEMMA MovedReader ==
    ASSUME NEW v, Good(v), NEW from, NEW to \in Shown, from # to, NEW q \in Pids, moves(v, q, from)
    PROVE  v.owner[to] # q
<1>1. Served(v, to)
  BY Zenon DEF Good, Screens
<1>2. On(v, q, from)
  BY Zenon DEF moves
<1>3. ~On(v, q, to)
  BY <1>2, Zenon DEF On
<1> QED
  BY <1>1, <1>3, Names, Zenon DEF Served

\* move_programs() from a shown screen leaves no reader in the dark.
LEMMA MoveProgramsTold ==
    ASSUME NEW v, Good(v), AllTold(v), NEW from \in Shown, NEW to \in Screens, from # to
    PROVE  AllTold(move_programs(v, from, to))
<1> DEFINE m == Moved(v, from, to)
           u == move_programs(v, from, to)
<1>1. from \in Screens
  BY Zenon DEF Screens
<1>2. /\ Alike(m, u)
      /\ \/ Roused(u)
         \/ /\ u.owner = v.owner
            /\ \A p \in Pids : u.prog[p].at = "key" \/ v.prog[p].woken => u.prog[p].woken
  BY <1>1, MoveProgramsMoves, ZenonT(60)
<1>3. \A p \in Pids :
        /\ alive(m, p) <=> alive(v, p)
        /\ moves(v, p, from) => m.prog[p].screen = to
        /\ ~moves(v, p, from) => m.prog[p].screen = v.prog[p].screen
        /\ m.prog[p].at = v.prog[p].at
  BY <1>1, MovedOn
<1> HIDE DEF m, u
<1> SUFFICES ASSUME NEW q \in Pids PROVE Told(u, q)
  BY Zenon DEF AllTold, u
<1>4. CASE Roused(u)
  BY <1>4, Zenon DEF Roused, Told
<1>5. CASE ~Roused(u)
  <2>1. u.owner = v.owner /\ (u.prog[q].at = "key" \/ v.prog[q].woken => u.prog[q].woken)
    BY <1>2, <1>5, Zenon
  <2>2. /\ alive(u, q) <=> alive(v, q)
        /\ moves(v, q, from) => u.prog[q].screen = to
        /\ ~moves(v, q, from) => u.prog[q].screen = v.prog[q].screen
        /\ u.prog[q].at = v.prog[q].at
    BY <1>2, <1>3, Zenon DEF Alike
  <2>3. SUFFICES ASSUME alive(u, q), u.prog[q].screen \in Shown, u.prog[q].at = "input", ~u.prog[q].woken
                 PROVE  u.owner[u.prog[q].screen] # q
    BY <2>1, Zenon DEF Told
  <2>4. CASE moves(v, q, from)
    BY <2>1, <2>2, <2>3, <2>4, MovedReader, ZenonT(60)
  <2>5. CASE ~moves(v, q, from)
    BY <2>1, <2>2, <2>3, <2>5, ZenonT(60) DEF AllTold, Told
  <2> QED
    BY <2>4, <2>5, Zenon
<1> QED
  BY <1>4, <1>5, Zenon

\* Where no program is on a hidden screen that was not, or was and is not.
LEMMA SameHeld ==
    ASSUME NEW v, NEW u, Held(v), u.open = v.open,
           \A p \in Pids : \A s \in Hidden : On(u, p, s) <=> On(v, p, s),
           \A p \in Pids : u.prog[p].at = v.prog[p].at /\ u.prog[p].scr = v.prog[p].scr
    PROVE  Held(u)
<1>1. \A p \in Pids : \A s : Claims(u, p, s) <=> Claims(v, p, s)
  BY Zenon DEF Claims
<1> QED
  BY <1>1, Zenon DEF Held

\* fg takes the programs of a hidden screen: it stays in use until it is closed,
\* and the readers among them will be told when fg goes on.
LEMMA FgMovesBoth ==
    ASSUME Good(sys), AllTold(sys), Held(sys), NEW c \in Pids, NEW p \in Pids, NEW from \in Hidden,
           NEW to \in Shown, NEW owner, sys.prog[c].at = "user", moves(sys, p, from),
           sys' = Goes(Moved(sys, from, to), c, "fg", from, to, owner), Good(Moved(sys, from, to))
    PROVE  AllTold(sys') /\ Held(sys')
<1> DEFINE m == Moved(sys, from, to)
<1>1. from \in Screens /\ to \in Screens /\ from # to /\ from \notin Shown /\ to \notin Hidden
  BY Names, Zenon DEF Screens
<1>2. m.open = sys.open /\ m.owner = sys.owner
  BY <1>1, MovedOn, ZenonT(60)
<1>3. \A q \in Pids :
        /\ alive(m, q) <=> alive(sys, q)
        /\ moves(sys, q, from) => m.prog[q].screen = to
        /\ ~moves(sys, q, from) => m.prog[q].screen = sys.prog[q].screen
        /\ m.prog[q].at = sys.prog[q].at /\ m.prog[q].scr = sys.prog[q].scr
        /\ m.prog[q].to = sys.prog[q].to /\ m.prog[q].who = sys.prog[q].who
        /\ m.prog[q].woken = sys.prog[q].woken
  BY <1>1, MovedOn
<1>4. /\ sys'.open = m.open /\ sys'.owner = m.owner
      /\ \A q \in Pids \ {c} : sys'.prog[q] = m.prog[q]
      /\ \A q : alive(sys', q) <=> alive(m, q)
      /\ \A q \in Pids : sys'.prog[q].screen = m.prog[q].screen
      /\ sys'.prog[c].at = "fg" /\ sys'.prog[c].scr = from /\ sys'.prog[c].to = to
  BY GoesOne
<1> HIDE DEF m
<1>5. ASSUME NEW q \in Pids PROVE Told(sys', q)
  <2>1. CASE q = c
    BY <1>4, <2>1, Zenon DEF Told
  <2>2. CASE q # c
    <3>1. sys'.prog[q] = m.prog[q] /\ sys'.owner = sys.owner /\ (alive(sys', q) <=> alive(sys, q))
      BY <1>2, <1>3, <1>4, <2>2, ZenonT(60)
    <3>2. CASE moves(sys, q, from)
      <4>1. sys'.prog[q].screen = to /\ sys'.owner[to] # q
        <5>1. sys.owner[to] # q
          BY <1>1, <3>2, MovedReader, Zenon
        <5> QED
          BY <1>3, <3>1, <3>2, <5>1, ZenonT(60)
      <4>2. Bringing(sys', q, to)
        BY <1>4, Zenon DEF Bringing
      <4> QED
        BY <4>1, <4>2, Zenon DEF Told
    <3>3. CASE ~moves(sys, q, from)
      <4>1. /\ sys'.prog[q].screen = sys.prog[q].screen /\ sys'.prog[q].at = sys.prog[q].at
            /\ sys'.prog[q].scr = sys.prog[q].scr /\ sys'.prog[q].woken = sys.prog[q].woken
        BY <1>3, <3>1, <3>3, Zenon
      <4>2. ASSUME NEW s, Bringing(sys, q, s) PROVE Bringing(sys', q, s)
        <5>1. PICK d \in Pids : sys.prog[d].at = "fg" /\ (sys.prog[d].who = q \/ sys.prog[d].to = s)
          BY <4>2, Zenon DEF Bringing
        <5>2. d # c
          BY <5>1, Zenon
        <5>3. sys'.prog[d].at = "fg" /\ sys'.prog[d].who = sys.prog[d].who /\ sys'.prog[d].to = sys.prog[d].to
          BY <1>3, <1>4, <5>1, <5>2, ZenonT(60)
        <5> QED
          BY <5>1, <5>3, Zenon DEF Bringing
      <4>3. Told(sys, q)
        BY Zenon DEF AllTold
      <4> QED
        BY <3>1, <4>1, <4>2, <4>3, ZenonT(60) DEF Told
    <3> QED
      BY <3>2, <3>3, Zenon
  <2> QED
    BY <2>1, <2>2, Zenon
<1>6. \A q \in Pids : On(sys, q, from) <=> moves(sys, q, from)
  <2>1. sys.console[from] \in {None, Failed}
    BY <1>1, Zenon DEF Good, Served
  <2> QED
    BY <2>1, Names, Zenon DEF moves
<1>7. \A q \in Pids : ~On(sys', q, from)
  <2> SUFFICES ASSUME NEW q \in Pids, On(sys', q, from) PROVE FALSE
    BY Zenon
  <2>1. (alive(sys', q) <=> alive(sys, q)) /\ sys'.prog[q].screen = m.prog[q].screen
    BY <1>3, <1>4, Zenon
  <2>2. ~moves(sys, q, from)
    BY <1>1, <1>3, <2>1, ZenonT(60) DEF On
  <2>3. On(sys, q, from)
    BY <1>3, <2>1, <2>2, ZenonT(60) DEF On
  <2> QED
    BY <1>6, <2>2, <2>3, ZenonT(60)
<1>8. \A q \in Pids : \A s \in Hidden \ {from} : On(sys', q, s) <=> On(sys, q, s)
  <2> TAKE q \in Pids
  <2> TAKE s \in Hidden \ {from}
  <2>1. (alive(sys', q) <=> alive(sys, q)) /\ sys'.prog[q].screen = m.prog[q].screen
    BY <1>3, <1>4, Zenon
  <2>2. CASE moves(sys, q, from)
    <3>1. m.prog[q].screen = to /\ sys.prog[q].screen = from /\ s # to /\ s # from
      BY <1>1, <1>3, <2>2, ZenonT(60) DEF moves, On
    <3> QED
      BY <2>1, <3>1, Zenon DEF On
  <2>3. CASE ~moves(sys, q, from)
    BY <1>3, <2>1, <2>3, ZenonT(60) DEF On
  <2> QED
    BY <2>2, <2>3, Zenon
<1>9. \A q \in Pids \ {c} : \A s : Claims(sys', q, s) <=> Claims(sys, q, s)
  <2> TAKE q \in Pids \ {c}
  <2>1. sys'.prog[q].at = sys.prog[q].at /\ sys'.prog[q].scr = sys.prog[q].scr
    BY <1>3, <1>4, ZenonT(60)
  <2> QED
    BY <2>1, Zenon DEF Claims
<1>10. \A s : (Claims(sys', c, s) <=> s = from) /\ ~Claims(sys, c, s)
  BY <1>4, Zenon DEF Claims
<1>11. Held(sys')
  <2> SUFFICES ASSUME NEW t \in Hidden
               PROVE  /\ t \in sys'.open <=> \E q \in Pids : On(sys', q, t) \/ Claims(sys', q, t)
                      /\ \A q, r \in Pids : Claims(sys', q, t) => ~On(sys', r, t) /\ (Claims(sys', r, t) => r = q)
    BY Zenon DEF Held
  <2>1. /\ t \in sys.open <=> \E q \in Pids : On(sys, q, t) \/ Claims(sys, q, t)
        /\ \A q, r \in Pids : Claims(sys, q, t) => ~On(sys, r, t) /\ (Claims(sys, r, t) => r = q)
    BY Zenon DEF Held
  <2>2. t \in sys'.open <=> t \in sys.open
    BY <1>2, <1>4, Zenon
  <2>3. CASE t = from
    <3>1. On(sys, p, t)
      BY <2>3, Zenon DEF moves
    <3>2. t \in sys.open /\ \A q \in Pids : ~Claims(sys, q, t)
      BY <2>1, <3>1, Zenon
    <3>3. Claims(sys', c, t) /\ \A q \in Pids : Claims(sys', q, t) => q = c
      BY <1>9, <1>10, <2>3, <3>2, ZenonT(60)
    <3> QED
      BY <1>7, <2>2, <2>3, <3>2, <3>3, Zenon
  <2>4. CASE t # from
    <3>1. \A q \in Pids : (Claims(sys', q, t) <=> Claims(sys, q, t)) /\ (On(sys', q, t) <=> On(sys, q, t))
      BY <1>8, <1>9, <1>10, <2>4, ZenonT(60)
    <3> QED
      BY <2>1, <2>2, <3>1, Zenon
  <2> QED
    BY <2>3, <2>4, Zenon
<1> QED
  BY <1>5, <1>11, Zenon DEF AllTold

\* move_to_foreground().
LEMMA ForegroundBoth ==
    ASSUME Good(sys), AllTold(sys), Held(sys), ~FgDisturbed, NEW c \in Pids, NEW p \in Pids, Foreground(c, p)
    PROVE  AllTold(sys') /\ Held(sys')
<1> DEFINE from == sys.prog[p].screen
           to == sys.prog[c].screen
           had == IF from # to THEN HadKeys(sys, from)
                  ELSE IF moves(sys, sys.paused[to], to) THEN sys.paused[to] ELSE None
           owner == IF had = None THEN p ELSE had
<1>1. alive(sys, p) /\ from \in Screens /\ to \in Shown /\ to \in Screens /\ sys.prog[c].at = "user"
  BY ZenonT(60) DEF Foreground, Calls, Good, Placed, Screens
<1>2. moves(sys, p, from) /\ Steady(p, from)
  BY <1>1, ZenonT(60) DEF Foreground, moves, On
<1>3. \A b \in Pids : sys.prog[b].at = "fg" => sys.prog[b].to # from
  BY <1>2, SteadyMeans, Zenon
<1>4. moves(sys, owner, from) /\ owner \in Pids
  <2>1. had = None \/ (had \in Pids /\ moves(sys, had, from))
    BY HadKeysMoves, Zenon DEF moves, On, alive
  <2> HIDE DEF had
  <2> QED
    BY <1>2, <2>1, Zenon
<1>5. \/ from = to /\ sys' = FgDone([sys EXCEPT !.paused[to] = None], c, to, owner)
      \/ from \in Shown \ {to} /\ sys' = FgDone(move_programs(sys, from, to), c, to, owner)
      \/ from \in Hidden /\ sys' = Goes(Moved(sys, from, to), c, "fg", from, to, owner)
  BY Zenon DEF Foreground
<1> HIDE DEF from, to, had, owner
<1>6. CASE from = to /\ sys' = FgDone([sys EXCEPT !.paused[to] = None], c, to, owner)
  <2> DEFINE v == [sys EXCEPT !.paused[to] = None]
  <2>1. Good(v) /\ Keeps(sys, v) /\ v.open = sys.open
    BY PausedKeeps, Zenon DEF Some
  <2> HIDE DEF v
  <2>2. On(v, owner, to)
    BY <1>4, <1>6, <2>1, Zenon DEF moves, Keeps, Alike, On
  <2>3. sys' = FgDone(v, c, to, owner)
    BY <1>6, Zenon DEF v
  <2>4. Keeps(v, sys') /\ sys'.open = v.open
    BY <1>1, <2>1, <2>2, <2>3, FgDoneKeeps, ZenonT(60)
  <2> QED
    BY <2>1, <2>4, KeepsBoth, Zenon
<1>7. CASE from \in Shown \ {to} /\ sys' = FgDone(move_programs(sys, from, to), c, to, owner)
  <2> DEFINE v == move_programs(sys, from, to)
             m == Moved(sys, from, to)
  <2>1. Good(v) /\ v.open = sys.open /\ On(v, owner, to)
    BY <1>1, <1>3, <1>4, <1>7, MoveProgramsGood, ZenonT(60)
  <2>2. AllTold(v)
    BY <1>1, <1>7, MoveProgramsTold, Zenon
  <2>3. Alike(m, v)
    BY <1>1, <1>7, MoveProgramsMoves, ZenonT(60)
  <2>4. \A q \in Pids :
          /\ alive(m, q) <=> alive(sys, q)
          /\ moves(sys, q, from) => m.prog[q].screen = to
          /\ ~moves(sys, q, from) => m.prog[q].screen = sys.prog[q].screen
          /\ m.prog[q].at = sys.prog[q].at /\ m.prog[q].scr = sys.prog[q].scr
    BY <1>1, <1>7, MovedOn
  <2> HIDE DEF v, m
  <2>5. \A q \in Pids : v.prog[q].at = sys.prog[q].at /\ v.prog[q].scr = sys.prog[q].scr
    BY <2>3, <2>4, Zenon DEF Alike
  <2>6. \A q \in Pids : \A s \in Hidden : On(v, q, s) <=> On(sys, q, s)
    <3> TAKE q \in Pids
    <3> TAKE s \in Hidden
    <3>1. (alive(v, q) <=> alive(sys, q)) /\ v.prog[q].screen = m.prog[q].screen
      BY <2>3, <2>4, Zenon DEF Alike
    <3>2. s # from /\ s # to
      BY <1>1, <1>7, Names, Zenon
    <3>3. CASE moves(sys, q, from)
      <4>1. m.prog[q].screen = to /\ sys.prog[q].screen = from
        BY <2>4, <3>3, Zenon DEF moves, On
      <4> QED
        BY <3>1, <3>2, <4>1, ZenonT(60) DEF On
    <3>4. CASE ~moves(sys, q, from)
      BY <2>4, <3>1, <3>4, ZenonT(60) DEF On
    <3> QED
      BY <3>3, <3>4, Zenon
  <2>7. Held(v)
    BY <2>1, <2>5, <2>6, SameHeld, ZenonT(60)
  <2>8. sys' = FgDone(v, c, to, owner)
    BY <1>7, Zenon DEF v
  <2>9. Keeps(v, sys') /\ sys'.open = v.open
    BY <1>1, <2>1, <2>8, FgDoneKeeps, ZenonT(60)
  <2> QED
    BY <2>2, <2>7, <2>9, KeepsBoth, Zenon
<1>8. CASE from \in Hidden /\ sys' = Goes(Moved(sys, from, to), c, "fg", from, to, owner)
  <2> DEFINE v == Moved(sys, from, to)
  <2>1. from # to /\ from \notin Shown
    BY <1>1, <1>8, Names, ZenonT(60)
  <2>2. /\ v \in Systems /\ v.owner = sys.owner /\ v.console = sys.console
        /\ v.fault = sys.fault /\ v.keeper = sys.keeper /\ v.loading = sys.loading
    BY <1>1, MovedPrograms
  <2>3. Alike(v, v) /\ ~v.fault
    BY <2>2, Zenon DEF Alike, Good
  <2>4. Good(v)
    <3> HIDE DEF v
    <3>1. Alike(Moved(sys, from, to), v)
      BY <2>3, Zenon DEF v
    <3> QED
      BY <1>1, <1>3, <2>1, <2>2, <2>3, <3>1, MovedGood, ZenonT(60)
  <2> QED
    BY <1>1, <1>2, <1>8, <2>4, FgMovesBoth, ZenonT(60)
<1> QED
  BY <1>5, <1>6, <1>7, <1>8, ZenonT(60)

\* move_to_background() takes a hidden screen that is free, and moves at least
\* one program there.
LEMMA BackgroundBoth ==
    ASSUME Good(sys), AllTold(sys), Held(sys), ~FgDisturbed, NEW c \in Pids, NEW p \in Pids, Background(c, p)
    PROVE  AllTold(sys') /\ Held(sys')
<1> DEFINE from == sys.prog[p].screen
           had == HadKeys(sys, from)
<1>1. alive(sys, p) /\ from \in Screens /\ Steady(p, from) /\ sys.prog[c].at = "user" /\ moves(sys, p, from)
  BY Zenon DEF Background, Calls, Good, Placed, moves, On
<1>2. \A b \in Pids : sys.prog[b].at = "fg" => sys.prog[b].to # from
  BY <1>1, SteadyMeans, Zenon
<1>3. \/ sys' = Put(sys, from, "Live")
      \/ from \in Shown /\ \E s \in Hidden \ sys.open :
            sys' = Goes([move_programs(sys, from, s) EXCEPT !.open = @ \cup {s}], c, "log", s, None, had)
  BY Zenon DEF Background
<1> HIDE DEF from, had
<1>4. CASE sys' = Put(sys, from, "Live")
  BY <1>4, PutKeeps, KeepsBoth, ZenonT(60)
<1>5. ASSUME from \in Shown, NEW s \in Hidden \ sys.open,
             sys' = Goes([move_programs(sys, from, s) EXCEPT !.open = @ \cup {s}], c, "log", s, None, had)
      PROVE  AllTold(sys') /\ Held(sys')
  <2> DEFINE v == move_programs(sys, from, s)
             m == Moved(sys, from, s)
             o == v.open \cup {s}
             u == [v EXCEPT !.open = o]
  <2>1. s # from /\ s \in Screens /\ s \in Hidden /\ s \notin sys.open
    BY <1>5, Names, Zenon DEF Screens
  <2>2. Good(v) /\ v.open = sys.open
    BY <1>2, <1>5, <2>1, MoveProgramsGood, ZenonT(60)
  <2>3. AllTold(v)
    BY <1>5, <2>1, MoveProgramsTold, ZenonT(60)
  <2>4. Alike(m, v)
    BY <1>1, <2>1, MoveProgramsMoves, ZenonT(60)
  <2>5. \A q \in Pids :
          /\ alive(m, q) <=> alive(sys, q)
          /\ moves(sys, q, from) => m.prog[q].screen = s
          /\ ~moves(sys, q, from) => m.prog[q].screen = sys.prog[q].screen
          /\ m.prog[q].at = sys.prog[q].at /\ m.prog[q].scr = sys.prog[q].scr
    BY <1>1, <2>1, MovedOn
  <2>6. sys' = Goes(u, c, "log", s, None, had)
    BY <1>5, Zenon
  <2> HIDE DEF v, m
  <2>7. o \in SUBSET Hidden
    BY <2>1, <2>2, ZenonT(60) DEF Good, Systems
  <2>8. Good(u) /\ Alike(v, u)
    BY <2>2, <2>7, OpenGood, ZenonT(60)
  <2>9. u.prog = v.prog /\ u.owner = v.owner /\ u.open = sys.open \cup {s}
    BY <2>2, Zenon DEF Good, Systems
  <2> HIDE DEF u, o
  <2>10. AllTold(u)
    <3>1. Keeps(v, u)
      BY <2>8, <2>9, Zenon DEF Keeps
    <3> QED
      BY <2>3, <3>1, KeepsTold, ZenonT(60)
  <2>11. \A q \in Pids : /\ u.prog[q].at = sys.prog[q].at /\ u.prog[q].scr = sys.prog[q].scr
                         /\ u.prog[q].screen = m.prog[q].screen /\ (alive(u, q) <=> alive(sys, q))
    BY <2>4, <2>5, <2>8, ZenonT(60) DEF Alike
  <2>12. On(u, p, s)
    BY <1>1, <2>5, <2>11, Zenon DEF On
  <2>13. \A q \in Pids : \A t \in Hidden \ {s} : On(u, q, t) <=> On(sys, q, t)
    <3> TAKE q \in Pids
    <3> TAKE t \in Hidden \ {s}
    <3>1. t # from
      BY <1>5, Names, Zenon
    <3>2. CASE moves(sys, q, from)
      <4>1. u.prog[q].screen = s /\ sys.prog[q].screen = from
        BY <2>5, <2>11, <3>2, ZenonT(60) DEF moves, On
      <4> QED
        BY <3>1, <4>1, Zenon DEF On
    <3>3. CASE ~moves(sys, q, from)
      BY <2>5, <2>11, <3>3, ZenonT(60) DEF On
    <3> QED
      BY <3>2, <3>3, Zenon
  <2>14. \A q \in Pids : \A t : Claims(u, q, t) <=> Claims(sys, q, t)
    BY <2>11, Zenon DEF Claims
  <2>15. Held(u)
    <3> SUFFICES ASSUME NEW t \in Hidden
                 PROVE  /\ t \in u.open <=> \E q \in Pids : On(u, q, t) \/ Claims(u, q, t)
                        /\ \A q, r \in Pids : Claims(u, q, t) => ~On(u, r, t) /\ (Claims(u, r, t) => r = q)
      BY Zenon DEF Held
    <3>1. /\ t \in sys.open <=> \E q \in Pids : On(sys, q, t) \/ Claims(sys, q, t)
          /\ \A q, r \in Pids : Claims(sys, q, t) => ~On(sys, r, t) /\ (Claims(sys, r, t) => r = q)
      BY Zenon DEF Held
    <3>2. CASE t = s
      <4>1. \A q \in Pids : ~Claims(u, q, t)
        BY <2>1, <2>14, <3>1, <3>2, ZenonT(60)
      <4> QED
        BY <2>9, <2>12, <3>2, <4>1, ZenonT(60)
    <3>3. CASE t # s
      <4>1. t \in u.open <=> t \in sys.open
        BY <2>9, <3>3, Zenon
      <4>2. \A q \in Pids : (On(u, q, t) <=> On(sys, q, t)) /\ (Claims(u, q, t) <=> Claims(sys, q, t))
        BY <2>13, <2>14, <3>3, ZenonT(60)
      <4> QED
        BY <3>1, <4>1, <4>2, ZenonT(60)
    <3> QED
      BY <3>2, <3>3, Zenon
  <2>16. u.prog[c].at = "user"
    BY <1>1, <2>11, Zenon
  <2> QED
    BY <2>6, <2>8, <2>10, <2>15, <2>16, GoesTold, GoesHeld, ZenonT(60)
<1> QED
  BY <1>3, <1>4, <1>5, ZenonT(60)
-----------------------------------------------------------------------------
(* The readers and the hidden screens, as invariants.                      *)

ReadersInv == ConsoleInv /\ AllTold(sys) /\ Held(sys)

\* Every step keeps both.
LEMMA StepBoth ==
    ASSUME ~FgDisturbed, ReadersInv, [Next]_sys
    PROVE  AllTold(sys') /\ Held(sys')
<1>0. Good(sys) /\ AllTold(sys) /\ Held(sys)
  BY Zenon DEF ReadersInv, ConsoleInv
<1>1. CASE KeeperStep
  BY <1>0, <1>1, KeeperLooksBoth, StartCmdBoth, ZenonT(60) DEF KeeperStep
<1>2. ASSUME NEW s \in Shown, Key(s) PROVE AllTold(sys') /\ Held(sys')
  <2>1. Keeps(sys, sys') /\ sys'.open = sys.open
    BY <1>0, <1>2, WakeKeeps, Zenon DEF Key
  <2> QED
    BY <1>0, <2>1, KeepsBoth, Zenon
<1>3. ASSUME NEW s \in Shown, choose_next(None, s, None) \/ choose_next(None, None, s)
      PROVE  AllTold(sys') /\ Held(sys')
  BY <1>0, <1>3, ChooseNextBoth, Zenon
<1>4. ASSUME NEW p \in Pids, choose_next(p, None, None) PROVE AllTold(sys') /\ Held(sys')
  BY <1>0, <1>4, ChooseNextBoth, ZenonT(60)
<1>5. ASSUME NEW p \in Pids, Exit(p) PROVE AllTold(sys') /\ Held(sys')
  <2>1. /\ alive(sys, p) /\ sys.prog[p].at = "user" /\ Steady(p, None) /\ sys' = terminate(sys, p)
    BY <1>5, Zenon DEF Exit, Calls, alive
  <2>2. Unbrought(sys, p) /\ sys.prog[p].at \notin {"start", "log", "fg"}
    BY <2>1, SteadyMeans, Zenon
  <2> QED
    BY <1>0, <2>1, <2>2, TerminateBoth, ZenonT(60)
<1>6. ASSUME NEW p \in Pids, StartCall(p) \/ StartDone(p) \/ next_key(p) PROVE AllTold(sys') /\ Held(sys')
  BY <1>0, <1>6, StartCallBoth, StartDoneBoth, NextKeyBoth, ZenonT(60)
<1>7. ASSUME NEW p \in Pids, LogDone(p) \/ ForegroundDone(p) PROVE AllTold(sys') /\ Held(sys')
  BY <1>0, <1>7, LogDoneBoth, ForegroundDoneBoth, ZenonT(60)
<1>8. ASSUME NEW c \in Pids, NEW p \in Pids, Foreground(c, p) \/ Background(c, p) \/ end_program(c, p)
      PROVE  AllTold(sys') /\ Held(sys')
  BY <1>0, <1>8, ForegroundBoth, BackgroundBoth, EndProgramBoth, ZenonT(60)
<1>9. CASE UNCHANGED sys
  BY <1>0, <1>9, Zenon
<1> QED
  BY <1>1, <1>2, <1>3, <1>4, <1>5, <1>6, <1>7, <1>8, <1>9, ZenonT(60) DEF Next

\* At the start nobody reads, and no hidden screen is in use.
LEMMA InitBoth ==
    ASSUME Init
    PROVE  AllTold(sys) /\ Held(sys)
<1>1. \A p \in Pids : sys.prog[p] = NoProg
  BY DEF Init
<1>2. sys.open = {}
  BY DEF Init
<1>3. NoProg.state = "Unused" /\ NoProg.at = "user"
  BY Zenon DEF NoProg
<1>4. \A p \in Pids : ~alive(sys, p)
  BY <1>1, <1>3, Zenon DEF alive
<1>5. AllTold(sys)
  BY <1>4, Zenon DEF AllTold, Told
<1>6. \A p \in Pids : \A s : ~On(sys, p, s) /\ ~Claims(sys, p, s)
  BY <1>1, <1>3, <1>4, ZenonT(60) DEF On, Claims
<1>7. Held(sys)
  BY <1>2, <1>6, Zenon DEF Held
<1> QED
  BY <1>5, <1>7, Zenon

(***************************************************************************)
(* Undisturbed, both hold in every state, for every set of screens and of  *)
(* programs.                                                               *)
(***************************************************************************)
THEOREM ReadersInvariant ==
    ASSUME ~FgDisturbed
    PROVE  Spec => []ReadersInv
<1>1. Init => ReadersInv
  BY InitGood, InitBoth, Zenon DEF ReadersInv
<1>2. ReadersInv /\ [Next]_sys => ReadersInv'
  <2> SUFFICES ASSUME ReadersInv, [Next]_sys PROVE ReadersInv'
    BY Zenon
  <2>1. ConsoleInv'
    BY StepGood, Zenon DEF ReadersInv
  <2>2. AllTold(sys') /\ Held(sys')
    BY StepBoth, Zenon
  <2> QED
    BY <2>1, <2>2, Zenon DEF ReadersInv
<1> QED
  BY <1>1, <1>2, PTL DEF Spec

(***************************************************************************)
(* A hidden screen is in use exactly while a program runs on it, or Start  *)
(* or fg, asleep, has yet to finish with it.                               *)
(***************************************************************************)
THEOREM HiddenScreensAreAccounted ==
    ASSUME ~FgDisturbed
    PROVE  Spec => []HiddenInUse
<1>1. ReadersInv => HiddenInUse
  BY Zenon DEF ReadersInv, Held, HiddenInUse, Claims
<1> QED
  BY <1>1, ReadersInvariant, PTL

(***************************************************************************)
(* A program asleep in ReadLine or ReadKey is told what concerns it.       *)
(***************************************************************************)
THEOREM ReadersHearOfTheirKeys ==
    ASSUME ~FgDisturbed
    PROVE  Spec => []ReadersAreTold
<1>1. ReadersInv => ReadersAreTold
  BY Zenon DEF ReadersInv, AllTold, Told, ReadersAreTold
<1> QED
  BY <1>1, ReadersInvariant, PTL
=============================================================================
