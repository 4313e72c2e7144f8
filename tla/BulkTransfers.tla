--------------------------- MODULE BulkTransfers ---------------------------
(***************************************************************************)
(* The two bulk endpoints of a disk on an xHCI controller                  *)
(* (drivers/usb/xhci.cpp, drivers/usb/usb.cpp): the transfers the kernel   *)
(* put on their rings, the controller that runs them against the device,   *)
(* and the events that say how they ended.                                 *)
(*                                                                         *)
(* A transfer is known by the buffer it moves: the command block, the data *)
(* or the status block. A ring keeps no more than the outcome of the last  *)
(* event it was given: the kernel does not look at which of its transfers  *)
(* an event is for.                                                        *)
(***************************************************************************)
EXTENDS Integers, Sequences

Ends == {"in", "out"}
Directions == Ends \cup {"none"}

VARIABLES
    ring,       \* ring[e]: completion code of the transfer, "none" while not done
    queue,      \* queue[e]: transfers the controller has yet to run, oldest first
    halted,     \* halted[e]: the endpoint waits for Reset Endpoint
    event,      \* event[e]: the last event for e on the event ring, or "none"
    unit,       \* the device: stage of a command, its direction, and which it is
    block,      \* the command block in memory: its direction
    moved,      \* whose data the data phase moved
    csw         \* the status block in memory: whose, and its status

transferVars == <<ring, queue, halted, event, unit, block, moved, csw>>

None == [e \in Ends |-> "none"]
Fresh == [stage |-> "command", dir |-> "none", of |-> "old"]
Blank == [of |-> "nobody", status |-> 0]

TransfersInit ==
    /\ ring = None /\ event = None
    /\ queue = [e \in Ends |-> <<>>]
    /\ halted = [e \in Ends |-> FALSE]
    /\ unit = Fresh
    /\ block = "none" /\ moved = "nobody" /\ csw = Blank
-----------------------------------------------------------------------------
\* process_events(): every transfer event goes to the ring of its endpoint.
on_transfer_event == [e \in Ends |-> IF event[e] # "none" THEN event[e] ELSE ring[e]]

\* normal_start(): forget how the last transfer of the ring ended, then
\* queue this one.
normal_start(e, what) ==
    /\ ring' = [ring EXCEPT ![e] = "none"]
    /\ queue' = [queue EXCEPT ![e] = Append(@, what)]

\* reset_endpoint(): stopped, an endpoint running a transfer says so in an
\* event; its dequeue pointer moves past everything queued. Both commands
\* are waited for, and that event is delivered meanwhile.
reset_endpoint(e) ==
    /\ ring' = IF queue[e] # <<>> /\ ~halted[e] THEN [ring EXCEPT ![e] = "stopped"]
                                              ELSE ring
    /\ queue' = [queue EXCEPT ![e] = <<>>]
    /\ halted' = [halted EXCEPT ![e] = FALSE]
-----------------------------------------------------------------------------
\* The controller and the device. `Runs(e)': the controller runs the oldest
\* transfer of the endpoint, and the device answers it.
Runs(e) == queue[e] # <<>> /\ ~halted[e]
Retire(e, cc) ==
    /\ queue' = [queue EXCEPT ![e] = Tail(@)]
    /\ event' = [event EXCEPT ![e] = cc]

\* The device takes a command block: whatever is in memory now. It may
\* refuse the command and skip the data phase.
TakesCommand ==
    /\ Runs("out") /\ unit.stage = "command" /\ Head(queue["out"]) = "cbw"
    /\ Retire("out", "success")
    /\ \E stage \in {"data", "status"} :
         /\ block = "none" => stage = "status"
         /\ unit' = [stage |-> stage, dir |-> block, of |-> "this"]
    /\ UNCHANGED <<ring, halted, block, moved, csw>>

\* It moves its data, into or out of the buffer of whatever is queued.
MovesData ==
    /\ unit.stage = "data" /\ Runs(unit.dir)
    /\ Retire(unit.dir, "success")
    /\ unit' = [unit EXCEPT !.stage = "status"]
    /\ LET what == Head(queue[unit.dir]) IN
         /\ moved' = IF what = "data" THEN unit.of ELSE moved
         /\ csw' = IF what = "csw" THEN [of |-> "junk", status |-> 0] ELSE csw
    /\ UNCHANGED <<ring, halted, block>>

\* It says how the command went: done, failed, or a phase error.
SendsStatus ==
    /\ unit.stage = "status" /\ Runs("in")
    /\ Retire("in", "success")
    /\ unit' = Fresh
    /\ IF Head(queue["in"]) = "csw"
         THEN \E s \in 0 .. 2 : csw' = [of |-> unit.of, status |-> s] /\ UNCHANGED moved
         ELSE moved' = "junk" /\ UNCHANGED csw
    /\ UNCHANGED <<ring, halted, block>>

\* It stalls, or the transfer fails on the wire: the endpoint halts. A data
\* phase ended so is followed by the status.
Halts ==
    \E e \in Ends, cc \in {"stall", "error"} :
        /\ Runs(e)
        /\ Retire(e, cc)
        /\ halted' = [halted EXCEPT ![e] = TRUE]
        /\ unit' = IF unit.stage = "data" /\ unit.dir = e
                     THEN [unit EXCEPT !.stage = "status"] ELSE unit
        /\ moved' = IF Head(queue[e]) = "data" /\ unit.of = "this" THEN "cut" ELSE moved
        /\ UNCHANGED <<ring, block, csw>>

Device == TakesCommand \/ MovesData \/ SendsStatus \/ Halts
=============================================================================
