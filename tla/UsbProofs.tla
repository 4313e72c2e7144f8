----------------------------- MODULE UsbProofs -----------------------------
(***************************************************************************)
(* No device that left its port is forgotten, however many are plugged in  *)
(* and whatever the device and the commands do meanwhile; and a command    *)
(* that succeeded was answered for itself, as long as the device answers   *)
(* control requests and is quiet while it is reset.                        *)
(***************************************************************************)
EXTENDS UsbHotplug, TLAPS

Attaching == {"debounces", "resets", "resetting", "reset", "cleared", "addresses"}
Places == Attaching \cup {"waits", "queued", "looks", "took", "describes", "probes"}

(***************************************************************************)
(* The inductive invariant. NoStaleDevice alone does not survive           *)
(* reset_port, which clears CSC unread: what saves it is that the port has *)
(* no device from the debounce to Address Device.                          *)
(***************************************************************************)
PortInv ==
    /\ dev \in [of : Nat, gone : BOOLEAN, driver : BOOLEAN]
    /\ plug \in Nat /\ plugs \in Nat
    /\ usb \in Places
    /\ usb \in Attaching => dev.of = 0
    /\ NoStaleDevice

\* What a step that leaves the port alone has to show.
Steady ==
    /\ UNCHANGED <<plug, plugs, csc, enabled>>
    /\ dev' \in [of : Nat, gone : BOOLEAN, driver : BOOLEAN] /\ dev'.of = dev.of
    /\ usb' = usb
    /\ notice \/ changed => notice' \/ changed'

\* A step that is steady keeps the invariant.
LEMMA SteadyKeeps == PortInv /\ Steady => PortInv'
BY DEF PortInv, Steady, NoStaleDevice, Attaching, Places

\* not_ended changes no more of the device than whether it is gone.
LEMMA NotEndedKeeps ==
    ASSUME PortInv
    PROVE  /\ not_ended \in [of : Nat, gone : BOOLEAN, driver : BOOLEAN]
           /\ not_ended.of = dev.of
BY Zenon DEF PortInv, not_ended

\* A step of a command leaves the port alone, and the device in its place.
LEMMA CommandIsSteady == PortInv /\ CommandStep => Steady
<1> SUFFICES ASSUME PortInv, CommandStep PROVE Steady
  OBVIOUS
<1>1. UNCHANGED <<plugs, csc, enabled, notice, changed, usb>>
  BY DEF CommandStep
<1>2. plug' = plug /\ dev' \in {dev, not_ended}
  <2>1. CASE Ended
    BY <2>1 DEF Ended, SendData, AskStatus, Judge
  <2>2. CASE NotEnded
    BY <2>2 DEF NotEnded
  <2>3. CASE ClearHalt
    BY <2>3 DEF ClearHalt, clear_halt
  <2>4. CASE AfterClear
    BY <2>4 DEF AfterClear, AskStatus
  <2>5. CASE reset_recovery
    BY <2>5, Zenon DEF reset_recovery, ResetDevice, RecoverHalt, clear_halt
  <2> QED
    BY <2>1, <2>2, <2>3, <2>4, <2>5 DEF CommandStep, Command
<1> QED
  BY <1>1, <1>2, NotEndedKeeps DEF Steady, PortInv

\* So do the requests of other processes, the device's transfers and the
\* delivery of events.
LEMMA OthersAreSteady ==
    PortInv /\ (Transfer \/ process_events \/ Request \/ Requested) => Steady
<1> SUFFICES ASSUME PortInv, Transfer \/ process_events \/ Request \/ Requested
             PROVE  Steady
  OBVIOUS
<1>1. CASE Transfer
  BY <1>1, Zenon DEF Transfer, portVars, Steady, PortInv
<1>2. CASE process_events
  BY <1>2, Zenon DEF process_events, noted, Steady, PortInv
<1>3. CASE Request
  BY <1>3 DEF Request, SendCommand, portVars, Steady, PortInv
<1>4. CASE Requested
  BY <1>4 DEF Requested, portVars, Steady, PortInv
<1> QED
  BY <1>1, <1>2, <1>3, <1>4

\* Every step of the usb process keeps the invariant.
LEMMA UsbKeeps == PortInv /\ UsbProcess => PortInv'
<1> SUFFICES ASSUME PortInv, UsbProcess PROVE PortInv'
  OBVIOUS
<1> USE DEF PortInv, NoStaleDevice, Attaching, Places
<1>1. CASE Wake \/ Lock \/ take_port_change \/ Unlock
  BY <1>1 DEF Wake, Lock, take_port_change, Unlock, At, portVars
<1>2. CASE port_changed
  <2>1. CASE left
    <3>1. dev' = NoDevice /\ dev'.of = 0 /\ usb' \in {"looks", "debounces"}
      BY <1>2, <2>1 DEF port_changed, detach, NoDevice
    <3>2. plug' = plug /\ plugs' = plugs
      BY <1>2 DEF port_changed
    <3> QED
      BY <3>1, <3>2 DEF NoDevice
  <2>2. CASE ~left
    BY <1>2, <2>2 DEF port_changed, left
  <2> QED
    BY <2>1, <2>2
<1>3. CASE Debounced \/ ResetChecked
  BY <1>3 DEF Debounced, ResetChecked, portVars
<1>4. CASE ResetStart \/ ResetCleared
  BY <1>4 DEF ResetStart, ResetCleared, At
<1>5. CASE ResetDone
  BY <1>5 DEF ResetDone
<1>6. CASE address_device
  BY <1>6, Zenon DEF address_device, portVars, NoDevice
<1>7. CASE read_descriptors
  <2>1. /\ dev' \in {dev, not_ended} /\ usb' \in {"probes", "looks"}
        /\ UNCHANGED portVars
    BY <1>7 DEF read_descriptors, At, SendCommand
  <2> QED
    BY <1>7, <2>1, NotEndedKeeps DEF read_descriptors, portVars
<1>8. CASE Probed
  <2>1. /\ dev' \in {dev, [dev EXCEPT !.driver = TRUE]} /\ usb' \in {"probes", "looks"}
        /\ UNCHANGED portVars
    BY <1>8 DEF Probed, SendCommand
  <2> QED
    <3>1. /\ dev' \in [of : Nat, gone : BOOLEAN, driver : BOOLEAN] /\ dev'.of = dev.of
      BY <2>1, Zenon
    <3>2. usb # "took"
      BY <1>8 DEF Probed
    <3>3. UNCHANGED <<plug, plugs, csc, notice, changed>>
      BY <2>1 DEF portVars
    <3> QED
      BY <2>1, <3>1, <3>2, <3>3
<1> QED
  BY <1>1, <1>2, <1>3, <1>4, <1>5, <1>6, <1>7, <1>8 DEF UsbProcess

\* At first there is no device, ...
LEMMA PortInit == Init => PortInv
BY DEF Init, PortInv, NoStaleDevice, NoDevice, Attaching, Places

\* ... and every step keeps the invariant.
LEMMA PortStep == PortInv /\ [Next]_vars => PortInv'
<1> SUFFICES ASSUME PortInv, [Next]_vars PROVE PortInv'
  OBVIOUS
<1>1. CASE Plug \/ Unplug
  BY <1>1 DEF Plug, Unplug, PortInv, NoStaleDevice, Attaching, Places
<1>2. CASE CommandStep \/ Transfer \/ process_events \/ Request \/ Requested
  BY <1>2, CommandIsSteady, OthersAreSteady, SteadyKeeps
<1>3. CASE UsbProcess
  BY <1>3, UsbKeeps
<1>4. CASE UNCHANGED vars
  BY <1>4 DEF vars, portVars, PortInv, NoStaleDevice
<1> QED
  BY <1>1, <1>2, <1>3, <1>4 DEF Next

(***************************************************************************)
(* As long as port_changed has not detached a device that left its port, a *)
(* change of the port is on its way to it, for any number of devices       *)
(* plugged in, with late answers and unanswered requests included.         *)
(***************************************************************************)
THEOREM NothingForgotten == Spec => []NoStaleDevice
<1>1. PortInv => NoStaleDevice
  BY DEF PortInv
<1> QED
  BY <1>1, PortInit, PortStep, PTL DEF Spec
-----------------------------------------------------------------------------
(***************************************************************************)
(* The command on its way. Nothing in the kernel ties an event to the      *)
(* transfer it is for, or a status block to its command. What does, as     *)
(* long as the device answers control requests, is the order of things: a  *)
(* ring gets a transfer only when nothing of an earlier one is queued or   *)
(* undelivered, and a command is sent only to a device that expects one.   *)
(* A device that left does none of this, but nothing it has yet to run     *)
(* will ever be answered.                                                  *)
(***************************************************************************)
Codes == {"none", "success", "stall", "error", "stopped"}
Transfers == {"cbw", "data", "csw"}
Waiting == {"cbw", "data", "status", "again"}
Recovering == {"reset", "clear in", "clear out"}

TransferTypes ==
    /\ ring \in [Ends -> Codes] /\ event \in [Ends -> Codes]
    /\ queue \in [Ends -> Seq(Transfers)] /\ halted \in [Ends -> BOOLEAN]
    /\ unit \in [stage : {"command", "data", "status"}, dir : Directions, of : {"old", "this"}]
    /\ unit.stage = "data" => unit.dir # "none"
    /\ block \in Directions /\ moved \in {"nobody", "this", "old", "cut", "junk"}
    /\ csw \in [of : {"nobody", "this", "old", "junk"}, status : 0 .. 2]
OpTypes ==
    op \in [at : Waiting \cup Recovering \cup {"idle", "clear", "cleared", "done"},
            then : {"idle", "status", "again", "broken"}, end : Ends, result : -1 .. 2]

Other(e) == IF e = "in" THEN "out" ELSE "in"
\* How the transfer that is waited for ended, told to its ring or not yet.
Outcome == IF event[op.end] # "none" THEN event[op.end] ELSE ring[op.end]
Quiet(e) == queue[e] = <<>> /\ ~halted[e]
AllQuiet == \A e \in Ends : Quiet(e)
What == CASE op.at = "cbw" -> "cbw" [] op.at = "data" -> "data" [] OTHER -> "csw"

\* The data phase is over as OwnAnswer wants it, and the device has yet to
\* say how this command went, or will not say any more.
Moved == block = "none" \/ moved \in {"this", "cut"}
MayAnswer == unit.stage = "command" \/ (unit.stage = "status" /\ unit.of = "this" /\ Moved)
\* The device has this command, and its data phase or the status is next.
HasCommand ==
    /\ unit.of = "this" /\ unit.dir = block /\ unit.stage \in {"data", "status"}
    /\ block = "none" => unit.stage = "status"

\* An event is undelivered only while its transfer is waited for, or on the
\* way to a recovery; a status that arrived is this command's.
EventFacts ==
    /\ op.at \in Waiting =>
         /\ event[Other(op.end)] = "none"
         /\ event[op.end] # "none" => ring[op.end] = "none"
         /\ op.end = CASE op.at = "cbw" -> "out" [] op.at = "data" -> block [] OTHER -> "in"
         /\ op.at \in {"status", "again"} /\ Outcome = "success" => csw.of = "this" /\ Moved
    /\ op.at \notin Waiting \cup {"reset"} => event = None

\* While the device is there, the transfer that is waited for is the only one.
LiveWait ==
    Present /\ op.at \in Waiting =>
        /\ Quiet(Other(op.end))
        /\ queue[op.end] = IF Outcome = "none" THEN <<What>> ELSE <<>>
        /\ halted[op.end] <=> Outcome \in {"stall", "error"}
        /\ op.at = "cbw" => /\ Outcome = "none" => unit.stage = "command"
                            /\ Outcome = "success" => HasCommand
        /\ op.at = "data" => /\ Outcome = "none" => HasCommand
                             /\ Outcome \in {"success", "stall"} => MayAnswer
        /\ op.at \in {"status", "again"} =>
             /\ MayAnswer
             /\ Outcome = "success" => unit.stage = "command"

\* Between commands, and where one goes on after a stall, nothing is queued.
LiveRest ==
    Present =>
        /\ op.at = "clear" => Quiet(Other(op.end)) /\ queue[op.end] = <<>>
        /\ op.at \in {"cleared", "idle", "done"} => AllQuiet
        /\ op.at \in {"clear", "cleared"} /\ op.then # "broken" => MayAnswer
        /\ op.at \in {"clear in", "clear out", "idle", "done"} => unit.stage = "command"
        /\ op.at = "clear out" => Quiet("in")

OpFacts ==
    /\ op.at \in Recovering => op.result # 0
    /\ op.at \in {"clear", "cleared"} => op.then \in {"status", "again", "broken"}
    /\ op.at # "idle" => lock = "reader" \/ usb = "probes"
    /\ lock = "usb" <=> usb \notin {"waits", "queued"}

DeviceFacts ==
    /\ dev.of <= plugs /\ plug <= plugs
    /\ dev.gone => ~Present
    /\ dev.of = 0 => AllQuiet /\ unit.stage = "command" /\ ~dev.driver /\ op.at = "idle"

AnswerInv ==
    /\ TransferTypes /\ OpTypes /\ EventFacts /\ LiveWait /\ LiveRest /\ OpFacts /\ DeviceFacts
    /\ OwnAnswer

\* The two endpoints.
LEMMA EndFacts ==
    \A e \in Ends : /\ Other(e) \in Ends /\ Other(e) # e /\ Other(Other(e)) = e
                    /\ \A f \in Ends : f = e \/ f = Other(e)
BY DEF Ends, Other

\* A queue of one transfer.
LEMMA OneQueued ==
    \A w \in Transfers : /\ <<w>> # <<>> /\ Head(<<w>>) = w /\ Tail(<<w>>) = <<>>
                         /\ Append(<<>>, w) = <<w>>
OBVIOUS

\* Without events, nothing is undelivered, and the other way round.
LEMMA NoEvents == ASSUME TransferTypes PROVE event = None <=> \A e \in Ends : event[e] = "none"
BY DEF TransferTypes, None

\* What the invariant says of two states with the same transfers and the same
\* command, in the second of which the device is not more present.
LEMMA Rests ==
    ASSUME AnswerInv, UNCHANGED <<transferVars, op>>, Present' => Present, OpFacts', DeviceFacts'
    PROVE  AnswerInv'
<1> USE DEF transferVars
<1>1. TransferTypes' /\ OpTypes' /\ OwnAnswer'
  BY DEF AnswerInv, TransferTypes, OpTypes, OwnAnswer
<1>2. EventFacts'
  BY Zenon DEF AnswerInv, EventFacts, Outcome, Moved
<1>3. LiveWait'
  BY Zenon DEF AnswerInv, LiveWait, Outcome, Quiet, What, HasCommand, MayAnswer, Moved
<1>4. LiveRest'
  BY Zenon DEF AnswerInv, LiveRest, Quiet, AllQuiet, MayAnswer, Moved
<1> QED
  BY <1>1, <1>2, <1>3, <1>4, Zenon DEF AnswerInv

\* process_events() tells the rings what was on its way to them.
LEMMA DeliveryKeeps == ASSUME AnswerInv, process_events PROVE AnswerInv'
<1>1. /\ ring' = on_transfer_event /\ event' = None
      /\ UNCHANGED <<queue, halted, unit, block, moved, csw, op, dev, plug, plugs, lock, usb>>
  BY Zenon DEF process_events
<1>2. TransferTypes /\ OpTypes /\ EventFacts
  BY Zenon DEF AnswerInv
<1>3. /\ \A e \in Ends : event'[e] = "none" /\ ring'[e] = IF event[e] # "none" THEN event[e] ELSE ring[e]
      /\ ring' \in [Ends -> Codes] /\ event' \in [Ends -> Codes]
  BY <1>1, <1>2 DEF None, on_transfer_event, TransferTypes, Codes
<1>4. op.end \in Ends /\ Other(op.end) \in Ends
  BY <1>2, EndFacts DEF OpTypes
<1>5. Outcome' = Outcome
  BY <1>1, <1>3, <1>4, Zenon DEF Outcome
<1>6. TransferTypes' /\ OpTypes' /\ OwnAnswer'
  BY <1>1, <1>3 DEF AnswerInv, TransferTypes, OpTypes, OwnAnswer
<1>7. EventFacts'
  BY <1>1, <1>2, <1>3, <1>4, <1>5, Zenon DEF EventFacts, Moved
<1>8. LiveWait'
  BY <1>1, <1>5, Zenon DEF AnswerInv, LiveWait, Quiet, What, HasCommand, MayAnswer, Moved, Present
<1>9. LiveRest'
  BY <1>1, Zenon DEF AnswerInv, LiveRest, Quiet, AllQuiet, MayAnswer, Moved, Present
<1>10. OpFacts' /\ DeviceFacts'
  BY <1>1, Zenon DEF AnswerInv, OpFacts, DeviceFacts, AllQuiet, Quiet, Present
<1> QED
  BY <1>6, <1>7, <1>8, <1>9, <1>10, Zenon DEF AnswerInv
-----------------------------------------------------------------------------
(* The device.                                                             *)

\* While a transfer is waited for, it is the one the controller runs.
LEMMA Retires ==
    ASSUME AnswerInv, Present, op.at \in Waiting, NEW e \in Ends, Runs(e),
           NEW cc \in {"success", "stall", "error"}, Retire(e, cc), op' = op, ring' = ring
    PROVE  /\ e = op.end /\ Outcome = "none" /\ Head(queue[e]) = What /\ Outcome' = cc
           /\ queue'[e] = <<>> /\ queue'[Other(e)] = <<>>
           /\ ~halted[e] /\ ~halted[Other(e)]
           /\ event'[e] = cc /\ event'[Other(e)] = "none" /\ ring'[e] = "none"
<1>1. TransferTypes /\ OpTypes /\ EventFacts /\ LiveWait
  BY Zenon DEF AnswerInv
<1>2. op.end \in Ends /\ Other(op.end) \in Ends /\ Other(op.end) # op.end
  BY <1>1, EndFacts DEF OpTypes
<1>3. What \in Transfers
  BY DEF What, Transfers
<1>4. e = op.end /\ Outcome = "none" /\ queue[e] = <<What>>
  <2>1. e # Other(op.end)
    BY <1>1, Zenon DEF LiveWait, Quiet, Runs
  <2>2. e = op.end
    BY <2>1, <1>2, EndFacts, Zenon
  <2> QED
    BY <2>2, <1>1, Zenon DEF LiveWait, Runs
<1>5. queue' = [queue EXCEPT ![e] = Tail(@)] /\ event' = [event EXCEPT ![e] = cc]
  BY Zenon DEF Retire
<1>6. queue'[e] = Tail(queue[e]) /\ event'[e] = cc /\ queue'[Other(e)] = queue[Other(e)]
      /\ event'[Other(e)] = event[Other(e)]
  BY <1>1, <1>2, <1>4, <1>5, Zenon DEF TransferTypes
<1>7. queue[Other(e)] = <<>> /\ ~halted[Other(e)] /\ event[Other(e)] = "none"
  BY <1>1, <1>4, Zenon DEF LiveWait, EventFacts, Quiet
<1>8. ring[e] = "none" /\ event[e] = "none"
  BY <1>4, Zenon DEF Outcome
<1>9. Outcome' = cc
  BY <1>4, <1>6, Zenon DEF Outcome
<1> QED
  BY <1>3, <1>4, <1>6, <1>7, <1>8, <1>9, OneQueued, Zenon DEF Runs

\* The types after a transfer ran.
LEMMA RetireTypes ==
    ASSUME TransferTypes, NEW e \in Ends, Runs(e), NEW cc \in {"success", "stall", "error"}, Retire(e, cc)
    PROVE  queue' \in [Ends -> Seq(Transfers)] /\ event' \in [Ends -> Codes]
<1>1. Tail(queue[e]) \in Seq(Transfers) /\ cc \in Codes
  BY DEF TransferTypes, Runs, Codes
<1> QED
  BY <1>1, Zenon DEF Retire, TransferTypes

\* What the device does with the transfer that is waited for.
Answers ==
    /\ op.at = "cbw" => /\ Outcome' = "success" => HasCommand'
    /\ op.at = "data" => /\ Outcome' \in {"success", "stall"} => MayAnswer'
    /\ op.at \in {"status", "again"} =>
          /\ MayAnswer'
          /\ Outcome' = "success" => unit'.stage = "command" /\ csw'.of = "this" /\ Moved'

\* An answer of that kind keeps the invariant.
LEMMA AnswersKeep ==
    ASSUME AnswerInv, Present, op.at \in Waiting, NEW e \in Ends, Runs(e),
           NEW cc \in {"success", "stall", "error"}, Retire(e, cc),
           UNCHANGED <<ring, block, op, dev, plug, plugs, lock, usb>>,
           halted' = [halted EXCEPT ![e] = cc # "success"], Answers,
           TransferTypes'
    PROVE  AnswerInv'
<1>1. /\ e = op.end /\ Outcome' = cc /\ queue'[e] = <<>> /\ queue'[Other(e)] = <<>>
      /\ ~halted[Other(e)] /\ event'[Other(e)] = "none" /\ ring'[e] = "none"
  BY Retires, Zenon
<1>2. Other(e) \in Ends /\ Other(e) # e
  BY EndFacts, Zenon
<1>3. (halted'[e] <=> cc # "success") /\ ~halted'[Other(e)]
  BY <1>1, <1>2, Zenon DEF AnswerInv, TransferTypes
<1>4. EventFacts'
  <2>1. op.end = CASE op.at = "cbw" -> "out" [] op.at = "data" -> block [] OTHER -> "in"
    BY Zenon DEF AnswerInv, EventFacts
  <2> QED
    BY <1>1, <2>1, Zenon DEF EventFacts, Answers
<1>5. LiveWait'
  <2>1. cc # "none" /\ (cc # "success" <=> cc \in {"stall", "error"})
    OBVIOUS
  <2> QED
    BY <1>1, <1>3, <2>1, Zenon DEF LiveWait, Quiet, Answers, Present
<1>6. LiveRest' /\ OwnAnswer' /\ OpTypes'
  <2>1. op.at \notin {"clear", "cleared", "idle", "done", "clear in", "clear out"}
    BY Zenon DEF Waiting
  <2> QED
    BY <2>1, Zenon DEF LiveRest, OwnAnswer, OpTypes, AnswerInv
<1>7. OpFacts'
  BY Zenon DEF AnswerInv, OpFacts
<1>8. DeviceFacts'
  BY Zenon DEF AnswerInv, DeviceFacts, Present, Waiting
<1> QED
  BY <1>4, <1>5, <1>6, <1>7, <1>8, Zenon DEF AnswerInv

\* Where no transfer is waited for, the device does nothing of interest: it has
\* nothing to run, or a recovery is next.
LEMMA DeviceElsewhere ==
    ASSUME AnswerInv, Present, op.at \notin Waiting \cup {"clear in", "clear out"}, Device,
           UNCHANGED <<op, dev, plug, plugs, lock, usb>>, TransferTypes'
    PROVE  AnswerInv'
<1>1. PICK e \in Ends : Runs(e)
  <2>1. CASE TakesCommand
    BY <2>1, Zenon DEF TakesCommand, Ends
  <2>2. CASE MovesData
    <3>1. unit.dir \in Ends
      BY <2>2, Zenon DEF MovesData, Runs, AnswerInv, TransferTypes, Directions, Ends
    <3> QED
      BY <2>2, <3>1, Zenon DEF MovesData
  <2>3. CASE SendsStatus
    BY <2>3, Zenon DEF SendsStatus, Ends
  <2>4. CASE Halts
    BY <2>4, Zenon DEF Halts
  <2> QED
    BY <2>1, <2>2, <2>3, <2>4, Zenon DEF Device
<1>2. op.at = "reset"
  <2>1. op.at \in {"reset", "idle", "clear", "cleared", "done"}
    BY Zenon DEF AnswerInv, OpTypes, Waiting, Recovering
  <2>2. ASSUME op.at \in {"idle", "cleared", "done"} PROVE FALSE
    BY <1>1, <2>2, Zenon DEF AnswerInv, LiveRest, AllQuiet, Quiet, Runs
  <2>3. ASSUME op.at = "clear" PROVE FALSE
    <3>1. op.end \in Ends
      BY Zenon DEF AnswerInv, OpTypes
    <3>2. e = op.end \/ e = Other(op.end)
      BY <3>1, EndFacts, Zenon
    <3> QED
      BY <1>1, <2>3, <3>2, Zenon DEF AnswerInv, LiveRest, Quiet, Runs
  <2> QED
    BY <2>1, <2>2, <2>3, Zenon
<1>3. OpTypes' /\ OpFacts' /\ OwnAnswer' /\ EventFacts' /\ LiveWait' /\ LiveRest'
  BY <1>2 DEF AnswerInv, OpTypes, OpFacts, OwnAnswer, EventFacts, LiveWait, LiveRest, Waiting
<1>4. DeviceFacts'
  BY <1>2, Zenon DEF AnswerInv, DeviceFacts, Present
<1> QED
  BY <1>3, <1>4, Zenon DEF AnswerInv

\* The types after a step of the device.
LEMMA DeviceTypes ==
    ASSUME TransferTypes, Device PROVE TransferTypes' /\ UNCHANGED <<ring, block>>
<1>1. CASE TakesCommand
  <2>1. queue' \in [Ends -> Seq(Transfers)] /\ event' \in [Ends -> Codes]
    BY <1>1, RetireTypes, Zenon DEF TakesCommand, Ends
  <2>2. /\ unit' \in [stage : {"command", "data", "status"}, dir : Directions, of : {"old", "this"}]
        /\ unit'.stage = "data" => unit'.dir # "none"
    BY <1>1 DEF TakesCommand, TransferTypes
  <2> QED
    BY <1>1, <2>1, <2>2, Zenon DEF TakesCommand, TransferTypes
<1>2. CASE MovesData
  <2>1. unit.dir \in Ends
    BY <1>2 DEF MovesData, Runs, TransferTypes, Directions, Ends
  <2>2. queue' \in [Ends -> Seq(Transfers)] /\ event' \in [Ends -> Codes]
    BY <1>2, <2>1, RetireTypes, Zenon DEF MovesData
  <2>3. /\ unit' \in [stage : {"command", "data", "status"}, dir : Directions, of : {"old", "this"}]
        /\ unit'.stage = "data" => unit'.dir # "none"
    BY <1>2, Zenon DEF MovesData, TransferTypes
  <2>4. /\ moved' \in {"nobody", "this", "old", "cut", "junk"}
        /\ csw' \in [of : {"nobody", "this", "old", "junk"}, status : 0 .. 2]
    BY <1>2 DEF MovesData, TransferTypes
  <2> QED
    BY <1>2, <2>2, <2>3, <2>4, Zenon DEF MovesData, TransferTypes
<1>3. CASE SendsStatus
  <2>1. queue' \in [Ends -> Seq(Transfers)] /\ event' \in [Ends -> Codes]
    BY <1>3, RetireTypes, Zenon DEF SendsStatus, Ends
  <2>2. /\ unit' \in [stage : {"command", "data", "status"}, dir : Directions, of : {"old", "this"}]
        /\ unit'.stage = "data" => unit'.dir # "none"
    BY <1>3 DEF SendsStatus, Fresh, Directions
  <2>3. /\ moved' \in {"nobody", "this", "old", "cut", "junk"}
        /\ csw' \in [of : {"nobody", "this", "old", "junk"}, status : 0 .. 2]
    BY <1>3 DEF SendsStatus, TransferTypes
  <2> QED
    BY <1>3, <2>1, <2>2, <2>3, Zenon DEF SendsStatus, TransferTypes
<1>4. CASE Halts
  <2>1. PICK e \in Ends, cc \in {"stall", "error"} :
          /\ Runs(e) /\ Retire(e, cc)
          /\ halted' = [halted EXCEPT ![e] = TRUE]
          /\ unit' = IF unit.stage = "data" /\ unit.dir = e
                       THEN [unit EXCEPT !.stage = "status"] ELSE unit
          /\ moved' = IF Head(queue[e]) = "data" /\ unit.of = "this" THEN "cut" ELSE moved
          /\ UNCHANGED <<ring, block, csw>>
    BY <1>4, Zenon DEF Halts
  <2>2. queue' \in [Ends -> Seq(Transfers)] /\ event' \in [Ends -> Codes]
    BY <2>1, RetireTypes, Zenon
  <2>3. /\ unit' \in [stage : {"command", "data", "status"}, dir : Directions, of : {"old", "this"}]
        /\ unit'.stage = "data" => unit'.dir # "none"
    BY <2>1, Zenon DEF TransferTypes
  <2>4. moved' \in {"nobody", "this", "old", "cut", "junk"} /\ halted' \in [Ends -> BOOLEAN]
    BY <2>1 DEF TransferTypes
  <2> QED
    BY <2>1, <2>2, <2>3, <2>4, Zenon DEF TransferTypes
<1> QED
  BY <1>1, <1>2, <1>3, <1>4, Zenon DEF Device

\* A step of the device while a transfer is waited for.
LEMMA DeviceAnswers ==
    ASSUME AnswerInv, Present, op.at \in Waiting, Device,
           UNCHANGED <<op, dev, plug, plugs, lock, usb>>
    PROVE  AnswerInv'
<1> DEFINE Sent == op.at \in {"status", "again"}
<1>1. TransferTypes' /\ UNCHANGED <<ring, block>>
  BY DeviceTypes, Zenon DEF AnswerInv
<1>2. /\ Outcome = "none" /\ op.at = "cbw" => unit.stage = "command"
      /\ Outcome = "none" /\ op.at = "data" => HasCommand
      /\ Sent => MayAnswer
      /\ op.end = CASE op.at = "cbw" -> "out" [] op.at = "data" -> block [] OTHER -> "in"
  BY Zenon DEF AnswerInv, LiveWait, EventFacts
<1>3. /\ op.at = "cbw" => What = "cbw" /\ op.end = "out"
      /\ op.at = "data" => What = "data" /\ op.end = block
      /\ Sent => What = "csw" /\ op.end = "in"
      /\ op.at = "cbw" \/ op.at = "data" \/ Sent
  BY <1>2 DEF What, Waiting
<1>4. TransferTypes
  BY Zenon DEF AnswerInv
<1> HIDE DEF Sent
<1>5. CASE TakesCommand
  <2>1. Runs("out") /\ Retire("out", "success") /\ "out" \in Ends /\ "success" \in {"success", "stall", "error"}
    BY <1>5, Zenon DEF TakesCommand, Ends
  <2>2. "out" = op.end /\ Head(queue["out"]) = What /\ Outcome = "none" /\ Outcome' = "success"
        /\ ~halted["out"]
    BY <2>1, <1>1, Retires, Zenon
  <2>3. op.at = "cbw" /\ unit.stage = "command"
    BY <1>5, <2>2, <1>2, <1>3 DEF TakesCommand
  <2>4. HasCommand'
    BY <1>5 DEF TakesCommand, HasCommand
  <2>5. Answers
    BY <2>3, <2>4 DEF Answers
  <2>6. halted' = [halted EXCEPT !["out"] = "success" # "success"]
    BY <1>5, <2>2, <1>4 DEF TakesCommand, TransferTypes
  <2> QED
    BY <2>1, <2>5, <2>6, <1>1, AnswersKeep, Zenon
<1>6. CASE MovesData
  <2>1. unit.dir \in Ends
    BY <1>6, <1>4 DEF MovesData, TransferTypes, Directions, Ends
  <2>2. Runs(unit.dir) /\ Retire(unit.dir, "success") /\ "success" \in {"success", "stall", "error"}
    BY <1>6, Zenon DEF MovesData
  <2>3. unit.dir = op.end /\ Head(queue[unit.dir]) = What /\ Outcome = "none" /\ ~halted[unit.dir]
    BY <2>1, <2>2, <1>1, Retires, Zenon
  <2>4. op.at = "data"
    BY <1>6, <2>3, <1>2, <1>3 DEF MovesData, MayAnswer
  <2>5. unit'.stage = "status" /\ unit'.of = "this" /\ moved' = "this"
    BY <1>6, <2>3, <2>4, <1>2, <1>3, <1>4 DEF MovesData, HasCommand, TransferTypes
  <2>6. Answers
    BY <2>4, <2>5 DEF Answers, MayAnswer, Moved
  <2>7. halted' = [halted EXCEPT ![unit.dir] = "success" # "success"]
    BY <1>6, <2>3, <1>4 DEF MovesData, TransferTypes
  <2> QED
    BY <2>1, <2>2, <2>6, <2>7, <1>1, AnswersKeep, Zenon
<1>7. CASE SendsStatus
  <2>1. Runs("in") /\ Retire("in", "success") /\ "in" \in Ends /\ "success" \in {"success", "stall", "error"}
    BY <1>7, Zenon DEF SendsStatus, Ends
  <2>2. "in" = op.end /\ Head(queue["in"]) = What /\ Outcome = "none" /\ ~halted["in"]
    BY <2>1, <1>1, Retires, Zenon
  <2>3. unit' = Fresh /\ unit'.stage = "command"
    BY <1>7 DEF SendsStatus, Fresh
  <2>4. op.at # "cbw"
    BY <2>2, <1>3
  <2>5. Sent => csw'.of = "this" /\ Moved'
    <3>1. Sent => unit.of = "this" /\ Moved
      BY <1>7, <1>2 DEF SendsStatus, MayAnswer
    <3> QED
      BY <1>7, <2>2, <1>1, <1>3, <3>1 DEF SendsStatus, Moved
  <2>6. Answers
    BY <2>3, <2>4, <2>5 DEF Answers, MayAnswer, Sent
  <2>7. halted' = [halted EXCEPT !["in"] = "success" # "success"]
    BY <1>7, <2>2, <1>4 DEF SendsStatus, TransferTypes
  <2> QED
    BY <2>1, <2>6, <2>7, <1>1, AnswersKeep, Zenon
<1>8. CASE Halts
  <2>1. PICK e \in Ends, cc \in {"stall", "error"} :
          /\ Runs(e) /\ Retire(e, cc)
          /\ halted' = [halted EXCEPT ![e] = TRUE]
          /\ unit' = IF unit.stage = "data" /\ unit.dir = e
                       THEN [unit EXCEPT !.stage = "status"] ELSE unit
          /\ moved' = IF Head(queue[e]) = "data" /\ unit.of = "this" THEN "cut" ELSE moved
          /\ UNCHANGED <<ring, block, csw>>
    BY <1>8, Zenon DEF Halts
  <2>2. cc \in {"success", "stall", "error"} /\ cc # "success"
    BY <2>1
  <2>3. e = op.end /\ Head(queue[e]) = What /\ Outcome = "none" /\ Outcome' = cc
    BY <2>1, <2>2, <1>1, Retires, Zenon
  <2>4. op.at = "data" => MayAnswer'
    <3> SUFFICES ASSUME op.at = "data" PROVE MayAnswer'
      OBVIOUS
    <3>1. unit.of = "this" /\ unit.dir = e /\ unit.stage \in {"data", "status"} /\ Head(queue[e]) = "data"
      BY <2>3, <1>2, <1>3 DEF HasCommand
    <3>2. unit'.stage = "status" /\ unit'.of = "this" /\ moved' = "cut"
      BY <2>1, <3>1, <1>4 DEF TransferTypes
    <3> QED
      BY <3>2 DEF MayAnswer, Moved
  <2>5. Sent => MayAnswer'
    <3> SUFFICES ASSUME Sent PROVE MayAnswer'
      OBVIOUS
    <3>1. MayAnswer /\ What = "csw"
      BY <1>2, <1>3
    <3>2. unit' = unit /\ moved' = moved /\ block' = block
      BY <2>1, <2>3, <3>1 DEF MayAnswer
    <3> QED
      BY <3>1, <3>2, Zenon DEF MayAnswer, Moved
  <2>6. Answers
    BY <2>2, <2>3, <2>4, <2>5 DEF Answers, Sent
  <2>7. halted' = [halted EXCEPT ![e] = cc # "success"]
    <3>1. (cc # "success") = TRUE
      BY <2>2
    <3> QED
      BY <2>1, <3>1, Zenon
  <2> QED
    BY <2>1, <2>2, <2>6, <2>7, <1>1, AnswersKeep, Zenon
<1> QED
  BY <1>5, <1>6, <1>7, <1>8, Zenon DEF Device

\* Every step of the device.
LEMMA TransferKeeps == ASSUME AnswerInv, ~TakesLate, Transfer PROVE AnswerInv'
<1>1. /\ Present /\ Device /\ op.at \notin {"clear in", "clear out"}
      /\ UNCHANGED <<op, dev, plug, plugs, lock, usb>>
  BY Zenon DEF Transfer, portVars
<1>2. TransferTypes'
  BY <1>1, DeviceTypes, Zenon DEF AnswerInv
<1> QED
  BY <1>1, <1>2, DeviceAnswers, DeviceElsewhere, Zenon
-----------------------------------------------------------------------------
(* The command.                                                            *)

\* not_ended() but for the device's place.
LEMMA NotEndedFacts ==
    ASSUME PortInv PROVE (not_ended.gone <=> dev.gone \/ plug = 0) /\ not_ended.driver = dev.driver
BY Zenon DEF PortInv, not_ended

\* normal_start() on a ring.
LEMMA StartFacts ==
    ASSUME TransferTypes, NEW e \in Ends, NEW w \in Transfers, normal_start(e, w)
    PROVE  /\ ring' \in [Ends -> Codes] /\ queue' \in [Ends -> Seq(Transfers)]
           /\ ring'[e] = "none" /\ queue'[e] = Append(queue[e], w)
           /\ \A f \in Ends : f # e => queue'[f] = queue[f]
<1>1. "none" \in Codes /\ queue[e] \in Seq(Transfers)
  BY DEF TransferTypes, Codes
<1>2. Append(queue[e], w) \in Seq(Transfers)
  BY <1>1
<1> QED
  BY <1>1, <1>2, Zenon DEF normal_start, TransferTypes

\* A step of a command changes no more of the device than that it is gone.
SameDevice ==
    /\ UNCHANGED <<plug, plugs, lock, usb>>
    /\ dev'.of = dev.of /\ dev'.driver = dev.driver /\ (dev'.gone => dev.gone \/ plug = 0)

\* What such a step leaves as it is.
LEMMA SameFacts ==
    ASSUME AnswerInv, op.at # "idle", op'.at # "idle", SameDevice
    PROVE  /\ DeviceFacts' /\ (Present' <=> Present) /\ dev.of # 0
           /\ lock' = "reader" \/ usb' = "probes"
           /\ lock' = "usb" <=> usb' \notin {"waits", "queued"}
BY Zenon DEF AnswerInv, SameDevice, DeviceFacts, OpFacts, Present

\* A command that starts a transfer.
Starting(at, e) == [at |-> at, then |-> "idle", end |-> e, result |-> 0]

\* That is what bot_transport's steps make of an idle command.
LEMMA StartingIs ==
    ASSUME NEW at, NEW e
    PROVE  [Idle EXCEPT !.at = at] = Starting(at, "out") /\ [Idle EXCEPT !.at = at, !.end = e] = Starting(at, e)
<1>1. [Idle EXCEPT !.at = at] = Starting(at, "out")
  BY DEF Idle, Starting
<1>2. [Idle EXCEPT !.at = at, !.end = e] = Starting(at, e)
  <2>1. [Idle EXCEPT !.at = at, !.end = e] = [[Idle EXCEPT !.at = at] EXCEPT !.end = e]
    OBVIOUS
  <2>2. [Starting(at, "out") EXCEPT !.end = e] = Starting(at, e)
    BY DEF Starting
  <2> QED
    BY <1>1, <2>1, <2>2, Zenon
<1> QED
  BY <1>1, <1>2

\* A command that starts a transfer e of its own, nothing of an earlier one
\* being left, and waits for it.
LEMMA Started ==
    ASSUME AnswerInv, NEW e \in Ends, NEW at \in Waiting, op' = Starting(at, e),
           normal_start(e, What'), event = None, UNCHANGED <<event, halted>>, DeviceFacts', OpFacts',
           e = CASE at = "cbw" -> "out" [] at = "data" -> block' [] OTHER -> "in",
           TransferTypes',
           Present' => /\ AllQuiet
                       /\ at = "cbw" => unit'.stage = "command"
                       /\ at = "data" => HasCommand'
                       /\ at \in {"status", "again"} => MayAnswer'
    PROVE  AnswerInv'
<1>1. op'.at = at /\ op'.end = e /\ op'.then = "idle" /\ op'.result = 0
  BY DEF Starting
<1>2. What' \in Transfers /\ Other(e) \in Ends /\ Other(e) # e
  BY EndFacts DEF What, Transfers
<1>3. TransferTypes
  BY Zenon DEF AnswerInv
<1>4. ring'[e] = "none" /\ queue'[e] = Append(queue[e], What') /\ queue'[Other(e)] = queue[Other(e)]
  BY <1>2, <1>3, StartFacts, Zenon
<1>5. \A f \in Ends : event'[f] = "none"
  BY DEF None
<1>6. Outcome' = "none"
  BY <1>1, <1>4, <1>5, ZenonT(60) DEF Outcome
<1>7. OpTypes' /\ OwnAnswer'
  <2>1. op' \in [at : Waiting, then : {"idle"}, end : Ends, result : {0}]
    BY DEF Starting
  <2>2. OpTypes'
    BY <2>1 DEF OpTypes
  <2> QED
    BY <1>1, <2>2 DEF OwnAnswer, Waiting
<1>8. EventFacts'
  BY <1>1, <1>2, <1>5, <1>6 DEF EventFacts
<1>9. LiveWait'
  <2> SUFFICES ASSUME Present' PROVE LiveWait'
    BY Zenon DEF LiveWait
  <2>1. Quiet(e) /\ Quiet(Other(e))
    BY <1>2, Zenon DEF AllQuiet
  <2>2. queue'[e] = <<What'>> /\ queue'[Other(e)] = <<>> /\ ~halted'[e] /\ ~halted'[Other(e)]
    BY <2>1, <1>2, <1>4, OneQueued, Zenon DEF Quiet
  <2> QED
    BY <1>1, <1>6, <2>2 DEF LiveWait, Quiet
<1>10. LiveRest'
  BY <1>1, Zenon DEF LiveRest, Waiting
<1> QED
  BY <1>7, <1>8, <1>9, <1>10, Zenon DEF AnswerInv

\* bot_transport() sends a command block, between two commands.
LEMMA SendKeeps ==
    ASSUME AnswerInv, op.at \in {"idle", "done"}, dev.of # 0, NEW dir \in Directions, SendCommand(dir),
           plug' = plug, plugs' = plugs, lock' = "reader" \/ usb' = "probes",
           lock' = "usb" <=> usb' \notin {"waits", "queued"}
    PROVE  AnswerInv'
<1>1. /\ normal_start("out", "cbw") /\ block' = dir /\ moved' = "nobody"
      /\ unit' = [unit EXCEPT !.of = "old"] /\ op' = [Idle EXCEPT !.at = "cbw"]
      /\ UNCHANGED <<event, halted, csw, dev>>
  BY ZenonT(60) DEF SendCommand
<1>2. op' = Starting("cbw", "out") /\ op'.at = "cbw" /\ What' = "cbw"
  BY <1>1, StartingIs, Zenon DEF Starting, What
<1>3. "out" \in Ends /\ "cbw" \in Waiting /\ "cbw" \in Transfers
  BY DEF Ends, Waiting, Transfers
<1>4. TransferTypes /\ event = None
  BY DEF AnswerInv, EventFacts, Waiting
<1>5. TransferTypes' /\ unit'.stage = unit.stage
  <2>1. ring' \in [Ends -> Codes] /\ queue' \in [Ends -> Seq(Transfers)]
    BY <1>1, <1>3, <1>4, StartFacts, Zenon
  <2>2. /\ unit' \in [stage : {"command", "data", "status"}, dir : Directions, of : {"old", "this"}]
        /\ unit'.stage = unit.stage /\ unit'.dir = unit.dir
    BY <1>1, <1>4, Zenon DEF TransferTypes
  <2> QED
    BY <1>1, <1>4, <2>1, <2>2 DEF TransferTypes
<1>6. DeviceFacts' /\ (Present' <=> Present)
  BY <1>1, Zenon DEF AnswerInv, DeviceFacts, Present
<1>7. OpFacts'
  BY <1>2, Zenon DEF OpFacts, Recovering
<1>8. Present => AllQuiet /\ unit.stage = "command"
  BY Zenon DEF AnswerInv, LiveRest
<1> QED
  BY <1>1, <1>2, <1>3, <1>4, <1>5, <1>6, <1>7, <1>8, Started, Zenon

\* Where a transfer is waited for and its ring says how it ended.
LEMMA EndedFacts ==
    ASSUME AnswerInv, op.at \in Waiting, ring[op.end] # "none"
    PROVE  event = None /\ Outcome = ring[op.end] /\ op.end \in Ends
<1>1. op.end \in Ends /\ TransferTypes
  BY Zenon DEF AnswerInv, OpTypes
<1>2. event[op.end] = "none" /\ event[Other(op.end)] = "none"
  BY Zenon DEF AnswerInv, EventFacts
<1>3. \A e \in Ends : event[e] = "none"
  BY <1>1, <1>2, EndFacts, Zenon
<1> QED
  BY <1>1, <1>2, <1>3, NoEvents, Zenon DEF Outcome

\* Nothing is left of a transfer that succeeded.
LEMMA SuccessQuiet ==
    ASSUME AnswerInv, Present, op.at \in Waiting, Outcome = "success" PROVE AllQuiet
<1>1. op.end \in Ends
  BY Zenon DEF AnswerInv, OpTypes
<1>2. Quiet(Other(op.end)) /\ Quiet(op.end)
  BY DEF AnswerInv, LiveWait, Quiet
<1> QED
  BY <1>1, <1>2, EndFacts, Zenon DEF AllQuiet

\* bot_transport() goes on to the data phase, ...
LEMMA DataKeeps ==
    ASSUME AnswerInv, op.at = "cbw", block # "none", ring[op.end] = "success", SendData,
           UNCHANGED <<plug, plugs, lock, usb>>
    PROVE  AnswerInv'
<1>1. /\ normal_start(block, "data") /\ op' = Starting("data", block)
      /\ UNCHANGED <<event, halted, block, moved, csw, unit, dev>>
  BY StartingIs, Zenon DEF SendData
<1>2. block \in Ends /\ "data" \in Transfers /\ "data" \in Waiting /\ TransferTypes
  BY DEF AnswerInv, TransferTypes, Directions, Transfers, Waiting
<1>3. op'.at = "data" /\ What' = "data" /\ op.at \in Waiting
  BY <1>1 DEF Starting, What, Waiting
<1>4. event = None /\ Outcome = "success"
  BY <1>3, EndedFacts
<1>5. SameDevice
  BY <1>1, Zenon DEF SameDevice
<1>6. DeviceFacts' /\ (Present' <=> Present) /\ OpFacts'
  <2>1. op.at # "idle" /\ op'.at # "idle" /\ op'.at \notin Recovering \cup {"clear", "cleared"}
    BY <1>3 DEF Recovering
  <2> QED
    BY <1>5, <2>1, SameFacts, Zenon DEF OpFacts
<1>7. TransferTypes'
  <2>1. ring' \in [Ends -> Codes] /\ queue' \in [Ends -> Seq(Transfers)]
    BY <1>1, <1>2, StartFacts, Zenon
  <2> QED
    BY <1>1, <1>2, <2>1, Zenon DEF TransferTypes
<1>8. Present' => AllQuiet /\ HasCommand'
  <2>1. Present => AllQuiet
    BY <1>3, <1>4, SuccessQuiet, Zenon
  <2>2. Present => HasCommand
    BY <1>3, <1>4, Zenon DEF AnswerInv, LiveWait
  <2> QED
    BY <1>1, <1>6, <2>1, <2>2, Zenon DEF HasCommand
<1>9. block = CASE "data" = "cbw" -> "out" [] "data" = "data" -> block' [] OTHER -> "in"
  BY <1>1
<1> QED
  BY <1>1, <1>2, <1>3, <1>4, <1>6, <1>7, <1>8, <1>9, Started

\* ... and to the status, from wherever nothing is left of the transfer before.
LEMMA AskKeeps ==
    ASSUME AnswerInv, op.at # "idle", event = None, Present => AllQuiet /\ MayAnswer,
           NEW at \in {"status", "again"}, AskStatus(at), UNCHANGED <<plug, plugs, lock, usb>>
    PROVE  AnswerInv'
<1>1. /\ normal_start("in", "csw") /\ op' = Starting(at, "in")
      /\ csw' = IF at = "status" THEN Blank ELSE csw
      /\ UNCHANGED <<event, halted, block, moved, unit, dev>>
  BY StartingIs, Zenon DEF AskStatus
<1>2. "in" \in Ends /\ "csw" \in Transfers /\ at \in Waiting /\ TransferTypes
  BY DEF AnswerInv, Ends, Transfers, Waiting
<1>3. op'.at = at /\ What' = "csw"
  BY <1>1 DEF Starting, What
<1>4. SameDevice
  BY <1>1, Zenon DEF SameDevice
<1>5. DeviceFacts' /\ (Present' <=> Present) /\ OpFacts'
  <2>1. op'.at # "idle" /\ op'.at \notin Recovering \cup {"clear", "cleared"}
    BY <1>3, Zenon DEF Recovering
  <2> QED
    BY <1>4, <2>1, SameFacts, Zenon DEF OpFacts
<1>6. TransferTypes'
  <2>1. ring' \in [Ends -> Codes] /\ queue' \in [Ends -> Seq(Transfers)]
    BY <1>1, <1>2, StartFacts, Zenon
  <2>2. csw' \in [of : {"nobody", "this", "old", "junk"}, status : 0 .. 2]
    BY <1>1, <1>2 DEF Blank, TransferTypes
  <2> QED
    BY <1>1, <1>2, <2>1, <2>2, Zenon DEF TransferTypes
<1>7. Present' => AllQuiet /\ MayAnswer'
  BY <1>1, <1>5, Zenon DEF MayAnswer, Moved
<1>8. "in" = CASE at = "cbw" -> "out" [] at = "data" -> block' [] OTHER -> "in"
  OBVIOUS
<1>9. at \notin {"cbw", "data"}
  OBVIOUS
<1> QED
  BY <1>1, <1>2, <1>3, <1>5, <1>6, <1>7, <1>8, <1>9, Started, Zenon

\* Goto changes three fields of the command.
LEMMA GotoFacts ==
    ASSUME OpTypes, NEW at, NEW then, NEW r, Goto(at, then, r)
    PROVE  /\ op'.at = at /\ op'.then = then /\ op'.end = op.end /\ op'.result = r
           /\ op' = [at |-> at, then |-> then, end |-> op.end, result |-> r]
           /\ UNCHANGED transferVars
<1> DEFINE one == [op EXCEPT !.at = at]
           two == [one EXCEPT !.then = then]
<1>1. op' = [two EXCEPT !.result = r] /\ UNCHANGED transferVars
  BY DEF Goto
<1>2. one = [at |-> at, then |-> op.then, end |-> op.end, result |-> op.result]
  BY DEF OpTypes
<1> HIDE DEF one
<1>3. two = [at |-> at, then |-> then, end |-> op.end, result |-> op.result]
  BY <1>2
<1> HIDE DEF two
<1>4. op' = [at |-> at, then |-> then, end |-> op.end, result |-> r]
  BY <1>1, <1>3
<1>5. op'.at = at /\ op'.then = then /\ op'.end = op.end /\ op'.result = r
  BY <1>4
<1> QED
  BY <1>1, <1>4, <1>5, Zenon

\* bot_scsi_command() is done, or goes into the reset recovery.
LEMMA ReturnKeeps ==
    ASSUME AnswerInv, op.at # "idle", event = None, SameDevice,
           NEW r \in -1 .. 2, Return(r, dev'.gone),
           r \in {0, 1} => /\ csw.of = "this" /\ Moved
                           /\ Present => AllQuiet /\ unit.stage = "command"
    PROVE  AnswerInv'
<1> DEFINE at == IF r \in {-1, 2} /\ ~dev'.gone THEN "reset" ELSE "done"
<1>1. OpTypes /\ Goto(at, "idle", r)
  BY Zenon DEF AnswerInv, Return
<1>2. at \in {"reset", "done"} /\ (at = "reset" => r # 0) /\ (at = "done" => r \in {0, 1} \/ dev'.gone)
  BY DEF at
<1> HIDE DEF at
<1>3. /\ op'.at = at /\ op'.result = r /\ op'.end = op.end /\ UNCHANGED transferVars
      /\ op' = [at |-> at, then |-> "idle", end |-> op.end, result |-> r]
  BY <1>1, GotoFacts, Zenon
<1>4. OpTypes'
  <2>1. at \in Recovering \cup {"done"} /\ op.end \in Ends
    BY <1>1, <1>2, Zenon DEF OpTypes, Recovering
  <2> QED
    BY <1>3, <2>1 DEF OpTypes
<1>5. TransferTypes' /\ event' = None
  BY <1>3, Zenon DEF AnswerInv, TransferTypes, transferVars
<1>6. op'.at \notin Waiting /\ op'.at \notin {"idle", "clear", "cleared", "clear in", "clear out"}
  BY <1>2, <1>3, Zenon DEF Waiting
<1>7. EventFacts' /\ LiveWait'
  BY <1>5, <1>6, Zenon DEF EventFacts, LiveWait
<1>8. DeviceFacts' /\ (Present' <=> Present) /\ OpFacts'
  <2>1. /\ DeviceFacts' /\ (Present' <=> Present)
        /\ lock' = "reader" \/ usb' = "probes"
        /\ lock' = "usb" <=> usb' \notin {"waits", "queued"}
    BY <1>6, SameFacts, Zenon
  <2>2. op'.at \in Recovering => op'.result # 0
    BY <1>2, <1>3, Zenon DEF Recovering
  <2> QED
    BY <2>1, <2>2, <1>6, Zenon DEF OpFacts
<1>9. LiveRest'
  <2> SUFFICES ASSUME Present', op'.at = "done" PROVE AllQuiet' /\ unit'.stage = "command"
    BY <1>6, Zenon DEF LiveRest
  <2>1. ~dev'.gone
    BY <1>8, Zenon DEF DeviceFacts
  <2>2. AllQuiet /\ unit.stage = "command"
    BY <2>1, <1>2, <1>3, <1>8, Zenon
  <2> QED
    BY <2>2, <1>3, Zenon DEF AllQuiet, Quiet, transferVars
<1>10. OwnAnswer'
  <2>1. op'.result = 0 => csw'.of = "this" /\ Moved'
    BY <1>3 DEF Moved, transferVars
  <2> QED
    BY <2>1, Zenon DEF OwnAnswer, Moved
<1> QED
  BY <1>4, <1>5, <1>7, <1>8, <1>9, <1>10, Zenon DEF AnswerInv

\* bulk() finds its endpoint stalled, and goes on to clear it.
LEMMA StallKeeps ==
    ASSUME AnswerInv, op.at \in Waiting, ring[op.end] = "stall", dev' = dev,
           UNCHANGED <<plug, plugs, lock, usb>>, NEW then \in {"status", "again", "broken"},
           Goto("clear", then, 0), op.at = "cbw" => then = "broken"
    PROVE  AnswerInv'
<1>1. OpTypes /\ TransferTypes
  BY Zenon DEF AnswerInv
<1>2. /\ op'.at = "clear" /\ op'.then = then /\ op'.end = op.end /\ UNCHANGED transferVars
      /\ op' = [at |-> "clear", then |-> then, end |-> op.end, result |-> 0]
  BY <1>1, GotoFacts, Zenon
<1>3. event = None /\ Outcome = "stall" /\ op.end \in Ends
  BY EndedFacts
<1>4. OpTypes' /\ TransferTypes' /\ OwnAnswer'
  <2>1. OpTypes'
    BY <1>2, <1>3 DEF OpTypes
  <2> QED
    BY <1>1, <1>2, <2>1 DEF TransferTypes, transferVars, OwnAnswer
<1>5. op'.at \notin Waiting \cup Recovering \cup {"idle", "done", "cleared"} /\ op.at # "idle"
  BY <1>2 DEF Waiting, Recovering
<1>6. DeviceFacts' /\ (Present' <=> Present) /\ OpFacts'
  <2>1. SameDevice
    BY Zenon DEF SameDevice
  <2> QED
    BY <1>2, <1>5, <2>1, SameFacts, Zenon DEF OpFacts
<1>7. EventFacts' /\ LiveWait'
  BY <1>2, <1>3, <1>5, Zenon DEF EventFacts, LiveWait, transferVars
<1>8. LiveRest'
  <2> SUFFICES ASSUME Present
               PROVE  Quiet(Other(op.end)) /\ queue[op.end] = <<>> /\ (then # "broken" => MayAnswer)
    BY <1>2, <1>6 DEF LiveRest, Quiet, MayAnswer, Moved, transferVars
  <2>1. Quiet(Other(op.end)) /\ queue[op.end] = <<>>
    BY <1>3, Zenon DEF AnswerInv, LiveWait
  <2>2. op.at \in {"cbw", "data", "status", "again"}
    BY DEF Waiting
  <2> QED
    BY <1>3, <2>1, <2>2, Zenon DEF AnswerInv, LiveWait
<1> QED
  BY <1>4, <1>6, <1>7, <1>8, Zenon DEF AnswerInv

\* transfer_wait() and what bot_transport makes of it.
LEMMA WaitKeeps ==
    ASSUME PortInv, AnswerInv, Ended \/ NotEnded, UNCHANGED <<plugs, lock, usb>>
    PROVE  AnswerInv'
<1>1. OpTypes /\ TransferTypes /\ op.at \in Waiting /\ plug' = plug
  BY Zenon DEF AnswerInv, Ended, NotEnded, Waiting
<1>2. op.at # "idle"
  BY <1>1 DEF Waiting
<1>3. ASSUME dev' = dev PROVE SameDevice
  BY <1>1, <1>3, Zenon DEF SameDevice
<1>4. CASE Ended /\ ring[op.end] = "success"
  <2>1. event = None /\ Outcome = "success"
    BY <1>1, <1>4, EndedFacts
  <2>2. Present => AllQuiet
    BY <1>1, <2>1, SuccessQuiet, Zenon
  <2>3. CASE op.at = "cbw" /\ block # "none"
    <3>1. SendData
      BY <1>4, <2>3 DEF Ended
    <3> QED
      BY <1>1, <1>4, <2>3, <3>1, DataKeeps, Zenon
  <2>4. CASE op.at = "data" \/ (op.at = "cbw" /\ block = "none")
    <3>1. AskStatus("status")
      BY <1>4, <2>4 DEF Ended
    <3>2. Present => MayAnswer
      BY <1>1, <2>1, <2>4 DEF AnswerInv, LiveWait, HasCommand, MayAnswer, Moved
    <3>3. "status" \in {"status", "again"}
      OBVIOUS
    <3> QED
      BY <1>1, <1>2, <2>1, <2>2, <3>1, <3>2, <3>3, AskKeeps, Zenon
  <2>5. CASE op.at \in {"status", "again"}
    <3>1. Judge
      BY <1>4, <2>5 DEF Ended
    <3>2. csw.of = "this" /\ Moved /\ (Present => AllQuiet /\ unit.stage = "command")
      BY <1>1, <2>1, <2>2, <2>5, Zenon DEF AnswerInv, EventFacts, LiveWait
    <3>3. Return(csw.status, dev'.gone) /\ dev' = dev /\ csw.status \in -1 .. 2
      BY <1>1, <3>1, <3>2 DEF Judge, TransferTypes
    <3> QED
      BY <1>2, <1>3, <2>1, <3>2, <3>3, ReturnKeeps, Zenon
  <2> QED
    BY <1>1, <2>3, <2>4, <2>5 DEF Waiting
<1>5. CASE Ended /\ ring[op.end] = "stall"
  <2>1. PICK then \in {"status", "again", "broken"} :
          Goto("clear", then, 0) /\ dev' = dev /\ (op.at = "cbw" => then = "broken")
    <3>1. /\ Goto("clear", CASE op.at = "data" -> "status" [] op.at = "status" -> "again"
                             [] OTHER -> "broken", 0)
          /\ dev' = dev
      BY <1>5 DEF Ended
    <3> QED
      BY <3>1
  <2> QED
    BY <1>1, <1>5, <2>1, StallKeeps, Zenon
<1>6. CASE Ended /\ ring[op.end] \notin {"success", "stall"}
  <2>1. Return(-1, dev'.gone) /\ dev' = dev /\ ring[op.end] # "none"
    BY <1>6 DEF Ended
  <2>2. event = None
    BY <1>1, <2>1, EndedFacts
  <2>3. -1 \in -1 .. 2 /\ -1 \notin {0, 1}
    OBVIOUS
  <2> QED
    BY <1>2, <1>3, <2>1, <2>2, <2>3, ReturnKeeps, Zenon
<1>7. CASE NotEnded
  <2>1. event = None /\ dev' = not_ended /\ Return(-1, dev'.gone)
    BY <1>7, Zenon DEF NotEnded, Polled
  <2>2. SameDevice
    BY <1>1, <2>1, NotEndedFacts, NotEndedKeeps, Zenon DEF SameDevice
  <2>3. -1 \in -1 .. 2 /\ -1 \notin {0, 1}
    OBVIOUS
  <2> QED
    BY <1>2, <2>1, <2>2, <2>3, ReturnKeeps, Zenon
<1> QED
  BY <1>4, <1>5, <1>6, <1>7, Zenon

\* clear_halt() reaches a device that is there, and empties its ring.
LEMMA ClearFacts ==
    ASSUME PortInv, AnswerInv, ControlsAnswer, NEW e \in Ends, clear_halt(e),
           UNCHANGED <<plug, plugs, lock, usb>>
    PROVE  /\ SameDevice
           /\ ring' \in [Ends -> Codes] /\ queue' \in [Ends -> Seq(Transfers)] /\ halted' \in [Ends -> BOOLEAN]
           /\ Present => /\ queue'[e] = <<>> /\ ~halted'[e]
                         /\ \A f \in Ends : f # e => queue'[f] = queue[f] /\ (halted'[f] <=> halted[f])
<1>1. TransferTypes /\ (dev.gone => ~Present)
  BY Zenon DEF AnswerInv, DeviceFacts
<1>2. CASE Answered /\ reset_endpoint(e) /\ UNCHANGED dev
  <2>1. SameDevice
    BY <1>2, Zenon DEF SameDevice
  <2>2. ring' \in [Ends -> Codes]
    BY <1>1, <1>2 DEF reset_endpoint, TransferTypes, Codes
  <2>3. <<>> \in Seq(Transfers)
    OBVIOUS
  <2>4. queue' = [queue EXCEPT ![e] = <<>>] /\ halted' = [halted EXCEPT ![e] = FALSE]
    BY <1>2, Zenon DEF reset_endpoint
  <2> QED
    BY <1>1, <2>1, <2>2, <2>3, <2>4, Zenon DEF TransferTypes
<1>3. CASE Unanswered /\ dev' = not_ended /\ UNCHANGED <<ring, queue, halted>>
  <2>1. ~Present
    BY <1>1, <1>3, Zenon DEF Unanswered
  <2>2. SameDevice
    BY <1>3, NotEndedFacts, NotEndedKeeps, Zenon DEF SameDevice
  <2> QED
    BY <1>1, <1>3, <2>1, <2>2, Zenon DEF TransferTypes
<1> QED
  BY <1>2, <1>3, Zenon DEF clear_halt

\* A control request of the command was answered, or not: it goes on.
LEMMA Goes ==
    ASSUME AnswerInv, op.at # "idle", event = None, SameDevice, TransferTypes', event' = event,
           NEW at \in {"cleared", "clear in", "clear out", "done"}, op' = [op EXCEPT !.at = at],
           at # "cleared" => op.result # 0,
           at = "cleared" => op.then \in {"status", "again", "broken"},
           Present => /\ at \in {"cleared", "done"} => AllQuiet'
                      /\ at = "cleared" /\ op.then # "broken" => MayAnswer'
                      /\ at \in {"clear in", "clear out", "done"} => unit'.stage = "command"
                      /\ at = "clear out" => Quiet("in")'
    PROVE  AnswerInv'
<1>1. OpTypes
  BY Zenon DEF AnswerInv
<1>2. op'.at = at /\ op'.then = op.then /\ op'.end = op.end /\ op'.result = op.result
  BY <1>1, Zenon DEF OpTypes
<1>3. OpTypes'
  <2>1. at \in Waiting \cup Recovering \cup {"idle", "clear", "cleared", "done"}
    BY Zenon DEF Recovering
  <2> QED
    BY <1>1, <2>1, Zenon DEF OpTypes
<1>4. op'.at \notin Waiting /\ op'.at \notin {"idle", "clear", "reset"} /\ (op'.at \in Recovering => at # "cleared")
  BY <1>2, Zenon DEF Waiting, Recovering
<1>5. DeviceFacts' /\ (Present' <=> Present) /\ OpFacts'
  BY <1>2, <1>4, SameFacts, Zenon DEF OpFacts
<1>6. EventFacts' /\ LiveWait'
  BY <1>4, Zenon DEF EventFacts, LiveWait
<1>7. LiveRest'
  BY <1>2, <1>4, <1>5, Zenon DEF LiveRest
<1>8. OwnAnswer'
  BY <1>2, Zenon DEF OwnAnswer
<1> QED
  BY <1>3, <1>5, <1>6, <1>7, <1>8, Zenon DEF AnswerInv

\* bulk() after a stall.
LEMMA ClearHaltKeeps ==
    ASSUME PortInv, AnswerInv, ControlsAnswer, ClearHalt, UNCHANGED <<plugs, lock, usb>>
    PROVE  AnswerInv'
<1>1. /\ op.at = "clear" /\ event = None /\ clear_halt(op.end) /\ op' = [op EXCEPT !.at = "cleared"]
      /\ UNCHANGED <<plug, event, block, moved, csw, unit>>
  BY Zenon DEF ClearHalt, Polled
<1>2. TransferTypes /\ op.end \in Ends /\ op.then \in {"status", "again", "broken"}
  BY <1>1 DEF AnswerInv, OpTypes, OpFacts
<1>3. /\ SameDevice
      /\ ring' \in [Ends -> Codes] /\ queue' \in [Ends -> Seq(Transfers)] /\ halted' \in [Ends -> BOOLEAN]
      /\ Present => /\ queue'[op.end] = <<>> /\ ~halted'[op.end]
                    /\ \A f \in Ends : f # op.end => queue'[f] = queue[f] /\ (halted'[f] <=> halted[f])
  BY <1>1, <1>2, ClearFacts, Zenon
<1>4. TransferTypes'
  BY <1>1, <1>2, <1>3, Zenon DEF TransferTypes
<1>5. Present => AllQuiet' /\ (op.then # "broken" => MayAnswer')
  <2> SUFFICES ASSUME Present PROVE AllQuiet' /\ (op.then # "broken" => MayAnswer')
    OBVIOUS
  <2>1. Quiet(Other(op.end)) /\ (op.then # "broken" => MayAnswer)
    BY <1>1, Zenon DEF AnswerInv, LiveRest
  <2>2. Other(op.end) \in Ends /\ Other(op.end) # op.end /\ \A f \in Ends : f = op.end \/ f = Other(op.end)
    BY <1>2, EndFacts, Zenon
  <2>3. AllQuiet'
    BY <1>3, <2>1, <2>2, Zenon DEF AllQuiet, Quiet
  <2> QED
    BY <1>1, <2>1, <2>3, Zenon DEF MayAnswer, Moved
<1>6. op.at # "idle" /\ "cleared" \in {"cleared", "clear in", "clear out", "done"}
      /\ "cleared" \notin {"clear in", "clear out", "done"}
  BY <1>1
<1> QED
  BY <1>1, <1>2, <1>3, <1>4, <1>5, <1>6, Goes, Zenon

\* bot_transport() after it.
LEMMA AfterClearKeeps ==
    ASSUME AnswerInv, AfterClear, UNCHANGED <<plugs, lock, usb>>
    PROVE  AnswerInv'
<1>1. op.at = "cleared" /\ plug' = plug
  BY Zenon DEF AfterClear
<1>2. op.at # "idle" /\ event = None /\ op.then \in {"status", "again", "broken"}
  BY <1>1 DEF AnswerInv, EventFacts, OpFacts, Waiting
<1>3. CASE op.then = "broken" \/ dev.gone
  <2>1. Return(-1, dev'.gone) /\ dev' = dev
    BY <1>3, Zenon DEF AfterClear
  <2>2. SameDevice
    BY <1>1, <2>1, Zenon DEF SameDevice
  <2>3. -1 \in -1 .. 2 /\ -1 \notin {0, 1}
    OBVIOUS
  <2> QED
    BY <1>2, <2>1, <2>2, <2>3, ReturnKeeps, Zenon
<1>4. CASE ~(op.then = "broken" \/ dev.gone)
  <2>1. AskStatus(op.then) /\ op.then \in {"status", "again"}
    BY <1>2, <1>4 DEF AfterClear
  <2>2. Present => AllQuiet /\ MayAnswer
    BY <1>1, <1>4, Zenon DEF AnswerInv, LiveRest
  <2> QED
    BY <1>1, <1>2, <2>1, <2>2, AskKeeps, Zenon
<1> QED
  BY <1>3, <1>4, Zenon

\* One half of reset_recovery's clearing.
LEMMA RecoverKeeps ==
    ASSUME PortInv, AnswerInv, ControlsAnswer, UNCHANGED <<plugs, lock, usb>>,
           \/ RecoverHalt("clear in", "in", "clear out")
           \/ RecoverHalt("clear out", "out", "done")
    PROVE  AnswerInv'
<1>1. PICK e \in Ends, next \in {"clear out", "done"} :
        /\ op.at = (IF e = "in" THEN "clear in" ELSE "clear out")
        /\ next = (IF e = "in" THEN "clear out" ELSE "done")
        /\ event = None /\ clear_halt(e) /\ op' = [op EXCEPT !.at = next]
        /\ UNCHANGED <<plug, event, block, moved, csw, unit>>
  BY Zenon DEF RecoverHalt, Polled, Ends
<1>2. TransferTypes /\ op.at \in {"clear in", "clear out"} /\ op.at \in Recovering
  BY <1>1, Zenon DEF AnswerInv, Recovering
<1>3. /\ SameDevice
      /\ ring' \in [Ends -> Codes] /\ queue' \in [Ends -> Seq(Transfers)] /\ halted' \in [Ends -> BOOLEAN]
      /\ Present => /\ queue'[e] = <<>> /\ ~halted'[e]
                    /\ \A f \in Ends : f # e => queue'[f] = queue[f] /\ (halted'[f] <=> halted[f])
  BY <1>1, ClearFacts, Zenon
<1>4. TransferTypes'
  BY <1>1, <1>2, <1>3, Zenon DEF TransferTypes
<1>5. op.result # 0 /\ (Present => unit'.stage = "command")
  BY <1>1, <1>2, Zenon DEF AnswerInv, OpFacts, LiveRest
<1>6. Present /\ next = "done" => AllQuiet'
  <2> SUFFICES ASSUME Present, next = "done" PROVE AllQuiet'
    BY Zenon
  <2>1. e # "in" /\ e = "out" /\ op.at = "clear out" /\ "in" \in Ends
    BY <1>1, Zenon DEF Ends
  <2>2. Quiet("in")
    BY <2>1, Zenon DEF AnswerInv, LiveRest
  <2>3. Quiet("in")' /\ Quiet("out")'
    BY <1>3, <2>1, <2>2, Zenon DEF Quiet
  <2> QED
    BY <2>3, Zenon DEF AllQuiet, Ends
<1>7. Present /\ next = "clear out" => Quiet("in")'
  BY <1>1, <1>3, Zenon DEF Quiet
<1>8. /\ op.at # "idle" /\ next \in {"cleared", "clear in", "clear out", "done"} /\ next # "cleared"
      /\ next # "clear in"
  BY <1>1, <1>2, Zenon
<1> QED
  BY <1>1, <1>3, <1>4, <1>5, <1>6, <1>7, <1>8, Goes, Zenon

\* The class reset of reset_recovery.
LEMMA ResetKeeps ==
    ASSUME PortInv, AnswerInv, ControlsAnswer, ResetDevice, UNCHANGED <<plugs, lock, usb>>
    PROVE  AnswerInv'
<1>1. /\ op.at = "reset" /\ event = None /\ op' = [op EXCEPT !.at = "clear in"]
      /\ UNCHANGED <<plug, ring, event, queue, halted, block, moved, csw>>
      /\ unit' \in {unit, Fresh}
  BY Zenon DEF ResetDevice, Polled
<1>2. TransferTypes /\ op.result # 0 /\ (dev.gone => ~Present)
  BY <1>1, Zenon DEF AnswerInv, OpFacts, Recovering, DeviceFacts
<1>3. SameDevice /\ (Present => unit'.stage = "command")
  <2>1. CASE Answered /\ unit' = Fresh /\ UNCHANGED dev
    BY <1>1, <2>1, Zenon DEF SameDevice, Fresh
  <2>2. CASE Unanswered /\ dev' = not_ended
    <3>1. ~Present
      BY <1>2, <2>2, Zenon DEF Unanswered
    <3> QED
      BY <1>1, <2>2, <3>1, NotEndedFacts, NotEndedKeeps, Zenon DEF SameDevice
  <2> QED
    BY <2>1, <2>2, Zenon DEF ResetDevice
<1>4. TransferTypes'
  <2>1. /\ Fresh \in [stage : {"command", "data", "status"}, dir : Directions, of : {"old", "this"}]
        /\ Fresh.stage # "data"
    BY DEF Fresh, Directions
  <2> QED
    BY <1>1, <1>2, <2>1, Zenon DEF TransferTypes
<1>5. /\ op.at # "idle" /\ "clear in" \in {"cleared", "clear in", "clear out", "done"}
      /\ "clear in" \notin {"cleared", "clear out", "done"}
  BY <1>1, Zenon
<1> QED
  BY <1>1, <1>2, <1>3, <1>4, <1>5, Goes, Zenon

\* Every step of a command.
LEMMA CommandKeeps ==
    ASSUME PortInv, AnswerInv, ControlsAnswer, CommandStep PROVE AnswerInv'
<1>1. Command /\ UNCHANGED <<plugs, lock, usb>>
  BY Zenon DEF CommandStep
<1>2. \/ Ended \/ NotEnded \/ ClearHalt \/ AfterClear \/ ResetDevice
      \/ RecoverHalt("clear in", "in", "clear out") \/ RecoverHalt("clear out", "out", "done")
  BY <1>1, Zenon DEF Command, reset_recovery
<1> QED
  BY <1>1, <1>2, WaitKeeps, ClearHaltKeeps, AfterClearKeeps, ResetKeeps, RecoverKeeps, Zenon

\* Between two commands the next one is not there, or the last one is done.
LEMMA Forgets ==
    ASSUME AnswerInv, op.at \in {"idle", "done"}, op' \in {op, Idle}, UNCHANGED transferVars,
           Present' => Present, OpFacts', DeviceFacts'
    PROVE  AnswerInv'
<1>1. op'.at \in {"idle", "done"} /\ OpTypes' /\ (op'.at = "done" => op' = op)
  BY DEF AnswerInv, OpTypes, Idle, Ends
<1>2. TransferTypes' /\ OwnAnswer'
  BY <1>1, ZenonT(60) DEF AnswerInv, TransferTypes, OwnAnswer, transferVars
<1>3. op'.at \notin Waiting \cup {"reset"} /\ op'.at \notin {"clear", "cleared", "clear in", "clear out"}
      /\ op.at \notin Waiting \cup {"reset"}
  BY <1>1, Zenon DEF Waiting
<1>4. EventFacts' /\ LiveWait'
  BY <1>3, Zenon DEF AnswerInv, EventFacts, LiveWait, transferVars
<1>5. LiveRest'
  <2>1. Present => AllQuiet /\ unit.stage = "command"
    BY Zenon DEF AnswerInv, LiveRest
  <2>2. Present' => AllQuiet' /\ unit'.stage = "command"
    BY <2>1, Zenon DEF AllQuiet, Quiet, transferVars
  <2> QED
    BY <1>3, <2>2, Zenon DEF LiveRest
<1> QED
  BY <1>1, <1>2, <1>4, <1>5, Zenon DEF AnswerInv

\* The other processes' commands start and end.
LEMMA RequestKeeps ==
    ASSUME PortInv, AnswerInv, Request \/ Requested PROVE AnswerInv'
<1>1. CASE Request
  <2>1. /\ lock = "nobody" /\ dev.driver /\ lock' = "reader" /\ UNCHANGED <<plug, plugs, usb>>
        /\ dev.of # 0 /\ op.at = "idle" /\ usb' \in {"waits", "queued"}
    BY <1>1 DEF Request, portVars, AnswerInv, OpFacts, DeviceFacts, PortInv
  <2>2. CASE dev.gone
    <3>1. Goto("done", "idle", -1) /\ dev' = dev
      BY <1>1, <2>2, Zenon DEF Request
    <3>2. OpTypes /\ ~Present /\ event = None
      BY <2>1, <2>2 DEF AnswerInv, DeviceFacts, EventFacts, Waiting
    <3>3. /\ op'.at = "done" /\ op'.result = -1 /\ UNCHANGED transferVars
          /\ op' = [at |-> "done", then |-> "idle", end |-> op.end, result |-> -1]
      BY <3>1, <3>2, GotoFacts, Zenon
    <3>4. OpTypes' /\ OwnAnswer'
      BY <3>2, <3>3 DEF OpTypes, OwnAnswer
    <3>5. TransferTypes' /\ ~Present' /\ event' = None
      BY <2>1, <3>1, <3>2, <3>3, Zenon DEF AnswerInv, TransferTypes, Present, transferVars
    <3>6. op'.at \notin Waiting /\ op'.at \notin Recovering \cup {"clear", "cleared"}
      BY <3>3 DEF Waiting, Recovering
    <3>7. EventFacts' /\ LiveWait' /\ LiveRest'
      BY <3>5, <3>6, Zenon DEF EventFacts, LiveWait, LiveRest
    <3>8. OpFacts'
      BY <2>1, <3>6, Zenon DEF OpFacts
    <3>9. DeviceFacts'
      BY <2>1, <3>1, <3>5, Zenon DEF AnswerInv, DeviceFacts
    <3> QED
      BY <3>4, <3>5, <3>7, <3>8, <3>9, Zenon DEF AnswerInv
  <2>3. CASE ~dev.gone
    <3>1. PICK dir \in Directions : SendCommand(dir)
      BY <1>1, <2>3, Zenon DEF Request
    <3>2. op.at \in {"idle", "done"} /\ (lock' = "usb" <=> usb' \notin {"waits", "queued"})
      BY <2>1
    <3> QED
      BY <2>1, <3>1, <3>2, SendKeeps, Zenon
  <2> QED
    BY <2>2, <2>3, Zenon
<1>2. CASE Requested
  <2>1. /\ lock = "reader" /\ op.at = "done" /\ lock' = "nobody" /\ op' = Idle
        /\ UNCHANGED transferVars /\ UNCHANGED <<dev, plug, plugs, usb>>
    BY <1>2, Zenon DEF Requested, portVars
  <2>2. op'.at = "idle" /\ op'.at \notin Recovering \cup {"clear", "cleared"}
    BY <2>1 DEF Idle, Recovering
  <2>3. OpFacts'
    BY <2>1, <2>2, Zenon DEF AnswerInv, OpFacts
  <2>4. DeviceFacts' /\ (Present' => Present)
    BY <2>1, <2>2, Zenon DEF AnswerInv, DeviceFacts, Present, AllQuiet, Quiet, transferVars
  <2> QED
    BY <2>1, <2>3, <2>4, Forgets, Zenon
<1> QED
  BY <1>1, <1>2, Zenon

\* The user's hand: a device that left does not come back.
LEMMA HandKeeps == ASSUME PortInv, AnswerInv, Plug \/ Unplug PROVE AnswerInv'
<1>1. UNCHANGED <<transferVars, op, dev, lock, usb>>
  BY Zenon DEF Plug, Unplug
<1>2. dev.of \in Nat /\ plugs \in Nat /\ plug \in Nat /\ dev.of <= plugs /\ plug <= plugs
  BY DEF PortInv, AnswerInv, DeviceFacts
<1>3. plug' <= plugs' /\ dev'.of <= plugs' /\ ~Present'
  BY <1>1, <1>2 DEF Plug, Unplug, Present
<1>4. OpFacts'
  BY <1>1, Zenon DEF AnswerInv, OpFacts
<1>5. DeviceFacts'
  BY <1>1, <1>3, Zenon DEF AnswerInv, DeviceFacts, AllQuiet, Quiet, transferVars
<1> QED
  BY <1>1, <1>3, <1>4, <1>5, Rests, Zenon

\* The usb process on its way, without touching a device.
LEMMA WayKeeps ==
    ASSUME AnswerInv,
           \/ Wake \/ Lock \/ take_port_change \/ Unlock \/ Debounced
           \/ ResetStart \/ ResetDone \/ ResetCleared \/ ResetChecked
    PROVE  AnswerInv'
<1>1. UNCHANGED <<transferVars, op, dev, plug, plugs>>
  BY Zenon DEF Wake, Lock, take_port_change, Unlock, Debounced, ResetStart, ResetDone, ResetCleared,
     ResetChecked, portVars
<1>2. /\ lock' = "usb" <=> usb' \notin {"waits", "queued"}
      /\ op.at # "idle" => lock' = "reader" \/ usb' = "probes"
  BY DEF AnswerInv, OpFacts, Wake, Lock, take_port_change, Unlock, Debounced, ResetStart, ResetDone,
     ResetCleared, ResetChecked, portVars, At
<1>3. OpFacts'
  BY <1>1, <1>2, Zenon DEF AnswerInv, OpFacts
<1>4. DeviceFacts' /\ (Present' => Present)
  BY <1>1, Zenon DEF AnswerInv, DeviceFacts, Present, AllQuiet, Quiet, transferVars
<1> QED
  BY <1>1, <1>3, <1>4, Rests, Zenon

\* port_changed() detaches a device that left, between two commands.
LEMMA ChangeKeeps == ASSUME PortInv, AnswerInv, port_changed PROVE AnswerInv'
<1>1. /\ usb = "took" /\ usb' \in {"looks", "debounces"} /\ UNCHANGED <<op, plug, plugs, lock>>
  BY DEF port_changed
<1>2. op.at = "idle" /\ op'.at = "idle"
  BY <1>1 DEF AnswerInv, OpFacts
<1>3. OpFacts'
  BY <1>1, <1>2 DEF AnswerInv, OpFacts
<1>4. CASE left
  <2>1. detach
    BY <1>4, Zenon DEF port_changed
  <2>2. /\ dev'.of = 0 /\ ~dev'.gone /\ ~dev'.driver /\ unit' = Fresh /\ unit'.stage = "command"
        /\ event' = None
        /\ \A e \in Ends : queue'[e] = <<>> /\ ~halted'[e]
    BY <2>1 DEF detach, NoDevice, Fresh
  <2>3. TransferTypes'
    <3>1. /\ ring' \in [Ends -> Codes] /\ event' \in [Ends -> Codes]
          /\ queue' \in [Ends -> Seq(Transfers)] /\ halted' \in [Ends -> BOOLEAN]
      BY <2>1 DEF detach, None, Codes
    <3>2. /\ unit' \in [stage : {"command", "data", "status"}, dir : Directions, of : {"old", "this"}]
          /\ unit'.stage # "data" /\ block' \in Directions
          /\ moved' \in {"nobody", "this", "old", "cut", "junk"}
          /\ csw' \in [of : {"nobody", "this", "old", "junk"}, status : 0 .. 2]
      BY <2>1 DEF detach, Fresh, Blank, Directions
    <3> QED
      BY <3>1, <3>2, Zenon DEF TransferTypes
  <2>4. DeviceFacts' /\ ~Present'
    <3>1. ~Present' /\ dev'.of <= plugs' /\ plug' <= plugs'
      BY <1>1, <2>2 DEF Present, PortInv, AnswerInv, DeviceFacts
    <3> QED
      BY <1>2, <2>2, <3>1, Zenon DEF DeviceFacts, AllQuiet, Quiet
  <2>5. EventFacts' /\ LiveWait' /\ LiveRest' /\ OwnAnswer' /\ OpTypes'
    <3>1. op'.at \notin Waiting /\ op'.at # "done"
      BY <1>2 DEF Waiting
    <3> QED
      BY <1>1, <2>2, <2>4, <3>1, Zenon DEF AnswerInv, EventFacts, LiveWait, LiveRest, OwnAnswer, OpTypes
  <2> QED
    BY <1>3, <2>3, <2>4, <2>5, Zenon DEF AnswerInv
<1>5. CASE ~left
  <2>1. UNCHANGED <<transferVars, dev>>
    BY <1>5, Zenon DEF port_changed
  <2>2. DeviceFacts' /\ (Present' => Present)
    BY <1>1, <2>1, Zenon DEF AnswerInv, DeviceFacts, Present, AllQuiet, Quiet, transferVars
  <2> QED
    BY <1>1, <1>3, <2>1, <2>2, Rests, Zenon
<1> QED
  BY <1>4, <1>5, Zenon

\* attach(): a device gets rings that nothing was on.
LEMMA AddressKeeps == ASSUME PortInv, AnswerInv, address_device PROVE AnswerInv'
<1>1. /\ usb = "addresses" /\ usb' \in {"describes", "looks"} /\ UNCHANGED <<op, plug, plugs, lock>>
      /\ UNCHANGED transferVars /\ dev' \in {dev, [NoDevice EXCEPT !.of = plug]}
  BY Zenon DEF address_device, portVars
<1>2. op.at = "idle" /\ op'.at = "idle" /\ dev.of = 0
  BY <1>1 DEF AnswerInv, OpFacts, PortInv, Attaching
<1>3. OpFacts'
  BY <1>1, <1>2 DEF AnswerInv, OpFacts
<1>4. AllQuiet' /\ unit'.stage = "command" /\ ~dev.driver
  BY <1>1, <1>2, Zenon DEF AnswerInv, DeviceFacts, AllQuiet, Quiet, transferVars
<1>5. dev' = dev \/ (dev'.of = plug /\ ~dev'.gone /\ ~dev'.driver)
  BY <1>1 DEF NoDevice
<1>6. DeviceFacts'
  BY <1>1, <1>2, <1>4, <1>5, Zenon DEF AnswerInv, DeviceFacts, Present
<1>7. TransferTypes' /\ OpTypes' /\ OwnAnswer'
  BY <1>1 DEF AnswerInv, TransferTypes, OpTypes, OwnAnswer, transferVars
<1>8. op'.at \notin Waiting \cup {"reset"} /\ op'.at \notin {"clear", "cleared", "clear in", "clear out"}
  BY <1>2 DEF Waiting
<1>9. EventFacts' /\ LiveWait' /\ LiveRest'
  <2>1. event = None
    BY <1>1, <1>8, Zenon DEF AnswerInv, EventFacts
  <2> QED
    BY <1>1, <1>4, <1>8, <2>1, Zenon DEF EventFacts, LiveWait, LiveRest, transferVars
<1> QED
  BY <1>3, <1>6, <1>7, <1>9, Zenon DEF AnswerInv

\* The descriptors, and the probe's first command.
LEMMA DescribeKeeps == ASSUME PortInv, AnswerInv, read_descriptors PROVE AnswerInv'
<1>1. usb = "describes" /\ UNCHANGED <<plug, plugs, lock>>
  BY Zenon DEF read_descriptors, portVars
<1>2. op.at = "idle" /\ lock = "usb"
  BY <1>1 DEF AnswerInv, OpFacts
<1>3. CASE Answered /\ At("describes", "probes") /\ \E dir \in {"in", "none"} : SendCommand(dir)
  <2>0. {"in", "none"} \subseteq Directions
    BY DEF Directions, Ends
  <2>1. PICK dir \in Directions : SendCommand(dir)
    BY <1>3, <2>0, Zenon
  <2>2. usb' = "probes" /\ dev.of # 0
    BY <1>3 DEF At, Answered, Present
  <2>3. op.at \in {"idle", "done"} /\ (lock' = "usb" <=> usb' \notin {"waits", "queued"})
    BY <1>1, <1>2, <2>2
  <2> QED
    BY <1>1, <2>1, <2>2, <2>3, SendKeeps, Zenon
<1>4. CASE At("describes", "looks") /\ dev' \in {dev, not_ended} /\ UNCHANGED <<transferVars, op>>
  <2>1. /\ dev'.of = dev.of /\ dev'.driver = dev.driver /\ (dev'.gone => dev.gone \/ plug = 0)
    BY <1>4, NotEndedFacts, NotEndedKeeps, Zenon
  <2>2. usb' = "looks" /\ op' = op
    BY <1>4, Zenon DEF At
  <2>3. OpFacts'
    BY <1>1, <1>2, <2>2 DEF AnswerInv, OpFacts
  <2>4. DeviceFacts' /\ (Present' => Present)
    BY <1>1, <1>4, <2>1, <2>2, Zenon DEF AnswerInv, DeviceFacts, Present, AllQuiet, Quiet, transferVars
  <2> QED
    BY <1>4, <2>3, <2>4, Rests, Zenon
<1> QED
  BY <1>3, <1>4, Zenon DEF read_descriptors

\* The probe's command has ended.
LEMMA ProbedKeeps == ASSUME PortInv, AnswerInv, Probed PROVE AnswerInv'
<1>1. usb = "probes" /\ op.at = "done" /\ UNCHANGED <<plug, plugs, lock>>
  BY Zenon DEF Probed, portVars
<1>2. lock = "usb" /\ dev.of # 0
  BY <1>1 DEF AnswerInv, OpFacts, DeviceFacts
<1>3. CASE (\E dir \in {"in", "none"} : SendCommand(dir)) /\ usb' = usb
  <2>0. {"in", "none"} \subseteq Directions
    BY DEF Directions, Ends
  <2>1. PICK dir \in Directions : SendCommand(dir)
    BY <1>3, <2>0, Zenon
  <2>2. op.at \in {"idle", "done"} /\ (lock' = "usb" <=> usb' \notin {"waits", "queued"})
    BY <1>1, <1>2, <1>3
  <2> QED
    BY <1>1, <1>2, <1>3, <2>1, <2>2, SendKeeps, Zenon
<1>4. CASE usb' = "looks" /\ op' = Idle /\ dev' \in {dev, [dev EXCEPT !.driver = TRUE]} /\ UNCHANGED transferVars
  <2>1. dev'.of = dev.of /\ dev'.gone = dev.gone
    BY <1>4 DEF PortInv
  <2>2. op'.at = "idle" /\ op'.at \notin Recovering
    BY <1>4 DEF Idle, Recovering
  <2>3. OpFacts'
    BY <1>1, <1>2, <1>4, <2>2 DEF OpFacts
  <2>4. DeviceFacts' /\ (Present' => Present)
    BY <1>1, <1>2, <2>1, Zenon DEF AnswerInv, DeviceFacts, Present
  <2> QED
    BY <1>1, <1>4, <2>3, <2>4, Forgets, Zenon
<1> QED
  BY <1>3, <1>4, Zenon DEF Probed

\* At the start nothing is plugged in ...
LEMMA AnswerInit == Init => AnswerInv
<1> SUFFICES ASSUME Init PROVE AnswerInv
  OBVIOUS
<1>1. TransferTypes
  BY DEF Init, TransfersInit, TransferTypes, None, Fresh, Blank, Codes, Directions
<1>2. OpTypes /\ op.at = "idle"
  BY DEF Init, OpTypes, Idle, Ends
<1>3. dev.of = 0 /\ ~dev.gone /\ ~dev.driver /\ unit.stage = "command" /\ AllQuiet
  BY DEF Init, NoDevice, TransfersInit, Fresh, AllQuiet, Quiet
<1>4. EventFacts /\ OwnAnswer /\ ~Present
  BY <1>2, <1>3 DEF Init, TransfersInit, EventFacts, OwnAnswer, Waiting, Present
<1>5. OpFacts /\ DeviceFacts
  BY <1>2, <1>3 DEF Init, OpFacts, DeviceFacts, Recovering, Present
<1> QED
  BY <1>1, <1>2, <1>4, <1>5, Zenon DEF AnswerInv, LiveWait, LiveRest

\* ... and every step keeps what ties an answer to its command.
LEMMA AnswerStep ==
    ASSUME ControlsAnswer, ~TakesLate PROVE PortInv /\ AnswerInv /\ [Next]_vars => AnswerInv'
<1> SUFFICES ASSUME PortInv, AnswerInv, [Next]_vars PROVE AnswerInv'
  OBVIOUS
<1>1. CASE Plug \/ Unplug
  BY <1>1, HandKeeps, Zenon
<1>2. CASE Transfer
  BY <1>2, TransferKeeps, Zenon
<1>3. CASE process_events
  BY <1>3, DeliveryKeeps, Zenon
<1>4. CASE Request \/ Requested
  BY <1>4, RequestKeeps, Zenon
<1>5. CASE CommandStep
  BY <1>5, CommandKeeps, Zenon
<1>6. CASE UsbProcess
  BY <1>6, WayKeeps, ChangeKeeps, AddressKeeps, DescribeKeeps, ProbedKeeps, Zenon DEF UsbProcess
<1>7. CASE UNCHANGED vars
  <2>1. UNCHANGED <<transferVars, op, dev, plug, plugs, lock, usb>>
    BY <1>7, Zenon DEF vars, portVars
  <2>2. OpFacts' /\ DeviceFacts' /\ (Present' => Present)
    BY <2>1, Zenon DEF AnswerInv, OpFacts, DeviceFacts, Present, AllQuiet, Quiet, transferVars
  <2> QED
    BY <2>1, <2>2, Rests, Zenon
<1> QED
  BY <1>1, <1>2, <1>3, <1>4, <1>5, <1>6, <1>7, Zenon DEF Next

(***************************************************************************)
(* A command that succeeded has its own status block, and its data phase   *)
(* moved its own data or was cut short by the device, however commands,    *)
(* stalls, timeouts, recoveries and the unplugging of devices interleave,  *)
(* although bot_transport compares no tag and on_transfer_event no         *)
(* transfer: for a device that answers control requests and that takes no  *)
(* transfer of the old command between its reset and the clearing of its   *)
(* endpoints.                                                              *)
(***************************************************************************)
THEOREM AnswersAreOwn == ASSUME ControlsAnswer, ~TakesLate PROVE Spec => []OwnAnswer
<1>1. AnswerInv => OwnAnswer
  BY DEF AnswerInv
<1> QED
  BY <1>1, PortInit, PortStep, AnswerInit, AnswerStep, PTL DEF Spec
=============================================================================
