---------------------------- MODULE MassStorage ----------------------------
(***************************************************************************)
(* One SCSI command at a time through the Bulk-Only Transport              *)
(* (drivers/usb/msc.cpp): the command block out, the data either way, the  *)
(* status block in, and the reset recovery after a command that broke.     *)
(*                                                                         *)
(* `op.at' is the transfer or the control request bot_scsi_command waits   *)
(* for. A control request is one step: asked and answered, or not.         *)
(***************************************************************************)
EXTENDS BulkTransfers

CONSTANTS
    MaxPlugs,           \* devices plugged in, one after the other
    MaxTries,           \* TEST UNIT READY is asked for 5 s: this many times
    MaxQueued,          \* transfers of a device that answers no more
    ControlsAnswer,     \* a device that is plugged in answers control requests
    TakesLate           \* a device just reset may take a command block still queued

ASSUME UsbAssumption ==
    /\ {MaxPlugs, MaxTries, MaxQueued} \subseteq Nat
    /\ {ControlsAnswer, TakesLate} \subseteq BOOLEAN

VARIABLES
    plug,       \* the device in the port: the plug-th so far, 0 when it is empty
    dev,        \* the port's usb_device: of which plug (0: none), gone, its driver
    op          \* the command on its way

Idle == [at |-> "idle", then |-> "idle", end |-> "out", result |-> 0]
NoDevice == [of |-> 0, gone |-> FALSE, driver |-> FALSE]

\* The device the kernel talks to is the one in the port.
Present == plug = dev.of /\ plug # 0
-----------------------------------------------------------------------------
\* A wait ends right after it polled the event ring.
Polled == event = None

\* not_ended(): asked of the port, is the device still there?
not_ended == [dev EXCEPT !.gone = @ \/ plug = 0]

\* bot_transport() up to the command block's transfer. What was this
\* command's until now is an older one's.
SendCommand(dir) ==
    /\ normal_start("out", "cbw")
    /\ block' = dir /\ moved' = "nobody"
    /\ unit' = [unit EXCEPT !.of = "old"]
    /\ op' = [Idle EXCEPT !.at = "cbw"]
    /\ UNCHANGED <<event, halted, csw, dev>>

SendData ==
    /\ normal_start(block, "data")
    /\ op' = [Idle EXCEPT !.at = "data", !.end = block]
    /\ UNCHANGED <<event, halted, block, moved, csw, unit, dev>>

\* The status block is cleared before the first transfer for it only.
AskStatus(at) ==
    /\ normal_start("in", "csw")
    /\ csw' = IF at = "status" THEN Blank ELSE csw
    /\ op' = [Idle EXCEPT !.at = at, !.end = "in"]
    /\ UNCHANGED <<event, halted, block, moved, unit, dev>>

Goto(at, then, result) ==
    /\ op' = [op EXCEPT !.at = at, !.then = then, !.result = result]
    /\ UNCHANGED transferVars

\* bot_scsi_command(): -1 and phase errors take a reset recovery, unless the
\* device is gone.
Return(result, gone) ==
    Goto(IF result \in {-1, 2} /\ ~gone THEN "reset" ELSE "done", "idle", result)

\* bot_transport() once the CSW is in.
Judge ==
    /\ Return(IF csw.of \in {"junk", "nobody"} THEN -1 ELSE csw.status, dev.gone)
    /\ UNCHANGED dev

\* transfer_wait() found the ring done: the transfer waited for ended, or so
\* the ring says.
Ended ==
    /\ op.at \in {"cbw", "data", "status", "again"}
    /\ LET cc == ring[op.end] IN
         \/ /\ cc = "success"
            /\ CASE op.at = "cbw" /\ block # "none" -> SendData
                 [] op.at = "data" \/ (op.at = "cbw" /\ block = "none") -> AskStatus("status")
                 [] OTHER -> Judge
         \/ /\ cc = "stall"
            /\ Goto("clear", CASE op.at = "data" -> "status"
                               [] op.at = "status" -> "again"
                               [] OTHER -> "broken", 0)
            /\ UNCHANGED dev
         \/ /\ cc \in {"error", "stopped"}
            /\ Return(-1, dev.gone)
            /\ UNCHANGED dev
    /\ UNCHANGED plug

\* transfer_wait() gave up: it polled once more, and the port is empty or the
\* time is over.
NotEnded ==
    /\ op.at \in {"cbw", "data", "status", "again"}
    /\ ring[op.end] = "none" /\ Polled
    /\ dev' = not_ended
    /\ Return(-1, not_ended.gone)
    /\ UNCHANGED plug
-----------------------------------------------------------------------------
\* usb::control() to the device: OK, or no answer (and then perhaps gone).
\* A request not answered in time may still have been carried out.
Answered == ~dev.gone /\ Present
Unanswered == dev.gone \/ ~Present \/ ~ControlsAnswer

\* usb::clear_halt(): the endpoint is reset only if the device agreed.
clear_halt(e) ==
    \/ Answered /\ reset_endpoint(e) /\ UNCHANGED dev
    \/ Unanswered /\ dev' = not_ended /\ UNCHANGED <<ring, queue, halted>>

\* bulk(): the halt of a stalled endpoint is cleared, whatever comes of it,
\* and bot_transport goes on.
ClearHalt ==
    /\ op.at = "clear"
    /\ Polled /\ clear_halt(op.end)
    /\ op' = [op EXCEPT !.at = "cleared"]
    /\ UNCHANGED <<plug, event, block, moved, csw, unit>>

\* The next transfer is not started once the device is known to be gone.
AfterClear ==
    /\ op.at = "cleared"
    /\ IF op.then = "broken" \/ dev.gone THEN Return(-1, dev.gone) /\ UNCHANGED dev
                                         ELSE AskStatus(op.then)
    /\ UNCHANGED plug

\* reset_recovery(): the class reset, then both halts; no result is looked at.
ResetDevice ==
    /\ op.at = "reset" /\ Polled
    /\ \/ Answered /\ unit' = Fresh /\ UNCHANGED dev
       \/ Unanswered /\ dev' = not_ended /\ unit' \in {unit} \cup (IF Present THEN {Fresh} ELSE {})
    /\ op' = [op EXCEPT !.at = "clear in"]
    /\ UNCHANGED <<plug, ring, event, queue, halted, block, moved, csw>>

RecoverHalt(at, e, next) ==
    /\ op.at = at
    /\ Polled /\ clear_halt(e)
    /\ op' = [op EXCEPT !.at = next]
    /\ UNCHANGED <<plug, event, block, moved, csw, unit>>

\* A slip: the IN endpoint is not cleared.
reset_recoveryOut ==
    \/ ResetDevice
    \/ op.at = "clear in" /\ op' = [op EXCEPT !.at = "clear out"]
       /\ UNCHANGED <<plug, dev, transferVars>>
    \/ RecoverHalt("clear out", "out", "done")

reset_recovery ==
    \/ ResetDevice
    \/ RecoverHalt("clear in", "in", "clear out")
    \/ RecoverHalt("clear out", "out", "done")

Command == Ended \/ NotEnded \/ ClearHalt \/ AfterClear \/ reset_recovery
-----------------------------------------------------------------------------
(***************************************************************************)
(* A command that succeeded is the one that was sent: the status block it  *)
(* was judged by is the device's answer to this command, and the data      *)
(* phase moved its data or was cut short by the device, although           *)
(* bot_transport compares no tag and on_transfer_event does not ask which  *)
(* transfer an event is for.                                               *)
(***************************************************************************)
OwnAnswer ==
    op.at = "done" /\ op.result = 0 =>
        /\ csw.of = "this"
        /\ block = "none" \/ moved \in {"this", "cut"}
=============================================================================
