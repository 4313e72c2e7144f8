---------------------------- MODULE UsbHotplug ----------------------------
(***************************************************************************)
(* A root port, the disks plugged into it, the usb process that attaches   *)
(* and detaches them (drivers/usb/usb.cpp) and a process that reads and    *)
(* writes the disk meanwhile. Both work under the disks' lock              *)
(* (block::guard), which is handed on first come, first served (module     *)
(* SleepLock); the timer tick and the user's hand heed no lock.            *)
(***************************************************************************)
EXTENDS MassStorage

VARIABLES
    plugs,      \* devices plugged in so far
    csc,        \* PORTSC.CSC: the connection changed since it was cleared
    enabled,    \* PORTSC.PED: the device in the port was reset
    notice,     \* a port status change event is on the event ring
    changed,    \* the port's bit of hc->port_changed
    lock,       \* who holds the disks' lock
    usb,        \* where the usb process is
    tries       \* TEST UNIT READYs that failed in a row

portVars == <<plug, plugs, csc, enabled, notice, changed>>
vars == <<transferVars, op, dev, portVars, lock, usb, tries>>

Init ==
    /\ TransfersInit
    /\ op = Idle /\ dev = NoDevice
    /\ plug = 0 /\ plugs = 0
    /\ csc = FALSE /\ enabled = FALSE /\ notice = FALSE /\ changed = FALSE
    /\ lock = "nobody" /\ usb = "waits" /\ tries = 0
-----------------------------------------------------------------------------
(***************************************************************************)
(* The user's hand. The controller reports every change of the connection  *)
(* by an event; an empty port is not enabled.                              *)
(***************************************************************************)
Plug ==
    /\ plug = 0 /\ plugs < MaxPlugs
    /\ plugs' = plugs + 1 /\ plug' = plugs'
    /\ csc' = TRUE /\ notice' = TRUE
    /\ UNCHANGED <<transferVars, op, dev, enabled, changed, lock, usb, tries>>

Unplug ==
    /\ plug # 0
    /\ plug' = 0 /\ enabled' = FALSE
    /\ csc' = TRUE /\ notice' = TRUE
    /\ UNCHANGED <<transferVars, op, dev, plugs, changed, lock, usb, tries>>

\* The controller runs the transfers of the device in the port. That of a
\* command block nobody took is still queued when the device is reset, until
\* reset_recovery comes to the OUT endpoint.
Transfer ==
    /\ Present
    /\ op.at \in {"clear in", "clear out"} => TakesLate
    /\ Device
    /\ UNCHANGED <<op, dev, portVars, lock, usb, tries>>

\* A slip: the changes seen while the usb process works are taken for those
\* its own port reset leaves behind.
notedUnlessBusy == changed \/ (notice /\ lock # "usb")

\* process_events(), the port status change events of it.
noted == changed \/ notice

\* process_events(), by the timer tick (usb::tick) or by a process that waits
\* for a transfer or a command: what the event ring holds is delivered.
process_events ==
    /\ notice \/ event # None
    /\ changed' = noted /\ notice' = FALSE
    /\ ring' = on_transfer_event /\ event' = None
    /\ UNCHANGED <<queue, halted, unit, block, moved, csw, op, dev,
                   plug, plugs, csc, enabled, lock, usb, tries>>
-----------------------------------------------------------------------------
\* A process reads, writes or flushes the disk: one command under the lock
\* the usb process does not wait for already. msc_read and its like.
Request ==
    /\ lock = "nobody" /\ usb # "queued" /\ dev.driver
    /\ Len(queue["out"]) < MaxQueued
    /\ lock' = "reader"
    /\ IF dev.gone THEN Goto("done", "idle", -1) /\ UNCHANGED dev
                   ELSE \E dir \in Directions : SendCommand(dir)
    /\ UNCHANGED <<portVars, usb, tries>>

Requested ==
    /\ lock = "reader" /\ op.at = "done"
    /\ lock' = "nobody" /\ op' = Idle
    /\ UNCHANGED <<transferVars, dev, portVars, usb, tries>>

\* A step of the command on its way.
CommandStep ==
    /\ Command
    /\ UNCHANGED <<plugs, csc, enabled, notice, changed, lock, usb, tries>>
-----------------------------------------------------------------------------
(***************************************************************************)
(* The usb process.                                                        *)
(***************************************************************************)
At(here, next) == usb = here /\ usb' = next

\* hotplug_main(): woken by a change, it lines up for the lock.
Wake ==
    /\ At("waits", "queued") /\ changed
    /\ UNCHANGED <<transferVars, op, dev, portVars, lock, tries>>
Lock ==
    /\ At("queued", "looks") /\ lock = "nobody" /\ lock' = "usb"
    /\ UNCHANGED <<transferVars, op, dev, portVars, tries>>

\* handle_changes(): as long as there is a change, take it.
take_port_change ==
    /\ At("looks", "took") /\ changed
    /\ changed' = FALSE
    /\ UNCHANGED <<transferVars, op, dev, plug, plugs, csc, enabled, notice, lock, tries>>
Unlock ==
    /\ At("looks", "waits") /\ ~changed
    /\ lock' = "nobody"
    /\ UNCHANGED <<transferVars, op, dev, portVars, tries>>

\* detach(): after disable_slot no event reaches the rings, which are freed
\* with the driver's buffer; the disk is gone.
detach == dev' = NoDevice /\ ring' = None /\ event' = None /\ block' = "none" /\ moved' = "nobody"
          /\ queue' = [e \in Ends |-> <<>>] /\ halted' = [e \in Ends |-> FALSE]
          /\ unit' = Fresh /\ csw' = Blank

\* A slip: a device that is connected has been there all the time.
leftByLevel == dev.of # 0 /\ plug = 0
\* port_changed(): the device is gone from an empty port, and from one that
\* saw a new connection.
left == dev.of # 0 /\ (plug = 0 \/ csc)

port_changed ==
    /\ usb = "took"
    /\ csc' = FALSE
    /\ IF left THEN detach ELSE UNCHANGED <<transferVars, dev>>
    /\ usb' = IF plug = 0 \/ dev'.of # 0 THEN "looks" ELSE "debounces"
    /\ UNCHANGED <<op, plug, plugs, enabled, notice, changed, lock, tries>>

Debounced ==
    /\ usb = "debounces"
    /\ usb' = IF plug # 0 /\ dev.of = 0 THEN "resets" ELSE "looks"
    /\ UNCHANGED <<transferVars, op, dev, portVars, lock, tries>>

\* reset_port(), to the write that starts the reset ...
ResetStart ==
    /\ At("resets", "resetting")
    /\ csc' = FALSE
    /\ UNCHANGED <<transferVars, op, dev, plug, plugs, enabled, notice, changed, lock, tries>>
\* ... to its completion, a change of the port too, or the timeout ...
ResetDone ==
    /\ usb = "resetting"
    /\ IF plug = 0 THEN usb' = "looks" /\ UNCHANGED <<enabled, notice>>
                   ELSE usb' = "reset" /\ enabled' = TRUE /\ notice' = TRUE
    /\ UNCHANGED <<transferVars, op, dev, plug, plugs, csc, changed, lock, tries>>
\* ... the clearing of the changes, a new connection's among them ...
ResetCleared ==
    /\ At("reset", "cleared")
    /\ csc' = FALSE
    /\ UNCHANGED <<transferVars, op, dev, plug, plugs, enabled, notice, changed, lock, tries>>
\* ... and the look at PED.
ResetChecked ==
    /\ usb = "cleared"
    /\ usb' = IF enabled THEN "addresses" ELSE "looks"
    /\ UNCHANGED <<transferVars, op, dev, portVars, lock, tries>>

\* attach(): Address Device fails on a port that is not enabled.
address_device ==
    /\ usb = "addresses"
    /\ IF enabled THEN usb' = "describes" /\ dev' = [NoDevice EXCEPT !.of = plug]
                  ELSE usb' = "looks" /\ UNCHANGED dev
    /\ UNCHANGED <<transferVars, op, portVars, lock, tries>>

\* The descriptors: control requests. An entry whose descriptors cannot be
\* read stays, without a driver; so does one no driver wants. A disk's
\* probe starts by asking it who it is.
read_descriptors ==
    /\ usb = "describes"
    /\ \/ /\ Answered /\ At("describes", "probes")
          /\ \E dir \in {"in", "none"} : SendCommand(dir)
          /\ tries' = 0
       \/ /\ At("describes", "looks")
          /\ dev' = IF Present THEN dev ELSE not_ended
          /\ UNCHANGED <<transferVars, op, tries>>
    /\ UNCHANGED <<portVars, lock>>

\* start(): the disk is registered once it answered; a command that failed
\* is tried again for a while, or the probe gives up.
Probed ==
    /\ usb = "probes" /\ op.at = "done"
    /\ \/ /\ op.result = 0 /\ usb' = "looks"
          /\ dev' = [dev EXCEPT !.driver = TRUE]
          /\ op' = Idle
          /\ UNCHANGED <<transferVars, tries>>
       \/ /\ op.result # 0 /\ tries < MaxTries /\ ~dev.gone
          /\ tries' = tries + 1
          /\ \E dir \in {"in", "none"} : SendCommand(dir)
          /\ UNCHANGED usb
       \/ /\ op.result # 0 /\ usb' = "looks" /\ op' = Idle
          /\ UNCHANGED <<transferVars, dev, tries>>
    /\ UNCHANGED <<portVars, lock>>

UsbProcess ==
    \/ Wake \/ Lock \/ take_port_change \/ Unlock \/ port_changed \/ Debounced
    \/ ResetStart \/ ResetDone \/ ResetCleared \/ ResetChecked
    \/ address_device \/ read_descriptors \/ Probed

Next ==
    \/ Plug \/ Unplug \/ Transfer \/ process_events
    \/ Request \/ CommandStep \/ Requested
    \/ UsbProcess

\* The timer ticks; the processes are scheduled, and every wait of theirs
\* has a timeout. Nothing is asked of the device or of the user.
Fairness ==
    /\ WF_vars(process_events) /\ WF_vars(UsbProcess)
    /\ WF_vars(CommandStep) /\ WF_vars(Requested)

Spec == Init /\ [][Next]_vars /\ Fairness
-----------------------------------------------------------------------------
(***************************************************************************)
(* A device that left the port, or was changed for another, does not stay  *)
(* unnoticed: as long as port_changed has not detached it, a change is on  *)
(* the event ring, noted in port_changed, or in the usb process's hands.   *)
(* reset_port clears CSC twice without looking at it.                      *)
(***************************************************************************)
NoStaleDevice ==
    dev.of \notin {0, plug} =>
        /\ notice \/ changed \/ usb = "took"
        /\ plug = 0 \/ csc

(***************************************************************************)
(* The usb process catches up: a device that stays plugged in is attached, *)
(* and a port that stays empty has no device, however its plugging fell    *)
(* between the steps of a reset, an attach or a command on its way.        *)
(***************************************************************************)
PortServed ==
    \A p \in 0 .. MaxPlugs : (plug = p) ~> (plug # p \/ dev.of = p)
=============================================================================
