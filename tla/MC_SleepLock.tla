---------------------------- MODULE MC_SleepLock ----------------------------
(* Three threads, so that one can wait behind a waiter; four tickets, so   *)
(* that the counters wrap and all but one ticket can be out.               *)
EXTENDS SleepLock
=============================================================================
