---------------------------- MODULE MC_UserSync -----------------------------
(* Three threads, so that two can want the lock while a third has it; three *)
(* events and handles: the lock's and two for WaitAny.  Two of the threads  *)
(* call for events of the program's own and one of them waits, so that what *)
(* it waits for is set, reset and closed under it; all three use the lock.  *)
EXTENDS UserSync
=============================================================================
