---------------------------- MODULE MC_Scheduler ----------------------------
(***************************************************************************)
(* Small instances of Scheduler; the bounds are in the configurations.     *)
(*   Scheduler.cfg        three threads, two processes, two CPUs: a        *)
(*                        program with a thread on each CPU beside another *)
(*                        program, every way to start, sleep and end.      *)
(*   SchedulerLive.cfg    three threads of one process on two CPUs: two of *)
(*                        them share a CPU, so the round robin has to      *)
(*                        choose, and the third is elsewhere.              *)
(*   SchedulerDoomed.cfg  two threads are enough for what it shows.        *)
(* Wrap = 4 lets the tickets of the disks' lock wrap round.                *)
(***************************************************************************)
EXTENDS Scheduler
=============================================================================
