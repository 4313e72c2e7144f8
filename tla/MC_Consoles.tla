---------------------------- MODULE MC_Consoles ----------------------------
(***************************************************************************)
(* Three programs, consoles included, on one screen and in the background; *)
(* and two on two screens and in the background.                           *)
(***************************************************************************)
EXTENDS Consoles

MC_Sizes == {[pids |-> Pids, screens |-> {1}], [pids |-> {1, 2}, screens |-> Shown]}
=============================================================================
