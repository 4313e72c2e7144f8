------------------------------ MODULE MC_Files ------------------------------
(***************************************************************************)
(* A volume of three clusters whose directories have one slot in each, a   *)
(* cache of three vnodes, a handle for files and one for folders.          *)
(***************************************************************************)
EXTENDS Files

Symmetry == Permutations(Clusters \ {Root}) \cup Permutations(Names)
=============================================================================
