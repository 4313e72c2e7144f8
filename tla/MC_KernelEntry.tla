-------------------------- MODULE MC_KernelEntry --------------------------
(***************************************************************************)
(* Two CPUs with a thread each, both of one process; the boot CPU's thread *)
(* also starts programs.  The lines are the tick and the keyboard's.       *)
(***************************************************************************)
EXTENDS KernelEntry, TLC

CONSTANTS c0, c1, t0, t1, space

MCCpus == {c0, c1}

MCThreads == {t0, t1}

MCHomeCpu == t0 :> c0 @@ t1 :> c1

MCSpaceOf == t0 :> space @@ t1 :> space

MCLines == {0, 1}
=============================================================================
