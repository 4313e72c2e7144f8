--------------------------- MODULE MC_BlockCache ---------------------------
(* A disk with a partition of three sectors behind its table, and one       *)
(* buffer less than that: sectors are evicted, coalesced, read as ranges.   *)
(* The registry is full with the disk and its partition, so that a disk     *)
(* plugged in again is without one until the old entries are collected.     *)
EXTENDS BlockCache, TLC

CONSTANTS hd, old, new, b1, b2

MC_Size == [m \in {hd} |-> 4]
MC_Layout == [m \in {hd} |-> <<[first |-> 1, count |-> 3]>>]
MC_Symmetry == Permutations(Bufs)
=============================================================================
