----------------------------- MODULE FatVolume -----------------------------
(***************************************************************************)
(* A FAT32 volume as the code sees it through the sector cache: the        *)
(* allocation table (fs/fat32/fat.cpp) and the directories                 *)
(* (fs/fat32/dir.cpp), as operators on a record d of                       *)
(*                                                                         *)
(*   fat[c]   table entry of cluster c: FREE, EOC or the next cluster      *)
(*   rec[c]   the slots of a directory's cluster c                         *)
(*   up[c]    the ".." of the directory that starts at c                   *)
(*   free     fat_super::free_count                                        *)
(*                                                                         *)
(* Sizes are in clusters. A record with its long-name slots is one slot.   *)
(* Which free cluster the hint leads the allocator to is left open.        *)
(***************************************************************************)
EXTENDS Integers, SequencesExt

CONSTANTS
    Clusters, Root,     \* the clusters of the volume, the root directory's
    Names,              \* names of files and folders
    PerCluster,         \* slots of a directory's cluster
    FREE, EOC, None

ASSUME VolumeAssumption ==
    /\ IsFiniteSet(Clusters) /\ Root \in Clusters
    /\ PerCluster \in Nat \ {0}
    /\ {FREE, EOC, None} \cap Clusters = {} /\ None \notin Names

Slots == 0 .. PerCluster - 1

\* A slot that is free (0xE5) or past the end of the directory (0x00).
NoRec == [name |-> None, dir |-> FALSE, first |-> None, size |-> 0]
Blank == [i \in Slots |-> NoRec]

Formatted ==
    [fat |-> [c \in Clusters |-> IF c = Root THEN EOC ELSE FREE],
     rec |-> [c \in Clusters |-> Blank],
     up |-> [c \in Clusters |-> None],
     free |-> Cardinality(Clusters) - 1]
-----------------------------------------------------------------------------
\* The clusters from c on, following the links (chain_advance); a loop is cut
\* off after one cluster more than there are.
ChainFrom(link, c) ==
    LET walk[n \in 0 .. Cardinality(Clusters)] ==
            IF n = 0 THEN IF c \in Clusters THEN <<c>> ELSE <<>>
            ELSE LET p == walk[n - 1] IN
                 IF Len(p) = n /\ link[p[n]] \in Clusters THEN Append(p, link[p[n]]) ELSE p
    IN walk[Cardinality(Clusters)]

Free(d) == {c \in Clusters : d.fat[c] = FREE}

\* alloc_cluster() of c, and the zeroes that every caller fills it with.
alloc_cluster(d, c) ==
    [d EXCEPT !.fat[c] = EOC, !.free = IF @ > 0 THEN @ - 1 ELSE @, !.rec[c] = Blank]

free_chain(d, c) ==
    LET chain == ToSet(ChainFrom(d.fat, c)) IN
    [d EXCEPT !.fat = [x \in Clusters |-> IF x \in chain THEN FREE ELSE @[x]],
              !.up = [x \in Clusters |-> IF x \in chain THEN None ELSE @[x]],
              !.free = @ + Cardinality(chain)]
-----------------------------------------------------------------------------
\* The slots of the directory at cluster dir, by number, and where they are
\* (slot_location).
Indices(d, dir) == 0 .. Len(ChainFrom(d.fat, dir)) * PerCluster - 1
Place(d, dir, i) == <<ChainFrom(d.fat, dir)[i \div PerCluster + 1], i % PerCluster>>
At(d, p) == d.rec[p[1]][p[2]]
Put(d, p, r) == [d EXCEPT !.rec[p[1]] = [@ EXCEPT ![p[2]] = r]]

\* find(): the slot with the name. A directory that was removed under its
\* holder has no first cluster, and no slots.
find(d, dir, name) == {i \in Indices(d, dir) : At(d, Place(d, dir, i)).name = name}
Empty(d, dir) == \A i \in Indices(d, dir) : At(d, Place(d, dir, i)) = NoRec

grow_dir(d, dir, c) == [alloc_cluster(d, c) EXCEPT !.fat[Last(ChainFrom(d.fat, dir))] = c]

\* reserve_run(): the volume and the slot for a new record, one for each
\* cluster the directory may have to grow by. None: ENOSPC, or no directory.
reserve_run(d, dir) ==
    LET free == {i \in Indices(d, dir) : At(d, Place(d, dir, i)) = NoRec} IN
    CASE dir = None -> {}
      [] free # {} -> {[d |-> d, slot |-> Min(free)]}
      [] OTHER -> {[d |-> grow_dir(d, dir, c), slot |-> Cardinality(Indices(d, dir))] : c \in Free(d)}

create(d, dir, r) ==
    IF find(d, dir, r.name) # {} THEN {}
    ELSE {[d |-> Put(e.d, Place(e.d, dir, e.slot), r), slot |-> e.slot] : e \in reserve_run(d, dir)}

remove(d, dir, i) == Put(d, Place(d, dir, i), NoRec)

\* update_entry(): size and first cluster into the slot at place p, whatever
\* it holds. In a slot that is free, or in a cluster that is no directory's
\* any more, nothing looks at them.
update_entry(d, p, first, size) ==
    IF At(d, p) = NoRec THEN d
    ELSE Put(d, p, [At(d, p) EXCEPT !.first = first, !.size = size])

\* dir_contains(): is the directory at cluster c `ancestor', or below it?
dir_contains(d, ancestor, c) == ancestor \in ToSet(ChainFrom(d.up, c))
=============================================================================
