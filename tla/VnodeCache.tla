----------------------------- MODULE VnodeCache -----------------------------
(***************************************************************************)
(* The vnode cache (fs/vfs.cpp) over one FAT32 volume, and the vnodes the  *)
(* FAT32 driver files in it (fs/fat32/vnode.cpp), as operators on a        *)
(* record s of                                                             *)
(*                                                                         *)
(*   d        the volume (FatVolume)                                       *)
(*   vn[v]    the vnodes there are, each with its fat_node                 *)
(*   hand[h]  the opens in progress and the open files, by their vnode     *)
(*                                                                         *)
(* A vnode in the cache is named by the key it is filed under, so a slot   *)
(* of vnode_pool is a key in vn's domain; one that is referred to after it *)
(* left the cache is <<"gone", n>>. An operator returns the record after   *)
(* the call. Where the call also returns a vnode, it is <<record, vnode>>, *)
(* Nobody for a failure. Which of the vnodes that may be evicted comes     *)
(* first in the pool is left open.                                         *)
(***************************************************************************)
EXTENDS FatVolume

CONSTANTS MaxVnodes,        \* MAX_VNODES
          Handles           \* opens in progress and open files there may be at once

ASSUME VnodesAssumption == MaxVnodes \in Nat \ {0} /\ IsFiniteSet(Handles)

\* The keys: (parent, slot) for a file, the first cluster for a directory.
file_key(parent, slot) == <<"file", parent, slot>>
dir_key(c) == <<"dir", c>>
Nobody == <<>>

NoPos == [index |-> 0, cluster |-> None]

\* A vnode as built from its record: place is where the record is (entry_lba,
\* entry_off), pos the cached chain position (last_index, last_cluster), which
\* is followed for files only: the chain of a directory never gets shorter.
FileNode(place, r) ==
    [refs |-> 0, dir |-> FALSE, first |-> r.first, place |-> place,
     size |-> r.size, pos |-> NoPos, dirty |-> FALSE, unlinked |-> FALSE]
DirNode(c) == [FileNode(None, NoRec) EXCEPT !.dir = TRUE, !.first = c]

Cached(s) == {v \in DOMAIN s.vn : v[1] # "gone"}
Without(s, v) == [s EXCEPT !.vn = Restrict(@, DOMAIN @ \ {v})]
-----------------------------------------------------------------------------
touch(s, v) == [s EXCEPT !.vn[v].dirty = TRUE]

\* fat_release() that writes the record back and leaves the clusters.
releaseKeeping(s, v) ==
    LET n == s.vn[v] IN
    [Without(s, v) EXCEPT !.d = IF n.dirty /\ ~n.dir /\ ~n.unlinked
                                THEN update_entry(@, n.place, n.first, n.size) ELSE @]

\* fat_release() and the end of the structures.
release(s, v) ==
    LET n == s.vn[v]
        d == IF n.dirty /\ ~n.dir /\ ~n.unlinked
             THEN update_entry(s.d, n.place, n.first, n.size) ELSE s.d
    IN [Without(s, v) EXCEPT !.d = IF n.unlinked THEN free_chain(d, n.first) ELSE d]

\* unref() where the caller may sleep.
unref(s, v) == IF s.vn[v].refs > 1 THEN [s EXCEPT !.vn[v].refs = @ - 1] ELSE release(s, v)

\* vnode v under another name, for everybody who refers to it.
Renamed(s, v, w) ==
    [Without(s, v) EXCEPT !.vn = @ @@ (w :> s.vn[v]),
                          !.hand = [h \in Handles |-> IF @[h].vn = v THEN [@[h] EXCEPT !.vn = w] ELSE @[h]]]

\* invalidate(): out of the cache, and the cache's reference with it. What is
\* dirty about a vnode is of no interest once its name is gone.
invalidate(s, v) ==
    LET gone == <<"gone", Min({n \in 1 .. Cardinality(DOMAIN s.vn) : <<"gone", n>> \notin DOMAIN s.vn})>>
    IN IF s.vn[v].refs = 1 THEN release(s, v)
       ELSE Renamed([s EXCEPT !.vn[v].refs = @ - 1, !.vn[v].dirty = FALSE], v, gone)

\* An eviction that looks at the dirty mark only.
find_evictableAny(s) == {v \in Cached(s) : ~s.vn[v].dirty}
find_evictable(s) == {v \in Cached(s) : s.vn[v].refs = 1 /\ ~s.vn[v].dirty}

\* get_cached(), and the node its caller attaches to a new vnode: the outcomes.
\* A full cache gives up a clean vnode that nobody else holds, or ENFILE.
get_cached(s, key, node) ==
    LET room == IF Cardinality(Cached(s)) < MaxVnodes THEN {s} ELSE {release(s, v) : v \in find_evictable(s)} IN
    CASE key \in DOMAIN s.vn -> {<<[s EXCEPT !.vn[key].refs = @ + 1], key>>}
      [] key \notin DOMAIN s.vn /\ room = {} -> {<<s, Nobody>>}
      [] OTHER -> {<<[t EXCEPT !.vn = @ @@ (key :> [node EXCEPT !.refs = 2])], key>> : t \in room}

\* rekey(): whatever is cached under the new key is dropped first.
rekey(s, v, key) ==
    Renamed(IF key \in DOMAIN s.vn \ {v} THEN invalidate(s, key) ELSE s, v, key)
-----------------------------------------------------------------------------
\* vnode_from_record() of slot i of the directory at c.
vnode_from_record(s, c, i) ==
    LET p == Place(s.d, c, i)  r == At(s.d, p) IN
    IF r.dir THEN get_cached(s, dir_key(r.first), DirNode(r.first))
    ELSE get_cached(s, file_key(c, i), FileNode(p, r))

\* cluster_at(): the vnode with its position cache at the index-th cluster,
\* walking from the cached position when that is not past the index.
cluster_at(d, n, index) ==
    LET onward == n.pos.cluster # None /\ index >= n.pos.index
        chain == ChainFrom(d.fat, IF onward THEN n.pos.cluster ELSE n.first)
        steps == IF onward THEN index - n.pos.index ELSE index
    IN IF n.first = None \/ steps >= Len(chain) THEN n
       ELSE [n EXCEPT !.pos = [index |-> index, cluster |-> chain[steps + 1]]]

\* chain_append() of cluster c, from the cached position on.
chain_append(s, v, c) ==
    LET n == s.vn[v]
        from == IF n.pos.cluster # None THEN n.pos.cluster ELSE n.first
        base == IF n.pos.cluster # None THEN n.pos.index ELSE 0
        chain == ChainFrom(s.d.fat, from)
    IN IF n.first = None
       THEN [s EXCEPT !.vn[v].first = c, !.vn[v].pos = [index |-> 0, cluster |-> c]]
       ELSE [s EXCEPT !.d.fat[Last(chain)] = c,
                      !.vn[v].pos = [index |-> base + Len(chain), cluster |-> c]]

\* extend_to() a size of n clusters: the outcomes, one for each way the
\* allocator can serve it, fewer clusters than asked for included (ENOSPC).
extend_to(s, v, n) ==
    LET size == s.vn[v].size
        t == IF size > 0 /\ n > size
             THEN [s EXCEPT !.vn[v] = cluster_at(s.d, @, size - 1)] ELSE s
        more == Min({Max({n - size, 0}), Cardinality(Free(s.d))})
        extend(u, c) == chain_append([u EXCEPT !.d = alloc_cluster(@, c)], v, c)
    IN {FoldLeft(extend, t, new) : new \in {q \in [1 .. more -> Free(s.d)] : IsInjective(q)}}

\* write_at() and the update of the record, once there are clusters enough;
\* the last cluster written is the n-th.
Written(s, v, n) ==
    LET m == [cluster_at(s.d, s.vn[v], n - 1) EXCEPT !.size = Max({@, n}), !.dirty = FALSE] IN
    [s EXCEPT !.vn[v] = m, !.d = update_entry(@, m.place, m.first, m.size)]

\* A truncation that forgets the cached position.
fat_truncateKeepingPos(s, v) ==
    LET n == s.vn[v]  m == [n EXCEPT !.first = None, !.size = 0, !.dirty = FALSE] IN
    IF n.size = 0 THEN s
    ELSE [s EXCEPT !.vn[v] = m, !.d = update_entry(free_chain(@, n.first), m.place, None, 0)]

\* fat_truncate(v, 0). truncate() returns at once on a size that is zero.
fat_truncate(s, v) ==
    LET n == s.vn[v]
        m == IF n.size = 0 THEN [n EXCEPT !.dirty = FALSE]
             ELSE [n EXCEPT !.first = None, !.size = 0, !.pos = NoPos, !.dirty = FALSE]
        d == IF n.size = 0 THEN s.d ELSE free_chain(s.d, n.first)
    IN [s EXCEPT !.vn[v] = m, !.d = update_entry(d, m.place, m.first, m.size)]
=============================================================================
