-------------------------------- MODULE Files --------------------------------
(***************************************************************************)
(* Open files on a mounted FAT32 volume: the vnode operations of           *)
(* fs/fat32/vnode.cpp, the open files of fs/file.cpp and fs/fileio.cpp,    *)
(* the mount table of fs/vfs.cpp and the operations on names of            *)
(* cpu/sffile.cpp.                                                         *)
(*                                                                         *)
(* Every vnode operation runs under the disks' lock (SleepLock), so it is  *)
(* one step; an open takes the lock once to find the file and once more to *)
(* truncate it, and other processes come in between. The sector cache      *)
(* below is summed up by what a power cut can undo: whether the volume's   *)
(* tables and directories have sectors that are only in the cache          *)
(* (`unsaved'), and the clean flag in the cache and on the disk.           *)
(***************************************************************************)
EXTENDS VnodeCache

CONSTANTS
    Folders,            \* bound: the handles that are only ever folders'
    MaxFiles,           \* MAX_FILES
    MaxDeferred,        \* MAX_DEFERRED
    MaxSize,            \* bound: clusters of a file
    WriteDeleted,       \* does a file get written or truncated after its deletion?
    UmountOpening       \* does an unmount come between the halves of an open?

VARIABLES
    fs,                 \* volume, vnodes and open files (VnodeCache)
    mounted,            \* mount::active
    leaving,            \* an unmount has its last flush to do
    deferred,           \* vnodes whose last reference the reaper is to drop
    unsaved, flag, dflag \* sectors only in the cache; clean flag there and on the disk

vars == <<fs, mounted, leaving, deferred, unsaved, flag, dflag>>
disk == <<leaving, flag, dflag>>

NoHand == [vn |-> Nobody, access |-> "none", opening |-> FALSE]

Unmounted(d) == [d |-> d, vn |-> <<>>, hand |-> [h \in Handles |-> NoHand]]

Init ==
    /\ fs = Unmounted(Formatted)
    /\ mounted = FALSE /\ leaving = FALSE /\ deferred = <<>>
    /\ unsaved = FALSE /\ flag = "clean" /\ dflag = "clean"

hand == fs.hand
Opened == {h \in Handles : hand[h] # NoHand /\ ~hand[h].opening}
root == dir_key(Root)

\* The directories a call can start from: the root, and one that a handle (or
\* a walk that has come as far) holds. One that was removed has no cluster.
Bases == IF mounted THEN {root} \cup {v \in {hand[h].vn : h \in Handles} \ {Nobody} : fs.vn[v].dir} ELSE {}

\* One step under the lock that leaves the volume and the vnodes as s.
Becomes(s) == fs' = s /\ unsaved' = (unsaved \/ s.d # fs.d)
-----------------------------------------------------------------------------
\* open_target() of v, which s gives a reference to: a check, the open file.
\* A call that fails gives the reference back.
open_target(s, h, v, access) ==
    IF (s.vn[v].dir /\ access = "write") \/ Cardinality(Opened) = MaxFiles
    THEN unref([s EXCEPT !.hand[h] = NoHand], v)
    ELSE [s EXCEPT !.hand[h] = [vn |-> v, access |-> access, opening |-> FALSE]]

\* do_openat() of a name in b that is there. Nothing else gets in between the
\* lookup and the open file, unless the file is to be truncated first.
do_openat(h, b, name, access, truncate) ==
    /\ hand[h] = NoHand /\ (truncate => access = "write")
    /\ \E i \in find(fs.d, fs.vn[b].first, name) :
          LET isdir == At(fs.d, Place(fs.d, fs.vn[b].first, i)).dir IN
          /\ h \in Folders => isdir
          /\ \E r \in vnode_from_record(fs, fs.vn[b].first, i) :
                Becomes(CASE r[2] = Nobody -> r[1]
                          [] r[2] # Nobody /\ truncate /\ ~isdir ->
                                [r[1] EXCEPT !.hand[h] = [vn |-> r[2], access |-> access, opening |-> TRUE]]
                          [] OTHER -> open_target(r[1], h, r[2], access))
    /\ UNCHANGED <<mounted, deferred, disk>>

\* The rest of an open with O_TRUNC, when it has the disks' lock again.
OpenTruncated(h) ==
    LET v == hand[h].vn IN
    /\ hand[h].opening
    /\ fs.vn[v].unlinked => WriteDeleted
    /\ Becomes(open_target(fat_truncate(fs, v), h, v, hand[h].access))
    /\ UNCHANGED <<mounted, deferred, disk>>

\* do_openat() with O_CREAT of a name that is not there: fat_create(). The
\* record stays when the vnode cache has no room (ENFILE).
fat_create(h, b, name) ==
    LET dir == fs.vn[b].first  r == [NoRec EXCEPT !.name = name] IN
    /\ hand[h] = NoHand /\ h \notin Folders
    /\ \E e \in create(fs.d, dir, r) :
          \E g \in get_cached([fs EXCEPT !.d = e.d], file_key(dir, e.slot),
                              FileNode(Place(e.d, dir, e.slot), r)) :
             Becomes(IF g[2] = Nobody THEN g[1] ELSE open_target(touch(g[1], b), h, g[2], "write"))
    /\ UNCHANGED <<mounted, deferred, disk>>

\* fat_write() of a piece that ends in the n-th cluster. When the volume is
\* full, the clusters that were to be had stay with the file, and its size
\* and its record stay as they were.
fat_write(h, n) ==
    LET v == hand[h].vn IN
    /\ h \in Opened /\ hand[h].access = "write"
    /\ fs.vn[v].unlinked => WriteDeleted
    /\ \E s \in extend_to(fs, v, n) :
          Becomes(IF n - fs.vn[v].size <= Cardinality(Free(fs.d)) THEN Written(s, v, n) ELSE s)
    /\ UNCHANGED <<mounted, deferred, disk>>

\* fat_read() that ends in the n-th cluster: only the cached position moves.
fat_read(h, n) ==
    LET v == hand[h].vn IN
    /\ h \in Opened /\ ~fs.vn[v].dir /\ n <= fs.vn[v].size
    /\ Becomes([fs EXCEPT !.vn[v] = cluster_at(fs.d, @, n - 1)])
    /\ UNCHANGED <<mounted, deferred, disk>>
-----------------------------------------------------------------------------
fat_mkdir(b, name) ==
    LET dir == fs.vn[b].first IN
    /\ \E c \in Free(fs.d) :
          LET d == [alloc_cluster(fs.d, c) EXCEPT !.up[c] = dir] IN
          \E e \in create(d, dir, [name |-> name, dir |-> TRUE, first |-> c, size |-> 0]) :
             Becomes(touch([fs EXCEPT !.d = e.d], b))
    /\ UNCHANGED <<mounted, deferred, disk>>

\* An unlink that leaves a directory's clusters to its vnode as well.
UnlinkedTwice(s, key) ==
    IF key \notin DOMAIN s.vn THEN s
    ELSE invalidate([s EXCEPT !.vn[key].unlinked = TRUE], key)

\* What fat_unlink() and fat_rmdir() do about the vnode of a record that goes,
\* if there is one: it is marked, and leaves the cache. A directory's clusters
\* are not left to it.
Unlinked(s, key) ==
    IF key \notin DOMAIN s.vn THEN s
    ELSE invalidate([s EXCEPT !.vn[key].unlinked = TRUE,
                              !.vn[key].first = IF s.vn[key].dir THEN None ELSE @], key)

fat_unlink(b, name) ==
    LET dir == fs.vn[b].first IN
    /\ \E i \in find(fs.d, dir, name) :
          LET r == At(fs.d, Place(fs.d, dir, i))
              key == file_key(dir, i)
              s == IF key \notin DOMAIN fs.vn THEN [fs EXCEPT !.d = free_chain(@, r.first)]
                   ELSE Unlinked(fs, key)
          IN ~r.dir /\ Becomes(touch([s EXCEPT !.d = remove(@, dir, i)], b))
    /\ UNCHANGED <<mounted, deferred, disk>>

fat_rmdir(b, name) ==
    LET dir == fs.vn[b].first IN
    /\ \E i \in find(fs.d, dir, name) :
          LET r == At(fs.d, Place(fs.d, dir, i))
              s == Unlinked(fs, dir_key(r.first))
          IN /\ r.dir /\ Empty(fs.d, r.first)
             /\ Becomes(touch([s EXCEPT !.d = free_chain(remove(@, dir, i), r.first)], b))
    /\ UNCHANGED <<mounted, deferred, disk>>

\* fat_rename() with RENAME_NOREPLACE, the one way it is called: a new record
\* for the same clusters, "..", the old record, then the cached vnode.
fat_rename(b, name, nb, new) ==
    LET dir == fs.vn[b].first  ndir == fs.vn[nb].first IN
    /\ \E i \in find(fs.d, dir, name) :
          LET r == At(fs.d, Place(fs.d, dir, i)) IN
          /\ ~(r.dir /\ dir_contains(fs.d, r.first, ndir))
          /\ \E e \in create(fs.d, ndir, [r EXCEPT !.name = new]) :
                LET d == IF r.dir THEN [e.d EXCEPT !.up[r.first] = ndir] ELSE e.d
                    s == [fs EXCEPT !.d = remove(d, dir, i)]
                    v == file_key(dir, i)
                    t == IF r.dir \/ v \notin DOMAIN s.vn THEN s
                         ELSE rekey([s EXCEPT !.vn[v].place = Place(d, ndir, e.slot)],
                                    v, file_key(ndir, e.slot))
                IN Becomes(touch(touch(t, b), nb))
    /\ UNCHANGED <<mounted, deferred, disk>>
-----------------------------------------------------------------------------
\* The last reference to an open file goes (file_destroy): a writer's file is
\* flushed to the disk first.
Closes(h, s) ==
    /\ h \in Opened
    /\ IF hand[h].access = "read" THEN Becomes(s) /\ UNCHANGED dflag
       ELSE fs' = s /\ unsaved' = (s.d # fs.d) /\ dflag' = flag
    /\ UNCHANGED <<mounted, leaving, flag>>

Closed(h) == [fs EXCEPT !.hand[h] = NoHand]

file_destroy(h) == Closes(h, unref(Closed(h), hand[h].vn)) /\ UNCHANGED deferred

\* The same where nothing may sleep, the scheduler ending a process: the last
\* reference to a vnode is left to the reaper while its list has room.
DestroyAtEnd(h) ==
    LET v == hand[h].vn  last == fs.vn[v].refs = 1 /\ Len(deferred) < MaxDeferred IN
    /\ Closes(h, IF last THEN Closed(h) ELSE unref(Closed(h), v))
    /\ deferred' = IF last THEN Append(deferred, v) ELSE deferred

reaped(s) == FoldLeft(LAMBDA t, v : unref(t, v), s, deferred)

reap ==
    /\ deferred # <<>> /\ deferred' = <<>>
    /\ Becomes(reaped(fs))
    /\ UNCHANGED <<mounted, disk>>

sync_all ==
    /\ mounted
    /\ fs' = reaped(fs) /\ deferred' = <<>>
    /\ unsaved' = FALSE /\ dflag' = flag
    /\ UNCHANGED <<mounted, leaving, flag>>

\* The cache writes a sector back on its own: the flag's here.
Harden == dflag # flag /\ dflag' = flag /\ UNCHANGED <<fs, mounted, leaving, deferred, unsaved, flag>>
-----------------------------------------------------------------------------
\* mount_at() -> read_super(): the flag goes to the disk as dirty before
\* anything else is written; the root's vnode, with the mount's reference.
Mount ==
    /\ ~mounted /\ ~leaving /\ mounted' = TRUE
    /\ \E g \in get_cached(fs, root, DirNode(Root)) : fs' = g[1]
    /\ flag' = "dirty" /\ dflag' = IF flag = "dirty" THEN dflag ELSE "dirty"
    /\ unsaved' = IF flag = "dirty" THEN unsaved ELSE FALSE
    /\ UNCHANGED <<leaving, deferred>>

\* umount() to the point where the flag is set in the cache: reap, refuse if
\* a file is open, flush (fsync of the root), release and free every cached
\* vnode whatever its count, set the flag.
Swept(s) == FoldSet(LAMBDA v, t : release(t, v), s, Cached(s))

\* An unmount that goes straight to the vnodes, without the flush.
umountUnsynced ==
    LET t == Swept(reaped(fs)) IN
    /\ mounted
    /\ Opened = {}
    /\ UmountOpening \/ \A h \in Handles : hand[h] = NoHand
    /\ fs' = t /\ unsaved' = (unsaved \/ t.d # fs.d)
    /\ deferred' = <<>> /\ mounted' = FALSE /\ leaving' = TRUE
    /\ flag' = "clean" /\ UNCHANGED dflag

umount ==
    LET s == reaped(fs)  t == Swept(s) IN
    /\ mounted
    /\ Opened = {}
    /\ UmountOpening \/ \A h \in Handles : hand[h] = NoHand
    /\ fs' = t /\ unsaved' = (t.d # s.d)
    /\ deferred' = <<>> /\ mounted' = FALSE /\ leaving' = TRUE
    /\ flag' = "clean" /\ dflag' = flag

\* The flushes that end it (set_dirty_bit(), bcache::release()).
umounted ==
    /\ leaving /\ leaving' = FALSE
    /\ unsaved' = FALSE /\ dflag' = flag
    /\ UNCHANGED <<fs, mounted, deferred, flag>>

\* The power goes when every sector that matters is on the disk; what is in
\* memory is gone. (With sectors only in the cache the volume on the disk is
\* a mixture, which the flag on it has to tell.)
PowerCut ==
    /\ ~unsaved /\ (mounted \/ leaving)
    /\ fs' = Unmounted(fs.d)
    /\ mounted' = FALSE /\ leaving' = FALSE /\ deferred' = <<>> /\ flag' = dflag
    /\ UNCHANGED <<unsaved, dflag>>
-----------------------------------------------------------------------------
Next ==
    \/ \E h \in Handles, b \in Bases, name \in Names, access \in {"read", "write"}, truncate \in BOOLEAN :
          do_openat(h, b, name, access, truncate)
    \/ \E h \in Handles, b \in Bases, name \in Names : fat_create(h, b, name)
    \/ \E h \in Handles : OpenTruncated(h)
    \/ \E h \in Handles, n \in 1 .. MaxSize : fat_write(h, n) \/ fat_read(h, n)
    \/ \E h \in Handles : file_destroy(h) \/ DestroyAtEnd(h)
    \/ \E b \in Bases, name \in Names : fat_mkdir(b, name) \/ fat_unlink(b, name) \/ fat_rmdir(b, name)
    \/ \E b, nb \in Bases, name, new \in Names : fat_rename(b, name, nb, new)
    \/ reap \/ sync_all \/ Harden \/ Mount \/ umount \/ umounted \/ PowerCut

Spec == Init /\ [][Next]_vars
-----------------------------------------------------------------------------
Records(d) == {p \in Clusters \X Slots : At(d, p) # NoRec}
Chain(c) == ChainFrom(fs.d.fat, c)

\* A file whose first write found the volume full: it has clusters, and its
\* record does not say so yet.
CutShort(v) ==
    LET n == fs.vn[v] IN
    ~n.dir /\ ~n.unlinked /\ n.first # None /\ At(fs.d, n.place).first = None

\* What has clusters: the root, the records, and the vnodes whose record is
\* gone or does not have them.
Owners ==
    {<<"root">>} \cup {<<"record", p[1], p[2]>> : p \in Records(fs.d)}
    \cup {<<"vnode", 0, 0, v>> : v \in {w \in DOMAIN fs.vn : fs.vn[w].unlinked \/ CutShort(w)}}
FirstOf(o) ==
    CASE o[1] = "root" -> Root
      [] o[1] = "record" -> At(fs.d, <<o[2], o[3]>>).first
      [] o[1] = "vnode" -> fs.vn[o[4]].first
ChainOf(o) == Chain(FirstOf(o))

\* The directories by first cluster, and the one that has record p.
Dirs == {Root} \cup {At(fs.d, p).first : p \in {q \in Records(fs.d) : At(fs.d, q).dir}}
DirsWith(p) == {c \in Dirs : p[1] \in ToSet(Chain(c))}

\* The volume is whole after every operation, whatever else is open, cached or
\* half done (fat.cpp, dir.cpp): every chain is allocated, ends, and shares no
\* cluster with another; every record is in one directory that leads up to the
\* root, its size covered by its chain and its name its own; free_count is right.
Whole ==
    /\ \A o \in Owners :
          /\ IsInjective(ChainOf(o))
          /\ ChainOf(o) # <<>> => fs.d.fat[Last(ChainOf(o))] = EOC
    /\ \A o, p \in Owners : o # p => ToSet(ChainOf(o)) \cap ToSet(ChainOf(p)) = {}
    /\ \A p \in Records(fs.d) :
          LET r == At(fs.d, p) IN
          \E c \in Dirs :
             /\ DirsWith(p) = {c}
             /\ Cardinality(find(fs.d, c, r.name)) = 1
             /\ IF r.dir THEN fs.d.up[r.first] = c /\ dir_contains(fs.d, Root, r.first)
                ELSE r.size <= Len(Chain(r.first))
    /\ fs.d.free = Cardinality(Free(fs.d))

\* The chains nobody has, by their first clusters.
Lost == {c \in Clusters : fs.d.fat[c] # FREE} \ (Range(fs.d.fat) \cup {FirstOf(o) : o \in Owners})

\* No chain is lost but two kinds: that of a file whose first write was cut
\* short by a full volume, once its vnode goes (extend_to() keeps the clusters
\* and write_at() returns before the record has them), and, when the power
\* goes, that of a deleted file that was still open (fat_unlink()).
NothingLost ==
    [][\A c \in Lost' :
          \/ c \in Lost
          \/ \E v \in DOMAIN fs.vn :
                fs.vn[v].first = c /\ (CutShort(v) \/ (fs.vn[v].unlinked /\ PowerCut))]_vars

\* A file has one vnode, and it agrees with the file's record: size, first
\* cluster, the place of the record, the key it is found under, and the cached
\* position in the chain (fat_node); a deleted file's is not found any more.
VnodesAgree ==
    \A v \in DOMAIN fs.vn :
       LET n == fs.vn[v] IN
       /\ n.pos.cluster # None =>
             n.pos.index < Len(Chain(n.first)) /\ Chain(n.first)[n.pos.index + 1] = n.pos.cluster
       /\ n.unlinked => v \notin Cached(fs)
       /\ ~n.unlinked /\ n.dir =>
             n.first \in Dirs /\ v = dir_key(n.first)
       /\ ~n.unlinked /\ ~n.dir =>
             LET r == At(fs.d, n.place) IN
             /\ n.place = Place(fs.d, v[2], v[3]) /\ r # NoRec /\ ~r.dir
             /\ n.size = r.size /\ (n.first = r.first \/ (CutShort(v) /\ n.size = 0))

\* A vnode lives exactly as long as somebody refers to it: the cache, the mount,
\* an open file or an open in progress, or the reaper's list (get_cached(),
\* unref(), invalidate(), and umount(), which frees without counting).
RefsAccounted ==
    \A v \in (DOMAIN fs.vn \cup {hand[h].vn : h \in Handles} \cup ToSet(deferred)) \ {Nobody} :
       /\ v \in DOMAIN fs.vn
       /\ fs.vn[v].refs = (IF v \in Cached(fs) THEN 1 ELSE 0) + (IF v = root /\ mounted THEN 1 ELSE 0)
                          + Cardinality({h \in Handles : hand[h].vn = v})
                          + Cardinality({i \in DOMAIN deferred : deferred[i] = v})

\* The volume on the disk says clean only when the disk has it all: no table or
\* directory sector is left in the cache (set_dirty_bit(), which read_super()
\* calls before the first change and umount() after the last flush).
CleanMeansSaved == dflag = "clean" => ~unsaved /\ ~mounted
=============================================================================
