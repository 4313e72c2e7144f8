----------------------------- MODULE BlockCache -----------------------------
(***************************************************************************)
(* The sector cache (dev/bcache.cpp) over the block devices.               *)
(*                                                                         *)
(* A client of the cache (a file system call, a mount, a sync) has the     *)
(* disks' lock from its first get() to its last put(), so at most one call *)
(* is inside the cache and only a plug being pulled interleaves with it. A *)
(* call that makes several requests is several steps, `op' says where it   *)
(* is. Which of the equally good victims is taken (the LRU clock) is left  *)
(* open; the preference of free, then clean, then dirty buffers is kept.   *)
(***************************************************************************)
EXTENDS BlockDevices

CONSTANTS
    Bufs,           \* the pool
    RangeChunk,     \* MAX_RANGE_CHUNK: sectors of one range fill request
    MaxRange,       \* MAX_RANGE_COUNT: sectors of one get_range
    MaxLocks,       \* locks on buffers a client has at a time
    All             \* flush(nullptr)

ASSUME CacheAssumption ==
    /\ RangeChunk \in Nat \ {0} /\ MaxRange \in Nat /\ MaxLocks \in Nat
    /\ All \notin Entries

VARIABLES
    buf,        \* buf[b]: descriptor and contents of buffer b
    changed,    \* buffers their holder has changed since it locked them
    op,         \* the call in progress that takes several steps
    rc          \* what a flush that just ended returned, else "none"

cacheVars == <<buf, changed, op, rc>>
vars == <<dev, present, cell, stable, buf, changed, op, rc>>

\* A buffer that is not valid: nothing but valid is ever looked at.
Empty == [valid |-> FALSE, dev |-> NoEntry, lba |-> 0, dirty |-> FALSE,
          refcnt |-> 0, data |-> Junk]
Idle == [call |-> "none"]

Init ==
    /\ DevicesInit
    /\ buf = [b \in Bufs |-> Empty]
    /\ changed = {} /\ op = Idle /\ rc = "none"
-----------------------------------------------------------------------------
Locked == {b \in Bufs : buf[b].refcnt > 0}
LocksFree == op = Idle /\ Locked = {}
Dirty(e) == {b \in Bufs : buf[b].valid /\ buf[b].dirty /\ (e = All \/ buf[b].dev = e)}
find_buffer(e, l) == {b \in Bufs : buf[b].valid /\ buf[b].dev = e /\ buf[b].lba = l}

\* A slip: a locked buffer is as good a victim as any.
pick_victimOfAll ==
    LET free == {b \in Bufs : ~buf[b].valid}
        clean == {b \in Bufs : ~buf[b].dirty}
    IN IF free # {} THEN free ELSE IF clean # {} THEN clean ELSE Bufs

pick_victim ==
    LET unlocked == Bufs \ Locked
        free == {b \in unlocked : ~buf[b].valid}
        clean == {b \in unlocked : ~buf[b].dirty}
    IN IF free # {} THEN free ELSE IF clean # {} THEN clean ELSE unlocked

\* The buffers written with b as one request: the dirty ones of the sectors
\* next to each other around it. (STAGE_BYTES is more than a device here has.)
RunOf(b) ==
    {c \in Dirty(buf[b].dev) :
        \A l \in Lbas :
            (buf[b].lba < l /\ l < buf[c].lba) \/ (buf[c].lba < l /\ l < buf[b].lba)
                => \E d \in Dirty(buf[b].dev) : buf[d].lba = l}

\* writeback() of a dirty buffer: the buffers after it, and whether it worked.
Cleaned(B) == [b \in Bufs |-> IF b \in B THEN [buf[b] EXCEPT !.dirty = FALSE] ELSE buf[b]]

writeback(b, ok, after) ==
    IF gone(buf[b].dev)
    THEN ~ok /\ after = Cleaned({b}) /\ UNCHANGED cell
    ELSE LET run == RunOf(b) IN
         /\ write(buf[b].dev, {buf[c].lba : c \in run},
                  [l \in {buf[c].lba : c \in run} |->
                      buf[CHOOSE c \in run : buf[c].lba = l].data], ok)
         /\ after = IF ok THEN Cleaned(run) ELSE buf

Bound(e, l, data) == [valid |-> TRUE, dev |-> e, lba |-> l, dirty |-> FALSE,
                      refcnt |-> 1, data |-> data]

OnDisk(c, e, l) == c[dev[e].medium][resolve(e, l)]
-----------------------------------------------------------------------------
\* get() of a sector in the cache.
GetHit(e, l) ==
    /\ op = Idle
    /\ \E b \in find_buffer(e, l) :
         /\ buf[b].refcnt < MaxLocks
         /\ buf' = [buf EXCEPT ![b].refcnt = @ + 1]
    /\ rc' = "none"
    /\ UNCHANGED <<deviceVars, changed, op>>

\* get() of a sector that is not: no unlocked buffer, a victim that cannot
\* be written out, or the victim rebound and filled (or not).
GetMiss(e, l) ==
    /\ op = Idle /\ find_buffer(e, l) = {}
    /\ \/ /\ pick_victim = {}
          /\ UNCHANGED <<cell, buf>>
       \/ \E b \in pick_victim : \E written, read \in BOOLEAN, after \in {buf, Cleaned({b}), Cleaned(RunOf(b))} :
            /\ IF buf[b].dirty /\ ~gone(buf[b].dev)
               THEN writeback(b, written, after)
               ELSE written /\ after = buf /\ UNCHANGED cell
            /\ read => Answers(e) /\ written
            /\ buf' = IF ~written THEN after
                      ELSE [after EXCEPT ![b] =
                              IF read THEN Bound(e, l, OnDisk(cell', e, l)) ELSE Empty]
    /\ rc' = "none"
    /\ UNCHANGED <<dev, present, stable, changed, op>>

\* The holder of a locked buffer changes part of its sector.
Change(b, v) ==
    /\ op = Idle /\ b \in Locked
    /\ buf' = [buf EXCEPT ![b].data = IF @ = Junk THEN Junk ELSE v]
    /\ changed' = changed \cup {b}
    /\ rc' = "none"
    /\ UNCHANGED <<deviceVars, op>>

\* put(): dirty if it was changed.
put(b) ==
    /\ op = Idle /\ b \in Locked
    /\ buf' = [buf EXCEPT ![b].dirty = @ \/ b \in changed, ![b].refcnt = @ - 1]
    /\ changed' = changed \ {b}
    /\ rc' = "none"
    /\ UNCHANGED <<deviceVars, op>>
-----------------------------------------------------------------------------
\* get_range(): phase 1 locks a buffer for each sector (step RangeLock),
\* phase 2 fills those that were missed, a chunk at a time (step RangeFill).
RangeStart(e, l, n) ==
    /\ LocksFree
    /\ n \in 1 .. MaxRange /\ l + n <= dev[e].count
    /\ op' = [call |-> "range", dev |-> e, first |-> l, count |-> n,
              out |-> <<>>, missed |-> {}]
    /\ rc' = "none"
    /\ UNCHANGED <<deviceVars, buf, changed>>

Unlocked(B) == [b \in Bufs |-> IF b \in B THEN [buf[b] EXCEPT !.refcnt = @ - 1] ELSE buf[b]]

RangeLock ==
    /\ op.call = "range" /\ Len(op.out) < op.count
    /\ LET l == op.first + Len(op.out)
           Out(b) == [op EXCEPT !.out = Append(@, b)]
       IN \/ \E b \in find_buffer(op.dev, l) :
               /\ buf' = [buf EXCEPT ![b].refcnt = @ + 1]
               /\ op' = Out(b)
               /\ UNCHANGED cell
          \/ /\ find_buffer(op.dev, l) = {} /\ pick_victim = {}
             /\ buf' = Unlocked(Range(op.out))
             /\ op' = Idle
             /\ UNCHANGED cell
          \/ /\ find_buffer(op.dev, l) = {}
             /\ \E b \in pick_victim, written \in BOOLEAN :
                \E after \in {buf, Cleaned({b}), Cleaned(RunOf(b))} :
                  /\ IF buf[b].dirty
                     THEN writeback(b, written, after)
                     ELSE written /\ after = buf /\ UNCHANGED cell
                  /\ IF written
                     THEN /\ buf' = [after EXCEPT ![b] = Bound(op.dev, l, Junk)]
                          /\ op' = [Out(b) EXCEPT !.missed = @ \cup {l}]
                     ELSE /\ buf' = [c \in Bufs |-> IF c \in Range(op.out)
                                        THEN [after[c] EXCEPT !.refcnt = @ - 1] ELSE after[c]]
                          /\ op' = Idle
    /\ UNCHANGED <<dev, present, stable, changed, rc>>

\* The next request of phase 2: the first of the missed sectors and those
\* that follow it without a gap, at most a chunk.
Chunk ==
    LET l == CHOOSE j \in op.missed : \A k \in op.missed : j <= k
    IN {j \in op.missed : j < l + RangeChunk /\ (l .. j) \subseteq op.missed}

RangeFill ==
    /\ op.call = "range" /\ Len(op.out) = op.count
    /\ IF op.missed = {}
       THEN op' = Idle /\ UNCHANGED buf
       ELSE \/ /\ Answers(op.dev)
               /\ buf' = [b \in Bufs |-> IF \E j \in Chunk : b = op.out[j - op.first + 1]
                              THEN [buf[b] EXCEPT !.data = OnDisk(cell, op.dev, buf[b].lba)]
                              ELSE buf[b]]
               /\ op' = [op EXCEPT !.missed = @ \ Chunk]
            \/ /\ buf' = Unlocked(Range(op.out))
               /\ op' = Idle
    /\ UNCHANGED <<deviceVars, changed, rc>>
-----------------------------------------------------------------------------
\* flush(e) or flush(nullptr), and release(e) of an unmount, which forgets
\* the buffers once they are flushed and gives the device up.
FlushStart(e, call) ==
    /\ LocksFree
    /\ op' = [call |-> call, dev |-> e, todo |-> Dirty(e), rc |-> "ok"]
    /\ rc' = "none"
    /\ UNCHANGED <<deviceVars, buf, changed>>

Flushing == op.call \in {"flush", "unmount"}

FlushBuffer ==
    /\ Flushing
    /\ \E b \in op.todo, ok \in BOOLEAN :
         /\ writeback(b, ok, buf')
         /\ op' = [op EXCEPT !.todo = {c \in @ \ {b} : buf'[c].dirty},
                     !.rc = IF ~ok /\ (op.dev # All \/ ~gone(buf[b].dev)) THEN "error" ELSE @]
    /\ UNCHANGED <<dev, present, stable, changed, rc>>

\* The buffers without those of the devices E that nobody has locked.
discard(bs, E) ==
    [b \in Bufs |-> IF bs[b].valid /\ bs[b].dev \in E
                    THEN IF bs[b].refcnt = 0 THEN Empty ELSE [bs[b] EXCEPT !.dirty = FALSE]
                    ELSE bs[b]]

\* A slip: the writes that failed are not remembered.
FlushDevicesForgetting ==
    /\ Flushing /\ op.todo = {}
    /\ LET disks == {d \in Registered : dev[d].parent = NoEntry /\
                        IF op.dev = All THEN ~dev[d].gone ELSE d = disk_of(op.dev)}
       IN \E done \in SUBSET {d \in disks : Answers(d)} :
          LET result == IF done = disks THEN "ok" ELSE "error" IN
            /\ flush_disks(done)
            /\ IF op.call = "flush"
               THEN op' = Idle /\ rc' = result
               ELSE op' = [op EXCEPT !.call = "release", !.rc = result] /\ UNCHANGED rc
    /\ UNCHANGED <<dev, present, cell, buf, changed>>

\* Then every disk concerned flushes its write cache, once.
FlushDevices ==
    /\ Flushing /\ op.todo = {}
    /\ LET disks == {d \in Registered : dev[d].parent = NoEntry /\
                        IF op.dev = All THEN ~dev[d].gone ELSE d = disk_of(op.dev)}
       IN \E done \in SUBSET {d \in disks : Answers(d)} :
          LET result == IF done = disks THEN op.rc ELSE "error" IN
            /\ flush_disks(done)
            /\ IF op.call = "flush"
               THEN op' = Idle /\ rc' = result
               ELSE op' = [op EXCEPT !.call = "release", !.rc = result] /\ UNCHANGED rc
    /\ UNCHANGED <<dev, present, cell, buf, changed>>

\* The rest of release(), and drop(): the last user of a gone disk takes its
\* entries along. The unmount goes on whatever release() returned.
Dropped(e) == [dev EXCEPT ![e].users = IF @ > 0 THEN @ - 1 ELSE 0]

Release ==
    /\ op.call = "release"
    /\ LET d == disk_of(op.dev) IN
       /\ buf' = discard(discard(buf, {op.dev}), Collected(Dropped(op.dev), d))
       /\ dev' = Collect(Dropped(op.dev), d)
    /\ op' = Idle /\ rc' = op.rc
    /\ UNCHANGED <<present, cell, stable, changed>>
-----------------------------------------------------------------------------
\* A slip: only the disk's own buffers go, not its partitions'.
disk_goneAlone(d) ==
    LET gonedev == [dev EXCEPT ![d].gone = TRUE] IN
    /\ LocksFree
    /\ d \in Registered /\ dev[d].parent = NoEntry /\ ~dev[d].gone
    /\ dev[d].medium \notin present
    /\ buf' = discard(buf, {d})
    /\ dev' = Collect(gonedev, d)
    /\ rc' = "none"
    /\ UNCHANGED <<present, cell, stable, changed, op>>

\* disk_gone(): the driver found that the device left.
disk_gone(d) ==
    LET gonedev == [dev EXCEPT ![d].gone = TRUE] IN
    /\ LocksFree
    /\ d \in Registered /\ dev[d].parent = NoEntry /\ ~dev[d].gone
    /\ dev[d].medium \notin present
    /\ buf' = discard(buf, Children(d) \cup {d})
    /\ dev' = Collect(gonedev, d)
    /\ rc' = "none"
    /\ UNCHANGED <<present, cell, stable, changed, op>>

\* A file system is in a partition, or on the whole of a medium without a
\* table; a call works on one device. Clients write what a fresh medium does
\* not hold, so that a change that is lost shows.
Usable(e) ==
    /\ dev[e].parent # NoEntry \/ Layout[dev[e].medium] = <<>>
    /\ \A b \in Locked : buf[b].dev = e

Next ==
    \/ \E e \in Registered : Usable(e) /\
         \/ \E l \in Sectors(e) :
              GetHit(e, l) \/ GetMiss(e, l) \/ \E n \in 1 .. MaxRange : RangeStart(e, l, n)
         \/ LocksFree /\ ~gone(e) /\ dev[e].users = 0 /\ hold(e) /\ UNCHANGED cacheVars
         \/ FlushStart(e, "flush")
         \/ dev[e].users > 0 /\ FlushStart(e, "unmount")
    \/ FlushStart(All, "flush")
    \/ \E b \in Bufs : put(b) \/ \E v \in Data \ {Blank} : Change(b, v)
    \/ RangeLock \/ RangeFill \/ FlushBuffer \/ FlushDevices \/ Release
    \/ \E d \in Entries : disk_gone(d)
    \/ \E m \in Media : \/ LocksFree /\ Plug(m) /\ UNCHANGED cacheVars
                        \/ Unplug(m) /\ UNCHANGED cacheVars

Spec == Init /\ [][Next]_vars
-----------------------------------------------------------------------------
\* A sector is in at most one buffer, and a valid buffer belongs to an entry
\* of the registry: find_buffer() takes the first match, and an entry that is
\* given to the next disk must not bring the old disk's sectors along.
BuffersAreFiled ==
    \A b \in Bufs : buf[b].valid =>
        /\ find_buffer(buf[b].dev, buf[b].lba) = {b}
        /\ buf[b].dev \in Registered
        /\ buf[b].lba \in Sectors(buf[b].dev)

\* The sector as a client that asks for it now would find it. Buffers a
\* range call has not filled yet are not anybody's yet.
Pending(b) == op.call = "range" /\ b \in Range(op.out) /\ buf[b].lba \in op.missed

Holding(m, a) == {b \in Bufs : /\ buf[b].valid /\ ~Pending(b)
                               /\ dev[buf[b].dev].medium = m /\ ~gone(buf[b].dev)
                               /\ resolve(buf[b].dev, buf[b].lba) = a}

Content == [m \in Media |-> [a \in Lbas |->
    IF Holding(m, a) = {} THEN cell[m][a]
    ELSE buf[CHOOSE b \in Holding(m, a) : TRUE].data]]

Held == {h \in Media \X Lbas : Holding(h[1], h[2]) \cap Locked # {}}

Store == INSTANCE SectorStore
    WITH content <- Content, sent <- cell, durable <- stable, plugged <- present,
         held <- Held, report <- rc

\* The cache and the registry keep SectorStore's promise: evicting, filling,
\* writing back, flushing, mounting, unplugging and reusing entries never
\* change what a sector holds; its holder does.
KeepsSectors == Store!Spec

\* A flush that returned 0 has put what the cache and the device held of the
\* device (of every disk that is there, for flush(nullptr)) on the medium.
\* A buffer that a failed range read left undefined is excepted.
FlushedIsStable ==
    [][ op.call = "flush" /\ op' = Idle /\ rc' = "ok" =>
        \A e \in Registered : (op.dev = e \/ (op.dev = All /\ ~gone(e))) =>
            \A l \in Sectors(e) :
                LET m == dev[e].medium
                    a == resolve(e, l)
                IN Content'[m][a] \in {stable'[m][a], Junk} ]_vars
=============================================================================
