-------------------------- MODULE BlockCacheProofs --------------------------
(***************************************************************************)
(* Proofs about BlockCache, for any pool, registry and media and whatever  *)
(* requests fail. Buffers are filed under registered devices, each sector  *)
(* once. On media whose partitions do not overlap, the cache implements    *)
(* SectorStore, and a flush that returned 0 left nothing behind.           *)
(*                                                                         *)
(* BlockCacheStepProofs has the invariant and the steps of the calls. Here *)
(* are the devices that come and go, the theorems about the invariant, and *)
(* the contents of the sectors.                                            *)
(***************************************************************************)
EXTENDS BlockCacheStepProofs, TLAPS
-----------------------------------------------------------------------------
(* Devices that come and go.                                               *)

\* discard() without locks: the buffers of the devices E are empty after it.
LEMMA DiscardFacts ==
    ASSUME NEW bs \in [Bufs -> Descriptor], \A b \in Bufs : bs[b].refcnt = 0, NEW E
    PROVE  /\ discard(bs, E) \in [Bufs -> Descriptor]
           /\ \A b \in Bufs :
                /\ discard(bs, E)[b].refcnt = 0
                /\ bs[b].valid /\ bs[b].dev \in E => discard(bs, E)[b] = Empty
                /\ ~(bs[b].valid /\ bs[b].dev \in E) => discard(bs, E)[b] = bs[b]
<1>1. \A b \in Bufs : discard(bs, E)[b] = IF bs[b].valid /\ bs[b].dev \in E THEN Empty ELSE bs[b]
  BY Zenon DEF discard
<1>2. discard(bs, E) = [b \in Bufs |-> discard(bs, E)[b]]
  BY Zenon DEF discard
<1>3. \A b \in Bufs : discard(bs, E)[b] \in Descriptor /\ discard(bs, E)[b].refcnt = 0
  BY <1>1, EmptyFacts, ZenonT(60)
<1> QED
  BY <1>1, <1>2, <1>3, ZenonT(60)

\* An entry that stays, with its disk as it was, is on the same sectors.
LEMMA AtStays ==
    ASSUME NEW x, Kept(x), buf[x].valid => SameDevice(buf[x].dev) /\ buf[x].dev \in Entries,
           buf[x].valid => dev'[disk_of(buf[x].dev)].gone = dev[disk_of(buf[x].dev)].gone
    PROVE  \A m, a : At(x, m, a)' <=> At(x, m, a)
<1>1. CASE ~buf[x].valid
  BY <1>1, ZenonT(60) DEF Kept, At
<1>2. CASE buf[x].valid
  <2>1. PICK e, l : e = buf[x].dev /\ l = buf[x].lba
    BY Zenon
  <2>2. buf'[x].dev = e /\ buf'[x].lba = l /\ buf'[x].valid
    BY <1>2, <2>1, ZenonT(60) DEF Kept
  <2>3. disk_of(e)' = disk_of(e) /\ resolve(e, l)' = resolve(e, l) /\ dev'[e].medium = dev[e].medium
    BY <1>2, <2>1, ZenonT(60) DEF SameDevice, disk_of, resolve
  <2>4. gone(e)' <=> gone(e)
    BY <1>2, <2>1, <2>3, ZenonT(60) DEF gone
  <2>5. \A m, a : At(x, m, a)' <=> ~gone(e)' /\ dev'[e].medium = m /\ resolve(e, l)' = a
    BY <2>2, ZenonT(60) DEF At, gone, disk_of, resolve
  <2>6. \A m, a : At(x, m, a) <=> ~gone(e) /\ dev[e].medium = m /\ resolve(e, l) = a
    BY <1>2, <2>1, ZenonT(60) DEF At
  <2> QED
    BY <2>3, <2>4, <2>5, <2>6, ZenonT(60)
<1> QED
  BY <1>1, <1>2, ZenonT(60)

\* The entries X leave the registry, and the buffers of the devices E with
\* them: those are clean, or their device is not there or its flush failed.
LEMMA LeavingStep ==
    ASSUME CacheInv, Locked = {}, op.call # "range", op' = Idle, changed' = changed,
           present' = present, cell' = cell, stable' = stable,
           NEW X, Shrinks(X), dev' \in [Entries -> Device],
           NEW E, X \cap Registered \subseteq E, buf' \in [Bufs -> Descriptor],
           \A b \in Bufs : /\ buf[b].valid /\ buf[b].dev \in E => buf'[b] = Empty
                           /\ ~(buf[b].valid /\ buf[b].dev \in E) => buf'[b] = buf[b],
           \A e \in Registered : e \notin E => dev'[disk_of(e)].gone = dev[disk_of(e)].gone,
           \A b \in Bufs : buf[b].valid /\ buf[b].dev \in E /\ ~gone(buf[b].dev) =>
                \/ ~buf[b].dirty \/ dev[buf[b].dev].medium \notin present \/ rc' = "error"
    PROVE  CacheInv' /\ \E W : Moves(W)
<1>0. Types /\ DeviceTypes /\ RegistryInv /\ FileInv /\ cell \in Image /\ stable \in Image
  BY Zenon DEF CacheInv, Types, DeviceTypes
<1>1. changed = {} /\ changed' = {}
  BY Zenon DEF CacheInv, LockInv
<1>2. \A b \in Bufs : buf[b].valid => buf[b].dev \in Registered /\ buf[b].dev \in Entries
  <2>1. \A b \in Bufs : buf[b].valid => buf[b].dev \in Registered
    BY <1>0, BufferFacts, ZenonT(60)
  <2> QED
    BY <2>1, ZenonT(60) DEF Registered
<1>3. \A b \in Bufs : \/ buf'[b] = Empty /\ buf[b].valid /\ buf[b].dev \in E
                      \/ buf'[b] = buf[b] /\ Kept(b) /\ (buf[b].valid => buf[b].dev \notin E
                                                           /\ SameDevice(buf[b].dev))
  <2> SUFFICES ASSUME NEW b \in Bufs, ~(buf[b].valid /\ buf[b].dev \in E)
               PROVE  buf'[b] = buf[b] /\ Kept(b) /\ (buf[b].valid => buf[b].dev \notin E
                                                           /\ SameDevice(buf[b].dev))
    BY Zenon
  <2>1. buf'[b] = buf[b]
    BY Zenon
  <2>2. buf[b].valid => buf[b].dev \in Entries /\ buf[b].dev \notin X /\ buf[b].dev \notin E
    BY <1>2, ZenonT(60)
  <2>3. buf[b].valid => SameDevice(buf[b].dev)
    BY <2>2, ZenonT(60) DEF Shrinks
  <2> QED
    BY <2>1, <2>2, <2>3, ZenonT(60) DEF Kept
<1>4. FileInv'
  BY <1>0, <1>3, FilesKept, ZenonT(60)
<1>5. RegistryInv'
  BY <1>0, RegistryShrinks, ZenonT(60)
<1>6. OpType' /\ RangeInv' /\ FlushInv' /\ LockInv'
  BY <1>1, CallEnds, ZenonT(60)
<1>7. CacheInv'
  <2>1. Types'
    BY <1>0, <1>1, <1>6, ZenonT(60) DEF Types, DeviceTypes, CacheTypes
  <2> QED
    BY <2>1, <1>4, <1>5, <1>6, ZenonT(60) DEF CacheInv
<1>8. Wrote({})
  BY <1>0, NothingWritten, ZenonT(60)
<1>9. op'.call # "range"
  BY IdleCalls
<1>10. ASSUME NEW x \in Bufs PROVE Follows(x, {}) \/ Leaves(x, {})
  <2>0. ~Pending(x) /\ ~Pending(x)'
    BY <1>9, ZenonT(60) DEF Pending
  <2>1. CASE buf'[x] = Empty /\ buf[x].valid /\ buf[x].dev \in E
    BY <2>0, <2>1, <1>1, ZenonT(60) DEF Leaves
  <2>2. CASE buf'[x] = buf[x] /\ Kept(x) /\ (buf[x].valid => buf[x].dev \notin E
                                                           /\ SameDevice(buf[x].dev))
    <3>1. \A m, a : At(x, m, a)' <=> At(x, m, a)
      BY <2>2, <1>2, AtStays, ZenonT(60)
    <3> QED
      BY <2>0, <2>2, <3>1, <1>1, ZenonT(60) DEF Follows
  <2> QED
    BY <2>1, <2>2, <1>3, ZenonT(60)
<1> QED
  BY <1>7, <1>8, <1>10, ZenonT(60) DEF Moves

\* release(): the buffers of the device go, and with its last user a gone disk.
LEMMA ReleaseStep ==
    ASSUME CacheInv, Release
    PROVE  CacheInv' /\ \E W : Moves(W)
<1>0. Types /\ DeviceTypes /\ RegistryInv /\ FileInv /\ buf \in [Bufs -> Descriptor]
  BY ZenonT(60) DEF CacheInv, Types, CacheTypes
<1>1. PICK f, d, r : f = op.dev /\ d = disk_of(f) /\ r = Dropped(f)
  BY Zenon
<1>2. /\ op.call = "release" /\ op' = Idle /\ rc' = op.rc /\ changed' = changed
      /\ present' = present /\ cell' = cell /\ stable' = stable
      /\ buf' = discard(discard(buf, {f}), Collected(r, d)) /\ dev' = Collect(r, d)
  BY <1>1, ZenonT(60) DEF Release
<1>3. op.call # "flush" /\ op.call \in {"flush", "unmount", "release"} /\ op.call # "range"
  BY <1>2
<1>4. /\ op.rc \in {"ok", "error"} /\ Locked = {} /\ Mountable(f)
      /\ op.rc = "ok" => Dirty(f) \subseteq op.todo
  BY <1>1, <1>3, FlushFields, ZenonT(60)
<1>5. f \in Registered /\ d \in Registered /\ Whole(d)
  BY <1>0, <1>1, <1>4, DiskFacts, ZenonT(60) DEF Mountable
<1>6. Like(r) /\ \A e \in Entries : r[e].gone = dev[e].gone
  BY <1>0, <1>1, <1>5, DroppedLike, ZenonT(60)
<1>7. PICK X : X = Collected(r, d)
  BY Zenon
<1>8. /\ Shrinks(X) /\ dev' \in [Entries -> Device]
      /\ \A e \in Entries : e \notin X => dev'[e] = r[e]
      /\ \A e \in X : e \in Registered /\ disk_of(e) = d /\ r[d].gone
  BY <1>0, <1>2, <1>5, <1>6, <1>7, CollectShrinks, ZenonT(60)
<1>9. \A b \in Bufs : buf[b].refcnt = 0
  <2> SUFFICES ASSUME NEW b \in Bufs PROVE buf[b].refcnt = 0
    OBVIOUS
  <2>1. buf[b].refcnt \in Nat
    BY <1>0 DEF Descriptor
  <2>2. ~(buf[b].refcnt > 0)
    BY <1>4, ZenonT(60) DEF Locked
  <2> QED
    BY <2>1, <2>2, SMTT(60)
<1>10. PICK bs : bs = discard(buf, {f})
  BY ZenonT(60)
<1>11. /\ bs \in [Bufs -> Descriptor]
       /\ \A b \in Bufs : /\ bs[b].refcnt = 0
                          /\ buf[b].valid /\ buf[b].dev \in {f} => bs[b] = Empty
                          /\ ~(buf[b].valid /\ buf[b].dev \in {f}) => bs[b] = buf[b]
  <2>1. /\ discard(buf, {f}) \in [Bufs -> Descriptor]
        /\ \A b \in Bufs :
             /\ discard(buf, {f})[b].refcnt = 0
             /\ buf[b].valid /\ buf[b].dev \in {f} => discard(buf, {f})[b] = Empty
             /\ ~(buf[b].valid /\ buf[b].dev \in {f}) => discard(buf, {f})[b] = buf[b]
    BY <1>0, <1>9, DiscardFacts, SMTT(60)
  <2> QED
    BY <2>1, <1>10, ZenonT(60)
<1>12. /\ buf' \in [Bufs -> Descriptor]
       /\ \A b \in Bufs : /\ bs[b].valid /\ bs[b].dev \in X => buf'[b] = Empty
                          /\ ~(bs[b].valid /\ bs[b].dev \in X) => buf'[b] = bs[b]
  <2>1. buf' = discard(bs, X)
    BY <1>2, <1>7, <1>10, ZenonT(60)
  <2>2. /\ discard(bs, X) \in [Bufs -> Descriptor]
        /\ \A b \in Bufs :
             /\ bs[b].valid /\ bs[b].dev \in X => discard(bs, X)[b] = Empty
             /\ ~(bs[b].valid /\ bs[b].dev \in X) => discard(bs, X)[b] = bs[b]
    BY <1>11, DiscardFacts, SMTT(60)
  <2> QED
    BY <2>1, <2>2, ZenonT(60)
<1>13. PICK E : E = X \cup {f}
  BY Zenon
<1>14. \A b \in Bufs : /\ buf[b].valid /\ buf[b].dev \in E => buf'[b] = Empty
                       /\ ~(buf[b].valid /\ buf[b].dev \in E) => buf'[b] = buf[b]
  BY <1>11, <1>12, <1>13, EmptyFacts, ZenonT(60)
<1>15. \A e \in Registered : e \notin E => dev'[disk_of(e)].gone = dev[disk_of(e)].gone
  <2> SUFFICES ASSUME NEW e \in Registered, e \notin E
               PROVE  dev'[disk_of(e)].gone = dev[disk_of(e)].gone
    OBVIOUS
  <2>1. disk_of(e) \in Registered /\ disk_of(e) \in Entries
    BY <1>0, DiskFacts, ZenonT(60) DEF Registered
  <2>2. disk_of(e) \notin X
    BY <1>8, <1>13, ZenonT(60) DEF Shrinks, disk_of, Registered
  <2> QED
    BY <2>1, <2>2, <1>6, <1>8, ZenonT(60)
<1>16. \A b \in Bufs : buf[b].valid /\ buf[b].dev \in E /\ ~gone(buf[b].dev) =>
                \/ ~buf[b].dirty \/ dev[buf[b].dev].medium \notin present \/ rc' = "error"
  <2> SUFFICES ASSUME NEW b \in Bufs, buf[b].valid, buf[b].dev \in E, ~gone(buf[b].dev),
                      buf[b].dirty
               PROVE  rc' = "error"
    BY Zenon
  <2>1. buf[b].dev = f
    <3>1. ASSUME buf[b].dev \in X PROVE FALSE
      BY <3>1, <1>5, <1>6, <1>8, ZenonT(60) DEF gone, Registered
    <3> QED
      BY <3>1, <1>13, ZenonT(60)
  <2>2. b \in Dirty(f) /\ op.todo = {}
    BY <2>1, <1>2, ZenonT(60) DEF Dirty, CacheInv, FlushInv
  <2> QED
    BY <2>2, <1>2, <1>4, ZenonT(60)
<1>17. X \cap Registered \subseteq E
  BY <1>13, ZenonT(60)
<1> QED
  BY <1>2, <1>3, <1>4, <1>8, <1>12, <1>17, <1>14, <1>15, <1>16, LeavingStep, ZenonT(60)

\* disk_gone(): the buffers of the disk and of its partitions go at once.
LEMMA DiskGoneStep ==
    ASSUME CacheInv, NEW d, disk_gone(d)
    PROVE  CacheInv' /\ \E W : Moves(W)
<1>0. Types /\ DeviceTypes /\ RegistryInv /\ FileInv /\ buf \in [Bufs -> Descriptor]
  BY Zenon DEF CacheInv, Types, CacheTypes
<1>1. PICK r, E : r = [dev EXCEPT ![d].gone = TRUE] /\ E = Children(d) \cup {d}
  BY Zenon
<1>2. /\ op = Idle /\ Locked = {} /\ d \in Registered /\ Whole(d) /\ dev[d].medium \notin present
      /\ buf' = discard(buf, E) /\ dev' = Collect(r, d) /\ op' = op /\ changed' = changed
      /\ present' = present /\ cell' = cell /\ stable' = stable
  BY <1>1, ZenonT(60) DEF disk_gone, LocksFree, Whole
<1>3. op.call # "range"
  BY <1>2, IdleCalls, SMTT(60)
<1>4. Like(r) /\ \A e \in Entries : e # d => r[e] = dev[e]
  BY <1>0, <1>1, <1>2, GoneLike, ZenonT(60)
<1>5. PICK X : X = Collected(r, d)
  BY ZenonT(60)
<1>6. /\ Shrinks(X) /\ dev' \in [Entries -> Device]
      /\ \A e \in Entries : e \notin X => dev'[e] = r[e]
      /\ \A e \in X : e \in Registered /\ disk_of(e) = d
  BY <1>0, <1>2, <1>4, <1>5, CollectShrinks, ZenonT(60)
<1>7. \A e \in Registered : disk_of(e) = d <=> e \in E
  <2> SUFFICES ASSUME NEW e \in Registered PROVE disk_of(e) = d <=> e \in E
    OBVIOUS
  <2>1. d # NoEntry /\ dev[d].parent = NoEntry
    BY <1>2, RegistryAssumption, ZenonT(60) DEF Registered, Whole
  <2> QED
    BY <2>1, <1>1, ZenonT(60) DEF disk_of, Children
<1>8. \A b \in Bufs : buf[b].refcnt = 0
  <2> SUFFICES ASSUME NEW b \in Bufs PROVE buf[b].refcnt = 0
    OBVIOUS
  <2>1. buf[b].refcnt \in Nat
    BY <1>0 DEF Descriptor
  <2>2. ~(buf[b].refcnt > 0)
    BY <1>2, ZenonT(60) DEF Locked
  <2> QED
    BY <2>1, <2>2, SMTT(60)
<1>9. /\ buf' \in [Bufs -> Descriptor]
      /\ \A b \in Bufs : /\ buf[b].valid /\ buf[b].dev \in E => buf'[b] = Empty
                         /\ ~(buf[b].valid /\ buf[b].dev \in E) => buf'[b] = buf[b]
  <2>1. /\ discard(buf, E) \in [Bufs -> Descriptor]
        /\ \A b \in Bufs :
             /\ buf[b].valid /\ buf[b].dev \in E => discard(buf, E)[b] = Empty
             /\ ~(buf[b].valid /\ buf[b].dev \in E) => discard(buf, E)[b] = buf[b]
    BY <1>0, <1>8, DiscardFacts, SMTT(60)
  <2> QED
    BY <2>1, <1>2, ZenonT(60)
<1>10. \A e \in Registered : e \notin E => dev'[disk_of(e)].gone = dev[disk_of(e)].gone
  <2> SUFFICES ASSUME NEW e \in Registered, e \notin E
               PROVE  dev'[disk_of(e)].gone = dev[disk_of(e)].gone
    OBVIOUS
  <2>1. disk_of(e) \in Registered /\ disk_of(e) \in Entries /\ disk_of(e) # d
    BY <1>0, <1>7, DiskFacts, ZenonT(60) DEF Registered
  <2>2. disk_of(e) \notin X
    <3>1. ASSUME disk_of(e) \in X PROVE e \in X
      BY <3>1, <1>6, ZenonT(60) DEF Shrinks, disk_of, Registered
    <3> QED
      BY <3>1, <1>6, <1>7, ZenonT(60)
  <2> QED
    BY <2>1, <2>2, <1>4, <1>6, ZenonT(60)
<1>11. \A b \in Bufs : buf[b].valid /\ buf[b].dev \in E => dev[buf[b].dev].medium \notin present
  <2> SUFFICES ASSUME NEW b \in Bufs, buf[b].valid, buf[b].dev \in E
               PROVE  dev[buf[b].dev].medium \notin present
    OBVIOUS
  <2>1. buf[b].dev \in Registered
    BY <1>0, BufferFacts, ZenonT(60)
  <2>2. dev[disk_of(buf[b].dev)].medium = dev[buf[b].dev].medium
    BY <1>0, <2>1, DiskFacts, ZenonT(60)
  <2> QED
    BY <2>1, <2>2, <1>2, <1>7, ZenonT(60)
<1>12. X \cap Registered \subseteq E
  BY <1>6, <1>7, ZenonT(60)
<1> QED
  BY <1>2, <1>3, <1>6, <1>9, <1>10, <1>11, <1>12, LeavingStep, ZenonT(60)

\* hold(): a mount only counts.
LEMMA HoldStep ==
    ASSUME CacheInv, NEW e \in Registered, LocksFree, hold(e), UNCHANGED cacheVars
    PROVE  CacheInv' /\ \E W : Moves(W)
<1>0. DeviceTypes /\ RegistryInv /\ buf \in [Bufs -> Descriptor]
  BY Zenon DEF CacheInv, Types, CacheTypes
<1>1. /\ op = Idle /\ Locked = {} /\ op' = Idle /\ changed' = changed /\ buf' = buf
      /\ present' = present /\ cell' = cell /\ stable' = stable
  BY Zenon DEF LocksFree, hold, cacheVars
<1>2. Shrinks({}) /\ DeviceTypes' /\ \A f \in Entries : dev'[f].gone = dev[f].gone
  BY <1>0, HoldShrinks, ZenonT(60)
<1>3. op.call # "range" /\ dev' \in [Entries -> Device]
  <2>1. dev' \in [Entries -> Device]
    BY <1>2, ZenonT(60) DEF DeviceTypes
  <2> QED
    BY <1>1, <2>1, IdleCalls, SMTT(60)
<1>4. \A f \in Registered : dev'[disk_of(f)].gone = dev[disk_of(f)].gone
  BY <1>0, <1>2, DiskFacts, ZenonT(60) DEF Registered
<1>5. PICK X, E : X = {} /\ E = {}
  BY Zenon
<1>6. /\ Shrinks(X) /\ X \cap Registered \subseteq E /\ buf' \in [Bufs -> Descriptor]
      /\ \A b \in Bufs : /\ buf[b].valid /\ buf[b].dev \in E => buf'[b] = Empty
                         /\ ~(buf[b].valid /\ buf[b].dev \in E) => buf'[b] = buf[b]
      /\ \A b \in Bufs : buf[b].valid /\ buf[b].dev \in E /\ ~gone(buf[b].dev) =>
                \/ ~buf[b].dirty \/ dev[buf[b].dev].medium \notin present \/ rc' = "error"
  BY <1>0, <1>1, <1>2, <1>5, ZenonT(60)
<1> QED
  BY <1>1, <1>3, <1>4, <1>6, LeavingStep, ZenonT(60)

\* A plug registers new entries, and a medium is plugged in only when no
\* buffer is left at any of its sectors.
LEMMA PlugStep ==
    ASSUME CacheInv, NEW m \in Media, LocksFree, Plug(m), UNCHANGED cacheVars
    PROVE  /\ CacheInv' /\ \E W : Moves(W)
           /\ \A x \in Bufs : \A n, a : At(x, n, a)' /\ n \in present' => n \in present
<1>0. Types /\ DeviceTypes /\ RegistryInv /\ FileInv /\ buf \in [Bufs -> Descriptor] /\ cell \in Image
  BY Zenon DEF CacheInv, Types, CacheTypes, DeviceTypes
<1>1. /\ op = Idle /\ Locked = {} /\ op' = op /\ changed' = changed /\ buf' = buf
      /\ present' = present \cup {m} /\ cell' = cell /\ stable' = stable
      /\ \A e \in Registered : dev[e].medium = m => gone(e)
  BY Zenon DEF LocksFree, Plug, cacheVars
<1>2. DeviceTypes' /\ RegistryInv' /\ \A e \in Registered : dev'[e] = dev[e]
  BY <1>0, PlugRegisters, ZenonT(60)
<1>3. \A x \in Bufs : Kept(x) /\ (buf[x].valid => /\ SameDevice(buf[x].dev) /\ buf[x].dev \in Entries
                                    /\ dev'[disk_of(buf[x].dev)].gone = dev[disk_of(buf[x].dev)].gone)
  <2> SUFFICES ASSUME NEW x \in Bufs, buf[x].valid
               PROVE  /\ SameDevice(buf[x].dev) /\ buf[x].dev \in Entries
                      /\ dev'[disk_of(buf[x].dev)].gone = dev[disk_of(buf[x].dev)].gone
    BY <1>1, ZenonT(60) DEF Kept
  <2>1. buf[x].dev \in Registered
    BY <1>0, BufferFacts, ZenonT(60)
  <2>2. disk_of(buf[x].dev) \in Registered
    BY <1>0, <2>1, DiskFacts, ZenonT(60)
  <2> QED
    BY <2>1, <2>2, <1>2, ZenonT(60) DEF SameDevice, Registered
<1>4. FileInv'
  BY <1>0, <1>3, FilesKept, ZenonT(60)
<1>5. changed' \subseteq Locked' /\ changed' = {} /\ changed = {}
  BY <1>1, ZenonT(60) DEF CacheInv, LockInv, Locked
<1>6. OpType' /\ RangeInv' /\ FlushInv' /\ LockInv'
  BY <1>1, <1>5, CallEnds, ZenonT(60)
<1>7. CacheInv'
  <2>1. Types'
    BY <1>0, <1>1, <1>2, <1>5, <1>6, ZenonT(60) DEF Types, CacheTypes
  <2> QED
    BY <2>1, <1>2, <1>4, <1>6, ZenonT(60) DEF CacheInv
<1>8. Wrote({})
  BY <1>0, <1>1, NothingWritten, ZenonT(60)
<1>9. op'.call # "range" /\ op.call # "range"
  BY <1>1, IdleCalls, SMTT(60)
<1>10. \A x \in Bufs : \A n, a : At(x, n, a)' <=> At(x, n, a)
  BY <1>3, AtStays, ZenonT(60)
<1>11. ASSUME NEW x \in Bufs PROVE Follows(x, {})
  <2>0. ~Pending(x) /\ ~Pending(x)'
    BY <1>9, ZenonT(60) DEF Pending
  <2> QED
    BY <2>0, <1>1, <1>5, <1>10, ZenonT(60) DEF Follows
<1>12. ASSUME NEW x \in Bufs, NEW n, NEW a, At(x, n, a)', n \in present' PROVE n \in present
  <2>1. At(x, n, a)
    BY <1>10, <1>12, ZenonT(60)
  <2>2. buf[x].valid /\ dev[buf[x].dev].medium = n /\ ~gone(buf[x].dev)
    BY <2>1, ZenonT(60) DEF At
  <2>3. buf[x].dev \in Registered
    BY <1>0, <2>2, BufferFacts, ZenonT(60)
  <2>4. n # m
    BY <2>2, <2>3, <1>1, ZenonT(60)
  <2> QED
    BY <2>4, <1>1, <1>12, ZenonT(60)
<1> QED
  BY <1>7, <1>8, <1>11, <1>12, ZenonT(60) DEF Moves

\* Pulling a plug changes nothing in the kernel.
LEMMA UnplugStep ==
    ASSUME CacheInv, NEW m \in Media, Unplug(m), UNCHANGED cacheVars
    PROVE  /\ CacheInv' /\ dev' = dev /\ present' = present \ {m} /\ stable' = stable
           /\ buf' = buf /\ changed' = changed /\ op' = op /\ rc' = rc
           /\ cell'[m] = stable[m] /\ \A n \in Media : n # m => cell'[n] = cell[n]
<1>1. /\ dev' = dev /\ present' = present \ {m} /\ stable' = stable
      /\ buf' = buf /\ changed' = changed /\ op' = op /\ rc' = rc
      /\ cell' = [cell EXCEPT ![m] = stable[m]]
  BY Zenon DEF Unplug, cacheVars
<1>2. DeviceTypes /\ cell \in Image /\ stable \in Image
  BY Zenon DEF CacheInv, Types, DeviceTypes
<1>3. cell' \in Image /\ cell'[m] = stable[m] /\ \A n \in Media : n # m => cell'[n] = cell[n]
  BY <1>1, <1>2, ZenonT(60) DEF Image
<1>4. FileInv'
  BY <1>1, FilesKept, ZenonT(60) DEF CacheInv, Kept, SameDevice
<1>5. RegistryInv'
  BY <1>1, RegistryStays, ZenonT(60) DEF CacheInv, Types
<1>6. Types'
  BY <1>1, <1>3, ZenonT(60) DEF CacheInv, Types, DeviceTypes, CacheTypes, OpType
<1>7. RangeInv' /\ LockInv'
  BY <1>1, ZenonT(60) DEF CacheInv, RangeInv, LockInv, Mountable, Registered, Whole, Locked
<1>8. FlushInv'
  BY <1>1, ZenonT(60) DEF CacheInv, FlushInv, Mountable, Registered, Whole, Locked, Dirty
<1> QED
  BY <1>1, <1>3, <1>4, <1>5, <1>6, <1>7, <1>8, ZenonT(60) DEF CacheInv
-----------------------------------------------------------------------------
(* The inductive invariant.                                                *)

\* The kernel moves sectors between the buffers and the devices.
SectorMoves ==
    /\ stable' = stable /\ \E W : Moves(W)
    /\ \A x \in Bufs : \A m, a : At(x, m, a)' /\ m \in present' => m \in present

\* Every step keeps the invariant, and moves sectors, or is one of three.
LEMMA NextSteps ==
    ASSUME CacheInv, Next
    PROVE  /\ CacheInv'
           /\ \/ SectorMoves
              \/ \E b \in Bufs, v \in Data : Change(b, v)
              \/ FlushDevices
              \/ \E m \in Media : Unplug(m) /\ UNCHANGED cacheVars
<1>1. \A e : e \in Registered /\ Usable(e) => Mountable(e)
  BY Zenon DEF Usable, Mountable, Whole
<1>2. ASSUME stable' = stable, present' = present, CacheInv' /\ \E W : Moves(W)
      PROVE  CacheInv' /\ SectorMoves
  BY <1>2, ZenonT(60) DEF SectorMoves
<1>3. ASSUME NEW e \in Registered, Usable(e), NEW l \in Sectors(e),
             GetHit(e, l) \/ GetMiss(e, l) \/ \E n \in 1 .. MaxRange : RangeStart(e, l, n)
      PROVE  CacheInv' /\ SectorMoves
  <2>1. Mountable(e)
    BY <1>1, <1>3, ZenonT(60)
  <2>2. stable' = stable /\ present' = present
    BY <1>3, ZenonT(60) DEF GetHit, GetMiss, RangeStart, deviceVars
  <2>3. CacheInv' /\ \E W : Moves(W)
    BY <2>1, <1>3, GetHitStep, GetMissStep, RangeStartStep, ZenonT(60)
  <2> QED
    BY <2>2, <2>3, <1>2, ZenonT(60)
<1>4. ASSUME NEW e \in Registered, LocksFree, hold(e), UNCHANGED cacheVars
      PROVE  CacheInv' /\ SectorMoves
  <2>1. stable' = stable /\ present' = present
    BY <1>4, ZenonT(60) DEF hold
  <2> QED
    BY <2>1, <1>2, <1>4, HoldStep, ZenonT(60)
<1>5. ASSUME NEW e, NEW call \in {"flush", "unmount"}, Mountable(e) \/ (call = "flush" /\ e = All),
             FlushStart(e, call)
      PROVE  CacheInv' /\ SectorMoves
  <2>1. stable' = stable /\ present' = present
    BY <1>5, ZenonT(60) DEF FlushStart, deviceVars
  <2> QED
    BY <2>1, <1>2, <1>5, FlushStartStep, ZenonT(60)
<1>6. ASSUME NEW b \in Bufs, put(b)
      PROVE  CacheInv' /\ SectorMoves
  <2>1. stable' = stable /\ present' = present
    BY <1>6, ZenonT(60) DEF put, deviceVars
  <2> QED
    BY <2>1, <1>2, <1>6, PutStep, ZenonT(60)
<1>7. ASSUME NEW b \in Bufs, NEW v \in Data \ {Blank}, Change(b, v)
      PROVE  CacheInv' /\ \E c \in Bufs, w \in Data : Change(c, w)
  <2>1. v \in Data
    BY Zenon
  <2>2. CacheInv'
    BY <2>1, <1>7, ChangeStep, ZenonT(60)
  <2> QED
    BY <2>1, <2>2, <1>7, ZenonT(60)
<1>8. ASSUME RangeLock \/ RangeFill \/ FlushBuffer \/ Release
      PROVE  CacheInv' /\ SectorMoves
  <2>1. stable' = stable /\ present' = present
    BY <1>8, ZenonT(60) DEF RangeLock, RangeFill, FlushBuffer, Release, deviceVars
  <2> QED
    BY <2>1, <1>2, <1>8, RangeLockStep, RangeFillStep, FlushBufferStep, ReleaseStep, ZenonT(60)
<1>9. ASSUME FlushDevices PROVE CacheInv'
  BY <1>9, FlushDevicesStep, ZenonT(60)
<1>10. ASSUME NEW d \in Entries, disk_gone(d)
       PROVE  CacheInv' /\ SectorMoves
  <2>1. stable' = stable /\ present' = present
    BY <1>10, ZenonT(60) DEF disk_gone
  <2> QED
    BY <2>1, <1>2, <1>10, DiskGoneStep, ZenonT(60)
<1>11. ASSUME NEW m \in Media, LocksFree, Plug(m), UNCHANGED cacheVars
       PROVE  CacheInv' /\ SectorMoves
  <2>1. stable' = stable
    BY <1>11, ZenonT(60) DEF Plug
  <2> QED
    BY <2>1, <1>11, PlugStep, ZenonT(60) DEF SectorMoves
<1>12. ASSUME NEW m \in Media, Unplug(m), UNCHANGED cacheVars PROVE CacheInv'
  BY <1>12, UnplugStep, ZenonT(60)
<1>13. CASE \E e \in Registered : Usable(e) /\
         \/ \E l \in Sectors(e) :
              GetHit(e, l) \/ GetMiss(e, l) \/ \E n \in 1 .. MaxRange : RangeStart(e, l, n)
         \/ LocksFree /\ ~gone(e) /\ dev[e].users = 0 /\ hold(e) /\ UNCHANGED cacheVars
         \/ FlushStart(e, "flush")
         \/ dev[e].users > 0 /\ FlushStart(e, "unmount")
  BY <1>13, <1>1, <1>3, <1>4, <1>5, ZenonT(60)
<1>14. CASE FlushStart(All, "flush")
  BY <1>14, <1>5, ZenonT(60)
<1>15. CASE \E b \in Bufs : put(b) \/ \E v \in Data \ {Blank} : Change(b, v)
  BY <1>15, <1>6, <1>7, ZenonT(60)
<1>16. CASE \E m \in Media : \/ LocksFree /\ Plug(m) /\ UNCHANGED cacheVars
                             \/ Unplug(m) /\ UNCHANGED cacheVars
  BY <1>16, <1>11, <1>12, ZenonT(60)
<1> QED
  BY <1>8, <1>9, <1>10, <1>13, <1>14, <1>15, <1>16, ZenonT(60) DEF Next

\* Nothing is registered, cached or called at first.
LEMMA CacheInit ==
    ASSUME Init PROVE CacheInv
<1>1. /\ dev = [e \in Entries |-> Unused] /\ present = {} /\ stable = cell
      /\ cell = [m \in Media |-> [l \in Lbas |-> Blank]]
      /\ buf = [b \in Bufs |-> Empty] /\ changed = {} /\ op = Idle
  BY Zenon DEF Init, DevicesInit
<1>2. \A e \in Entries : dev[e] = Unused /\ ~dev[e].registered
  BY <1>1, UnusedFacts, ZenonT(60)
<1>3. \A b \in Bufs : buf[b] = Empty /\ ~buf[b].valid
  BY <1>1, EmptyFacts, ZenonT(60)
<1>4. cell \in Image /\ stable \in Image
  <2>1. Blank \in Data \cup {Junk}
    BY RegistryAssumption, ZenonT(60)
  <2>2. \A m \in Media : [l \in Lbas |-> Blank] \in [Lbas -> Data \cup {Junk}]
    BY <2>1, ZenonT(60)
  <2> QED
    BY <2>2, <1>1, ZenonT(60) DEF Image
<1>5. Types
  <2>1. dev \in [Entries -> Device] /\ buf \in [Bufs -> Descriptor]
    BY <1>1, UnusedFacts, EmptyFacts, ZenonT(60)
  <2> QED
    BY <2>1, <1>1, <1>4, ZenonT(60) DEF Types, DeviceTypes, CacheTypes, OpType
<1>6. RegistryInv
  BY <1>2, ZenonT(60) DEF RegistryInv, Entered, Sisters, OneDisk, Registered
<1>7. FileInv
  BY <1>3, ZenonT(60) DEF FileInv, Filed, OneBuffer
<1>8. op.call = "none"
  BY <1>1, IdleCalls, ZenonT(60)
<1>9. RangeInv /\ FlushInv /\ LockInv
  <2>1. op.call # "range" /\ op.call \notin {"flush", "unmount", "release"}
    BY <1>8
  <2> QED
    BY <2>1, <1>1, <1>8, ZenonT(60) DEF RangeInv, FlushInv, LockInv
<1> QED
  BY <1>5, <1>6, <1>7, <1>9, ZenonT(60) DEF CacheInv

\* A step that changes nothing keeps the invariant.
LEMMA CacheStutters ==
    ASSUME CacheInv, UNCHANGED vars PROVE CacheInv'
<1>1. /\ dev' = dev /\ present' = present /\ stable' = stable /\ cell' = cell
      /\ buf' = buf /\ changed' = changed /\ op' = op /\ rc' = rc
  BY Zenon DEF vars
<1>2. FileInv'
  BY <1>1, FilesKept, ZenonT(60) DEF CacheInv, Kept, SameDevice
<1>3. Types'
  BY <1>1, ZenonT(60) DEF CacheInv, Types, DeviceTypes, CacheTypes, OpType
<1>4. RangeInv' /\ LockInv'
  BY <1>1, ZenonT(60) DEF CacheInv, RangeInv, LockInv, Mountable, Registered, Whole, Locked
<1>5. FlushInv'
  BY <1>1, ZenonT(60) DEF CacheInv, FlushInv, Mountable, Registered, Whole, Locked, Dirty
<1>6. RegistryInv'
  BY <1>1, RegistryStays, ZenonT(60) DEF CacheInv, Types
<1> QED
  BY <1>2, <1>3, <1>4, <1>5, <1>6, ZenonT(60) DEF CacheInv

\* The cache, the registry under it and the call in progress fit together at
\* every moment: the inductive invariant.
THEOREM CacheInvariant == Spec => []CacheInv
<1>1. Init => CacheInv
  BY CacheInit, ZenonT(60)
<1>2. CacheInv /\ [Next]_vars => CacheInv'
  BY NextSteps, CacheStutters, ZenonT(60)
<1> QED
  BY <1>1, <1>2, PTL DEF Spec

\* What find_buffer() and every reader of the cache rely on: no two valid
\* buffers are of the same sector of the same device.
THEOREM SectorsAreUnique == Spec => []OneBuffer
<1>1. CacheInv => OneBuffer
  BY Zenon DEF CacheInv, FileInv
<1> QED
  BY <1>1, CacheInvariant, PTL

\* find_buffer() finds the one buffer of a sector, and every valid buffer is
\* of a sector of a registered device, also after collect() gave the entries
\* of a disk that left to the next one.
THEOREM EveryBufferIsFiled == Spec => []BuffersAreFiled
<1>1. ASSUME CacheInv PROVE BuffersAreFiled
  <2> SUFFICES ASSUME NEW b \in Bufs, buf[b].valid
               PROVE  /\ find_buffer(buf[b].dev, buf[b].lba) = {b}
                      /\ buf[b].dev \in Registered
                      /\ buf[b].lba \in Sectors(buf[b].dev)
    BY Zenon DEF BuffersAreFiled
  <2>1. Mountable(buf[b].dev) /\ buf[b].lba \in Sectors(buf[b].dev)
    BY <1>1, ZenonT(60) DEF CacheInv, FileInv, Filed
  <2>2. find_buffer(buf[b].dev, buf[b].lba) = {b}
    BY <1>1, ZenonT(60) DEF CacheInv, FileInv, OneBuffer, find_buffer
  <2> QED
    BY <2>1, <2>2, ZenonT(60) DEF Mountable
<1> QED
  BY <1>1, CacheInvariant, PTL
-----------------------------------------------------------------------------
(* The sectors, on media whose partitions do not overlap.                  *)

\* The scan takes partitions as the table has them. Two that share a sector
\* are two devices with a buffer each for it, and neither sees the other's.
PartitionsApart ==
    \A m \in Media : \A i, j \in DOMAIN Layout[m] :
        i # j => \/ Layout[m][i].first + Layout[m][i].count <= Layout[m][j].first
                 \/ Layout[m][j].first + Layout[m][j].count <= Layout[m][i].first

\* Two devices with file systems share no sector.
LEMMA DevicesApart ==
    ASSUME PartitionsApart, DeviceTypes, RegistryInv, NEW e, NEW f, Mountable(e), Mountable(f),
           ~gone(e), ~gone(f), dev[e].medium = dev[f].medium,
           NEW l \in Sectors(e), NEW k \in Sectors(f), resolve(e, l) = resolve(f, k)
    PROVE  e = f /\ l = k
<1>1. e \in Registered /\ f \in Registered
  BY Zenon DEF Mountable
<1>2. PICK m : m = dev[e].medium
  BY Zenon
<1>3. /\ m \in Media /\ dev[e].medium = m /\ dev[f].medium = m
      /\ disk_of(e) \in Registered /\ Whole(disk_of(e)) /\ dev[disk_of(e)].medium = m
      /\ disk_of(f) \in Registered /\ Whole(disk_of(f)) /\ dev[disk_of(f)].medium = m
  BY <1>1, <1>2, DiskFacts, ZenonT(60)
<1>4. disk_of(e) = disk_of(f)
  BY <1>3, ZenonT(60) DEF RegistryInv, OneDisk, gone
<1>5. e \in Entries /\ f \in Entries /\ Entered(e) /\ Entered(f)
  BY <1>1, ZenonT(60) DEF Registered, RegistryInv
<1>6. /\ dev[e].first \in Nat /\ dev[e].count \in Nat /\ dev[f].first \in Nat /\ dev[f].count \in Nat
      /\ l \in 0 .. dev[e].count - 1 /\ k \in 0 .. dev[f].count - 1
      /\ dev[e].first + l = dev[f].first + k
  BY <1>5, SMTT(60) DEF DeviceTypes, Device, Sectors, resolve
<1>7. ASSUME NEW x \in Registered, NEW y \in Registered, Entered(y), Mountable(x), x # y,
             dev[x].medium = m, dev[y].medium = m, Whole(x), disk_of(x) = disk_of(y)
      PROVE  FALSE
  <2>1. Layout[m] = <<>>
    BY <1>7, ZenonT(60) DEF Mountable
  <2>2. ~Whole(y)
    BY <1>7, ZenonT(60) DEF Whole, disk_of
  <2>3. PICK i \in Nat : Numbered(y, i)
    BY <2>2, <1>7, ZenonT(60) DEF Entered, Registered
  <2>4. i \in DOMAIN Layout[m]
    BY <2>3, <1>7, ZenonT(60) DEF Numbered
  <2> QED
    BY <2>1, <2>4, SMTT(60)
<1>8. CASE e = f
  BY <1>6, <1>8, SMTT(60)
<1>9. CASE e # f /\ ~Whole(e) /\ ~Whole(f)
  <2>1. dev[f].parent = dev[e].parent
    BY <1>4, <1>9, ZenonT(60) DEF disk_of, Whole
  <2>2. PICK i \in Nat, j \in Nat : i # j /\ Numbered(e, i) /\ Numbered(f, j)
    BY <2>1, <1>1, <1>9, ZenonT(60) DEF RegistryInv, Sisters
  <2>3. /\ i \in DOMAIN Layout[m] /\ j \in DOMAIN Layout[m]
        /\ dev[e].first = Layout[m][i].first /\ dev[e].count = Layout[m][i].count
        /\ dev[f].first = Layout[m][j].first /\ dev[f].count = Layout[m][j].count
    BY <2>2, <1>3, ZenonT(60) DEF Numbered
  <2>4. \/ dev[e].first + dev[e].count <= dev[f].first
        \/ dev[f].first + dev[f].count <= dev[e].first
    BY <2>2, <2>3, <1>3, ZenonT(60) DEF PartitionsApart
  <2> QED
    BY <2>4, <1>6, SMTT(60)
<1>10. CASE e # f /\ (Whole(e) \/ Whole(f))
  BY <1>1, <1>3, <1>4, <1>5, <1>7, <1>10, ZenonT(60)
<1> QED
  BY <1>8, <1>9, <1>10, ZenonT(60)

\* So a sector of a medium has at most one buffer.
OneHolder == \A b, c \in Bufs : \A m, a : At(b, m, a) /\ At(c, m, a) => b = c

\* What a reader gets: the contents of the buffer at the sector, once it is
\* filled, and else what the device has.
ContentFacts ==
    \A m \in Media, a \in Lbas :
        /\ \A b \in Bufs : At(b, m, a) /\ ~Pending(b) => Content[m][a] = buf[b].data
        /\ (\A b \in Bufs : At(b, m, a) => Pending(b)) => Content[m][a] = cell[m][a]

\* A buffer on a medium that is there, neither dirty nor changed, is a copy
\* of the sector or undefined.
CopyInv ==
    \A b \in Bufs : \A m, a :
        At(b, m, a) /\ m \in present /\ ~buf[b].dirty /\ b \notin changed /\ ~Pending(b)
        => buf[b].data \in {Junk, cell[m][a]}

\* Every buffer at a sector is at a sector of a medium.
Placed == \A b \in Bufs : \A m, a : At(b, m, a) => m \in Media /\ a \in Lbas

SectorFacts == OneHolder /\ ContentFacts /\ Placed

\* A buffer's sector, in terms of its device.
LEMMA SectorsHold == PartitionsApart /\ CacheInv => SectorFacts
<1> SUFFICES ASSUME PartitionsApart, CacheInv PROVE SectorFacts
  OBVIOUS
<1>0. Types /\ DeviceTypes /\ RegistryInv /\ FileInv
  BY Zenon DEF CacheInv, Types
<1>1. OneHolder
  <2> SUFFICES ASSUME NEW b \in Bufs, NEW c \in Bufs, NEW m, NEW a, At(b, m, a), At(c, m, a)
               PROVE  b = c
    BY ZenonT(60) DEF OneHolder
  <2>1. /\ buf[b].valid /\ buf[c].valid /\ ~gone(buf[b].dev) /\ ~gone(buf[c].dev)
        /\ dev[buf[b].dev].medium = dev[buf[c].dev].medium
        /\ resolve(buf[b].dev, buf[b].lba) = resolve(buf[c].dev, buf[c].lba)
    BY ZenonT(60) DEF At
  <2>2. /\ Mountable(buf[b].dev) /\ Mountable(buf[c].dev)
        /\ buf[b].lba \in Sectors(buf[b].dev) /\ buf[c].lba \in Sectors(buf[c].dev)
    BY <1>0, <2>1, BufferFacts, ZenonT(60)
  <2>3. buf[b].dev = buf[c].dev /\ buf[b].lba = buf[c].lba
    <3>1. PICK e, f, l, k : e = buf[b].dev /\ f = buf[c].dev /\ l = buf[b].lba /\ k = buf[c].lba
      BY ZenonT(60)
    <3>2. /\ Mountable(e) /\ Mountable(f) /\ ~gone(e) /\ ~gone(f) /\ dev[e].medium = dev[f].medium
          /\ l \in Sectors(e) /\ k \in Sectors(f) /\ resolve(e, l) = resolve(f, k)
      BY <3>1, <2>1, <2>2, ZenonT(60)
    <3>3. e = f /\ l = k
      BY <3>2, <1>0, DevicesApart, ZenonT(60)
    <3> QED
      BY <3>1, <3>3, ZenonT(60)
  <2> QED
    BY <2>1, <2>3, <1>0, ZenonT(60) DEF FileInv, OneBuffer
<1>2. \A m, a : Holding(m, a) = {b \in Bufs : At(b, m, a) /\ ~Pending(b)}
  BY Zenon DEF Holding, At
<1>3. ContentFacts
  <2> SUFFICES ASSUME NEW m \in Media, NEW a \in Lbas
               PROVE  /\ \A b \in Bufs : At(b, m, a) /\ ~Pending(b) => Content[m][a] = buf[b].data
                      /\ (\A b \in Bufs : At(b, m, a) => Pending(b)) => Content[m][a] = cell[m][a]
    BY ZenonT(60) DEF ContentFacts
  <2>1. Content[m][a] = IF Holding(m, a) = {} THEN cell[m][a]
                        ELSE buf[CHOOSE b \in Holding(m, a) : TRUE].data
    BY Zenon DEF Content
  <2>2. ASSUME NEW b \in Bufs, At(b, m, a), ~Pending(b) PROVE Content[m][a] = buf[b].data
    <3>1. Holding(m, a) = {b}
      BY <1>1, <1>2, <2>2, ZenonT(60) DEF OneHolder
    <3>2. (CHOOSE x \in {b} : TRUE) = b
      BY ZenonT(60)
    <3> QED
      BY <2>1, <3>1, <3>2, ZenonT(60)
  <2>3. ASSUME \A b \in Bufs : At(b, m, a) => Pending(b) PROVE Content[m][a] = cell[m][a]
    BY <2>1, <2>3, <1>2, ZenonT(60)
  <2> QED
    BY <2>2, <2>3, Zenon
<1>4. Placed
  BY <1>0, BufferFacts, ZenonT(60) DEF Placed, At
<1> QED
  BY <1>1, <1>3, <1>4, ZenonT(60) DEF SectorFacts

\* The same of the next state.
LEMMA SectorsHoldNext == (PartitionsApart /\ CacheInv)' => SectorFacts'
BY SectorsHold, PTL

\* What the step did to sector a of medium m, in SectorStore's words.
StoreStep(m, a) ==
    Store!Step(m, <<m, a>> \in Held /\ <<m, a>> \in Held',
               Content[m][a], cell[m][a], stable[m][a],
               Content'[m][a], cell'[m][a], stable'[m][a])

\* Moving sectors keeps the copies, and what every sector holds.
LEMMA MovesKeep ==
    ASSUME CacheInv, SectorFacts, SectorFacts', CopyInv, SectorMoves
    PROVE  CopyInv' /\ \A m \in Media, a \in Lbas : StoreStep(m, a)
<1>1. /\ stable' = stable
      /\ \A x \in Bufs : \A m, a : At(x, m, a)' /\ m \in present' => m \in present
  BY Zenon DEF SectorMoves
<1>2. PICK W : Wrote(W) /\ \A x \in Bufs : Follows(x, W) \/ Leaves(x, W)
  BY Zenon DEF SectorMoves, Moves
<1>3. \A w \in W : w \in Bufs /\ ~Pending(w)
  <2> SUFFICES ASSUME NEW w \in W PROVE w \in Bufs /\ ~Pending(w)
    OBVIOUS
  <2>1. w \in Bufs /\ buf[w].dirty
    BY <1>2, ZenonT(60) DEF Wrote
  <2>2. ASSUME Pending(w) PROVE FALSE
    <3>1. op.call = "range" /\ w \in Range(op.out) /\ buf[w].lba \in op.missed
      BY <2>2, ZenonT(60) DEF Pending
    <3> QED
      BY <3>1, <2>1, OutFacts, ZenonT(60)
  <2> QED
    BY <2>1, <2>2, ZenonT(60)
\* A buffer that is at a sector anew holds what the device has.
<1>4. ASSUME NEW x \in Bufs, NEW m, NEW a, Leaves(x, W), At(x, m, a)', ~Pending(x)'
      PROVE  buf'[x].data = cell'[m][a]
  <2>0. PICK e, l : e = buf'[x].dev /\ l = buf'[x].lba
    BY Zenon
  <2>1. buf'[x].valid /\ dev'[e].medium = m /\ resolve(e, l)' = a
    BY <1>4, <2>0, ZenonT(60) DEF At, resolve
  <2>2. buf'[x] # Empty
    BY <2>1, EmptyFacts, ZenonT(60)
  <2>3. dev' = dev /\ buf'[x].data = OnDisk(cell', e, l)
    BY <2>0, <2>2, <1>4, ZenonT(60) DEF Leaves
  <2> QED
    BY <2>1, <2>3, ZenonT(60) DEF OnDisk, resolve
<1>5. CopyInv'
  <2> SUFFICES ASSUME NEW b \in Bufs, NEW m, NEW a, At(b, m, a)', m \in present', ~buf'[b].dirty,
                      b \notin changed', ~Pending(b)'
               PROVE  buf'[b].data \in {Junk, cell'[m][a]}
    BY ZenonT(60) DEF CopyInv
  <2>1. m \in Media /\ a \in Lbas /\ m \in present
    BY <1>1, ZenonT(60) DEF SectorFacts, Placed
  <2>2. CASE Leaves(b, W)
    BY <2>2, <1>4, ZenonT(60)
  <2>3. CASE Follows(b, W)
    <3>1. At(b, m, a) /\ ~gone(buf[b].dev)
      BY <2>1, <2>3, ZenonT(60) DEF Follows, At
    <3>2. CASE Pending(b)
      BY <2>1, <2>3, <3>1, <3>2, ZenonT(60) DEF Follows
    <3>3. CASE ~Pending(b) /\ b \in W
      <4>1. cell'[m][a] = buf[b].data /\ buf'[b].data = buf[b].data
        BY <2>1, <2>3, <3>1, <3>3, <1>2, ZenonT(60) DEF Follows, Wrote
      <4> QED
        BY <4>1, ZenonT(60)
    <3>4. CASE ~Pending(b) /\ b \notin W
      <4>1. buf'[b].data = buf[b].data /\ ~buf[b].dirty /\ b \notin changed
        BY <2>3, <3>1, <3>4, ZenonT(60) DEF Follows
      <4>2. buf[b].data \in {Junk, cell[m][a]}
        BY <4>1, <2>1, <3>1, <3>4, ZenonT(60) DEF CopyInv
      <4>3. \A w \in W : ~At(w, m, a)
        BY <3>1, <3>4, <1>3, ZenonT(60) DEF SectorFacts, OneHolder
      <4>4. cell'[m][a] = cell[m][a]
        BY <4>3, <2>1, <1>2, ZenonT(60) DEF Wrote
      <4> QED
        BY <4>1, <4>2, <4>4, ZenonT(60)
    <3> QED
      BY <3>2, <3>3, <3>4, ZenonT(60)
  <2> QED
    BY <2>2, <2>3, <1>2, ZenonT(60)
<1>6. ASSUME NEW m \in Media, NEW a \in Lbas PROVE StoreStep(m, a)
  <2> DEFINE Stayed == \E y \in Bufs : Follows(y, W) /\ At(y, m, a) /\ ~Pending(y)'
             Lost == m \notin present \/ rc' = "error"
  <2>0. PICK c, s, c2, s2 : /\ c = Content[m][a] /\ s = cell[m][a]
                            /\ c2 = Content'[m][a] /\ s2 = cell'[m][a]
    BY ZenonT(60)
  \* What each buffer at the sector says of it, before and after.
  <2>1. /\ \A b \in Bufs : At(b, m, a) /\ ~Pending(b) => c = buf[b].data
        /\ (\A b \in Bufs : At(b, m, a) => Pending(b)) => c = s
    BY <2>0, ZenonT(60) DEF SectorFacts, ContentFacts
  <2>2. /\ \A b \in Bufs : At(b, m, a)' /\ ~Pending(b)' => c2 = buf'[b].data
        /\ (\A b \in Bufs : At(b, m, a)' => Pending(b)') => c2 = s2
    BY <2>0, ZenonT(60) DEF SectorFacts, ContentFacts
  <2>3. \A b \in Bufs : Follows(b, W) => (At(b, m, a)' <=> At(b, m, a))
    BY ZenonT(60) DEF Follows
  <2>4. ~Stayed => c2 = s2
    <3> SUFFICES ASSUME ~Stayed, NEW y \in Bufs, At(y, m, a)', ~Pending(y)' PROVE c2 = s2
      BY <2>2, Zenon
    <3>1. Leaves(y, W)
      BY <1>2, <2>3, Zenon
    <3> QED
      BY <3>1, <2>0, <2>2, <1>4, ZenonT(60)
  <2>5. /\ \A w \in W : At(w, m, a) => s2 = buf[w].data
        /\ (\A w \in W : ~At(w, m, a)) => s2 = s
    BY <2>0, <1>2, ZenonT(60) DEF Wrote
  <2>6. \/ c2 = c /\ s2 = s
        \/ s2 = c /\ c2 = c
        \/ c2 = Junk /\ s2 = s
        \/ c = Junk /\ c2 = s /\ s2 = s
        \/ Lost /\ c2 = s /\ s2 = s
    <3>1. CASE \E w \in W : At(w, m, a)
      <4>1. PICK w \in W : At(w, m, a)
        BY <3>1, ZenonT(60)
      <4>2. w \in Bufs /\ ~Pending(w) /\ s2 = c
        BY <4>1, <1>3, <2>1, <2>5, ZenonT(60)
      <4>3. CASE Stayed
        <5>1. PICK y \in Bufs : Follows(y, W) /\ At(y, m, a) /\ ~Pending(y)'
          BY <4>3, ZenonT(60)
        <5>2. y = w
          BY <4>1, <4>2, <5>1, ZenonT(60) DEF SectorFacts, OneHolder
        <5>3. c2 = buf'[w].data /\ buf'[w].data = buf[w].data
          BY <5>1, <5>2, <4>2, <2>2, <2>3, ZenonT(60) DEF Follows
        <5>4. c = buf[w].data
          BY <4>1, <4>2, <2>1, ZenonT(60)
        <5>5. c2 = c /\ s2 = c
          BY <5>3, <5>4, <4>2, ZenonT(60)
        <5> QED
          BY <5>5, ZenonT(60)
      <4>4. CASE ~Stayed
        <5>1. c2 = s2
          BY <4>4, <2>4, ZenonT(60)
        <5>2. c2 = c /\ s2 = c
          BY <5>1, <4>2, SMTT(60)
        <5> QED
          BY <5>2, ZenonT(60)
      <4> QED
        BY <4>3, <4>4, ZenonT(60)
    <3>2. CASE (\A w \in W : ~At(w, m, a)) /\ Stayed
      <4>0. s2 = s
        BY <3>2, <2>5, ZenonT(60)
      <4>1. PICK y \in Bufs : Follows(y, W) /\ At(y, m, a) /\ ~Pending(y)'
        BY <3>2, ZenonT(60)
      <4>2. c2 = buf'[y].data
        BY <4>1, <2>2, <2>3, ZenonT(60)
      <4>3. CASE Pending(y)
        <5>1. \A b \in Bufs : At(b, m, a) => b = y
          BY <4>1, ZenonT(60) DEF SectorFacts, OneHolder
        <5>2. c = s
          BY <5>1, <4>3, <2>1, ZenonT(60)
        <5>3. buf'[y].data \in {Junk, s2}
          BY <4>1, <4>3, <2>0, ZenonT(60) DEF Follows
        <5> QED
          BY <5>2, <5>3, <4>0, <4>2, ZenonT(60)
      <4>4. CASE ~Pending(y)
        BY <4>0, <4>1, <4>2, <4>4, <2>1, ZenonT(60) DEF Follows
      <4> QED
        BY <4>3, <4>4, ZenonT(60)
    <3>3. CASE (\A w \in W : ~At(w, m, a)) /\ ~Stayed
      <4>0. s2 = s /\ c2 = s
        BY <3>3, <2>4, <2>5, ZenonT(60)
      <4>1. CASE \A b \in Bufs : At(b, m, a) => Pending(b)
        BY <4>0, <4>1, <2>1, Zenon
      <4>2. CASE \E b \in Bufs : At(b, m, a) /\ ~Pending(b)
        <5>1. PICK x \in Bufs : At(x, m, a) /\ ~Pending(x)
          BY <4>2, Zenon
        <5>2. c = buf[x].data
          BY <5>1, <2>1, Zenon
        <5>3. Leaves(x, W)
          BY <3>3, <5>1, <1>2, Zenon DEF Follows
        <5>4. Lost \/ (~buf[x].dirty /\ x \notin changed /\ m \in present)
          BY <3>3, <5>1, <5>3, Zenon DEF Leaves, At
        <5>5. ~Lost => buf[x].data \in {Junk, s}
          BY <5>1, <5>4, <2>0, Zenon DEF CopyInv
        <5> QED
          BY <5>2, <5>5, <4>0, Zenon
      <4> QED
        BY <4>1, <4>2, ZenonT(60)
    <3> QED
      BY <3>1, <3>2, <3>3, ZenonT(60)
  <2> HIDE DEF Lost, Stayed
  <2>7. stable'[m][a] = stable[m][a]
    BY <1>1, Zenon
  <2> QED
    BY <2>0, <2>6, <2>7, ZenonT(60) DEF StoreStep, Store!Step, Lost
<1> QED
  BY <1>5, <1>6, ZenonT(60)

\* While nothing is pending, the buffer at a sector says what it holds.
LEMMA PlainContent ==
    ASSUME SectorFacts, SectorFacts', \A x : ~Pending(x) /\ ~Pending(x)',
           NEW m \in Media, NEW a \in Lbas, \A x \in Bufs : At(x, m, a)' <=> At(x, m, a)
    PROVE  /\ \A x \in Bufs : At(x, m, a) => /\ Content[m][a] = buf[x].data
                                             /\ Content'[m][a] = buf'[x].data
           /\ (\A x \in Bufs : ~At(x, m, a)) => /\ Content[m][a] = cell[m][a]
                                                /\ Content'[m][a] = cell'[m][a]
<1>1. /\ \A x \in Bufs : At(x, m, a) /\ ~Pending(x) => Content[m][a] = buf[x].data
      /\ (\A x \in Bufs : At(x, m, a) => Pending(x)) => Content[m][a] = cell[m][a]
  BY Zenon DEF SectorFacts, ContentFacts
<1>2. /\ \A x \in Bufs : At(x, m, a)' /\ ~Pending(x)' => Content'[m][a] = buf'[x].data
      /\ (\A x \in Bufs : At(x, m, a)' => Pending(x)') => Content'[m][a] = cell'[m][a]
  BY Zenon DEF SectorFacts, ContentFacts
<1> QED
  BY <1>1, <1>2, Zenon

\* A holder's change is to its own sector only.
LEMMA ChangeKeeps ==
    ASSUME CacheInv, SectorFacts, SectorFacts', CopyInv, NEW b \in Bufs, NEW v \in Data, Change(b, v)
    PROVE  CopyInv' /\ \A m \in Media, a \in Lbas : StoreStep(m, a)
<1>1. /\ op = Idle /\ op' = op /\ b \in Locked /\ changed' = changed \cup {b}
      /\ dev' = dev /\ present' = present /\ cell' = cell /\ stable' = stable
  BY Zenon DEF Change, deviceVars
<1>2. /\ \A x \in Bufs : /\ Kept(x) /\ buf'[x].dirty = buf[x].dirty
                         /\ (x \in Locked)' <=> x \in Locked
                         /\ x # b => buf'[x].data = buf[x].data
      /\ buf'[b].data = IF buf[b].data = Junk THEN Junk ELSE v
  BY ChangeStep, Zenon
<1>3. \A x : ~Pending(x) /\ ~Pending(x)'
  <2>1. op.call # "range" /\ op'.call # "range"
    BY <1>1, IdleCalls
  <2> QED
    BY <2>1, Zenon DEF Pending
<1>4. \A x \in Bufs : \A m, a : At(x, m, a)' <=> At(x, m, a)
  BY <1>1, <1>2, StaysAt, Zenon
<1>5. CopyInv'
  <2> SUFFICES ASSUME NEW x \in Bufs, NEW m, NEW a, At(x, m, a)', m \in present', ~buf'[x].dirty,
                      x \notin changed'
               PROVE  buf'[x].data \in {Junk, cell'[m][a]}
    BY Zenon DEF CopyInv
  <2>1. x # b /\ x \notin changed /\ At(x, m, a) /\ m \in present /\ ~buf[x].dirty
    BY <1>1, <1>2, <1>4, Zenon
  <2>2. buf[x].data \in {Junk, cell[m][a]}
    BY <2>1, <1>3, Zenon DEF CopyInv
  <2> QED
    BY <2>1, <2>2, <1>1, <1>2, Zenon
<1>6. ASSUME NEW m \in Media, NEW a \in Lbas PROVE StoreStep(m, a)
  <2>1. cell'[m][a] = cell[m][a] /\ stable'[m][a] = stable[m][a]
    BY <1>1, Zenon
  <2>2. /\ \A x \in Bufs : At(x, m, a) => Content[m][a] = buf[x].data /\ Content'[m][a] = buf'[x].data
        /\ (\A x \in Bufs : ~At(x, m, a)) => Content[m][a] = cell[m][a] /\ Content'[m][a] = cell'[m][a]
    BY <1>3, <1>4, PlainContent, Zenon
  <2>3. CASE At(b, m, a)
    <3>1. Content[m][a] = buf[b].data /\ Content'[m][a] = buf'[b].data
      BY <2>2, <2>3, Zenon
    <3>2. <<m, a>> \in Held /\ <<m, a>> \in Held'
      <4>1. b \in Holding(m, a) /\ b \in Holding(m, a)'
        BY <2>3, <1>3, <1>4, Zenon DEF Holding, At
      <4>2. b \in Locked /\ b \in Locked'
        BY <1>1, <1>2, Zenon
      <4>3. PICK h : h = <<m, a>>
        BY Zenon
      <4>4. h[1] = m /\ h[2] = a /\ h \in Media \X Lbas
        BY <4>3
      <4>5. Holding(h[1], h[2]) \cap Locked # {} /\ (Holding(h[1], h[2]) \cap Locked)' # {}
        BY <4>1, <4>2, <4>4, Zenon
      <4> QED
        BY <4>3, <4>4, <4>5, Zenon DEF Held
    <3>3. CASE buf[b].data = Junk
      <4>1. Content'[m][a] = Content[m][a]
        BY <3>1, <3>3, <1>2, Zenon
      <4> QED
        BY <4>1, <2>1, Zenon DEF StoreStep, Store!Step
    <3>4. CASE buf[b].data # Junk
      <4>1. Content'[m][a] \in Data /\ Content[m][a] # Junk
        BY <3>1, <3>4, <1>2, Zenon
      <4> QED
        BY <4>1, <3>2, <2>1, Zenon DEF StoreStep, Store!Step
    <3> QED
      BY <3>3, <3>4, Zenon
  <2>4. CASE ~At(b, m, a)
    <3>1. Content'[m][a] = Content[m][a]
      BY <2>1, <2>2, <2>4, <1>2, Zenon
    <3> QED
      BY <3>1, <2>1, Zenon DEF StoreStep, Store!Step
  <2> QED
    BY <2>3, <2>4, Zenon
<1> QED
  BY <1>5, <1>6, Zenon

\* The device flush only makes stable what the device had.
LEMMA FlushKeeps ==
    ASSUME CacheInv, SectorFacts, SectorFacts', CopyInv, FlushDevices
    PROVE  CopyInv' /\ \A m \in Media, a \in Lbas : StoreStep(m, a)
<1>1. /\ op.call \in {"flush", "unmount"} /\ op'.call # "range"
      /\ dev' = dev /\ present' = present /\ cell' = cell /\ buf' = buf /\ changed' = changed
      /\ \A m \in Media : stable'[m] \in {cell[m], stable[m]}
  BY FlushDevicesStep, Zenon
<1>2. \A x : ~Pending(x) /\ ~Pending(x)'
  <2>1. op.call # "range"
    BY <1>1
  <2> QED
    BY <2>1, <1>1, Zenon DEF Pending
<1>3. \A x \in Bufs : \A m, a : At(x, m, a)' <=> At(x, m, a)
  BY <1>1, StaysAt, Zenon DEF Kept
<1>4. CopyInv'
  BY <1>1, <1>2, <1>3, Zenon DEF CopyInv
<1>5. ASSUME NEW m \in Media, NEW a \in Lbas PROVE StoreStep(m, a)
  <2>1. Content'[m][a] = Content[m][a]
    <3>1. /\ \A x \in Bufs : At(x, m, a) => Content[m][a] = buf[x].data /\ Content'[m][a] = buf'[x].data
          /\ (\A x \in Bufs : ~At(x, m, a)) => Content[m][a] = cell[m][a] /\ Content'[m][a] = cell'[m][a]
      BY <1>2, <1>3, PlainContent, Zenon
    <3> QED
      BY <3>1, <1>1, Zenon
  <2>2. stable'[m][a] = stable[m][a] \/ stable'[m][a] = cell[m][a]
    BY <1>1, Zenon
  <2>3. cell'[m][a] = cell[m][a]
    BY <1>1, Zenon
  <2> QED
    BY <2>1, <2>2, <2>3, Zenon DEF StoreStep, Store!Step
<1> QED
  BY <1>4, <1>5, Zenon

\* With the plug go the sectors the device had not put away, and no others.
LEMMA UnplugKeeps ==
    ASSUME CacheInv, SectorFacts, SectorFacts', CopyInv, NEW p \in Media, Unplug(p), UNCHANGED cacheVars
    PROVE  CopyInv' /\ \A m \in Media, a \in Lbas : StoreStep(m, a)
<1>1. /\ dev' = dev /\ present' = present \ {p} /\ stable' = stable
      /\ buf' = buf /\ changed' = changed /\ op' = op /\ rc' = rc
      /\ cell'[p] = stable[p] /\ \A n \in Media : n # p => cell'[n] = cell[n]
  BY UnplugStep, Zenon
<1>2. \A x : Pending(x)' <=> Pending(x)
  BY <1>1, Zenon DEF Pending
<1>3. \A x \in Bufs : \A m, a : At(x, m, a)' <=> At(x, m, a)
  BY <1>1, StaysAt, Zenon DEF Kept
<1>4. CopyInv'
  <2> SUFFICES ASSUME NEW x \in Bufs, NEW m, NEW a, At(x, m, a)', m \in present', ~buf'[x].dirty,
                      x \notin changed', ~Pending(x)'
               PROVE  buf'[x].data \in {Junk, cell'[m][a]}
    BY Zenon DEF CopyInv
  <2>1. m \in Media /\ m # p /\ m \in present
    BY <1>1, Zenon DEF SectorFacts, Placed
  <2>2. buf[x].data \in {Junk, cell[m][a]}
    BY <2>1, <1>1, <1>2, <1>3, Zenon DEF CopyInv
  <2> QED
    BY <2>1, <2>2, <1>1, Zenon
<1>5. ASSUME NEW m \in Media, NEW a \in Lbas PROVE StoreStep(m, a)
  <2>1. stable'[m][a] = stable[m][a]
    BY <1>1, Zenon
  <2>2. CASE \E x \in Bufs : At(x, m, a) /\ ~Pending(x)
    <3>1. PICK x \in Bufs : At(x, m, a) /\ ~Pending(x)
      BY <2>2, Zenon
    <3>2. Content[m][a] = buf[x].data
      BY <3>1, Zenon DEF SectorFacts, ContentFacts
    <3>3. Content'[m][a] = buf'[x].data
      BY <3>1, <1>2, <1>3, Zenon DEF SectorFacts, ContentFacts
    <3>4. Content'[m][a] = Content[m][a]
      BY <3>2, <3>3, <1>1, Zenon
    <3>5. CASE m = p
      <4>1. cell'[m][a] = stable[m][a] /\ m \notin present'
        BY <3>5, <1>1, Zenon
      <4> QED
        BY <4>1, <3>4, <2>1, Zenon DEF StoreStep, Store!Step
    <3>6. CASE m # p
      <4>1. cell'[m][a] = cell[m][a]
        BY <3>6, <1>1, Zenon
      <4> QED
        BY <4>1, <3>4, <2>1, Zenon DEF StoreStep, Store!Step
    <3> QED
      BY <3>5, <3>6, Zenon
  <2>3. CASE \A x \in Bufs : At(x, m, a) => Pending(x)
    <3>1. Content[m][a] = cell[m][a]
      BY <2>3, Zenon DEF SectorFacts, ContentFacts
    <3>2. Content'[m][a] = cell'[m][a]
      BY <2>3, <1>2, <1>3, Zenon DEF SectorFacts, ContentFacts
    <3>5. CASE m = p
      <4>1. cell'[m][a] = stable[m][a] /\ m \notin present'
        BY <3>5, <1>1, Zenon
      <4>2. Content'[m][a] = stable[m][a]
        BY <4>1, <3>2, Zenon
      <4> QED
        BY <4>1, <4>2, <2>1, Zenon DEF StoreStep, Store!Step
    <3>6. CASE m # p
      <4>1. cell'[m][a] = cell[m][a] /\ Content'[m][a] = Content[m][a]
        BY <3>1, <3>2, <3>6, <1>1, Zenon
      <4> QED
        BY <4>1, <2>1, Zenon DEF StoreStep, Store!Step
    <3> QED
      BY <3>5, <3>6, Zenon
  <2> QED
    BY <2>2, <2>3, Zenon
<1> QED
  BY <1>4, <1>5, Zenon
-----------------------------------------------------------------------------
(* The theorems about the sectors.                                         *)

DataInv == PartitionsApart /\ CacheInv /\ CopyInv

\* At first nothing is held, and every sector is blank.
LEMMA StoreInit == ASSUME Init PROVE Store!Init
<1>1. /\ cell = [m \in Media |-> [l \in Lbas |-> Blank]] /\ stable = cell
      /\ present = {} /\ rc = "none" /\ buf = [b \in Bufs |-> Empty]
  BY Zenon DEF Init, DevicesInit
<1>2. \A m, a : Holding(m, a) = {}
  <2>1. \A b \in Bufs : ~buf[b].valid
    BY <1>1, EmptyFacts, Zenon
  <2> QED
    BY <2>1, Zenon DEF Holding
<1>3. Held = {}
  BY <1>2, Zenon DEF Held
<1>4. Content = cell
  <2>1. \A m \in Media : \A a \in Lbas : cell[m][a] = Blank
    BY <1>1, Zenon
  <2>2. Content = [m \in Media |-> [a \in Lbas |-> Blank]]
    BY <2>1, <1>2, Zenon DEF Content
  <2> QED
    BY <2>2, <1>1, Zenon
<1>5. cell \in [Media -> [Lbas -> Data]]
  <2>1. \A m \in Media : [l \in Lbas |-> Blank] \in [Lbas -> Data]
    BY RegistryAssumption, Zenon
  <2> QED
    BY <2>1, <1>1, Zenon
<1> QED
  BY <1>1, <1>3, <1>4, <1>5, Zenon DEF Store!Init

\* Every step of the cache and the registry is a step of SectorStore.
LEMMA DataSteps ==
    ASSUME DataInv, [Next]_vars
    PROVE  DataInv' /\ [Store!Next]_<<Content, cell, stable, present, Held, rc>>
<1>0. CacheInv /\ CopyInv /\ PartitionsApart /\ PartitionsApart'
  BY Zenon DEF DataInv, PartitionsApart
<1>1. SectorFacts
  BY <1>0, SectorsHold, Zenon
<1>2. CASE Next
  <2>1. CacheInv'
    BY <1>0, <1>2, NextSteps, Zenon
  <2>2. SectorFacts'
    BY <1>0, <2>1, SectorsHoldNext, Zenon
  <2>3. CopyInv' /\ \A m \in Media, a \in Lbas : StoreStep(m, a)
    <3>1. CASE SectorMoves
      BY <3>1, <1>0, <1>1, <2>2, MovesKeep, Zenon
    <3>2. CASE \E b \in Bufs, v \in Data : Change(b, v)
      BY <3>2, <1>0, <1>1, <2>2, ChangeKeeps, Zenon
    <3>3. CASE FlushDevices
      BY <3>3, <1>0, <1>1, <2>2, FlushKeeps, Zenon
    <3>4. CASE \E m \in Media : Unplug(m) /\ UNCHANGED cacheVars
      BY <3>4, <1>0, <1>1, <2>2, UnplugKeeps, Zenon
    <3> QED
      BY <3>1, <3>2, <3>3, <3>4, <1>0, <1>2, NextSteps, Zenon
  <2>4. Store!Next
    BY <2>3, Zenon DEF StoreStep, Store!Next
  <2> QED
    BY <2>1, <2>3, <2>4, <1>0, Zenon DEF DataInv
<1>3. CASE UNCHANGED vars
  <2>1. /\ dev' = dev /\ present' = present /\ stable' = stable /\ cell' = cell
        /\ buf' = buf /\ changed' = changed /\ op' = op /\ rc' = rc
    BY <1>3, Zenon DEF vars
  <2>2. CacheInv'
    BY <1>0, <1>3, CacheStutters, Zenon
  <2>3. CopyInv'
    BY <1>0, <2>1, Zenon DEF CopyInv, At, Pending, gone, disk_of, resolve
  <2>4. Content' = Content
    <3>1. \A m, a : Holding(m, a)' = Holding(m, a)
      BY <2>1, Zenon DEF Holding, Pending, gone, disk_of, resolve
    <3>2. ASSUME NEW m \in Media, NEW a \in Lbas PROVE Content'[m][a] = Content[m][a]
      <4>1. Content[m][a] = IF Holding(m, a) = {} THEN cell[m][a]
                            ELSE buf[CHOOSE b \in Holding(m, a) : TRUE].data
        BY Zenon DEF Content
      <4>2. Content'[m][a] = IF Holding(m, a)' = {} THEN cell'[m][a]
                             ELSE buf'[CHOOSE b \in Holding(m, a)' : TRUE].data
        BY Zenon DEF Content
      <4>3. PICK H : H = Holding(m, a) /\ H = Holding(m, a)'
        BY <3>1, Zenon
      <4> QED
        BY <4>1, <4>2, <4>3, <2>1, Zenon
    <3>3. /\ Content = [m \in Media |-> Content[m]] /\ Content' = [m \in Media |-> Content'[m]]
          /\ \A m \in Media : /\ Content[m] = [a \in Lbas |-> Content[m][a]]
                              /\ Content'[m] = [a \in Lbas |-> Content'[m][a]]
      <4>1. /\ Content = [m \in Media |-> Content[m]]
            /\ \A m \in Media : Content[m] = [a \in Lbas |-> Content[m][a]]
        BY DEF Content
      <4>2. /\ Content' = [m \in Media |-> Content'[m]]
            /\ \A m \in Media : Content'[m] = [a \in Lbas |-> Content'[m][a]]
        BY DEF Content
      <4> QED
        BY <4>1, <4>2, Zenon
    <3>4. \A m \in Media : Content'[m] = Content[m]
      BY <3>2, <3>3, Zenon
    <3> QED
      BY <3>3, <3>4, Zenon
  <2>5. Held' = Held
    BY <2>1, Zenon DEF Held, Holding, Pending, gone, disk_of, resolve, Locked
  <2> QED
    BY <2>1, <2>2, <2>3, <2>4, <2>5, <1>0, Zenon DEF DataInv
<1> QED
  BY <1>2, <1>3, Zenon

\* No buffer is a copy of anything at first.
LEMMA DataInit == ASSUME PartitionsApart, Init PROVE DataInv
<1>1. buf = [b \in Bufs |-> Empty]
  BY Zenon DEF Init
<1>2. \A b \in Bufs : ~buf[b].valid
  BY <1>1, EmptyFacts, Zenon
<1>3. CopyInv
  BY <1>2, Zenon DEF CopyInv, At
<1> QED
  BY <1>3, CacheInit, Zenon DEF DataInv

\* On media whose partitions do not overlap, the cache and the registry
\* implement SectorStore: whatever is evicted, filled, written back, flushed,
\* mounted, unplugged or reused, and whichever requests fail, a sector holds
\* what was last written to it, or was lost with the plug or with an error.
THEOREM CacheKeepsSectors ==
    ASSUME PartitionsApart PROVE Spec => KeepsSectors
<1>1. Init => DataInv
  BY DataInit, Zenon
<1>2. Init => Store!Init
  BY StoreInit, Zenon
<1>3. DataInv /\ [Next]_vars => DataInv' /\ [Store!Next]_<<Content, cell, stable, present, Held, rc>>
  BY DataSteps, Zenon
<1> QED
  BY <1>1, <1>2, <1>3, PTL DEF Spec, KeepsSectors, Store!Spec

\* Only the device flush at its end ends a flush call.
LEMMA OnlyDevicesEndFlush ==
    ASSUME CacheInv, [Next]_vars, op.call = "flush", op' = Idle
    PROVE  FlushDevices
<1>1. op # Idle /\ op' # op /\ op.call # "range" /\ op.call # "release"
  BY IdleCalls
<1>2. ~FlushBuffer
  <2> SUFFICES ASSUME FlushBuffer PROVE FALSE
    OBVIOUS
  <2>1. op'.call = "none"
    BY IdleCalls
  <2>2. op'.call = op.call
    BY FlushBufferGoesOn, Zenon
  <2> QED
    BY <2>1, <2>2
<1>3. Next
  BY <1>1, Zenon DEF vars
<1>4. ~LocksFree
  BY <1>1, Zenon DEF LocksFree
<1>5. /\ \A e, l : ~GetHit(e, l) /\ ~GetMiss(e, l) /\ \A n : ~RangeStart(e, l, n)
      /\ \A e, c : ~FlushStart(e, c)
      /\ \A b : ~put(b) /\ \A v : ~Change(b, v)
      /\ \A d : ~disk_gone(d)
  BY <1>1, <1>4, Zenon DEF GetHit, GetMiss, RangeStart, FlushStart, put, Change, disk_gone
<1>6. ~RangeLock /\ ~RangeFill /\ ~Release
  BY <1>1, Zenon DEF RangeLock, RangeFill, Release
<1>7. ~UNCHANGED cacheVars
  BY <1>1, Zenon DEF cacheVars
<1> QED
  BY <1>2, <1>3, <1>4, <1>5, <1>6, <1>7, Zenon DEF Next

\* After a flush that returned 0, what readers get of the device is on the
\* medium: every buffer was written, and the write caches were put away.
THEOREM FlushesReachTheMedium ==
    ASSUME PartitionsApart PROVE Spec => FlushedIsStable
<1>1. ASSUME DataInv, DataInv', [Next]_vars, op.call = "flush", op' = Idle, rc' = "ok",
             NEW e \in Registered, op.dev = e \/ (op.dev = All /\ ~gone(e)), NEW l \in Sectors(e),
             NEW m, NEW a, m = dev[e].medium, a = resolve(e, l)
      PROVE  Content'[m][a] \in {stable'[m][a], Junk}
  <2>0. CacheInv /\ FlushDevices /\ DeviceTypes /\ RegistryInv
    BY <1>1, OnlyDevicesEndFlush, Zenon DEF DataInv, CacheInv, Types
  <2>1. /\ dev' = dev /\ present' = present /\ cell' = cell /\ buf' = buf /\ changed' = changed
        /\ op.todo = {} /\ op.rc = "ok"
        /\ \A d \in Concerned : Answers(d) /\ stable'[dev[d].medium] = cell[dev[d].medium]
    BY <2>0, <1>1, FlushDevicesStep, Zenon
  <2>2. op.call \in {"flush", "unmount", "release"}
    BY <1>1
  <2>3. Dirty(op.dev) = {} /\ changed = {} /\ (Mountable(op.dev) \/ op.dev = All)
    BY <2>0, <2>1, <2>2, FlushFields, Zenon
  <2>4. e \in Entries /\ e # All /\ m \in Media /\ a \in Lbas
    BY <1>1, <2>0, DiskFacts, SectorsAreLbas, CacheAssumption, Zenon
  <2>5. PICK d : d = disk_of(e)
    BY Zenon
  <2>6. d \in Registered /\ Whole(d) /\ dev[d].medium = m
    BY <1>1, <2>0, <2>5, DiskFacts, Zenon
  <2>7. d \in Concerned
    BY <1>1, <2>4, <2>5, <2>6, Zenon DEF Concerned, Whole, gone
  <2>8. stable'[m] = cell[m] /\ m \in present /\ ~gone(e)
    BY <2>1, <2>5, <2>6, <2>7, Zenon DEF Answers, gone, Whole, disk_of
  <2>9. SectorFacts'
    BY <1>1, SectorsHoldNext, Zenon DEF DataInv
  <2>10. CASE \A x \in Bufs : At(x, m, a)' => Pending(x)'
    BY <2>1, <2>4, <2>8, <2>9, <2>10, Zenon DEF SectorFacts, ContentFacts
  <2>11. CASE \E x \in Bufs : At(x, m, a)' /\ ~Pending(x)'
    <3>1. PICK x \in Bufs : At(x, m, a)' /\ ~Pending(x)'
      BY <2>11, Zenon
    <3>2. Content'[m][a] = buf'[x].data
      BY <3>1, <2>4, <2>9, Zenon DEF SectorFacts, ContentFacts
    <3>3. At(x, m, a)
      BY <3>1, <2>1, StaysAt, Zenon DEF Kept
    <3>4. PICK f, k : f = buf[x].dev /\ k = buf[x].lba
      BY Zenon
    <3>5. buf[x].valid /\ ~gone(f) /\ dev[f].medium = m /\ resolve(f, k) = a
      BY <3>3, <3>4, Zenon DEF At
    <3>6. op.dev = All \/ f = op.dev
      <4> SUFFICES ASSUME op.dev # All PROVE f = op.dev
        BY Zenon
      <4>1. op.dev = e /\ Mountable(e)
        BY <1>1, <2>3, Zenon
      <4>2. Mountable(f) /\ k \in Sectors(f)
        BY <3>4, <3>5, <2>0, BufferFacts, Zenon DEF CacheInv
      <4>3. PartitionsApart /\ resolve(e, l) = resolve(f, k) /\ dev[e].medium = dev[f].medium
        BY <1>1, <3>5, Zenon DEF DataInv
      <4>4. e = f
        BY <1>1, <4>1, <4>2, <4>3, <3>5, <2>0, <2>8, DevicesApart, Zenon
      <4> QED
        BY <4>1, <4>4, Zenon
    <3>7. ~buf[x].dirty
      BY <3>4, <3>5, <3>6, <2>3, Zenon DEF Dirty
    <3>8. buf'[x].data \in {Junk, cell'[m][a]}
      BY <1>1, <3>1, <3>7, <2>1, <2>3, <2>8, Zenon DEF DataInv, CopyInv
    <3> QED
      BY <3>2, <3>8, <2>1, <2>8, Zenon
  <2> QED
    BY <2>10, <2>11, Zenon
<1>2. DataInv /\ DataInv' /\ [Next]_vars =>
        [op.call = "flush" /\ op' = Idle /\ rc' = "ok" =>
            \A e \in Registered : (op.dev = e \/ (op.dev = All /\ ~gone(e))) =>
                \A l \in Sectors(e) :
                    LET m == dev[e].medium
                        a == resolve(e, l)
                    IN Content'[m][a] \in {stable'[m][a], Junk}]_vars
  BY <1>1, Zenon
<1>3. Init => DataInv
  BY DataInit, Zenon
<1>4. DataInv /\ [Next]_vars => DataInv'
  BY DataSteps, Zenon
<1> QED
  BY <1>2, <1>3, <1>4, PTL DEF Spec, FlushedIsStable
=============================================================================
