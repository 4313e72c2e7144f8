------------------------ MODULE BlockCacheStepProofs ------------------------
(***************************************************************************)
(* The invariant of BlockCache, for any pool, registry and media, and the  *)
(* steps of its calls that preserve it: a lock, a change, a range and a    *)
(* flush.  Each of them is also shown to leave the contents of every       *)
(* sector alone, or to change it as the call says.                         *)
(***************************************************************************)
EXTENDS BlockCache, TLAPS, FiniteSetTheorems, WellFoundedInduction

Device == [registered : BOOLEAN, medium : Media \cup {NoMedium}, parent : Entries \cup {NoEntry},
           first : Nat, count : Nat, gone : BOOLEAN, users : Nat]
Descriptor == [valid : BOOLEAN, dev : Entries \cup {NoEntry}, lba : Nat, dirty : BOOLEAN,
               refcnt : Nat, data : Data \cup {Junk}]
Image == [Media -> [Lbas -> Data \cup {Junk}]]
RangeOp == [call : {"range"}, dev : Entries, first : Nat, count : Nat, out : Seq(Bufs),
            missed : SUBSET Nat]
FlushOp == [call : {"flush", "unmount", "release"}, dev : Entries \cup {All},
            todo : SUBSET Bufs, rc : {"ok", "error"}]

DeviceTypes ==
    /\ dev \in [Entries -> Device] /\ present \subseteq Media
    /\ cell \in Image /\ stable \in Image
OpType == op = Idle \/ op \in RangeOp \/ op \in FlushOp
CacheTypes ==
    /\ buf \in [Bufs -> Descriptor] /\ changed \subseteq Bufs
    /\ OpType
Types == DeviceTypes /\ CacheTypes

Whole(e) == dev[e].parent = NoEntry
\* Entry e is the i-th partition of its disk's table.
Numbered(e, i) ==
    /\ i \in DOMAIN Layout[dev[e].medium]
    /\ dev[e].first = Layout[dev[e].medium][i].first
    /\ dev[e].count = Layout[dev[e].medium][i].count

(***************************************************************************)
(* The registry: an entry is unused, a disk, or a partition from the table *)
(* of a disk that is registered too; no partition twice; and at most one   *)
(* disk of a medium that is not gone.                                      *)
(***************************************************************************)
Entered(e) ==
    IF dev[e].registered
    THEN /\ dev[e].medium \in Media
         /\ Whole(e) => dev[e].first = 0 /\ dev[e].count = Size[dev[e].medium]
         /\ ~Whole(e) => /\ dev[e].parent \in Registered /\ Whole(dev[e].parent)
                         /\ dev[dev[e].parent].medium = dev[e].medium
                         /\ \E i \in Nat : Numbered(e, i)
    ELSE dev[e] = Unused

Sisters ==
    \A e, f \in Registered :
        e # f /\ ~Whole(e) /\ dev[f].parent = dev[e].parent
        => \E i, j \in Nat : i # j /\ Numbered(e, i) /\ Numbered(f, j)

OneDisk ==
    \A d, e \in Registered :
        /\ Whole(d) /\ Whole(e) /\ dev[d].medium = dev[e].medium
        /\ ~dev[d].gone /\ ~dev[e].gone
        => d = e

RegistryInv == (\A e \in Entries : Entered(e)) /\ Sisters /\ OneDisk

\* A device a file system is on.
Mountable(e) == e \in Registered /\ (~Whole(e) \/ Layout[dev[e].medium] = <<>>)

(***************************************************************************)
(* What find_buffer() and every reader of the cache rely on: no two valid  *)
(* buffers are of the same sector of the same device.                      *)
(***************************************************************************)
OneBuffer ==
    \A b, c \in Bufs :
        /\ buf[b].valid /\ buf[c].valid
        /\ buf[b].dev = buf[c].dev /\ buf[b].lba = buf[c].lba
        => b = c

Filed(b) ==
    IF buf[b].valid THEN Mountable(buf[b].dev) /\ buf[b].lba \in Sectors(buf[b].dev)
    ELSE buf[b] = Empty

FileInv == OneBuffer /\ \A b \in Bufs : Filed(b)

(***************************************************************************)
(* The call in progress. A range has a lock on the buffer of each sector   *)
(* up to where it is, and those it missed are clean and hold nothing yet;  *)
(* a flush runs without locks, and as long as it has seen no error, every  *)
(* dirty buffer of its device is still to come.                            *)
(***************************************************************************)
RangeInv ==
    op.call = "range" =>
        /\ Mountable(op.dev) /\ op.first + op.count <= dev[op.dev].count
        /\ Len(op.out) <= op.count
        /\ \A i \in DOMAIN op.out :
             /\ buf[op.out[i]].valid /\ buf[op.out[i]].dev = op.dev
             /\ buf[op.out[i]].lba = op.first + i - 1 /\ buf[op.out[i]].refcnt > 0
             /\ buf[op.out[i]].lba \in op.missed =>
                    ~buf[op.out[i]].dirty /\ buf[op.out[i]].data = Junk
        /\ \A l \in op.missed : op.first <= l /\ l < op.first + Len(op.out)

FlushInv ==
    /\ op.call \in {"flush", "unmount", "release"} =>
         /\ Locked = {}
         /\ Mountable(op.dev) \/ (op.call = "flush" /\ op.dev = All)
         /\ op.rc = "ok" => Dirty(op.dev) \subseteq op.todo
         /\ op.todo \subseteq Dirty(op.dev)
    /\ op.call = "release" => op.todo = {}

LockInv == changed \subseteq Locked /\ (op.call # "none" => changed = {})

CacheInv == Types /\ RegistryInv /\ FileInv /\ RangeInv /\ FlushInv /\ LockInv
-----------------------------------------------------------------------------
(* The call in progress, by its kind.                                      *)

\* A call is nothing, a range or a flush, and has the fields of its kind.
LEMMA OpKinds ==
    ASSUME OpType
    PROVE  \/ op = Idle /\ op.call = "none"
           \/ op \in RangeOp /\ op.call = "range"
           \/ op \in FlushOp /\ op.call \in {"flush", "unmount", "release"}
BY DEF OpType, Idle, RangeOp, FlushOp

\* Only the call that does nothing is Idle.
LEMMA IdleCalls == Idle.call = "none"
BY DEF Idle

\* While no call is in progress, no buffer is pending.
LEMMA IdlePends == ASSUME op.call # "range" PROVE \A b : ~Pending(b)
BY Zenon DEF Pending

-----------------------------------------------------------------------------
(* Writing back.                                                           *)

\* Buffer b is the copy of sector a of medium m, on a disk that is not gone.
At(b, m, a) ==
    /\ buf[b].valid /\ ~gone(buf[b].dev)
    /\ dev[buf[b].dev].medium = m /\ resolve(buf[b].dev, buf[b].lba) = a

\* The step wrote the contents of the dirty buffers W, and nothing else.
Wrote(W) ==
    /\ \A c \in W : c \in Bufs /\ buf[c].valid /\ buf[c].dirty /\ ~gone(buf[c].dev)
    /\ cell' \in Image
    /\ \A m \in Media, a \in Lbas :
         /\ \A c \in W : At(c, m, a) => cell'[m][a] = buf[c].data
         /\ (\A c \in W : ~At(c, m, a)) => cell'[m][a] = cell[m][a]

\* A registered entry is of a medium, and its disk is a registered disk of it.
LEMMA DiskFacts ==
    ASSUME DeviceTypes, RegistryInv, NEW e \in Registered
    PROVE  /\ e \in Entries /\ dev[e] \in Device /\ dev[e].medium \in Media
           /\ disk_of(e) \in Registered /\ Whole(disk_of(e))
           /\ dev[disk_of(e)].medium = dev[e].medium
<1>1. e \in Entries /\ dev[e].registered /\ dev[e] \in Device
    BY DEF Registered, DeviceTypes
<1>2. Entered(e)
    BY <1>1, Zenon DEF RegistryInv
<1>3. CASE Whole(e)
    BY <1>1, <1>2, <1>3, Zenon DEF Entered, Whole, disk_of
<1>4. CASE ~Whole(e)
    BY <1>1, <1>2, <1>4, Zenon DEF Entered, Whole, disk_of
<1> QED
    BY <1>3, <1>4, Zenon

\* A device's sectors are sectors of its medium.
LEMMA SectorsAreLbas ==
    ASSUME DeviceTypes, RegistryInv, NEW e \in Registered, NEW l \in Sectors(e)
    PROVE  l \in Nat /\ resolve(e, l) \in Lbas /\ resolve(e, l) = dev[e].first + l
<1>1. e \in Entries /\ dev[e].registered /\ dev[e].medium \in Media
    BY DiskFacts DEF Registered
<1>2. dev[e].first \in Nat /\ dev[e].count \in Nat
    BY <1>1 DEF DeviceTypes, Device
<1>3. Entered(e)
    BY <1>1, Zenon DEF RegistryInv
<1>4. dev[e].first + dev[e].count <= Size[dev[e].medium]
  <2>1. CASE Whole(e)
    BY <1>1, <1>2, <1>3, <2>1, MediaAssumption DEF Entered
  <2>2. CASE ~Whole(e)
    BY <1>1, <1>2, <1>3, <2>2, MediaAssumption DEF Entered, Numbered
  <2> QED
    BY <2>1, <2>2
<1>5. Size[dev[e].medium] \in Nat /\ 0 .. Size[dev[e].medium] - 1 \subseteq Lbas
    BY <1>1, MediaAssumption
<1>6. l \in 0 .. dev[e].count - 1
    BY DEF Sectors
<1>7. dev[e].first + l \in 0 .. Size[dev[e].medium] - 1
    BY <1>2, <1>4, <1>5, <1>6
<1> QED
    BY <1>5, <1>6, <1>7 DEF resolve

\* A valid buffer is a copy of some sector of some medium.
LEMMA BufferFacts ==
    ASSUME Types, RegistryInv, FileInv, NEW b \in Bufs, buf[b].valid
    PROVE  /\ buf[b] \in Descriptor /\ Mountable(buf[b].dev) /\ buf[b].dev \in Registered
           /\ buf[b].lba \in Sectors(buf[b].dev) /\ buf[b].lba \in Nat
           /\ dev[buf[b].dev].medium \in Media /\ dev[buf[b].dev].first \in Nat
           /\ resolve(buf[b].dev, buf[b].lba) \in Lbas
<1>1. buf[b] \in Descriptor
    BY DEF Types, CacheTypes
<1>2. Mountable(buf[b].dev) /\ buf[b].lba \in Sectors(buf[b].dev)
    BY Zenon DEF FileInv, Filed
<1>3. buf[b].dev \in Registered
    BY <1>2, Zenon DEF Mountable
<1>4. dev[buf[b].dev] \in Device /\ dev[buf[b].dev].medium \in Media
    BY <1>3, DiskFacts, Zenon DEF Types
<1>5. buf[b].lba \in Nat /\ resolve(buf[b].dev, buf[b].lba) \in Lbas
    BY <1>2, <1>3, SectorsAreLbas, Zenon DEF Types
<1> QED
    BY <1>1, <1>2, <1>3, <1>4, <1>5 DEF Device

\* Cleaning changes the dirty flag, and that of the buffers cleaned only.
LEMMA CleanedFacts ==
    ASSUME CacheTypes, NEW B
    PROVE  /\ Cleaned(B) \in [Bufs -> Descriptor]
           /\ \A b \in Bufs :
                /\ Cleaned(B)[b].valid = buf[b].valid /\ Cleaned(B)[b].dev = buf[b].dev
                /\ Cleaned(B)[b].lba = buf[b].lba /\ Cleaned(B)[b].refcnt = buf[b].refcnt
                /\ Cleaned(B)[b].data = buf[b].data
                /\ b \in B => ~Cleaned(B)[b].dirty
                /\ b \notin B => Cleaned(B)[b] = buf[b]
<1> SUFFICES ASSUME NEW b \in Bufs
             PROVE  /\ Cleaned(B)[b] \in Descriptor
                    /\ Cleaned(B)[b].valid = buf[b].valid /\ Cleaned(B)[b].dev = buf[b].dev
                    /\ Cleaned(B)[b].lba = buf[b].lba /\ Cleaned(B)[b].refcnt = buf[b].refcnt
                    /\ Cleaned(B)[b].data = buf[b].data
                    /\ b \in B => ~Cleaned(B)[b].dirty
                    /\ b \notin B => Cleaned(B)[b] = buf[b]
  <2>1. Cleaned(B) = [b \in Bufs |-> Cleaned(B)[b]]
    BY Zenon DEF Cleaned
  <2> QED
    BY <2>1, Zenon
<1>1. buf[b] \in Descriptor
    BY DEF CacheTypes
<1>2. Cleaned(B)[b] = IF b \in B THEN [buf[b] EXCEPT !.dirty = FALSE] ELSE buf[b]
    BY Zenon DEF Cleaned
<1>3. CASE b \in B
    BY <1>1, <1>2, <1>3, Zenon DEF Descriptor
<1>4. CASE b \notin B
    BY <1>1, <1>2, <1>4, Zenon
<1> QED
    BY <1>3, <1>4, Zenon

\* A run is of dirty buffers of one device, the buffer itself among them.
LEMMA RunFacts ==
    ASSUME Types, RegistryInv, FileInv, NEW b \in Bufs, buf[b].valid, buf[b].dirty
    PROVE  /\ b \in RunOf(b)
           /\ \A c \in RunOf(b) : /\ c \in Bufs /\ buf[c].valid /\ buf[c].dirty
                                  /\ buf[c].dev = buf[b].dev
<1>1. buf[b].dev # All
    BY BufferFacts, CacheAssumption, Zenon DEF Registered
<1>2. \A c : c \in Dirty(buf[b].dev) <=> c \in Bufs /\ buf[c].valid /\ buf[c].dirty
                                             /\ buf[c].dev = buf[b].dev
    BY <1>1, Zenon DEF Dirty
<1>3. buf[b].lba \in Nat
    BY BufferFacts, Zenon
<1>4. \A l \in Lbas : ~(buf[b].lba < l /\ l < buf[b].lba)
    <2>1. \A l \in Lbas : l \in Nat
      BY RegistryAssumption, Zenon
    <2> QED
      BY <2>1, <1>3, SMTT(60)
<1> QED
    BY <1>2, <1>4, Zenon DEF RunOf

\* The buffers W were written for b, which worked or not, and are clean now.
WroteBack(b, ok, after, W) ==
    /\ Wrote(W)
    /\ ok => b \in W /\ after = Cleaned(W)
    /\ ~ok /\ gone(buf[b].dev) => after = Cleaned({b})
    /\ ~ok /\ ~gone(buf[b].dev) => after = buf

\* What writeback() does: it writes all of the run when it succeeds, some of
\* it when it fails, and gives up a buffer of a disk that is gone.
LEMMA WritebackWrites ==
    ASSUME Types, RegistryInv, FileInv, NEW b \in Bufs, buf[b].valid, buf[b].dirty,
           NEW ok \in BOOLEAN, NEW after, writeback(b, ok, after)
    PROVE  \E W : WroteBack(b, ok, after, W)
<1>0. cell \in Image
    BY DEF Types, DeviceTypes
<1>1. CASE gone(buf[b].dev)
  <2>1. ~ok /\ after = Cleaned({b}) /\ cell' = cell
    BY <1>1, Zenon DEF writeback
  <2>2. Wrote({})
    BY <1>0, <2>1, Zenon DEF Wrote
  <2> QED
    BY <1>1, <2>1, <2>2, Zenon DEF WroteBack
<1>2. CASE ~gone(buf[b].dev)
  <2> DEFINE e == buf[b].dev
             run == RunOf(b)
             S == {buf[c].lba : c \in run}
             data == [l \in S |-> buf[CHOOSE c \in run : buf[c].lba = l].data]
             m == dev[e].medium
             after1 == IF ok THEN Cleaned(run) ELSE buf
  <2>1. write(e, S, data, ok) /\ after = after1
    BY <1>2, Zenon DEF writeback
  <2>2. PICK done : /\ done \subseteq S
                    /\ ok => done = S
                    /\ cell' = [cell EXCEPT ![m] = [a \in Lbas |->
                          IF \E l \in done : resolve(e, l) = a
                          THEN data[CHOOSE l \in done : resolve(e, l) = a] ELSE @[a]]]
    <3>1. PICK k \in 0 .. Cardinality(S) :
            LET d == {l \in S : Cardinality({j \in S : j < l}) < k} IN
            /\ ok => d = S
            /\ cell' = [cell EXCEPT ![m] = [a \in Lbas |->
                  IF \E l \in d : resolve(e, l) = a
                  THEN data[CHOOSE l \in d : resolve(e, l) = a] ELSE @[a]]]
      BY <2>1, ZenonT(60) DEF write
    <3> WITNESS {l \in S : Cardinality({j \in S : j < l}) < k}
    <3> QED
      BY <3>1, Zenon
  <2> DEFINE W == {c \in run : buf[c].lba \in done}
  <2>3. b \in run /\ \A c \in run : /\ c \in Bufs /\ buf[c].valid /\ buf[c].dirty
                                    /\ buf[c].dev = e
    BY RunFacts, Zenon
  <2>4. m \in Media /\ dev[e].first \in Nat
    BY BufferFacts, Zenon
  <2>5. \A c \in run : buf[c].lba \in Nat /\ resolve(e, buf[c].lba) = dev[e].first + buf[c].lba
    BY <2>3, BufferFacts, Zenon DEF resolve
  <2>6. \A c \in run : data[buf[c].lba] = buf[c].data
    <3> SUFFICES ASSUME NEW c \in run PROVE data[buf[c].lba] = buf[c].data
      BY Zenon
    <3>1. \A x \in run : buf[x].lba = buf[c].lba => x = c
      BY <2>3, Zenon DEF FileInv, OneBuffer
    <3>2. (CHOOSE x \in run : buf[x].lba = buf[c].lba) = c
      BY <3>1, Zenon
    <3>3. buf[c].lba \in S
      BY Zenon
    <3> QED
      BY <3>2, <3>3, Zenon
  <2>7. \A c \in W : \A l \in done : resolve(e, l) = resolve(e, buf[c].lba) => l = buf[c].lba
    <3>1. \A l \in done : l \in Nat
      BY <2>2, <2>5, Zenon
    <3> QED
      BY <3>1, <2>4, <2>5 DEF resolve
  <2>8. cell' \in Image /\ cell'[m] = [a \in Lbas |->
              IF \E l \in done : resolve(e, l) = a
              THEN data[CHOOSE l \in done : resolve(e, l) = a] ELSE cell[m][a]]
        /\ \A n \in Media : n # m => cell'[n] = cell[n]
    <3> DEFINE new == [a \in Lbas |->
              IF \E l \in done : resolve(e, l) = a
              THEN data[CHOOSE l \in done : resolve(e, l) = a] ELSE cell[m][a]]
    <3>1. cell' = [cell EXCEPT ![m] = new]
      BY <2>2, Zenon
    <3>2. \A l \in done : data[l] \in Data \cup {Junk}
      <4> SUFFICES ASSUME NEW l \in done PROVE data[l] \in Data \cup {Junk}
        BY Zenon
      <4>1. PICK c \in run : l = buf[c].lba
        BY <2>2, Zenon
      <4>2. buf[c] \in Descriptor
        BY <2>3, BufferFacts, Zenon
      <4> HIDE DEF data
      <4> QED
        BY <2>6, <4>1, <4>2 DEF Descriptor
    <3>3. new \in [Lbas -> Data \cup {Junk}]
      <4> SUFFICES ASSUME NEW a \in Lbas PROVE new[a] \in Data \cup {Junk}
        BY Zenon
      <4>1. CASE \E l \in done : resolve(e, l) = a
        <5>1. (CHOOSE l \in done : resolve(e, l) = a) \in done
          BY <4>1, Zenon
        <5> QED
          BY <3>2, <4>1, <5>1, Zenon
      <4>2. CASE ~\E l \in done : resolve(e, l) = a
        <5>1. cell[m][a] \in Data \cup {Junk}
          BY <1>0, <2>4, Zenon DEF Image
        <5> QED
          BY <4>2, <5>1, Zenon
      <4> QED
        BY <4>1, <4>2, Zenon
    <3> HIDE DEF new, m
    <3>4. cell' \in Image /\ cell'[m] = new /\ \A n \in Media : n # m => cell'[n] = cell[n]
      BY <1>0, <2>4, <3>1, <3>3 DEF Image
    <3> QED
      BY <3>4, Zenon DEF new, m
  <2>9. ASSUME NEW n \in Media, NEW a \in Lbas
        PROVE  /\ \A c \in W : At(c, n, a) => cell'[n][a] = buf[c].data
               /\ (\A c \in W : ~At(c, n, a)) => cell'[n][a] = cell[n][a]
    <3> HIDE DEF data
    <3>0. cell'[m][a] = IF \E l \in done : resolve(e, l) = a
                        THEN data[CHOOSE l \in done : resolve(e, l) = a] ELSE cell[m][a]
      <4> DEFINE val(x) == IF \E l \in done : resolve(e, l) = x
                           THEN data[CHOOSE l \in done : resolve(e, l) = x] ELSE cell[m][x]
      <4>1. cell'[m] = [x \in Lbas |-> val(x)]
        BY <2>8, Zenon
      <4> HIDE DEF val
      <4>2. cell'[m][a] = val(a)
        BY <4>1, Zenon
      <4> QED
        BY <4>2, Zenon DEF val
    <3>1. ASSUME NEW c \in W, At(c, n, a) PROVE cell'[n][a] = buf[c].data
      <4>1. n = m /\ resolve(e, buf[c].lba) = a /\ buf[c].lba \in done
        BY <2>3, <3>1, Zenon DEF At
      <4>2. (CHOOSE l \in done : resolve(e, l) = a) = buf[c].lba
        BY <2>7, <4>1, Zenon
      <4>3. cell'[m][a] = data[buf[c].lba]
        BY <3>0, <4>1, <4>2, Zenon
      <4> QED
        BY <2>6, <4>1, <4>3, Zenon
    <3>2. ASSUME \A c \in W : ~At(c, n, a) PROVE cell'[n][a] = cell[n][a]
      <4>1. CASE n # m
        BY <2>8, <4>1, Zenon
      <4>2. CASE n = m
        <5>1. ~\E l \in done : resolve(e, l) = a
          <6> SUFFICES ASSUME NEW l \in done, resolve(e, l) = a PROVE FALSE
            OBVIOUS
          <6>1. PICK c \in run : l = buf[c].lba
            BY <2>2, Zenon
          <6>2. c \in W /\ At(c, n, a)
            BY <1>2, <2>3, <4>2, <6>1, Zenon DEF At
          <6> QED
            BY <3>2, <6>2, Zenon
        <5> QED
          BY <3>0, <4>2, <5>1, Zenon
      <4> QED
        BY <4>1, <4>2, Zenon
    <3> QED
      BY <3>1, <3>2, Zenon
  <2>10. Wrote(W)
    <3>1. \A c \in W : c \in Bufs /\ buf[c].valid /\ buf[c].dirty /\ ~gone(buf[c].dev)
      BY <1>2, <2>3, Zenon
    <3>2. cell' \in Image
      BY <2>8, Zenon
    <3> HIDE DEF W
    <3> QED
      BY <2>9, <3>1, <3>2, Zenon DEF Wrote
  <2>11. ok => b \in W /\ after = Cleaned(W)
    <3>1. ok => W = run
      BY <2>2, Zenon
    <3> QED
      BY <2>1, <2>3, <3>1, Zenon
  <2> HIDE DEF W
  <2> QED
    BY <1>2, <2>1, <2>10, <2>11, Zenon DEF WroteBack
<1> QED
    BY <1>1, <1>2, Zenon

-----------------------------------------------------------------------------
(* Files: what a step may do to a buffer without filing it anew.           *)

\* The buffer stays where it is filed.
Kept(b) ==
    /\ buf'[b].valid = buf[b].valid /\ buf'[b].dev = buf[b].dev /\ buf'[b].lba = buf[b].lba
    /\ ~buf[b].valid => buf'[b] = buf[b]

\* The entry stays what it is, though it may be held or gone.
SameDevice(e) ==
    /\ dev'[e].registered = dev[e].registered /\ dev'[e].medium = dev[e].medium
    /\ dev'[e].parent = dev[e].parent
    /\ dev'[e].first = dev[e].first /\ dev'[e].count = dev[e].count

\* An entry that stays what it is has the same sectors and the same uses.
LEMMA SameUse ==
    ASSUME NEW e \in Entries, SameDevice(e)
    PROVE  /\ (e \in Registered)' <=> e \in Registered
           /\ Mountable(e)' <=> Mountable(e)
           /\ Whole(e)' <=> Whole(e)
           /\ Sectors(e)' = Sectors(e)
           /\ \A i : Numbered(e, i)' <=> Numbered(e, i)
           /\ \A l : resolve(e, l)' = resolve(e, l)
BY Zenon DEF SameDevice, Mountable, Registered, Whole, Sectors, Numbered, resolve

\* Files that only lose buffers stay in order.
LEMMA FilesKept ==
    ASSUME FileInv,
           \A b \in Bufs : \/ buf'[b] = Empty
                           \/ Kept(b) /\ (buf[b].valid => SameDevice(buf[b].dev))
    PROVE  FileInv'
<1>0. Empty.valid = FALSE
    BY DEF Empty
<1>1. \A b \in Bufs : buf'[b].valid => buf[b].valid /\ Kept(b) /\ SameDevice(buf[b].dev)
    BY <1>0, Zenon DEF Kept
<1>2. OneBuffer'
    BY <1>1, ZenonT(60) DEF FileInv, OneBuffer, Kept
<1>3. ASSUME NEW b \in Bufs PROVE Filed(b)'
  <2>1. CASE buf'[b].valid
    <3>1. buf[b].valid /\ Kept(b) /\ SameDevice(buf[b].dev) /\ Filed(b)
      BY <1>1, <2>1, Zenon DEF FileInv
    <3>2. Mountable(buf[b].dev) /\ buf[b].lba \in Sectors(buf[b].dev) /\ buf[b].dev \in Entries
      BY <3>1, Zenon DEF Filed, Mountable, Registered
    <3>3. buf'[b].dev = buf[b].dev /\ buf'[b].lba = buf[b].lba
      BY <3>1, Zenon DEF Kept
    <3>4. Mountable(buf[b].dev)' /\ (buf[b].lba \in Sectors(buf[b].dev))'
      BY <3>1, <3>2, <3>3, Zenon DEF SameDevice, Mountable, Registered, Whole, Sectors
    <3> QED
      BY <2>1, <3>4, Zenon DEF Filed
  <2>2. CASE ~buf'[b].valid
    <3>1. buf'[b] = Empty \/ (~buf[b].valid /\ buf'[b] = buf[b])
      BY <2>2, Zenon DEF Kept
    <3> QED
      BY <2>2, <3>1, Zenon DEF FileInv, Filed
  <2> QED
    BY <2>1, <2>2, Zenon
<1> QED
    BY <1>2, <1>3, Zenon DEF FileInv

\* A buffer may be filed under a sector of a device that no buffer has.
LEMMA FilesBound ==
    ASSUME FileInv, dev' = dev, NEW b \in Bufs, NEW e, NEW l,
           find_buffer(e, l) = {}, Mountable(e), l \in Sectors(e),
           buf'[b].valid, buf'[b].dev = e, buf'[b].lba = l,
           \A c \in Bufs : c # b => Kept(c)
    PROVE  FileInv'
<1>1. OneBuffer'
  <2> SUFFICES ASSUME NEW c \in Bufs, NEW d \in Bufs,
                      buf'[c].valid, buf'[d].valid,
                      buf'[c].dev = buf'[d].dev, buf'[c].lba = buf'[d].lba
               PROVE  c = d
    BY Zenon DEF OneBuffer
  <2>1. \A x \in Bufs : ~(buf[x].valid /\ buf[x].dev = e /\ buf[x].lba = l)
    BY DEF find_buffer
  <2>2. CASE c = b
    BY <2>1, <2>2, Zenon DEF Kept
  <2>3. CASE d = b
    BY <2>1, <2>3, Zenon DEF Kept
  <2>4. CASE c # b /\ d # b
    BY <2>4, ZenonT(60) DEF Kept, FileInv, OneBuffer
  <2> QED
    BY <2>2, <2>3, <2>4, Zenon
<1>2. ASSUME NEW c \in Bufs PROVE Filed(c)'
  <2>1. CASE c = b
    <3>1. (Mountable(e)' <=> Mountable(e)) /\ Sectors(e)' = Sectors(e)
      BY Zenon DEF Mountable, Registered, Whole, Sectors
    <3> QED
      BY <2>1, <3>1, Zenon DEF Filed, Mountable, Registered, Whole, Sectors
  <2>2. CASE c # b
    <3>1. Kept(c) /\ Filed(c)
      BY <2>2, Zenon DEF FileInv
    <3> QED
      BY <3>1, Zenon DEF Filed, Kept, Mountable, Registered, Whole, Sectors
  <2> QED
    BY <2>1, <2>2, Zenon
<1> QED
    BY <1>1, <1>2, Zenon DEF FileInv

-----------------------------------------------------------------------------
(* The registry.                                                           *)

\* An unused entry is not registered.
LEMMA UnusedFacts ==
    /\ Unused.registered = FALSE /\ Unused \in Device /\ Unused.parent = NoEntry
    /\ Unused.gone = FALSE
BY DEF Unused, Device

\* Entries X leave, with the partitions of the disks among them; the others
\* are at most held, given up or gone.
Shrinks(X) ==
    \A e \in Entries :
        /\ e \in X => dev'[e] = Unused
        /\ e \notin X => /\ SameDevice(e)
                         /\ dev[e].gone => dev'[e].gone
                         /\ ~dev[e].registered => dev'[e] = dev[e]
        /\ e \in Registered /\ dev[e].parent \in X => e \in X

\* A registry whose entries X leave keeps its shape.
LEMMA RegistryShrinks ==
    ASSUME DeviceTypes, RegistryInv, NEW X, Shrinks(X)
    PROVE  RegistryInv'
<1>1. ASSUME NEW e, (e \in Registered)'
      PROVE  /\ e \in Registered /\ e \in Entries /\ e \notin X /\ SameDevice(e)
             /\ dev[e].gone => dev'[e].gone
  <2>1. e \in Entries /\ dev'[e].registered
    BY <1>1, Zenon DEF Registered
  <2>2. e \notin X
    BY <2>1, UnusedFacts, Zenon DEF Shrinks
  <2> QED
    BY <2>1, <2>2, Zenon DEF Shrinks, SameDevice, Registered
<1>2. ASSUME NEW e \in Registered, e \notin X PROVE (e \in Registered)' /\ SameDevice(e)
    BY <1>2, Zenon DEF Shrinks, SameDevice, Registered
<1>3. ASSUME NEW e \in Entries PROVE Entered(e)'
  <2>1. CASE ~dev'[e].registered
    <3>1. dev'[e] = Unused
      <4>1. CASE e \in X
        BY <4>1, Zenon DEF Shrinks
      <4>2. CASE e \notin X
        <5>1. ~dev[e].registered /\ dev'[e] = dev[e]
          BY <2>1, <4>2, Zenon DEF Shrinks, SameDevice
        <5> QED
          BY <5>1, Zenon DEF RegistryInv, Entered
      <4> QED
        BY <4>1, <4>2, Zenon
    <3> QED
      BY <2>1, <3>1, Zenon DEF Entered
  <2>2. CASE dev'[e].registered
    <3>1. (e \in Registered)'
      BY <2>2, Zenon DEF Registered
    <3>2. e \in Registered /\ e \notin X /\ SameDevice(e) /\ dev[e].registered
      BY <1>1, <3>1, Zenon DEF Registered
    <3>3. Entered(e)
      BY Zenon DEF RegistryInv
    <3>4. dev'[e].medium \in Media
      BY <3>2, <3>3, Zenon DEF Entered, SameDevice
    <3>5. Whole(e)' => dev'[e].first = 0 /\ dev'[e].count = Size[dev'[e].medium]
      BY <3>2, <3>3, Zenon DEF Entered, SameDevice, Whole
    <3>6. ASSUME ~Whole(e)'
          PROVE  /\ (dev[e].parent \in Registered)' /\ Whole(dev[e].parent)'
                 /\ dev'[dev'[e].parent].medium = dev'[e].medium
                 /\ \E i \in Nat : Numbered(e, i)'
      <4>1. PICK p : p = dev[e].parent
        OBVIOUS
      <4>2. dev'[e].parent = p /\ ~Whole(e)
        BY <3>2, <3>6, <4>1, Zenon DEF SameDevice, Whole
      <4>3. p \in Registered /\ Whole(p) /\ dev[p].medium = dev[e].medium /\ p \notin X
        BY <3>2, <3>3, <4>1, <4>2, Zenon DEF Entered, Shrinks
      <4>4. SameDevice(p) /\ (p \in Registered)' /\ p \in Entries
        BY <1>2, <4>3, Zenon DEF Registered
      <4>5. Whole(p)' /\ dev'[p].medium = dev'[e].medium
        BY <3>2, <4>3, <4>4, Zenon DEF SameDevice, Whole
      <4>6. \E i \in Nat : Numbered(e, i)'
        BY <3>2, <3>3, <4>2, SameUse, Zenon DEF Entered
      <4> QED
        BY <4>2, <4>4, <4>5, <4>6, Zenon DEF Whole
    <3> QED
      BY <2>2, <3>4, <3>5, <3>6, Zenon DEF Entered
  <2> QED
    BY <2>1, <2>2, Zenon
<1>4. Sisters'
  <2> SUFFICES ASSUME NEW e, NEW f, (e \in Registered)', (f \in Registered)',
                      e # f, ~Whole(e)', dev'[f].parent = dev'[e].parent
               PROVE  \E i, j \in Nat : i # j /\ Numbered(e, i)' /\ Numbered(f, j)'
    BY Zenon DEF Sisters
  <2>1. /\ e \in Registered /\ f \in Registered /\ e \in Entries /\ f \in Entries
        /\ SameDevice(e) /\ SameDevice(f)
    BY <1>1, Zenon
  <2>2. ~Whole(e) /\ dev[f].parent = dev[e].parent
    BY <2>1, Zenon DEF SameDevice, Whole
  <2>3. \E i, j \in Nat : i # j /\ Numbered(e, i) /\ Numbered(f, j)
    BY <2>1, <2>2, Zenon DEF RegistryInv, Sisters
  <2> QED
    BY <2>1, <2>3, SameUse, Zenon
<1>5. OneDisk'
    BY <1>1, ZenonT(60) DEF RegistryInv, OneDisk, SameDevice, Whole
<1> QED
    BY <1>3, <1>4, <1>5, Zenon DEF RegistryInv

\* The registry stays.
LEMMA RegistryStays == ASSUME DeviceTypes, RegistryInv, dev' = dev PROVE RegistryInv'
<1>1. Shrinks({})
    BY Zenon DEF Shrinks, SameDevice
<1> QED
    BY <1>1, RegistryShrinks, Zenon

\* hold() counts a user.
LEMMA HoldShrinks ==
    ASSUME DeviceTypes, NEW e \in Registered, hold(e)
    PROVE  Shrinks({}) /\ DeviceTypes' /\ \A f \in Entries : dev'[f].gone = dev[f].gone
<1>1. /\ dev \in [Entries -> Device] /\ e \in Entries /\ dev[e].registered
      /\ dev' = [dev EXCEPT ![e] = [dev[e] EXCEPT !.users = dev[e].users + 1]]
    BY DEF DeviceTypes, Registered, hold
<1>2. dev[e] \in Device /\ [dev[e] EXCEPT !.users = dev[e].users + 1] \in Device
    BY <1>1 DEF Device
<1>3. dev' \in [Entries -> Device]
    BY <1>1, <1>2, Zenon
<1>4. ASSUME NEW f \in Entries
      PROVE  /\ SameDevice(f) /\ dev'[f].gone = dev[f].gone
             /\ ~dev[f].registered => dev'[f] = dev[f]
  <2>1. CASE f = e
    <3>1. dev'[f] = [dev[e] EXCEPT !.users = dev[e].users + 1]
      BY <1>1, <2>1, Zenon
    <3> QED
      BY <1>1, <1>2, <2>1, <3>1 DEF SameDevice, Device
  <2>2. CASE f # e
    BY <1>1, <2>2, Zenon DEF SameDevice
  <2> QED
    BY <2>1, <2>2, Zenon
<1>5. Shrinks({})
    BY <1>4, Zenon DEF Shrinks
<1> QED
    BY <1>3, <1>4, <1>5, Zenon DEF DeviceTypes, hold

\* What a sequence holds is of its range.
LEMMA SeqElement == ASSUME NEW S, NEW s \in Seq(S), NEW i \in DOMAIN s PROVE s[i] \in S
OBVIOUS

\* free_entry() takes the free entries in turn, the lowest first, none twice.
LEMMA TurnFacts ==
    /\ \A e \in Free : Turn(e) \in Nat
    /\ \A e, f \in Free : Turn(e) = Turn(f) => e = f
    /\ Free # {} => \E d \in Free : Turn(d) = 0
<1>0. Free \subseteq Nat /\ IsFiniteSet(Free)
  <2>1. Free \subseteq Entries
    BY DEF Free
  <2> QED
    BY <2>1, RegistryAssumption, FS_Subset, Zenon
<1> DEFINE Before(e) == {f \in Free : f < e}
<1>1. ASSUME NEW e \in Free PROVE IsFiniteSet(Before(e)) /\ Turn(e) = Cardinality(Before(e))
  <2>1. Before(e) \subseteq Free
    OBVIOUS
  <2> QED
    BY <1>0, <2>1, FS_Subset DEF Turn
<1>2. ASSUME NEW e \in Free PROVE Turn(e) \in Nat
    BY <1>1, FS_CardinalityType, Zenon
<1>3. ASSUME NEW e \in Free, NEW f \in Free, e < f PROVE Turn(e) # Turn(f)
  <2>1. e \in Nat /\ f \in Nat
    BY <1>0
  <2>2. \A x \in Free : x < e => x < f
    BY <1>0, <1>3, <2>1
  <2>3. Before(e) \subseteq Before(f)
    BY <2>2, Zenon
  <2>4. e \in Before(f) /\ e \notin Before(e)
    BY <1>3, <2>1
  <2> HIDE DEF Before
  <2>5. Cardinality(Before(f)) # Cardinality(Before(e))
    BY <1>1, <2>3, <2>4, FS_Subset, Zenon
  <2> QED
    BY <1>1, <1>2, <2>5
<1>4. ASSUME NEW e \in Free, NEW f \in Free, Turn(e) = Turn(f) PROVE e = f
  <2>1. e \in Nat /\ f \in Nat
    BY <1>0
  <2>2. e < f \/ f < e \/ e = f
    BY <2>1
  <2> QED
    BY <1>3, <1>4, <2>2, Zenon
<1>5. ASSUME Free # {} PROVE \E d \in Free : Turn(d) = 0
  <2> DEFINE Less == OpToRel(<, Nat)
  <2>1. IsWellFoundedOn(Less, Nat)
    BY NatLessThanWellFounded, Zenon
  <2>2. \A x, y \in Nat : y < x => <<y, x>> \in Less
    BY DEF OpToRel
  <2> HIDE DEF Less
  <2>3. PICK d \in Free : \A y \in Free : ~(<<y, d>> \in Less)
    BY <1>0, <1>5, <2>1, WFMin, Zenon
  <2>4. Before(d) = {}
    BY <1>0, <2>2, <2>3, Zenon
  <2> QED
    BY <1>1, <2>4, FS_EmptySet
<1> QED
    BY <1>2, <1>4, <1>5, Zenon

\* A disk of medium m comes into the registry, where the ones it had are gone.
LEMMA PlugRegisters ==
    ASSUME DeviceTypes, RegistryInv, NEW m \in Media, Plug(m)
    PROVE  /\ DeviceTypes' /\ RegistryInv'
           /\ \A e \in Registered : dev'[e] = dev[e]
<1>0. /\ dev \in [Entries -> Device] /\ \A e \in Registered : dev[e].medium = m => gone(e)
      /\ present' = present \cup {m} /\ UNCHANGED <<cell, stable>>
    BY Zenon DEF DeviceTypes, Plug
<1>1. CASE dev' = dev
    BY <1>0, <1>1, RegistryStays DEF DeviceTypes
<1>2. CASE dev' # dev
  <2>1. PICK scanned \in BOOLEAN : Free # {} /\ dev' = Registry(m, scanned)
    BY <1>2, Zenon DEF Plug
  <2>2. PICK disk : /\ disk \in Free /\ Turn(disk) = 0
                    /\ disk = CHOOSE d \in Free : Turn(d) = 0
    BY <2>1, TurnFacts, Zenon
  <2> DEFINE parts == IF scanned THEN Len(Layout[m]) ELSE 0
             New(e) == [Unused EXCEPT !.registered = TRUE, !.medium = m, !.parent = disk,
                              !.first = Layout[m][Turn(e)].first,
                              !.count = Layout[m][Turn(e)].count]
             Disk == [Unused EXCEPT !.registered = TRUE, !.medium = m, !.count = Size[m]]
             Next1(e) == IF e \notin Free \/ Turn(e) > parts THEN dev[e]
                         ELSE IF e = disk THEN Disk ELSE New(e)
  <2>3. Layout[m] \in Seq([first : Nat, count : Nat]) /\ Size[m] \in Nat
    BY MediaAssumption
  <2>4. parts \in Nat /\ 1 .. parts \subseteq DOMAIN Layout[m]
    BY <2>3
  <2>50. dev' = [e \in Entries |-> Next1(e)]
    BY <2>1, <2>2, Zenon DEF Registry
  <2>5. \A e \in Entries : dev'[e] = Next1(e)
    <3> HIDE DEF Next1
    <3> QED
      BY <2>50, Zenon
  <2>6. dev'[disk] = Disk /\ disk \in Entries
    <3>1. disk \in Entries
      BY <2>2, Zenon DEF Free
    <3>2. ~(Turn(disk) > parts)
      BY <2>2, <2>4
    <3>3. Next1(disk) = Disk
      BY <2>2, <3>2, Zenon
    <3> QED
      BY <2>5, <3>1, <3>3, Zenon
  <2>7. /\ Disk \in Device /\ Disk.registered /\ Disk.medium = m /\ Disk.parent = NoEntry
        /\ Disk.first = 0 /\ Disk.count = Size[m] /\ ~Disk.gone
    BY <2>3, Zenon DEF Unused, Device
  <2>8. ASSUME NEW e \in Free, Turn(e) <= parts, e # disk
        PROVE  /\ New(e) \in Device /\ New(e).registered /\ New(e).medium = m
               /\ New(e).parent = disk /\ ~New(e).gone
               /\ Turn(e) \in DOMAIN Layout[m] /\ Turn(e) \in Nat
               /\ New(e).first = Layout[m][Turn(e)].first
               /\ New(e).count = Layout[m][Turn(e)].count
    <3>1. Turn(e) \in Nat /\ Turn(e) # 0
      BY <2>2, <2>8, TurnFacts, Zenon
    <3>2. Turn(e) \in DOMAIN Layout[m]
      BY <2>4, <2>8, <3>1
    <3>3. Layout[m][Turn(e)] \in [first : Nat, count : Nat]
      <4>1. PICK i : i = Turn(e)
        OBVIOUS
      <4>2. Layout[m][i] \in [first : Nat, count : Nat]
        <5>1. i \in DOMAIN Layout[m]
          BY <3>2, <4>1, Zenon
        <5> QED
          BY <2>3, <5>1, SeqElement, Zenon
      <4> QED
        BY <4>1, <4>2, Zenon
    <3>4. disk \in Entries
      BY <2>6
    <3> QED
      BY <3>1, <3>2, <3>3, <3>4, Zenon DEF Unused, Device
  <2> HIDE DEF parts, Disk, New
  <2>9. \A e \in Registered : dev'[e] = dev[e] /\ e \in Entries
    BY <2>5, Zenon DEF Free, Registered
  <2>10. ASSUME NEW e \in Entries
         PROVE  \/ dev'[e] = dev[e]
                \/ e = disk /\ dev'[e] = Disk
                \/ e # disk /\ e \in Free /\ Turn(e) <= parts /\ dev'[e] = New(e)
    <3>1. e \in Free => Turn(e) \in Nat
      BY TurnFacts, Zenon
    <3>2. e \in Free => (~(Turn(e) > parts) => Turn(e) <= parts)
      BY <2>4, <3>1
    <3> QED
      BY <2>5, <3>2, Zenon
  <2>11. dev' \in [Entries -> Device]
    <3>1. dev' = [e \in Entries |-> dev'[e]]
      BY <2>5, <2>50, Zenon
    <3>2. \A e \in Entries : dev'[e] \in Device
      BY <1>0, <2>7, <2>8, <2>10, Zenon
    <3> QED
      BY <3>1, <3>2, Zenon
  <2>12. (disk \in Registered)' /\ Whole(disk)' /\ dev'[disk].medium = m
    BY <2>6, <2>7, Zenon DEF Registered, Whole
  <2>13. ASSUME NEW e, (e \in Registered)'
         PROVE  \/ e \in Registered /\ dev'[e] = dev[e]
                \/ e = disk
                \/ e # disk /\ e \in Free /\ Turn(e) <= parts /\ dev'[e] = New(e)
    <3>1. e \in Entries /\ dev'[e].registered
      BY <2>13, Zenon DEF Registered
    <3> QED
      BY <2>10, <3>1, Zenon DEF Registered
  <2>14. disk \notin Registered
    BY <2>2, Zenon DEF Free
  <2>15. ASSUME NEW e \in Entries PROVE Entered(e)'
    <3>1. CASE dev'[e] = dev[e]
      <4>1. Entered(e)
        BY Zenon DEF RegistryInv
      <4>2. CASE ~dev[e].registered
        BY <3>1, <4>1, <4>2, Zenon DEF Entered
      <4>3. CASE dev[e].registered /\ Whole(e)
        BY <3>1, <4>1, <4>3, Zenon DEF Entered, Whole
      <4>4. CASE dev[e].registered /\ ~Whole(e)
        <5>1. dev[e].parent \in Registered /\ dev'[dev[e].parent] = dev[dev[e].parent]
          BY <2>9, <4>1, <4>4, Zenon DEF Entered
        <5>2. dev[e].parent \in Registered'
          BY <5>1, Zenon DEF Registered
        <5> QED
          BY <3>1, <4>1, <4>4, <5>1, <5>2, Zenon DEF Entered, Whole, Numbered
      <4> QED
        BY <4>2, <4>3, <4>4, Zenon
    <3>2. CASE e = disk /\ dev'[e] = Disk
      BY <2>7, <3>2, Zenon DEF Entered, Whole
    <3>3. CASE e # disk /\ e \in Free /\ Turn(e) <= parts /\ dev'[e] = New(e)
      <4>1. /\ dev'[e].registered /\ dev'[e].medium = m /\ dev'[e].parent = disk
        BY <2>8, <3>3, Zenon
      <4>3. \E i \in Nat : Numbered(e, i)'
        <5>1. PICK i : i = Turn(e)
          OBVIOUS
        <5>2. i \in Nat /\ Numbered(e, i)'
          BY <2>8, <3>3, <5>1, Zenon DEF Numbered
        <5> QED
          BY <5>2, Zenon
      <4>2. disk # NoEntry
        BY <2>6, RegistryAssumption, Zenon
      <4> QED
        BY <2>12, <4>1, <4>2, <4>3, Zenon DEF Entered, Whole
    <3> QED
      BY <2>10, <3>1, <3>2, <3>3, Zenon
  <2>16. Sisters'
    <3> SUFFICES ASSUME NEW e, NEW f, (e \in Registered)', (f \in Registered)',
                        e # f, ~Whole(e)', dev'[f].parent = dev'[e].parent
                 PROVE  \E i, j \in Nat : i # j /\ Numbered(e, i)' /\ Numbered(f, j)'
      BY Zenon DEF Sisters
    <3>1. ~Whole(f)'
      BY Zenon DEF Whole
    <3>2. e # disk /\ f # disk
      BY <2>12, <3>1, Zenon DEF Whole
    <3>3. ASSUME NEW x, x \in Registered, dev'[x] = dev[x], ~Whole(x)' PROVE dev'[x].parent # disk
      <4>1. x \in Entries /\ dev[x].registered /\ Entered(x) /\ ~Whole(x)
        BY <3>3, Zenon DEF Registered, RegistryInv, Whole
      <4> QED
        BY <2>14, <3>3, <4>1, Zenon DEF Entered
    <3>4. CASE e \in Registered /\ dev'[e] = dev[e]
      <4>1. dev'[f].parent # disk
        BY <3>3, <3>4, Zenon
      <4>2. f \in Registered /\ dev'[f] = dev[f]
        BY <2>8, <2>13, <3>2, <4>1, ZenonT(60)
      <4>3. ~Whole(e) /\ dev[f].parent = dev[e].parent
        BY <3>4, <4>2, Zenon DEF Whole
      <4> QED
        <5>1. \E i, j \in Nat : i # j /\ Numbered(e, i) /\ Numbered(f, j)
          BY <3>4, <4>2, <4>3, Zenon DEF RegistryInv, Sisters
        <5> QED
          BY <3>4, <4>2, <5>1, ZenonT(60) DEF Numbered
    <3>5. CASE e \in Free /\ Turn(e) <= parts /\ dev'[e] = New(e)
      <4>1. dev'[f].parent = disk
        BY <2>8, <3>2, <3>5, Zenon
      <4>2. f \in Free /\ Turn(f) <= parts /\ dev'[f] = New(f)
        BY <2>13, <3>1, <3>2, <3>3, <4>1, Zenon
      <4>3. Turn(e) # Turn(f)
        BY <3>5, <4>2, TurnFacts, Zenon
      <4>4. PICK i, j : i = Turn(e) /\ j = Turn(f)
        OBVIOUS
      <4>5. i \in Nat /\ j \in Nat /\ i # j
        BY <2>8, <3>2, <3>5, <4>2, <4>3, <4>4, ZenonT(60)
      <4>6. Numbered(e, i)' /\ Numbered(f, j)'
        BY <2>8, <3>2, <3>5, <4>2, <4>4, ZenonT(60) DEF Numbered
      <4> QED
        BY <4>5, <4>6, Zenon
    <3> QED
      BY <2>13, <3>2, <3>4, <3>5, Zenon
  <2>17. OneDisk'
    <3> SUFFICES ASSUME NEW d, NEW e, (d \in Registered)', (e \in Registered)',
                        Whole(d)', Whole(e)', dev'[d].medium = dev'[e].medium,
                        ~dev'[d].gone, ~dev'[e].gone
                 PROVE  d = e
      BY Zenon DEF OneDisk
    <3>1. disk # NoEntry
      BY <2>6, RegistryAssumption, Zenon
    <3>2. ASSUME NEW x, (x \in Registered)', Whole(x)', x # disk
          PROVE  x \in Registered /\ dev'[x] = dev[x] /\ Whole(x)
      <4>1. x \in Registered /\ dev'[x] = dev[x]
        BY <2>8, <2>13, <3>1, <3>2, ZenonT(60) DEF Whole
      <4> QED
        BY <3>2, <4>1, Zenon DEF Whole
    <3>3. ASSUME NEW x, (x \in Registered)', Whole(x)', x # disk, dev'[x].medium = m
          PROVE  dev'[x].gone
      <4>1. x \in Registered /\ dev'[x] = dev[x] /\ Whole(x)
        BY <3>2, <3>3, Zenon
      <4>2. gone(x)
        BY <1>0, <3>3, <4>1, Zenon
      <4> QED
        BY <4>1, <4>2, Zenon DEF gone, disk_of, Whole
    <3>4. CASE d # disk /\ e # disk
      BY <3>2, <3>4, Zenon DEF RegistryInv, OneDisk
    <3>5. CASE d = disk \/ e = disk
      BY <2>12, <3>3, <3>5, Zenon
    <3> QED
      BY <3>4, <3>5, Zenon
  <2>18. DeviceTypes'
    <3>1. present' \subseteq Media
      BY <1>0 DEF DeviceTypes
    <3> QED
      BY <1>0, <2>11, <3>1, Zenon DEF DeviceTypes
  <2> QED
    BY <2>9, <2>15, <2>16, <2>17, <2>18, ZenonT(60) DEF RegistryInv
<1> QED
    BY <1>1, <1>2, Zenon

\* Registry r has the entries of the registry, held or gone as may be.
Like(r) ==
    /\ r \in [Entries -> Device]
    /\ \A e \in Entries :
         /\ r[e].registered = dev[e].registered /\ r[e].medium = dev[e].medium
         /\ r[e].parent = dev[e].parent
         /\ r[e].first = dev[e].first /\ r[e].count = dev[e].count
         /\ dev[e].gone => r[e].gone
         /\ ~dev[e].registered => r[e] = dev[e]

\* collect() takes a disk that is gone with all of its partitions, or nothing.
LEMMA CollectShrinks ==
    ASSUME DeviceTypes, RegistryInv, NEW r, Like(r), NEW d \in Registered, Whole(d),
           dev' = Collect(r, d)
    PROVE  /\ Shrinks(Collected(r, d)) /\ dev' \in [Entries -> Device]
           /\ \A e \in Entries : e \notin Collected(r, d) => dev'[e] = r[e]
           /\ \A e \in Collected(r, d) : e \in Registered /\ disk_of(e) = d /\ r[d].gone
<1>0. d \in Entries /\ d # NoEntry
    BY RegistryAssumption, Zenon DEF Registered
<1> DEFINE X == Collected(r, d)
<1>1. X = {} \/ (r[d].gone /\ X = {e \in Entries : r[e].registered /\ r[e].parent = d} \cup {d})
    BY Zenon DEF Collected
<1>2. \A e \in X : e \in Registered /\ r[d].gone /\ (e = d \/ dev[e].parent = d) /\ e \in Entries
    BY <1>0, <1>1, ZenonT(60) DEF Like, Registered
<1>3. \A e \in X : disk_of(e) = d
    BY <1>0, <1>2, Zenon DEF disk_of, Whole
<1>4. ASSUME NEW e \in Registered, dev[e].parent \in X PROVE e \in X
  <2>1. e \in Entries /\ dev[e].registered /\ Entered(e)
    BY Zenon DEF Registered, RegistryInv
  <2>2. dev[e].parent \in Entries
    BY <1>2, <1>4, Zenon
  <2>3. ~Whole(e)
    BY <2>2, RegistryAssumption, Zenon DEF Whole
  <2>4. Whole(dev[e].parent)
    BY <2>1, <2>3, Zenon DEF Entered
  <2>5. dev[e].parent = d
    BY <1>0, <1>2, <1>4, <2>4, Zenon DEF Whole
  <2> QED
    BY <1>1, <1>4, <2>1, <2>5, Zenon DEF Like
<1> HIDE DEF X
<1>5. dev' = [e \in Entries |-> IF e \in X THEN Unused ELSE r[e]]
    BY Zenon DEF Collect, X
<1>6. \A e \in Entries : dev'[e] = IF e \in X THEN Unused ELSE r[e]
    BY <1>5, Zenon
<1>7. dev' \in [Entries -> Device]
  <2>1. \A e \in Entries : (IF e \in X THEN Unused ELSE r[e]) \in Device
    BY UnusedFacts, Zenon DEF Like
  <2> QED
    BY <1>5, <2>1, Zenon
<1>8. Shrinks(X)
  <2>1. ASSUME NEW e \in Entries, e \notin X
        PROVE  /\ SameDevice(e)
               /\ dev[e].gone => dev'[e].gone
               /\ ~dev[e].registered => dev'[e] = dev[e]
    <3>1. dev'[e] = r[e]
      BY <1>6, <2>1, Zenon
    <3> QED
      BY <3>1, ZenonT(60) DEF Like, SameDevice
  <2>2. \A e \in Entries : e \in X => dev'[e] = Unused
    BY <1>6, Zenon
  <2> QED
    BY <1>4, <2>1, <2>2, Zenon DEF Shrinks
<1> QED
    BY <1>2, <1>3, <1>6, <1>7, <1>8, Zenon DEF X

\* drop() changes no more than the count of users.
LEMMA DroppedLike ==
    ASSUME DeviceTypes, NEW e \in Registered
    PROVE  Like(Dropped(e)) /\ \A f \in Entries : Dropped(e)[f].gone = dev[f].gone
<1>1. dev \in [Entries -> Device] /\ e \in Entries /\ dev[e].registered /\ dev[e] \in Device
    BY DEF DeviceTypes, Registered
<1>2. PICK n \in Nat : n = IF dev[e].users > 0 THEN dev[e].users - 1 ELSE 0
    BY <1>1 DEF Device
<1>3. Dropped(e) = [dev EXCEPT ![e] = [dev[e] EXCEPT !.users = n]]
    BY <1>2, Zenon DEF Dropped
<1>4. PICK new : new = [dev[e] EXCEPT !.users = n]
    BY Zenon
<1>5. /\ new \in Device /\ new.registered = dev[e].registered /\ new.medium = dev[e].medium
      /\ new.parent = dev[e].parent /\ new.gone = dev[e].gone
      /\ new.first = dev[e].first /\ new.count = dev[e].count
    BY <1>1, <1>4, Zenon DEF Device
<1>6. Dropped(e) \in [Entries -> Device]
    BY <1>1, <1>3, <1>4, <1>5, Zenon
<1>7. ASSUME NEW f \in Entries PROVE Dropped(e)[f] = IF f = e THEN new ELSE dev[f]
    BY <1>1, <1>3, <1>4, Zenon
<1> HIDE DEF Dropped
<1> QED
    BY <1>1, <1>5, <1>6, <1>7, Zenon DEF Like

\* disk_gone() marks the disk.
LEMMA GoneLike ==
    ASSUME DeviceTypes, NEW d \in Registered
    PROVE  /\ Like([dev EXCEPT ![d].gone = TRUE])
           /\ [dev EXCEPT ![d].gone = TRUE][d].gone
           /\ \A f \in Entries : f # d => [dev EXCEPT ![d].gone = TRUE][f] = dev[f]
<1>1. dev \in [Entries -> Device] /\ d \in Entries /\ dev[d].registered /\ dev[d] \in Device
    BY DEF DeviceTypes, Registered
<1>2. PICK r : r = [dev EXCEPT ![d].gone = TRUE]
    BY Zenon
<1>3. PICK new : new = [dev[d] EXCEPT !.gone = TRUE]
    BY Zenon
<1>4. /\ new \in Device /\ new.registered = dev[d].registered /\ new.medium = dev[d].medium
      /\ new.parent = dev[d].parent /\ new.gone
      /\ new.first = dev[d].first /\ new.count = dev[d].count
    BY <1>1, <1>3, ZenonT(60) DEF Device
<1>5. r = [dev EXCEPT ![d] = new]
    BY <1>2, <1>3, Zenon
<1>6. r \in [Entries -> Device]
    BY <1>1, <1>4, <1>5, Zenon
<1>7. ASSUME NEW f \in Entries PROVE r[f] = IF f = d THEN new ELSE dev[f]
    BY <1>1, <1>5, Zenon
<1>8. Like(r) /\ r[d].gone /\ \A f \in Entries : f # d => r[f] = dev[f]
    BY <1>1, <1>4, <1>6, <1>7, Zenon DEF Like
<1> QED
    BY <1>2, <1>8, Zenon

-----------------------------------------------------------------------------
(* What a step that is not a client's change may do to a buffer: the       *)
(* buffer goes on as a copy of its sector, or it is used for another.      *)

Follows(x, W) ==
    /\ \A m \in Media, a \in Lbas : At(x, m, a)' <=> At(x, m, a)
    /\ Pending(x)' => Pending(x)
    /\ ~Pending(x) => buf'[x].data = buf[x].data
    /\ Pending(x) /\ ~Pending(x)' =>
         \A m \in Media, a \in Lbas : At(x, m, a) => buf'[x].data \in {Junk, cell'[m][a]}
    /\ ~Pending(x) /\ ~buf'[x].dirty /\ x \notin changed' =>
         (~buf[x].dirty /\ x \notin changed) \/ x \in W \/ gone(buf[x].dev)

Leaves(x, W) ==
    /\ ~Pending(x)
    /\ buf[x].valid /\ ~gone(buf[x].dev) =>
         \/ x \in W \/ (~buf[x].dirty /\ x \notin changed)
         \/ dev[buf[x].dev].medium \notin present \/ rc' = "error"
    /\ \/ buf'[x] = Empty
       \/ /\ dev' = dev /\ find_buffer(buf'[x].dev, buf'[x].lba) = {}
          /\ Pending(x)' \/ buf'[x].data = OnDisk(cell', buf'[x].dev, buf'[x].lba)

Moves(W) == Wrote(W) /\ \A x \in Bufs : Follows(x, W) \/ Leaves(x, W)

\* A buffer that stays filed under the same device stays at its sector.
LEMMA StaysAt ==
    ASSUME dev' = dev, NEW x, Kept(x)
    PROVE  \A m, a : At(x, m, a)' <=> At(x, m, a)
<1> SUFFICES ASSUME NEW m, NEW a PROVE At(x, m, a)' <=> At(x, m, a)
    OBVIOUS
<1> QED
    BY Zenon DEF Kept, At, gone, disk_of, resolve

\* A step without a request writes nothing.
LEMMA NothingWritten == ASSUME cell \in Image, cell' = cell PROVE Wrote({})
BY Zenon DEF Wrote

\* The invariants of the call in progress, once there is none.
LEMMA CallEnds ==
    ASSUME op' = Idle, changed' \subseteq Locked'
    PROVE  OpType' /\ RangeInv' /\ FlushInv' /\ LockInv'
<1>1. op'.call = "none"
    BY IdleCalls, Zenon
<1>2. OpType'
    BY Zenon DEF OpType
<1>3. RangeInv'
    BY <1>1 DEF RangeInv
<1>4. FlushInv'
    BY <1>1 DEF FlushInv
<1>5. LockInv'
    BY <1>1, Zenon DEF LockInv
<1> QED
    BY <1>2, <1>3, <1>4, <1>5, Zenon

\* An empty buffer is a descriptor, and not dirty.
LEMMA EmptyFacts == Empty \in Descriptor /\ Empty.valid = FALSE /\ Empty.dirty = FALSE /\ Empty.refcnt = 0
BY DEF Empty, Descriptor

\* A buffer bound to a sector is a descriptor.
LEMMA BoundFacts ==
    ASSUME NEW e \in Entries, NEW l \in Nat, NEW d \in Data \cup {Junk}
    PROVE  /\ Bound(e, l, d) \in Descriptor /\ Bound(e, l, d).valid /\ Bound(e, l, d).dev = e
           /\ Bound(e, l, d).lba = l /\ ~Bound(e, l, d).dirty /\ Bound(e, l, d).data = d
           /\ Bound(e, l, d).refcnt = 1
BY DEF Bound, Descriptor

\* pick_victim() takes a buffer nobody has locked.
LEMMA VictimFacts ==
    ASSUME CacheTypes, NEW b \in pick_victim PROVE b \in Bufs /\ b \notin Locked /\ buf[b].refcnt = 0
<1>1. b \in Bufs /\ b \notin Locked
    BY DEF pick_victim
<1>2. buf[b].refcnt \in Nat
    BY <1>1 DEF CacheTypes, Descriptor
<1> QED
    BY <1>1, <1>2 DEF Locked

\* Cleaning nothing changes nothing.
LEMMA CleanedNone == ASSUME CacheTypes PROVE Cleaned({}) = buf
<1>1. Cleaned({}) \in [Bufs -> Descriptor] /\ buf \in [Bufs -> Descriptor]
    BY CleanedFacts, Zenon DEF CacheTypes
<1>2. \A b \in Bufs : Cleaned({})[b] = buf[b]
    BY CleanedFacts, Zenon
<1> HIDE DEF Cleaned
<1> QED
    BY <1>1, <1>2

\* The buffers W were written out, and b was taken for something else.
LEMMA TakenFacts ==
    ASSUME CacheTypes, NEW W, NEW b \in Bufs, NEW new \in Descriptor,
           buf' = [Cleaned(W) EXCEPT ![b] = new]
    PROVE  /\ buf' \in [Bufs -> Descriptor] /\ buf'[b] = new
           /\ \A x \in Bufs : x # b => buf'[x] = Cleaned(W)[x]
<1>1. Cleaned(W) \in [Bufs -> Descriptor]
    BY CleanedFacts, Zenon
<1>2. buf' \in [Bufs -> Descriptor] /\ buf'[b] = new
    BY <1>1, Zenon
<1>3. \A x \in Bufs : x # b => buf'[x] = Cleaned(W)[x]
    BY <1>1, Zenon
<1> QED
    BY <1>2, <1>3, Zenon

\* A buffer that was cleaned, if it was among those written out.
LEMMA CleanedOne ==
    ASSUME CacheTypes, NEW W, NEW x \in Bufs, buf'[x] = Cleaned(W)[x]
    PROVE  /\ buf'[x].valid = buf[x].valid /\ buf'[x].dev = buf[x].dev
           /\ buf'[x].lba = buf[x].lba /\ buf'[x].refcnt = buf[x].refcnt
           /\ buf'[x].data = buf[x].data
           /\ x \in W => ~buf'[x].dirty
           /\ x \notin W => buf'[x] = buf[x]
<1>1. /\ Cleaned(W)[x].valid = buf[x].valid /\ Cleaned(W)[x].dev = buf[x].dev
      /\ Cleaned(W)[x].lba = buf[x].lba /\ Cleaned(W)[x].refcnt = buf[x].refcnt
      /\ Cleaned(W)[x].data = buf[x].data
      /\ x \in W => ~Cleaned(W)[x].dirty
      /\ x \notin W => Cleaned(W)[x] = buf[x]
    BY CleanedFacts, ZenonT(60)
<1> QED
    BY <1>1, Zenon

\* Only filed buffers are locked or dirty.
LEMMA InvalidFacts ==
    ASSUME FileInv, NEW b \in Bufs, ~buf[b].valid
    PROVE  buf[b] = Empty /\ ~buf[b].dirty /\ b \notin Locked
<1>1. buf[b] = Empty
    BY Zenon DEF FileInv, Filed
<1> QED
    BY <1>1, EmptyFacts DEF Locked

-----------------------------------------------------------------------------
(* get() and put().                                                        *)

\* The parts of the invariant that hold again at once when a step outside of
\* any call leaves the registry alone.
LEMMA QuietStep ==
    ASSUME CacheInv, op = Idle, op' = op, dev' = dev, present' = present, stable' = stable,
           cell' \in Image, buf' \in [Bufs -> Descriptor], FileInv',
           changed' \subseteq Locked'
    PROVE  CacheInv'
<1>1. OpType' /\ RangeInv' /\ FlushInv' /\ LockInv'
    BY CallEnds, Zenon
<1>2. RegistryInv'
    BY RegistryStays, Zenon DEF CacheInv, Types
<1>3. changed' \subseteq Bufs
    BY DEF Locked
<1>4. Types'
    BY <1>1, <1>3, Zenon DEF CacheInv, Types, DeviceTypes, CacheTypes
<1> QED
    BY <1>1, <1>2, <1>4, Zenon DEF CacheInv

\* A buffer outside of any call that keeps its place, contents and dirt.
LEMMA QuietFollows ==
    ASSUME op = Idle, op' = op, dev' = dev, NEW W, NEW x \in Bufs, Kept(x),
           buf'[x].data = buf[x].data,
           ~buf'[x].dirty /\ x \notin changed' =>
               (~buf[x].dirty /\ x \notin changed) \/ x \in W
    PROVE  Follows(x, W)
<1>1. ~Pending(x) /\ ~Pending(x)'
    BY IdleCalls DEF Pending
<1>2. \A m \in Media, a \in Lbas : At(x, m, a)' <=> At(x, m, a)
    BY StaysAt, Zenon
<1> QED
    BY <1>1, <1>2, Zenon DEF Follows

\* get() of a sector in the cache locks its buffer.
LEMMA GetHitStep ==
    ASSUME CacheInv, NEW e, NEW l, GetHit(e, l)
    PROVE  CacheInv' /\ \E W : Moves(W)
<1>0. /\ op = Idle /\ op' = op /\ dev' = dev /\ present' = present /\ stable' = stable
      /\ cell' = cell /\ changed' = changed
    BY DEF GetHit, deviceVars
<1>1. PICK b \in find_buffer(e, l) : buf' = [buf EXCEPT ![b].refcnt = @ + 1]
    BY Zenon DEF GetHit
<1>2. buf \in [Bufs -> Descriptor] /\ cell \in Image /\ b \in Bufs /\ buf[b].valid
    BY DEF CacheInv, Types, CacheTypes, DeviceTypes, find_buffer
<1>3. ASSUME NEW x \in Bufs
      PROVE  /\ buf'[x] \in Descriptor /\ buf'[x].data = buf[x].data /\ buf'[x].dirty = buf[x].dirty
             /\ buf'[x].valid = buf[x].valid /\ buf'[x].dev = buf[x].dev
             /\ buf'[x].lba = buf[x].lba /\ buf'[x].refcnt >= buf[x].refcnt
             /\ x # b => buf'[x] = buf[x]
    BY <1>1, <1>2 DEF Descriptor
<1>4. \A x \in Bufs : Kept(x)
    BY <1>2, <1>3, Zenon DEF Kept
<1>5. FileInv'
    BY <1>0, <1>4, FilesKept, ZenonT(60) DEF CacheInv, SameDevice
<1>6. buf' \in [Bufs -> Descriptor]
    BY <1>1, <1>2, <1>3
<1>7. Locked \subseteq Locked'
  <2>1. \A x \in Bufs : buf[x].refcnt \in Nat /\ buf'[x].refcnt \in Nat
    BY <1>2, <1>6 DEF Descriptor
  <2> QED
    BY <1>3, <2>1 DEF Locked
<1>8. CacheInv'
    BY <1>0, <1>2, <1>5, <1>6, <1>7, QuietStep, ZenonT(60) DEF CacheInv, LockInv
<1>9. \A x \in Bufs : Follows(x, {})
    BY <1>0, <1>3, <1>4, QuietFollows, ZenonT(60)
<1>10. Moves({})
    BY <1>0, <1>2, <1>9, NothingWritten, Zenon DEF Moves
<1> QED
    BY <1>8, <1>10, Zenon

\* A victim is written out and used for another sector, or emptied.
LEMMA TakenStep ==
    ASSUME CacheInv, op = Idle, op' = op, dev' = dev, present' = present, stable' = stable,
           changed' = changed,
           NEW W, Wrote(W), NEW b \in Bufs, b \notin Locked,
           buf[b].valid /\ buf[b].dirty /\ ~gone(buf[b].dev) => b \in W,
           NEW e, NEW l, find_buffer(e, l) = {}, Mountable(e), l \in Sectors(e),
           NEW new \in {Empty, Bound(e, l, OnDisk(cell', e, l))},
           buf' = [Cleaned(W) EXCEPT ![b] = new]
    PROVE  CacheInv' /\ Moves(W)
<1>1. e \in Registered /\ e \in Entries
    BY DEF Mountable, Registered
<1>2. CacheTypes /\ DeviceTypes /\ RegistryInv /\ FileInv
    BY Zenon DEF CacheInv, Types
<1>3. dev[e].medium \in Media /\ l \in Nat /\ resolve(e, l) \in Lbas
    BY <1>1, <1>2, DiskFacts, SectorsAreLbas, Zenon
<1>4. cell' \in Image
    BY Zenon DEF Wrote
<1>5. OnDisk(cell', e, l) \in Data \cup {Junk}
    BY <1>3, <1>4, Zenon DEF OnDisk, Image
<1>60. PICK d : d = OnDisk(cell', e, l)
    OBVIOUS
<1>61. PICK bound : bound = Bound(e, l, d)
    OBVIOUS
<1>6. /\ bound \in Descriptor /\ bound.valid /\ bound.dev = e /\ bound.lba = l
      /\ bound.data = OnDisk(cell', e, l)
  <2>1. d \in Data \cup {Junk}
    BY <1>5, <1>60, Zenon
  <2> QED
    BY <1>1, <1>3, <1>60, <1>61, <2>1, BoundFacts, SMTT(60)
<1>7. new = Empty \/ new = bound
    BY <1>60, <1>61, Zenon
<1>8. new \in Descriptor
    BY <1>6, <1>7, EmptyFacts, Zenon
<1>9. buf' \in [Bufs -> Descriptor] /\ buf'[b] = new
    BY <1>2, <1>8, TakenFacts, ZenonT(60)
<1>10. ASSUME NEW x \in Bufs, x # b
       PROVE  /\ buf'[x].valid = buf[x].valid /\ buf'[x].dev = buf[x].dev
              /\ buf'[x].lba = buf[x].lba /\ buf'[x].refcnt = buf[x].refcnt
              /\ buf'[x].data = buf[x].data
              /\ x \notin W => buf'[x] = buf[x]
  <2>1. buf'[x] = Cleaned(W)[x]
    BY <1>2, <1>8, <1>10, TakenFacts, ZenonT(60)
  <2> QED
    BY <1>2, <2>1, CleanedOne
<1>11. ASSUME NEW x \in Bufs, x # b PROVE Kept(x)
  <2>1. ~buf[x].valid => x \notin W
    BY Zenon DEF Wrote
  <2> QED
    BY <1>10, <1>11, <2>1, Zenon DEF Kept
<1>12. FileInv'
  <2>1. CASE new = Empty
    BY <1>2, <1>9, <1>11, <2>1, FilesKept, ZenonT(60) DEF SameDevice
  <2>2. CASE new = bound
    BY <1>2, <1>6, <1>9, <1>11, <2>2, FilesBound, ZenonT(60)
  <2> QED
    BY <1>7, <2>1, <2>2, Zenon
<1>13. changed \subseteq Locked
    BY ZenonT(60) DEF CacheInv, LockInv
<1>14. changed' \subseteq Locked'
  <2>1. ASSUME NEW x \in changed PROVE x \in Bufs /\ buf'[x].refcnt > 0
    <3>1. x \in Bufs /\ x # b /\ buf[x].refcnt > 0
      BY <1>13 DEF Locked
    <3> QED
      BY <1>10, <3>1, ZenonT(60)
  <2> QED
    BY <2>1 DEF Locked
<1>15. CacheInv'
    BY <1>4, <1>9, <1>12, <1>14, QuietStep, ZenonT(60)
<1>16. ASSUME NEW x \in Bufs, x # b PROVE Follows(x, W)
    BY <1>10, <1>11, <1>16, QuietFollows, ZenonT(60)
<1>17. Leaves(b, W)
  <2>1. ~Pending(b)
    BY IdleCalls DEF Pending
  <2>2. b \notin changed
    BY <1>13, Zenon
  <2>3. \/ buf'[b] = Empty
        \/ /\ find_buffer(buf'[b].dev, buf'[b].lba) = {}
           /\ buf'[b].data = OnDisk(cell', buf'[b].dev, buf'[b].lba)
    BY <1>6, <1>7, <1>9, Zenon
  <2> QED
    BY <2>1, <2>2, <2>3, ZenonT(60) DEF Leaves
<1> QED
    BY <1>15, <1>16, <1>17, ZenonT(60) DEF Moves

\* get() of a sector that is not in the cache.
LEMMA GetMissStep ==
    ASSUME CacheInv, NEW e, Mountable(e), NEW l \in Sectors(e), GetMiss(e, l)
    PROVE  CacheInv' /\ \E W : Moves(W)
<1>0. /\ op = Idle /\ op' = op /\ dev' = dev /\ present' = present /\ stable' = stable
      /\ changed' = changed /\ find_buffer(e, l) = {}
    BY DEF GetMiss
<1>1. Types /\ CacheTypes /\ DeviceTypes /\ RegistryInv /\ FileInv /\ cell \in Image
    BY Zenon DEF CacheInv, Types, DeviceTypes
<1>2. ASSUME NEW W, Wrote(W), buf' = buf PROVE CacheInv' /\ Moves(W)
  <2>1. \A x \in Bufs : Kept(x)
    BY <1>2, Zenon DEF Kept
  <2>2. FileInv'
    BY <1>0, <1>1, <2>1, FilesKept, Zenon DEF SameDevice
  <2>3. Locked' = Locked
    BY <1>2, Zenon DEF Locked
  <2>4. CacheInv'
    BY <1>0, <1>1, <1>2, <2>2, <2>3, QuietStep, ZenonT(60) DEF Wrote, CacheTypes, CacheInv, LockInv
  <2>5. \A x \in Bufs : Follows(x, W)
    BY <1>0, <1>2, <2>1, QuietFollows, Zenon
  <2> QED
    BY <1>2, <2>4, <2>5, Zenon DEF Moves
<1>3. CASE cell' = cell /\ buf' = buf
    BY <1>1, <1>2, <1>3, NothingWritten, Zenon
<1>4. CASE ~(cell' = cell /\ buf' = buf)
  <2>1. PICK b \in pick_victim : \E written, read \in BOOLEAN, after \in {buf, Cleaned({b}), Cleaned(RunOf(b))} :
            /\ IF buf[b].dirty /\ ~gone(buf[b].dev)
               THEN writeback(b, written, after)
               ELSE written /\ after = buf /\ UNCHANGED cell
            /\ read => Answers(e) /\ written
            /\ buf' = IF ~written THEN after
                      ELSE [after EXCEPT ![b] =
                              IF read THEN Bound(e, l, OnDisk(cell', e, l)) ELSE Empty]
    BY <1>4, Zenon DEF GetMiss
  <2>2. PICK written, read, after :
            /\ written \in BOOLEAN /\ read \in BOOLEAN
            /\ IF buf[b].dirty /\ ~gone(buf[b].dev)
               THEN writeback(b, written, after)
               ELSE written /\ after = buf /\ UNCHANGED cell
            /\ buf' = IF ~written THEN after
                      ELSE [after EXCEPT ![b] =
                              IF read THEN Bound(e, l, OnDisk(cell', e, l)) ELSE Empty]
    BY <2>1, Zenon
  <2>3. b \in Bufs /\ b \notin Locked
    BY <1>1, VictimFacts, Zenon
  <2>4. buf[b].dirty => buf[b].valid
    BY <1>1, <2>3, InvalidFacts, ZenonT(60)
  <2>5. PICK new : new = IF read THEN Bound(e, l, OnDisk(cell', e, l)) ELSE Empty
    OBVIOUS
  <2>6. new \in {Empty, Bound(e, l, OnDisk(cell', e, l))}
    BY <2>5, Zenon
  <2>7. CASE buf[b].dirty /\ ~gone(buf[b].dev)
    <3>1. writeback(b, written, after)
      BY <2>2, <2>7, Zenon
    <3>20. buf[b].valid /\ buf[b].dirty
      BY <2>4, <2>7, Zenon
    <3>21. PICK W : WroteBack(b, written, after, W)
      <4>1. written \in BOOLEAN
        BY <2>2, Zenon
      <4> QED
        BY <1>1, <2>3, <3>1, <3>20, <4>1, WritebackWrites, ZenonT(60)
    <3>2. /\ Wrote(W)
          /\ written => b \in W /\ after = Cleaned(W)
          /\ ~written /\ ~gone(buf[b].dev) => after = buf
      BY <3>21, Zenon DEF WroteBack
    <3>3. CASE ~written
      BY <1>2, <2>2, <2>7, <3>2, <3>3, ZenonT(60)
    <3>4. CASE written
      <4>1. buf' = [Cleaned(W) EXCEPT ![b] = new]
        BY <2>2, <2>5, <3>2, <3>4, ZenonT(60)
      <4> QED
        BY <1>0, <2>3, <2>6, <3>2, <3>4, <4>1, TakenStep, ZenonT(60)
    <3> QED
      BY <3>3, <3>4, Zenon
  <2>8. CASE ~(buf[b].dirty /\ ~gone(buf[b].dev))
    <3>1. written /\ after = buf /\ cell' = cell
      BY <2>2, <2>8, Zenon
    <3>2. buf' = [Cleaned({}) EXCEPT ![b] = new]
      BY <1>1, <2>2, <2>5, <3>1, CleanedNone, ZenonT(60)
    <3>3. Wrote({})
      BY <1>1, <3>1, NothingWritten, ZenonT(60)
    <3> QED
      BY <1>0, <2>3, <2>6, <2>8, <3>2, <3>3, TakenStep, ZenonT(60)
  <2> QED
    BY <2>7, <2>8, Zenon
<1> QED
    BY <1>3, <1>4, Zenon

\* put() gives the lock back, and the buffer is dirty if it was changed.
LEMMA PutStep ==
    ASSUME CacheInv, NEW b \in Bufs, put(b)
    PROVE  CacheInv' /\ \E W : Moves(W)
<1>0. /\ op = Idle /\ op' = op /\ dev' = dev /\ present' = present /\ stable' = stable
      /\ cell' = cell /\ changed' = changed \ {b} /\ b \in Locked
      /\ buf' = [buf EXCEPT ![b].dirty = @ \/ b \in changed, ![b].refcnt = @ - 1]
    BY Zenon DEF put, deviceVars
<1>1. FileInv /\ buf \in [Bufs -> Descriptor] /\ cell \in Image /\ changed \subseteq Locked
    BY Zenon DEF CacheInv, Types, CacheTypes, DeviceTypes, LockInv
<1>2. buf[b] \in Descriptor /\ buf[b].refcnt > 0 /\ buf[b].valid
    BY <1>0, <1>1, InvalidFacts DEF Locked
<1>30. PICK q \in BOOLEAN : q = (buf[b].dirty \/ b \in changed)
    BY Zenon
<1>3. PICK new : new = [buf[b] EXCEPT !.dirty = @ \/ b \in changed, !.refcnt = @ - 1]
    OBVIOUS
<1>31. new = [buf[b] EXCEPT !.dirty = q, !.refcnt = buf[b].refcnt - 1]
  <2>1. q = (buf[b].dirty \/ b \in changed)
    BY <1>30, Zenon
  <2> QED
    BY <1>3, <2>1, Zenon
<1>4. /\ new \in Descriptor /\ new.valid = buf[b].valid /\ new.dev = buf[b].dev
      /\ new.lba = buf[b].lba /\ new.data = buf[b].data /\ new.dirty = q
  <2>1. PICK n \in Nat : n = buf[b].refcnt - 1
    BY <1>2 DEF Descriptor
  <2>2. new = [buf[b] EXCEPT !.dirty = q, !.refcnt = n]
    BY <1>31, <2>1, Zenon
  <2>3. PICK r : r = [buf[b] EXCEPT !.dirty = q]
    BY Zenon
  <2>4. /\ r \in Descriptor /\ r.valid = buf[b].valid /\ r.dev = buf[b].dev
        /\ r.lba = buf[b].lba /\ r.data = buf[b].data /\ r.dirty = q
    BY <1>2, <2>3, ZenonT(60) DEF Descriptor
  <2>5. new = [r EXCEPT !.refcnt = n]
    BY <2>2, <2>3, Zenon
  <2>6. /\ new \in Descriptor /\ new.valid = r.valid /\ new.dev = r.dev
        /\ new.lba = r.lba /\ new.data = r.data /\ new.dirty = r.dirty
    BY <2>4, <2>5 DEF Descriptor
  <2> QED
    BY <2>4, <2>6, Zenon
<1>5. buf' = [buf EXCEPT ![b] = new]
    BY <1>0, <1>1, <1>3, ZenonT(60)
<1>6. buf' \in [Bufs -> Descriptor] /\ buf'[b] = new /\ \A x \in Bufs : x # b => buf'[x] = buf[x]
    BY <1>1, <1>4, <1>5, ZenonT(60)
<1>7. \A x \in Bufs : Kept(x) /\ buf'[x].data = buf[x].data
    BY <1>2, <1>4, <1>6, ZenonT(60) DEF Kept
<1>8. FileInv'
    BY <1>0, <1>1, <1>7, FilesKept, ZenonT(60) DEF SameDevice
<1>9. changed' \subseteq Locked'
    BY <1>0, <1>1, <1>6, Zenon DEF Locked
<1>10. CacheInv'
    BY <1>0, <1>1, <1>6, <1>8, <1>9, QuietStep, ZenonT(60)
<1>11. ASSUME NEW x \in Bufs PROVE Follows(x, {})
  <2>1. ~buf'[x].dirty /\ x \notin changed' => ~buf[x].dirty /\ x \notin changed
    BY <1>0, <1>30, <1>4, <1>6, ZenonT(60)
  <2> QED
    BY <1>0, <1>7, <2>1, QuietFollows, ZenonT(60)
<1>12. Moves({})
    BY <1>0, <1>1, <1>11, NothingWritten, Zenon DEF Moves
<1> QED
    BY <1>10, <1>12, Zenon

\* A client changes what it has locked.
LEMMA ChangeStep ==
    ASSUME CacheInv, NEW b \in Bufs, NEW v \in Data, Change(b, v)
    PROVE  /\ CacheInv'
           /\ \A x \in Bufs : /\ Kept(x) /\ buf'[x].dirty = buf[x].dirty
                              /\ (x \in Locked)' <=> x \in Locked
                              /\ x # b => buf'[x].data = buf[x].data
           /\ buf'[b].data = IF buf[b].data = Junk THEN Junk ELSE v
<1>0. /\ op = Idle /\ op' = op /\ dev' = dev /\ present' = present /\ stable' = stable
      /\ cell' = cell /\ changed' = changed \cup {b} /\ b \in Locked
      /\ buf' = [buf EXCEPT ![b].data = IF @ = Junk THEN Junk ELSE v]
    BY Zenon DEF Change, deviceVars
<1>1. FileInv /\ buf \in [Bufs -> Descriptor] /\ cell \in Image /\ changed \subseteq Locked
    BY Zenon DEF CacheInv, Types, CacheTypes, DeviceTypes, LockInv
<1>2. buf[b] \in Descriptor /\ buf[b].valid
    BY <1>0, <1>1, InvalidFacts, Zenon
<1>3. PICK w \in Data \cup {Junk} : w = IF buf[b].data = Junk THEN Junk ELSE v
    BY Zenon
<1>4. PICK new : new = [buf[b] EXCEPT !.data = w]
    BY Zenon
<1>5. /\ new \in Descriptor /\ new.valid = buf[b].valid /\ new.dev = buf[b].dev
      /\ new.lba = buf[b].lba /\ new.data = w /\ new.dirty = buf[b].dirty
      /\ new.refcnt = buf[b].refcnt
    BY <1>2, <1>4, Zenon DEF Descriptor
<1>6. buf' = [buf EXCEPT ![b] = new]
    BY <1>0, <1>3, <1>4, ZenonT(60)
<1>7. buf' \in [Bufs -> Descriptor] /\ buf'[b] = new /\ \A x \in Bufs : x # b => buf'[x] = buf[x]
    BY <1>1, <1>5, <1>6, ZenonT(60)
<1>8. \A x \in Bufs : /\ Kept(x) /\ buf'[x].dirty = buf[x].dirty
                      /\ buf'[x].refcnt = buf[x].refcnt
                      /\ x # b => buf'[x].data = buf[x].data
    BY <1>2, <1>5, <1>7, ZenonT(60) DEF Kept
<1>9. FileInv'
    BY <1>0, <1>1, <1>8, FilesKept, Zenon DEF SameDevice
<1>10. \A x \in Bufs : (x \in Locked)' <=> x \in Locked
    BY <1>8, Zenon DEF Locked
<1>11. changed' \subseteq Locked'
    BY <1>0, <1>1, <1>10, ZenonT(60) DEF Locked
<1>12. CacheInv'
    BY <1>0, <1>1, <1>7, <1>9, <1>11, QuietStep, ZenonT(60)
<1> QED
    BY <1>3, <1>5, <1>7, <1>8, <1>10, <1>12, ZenonT(60)

-----------------------------------------------------------------------------
(* get_range().                                                            *)

\* The fields of a range call.
LEMMA RangeFields ==
    ASSUME CacheInv, op.call = "range"
    PROVE  /\ op \in RangeOp /\ op.dev \in Entries /\ op.first \in Nat /\ op.count \in Nat
           /\ op.out \in Seq(Bufs) /\ op.missed \subseteq Nat
           /\ Len(op.out) \in Nat /\ DOMAIN op.out = 1 .. Len(op.out)
           /\ Mountable(op.dev) /\ changed = {}
<1>1. op \in RangeOp
    BY OpKinds, ZenonT(60) DEF CacheInv, Types, CacheTypes
<1>2. Mountable(op.dev) /\ changed = {}
    BY DEF CacheInv, RangeInv, LockInv
<1> QED
    BY <1>1, <1>2 DEF RangeOp

\* What a range call knows of a buffer it has locked.
LEMMA OutFacts ==
    ASSUME CacheInv, op.call = "range", NEW x \in Range(op.out)
    PROVE  /\ x \in Bufs /\ buf[x].valid /\ buf[x].refcnt > 0 /\ x \in Locked
           /\ buf[x].dev = op.dev
           /\ op.first <= buf[x].lba /\ buf[x].lba < op.first + Len(op.out)
           /\ buf[x].lba \in op.missed => ~buf[x].dirty /\ buf[x].data = Junk
           /\ \E i \in DOMAIN op.out : x = op.out[i] /\ buf[x].lba = op.first + i - 1
<1>1. PICK i \in DOMAIN op.out : x = op.out[i]
    BY DEF Range
<1>2. /\ buf[x].valid /\ buf[x].dev = op.dev /\ buf[x].lba = op.first + i - 1 /\ buf[x].refcnt > 0
      /\ buf[x].lba \in op.missed => ~buf[x].dirty /\ buf[x].data = Junk
    BY <1>1, Zenon DEF CacheInv, RangeInv
<1>3. x \in Bufs
    BY <1>1, RangeFields, SeqElement, ZenonT(60)
<1>4. op.first <= buf[x].lba /\ buf[x].lba < op.first + Len(op.out)
    BY <1>1, <1>2, RangeFields
<1> QED
    BY <1>1, <1>2, <1>3, <1>4, ZenonT(60) DEF Locked

\* The parts of the invariant that hold again at once when a step of a call
\* leaves the registry alone.
LEMMA CallStep ==
    ASSUME CacheInv, dev' = dev, present' = present, stable' \in Image,
           cell' \in Image, buf' \in [Bufs -> Descriptor], changed' = changed,
           FileInv', OpType', RangeInv', FlushInv', LockInv'
    PROVE  CacheInv'
<1>1. RegistryInv'
    BY RegistryStays, Zenon DEF CacheInv, Types
<1>2. Types'
    BY Zenon DEF CacheInv, Types, DeviceTypes, CacheTypes
<1> QED
    BY <1>1, <1>2, Zenon DEF CacheInv

\* A range call begins without locks and without buffers.
LEMMA RangeStartStep ==
    ASSUME CacheInv, NEW e, Mountable(e), NEW l \in Sectors(e), NEW n, RangeStart(e, l, n)
    PROVE  CacheInv' /\ \E W : Moves(W)
<1>0. /\ op = Idle /\ Locked = {} /\ n \in 1 .. MaxRange /\ l + n <= dev[e].count
      /\ op' = [call |-> "range", dev |-> e, first |-> l, count |-> n, out |-> <<>>, missed |-> {}]
      /\ dev' = dev /\ present' = present /\ stable' = stable /\ cell' = cell
      /\ buf' = buf /\ changed' = changed
    BY DEF RangeStart, LocksFree, deviceVars
<1>1. /\ Types /\ DeviceTypes /\ FileInv /\ RegistryInv /\ cell \in Image /\ stable \in Image
      /\ buf \in [Bufs -> Descriptor] /\ changed \subseteq Locked
    BY ZenonT(60) DEF CacheInv, Types, CacheTypes, DeviceTypes, LockInv
<1>2. e \in Entries /\ e \in Registered /\ l \in Nat /\ n \in Nat
    BY <1>0, <1>1, SectorsAreLbas, CacheAssumption, SMTT(60) DEF Mountable, Registered
<1>3. /\ op'.call = "range" /\ op'.dev = e /\ op'.first = l /\ op'.count = n
      /\ op'.out = <<>> /\ op'.missed = {} /\ op' \in RangeOp
    BY <1>0, <1>2 DEF RangeOp
<1>4. OpType'
    BY <1>3, Zenon DEF OpType
<1>5. Mountable(e)'
    BY <1>0, Zenon DEF Mountable, Registered, Whole
<1>6. RangeInv'
  <2>1. Mountable(op.dev)'
    BY <1>3, <1>5, Zenon DEF Mountable, Registered, Whole
  <2>2. Len(op'.out) = 0 /\ DOMAIN op'.out = {}
    BY <1>3
  <2>3. op'.first + op'.count <= dev'[op'.dev].count /\ Len(op'.out) <= op'.count
    BY <1>0, <1>2, <1>3, <2>2, SMTT(60)
  <2> QED
    BY <1>3, <2>1, <2>2, <2>3, ZenonT(60) DEF RangeInv
<1>7. FlushInv'
    BY <1>3 DEF FlushInv
<1>8. LockInv'
    BY <1>0, <1>1 DEF LockInv
<1>9. FileInv'
    BY <1>0, <1>1, FilesKept, Zenon DEF Kept, SameDevice
<1>10. CacheInv'
    BY <1>0, <1>1, <1>4, <1>6, <1>7, <1>8, <1>9, CallStep, ZenonT(60)
<1>11. ASSUME NEW x \in Bufs PROVE Follows(x, {})
  <2>1. ~Pending(x)
    BY <1>0, IdleCalls DEF Pending
  <2>2. Range(op'.out) = {}
    BY <1>3 DEF Range
  <2>3. ~Pending(x)'
    BY <2>2, Zenon DEF Pending
  <2>4. \A m, a : At(x, m, a)' <=> At(x, m, a)
    BY <1>0, StaysAt, Zenon DEF Kept
  <2> QED
    BY <1>0, <2>1, <2>3, <2>4, ZenonT(60) DEF Follows
<1>12. Moves({})
    BY <1>0, <1>1, <1>11, NothingWritten, ZenonT(60) DEF Moves
<1> QED
    BY <1>10, <1>12, ZenonT(60)

\* A range call gives up: it lets go of the buffers it has locked, and those
\* it missed hold nothing.
LEMMA AbortStep ==
    ASSUME CacheInv, op.call = "range", op' = Idle, dev' = dev, present' = present,
           stable' = stable, changed' = changed, NEW W, Wrote(W), NEW X,
           \A x \in X : x \in Bufs /\ buf[x].valid /\ buf[x].dirty
                        /\ (x \in W \/ gone(buf[x].dev)),
           buf' = [c \in Bufs |-> IF c \in Range(op.out)
                                  THEN [Cleaned(X)[c] EXCEPT !.refcnt = @ - 1] ELSE Cleaned(X)[c]]
    PROVE  CacheInv' /\ Moves(W)
<1>1. /\ Types /\ CacheTypes /\ FileInv /\ stable \in Image /\ buf \in [Bufs -> Descriptor]
    BY Zenon DEF CacheInv, Types, CacheTypes, DeviceTypes
<1>2. ASSUME NEW x \in Bufs
      PROVE  /\ buf'[x] \in Descriptor /\ Kept(x) /\ buf'[x].data = buf[x].data
             /\ ~buf'[x].dirty => ~buf[x].dirty \/ x \in X
  <2>1. /\ Cleaned(X)[x] \in Descriptor
        /\ Cleaned(X)[x].valid = buf[x].valid /\ Cleaned(X)[x].dev = buf[x].dev
        /\ Cleaned(X)[x].lba = buf[x].lba /\ Cleaned(X)[x].refcnt = buf[x].refcnt
        /\ Cleaned(X)[x].data = buf[x].data
        /\ x \notin X => Cleaned(X)[x] = buf[x]
    BY <1>1, CleanedFacts, ZenonT(60)
  <2>2. PICK c : c = Cleaned(X)[x]
    OBVIOUS
  <2>3. CASE x \in Range(op.out)
    <3>1. buf'[x] = [c EXCEPT !.refcnt = c.refcnt - 1]
      BY <2>2, <2>3, Zenon
    <3>2. buf[x].valid /\ c.refcnt > 0
      BY <2>1, <2>2, <2>3, OutFacts, Zenon
    <3>3. /\ buf'[x] \in Descriptor /\ buf'[x].valid = c.valid /\ buf'[x].dev = c.dev
          /\ buf'[x].lba = c.lba /\ buf'[x].data = c.data /\ buf'[x].dirty = c.dirty
      BY <2>1, <2>2, <3>1, <3>2, SMTT(60) DEF Descriptor
    <3> QED
      BY <2>1, <2>2, <3>2, <3>3, Zenon DEF Kept
  <2>4. CASE x \notin Range(op.out)
    <3>1. buf'[x] = c
      BY <2>2, <2>4, Zenon
    <3>2. ~buf[x].valid => x \notin X
      BY Zenon
    <3> QED
      BY <2>1, <2>2, <3>1, <3>2, ZenonT(60) DEF Kept
  <2> QED
    BY <2>3, <2>4, Zenon
<1>3. buf' \in [Bufs -> Descriptor]
  <2>1. buf' = [x \in Bufs |-> buf'[x]]
    BY Zenon
  <2> QED
    BY <1>2, <2>1, Zenon
<1>4. FileInv'
    BY <1>1, <1>2, FilesKept, ZenonT(60) DEF SameDevice
<1>5. changed' = {}
    BY RangeFields, Zenon
<1>6. OpType' /\ RangeInv' /\ FlushInv' /\ LockInv'
    BY <1>5, CallEnds, Zenon
<1>7. CacheInv'
    BY <1>1, <1>3, <1>4, <1>6, CallStep, ZenonT(60) DEF Wrote
<1>8. ASSUME NEW x \in Bufs PROVE Follows(x, W)
  <2>1. \A m, a : At(x, m, a)' <=> At(x, m, a)
    BY <1>2, StaysAt, Zenon
  <2>2. ~Pending(x)'
    BY IdleCalls DEF Pending
  <2>3. Pending(x) => buf'[x].data = Junk
    BY <1>2, OutFacts, ZenonT(60) DEF Pending
  <2>4. ~buf'[x].dirty => ~buf[x].dirty \/ x \in W \/ gone(buf[x].dev)
    BY <1>2, Zenon
  <2>5. x \notin changed
    BY <1>5, Zenon
  <2> QED
    BY <1>2, <2>1, <2>2, <2>3, <2>4, <2>5, ZenonT(60) DEF Follows
<1> QED
    BY <1>7, <1>8, Zenon DEF Moves

\* A range call goes on with buffer b for its next sector.
Takes(b, missed) == op' = [op EXCEPT !.out = Append(@, b), !.missed = missed]

\* What a range call's next step does to the sequence of its buffers.
LEMMA OutGrows ==
    ASSUME CacheInv, op.call = "range", Len(op.out) < op.count, NEW b \in Bufs,
           NEW missed \in SUBSET Nat, Takes(b, missed)
    PROVE  /\ op' \in RangeOp /\ op'.call = "range" /\ op'.dev = op.dev /\ op'.first = op.first
           /\ op'.count = op.count /\ op'.missed = missed
           /\ Len(op'.out) = Len(op.out) + 1 /\ Len(op'.out) <= op'.count
           /\ DOMAIN op'.out = 1 .. Len(op.out) + 1
           /\ \A i \in DOMAIN op.out : op'.out[i] = op.out[i]
           /\ op'.out[Len(op.out) + 1] = b
           /\ Range(op'.out) = Range(op.out) \cup {b}
<1>1. /\ op \in RangeOp /\ op.out \in Seq(Bufs) /\ Len(op.out) \in Nat /\ op.count \in Nat
      /\ DOMAIN op.out = 1 .. Len(op.out)
    BY RangeFields, Zenon
<1>2. PICK out : out = Append(op.out, b)
    BY Zenon
<1>3. /\ out \in Seq(Bufs) /\ Len(out) = Len(op.out) + 1
      /\ DOMAIN out = 1 .. Len(op.out) + 1
      /\ \A i \in 1 .. Len(op.out) : out[i] = op.out[i]
      /\ out[Len(op.out) + 1] = b
    BY <1>1, <1>2
<1>40. PICK mid : mid = [op EXCEPT !.out = out]
    BY Zenon
<1>41. op' = [mid EXCEPT !.missed = missed]
    BY <1>2, <1>40, ZenonT(60) DEF Takes
<1>42. /\ mid \in RangeOp /\ mid.call = op.call /\ mid.dev = op.dev /\ mid.first = op.first
       /\ mid.count = op.count /\ mid.out = out
    BY <1>1, <1>3, <1>40, SMTT(60) DEF RangeOp
<1>4. PICK new : new = [mid EXCEPT !.missed = missed]
    BY Zenon
<1>43. /\ new \in RangeOp /\ new.call = mid.call /\ new.dev = mid.dev /\ new.first = mid.first
       /\ new.count = mid.count /\ new.out = mid.out /\ new.missed = missed
    BY <1>4, <1>42 DEF RangeOp
<1>5. /\ op' \in RangeOp /\ op'.call = op.call /\ op'.dev = op.dev /\ op'.first = op.first
      /\ op'.count = op.count /\ op'.missed = missed /\ op'.out = out
    BY <1>4, <1>41, <1>42, <1>43, ZenonT(60)
<1>6. Len(out) <= op.count
    BY <1>1, <1>3
<1>7. Range(out) = Range(op.out) \cup {b}
  <2>1. ASSUME NEW x PROVE (\E i \in DOMAIN out : x = out[i]) <=> (x = b \/ \E i \in DOMAIN op.out : x = op.out[i])
    <3>1. Len(op.out) + 1 \in DOMAIN out /\ \A i \in DOMAIN op.out : i \in DOMAIN out
      BY <1>1, <1>3, SMTT(60)
    <3>2. \A i \in DOMAIN out : i = Len(op.out) + 1 \/ i \in DOMAIN op.out
      BY <1>1, <1>3
    <3> QED
      BY <1>1, <1>3, <3>1, <3>2, ZenonT(60)
  <2>2. \A x : /\ x \in Range(out) <=> \E i \in DOMAIN out : x = out[i]
               /\ x \in Range(op.out) <=> \E i \in DOMAIN op.out : x = op.out[i]
    BY Zenon DEF Range
  <2> QED
    BY <2>1, <2>2, ZenonT(60)
<1> QED
    BY <1>1, <1>3, <1>5, <1>6, <1>7, ZenonT(60)

\* The next sector of a range is one of the device's, and not one it missed.
LEMMA NextSector ==
    ASSUME CacheInv, op.call = "range", Len(op.out) < op.count
    PROVE  /\ op.first + Len(op.out) \in Sectors(op.dev)
           /\ op.first + Len(op.out) \in Nat
           /\ op.first + Len(op.out) \notin op.missed
<1>1. /\ op.first \in Nat /\ op.count \in Nat /\ Len(op.out) \in Nat /\ op.missed \subseteq Nat
      /\ op.dev \in Entries
    BY RangeFields, ZenonT(60)
<1>2. dev[op.dev].count \in Nat
    BY <1>1 DEF CacheInv, Types, DeviceTypes, Device
<1>3. op.first + op.count <= dev[op.dev].count
    BY Zenon DEF CacheInv, RangeInv
<1>4. \A l \in op.missed : l < op.first + Len(op.out)
    BY Zenon DEF CacheInv, RangeInv
<1> QED
    BY <1>1, <1>2, <1>3, <1>4, SMTT(60) DEF Sectors

\* Setting a field of a range call to what it is changes nothing.
LEMMA SameMissed ==
    ASSUME NEW o \in RangeOp PROVE [o EXCEPT !.missed = o.missed] = o
BY SMTT(60) DEF RangeOp

\* What a range call knows of its i-th buffer.
LEMMA OutEntry ==
    ASSUME CacheInv, op.call = "range", NEW i \in DOMAIN op.out, NEW x, x = op.out[i]
    PROVE  /\ buf[x].valid /\ buf[x].dev = op.dev /\ buf[x].lba = op.first + i - 1
           /\ buf[x].refcnt > 0
           /\ buf[x].lba \in op.missed => ~buf[x].dirty /\ buf[x].data = Junk
BY DEF CacheInv, RangeInv

\* The call in progress, after phase 1 of a range found or bound a buffer for
\* the next sector. What the range knows of the others is as it was.
LEMMA RangeGrows ==
    ASSUME CacheInv, op.call = "range", Len(op.out) < op.count,
           NEW b \in Bufs, b \notin Range(op.out), NEW missed \in SUBSET Nat, Takes(b, missed),
           dev' = dev, changed' = changed,
           op.missed \subseteq missed,
           missed \subseteq op.missed \cup {op.first + Len(op.out)},
           \A x \in Range(op.out) :
               /\ buf'[x].valid = buf[x].valid /\ buf'[x].dev = buf[x].dev
               /\ buf'[x].lba = buf[x].lba /\ buf'[x].refcnt = buf[x].refcnt
               /\ buf'[x].data = buf[x].data /\ (buf'[x].dirty => buf[x].dirty),
           buf'[b].valid, buf'[b].dev = op.dev, buf'[b].lba = op.first + Len(op.out),
           buf'[b].refcnt > 0,
           op.first + Len(op.out) \in missed => ~buf'[b].dirty /\ buf'[b].data = Junk
    PROVE  /\ OpType' /\ RangeInv' /\ FlushInv' /\ LockInv'
           /\ Pending(b)' <=> op.first + Len(op.out) \in missed
           /\ \A x \in Bufs : x # b => (Pending(x)' <=> Pending(x))
<1>1. /\ op' \in RangeOp /\ op'.call = "range" /\ op'.dev = op.dev /\ op'.first = op.first
      /\ op'.count = op.count /\ op'.missed = missed
      /\ Len(op'.out) = Len(op.out) + 1 /\ Len(op'.out) <= op'.count
      /\ DOMAIN op'.out = 1 .. Len(op.out) + 1
      /\ \A i \in DOMAIN op.out : op'.out[i] = op.out[i]
      /\ op'.out[Len(op.out) + 1] = b
      /\ Range(op'.out) = Range(op.out) \cup {b}
    BY OutGrows, Zenon
<1>2. /\ op.first \in Nat /\ op.count \in Nat /\ Len(op.out) \in Nat
      /\ DOMAIN op.out = 1 .. Len(op.out) /\ Mountable(op.dev) /\ changed = {}
    BY RangeFields, ZenonT(60)
<1>3. OpType'
    BY <1>1, ZenonT(60) DEF OpType
<1>4. FlushInv'
    BY <1>1 DEF FlushInv
<1>5. LockInv'
    BY <1>2, Zenon DEF LockInv
<1>6. Mountable(op.dev)'
    BY <1>1, <1>2, ZenonT(60) DEF Mountable, Registered, Whole
<1>7. op'.first + op'.count <= dev'[op'.dev].count
    BY <1>1, ZenonT(60) DEF CacheInv, RangeInv
<1>8. ASSUME NEW i \in DOMAIN op'.out
      PROVE  /\ buf'[op'.out[i]].valid /\ buf'[op'.out[i]].dev = op'.dev
             /\ buf'[op'.out[i]].lba = op'.first + i - 1 /\ buf'[op'.out[i]].refcnt > 0
             /\ buf'[op'.out[i]].lba \in op'.missed =>
                    ~buf'[op'.out[i]].dirty /\ buf'[op'.out[i]].data = Junk
  <2>1. CASE i = Len(op.out) + 1
    <3>1. op.first + Len(op.out) = op.first + i - 1
      BY <1>2, <2>1, SMTT(60)
    <3> QED
      BY <1>1, <2>1, <3>1, ZenonT(60)
  <2>2. CASE i # Len(op.out) + 1
    <3>1. i \in DOMAIN op.out
      BY <1>1, <1>2, <2>2, SMTT(60)
    <3>2. PICK x : x = op.out[i] /\ x = op'.out[i]
      BY <1>1, <3>1, ZenonT(60)
    <3>3. x \in Range(op.out)
      BY <3>1, <3>2, Zenon DEF Range
    <3>4. /\ buf[x].valid /\ buf[x].dev = op.dev /\ buf[x].lba = op.first + i - 1 /\ buf[x].refcnt > 0
          /\ buf[x].lba \in op.missed => ~buf[x].dirty /\ buf[x].data = Junk
      BY <3>1, <3>2, OutEntry, ZenonT(60)
    <3>5. op.first + i - 1 # op.first + Len(op.out)
      BY <1>2, <2>2, <3>1
    <3>6. /\ buf'[x].valid /\ buf'[x].dev = op'.dev
          /\ buf'[x].lba = op'.first + i - 1 /\ buf'[x].refcnt > 0
      BY <1>1, <3>3, <3>4, ZenonT(60)
    <3>7. buf'[x].lba \in op'.missed => ~buf'[x].dirty /\ buf'[x].data = Junk
      BY <1>1, <3>3, <3>4, <3>5, ZenonT(60)
    <3>8. op'.out[i] = x
      BY <3>2, Zenon
    <3> QED
      BY <3>6, <3>7, <3>8, SMTT(60)
  <2> QED
    BY <2>1, <2>2, ZenonT(60)
<1>9. ASSUME NEW l \in op'.missed PROVE op'.first <= l /\ l < op'.first + Len(op'.out)
  <2>1. CASE l \in op.missed
    <3>1. op.first <= l /\ l < op.first + Len(op.out) /\ l \in Nat
      BY <2>1, RangeFields, ZenonT(60) DEF CacheInv, RangeInv
    <3> QED
      BY <1>1, <1>2, <3>1, SMTT(60)
  <2>2. CASE l = op.first + Len(op.out)
    BY <1>1, <1>2, <2>2, SMTT(60)
  <2> QED
    BY <1>1, <2>1, <2>2, ZenonT(60)
<1>10. RangeInv'
    BY <1>1, <1>6, <1>7, <1>8, <1>9, ZenonT(60) DEF RangeInv
<1>11. Pending(b)' <=> op.first + Len(op.out) \in missed
    BY <1>1, ZenonT(60) DEF Pending
<1>12. ASSUME NEW x \in Bufs, x # b PROVE Pending(x)' <=> Pending(x)
  <2>1. CASE x \in Range(op.out)
    <3>1. buf[x].lba # op.first + Len(op.out)
      <4>1. buf[x].lba < op.first + Len(op.out)
        BY <2>1, OutFacts, Zenon
      <4> QED
        BY <1>2, <4>1
    <3> QED
      BY <1>1, <2>1, <3>1, ZenonT(60) DEF Pending
  <2>2. CASE x \notin Range(op.out)
    BY <1>1, <1>12, <2>2, ZenonT(60) DEF Pending
  <2> QED
    BY <2>1, <2>2, Zenon
<1> QED
    BY <1>3, <1>4, <1>5, <1>10, <1>11, <1>12, ZenonT(60)

\* Phase 1 finds the next sector in the cache.
LEMMA RangeHitStep ==
    ASSUME CacheInv, op.call = "range", Len(op.out) < op.count,
           NEW b \in find_buffer(op.dev, op.first + Len(op.out)),
           buf' = [buf EXCEPT ![b].refcnt = @ + 1], Takes(b, op.missed),
           cell' = cell, dev' = dev, present' = present, stable' = stable, changed' = changed
    PROVE  CacheInv' /\ Moves({})
<1>1. /\ FileInv /\ buf \in [Bufs -> Descriptor] /\ cell \in Image /\ stable \in Image
      /\ b \in Bufs /\ buf[b].valid /\ buf[b].dev = op.dev /\ buf[b].lba = op.first + Len(op.out)
    BY Zenon DEF CacheInv, Types, CacheTypes, DeviceTypes, find_buffer
<1>2. ASSUME NEW x \in Bufs
      PROVE  /\ buf'[x] \in Descriptor /\ buf'[x].data = buf[x].data /\ buf'[x].dirty = buf[x].dirty
             /\ buf'[x].valid = buf[x].valid /\ buf'[x].dev = buf[x].dev
             /\ buf'[x].lba = buf[x].lba
             /\ x # b => buf'[x] = buf[x]
             /\ buf'[b].refcnt > 0
  <2>1. PICK n \in Nat : n = buf[b].refcnt + 1 /\ n > 0
    BY <1>1 DEF Descriptor
  <2>2. PICK new : new = [buf[b] EXCEPT !.refcnt = n]
    BY Zenon
  <2>3. buf' = [buf EXCEPT ![b] = new]
    BY <2>1, <2>2, Zenon
  <2>4. buf[b] \in Descriptor /\ buf[x] \in Descriptor
    BY <1>1, Zenon
  <2>5. /\ new \in Descriptor /\ new.data = buf[b].data /\ new.dirty = buf[b].dirty
        /\ new.valid = buf[b].valid /\ new.dev = buf[b].dev /\ new.lba = buf[b].lba
        /\ new.refcnt = n
    BY <2>2, <2>4 DEF Descriptor
  <2>6. buf'[b] = new /\ (x # b => buf'[x] = buf[x])
    BY <1>1, <2>3, Zenon
  <2>7. buf'[b].refcnt > 0
    BY <2>1, <2>5, <2>6, ZenonT(60)
  <2>8. CASE x = b
    BY <2>5, <2>6, <2>7, <2>8, ZenonT(60)
  <2>9. CASE x # b
    BY <2>4, <2>6, <2>7, <2>9, ZenonT(60)
  <2> QED
    BY <2>8, <2>9, Zenon
<1>3. \A x \in Bufs : Kept(x)
    BY <1>1, <1>2, Zenon DEF Kept
<1>4. FileInv'
    BY <1>1, <1>3, FilesKept, ZenonT(60) DEF SameDevice
<1>5. buf' \in [Bufs -> Descriptor]
    BY <1>1, <1>2
<1>6. /\ op.missed \in SUBSET Nat /\ op.first + Len(op.out) \notin op.missed
      /\ op.first + Len(op.out) \in Nat
    BY RangeFields, NextSector, ZenonT(60)
<1>7. b \notin Range(op.out)
  <2> SUFFICES ASSUME b \in Range(op.out) PROVE FALSE
    BY Zenon
  <2>1. buf[b].lba < op.first + Len(op.out)
    BY OutFacts, Zenon
  <2> QED
    BY <1>1, <1>6, <2>1
<1>8. \A x \in Range(op.out) :
          /\ buf'[x].valid = buf[x].valid /\ buf'[x].dev = buf[x].dev
          /\ buf'[x].lba = buf[x].lba /\ buf'[x].refcnt = buf[x].refcnt
          /\ buf'[x].data = buf[x].data /\ (buf'[x].dirty => buf[x].dirty)
  <2>1. \A x \in Range(op.out) : x \in Bufs /\ x # b
    BY <1>7, OutFacts, Zenon
  <2> QED
    BY <1>2, <2>1, Zenon
<1>9. buf'[b].valid /\ buf'[b].dev = op.dev /\ buf'[b].lba = op.first + Len(op.out) /\ buf'[b].refcnt > 0
    BY <1>1, <1>2, Zenon
<1>10. /\ OpType' /\ RangeInv' /\ FlushInv' /\ LockInv' /\ ~Pending(b)'
       /\ \A x \in Bufs : x # b => (Pending(x)' <=> Pending(x))
  <2> HIDE DEF Takes
  <2> QED
    BY <1>1, <1>6, <1>7, <1>8, <1>9, RangeGrows, ZenonT(60)
<1>11. CacheInv'
    BY <1>1, <1>4, <1>5, <1>10, CallStep, ZenonT(60)
<1>12. ASSUME NEW x \in Bufs PROVE Follows(x, {})
  <2>1. \A m, a : At(x, m, a)' <=> At(x, m, a)
    BY <1>3, StaysAt, ZenonT(60)
  <2>2. Pending(x)' <=> Pending(x)
    BY <1>7, <1>10, ZenonT(60) DEF Pending
  <2> QED
    BY <1>2, <2>1, <2>2, ZenonT(60) DEF Follows
<1> QED
    BY <1>1, <1>11, <1>12, NothingWritten, ZenonT(60) DEF Moves

\* Phase 1 binds a buffer nobody has locked to the next sector.
LEMMA RangeBindStep ==
    ASSUME CacheInv, op.call = "range", Len(op.out) < op.count,
           find_buffer(op.dev, op.first + Len(op.out)) = {},
           NEW W, Wrote(W), NEW b \in Bufs, b \notin Locked,
           buf[b].dirty => b \in W,
           buf' = [Cleaned(W) EXCEPT ![b] = Bound(op.dev, op.first + Len(op.out), Junk)],
           Takes(b, op.missed \cup {op.first + Len(op.out)}),
           dev' = dev, present' = present, stable' = stable, changed' = changed
    PROVE  CacheInv' /\ Moves(W)
<1>1. CacheTypes /\ FileInv /\ stable \in Image /\ cell' \in Image
    BY Zenon DEF CacheInv, Types, DeviceTypes, Wrote
<1>2. /\ op.missed \in SUBSET Nat /\ op.dev \in Entries /\ Mountable(op.dev)
      /\ op.first + Len(op.out) \in Nat /\ op.first + Len(op.out) \in Sectors(op.dev)
      /\ changed = {}
    BY RangeFields, NextSector, Zenon
<1>3. PICK l \in Nat : l = op.first + Len(op.out)
    BY <1>2, Zenon
<1>4. PICK new : new = Bound(op.dev, l, Junk)
    BY Zenon
<1>5. PICK e \in Entries : e = op.dev
    BY <1>2, Zenon
<1>6. /\ new \in Descriptor /\ new.valid /\ new.dev = op.dev /\ new.lba = l /\ ~new.dirty
      /\ new.data = Junk /\ new.refcnt > 0
  <2>1. Junk \in Data \cup {Junk} /\ new = Bound(e, l, Junk)
    BY <1>4, <1>5, ZenonT(60)
  <2>2. /\ new \in Descriptor /\ new.valid /\ new.dev = e /\ new.lba = l /\ ~new.dirty
        /\ new.data = Junk /\ new.refcnt = 1
    BY <2>1, BoundFacts, SMTT(60)
  <2>3. new.refcnt > 0
    BY <2>2
  <2> QED
    BY <1>5, <2>2, <2>3, ZenonT(60)
<1>7. buf' = [Cleaned(W) EXCEPT ![b] = new]
    BY <1>3, <1>4, Zenon
<1>8. buf' \in [Bufs -> Descriptor] /\ buf'[b] = new
  <2>1. new \in Descriptor
    BY <1>6, Zenon
  <2> QED
    BY <1>1, <1>7, <2>1, TakenFacts, ZenonT(60)
<1>9. ASSUME NEW x \in Bufs, x # b
      PROVE  /\ buf'[x].valid = buf[x].valid /\ buf'[x].dev = buf[x].dev
             /\ buf'[x].lba = buf[x].lba /\ buf'[x].refcnt = buf[x].refcnt
             /\ buf'[x].data = buf[x].data
             /\ x \in W => ~buf'[x].dirty
             /\ x \notin W => buf'[x] = buf[x]
  <2>1. buf'[x] = Cleaned(W)[x]
    BY <1>1, <1>6, <1>7, <1>9, TakenFacts, ZenonT(60)
  <2> QED
    BY <1>1, <2>1, CleanedOne, ZenonT(60)
<1>10. ASSUME NEW x \in Bufs, x # b PROVE Kept(x)
  <2>1. ~buf[x].valid => x \notin W
    BY Zenon DEF Wrote
  <2> QED
    BY <1>9, <1>10, <2>1, Zenon DEF Kept
<1>11. FileInv'
    BY <1>1, <1>2, <1>3, <1>6, <1>8, <1>10, FilesBound, Zenon
<1>12. b \notin Range(op.out)
    BY OutFacts, Zenon
<1>13. \A x \in Range(op.out) :
          /\ buf'[x].valid = buf[x].valid /\ buf'[x].dev = buf[x].dev
          /\ buf'[x].lba = buf[x].lba /\ buf'[x].refcnt = buf[x].refcnt
          /\ buf'[x].data = buf[x].data /\ (buf'[x].dirty => buf[x].dirty)
  <2>1. \A x \in Range(op.out) : x \in Bufs /\ x # b
    BY <1>12, OutFacts, Zenon
  <2> QED
    BY <1>9, <2>1, Zenon
<1>14. PICK missed \in SUBSET Nat : missed = op.missed \cup {l}
    BY <1>2, Zenon
<1>15. Takes(b, missed)
    BY <1>3, <1>14, Zenon
<1>16. /\ OpType' /\ RangeInv' /\ FlushInv' /\ LockInv' /\ Pending(b)'
       /\ \A x \in Bufs : x # b => (Pending(x)' <=> Pending(x))
  <2>1. l \in missed /\ op.missed \subseteq missed /\ missed \subseteq op.missed \cup {l}
    BY <1>14, Zenon
  <2>2. /\ buf'[b].valid /\ buf'[b].dev = op.dev /\ buf'[b].lba = op.first + Len(op.out)
        /\ buf'[b].refcnt > 0 /\ ~buf'[b].dirty /\ buf'[b].data = Junk
    BY <1>3, <1>6, <1>8, ZenonT(60)
  <2>3. /\ op.first + Len(op.out) \in missed /\ op.missed \subseteq missed
        /\ missed \subseteq op.missed \cup {op.first + Len(op.out)}
    BY <1>3, <2>1, ZenonT(60)
  <2> QED
    BY <1>12, <1>13, <1>15, <2>2, <2>3, RangeGrows, ZenonT(60)
<1>17. CacheInv'
    BY <1>1, <1>8, <1>11, <1>16, CallStep, ZenonT(60)
<1>18. ASSUME NEW x \in Bufs, x # b PROVE Follows(x, W)
  <2>1. \A m, a : At(x, m, a)' <=> At(x, m, a)
    BY <1>10, <1>18, StaysAt, ZenonT(60)
  <2>2. Pending(x)' <=> Pending(x)
    BY <1>16, <1>18, ZenonT(60)
  <2>3. x \notin changed
    BY <1>2, Zenon
  <2> QED
    BY <1>9, <1>18, <2>1, <2>2, <2>3, ZenonT(60) DEF Follows
<1>19. Leaves(b, W)
  <2>1. ~Pending(b)
    BY <1>12, Zenon DEF Pending
  <2>2. b \notin changed
    BY <1>2, ZenonT(60)
  <2>3. find_buffer(buf'[b].dev, buf'[b].lba) = {}
    BY <1>3, <1>6, <1>8, ZenonT(60)
  <2> QED
    BY <1>16, <2>1, <2>2, <2>3, ZenonT(60) DEF Leaves
<1> QED
    BY <1>17, <1>18, <1>19, ZenonT(60) DEF Moves

\* A range call with another sequence of buffers.
LEMMA OutFields ==
    ASSUME CacheInv, op.call = "range", NEW b \in Bufs
    PROVE  /\ [op EXCEPT !.out = Append(@, b)] \in RangeOp
           /\ [op EXCEPT !.out = Append(@, b)].missed = op.missed
<1>1. op \in RangeOp /\ op.out \in Seq(Bufs)
    BY RangeFields, Zenon
<1>2. PICK out : out = Append(op.out, b)
    BY Zenon
<1>3. out \in Seq(Bufs)
    BY <1>1, <1>2
<1>4. [op EXCEPT !.out = out] \in RangeOp /\ [op EXCEPT !.out = out].missed = op.missed
    BY <1>1, <1>3, SMTT(60) DEF RangeOp
<1> QED
    BY <1>2, <1>4, Zenon

\* A range call gives up without having written anything.
LEMMA GiveUpStep ==
    ASSUME CacheInv, op.call = "range", buf' = Unlocked(Range(op.out)), op' = Idle,
           dev' = dev, present' = present, stable' = stable, changed' = changed, cell' = cell
    PROVE  CacheInv' /\ Moves({})
<1>0. CacheTypes /\ cell \in Image
    BY Zenon DEF CacheInv, Types, DeviceTypes
<1>1. buf' = [c \in Bufs |-> IF c \in Range(op.out)
                             THEN [Cleaned({})[c] EXCEPT !.refcnt = @ - 1] ELSE Cleaned({})[c]]
    BY <1>0, CleanedNone, ZenonT(60) DEF Unlocked
<1>2. Wrote({})
    BY <1>0, NothingWritten, ZenonT(60)
<1>3. PICK X : X = {}
    BY Zenon
<1>4. \A x \in X : x \in Bufs /\ buf[x].valid /\ buf[x].dirty /\ (x \in X \/ gone(buf[x].dev))
    BY <1>3, Zenon
<1>5. /\ Wrote(X)
      /\ buf' = [c \in Bufs |-> IF c \in Range(op.out)
                             THEN [Cleaned(X)[c] EXCEPT !.refcnt = @ - 1] ELSE Cleaned(X)[c]]
    BY <1>1, <1>2, <1>3, ZenonT(60)
<1>6. CacheInv' /\ Moves(X)
    BY <1>4, <1>5, AbortStep, ZenonT(60)
<1> QED
    BY <1>3, <1>6, Zenon

\* A step of phase 1 of get_range().
LEMMA RangeLockStep ==
    ASSUME CacheInv, RangeLock
    PROVE  CacheInv' /\ \E W : Moves(W)
<1>0. /\ op.call = "range" /\ Len(op.out) < op.count
      /\ dev' = dev /\ present' = present /\ stable' = stable /\ changed' = changed
    BY Zenon DEF RangeLock
<1>1. /\ Types /\ CacheTypes /\ RegistryInv /\ FileInv /\ cell \in Image
    BY Zenon DEF CacheInv, Types, DeviceTypes
<1> DEFINE l == op.first + Len(op.out)
           Out(b) == [op EXCEPT !.out = Append(@, b)]
           Bind(b, written, after) ==
               /\ IF buf[b].dirty
                  THEN writeback(b, written, after)
                  ELSE written /\ after = buf /\ UNCHANGED cell
               /\ IF written
                  THEN /\ buf' = [after EXCEPT ![b] = Bound(op.dev, l, Junk)]
                       /\ op' = [Out(b) EXCEPT !.missed = @ \cup {l}]
                  ELSE /\ buf' = [c \in Bufs |-> IF c \in Range(op.out)
                                     THEN [after[c] EXCEPT !.refcnt = @ - 1] ELSE after[c]]
                       /\ op' = Idle
<1>2. \/ \E b \in find_buffer(op.dev, l) :
            buf' = [buf EXCEPT ![b].refcnt = @ + 1] /\ op' = Out(b) /\ cell' = cell
      \/ buf' = Unlocked(Range(op.out)) /\ op' = Idle /\ cell' = cell
      \/ /\ find_buffer(op.dev, l) = {}
         /\ \E b \in pick_victim, written \in BOOLEAN :
            \E after \in {buf, Cleaned({b}), Cleaned(RunOf(b))} : Bind(b, written, after)
    BY Zenon DEF RangeLock
<1>3. ASSUME NEW b \in find_buffer(op.dev, l),
             buf' = [buf EXCEPT ![b].refcnt = @ + 1], op' = Out(b), cell' = cell
      PROVE  CacheInv' /\ Moves({})
  <2>1. b \in Bufs
    BY Zenon DEF find_buffer
  <2>2. Out(b) \in RangeOp /\ Out(b).missed = op.missed
    BY <1>0, <2>1, OutFields, ZenonT(60)
  <2>3. op' = [Out(b) EXCEPT !.missed = Out(b).missed]
    BY <1>3, <2>2, SameMissed, ZenonT(60)
  <2>4. Takes(b, op.missed)
    BY <2>2, <2>3, Zenon DEF Takes
  <2> QED
    BY <1>0, <1>3, <2>4, RangeHitStep, ZenonT(60)
<1>4. ASSUME buf' = Unlocked(Range(op.out)), op' = Idle, cell' = cell
      PROVE  CacheInv' /\ Moves({})
  BY <1>0, <1>4, GiveUpStep, ZenonT(60)
<1>5. ASSUME find_buffer(op.dev, l) = {}, NEW b \in pick_victim, NEW written \in BOOLEAN, NEW after,
             Bind(b, written, after)
      PROVE  CacheInv' /\ \E W : Moves(W)
  <2>1. b \in Bufs /\ b \notin Locked
    BY <1>1, VictimFacts, ZenonT(60)
  <2>2. buf[b].dirty => buf[b].valid
    BY <1>1, <2>1, InvalidFacts, ZenonT(60)
  <2>3. PICK W : /\ Wrote(W)
                 /\ written => after = Cleaned(W) /\ (buf[b].dirty => b \in W)
                 /\ ~written => \E X : /\ after = Cleaned(X)
                                       /\ \A x \in X : x \in Bufs /\ buf[x].valid /\ buf[x].dirty
                                                       /\ (x \in W \/ gone(buf[x].dev))
    <3>1. CASE buf[b].dirty
      <4>1. writeback(b, written, after)
        BY <1>5, <3>1, ZenonT(60)
      <4>2. buf[b].valid
        BY <2>2, <3>1, ZenonT(60)
      <4>3. PICK W : WroteBack(b, written, after, W)
        BY <1>1, <2>1, <3>1, <4>1, <4>2, WritebackWrites, ZenonT(60)
      <4>4. ~written /\ gone(buf[b].dev) => after = Cleaned({b})
        BY <4>3, Zenon DEF WroteBack
      <4>5. ~written /\ ~gone(buf[b].dev) => after = Cleaned({})
        BY <1>1, <4>3, CleanedNone, ZenonT(60) DEF WroteBack
      <4>6. Wrote(W) /\ (written => b \in W /\ after = Cleaned(W))
        BY <4>3, Zenon DEF WroteBack
      <4>7. ASSUME ~written
            PROVE  \E X : /\ after = Cleaned(X)
                          /\ \A x \in X : x \in Bufs /\ buf[x].valid /\ buf[x].dirty
                                          /\ (x \in W \/ gone(buf[x].dev))
        <5>1. CASE gone(buf[b].dev)
          <6> WITNESS {b}
          <6> QED
            BY <2>1, <3>1, <4>2, <4>4, <4>7, <5>1, ZenonT(60)
        <5>2. CASE ~gone(buf[b].dev)
          <6> WITNESS {}
          <6> QED
            BY <4>5, <4>7, <5>2, ZenonT(60)
        <5> QED
          BY <5>1, <5>2, ZenonT(60)
      <4> WITNESS W
      <4> QED
        BY <4>6, <4>7, ZenonT(60)
    <3>2. CASE ~buf[b].dirty
      <4>1. written /\ after = buf /\ cell' = cell
        BY <1>5, <3>2, ZenonT(60)
      <4> QED
        BY <1>1, <3>2, <4>1, CleanedNone, NothingWritten, ZenonT(60)
    <3> QED
      BY <3>1, <3>2, ZenonT(60)
  <2>4. CASE written
    <3>1. buf' = [Cleaned(W) EXCEPT ![b] = Bound(op.dev, l, Junk)]
      BY <1>5, <2>3, <2>4, ZenonT(60)
    <3>2. op' = [Out(b) EXCEPT !.missed = Out(b).missed \cup {l}]
      BY <1>5, <2>4, ZenonT(60)
    <3>3. Takes(b, op.missed \cup {l})
      BY <1>0, <2>1, <3>2, OutFields, ZenonT(60) DEF Takes
    <3> QED
      BY <1>0, <1>5, <2>1, <2>3, <2>4, <3>1, <3>3, RangeBindStep, ZenonT(60)
  <2>5. CASE ~written
    <3>1. PICK X : /\ after = Cleaned(X)
                   /\ \A x \in X : x \in Bufs /\ buf[x].valid /\ buf[x].dirty
                                   /\ (x \in W \/ gone(buf[x].dev))
      BY <2>3, <2>5, ZenonT(60)
    <3>2. op' = Idle
      BY <1>5, <2>5, ZenonT(60)
    <3>3. buf' = [c \in Bufs |-> IF c \in Range(op.out)
                       THEN [Cleaned(X)[c] EXCEPT !.refcnt = @ - 1] ELSE Cleaned(X)[c]]
      BY <1>5, <2>5, <3>1, ZenonT(60)
    <3> QED
      BY <1>0, <2>3, <3>1, <3>2, <3>3, AbortStep, ZenonT(60)
  <2> QED
    BY <2>4, <2>5, ZenonT(60)
<1> QED
    BY <1>2, <1>3, <1>4, <1>5, ZenonT(60)

\* Phase 2 fills the buffers of the sectors of a chunk.
LEMMA FilledAre ==
    ASSUME CacheInv, op.call = "range", NEW x \in Bufs
    PROVE  (\E j \in Chunk : x = op.out[j - op.first + 1])
               <=> x \in Range(op.out) /\ buf[x].lba \in Chunk
<1>1. /\ op.first \in Nat /\ Len(op.out) \in Nat /\ DOMAIN op.out = 1 .. Len(op.out)
      /\ op.missed \subseteq Nat
    BY RangeFields, Zenon
<1>2. ASSUME NEW j \in Chunk, x = op.out[j - op.first + 1]
      PROVE  x \in Range(op.out) /\ buf[x].lba \in Chunk
  <2>1. j \in op.missed
    BY Zenon DEF Chunk
  <2>2. op.first <= j /\ j < op.first + Len(op.out)
    BY <2>1, ZenonT(60) DEF CacheInv, RangeInv
  <2>3. PICK i : i = j - op.first + 1
    BY Zenon
  <2>4. i \in DOMAIN op.out /\ op.first + i - 1 = j
    BY <1>1, <2>1, <2>2, <2>3, SMTT(60)
  <2>5. x = op.out[i]
    BY <1>2, <2>3, ZenonT(60)
  <2>6. buf[op.out[i]].lba = op.first + i - 1
    BY <2>4, ZenonT(60) DEF CacheInv, RangeInv
  <2>7. x \in Range(op.out)
    BY <2>4, <2>5, ZenonT(60) DEF Range
  <2> QED
    BY <2>4, <2>5, <2>6, <2>7, ZenonT(60)
<1>3. ASSUME x \in Range(op.out), buf[x].lba \in Chunk
      PROVE  \E j \in Chunk : x = op.out[j - op.first + 1]
  <2>1. PICK i \in DOMAIN op.out : x = op.out[i] /\ buf[x].lba = op.first + i - 1
    BY <1>3, OutFacts, ZenonT(60)
  <2>2. i = buf[x].lba - op.first + 1
    BY <1>1, <2>1
  <2> QED
    BY <1>3, <2>1, <2>2, ZenonT(60)
<1> QED
    BY <1>2, <1>3, ZenonT(60)

\* Phase 2 reads a chunk.
LEMMA RangeReadStep ==
    ASSUME CacheInv, op.call = "range",
           buf' = [b \in Bufs |-> IF \E j \in Chunk : b = op.out[j - op.first + 1]
                          THEN [buf[b] EXCEPT !.data = OnDisk(cell, op.dev, buf[b].lba)]
                          ELSE buf[b]],
           op' = [op EXCEPT !.missed = @ \ Chunk],
           dev' = dev, present' = present, stable' = stable, changed' = changed, cell' = cell
    PROVE  CacheInv' /\ Moves({})
<1>1. /\ Types /\ RegistryInv /\ FileInv /\ stable \in Image /\ cell \in Image
      /\ buf \in [Bufs -> Descriptor]
    BY Zenon DEF CacheInv, Types, CacheTypes, DeviceTypes
<1>2. /\ op \in RangeOp /\ op.dev \in Entries /\ op.missed \subseteq Nat /\ Mountable(op.dev)
      /\ changed = {}
    BY RangeFields, Zenon
<1>3. /\ op' \in RangeOp /\ op'.call = "range" /\ op'.dev = op.dev /\ op'.first = op.first
      /\ op'.count = op.count /\ op'.out = op.out /\ op'.missed = op.missed \ Chunk
  <2>1. PICK missed \in SUBSET Nat : missed = op.missed \ Chunk
    BY <1>2, Zenon
  <2>2. PICK new : new = [op EXCEPT !.missed = missed]
    BY Zenon
  <2>3. /\ new \in RangeOp /\ new.call = "range" /\ new.dev = op.dev /\ new.first = op.first
        /\ new.count = op.count /\ new.out = op.out /\ new.missed = missed
    BY <1>2, <2>2 DEF RangeOp
  <2>4. op' = new
    BY <2>1, <2>2, ZenonT(60)
  <2> QED
    BY <2>1, <2>3, <2>4, ZenonT(60)
<1>4. ASSUME NEW x \in Bufs
      PROVE  /\ buf'[x] \in Descriptor /\ buf'[x].valid = buf[x].valid /\ buf'[x].dev = buf[x].dev
             /\ buf'[x].lba = buf[x].lba /\ buf'[x].refcnt = buf[x].refcnt
             /\ buf'[x].dirty = buf[x].dirty
             /\ ~(x \in Range(op.out) /\ buf[x].lba \in Chunk) => buf'[x] = buf[x]
             /\ x \in Range(op.out) /\ buf[x].lba \in Chunk =>
                    buf[x].valid /\ buf'[x].data = OnDisk(cell, buf[x].dev, buf[x].lba)
  <2>1. CASE x \in Range(op.out) /\ buf[x].lba \in Chunk
    <3>1. buf'[x] = [buf[x] EXCEPT !.data = OnDisk(cell, op.dev, buf[x].lba)]
      BY <2>1, FilledAre, ZenonT(60)
    <3>2. buf[x].valid /\ buf[x].dev = op.dev
      BY <2>1, OutFacts, ZenonT(60)
    <3>3. dev[op.dev].medium \in Media /\ resolve(op.dev, buf[x].lba) \in Lbas
      BY <1>1, <3>2, BufferFacts, ZenonT(60)
    <3>4. PICK d \in Data \cup {Junk} : d = OnDisk(cell, op.dev, buf[x].lba)
      BY <1>1, <3>3, ZenonT(60) DEF OnDisk, Image
    <3>5. PICK new : new = [buf[x] EXCEPT !.data = d]
      BY Zenon
    <3>6. buf[x] \in Descriptor
      BY <1>1, ZenonT(60)
    <3>7. /\ new \in Descriptor /\ new.valid = buf[x].valid /\ new.dev = buf[x].dev
          /\ new.lba = buf[x].lba /\ new.refcnt = buf[x].refcnt /\ new.dirty = buf[x].dirty
          /\ new.data = d
      BY <3>5, <3>6 DEF Descriptor
    <3>8. buf'[x] = new
      BY <3>1, <3>4, <3>5, ZenonT(60)
    <3> QED
      BY <2>1, <3>2, <3>4, <3>7, <3>8, ZenonT(60)
  <2>2. CASE ~(x \in Range(op.out) /\ buf[x].lba \in Chunk)
    <3>1. buf'[x] = buf[x]
      BY <2>2, FilledAre, Zenon
    <3> QED
      BY <1>1, <2>2, <3>1, ZenonT(60)
  <2> QED
    BY <2>1, <2>2, ZenonT(60)
<1>5. buf' \in [Bufs -> Descriptor]
  <2>1. buf' = [x \in Bufs |-> buf'[x]]
    BY Zenon
  <2> QED
    BY <1>4, <2>1, ZenonT(60)
<1>6. \A x \in Bufs : Kept(x)
  <2> SUFFICES ASSUME NEW x \in Bufs PROVE Kept(x)
    BY Zenon
  <2>1. ~buf[x].valid => buf'[x] = buf[x]
    BY <1>4, Zenon
  <2> QED
    BY <1>4, <2>1, Zenon DEF Kept
<1>7. FileInv'
    BY <1>1, <1>6, FilesKept, ZenonT(60) DEF SameDevice
<1>8. OpType'
    BY <1>3, Zenon DEF OpType
<1>9. FlushInv'
    BY <1>3 DEF FlushInv
<1>10. LockInv'
    BY <1>2, Zenon DEF LockInv
<1>11. Mountable(op.dev)'
    BY <1>2, <1>3, ZenonT(60) DEF Mountable, Registered, Whole
<1>12. ASSUME NEW i \in DOMAIN op'.out
       PROVE  /\ buf'[op'.out[i]].valid /\ buf'[op'.out[i]].dev = op'.dev
              /\ buf'[op'.out[i]].lba = op'.first + i - 1 /\ buf'[op'.out[i]].refcnt > 0
              /\ buf'[op'.out[i]].lba \in op'.missed =>
                     ~buf'[op'.out[i]].dirty /\ buf'[op'.out[i]].data = Junk
  <2>0. i \in DOMAIN op.out
    BY <1>3, Zenon
  <2>2. PICK x \in Bufs : x = op.out[i]
    BY <2>0, RangeFields, SeqElement, ZenonT(60)
  <2>3. /\ buf[x].valid /\ buf[x].dev = op.dev
        /\ buf[x].lba = op.first + i - 1 /\ buf[x].refcnt > 0
        /\ buf[x].lba \in op.missed => ~buf[x].dirty /\ buf[x].data = Junk
    BY <2>0, <2>2, OutEntry, ZenonT(60)
  <2>40. /\ buf'[x].valid = buf[x].valid /\ buf'[x].dev = buf[x].dev
         /\ buf'[x].lba = buf[x].lba /\ buf'[x].refcnt = buf[x].refcnt
    BY <1>4, Zenon
  <2>41. buf'[x].valid /\ buf'[x].dev = op'.dev
    BY <1>3, <2>3, <2>40, ZenonT(60)
  <2>42. buf'[x].lba = op'.first + i - 1
    BY <1>3, <2>3, <2>40, ZenonT(60)
  <2>4. /\ buf'[x].valid /\ buf'[x].dev = op'.dev
        /\ buf'[x].lba = op'.first + i - 1 /\ buf'[x].refcnt > 0
    BY <2>3, <2>40, <2>41, <2>42, ZenonT(60)
  <2>5. buf'[x].lba \in op'.missed => ~buf'[x].dirty /\ buf'[x].data = Junk
    BY <1>3, <1>4, <2>3, ZenonT(60)
  <2>6. op'.out[i] = x
    BY <1>3, <2>2, ZenonT(60)
  <2> QED
    BY <2>4, <2>5, <2>6, ZenonT(60)
<1>13. RangeInv'
  <2>1. op'.first + op'.count <= dev'[op'.dev].count /\ Len(op'.out) <= op'.count
    BY <1>3, ZenonT(60) DEF CacheInv, RangeInv
  <2>2. \A j \in op'.missed : op'.first <= j /\ j < op'.first + Len(op'.out)
    BY <1>3, ZenonT(60) DEF CacheInv, RangeInv
  <2> QED
    BY <1>3, <1>11, <1>12, <2>1, <2>2, ZenonT(60) DEF RangeInv
<1>14. CacheInv'
    BY <1>1, <1>5, <1>7, <1>8, <1>9, <1>10, <1>13, CallStep, ZenonT(60)
<1>15. ASSUME NEW x \in Bufs PROVE Follows(x, {})
  <2>1. \A m, a : At(x, m, a)' <=> At(x, m, a)
    BY <1>6, StaysAt, ZenonT(60)
  <2>2. Pending(x)' <=> Pending(x) /\ buf[x].lba \notin Chunk
    BY <1>3, <1>4, ZenonT(60) DEF Pending
  <2>3. ~Pending(x) => buf'[x] = buf[x]
    <3>1. Chunk \subseteq op.missed
      BY Zenon DEF Chunk
    <3> QED
      BY <1>4, <3>1, ZenonT(60) DEF Pending
  <2>4. ASSUME Pending(x), ~Pending(x)', NEW m \in Media, NEW a \in Lbas, At(x, m, a)
        PROVE  buf'[x].data = cell'[m][a]
    <3>1. x \in Range(op.out) /\ buf[x].lba \in Chunk
      BY <2>2, <2>4, ZenonT(60) DEF Pending
    <3>2. buf'[x].data = OnDisk(cell, buf[x].dev, buf[x].lba)
      BY <1>4, <3>1, ZenonT(60)
    <3> QED
      BY <2>4, <3>2, ZenonT(60) DEF At, OnDisk
  <2> QED
    BY <2>1, <2>2, <2>3, <2>4, ZenonT(60) DEF Follows
<1> QED
    BY <1>1, <1>14, <1>15, NothingWritten, ZenonT(60) DEF Moves

\* A step of phase 2 of get_range().
LEMMA RangeFillStep ==
    ASSUME CacheInv, RangeFill
    PROVE  CacheInv' /\ \E W : Moves(W)
<1>0. /\ op.call = "range" /\ cell' = cell
      /\ dev' = dev /\ present' = present /\ stable' = stable /\ changed' = changed
    BY DEF RangeFill, deviceVars
<1>1. /\ FileInv /\ stable \in Image /\ cell \in Image /\ buf \in [Bufs -> Descriptor] /\ changed = {}
    BY <1>0, RangeFields, ZenonT(60) DEF CacheInv, Types, CacheTypes, DeviceTypes
<1>2. CASE op.missed = {} /\ op' = Idle /\ buf' = buf
  <2>1. OpType' /\ RangeInv' /\ FlushInv' /\ LockInv'
    BY <1>0, <1>1, <1>2, CallEnds, ZenonT(60)
  <2>2. \A x \in Bufs : Kept(x)
    BY <1>2, ZenonT(60) DEF Kept
  <2>3. FileInv'
    BY <1>0, <1>1, <2>2, FilesKept, ZenonT(60) DEF SameDevice
  <2>4. CacheInv'
    BY <1>0, <1>1, <1>2, <2>1, <2>3, CallStep, ZenonT(60)
  <2>5. ASSUME NEW x \in Bufs PROVE Follows(x, {})
    <3>1. \A m, a : At(x, m, a)' <=> At(x, m, a)
      BY <1>0, <2>2, StaysAt, ZenonT(60)
    <3>2. ~Pending(x)
      BY <1>2, ZenonT(60) DEF Pending
    <3>3. ~Pending(x)'
      BY <1>2, IdleCalls DEF Pending
    <3> QED
      BY <1>0, <1>2, <3>1, <3>2, <3>3, ZenonT(60) DEF Follows
  <2> QED
    BY <1>0, <1>1, <2>4, <2>5, NothingWritten, ZenonT(60) DEF Moves
<1>3. CASE buf' = Unlocked(Range(op.out)) /\ op' = Idle
    BY <1>0, <1>3, GiveUpStep, ZenonT(60)
<1>4. CASE /\ buf' = [b \in Bufs |-> IF \E j \in Chunk : b = op.out[j - op.first + 1]
                              THEN [buf[b] EXCEPT !.data = OnDisk(cell, op.dev, buf[b].lba)]
                              ELSE buf[b]]
           /\ op' = [op EXCEPT !.missed = @ \ Chunk]
    BY <1>0, <1>4, RangeReadStep, ZenonT(60)
<1> QED
    BY <1>2, <1>3, <1>4, ZenonT(60) DEF RangeFill
-----------------------------------------------------------------------------
(* Flushing.                                                               *)

\* Outside of range calls, a buffer that keeps its sector and its contents
\* follows the step.
LEMMA PlainFollows ==
    ASSUME op.call # "range", op'.call # "range", dev' = dev, NEW W, NEW x \in Bufs, Kept(x),
           buf'[x].data = buf[x].data,
           ~buf'[x].dirty /\ x \notin changed' =>
               (~buf[x].dirty /\ x \notin changed) \/ x \in W \/ gone(buf[x].dev)
    PROVE  Follows(x, W)
<1>1. ~Pending(x) /\ ~Pending(x)'
  BY Zenon DEF Pending
<1>2. \A m, a : At(x, m, a)' <=> At(x, m, a)
  BY StaysAt, Zenon
<1> QED
  BY <1>1, <1>2, ZenonT(60) DEF Follows

\* The fields of a flush in progress.
LEMMA FlushFields ==
    ASSUME CacheInv, op.call \in {"flush", "unmount", "release"}
    PROVE  /\ op \in FlushOp /\ op.dev \in Entries \cup {All} /\ op.todo \in SUBSET Bufs
           /\ op.rc \in {"ok", "error"} /\ op.call # "range" /\ op.call # "none"
           /\ changed = {} /\ Locked = {}
           /\ Mountable(op.dev) \/ (op.call = "flush" /\ op.dev = All)
           /\ op.rc = "ok" => Dirty(op.dev) \subseteq op.todo
           /\ op.todo \subseteq Dirty(op.dev)
<1>1. op \in FlushOp /\ op.call # "range" /\ op.call # "none"
  BY OpKinds DEF CacheInv, Types, CacheTypes
<1>2. op.dev \in Entries \cup {All} /\ op.todo \in SUBSET Bufs /\ op.rc \in {"ok", "error"}
  BY <1>1 DEF FlushOp
<1>3. changed = {}
  BY <1>1, Zenon DEF CacheInv, LockInv
<1> QED
  BY <1>1, <1>2, <1>3, ZenonT(60) DEF CacheInv, FlushInv

\* A flush goes on with other buffers to do.
GoesOn(T, r) == op' = [op EXCEPT !.todo = T, !.rc = r]

\* The flush goes on with the buffers T and the result r so far.
LEMMA FlushNext ==
    ASSUME op \in FlushOp, NEW T \in SUBSET Bufs, NEW r \in {"ok", "error"}, GoesOn(T, r)
    PROVE  op' \in FlushOp /\ op'.call = op.call /\ op'.dev = op.dev /\ op'.todo = T /\ op'.rc = r
<1>1. PICK n : n = [op EXCEPT !.todo = T]
  BY Zenon
<1>2. n \in FlushOp /\ n.call = op.call /\ n.dev = op.dev /\ n.todo = T
  BY <1>1 DEF FlushOp
<1>3. op' = [n EXCEPT !.rc = r]
  BY <1>1, Zenon DEF GoesOn
<1>4. op' \in FlushOp /\ op'.call = n.call /\ op'.dev = n.dev /\ op'.todo = n.todo /\ op'.rc = r
  BY <1>2, <1>3 DEF FlushOp
<1> QED
  BY <1>2, <1>4, ZenonT(60)

\* What a flush in progress needs of the state after a step.
LEMMA FlushHolds ==
    ASSUME NEW f, NEW T, op'.dev = f, op'.todo = T,
           op'.call \in {"flush", "unmount", "release"}, op'.call = "release" => T = {},
           Locked' = {}, Mountable(f)' \/ (op'.call = "flush" /\ f = All),
           op'.rc = "ok" => Dirty(f)' \subseteq T, T \subseteq Dirty(f)'
    PROVE  FlushInv'
<1>1. Dirty(op.dev)' = Dirty(f)'
  BY Zenon DEF Dirty
<1>2. Mountable(op.dev)' <=> Mountable(f)'
  BY Zenon DEF Mountable, Registered, Whole
<1> QED
  BY <1>1, <1>2, Zenon DEF FlushInv

\* A flush call begins with the dirty buffers of its device.
LEMMA FlushStartStep ==
    ASSUME CacheInv, NEW e, NEW call \in {"flush", "unmount"},
           Mountable(e) \/ (call = "flush" /\ e = All), FlushStart(e, call)
    PROVE  CacheInv' /\ \E W : Moves(W)
<1>1. /\ op = Idle /\ Locked = {} /\ rc' = "none" /\ buf' = buf /\ changed' = changed
      /\ dev' = dev /\ present' = present /\ cell' = cell /\ stable' = stable
      /\ op' = [call |-> call, dev |-> e, todo |-> Dirty(e), rc |-> "ok"]
  BY Zenon DEF FlushStart, LocksFree, deviceVars
<1>2. PICK D : D = Dirty(e)
  BY Zenon
<1>3. D \in SUBSET Bufs /\ e \in Entries \cup {All}
  BY <1>2, Zenon DEF Dirty, Mountable, Registered
<1>4. /\ op' \in FlushOp /\ op'.call = call /\ op'.dev = e /\ op'.todo = D /\ op'.rc = "ok"
      /\ op'.call # "range" /\ op'.call # "none" /\ op'.call # "release"
  <2>1. op' = [call |-> call, dev |-> e, todo |-> D, rc |-> "ok"]
    BY <1>1, <1>2, ZenonT(60)
  <2> QED
    BY <2>1, <1>3 DEF FlushOp
<1>5. changed = {} /\ op.call # "range"
  <2>1. changed = {}
    BY <1>1, Zenon DEF CacheInv, LockInv
  <2> QED
    BY <2>1, <1>1, IdleCalls, SMTT(60)
<1>6. FileInv'
  BY <1>1, FilesKept, ZenonT(60) DEF CacheInv, Kept, SameDevice
<1>7. OpType' /\ RangeInv'
  BY <1>4, Zenon DEF OpType, RangeInv
<1>8. LockInv'
  <2>1. changed' = {}
    BY <1>1, <1>5, ZenonT(60)
  <2> QED
    BY <2>1, Zenon DEF LockInv
<1>9. FlushInv'
  <2>1. Locked' = {}
    BY <1>1, ZenonT(60) DEF Locked
  <2>2. Mountable(e)' \/ (op'.call = "flush" /\ e = All)
    BY <1>1, <1>4, ZenonT(60) DEF Mountable, Registered, Whole
  <2>3. Dirty(e)' = D
    BY <1>1, <1>2, ZenonT(60) DEF Dirty
  <2>4. op'.call \in {"flush", "unmount", "release"} /\ Dirty(e)' \subseteq D /\ D \subseteq Dirty(e)'
    BY <1>4, <2>3, ZenonT(60)
  <2> QED
    BY <1>4, <2>1, <2>2, <2>4, FlushHolds, ZenonT(60)
<1>10. stable' \in Image /\ cell' \in Image /\ buf' \in [Bufs -> Descriptor]
  BY <1>1, ZenonT(60) DEF CacheInv, Types, DeviceTypes, CacheTypes
<1>11. CacheInv'
  BY <1>1, <1>6, <1>7, <1>8, <1>9, <1>10, CallStep, ZenonT(60)
<1>12. Moves({})
  <2>1. Wrote({})
    BY <1>1, <1>10, NothingWritten, ZenonT(60)
  <2>2. \A x \in Bufs : Follows(x, {})
    BY <1>1, <1>4, <1>5, PlainFollows, ZenonT(60) DEF Kept
  <2> QED
    BY <2>1, <2>2, ZenonT(60) DEF Moves
<1> QED
  BY <1>11, <1>12, ZenonT(60)

\* Between two buffers a flush stays the call it is.
LEMMA FlushBufferGoesOn ==
    ASSUME CacheInv, FlushBuffer
    PROVE  op'.call = op.call
<1>1. op.call \in {"flush", "unmount"}
  BY Zenon DEF FlushBuffer, Flushing
<1>2. op \in FlushOp /\ op.todo \in SUBSET Bufs /\ op.rc \in {"ok", "error"}
  BY <1>1, FlushFields, ZenonT(60)
<1>3. PICK b, T, r : GoesOn(T, r) /\ T = {c \in op.todo \ {b} : buf'[c].dirty} /\ r \in {"error", op.rc}
  <2>1. PICK b, ok :
          op' = [op EXCEPT !.todo = {c \in @ \ {b} : buf'[c].dirty},
                     !.rc = IF ~ok /\ (op.dev # All \/ ~gone(buf[b].dev)) THEN "error" ELSE @]
    BY Zenon DEF FlushBuffer
  <2>2. PICK T, r : /\ T = {c \in op.todo \ {b} : buf'[c].dirty}
                    /\ r = IF ~ok /\ (op.dev # All \/ ~gone(buf[b].dev)) THEN "error" ELSE op.rc
    BY Zenon
  <2>3. GoesOn(T, r) /\ r \in {"error", op.rc}
    BY <2>1, <2>2, ZenonT(60) DEF GoesOn
  <2> QED
    BY <2>2, <2>3, ZenonT(60)
<1>4. T \in SUBSET Bufs /\ r \in {"ok", "error"}
  BY <1>2, <1>3, ZenonT(60)
<1> QED
  BY <1>2, <1>3, <1>4, FlushNext, ZenonT(60)

\* One buffer of a flush, and its neighbours, are written back, or not.
LEMMA FlushBufferStep ==
    ASSUME CacheInv, FlushBuffer
    PROVE  CacheInv' /\ \E W : Moves(W)
<1>1. /\ op.call \in {"flush", "unmount"} /\ rc' = rc /\ changed' = changed
      /\ dev' = dev /\ present' = present /\ stable' = stable
  BY Zenon DEF FlushBuffer, Flushing
<1>2. PICK b \in op.todo, ok \in BOOLEAN :
        /\ writeback(b, ok, buf')
        /\ op' = [op EXCEPT !.todo = {c \in @ \ {b} : buf'[c].dirty},
                    !.rc = IF ~ok /\ (op.dev # All \/ ~gone(buf[b].dev)) THEN "error" ELSE @]
  BY Zenon DEF FlushBuffer
<1>3. /\ op \in FlushOp /\ op.dev \in Entries \cup {All} /\ op.todo \in SUBSET Bufs
      /\ op.rc \in {"ok", "error"} /\ op.call # "range" /\ op.call # "none"
      /\ changed = {} /\ Locked = {}
      /\ Mountable(op.dev) \/ (op.call = "flush" /\ op.dev = All)
      /\ op.rc = "ok" => Dirty(op.dev) \subseteq op.todo
      /\ op.todo \subseteq Dirty(op.dev)
  BY <1>1, FlushFields, ZenonT(60)
<1>4. b \in Bufs /\ buf[b].valid /\ buf[b].dirty
  BY <1>3, ZenonT(60) DEF Dirty
<1>5. PICK W : WroteBack(b, ok, buf', W)
  BY <1>2, <1>4, WritebackWrites, ZenonT(60) DEF CacheInv
<1>6. PICK X : /\ buf' = Cleaned(X)
               /\ ok => b \in X
               /\ \A x \in X : x \in Bufs /\ buf[x].valid /\ (x \in W \/ gone(buf[x].dev))
               /\ gone(buf[b].dev) => b \in X
  <2>0. CacheTypes
    BY Zenon DEF CacheInv, Types
  <2>1. CASE ok
    BY <1>4, <1>5, <2>1, ZenonT(60) DEF WroteBack, Wrote
  <2>2. CASE ~ok /\ gone(buf[b].dev)
    <3>1. buf' = Cleaned({b})
      BY <1>5, <2>2, ZenonT(60) DEF WroteBack
    <3> WITNESS {b}
    <3> QED
      BY <3>1, <2>2, <1>4, ZenonT(60)
  <2>3. CASE ~ok /\ ~gone(buf[b].dev)
    <3>1. buf' = Cleaned({})
      BY <1>5, <2>0, <2>3, CleanedNone, ZenonT(60) DEF WroteBack
    <3> WITNESS {}
    <3> QED
      BY <3>1, <2>3, ZenonT(60)
  <2> QED
    BY <2>1, <2>2, <2>3, ZenonT(60)
<1>7. /\ buf' \in [Bufs -> Descriptor]
      /\ \A x \in Bufs :
           /\ buf'[x].valid = buf[x].valid /\ buf'[x].dev = buf[x].dev
           /\ buf'[x].lba = buf[x].lba /\ buf'[x].refcnt = buf[x].refcnt
           /\ buf'[x].data = buf[x].data
           /\ x \in X => ~buf'[x].dirty
           /\ x \notin X => buf'[x] = buf[x]
  BY <1>6, CleanedFacts, ZenonT(60) DEF CacheInv, Types
<1>8. \A x \in Bufs : Kept(x)
  BY <1>6, <1>7, Zenon DEF Kept
<1>9. PICK T : T = {c \in op.todo \ {b} : buf'[c].dirty}
  BY Zenon
<1>10. PICK r : r = IF ~ok /\ (op.dev # All \/ ~gone(buf[b].dev)) THEN "error" ELSE op.rc
  BY Zenon
<1>11. /\ op' \in FlushOp /\ op'.call = op.call /\ op'.dev = op.dev /\ op'.todo = T /\ op'.rc = r
       /\ op'.call # "range" /\ op'.call # "none" /\ op'.call # "release"
  <2>1. GoesOn(T, r)
    BY <1>2, <1>9, <1>10, ZenonT(60) DEF GoesOn
  <2>2. T \in SUBSET Bufs /\ r \in {"ok", "error"}
    BY <1>3, <1>9, <1>10, ZenonT(60)
  <2>3. op' \in FlushOp /\ op'.call = op.call /\ op'.dev = op.dev /\ op'.todo = T /\ op'.rc = r
    BY <2>1, <2>2, <1>3, FlushNext, ZenonT(60)
  <2>4. op.call # "release"
    BY <1>1
  <2> QED
    BY <2>3, <2>4, <1>3, ZenonT(60)
<1>12. FileInv'
  BY <1>1, <1>8, FilesKept, ZenonT(60) DEF CacheInv, SameDevice
<1>13. OpType' /\ RangeInv'
  BY <1>11, ZenonT(60) DEF OpType, RangeInv
<1>14. LockInv'
  <2>1. changed' = {}
    BY <1>1, <1>3, ZenonT(60)
  <2> QED
    BY <2>1, ZenonT(60) DEF LockInv
<1>15. FlushInv'
  <2>0. PICK f : f = op.dev
    BY Zenon
  <2>1. Locked' = {}
    BY <1>3, <1>7, ZenonT(60) DEF Locked
  <2>2. Mountable(f)' \/ (op'.call = "flush" /\ f = All)
    BY <2>0, <1>1, <1>3, <1>11, ZenonT(60) DEF Mountable, Registered, Whole
  <2>3. ASSUME op'.rc = "ok" PROVE Dirty(f)' \subseteq T
    <3>1. op.rc = "ok" /\ b \in X
      <4>1. r = "ok" /\ "ok" # "error"
        BY <2>3, <1>11, SMTT(60)
      <4> QED
        BY <4>1, <1>6, <1>10, ZenonT(60)
    <3>2. ASSUME NEW c \in Dirty(f)' PROVE c \in T
      <4>1. c \in Bufs /\ buf'[c].dirty /\ buf'[c].valid /\ (f = All \/ buf'[c].dev = f)
        BY ZenonT(60) DEF Dirty
      <4>2. c \in Dirty(f) /\ c # b
        BY <4>1, <3>1, <1>7, ZenonT(60) DEF Dirty
      <4>3. c \in op.todo
        BY <4>2, <3>1, <2>0, <1>3, ZenonT(60)
      <4> QED
        BY <4>1, <4>2, <4>3, <1>9, ZenonT(60)
    <3> QED
      BY <3>2, ZenonT(60)
  <2>4. T \subseteq Dirty(f)'
    <3>1. ASSUME NEW c \in T PROVE c \in Dirty(f)'
      <4>1. c \in Dirty(f) /\ buf'[c].dirty
        BY <2>0, <1>3, <1>9, ZenonT(60)
      <4> QED
        BY <4>1, <1>7, ZenonT(60) DEF Dirty
    <3> QED
      BY <3>1, ZenonT(60)
  <2>5. op'.dev = f /\ op'.call \in {"flush", "unmount", "release"}
    BY <2>0, <1>1, <1>11, ZenonT(60)
  <2> QED
    BY <1>11, <2>1, <2>2, <2>3, <2>4, <2>5, FlushHolds, ZenonT(60)
<1>16. stable' \in Image /\ cell' \in Image
  BY <1>1, <1>5, ZenonT(60) DEF CacheInv, Types, DeviceTypes, WroteBack, Wrote
<1>17. CacheInv'
  BY <1>1, <1>7, <1>12, <1>13, <1>14, <1>15, <1>16, CallStep, ZenonT(60)
<1>18. Moves(W)
  <2>1. ASSUME NEW x \in Bufs PROVE Follows(x, W)
    <3>1. ~buf'[x].dirty /\ x \notin changed' =>
               (~buf[x].dirty /\ x \notin changed) \/ x \in W \/ gone(buf[x].dev)
      BY <1>3, <1>6, <1>7, ZenonT(60)
    <3> QED
      BY <3>1, <1>1, <1>3, <1>7, <1>8, <1>11, PlainFollows, ZenonT(60)
  <2> QED
    BY <2>1, <1>5, ZenonT(60) DEF Moves, WroteBack
<1> QED
  BY <1>17, <1>18, ZenonT(60)
\* An unmount has flushed, and goes on to release the device.
GoesToRelease(r) == op' = [op EXCEPT !.call = "release", !.rc = r]

\* The call goes on to release what it locked.
LEMMA ReleaseNext ==
    ASSUME op \in FlushOp, NEW r \in {"ok", "error"}, GoesToRelease(r)
    PROVE  /\ op' \in FlushOp /\ op'.call = "release" /\ op'.dev = op.dev
           /\ op'.todo = op.todo /\ op'.rc = r
<1>1. PICK n : n = [op EXCEPT !.call = "release"]
  BY Zenon
<1>2. n \in FlushOp /\ n.call = "release" /\ n.dev = op.dev /\ n.todo = op.todo
  BY <1>1 DEF FlushOp
<1>3. op' = [n EXCEPT !.rc = r]
  BY <1>1, Zenon DEF GoesToRelease
<1>4. op' \in FlushOp /\ op'.call = n.call /\ op'.dev = n.dev /\ op'.todo = n.todo /\ op'.rc = r
  BY <1>2, <1>3, SMTT(60) DEF FlushOp
<1> QED
  BY <1>2, <1>4, ZenonT(60)

\* The disks a flush has the write caches put away of.
Concerned ==
    {d \in Registered : dev[d].parent = NoEntry /\
        IF op.dev = All THEN ~dev[d].gone ELSE d = disk_of(op.dev)}

\* The device flush: the buffers stay, sectors become stable, and success is
\* reported only when every disk concerned and every write before succeeded.
LEMMA FlushDevicesStep ==
    ASSUME CacheInv, FlushDevices
    PROVE  /\ CacheInv' /\ op.call \in {"flush", "unmount"} /\ op'.call # "range" /\ op.todo = {}
           /\ dev' = dev /\ present' = present /\ cell' = cell /\ buf' = buf /\ changed' = changed
           /\ \A m \in Media : stable'[m] \in {cell[m], stable[m]}
           /\ op.call = "flush" /\ rc' = "ok" =>
                /\ op.rc = "ok"
                /\ \A d \in Concerned : Answers(d) /\ stable'[dev[d].medium] = cell[dev[d].medium]
<1>1. /\ op.call \in {"flush", "unmount"} /\ op.todo = {}
      /\ dev' = dev /\ present' = present /\ cell' = cell /\ buf' = buf /\ changed' = changed
  BY Zenon DEF FlushDevices, Flushing
<1>2. PICK done, result :
        /\ done \in SUBSET {d \in Concerned : Answers(d)}
        /\ result = IF done = Concerned THEN op.rc ELSE "error"
        /\ flush_disks(done)
        /\ IF op.call = "flush"
           THEN op' = Idle /\ rc' = result
           ELSE op' = [op EXCEPT !.call = "release", !.rc = result] /\ UNCHANGED rc
  BY Zenon DEF FlushDevices, Concerned
<1>3. /\ op \in FlushOp /\ op.dev \in Entries \cup {All} /\ op.todo \in SUBSET Bufs
      /\ op.rc \in {"ok", "error"} /\ op.call # "range" /\ op.call # "none"
      /\ changed = {} /\ Locked = {}
      /\ Mountable(op.dev) \/ (op.call = "flush" /\ op.dev = All)
      /\ op.rc = "ok" => Dirty(op.dev) \subseteq op.todo
      /\ op.todo \subseteq Dirty(op.dev)
  BY <1>1, FlushFields, ZenonT(60)
<1>4. result \in {"ok", "error"} /\ (result = "ok" => done = Concerned /\ op.rc = "ok")
  <2>1. "error" # "ok"
    OBVIOUS
  <2> QED
    BY <2>1, <1>2, <1>3, ZenonT(60)
<1>5. cell \in Image /\ stable \in Image
  BY Zenon DEF CacheInv, Types, DeviceTypes
<1>6. stable' = [m \in Media |-> IF \E d \in done : dev[d].medium = m THEN cell[m] ELSE stable[m]]
  BY <1>2, ZenonT(60) DEF flush_disks
<1>7. \A m \in Media : stable'[m] \in {cell[m], stable[m]}
  BY <1>6, ZenonT(60)
<1>8. stable' \in Image
  <2>1. \A m \in Media : (IF \E d \in done : dev[d].medium = m THEN cell[m] ELSE stable[m])
                            \in [Lbas -> Data \cup {Junk}]
    BY <1>5, ZenonT(60) DEF Image
  <2> QED
    BY <1>6, <2>1, ZenonT(60) DEF Image
<1>9. FileInv'
  BY <1>1, FilesKept, ZenonT(60) DEF CacheInv, Kept, SameDevice
<1>10. changed' \subseteq Locked' /\ changed' = {}
  BY <1>1, <1>3, ZenonT(60)
<1>11. OpType' /\ RangeInv' /\ FlushInv' /\ LockInv' /\ op'.call # "range"
  <2>1. CASE op.call = "flush"
    <3>1. op' = Idle
      BY <2>1, <1>2, ZenonT(60)
    <3>2. op'.call # "range"
      BY <3>1, IdleCalls, SMTT(60)
    <3> QED
      BY <3>1, <3>2, <1>10, CallEnds, ZenonT(60)
  <2>2. CASE op.call # "flush"
    <3>1. GoesToRelease(result)
      BY <2>2, <1>2, ZenonT(60) DEF GoesToRelease
    <3>2. /\ op' \in FlushOp /\ op'.call = "release" /\ op'.dev = op.dev
          /\ op'.todo = op.todo /\ op'.rc = result
      BY <3>1, <1>3, <1>4, ReleaseNext, ZenonT(60)
    <3>3. OpType' /\ RangeInv' /\ LockInv' /\ op'.call # "range"
      <4>1. op'.call # "range"
        BY <3>2
      <4> QED
        BY <4>1, <3>2, <1>10, ZenonT(60) DEF OpType, RangeInv, LockInv
    <3>4. PICK f : f = op.dev
      BY Zenon
    <3>5. Locked' = {} /\ Mountable(f)' /\ Dirty(f)' = Dirty(f)
      BY <3>4, <2>2, <1>1, <1>3, ZenonT(60) DEF Locked, Mountable, Registered, Whole, Dirty
    <3>6. op'.rc = "ok" => Dirty(f)' \subseteq op.todo
      BY <3>2, <3>4, <3>5, <1>3, <1>4, ZenonT(60)
    <3>7. op.todo \subseteq Dirty(f)' /\ op'.call \in {"flush", "unmount", "release"}
      BY <3>2, <3>4, <3>5, <1>3, ZenonT(60)
    <3>8. PICK T : T = op.todo
      BY Zenon
    <3>9. FlushInv'
      BY <3>2, <3>4, <3>5, <3>6, <3>7, <3>8, <1>1, FlushHolds, ZenonT(60)
    <3> QED
      BY <3>3, <3>9, ZenonT(60)
  <2> QED
    BY <2>1, <2>2, ZenonT(60)
<1>12. CacheInv'
  <2>1. buf' \in [Bufs -> Descriptor] /\ cell' \in Image
    BY <1>1, <1>5, ZenonT(60) DEF CacheInv, Types, CacheTypes
  <2> QED
    BY <2>1, <1>1, <1>8, <1>9, <1>11, CallStep, ZenonT(60)
<1>13. ASSUME op.call = "flush", rc' = "ok"
       PROVE  /\ op.rc = "ok"
              /\ \A d \in Concerned : Answers(d) /\ stable'[dev[d].medium] = cell[dev[d].medium]
  <2>1. done = Concerned /\ op.rc = "ok"
    BY <1>13, <1>2, <1>4, ZenonT(60)
  <2>2. \A d \in Concerned : dev[d].medium \in Media
    BY DiskFacts, Zenon DEF Concerned, CacheInv, Types
  <2>3. \A d \in Concerned : Answers(d) /\ d \in done
    BY <2>1, <1>2, ZenonT(60)
  <2> QED
    BY <2>1, <2>2, <2>3, <1>6, ZenonT(60)
<1> QED
  BY <1>1, <1>7, <1>11, <1>12, <1>13, ZenonT(60)
=============================================================================
