---------------------------- MODULE BlockDevices ----------------------------
(***************************************************************************)
(* The registry of block devices (dev/blkdev.cpp), the partition scan that *)
(* fills it (dev/part.cpp) and the media behind it.                        *)
(*                                                                         *)
(* An entry of the registry is a whole disk or a partition of one. A       *)
(* medium has a write cache of its own: a write reaches `cell', and only a *)
(* device flush takes it to `stable', which is what is left once the plug  *)
(* is pulled. Everything here runs under the disks' lock (module           *)
(* SleepLock) except the pulling of a plug.                                *)
(***************************************************************************)
EXTENDS Integers, FiniteSets, Sequences, Functions

CONSTANTS
    Entries,        \* indices of devices[], MAX_BLKDEVS of them
    Media,          \* the disks a user may plug in
    Lbas,           \* sectors of a medium
    Size,           \* Size[m]: how many sectors it has
    Layout,         \* Layout[m]: the partitions the scan takes, <<[first, count], ...>>
    Data,           \* what a sector may hold
    Blank,          \* what the sectors hold at first
    Junk,           \* a sector's worth of some other sector
    NoMedium, NoEntry

ASSUME RegistryAssumption ==
    /\ Entries \subseteq Nat /\ IsFiniteSet(Entries) /\ NoEntry \notin Entries
    /\ Lbas \subseteq Nat /\ Blank \in Data /\ Junk \notin Data
    /\ NoMedium \notin Media

\* A disk's sectors are numbered from 0, and the scan takes no partition that
\* leaves the disk (parse_mbr, parse_gpt and alloc_partition refuse it).
ASSUME MediaAssumption ==
    /\ Size \in [Media -> Nat] /\ Layout \in [Media -> Seq([first : Nat, count : Nat])]
    /\ \A m \in Media : /\ 0 .. Size[m] - 1 \subseteq Lbas
                        /\ \A i \in DOMAIN Layout[m] :
                             Layout[m][i].first + Layout[m][i].count <= Size[m]

VARIABLES
    dev,        \* dev[e]: registry entry e
    present,    \* media that are plugged in
    cell,       \* cell[m][l]: the sector as the device reads it back
    stable      \* stable[m][l]: the sector without the device's write cache

deviceVars == <<dev, present, cell, stable>>

Unused == [registered |-> FALSE, medium |-> NoMedium, parent |-> NoEntry,
           first |-> 0, count |-> 0, gone |-> FALSE, users |-> 0]

DevicesInit ==
    /\ dev = [e \in Entries |-> Unused]
    /\ present = {}
    /\ cell = [m \in Media |-> [l \in Lbas |-> Blank]]
    /\ stable = cell
-----------------------------------------------------------------------------
Registered == {e \in Entries : dev[e].registered}
Children(d) == {e \in Registered : dev[e].parent = d}
disk_of(e) == IF dev[e].parent = NoEntry THEN e ELSE dev[e].parent
gone(e) == dev[disk_of(e)].gone
\* resolve(): the sector of the medium behind sector l of the device.
resolve(e, l) == dev[e].first + l
Sectors(e) == 0 .. dev[e].count - 1
\* A request can succeed: the disk is not gone and still answers.
Answers(e) == ~gone(e) /\ dev[e].medium \in present

\* block::read: all of the sectors, or (always, without the device) -EIO.
\* What was read is cell[m][resolve(e, l)].
\* block::write of the sectors S of device e with data[l]. A request that
\* failed after MAX_IO_RETRIES may have written its first sectors.
write(e, S, data, ok) ==
    LET m == dev[e].medium IN
    /\ ok => Answers(e)
    /\ \E k \in 0 .. Cardinality(S) :
         LET done == {l \in S : Cardinality({j \in S : j < l}) < k} IN
         /\ ok => done = S
         /\ ~Answers(e) => done = {}
         /\ cell' = [cell EXCEPT ![m] = [a \in Lbas |->
                IF \E l \in done : resolve(e, l) = a
                THEN data[CHOOSE l \in done : resolve(e, l) = a] ELSE @[a]]]

\* block::flush of a whole disk: the device's write cache is put away.
flush_disks(D) ==
    stable' = [m \in Media |->
        IF \E d \in D : dev[d].medium = m THEN cell[m] ELSE stable[m]]
-----------------------------------------------------------------------------
Free == Entries \ Registered
\* free_entry() takes the lowest: e is taken after so many others.
Turn(e) == Cardinality({f \in Free : f < e})

\* register_dev() and, for each partition the scan found, alloc_partition(),
\* in turn, as long as there are entries. Without a readable table the disk
\* has no partitions.
Registry(m, scanned) ==
    LET parts == IF scanned THEN Len(Layout[m]) ELSE 0
        disk == CHOOSE d \in Free : Turn(d) = 0
    IN [e \in Entries |->
          IF e \notin Free \/ Turn(e) > parts THEN dev[e]
          ELSE IF e = disk
          THEN [Unused EXCEPT !.registered = TRUE, !.medium = m, !.count = Size[m]]
          ELSE [Unused EXCEPT !.registered = TRUE, !.medium = m, !.parent = disk,
                              !.first = Layout[m][Turn(e)].first,
                              !.count = Layout[m][Turn(e)].count]]

\* A medium is plugged in again only after its old disk was found gone.
Plug(m) ==
    /\ m \notin present
    /\ \A e \in Registered : dev[e].medium = m => gone(e)
    /\ present' = present \cup {m}
    /\ IF Free = {}
       THEN UNCHANGED dev
       ELSE \E scanned \in BOOLEAN : dev' = Registry(m, scanned)
    /\ UNCHANGED <<cell, stable>>

\* The plug is pulled: what the device had not put away is lost.
Unplug(m) ==
    /\ m \in present
    /\ present' = present \ {m}
    /\ cell' = [cell EXCEPT ![m] = stable[m]]
    /\ UNCHANGED <<dev, stable>>

\* collect(): the entries that leave the registry with disk d, given the
\* registry r; discard() takes their buffers along.
Collected(r, d) ==
    LET kids == {e \in Entries : r[e].registered /\ r[e].parent = d} IN
    IF r[d].gone /\ \A e \in kids \cup {d} : r[e].users = 0
    THEN kids \cup {d} ELSE {}

Collect(r, d) == [e \in Entries |-> IF e \in Collected(r, d) THEN Unused ELSE r[e]]

\* hold(): a mounted file system keeps the device registered.
hold(e) ==
    /\ dev' = [dev EXCEPT ![e].users = @ + 1]
    /\ UNCHANGED <<present, cell, stable>>
=============================================================================
