---------------------------- MODULE SectorStore ----------------------------
(***************************************************************************)
(* What include/dev/bcache.h promises of a sector behind the cache: it     *)
(* holds what was last written to it; a write reaches the device (`sent'), *)
(* and from there the medium (`durable'), never skipping a level; and what *)
(* is lost is lost with the plug or with an error reported. Only a range   *)
(* read that failed leaves sectors undefined, until they are read again.   *)
(***************************************************************************)
CONSTANTS Media, Lbas, Data, Junk

VARIABLES
    content,    \* content[m][l]: what a reader of the sector gets
    sent,       \* sent[m][l]: what the device has of it
    durable,    \* durable[m][l]: what is there after the plug was pulled
    plugged,    \* media that are there
    held,       \* sectors a client has got and not put back
    report      \* what the call that just ended returned

Init ==
    /\ content \in [Media -> [Lbas -> Data]]
    /\ sent = content /\ durable = content
    /\ plugged = {} /\ held = {} /\ report = "none"

\* One step of a sector of m, held throughout or not, from content c, sent s, durable d.
Step(m, kept, c, s, d, c2, s2, d2) ==
    \/ c2 = c /\ s2 = s /\ d2 = d                               \* nothing
    \/ kept /\ c # Junk /\ c2 \in Data /\ s2 = s /\ d2 = d      \* a client's change
    \/ s2 = c /\ c2 = c /\ d2 = d                               \* written back
    \/ d2 = s /\ c2 = c /\ s2 = s                               \* device flush
    \/ c2 = Junk /\ s2 = s /\ d2 = d                            \* a range read failed
    \/ c = Junk /\ c2 = s /\ s2 = s /\ d2 = d                   \* read again
    \/ m \notin plugged' /\ s2 = d /\ c2 \in {c, d} /\ d2 = d   \* the plug is pulled
    \/ (m \notin plugged \/ report' = "error")
       /\ c2 = s /\ s2 = s /\ d2 = d                            \* the last change is lost

Next == \A m \in Media, l \in Lbas :
    Step(m, <<m, l>> \in held /\ <<m, l>> \in held', content[m][l], sent[m][l], durable[m][l],
            content'[m][l], sent'[m][l], durable'[m][l])

Spec == Init /\ [][Next]_<<content, sent, durable, plugged, held, report>>
=============================================================================
