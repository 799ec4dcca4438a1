--------------------------- MODULE PassageVisits ----------------------------
(***************************************************************************)
(* PassageLog with a history of the sightings each passage on file has     *)
(* gathered.  No code reads the history: it is there to compare the tables *)
(* with what the reader saw, where the columns keep only the sighting that *)
(* opened a passage and the latest one (store.rs).                         *)
(***************************************************************************)
EXTENDS PassageLog

VARIABLE sighted   \* passage on file -> the observation times it gathered

visitVars == <<tags, passages, nextId, seen, sighted>>

Gathered(p) == IF p \in DOMAIN sighted THEN sighted[p] ELSE {}

\* The history follows the passages on file; a sighting joins the passage
\* record_discovery_seen returned.
Gather(p, at) ==
    sighted' = [q \in DOMAIN passages' |->
                   IF q = p THEN Gathered(q) \cup {at} ELSE Gathered(q)]

Keep == sighted' = [q \in DOMAIN passages' |-> Gathered(q)]

VisitInit == Init /\ sighted = <<>>

RecordVisit(t, at) == RecordSeen(t, at) /\ Gather(seen'.passage_id, at)

VisitNext ==
    \/ \E t \in Tags, at \in Times : RecordVisit(t, at)
    \/ \E p \in PassageIds : MarkAmbiguous(p) /\ Keep
    \/ \E p \in PassageIds, i \in Identities, e \in EventTimes :
          RecordMatch(p, i, e) /\ Keep
    \/ \E t \in Tags : ClearEvidence(t) /\ Keep

VisitSpec == VisitInit /\ [][VisitNext]_visitVars

-----------------------------------------------------------------------------
(* Properties.                                                             *)

\* A sighting of p that arrived late: it is before the one that opened p.
\* started_at_ms is never lowered to it.
Late(p, at) == at < passages[p].started_at_ms

\* Sightings in two passages of a tag are apart by more than the gap, save
\* where the one in the newer passage arrived late.  record_discovery_seen
\* never rejoins passages, so a late sighting may show a break that was none:
\* it brings them closer by its lag, and no lag exceeds Skew.
VisitsApart ==
    \A p, q \in DOMAIN passages :
        p < q /\ passages[p].tag_key = passages[q].tag_key =>
            \A s \in sighted[p], r \in sighted[q] :
                /\ r - s > Gap - Skew
                /\ ~Late(q, r) => r - s > Gap

\* A passage has no break in it: each sighting but the latest is followed by
\* another within the gap, or within the lag a late sighting may have.
PassagesUnbroken ==
    \A p \in DOMAIN passages : \A s \in sighted[p] :
        s < passages[p].last_seen_ms =>
            \E r \in sighted[p] : s < r /\ (r - s <= Gap \/ r - s <= Skew)

\* "Each continuous period of RFID visibility is one passage", as far as the
\* code keeps it: two visits never share a passage, and one visit is two
\* passages only where a sighting arrived late, out of the order of its time.
OneVotePerVisibility == VisitsApart /\ PassagesUnbroken

\* The sightings of p span d.
Spans(p, d) == \E s, r \in sighted[p] : r - s >= d

\* A parked car is told from a passing one by its sightings: a stationary
\* passage has sightings as far apart as the dwell limit, and a passage whose
\* sightings span the limit is stationary unless the earliest of them arrived
\* late.  The dwell is then measured from the one that opened the passage, so
\* up to Skew of it can be missed, and no more.
StationaryIsDwell ==
    \A p \in DOMAIN passages :
        /\ passages[p].stationary => Spans(p, MaxDwell)
        /\ Spans(p, MaxDwell + Skew) => passages[p].stationary
        /\ Spans(p, MaxDwell) =>
              passages[p].stationary \/ \E s \in sighted[p] : Late(p, s)
=============================================================================
