---------------------------- MODULE PassageLog -----------------------------
(***************************************************************************)
(* discovery_tags and discovery_passages as record_discovery_seen keeps    *)
(* them: sightings carry the reader's time, which decides where a passage  *)
(* ends, when a tag counts as stationary and what the retention sweep      *)
(* forgets (store.rs).                                                     *)
(*                                                                         *)
(* Observation times come from reader events.  They are not monotonic: the *)
(* reader replays buffered events after a reconnection and its clock can   *)
(* be stepped.  Skew bounds how far a sighting may lag the latest one.     *)
(* PassageVisits says what the tables then tell of the visits behind them. *)
(***************************************************************************)
EXTENDS Evidence

CONSTANTS
    Tags, EventTimes, MaxPassages,   \* as in PassageBook
    MaxTime,     \* bound on observation times
    Skew,        \* how far an observation may lag the latest one
    Gap,         \* RFID_DISCOVERY_PASSAGE_GAP_MS
    MaxDwell,    \* RFID_DISCOVERY_MAX_DWELL_MS
    Retention    \* RFID_DISCOVERY_EVIDENCE_DAYS, in milliseconds

\* Config::from_env: positive durations, the dwell limit above the gap.
ASSUME ConfigAssumption ==
    /\ Gap \in Nat \ {0}
    /\ MaxDwell \in Nat \ {0}
    /\ MaxDwell > Gap
    /\ Retention \in Nat \ {0}

ASSUME LogAssumption ==
    /\ MaxTime \in Nat
    /\ Skew \in Nat
    /\ MaxPassages \in Nat
    /\ EventTimes \subseteq Nat
    /\ None \notin Tags

VARIABLES
    tags,       \* discovery_tags: tag key -> row, the seen tags its domain
    passages,   \* discovery_passages: id -> row
    nextId,     \* the AUTOINCREMENT sequence
    seen        \* the DiscoverySeen last returned

vars == <<tags, passages, nextId, seen>>

Times == 0 .. MaxTime
PassageIds == 1 .. MaxPassages

TagRow == [last_seen_ms: Times, session_started_ms: Times,
           current_passage_id: PassageIds \cup {None}]

PassageRow ==
    [tag_key: Tags, started_at_ms: Times, last_seen_ms: Times,
     stationary: BOOLEAN, correlation_status: Statuses,
     identity: Identities \cup {None}, lpr_event_ms: Nat \cup {None}]

Sighting == [passage_id: PassageIds, new_passage: BOOLEAN,
             correlation_status: Statuses,
             long_dwell: BOOLEAN, became_long_dwell: BOOLEAN]

\* The two tables are well formed, and a passage names a vehicle exactly
\* while it is matched (record_discovery_match fills the columns and every
\* path to 'ambiguous' clears them).
TypeOK ==
    /\ DOMAIN tags \subseteq Tags
    /\ tags \in [DOMAIN tags -> TagRow]
    /\ DOMAIN passages \subseteq PassageIds
    /\ passages \in [DOMAIN passages -> PassageRow]
    /\ \A p \in DOMAIN passages : IdentityMatchesStatus(passages[p])
    /\ nextId \in 1 .. MaxPassages + 1
    /\ seen \in Sighting \cup {None}

Init ==
    /\ tags = <<>>
    /\ passages = <<>>
    /\ nextId = 1
    /\ seen = None

-----------------------------------------------------------------------------
\* Faulty variant: the last sighting to arrive, not the latest one.
LastArrived(a, b) == b

Later(a, b) == IF a > b THEN a ELSE b   \* SQL MAX(a, b)

\* The tag of a current passage, if the tag has been seen and has one.
HasCurrent(t) == t \in DOMAIN tags /\ tags[t].current_passage_id # None

\* Faulty variant: a passage ends when the gap is reached, not exceeded.
StartsPassageAtGap(t, at) ==
    HasCurrent(t) => at - tags[t].last_seen_ms >= Gap

\* new_passage in record_discovery_seen.
StartsPassage(t, at) ==
    HasCurrent(t) => at - tags[t].last_seen_ms > Gap

\* The sighting entered in the two tables: last_seen_ms and stationary are
\* MAX updates.
TouchedTag(row, at) == [row EXCEPT !.last_seen_ms = Later(@, at)]

TouchedTags(T, t, at) == [T EXCEPT ![t] = TouchedTag(@, at)]

\* Faulty variant: each sighting overwrites the stationary flag.
RestatedRow(row, at, dwelt) ==
    [row EXCEPT !.last_seen_ms = Later(@, at), !.stationary = dwelt]

TouchedRow(row, at, dwelt) ==
    [row EXCEPT !.last_seen_ms = Later(@, at), !.stationary = @ \/ dwelt]

TouchedPassages(P, p, at, dwelt) == [P EXCEPT ![p] = TouchedRow(@, at, dwelt)]

\* The retention sweep over both tables.  Its first statement closes the
\* current passage of the tags in Closed, its second one deletes the
\* passages in Swept.
Closed(T, P, cutoff) ==
    {t \in DOMAIN T :
        /\ T[t].last_seen_ms < cutoff
        /\ T[t].current_passage_id \in DOMAIN P
        /\ P[T[t].current_passage_id].started_at_ms < cutoff}

Swept(T, P, cutoff) ==
    {p \in DOMAIN P :
        /\ P[p].started_at_ms < cutoff
        /\ \A t \in DOMAIN T \ Closed(T, P, cutoff) :
              T[t].current_passage_id # p}

SweptTags(T, P, cutoff) ==
    [t \in DOMAIN T |->
        IF t \in Closed(T, P, cutoff)
        THEN [T[t] EXCEPT !.current_passage_id = None] ELSE T[t]]

SweptPassages(T, P, cutoff) ==
    [p \in DOMAIN P \ Swept(T, P, cutoff) |-> P[p]]

\* Faulty variant: the flag is compared after the update that sets it.
ObserveUpdated(t, p, at, opened, T, P) ==
    LET dwelt == at - T[t].session_started_ms >= MaxDwell
        T1 == TouchedTags(T, t, at)
        P1 == TouchedPassages(P, p, at, dwelt)
    IN  /\ tags' = SweptTags(T1, P1, at - Retention)
        /\ passages' = SweptPassages(T1, P1, at - Retention)
        /\ seen' = [passage_id |-> p, new_passage |-> opened,
                    correlation_status |-> P[p].correlation_status,
                    long_dwell |-> dwelt,
                    became_long_dwell |-> dwelt /\ ~P1[p].stationary]

\* The part of the transaction new and continued passages share: T and P are
\* the tables with passage p of tag t in place.
Observe(t, p, at, opened, T, P) ==
    LET dwelt == at - T[t].session_started_ms >= MaxDwell
        T1 == TouchedTags(T, t, at)
        P1 == TouchedPassages(P, p, at, dwelt)
    IN  /\ tags' = SweptTags(T1, P1, at - Retention)
        /\ passages' = SweptPassages(T1, P1, at - Retention)
        /\ seen' = [passage_id |-> p, new_passage |-> opened,
                    correlation_status |-> P[p].correlation_status,
                    long_dwell |-> dwelt,
                    became_long_dwell |-> dwelt /\ ~P[p].stationary]

\* The rows a new passage n of tag t inserts or resets.
WithTag(T, t, n, at) ==
    [u \in DOMAIN T \cup {t} |->
        IF u = t
        THEN [last_seen_ms |-> at, session_started_ms |-> at,
              current_passage_id |-> n]
        ELSE T[u]]

WithPassage(P, t, n, at) ==
    [p \in DOMAIN P \cup {n} |->
        IF p = n
        THEN [tag_key |-> t, started_at_ms |-> at, last_seen_ms |-> at,
              stationary |-> FALSE, correlation_status |-> "pending",
              identity |-> None, lpr_event_ms |-> None]
        ELSE P[p]]

OpenPassage(t, at) ==
    /\ StartsPassage(t, at)
    /\ nextId <= MaxPassages
    /\ nextId' = nextId + 1
    /\ Observe(t, nextId, at, TRUE, WithTag(tags, t, nextId, at),
               WithPassage(passages, t, nextId, at))

ContinuePassage(t, at) ==
    /\ ~StartsPassage(t, at)
    /\ Observe(t, tags[t].current_passage_id, at, FALSE, tags, passages)
    /\ UNCHANGED nextId

\* The next reader event lags no sighting on file by more than Skew.
RecordSeen(t, at) ==
    /\ \A u \in DOMAIN tags : at >= tags[u].last_seen_ms - Skew
    /\ OpenPassage(t, at) \/ ContinuePassage(t, at)

MarkAmbiguous(p) ==
    /\ passages' =
          IF p \in DOMAIN passages
          THEN [passages EXCEPT ![p] = Ambiguated(@)] ELSE passages
    /\ UNCHANGED <<tags, nextId, seen>>

RecordMatch(p, i, e) ==
    /\ p \in DOMAIN passages
    /\ ~passages[p].stationary
    /\ passages' = [passages EXCEPT ![p] = MatchedWith(@, i, e)]
    /\ UNCHANGED <<tags, nextId, seen>>

\* Faulty variant: the tag keeps the id of its deleted passage.
ClearPassagesOnly(t) ==
    /\ passages' = [p \in {q \in DOMAIN passages : passages[q].tag_key # t}
                        |-> passages[p]]
    /\ UNCHANGED <<tags, nextId, seen>>

\* reset_suspended_discovery; its guard on the assignment is in Learning.
ClearEvidence(t) ==
    /\ passages' = [p \in {q \in DOMAIN passages : passages[q].tag_key # t}
                        |-> passages[p]]
    /\ tags' = [u \in DOMAIN tags |->
                   IF u = t THEN [tags[u] EXCEPT !.current_passage_id = None]
                   ELSE tags[u]]
    /\ UNCHANGED <<nextId, seen>>

Next ==
    \/ \E t \in Tags, at \in Times : RecordSeen(t, at)
    \/ \E p \in PassageIds : MarkAmbiguous(p)
    \/ \E p \in PassageIds, i \in Identities, e \in EventTimes :
          RecordMatch(p, i, e)
    \/ \E t \in Tags : ClearEvidence(t)

Spec == Init /\ [][Next]_vars

-----------------------------------------------------------------------------
(* Properties.                                                             *)

\* A tag's current passage is a row of that tag and the two tables agree on
\* when it started and was last seen.  record_discovery_seen and
\* discovery_candidate read the row by current_passage_id and fail the event
\* when the sweep, a reset or a late sighting left the id dangling.
CurrentPassageExists ==
    \A t \in DOMAIN tags :
        LET p == tags[t].current_passage_id IN
        p # None =>
            /\ p \in DOMAIN passages
            /\ passages[p].tag_key = t
            /\ passages[p].started_at_ms = tags[t].session_started_ms
            /\ passages[p].last_seen_ms = tags[t].last_seen_ms

\* A verdict is never taken back: an ambiguous passage stays ambiguous, a
\* stationary one stationary, and a matched one never changes hands.
VerdictsOnlyDegrade ==
    [][\A p \in DOMAIN passages \cap DOMAIN passages' :
          /\ passages[p].stationary => passages'[p].stationary
          /\ passages[p].correlation_status = "ambiguous" =>
                passages'[p].correlation_status = "ambiguous"
          /\ passages[p].correlation_status = "matched" =>
                \/ passages'[p].correlation_status = "ambiguous"
                \/ passages'[p].identity = passages[p].identity]_vars

\* What record_discovery_seen returns is the truth about the row as the
\* transaction found it, and every passage that becomes stationary is
\* reported as such exactly once: became_long_dwell is the only thing that
\* suspends a parked tag.
SightingsAreTrue ==
    [][seen' # seen =>
          LET p == seen'.passage_id IN
          /\ p \in DOMAIN passages'
          /\ seen'.new_passage <=> p \notin DOMAIN passages
          /\ ~seen'.new_passage =>
                /\ seen'.correlation_status = passages[p].correlation_status
                /\ seen'.became_long_dwell <=>
                      passages'[p].stationary /\ ~passages[p].stationary]_vars

\* The store without its clock.
Book == INSTANCE PassageBook WITH
    passages <- [p \in DOMAIN passages |->
        [tag_key |-> passages[p].tag_key,
         stationary |-> passages[p].stationary,
         correlation_status |-> passages[p].correlation_status,
         identity |-> passages[p].identity,
         lpr_event_ms |-> passages[p].lpr_event_ms]],
    current <- [t \in Tags |->
        IF t \in DOMAIN tags THEN tags[t].current_passage_id ELSE None]

\* Every operation of the timed store is an operation of the abstract book
\* that Learning is built on.
ImplementsBook == Book!BookSpec
=============================================================================
