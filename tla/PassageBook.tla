---------------------------- MODULE PassageBook ----------------------------
(***************************************************************************)
(* The passages of the discovery store with the clock taken out.  Whether  *)
(* a sighting opens a passage or continues one, whether it dwelt too long  *)
(* and which rows the retention sweep drops are choices here; PassageLog   *)
(* decides them from the times and the configuration, and implements this  *)
(* module.  Learning composes these operations with the service and the    *)
(* command line.                                                           *)
(***************************************************************************)
EXTENDS Evidence

CONSTANTS
    Tags,         \* tag keys (TIDs or EPC: keys)
    EventTimes,   \* LPR event times the controller can report
    MaxPassages   \* bound on the ids AUTOINCREMENT hands out

ASSUME BookAssumption ==
    /\ EventTimes \subseteq Nat
    /\ MaxPassages \in Nat
    /\ None \notin Tags

VARIABLES
    passages,   \* discovery_passages: id -> row, the live ids its domain
    current,    \* discovery_tags.current_passage_id
    nextId      \* the AUTOINCREMENT sequence of discovery_passages

tables == <<passages, current, nextId>>

PassageIds == 1 .. MaxPassages

Row == [tag_key: Tags, stationary: BOOLEAN, correlation_status: Statuses,
        identity: Identities \cup {None}, lpr_event_ms: Nat \cup {None}]

NewRow(t) == [tag_key |-> t, stationary |-> FALSE,
              correlation_status |-> "pending",
              identity |-> None, lpr_event_ms |-> None]

Without(rows, ids) == [p \in DOMAIN rows \ ids |-> rows[p]]

\* As PassageLog's TypeOK, without the clock.
BookTypeOK ==
    /\ DOMAIN passages \subseteq PassageIds
    /\ passages \in [DOMAIN passages -> Row]
    /\ \A p \in DOMAIN passages : IdentityMatchesStatus(passages[p])
    /\ current \in [Tags -> PassageIds \cup {None}]
    /\ nextId \in 1 .. MaxPassages + 1

BookInit ==
    /\ passages = <<>>
    /\ current = [t \in Tags |-> None]
    /\ nextId = 1

-----------------------------------------------------------------------------
\* The DiscoverySeen of a sighting in the passage p whose row was `row`.
SightingOf(p, row, opened, dwelt) ==
    [passage_id |-> p, new_passage |-> opened,
     correlation_status |-> row.correlation_status,
     long_dwell |-> dwelt, became_long_dwell |-> dwelt /\ ~row.stationary]

\* The tail of record_discovery_seen, the same for a new and a continued
\* passage p: rows and cur are the tables so far, the sweep drops the
\* passages `expired` and closes the tags they were current for.
Commit(p, rows, cur, dwelt, expired) ==
    /\ p \notin expired
    /\ passages' = [Without(rows, expired) EXCEPT ![p].stationary = @ \/ dwelt]
    /\ current' = [t \in Tags |-> IF cur[t] \in expired THEN None ELSE cur[t]]

\* record_discovery_seen when the tag is new, its passage closed, or the
\* gap since its last sighting too long.
OpenPassage(t, expired) ==
    /\ nextId <= MaxPassages
    /\ nextId' = nextId + 1
    /\ Commit(nextId,
              [p \in DOMAIN passages \cup {nextId} |->
                  IF p = nextId THEN NewRow(t) ELSE passages[p]],
              [current EXCEPT ![t] = nextId], FALSE, expired)

\* record_discovery_seen within the current passage.
ContinuePassage(t, dwelt, expired) ==
    /\ current[t] # None
    /\ Commit(current[t], passages, current, dwelt, expired)
    /\ UNCHANGED nextId

\* mark_discovery_passage_ambiguous: a missing or already ambiguous row is
\* left alone.
MarkAmbiguous(p) ==
    /\ passages' =
          IF p \in DOMAIN passages
          THEN [passages EXCEPT ![p] = Ambiguated(@)] ELSE passages
    /\ UNCHANGED <<current, nextId>>

\* record_discovery_match refuses a missing or a stationary passage.
Matchable(p) == p \in DOMAIN passages /\ ~passages[p].stationary

RecordMatch(p, i, e) ==
    /\ Matchable(p)
    /\ passages' = [passages EXCEPT ![p] = MatchedWith(@, i, e)]
    /\ UNCHANGED <<current, nextId>>

\* The passages half of reset_suspended_discovery.
ClearEvidence(t) ==
    /\ passages' = Without(passages,
                           {p \in DOMAIN passages : passages[p].tag_key = t})
    /\ current' = [current EXCEPT ![t] = None]
    /\ UNCHANGED nextId

\* The stationary flag discovery_candidate reads for the tag.
Dwelling(t) == current[t] # None /\ passages[current[t]].stationary

BookNext ==
    \/ \E t \in Tags, expired \in SUBSET DOMAIN passages :
          \/ OpenPassage(t, expired)
          \/ \E dwelt \in BOOLEAN : ContinuePassage(t, dwelt, expired)
    \/ \E p \in PassageIds : MarkAmbiguous(p)
    \/ \E p \in PassageIds, i \in Identities, e \in EventTimes :
          RecordMatch(p, i, e)
    \/ \E t \in Tags : ClearEvidence(t)

BookSpec == BookInit /\ [][BookNext]_tables
=============================================================================
