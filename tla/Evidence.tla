------------------------------ MODULE Evidence ------------------------------
(***************************************************************************)
(* Rows of discovery_passages as evidence, and the pure decisions the      *)
(* store takes over them: the verdict a new LPR match gives a passage, the *)
(* candidate a tag's passages add up to, and the conflicts that suspend an *)
(* assignment (store.rs).                                                  *)
(*                                                                         *)
(* An identity stands for the triple (plate family, LPR actor type, actor  *)
(* id).  canonical_plate_key and same_plate_family compare plates the same *)
(* way, so that one value is enough for both.                              *)
(***************************************************************************)
EXTENDS Integers, FiniteSets

CONSTANTS
    Identities,      \* (plate family, actor type, actor id) triples
    Visitors,        \* the identities whose actor type is "visitor"
    KeyRank,         \* the byte order of DiscoveryIdentityKey, used in ties
    DayLength,       \* milliseconds of a day, in model time units
    MinOccurrences,  \* RFID_DISCOVERY_MIN_OCCURRENCES
    EpcTags,         \* the tag keys whose identity kind is "epc"
    EpcMinOccurrences,  \* what it is raised to for them: 5 in main.rs
    MinDays,         \* RFID_DISCOVERY_MIN_DAYS
    MinConfidence,   \* RFID_DISCOVERY_MIN_CONFIDENCE_PERCENT
    ConflictLimit,   \* RFID_DISCOVERY_CONFLICT_OCCURRENCES
    None             \* SQL NULL

\* config.rs reads every threshold with positive_number.
ASSUME ThresholdAssumption ==
    /\ MinOccurrences \in Nat \ {0}
    /\ EpcMinOccurrences \in Nat
    /\ MinDays \in Nat \ {0}
    /\ MinConfidence \in 1 .. 100
    /\ ConflictLimit \in Nat \ {0}
    /\ DayLength \in Nat \ {0}

ASSUME IdentityAssumption ==
    /\ Visitors \subseteq Identities
    /\ KeyRank \in [Identities -> Nat]
    /\ \A i, j \in Identities : KeyRank[i] = KeyRank[j] => i = j
    /\ None \notin Identities
    /\ None \notin Nat

Statuses == {"pending", "matched", "ambiguous"}

\* The plate, actor and event columns are filled exactly on a matched row.
IdentityMatchesStatus(row) ==
    /\ row.correlation_status = "matched" <=> row.identity # None
    /\ row.correlation_status = "matched" <=> row.lpr_event_ms # None

-----------------------------------------------------------------------------
(* Verdicts on one passage.                                                *)

\* Faulty variant: the plate and actor columns are not cleared.
AmbiguatedInPart(row) == [row EXCEPT !.correlation_status = "ambiguous"]

\* The row with its match withdrawn: mark_discovery_passage_ambiguous, and
\* the third arm of record_discovery_match.
Ambiguated(row) ==
    [row EXCEPT !.correlation_status = "ambiguous",
                !.identity = None, !.lpr_event_ms = None]

\* Faulty variant: the last vehicle wins.
Overwritten(row, i, e) ==
    IF row.correlation_status = "ambiguous" THEN row
    ELSE [row EXCEPT !.correlation_status = "matched",
                     !.identity = i, !.lpr_event_ms = e]

\* The row after record_discovery_match(identity i, event time e).
MatchedWith(row, i, e) ==
    IF row.correlation_status = "pending"
    THEN [row EXCEPT !.correlation_status = "matched",
                     !.identity = i, !.lpr_event_ms = e]
    ELSE IF row.correlation_status = "matched" /\ row.identity # i
         THEN Ambiguated(row)
         ELSE row

\* PassageMatchOutcome of the same call.
MatchOutcome(row, i) ==
    CASE row.correlation_status = "pending" -> "Recorded"
      [] row.correlation_status = "matched" /\ row.identity # i -> "Ambiguous"
      [] OTHER -> "Duplicate"

-----------------------------------------------------------------------------
(* What a set of passages adds up to.  rows is a function from passage ids *)
(* to rows.                                                                *)

\* The rows discovery_candidate reads for a tag.
Countable(rows, t) ==
    {p \in DOMAIN rows : rows[p].tag_key = t /\ ~rows[p].stationary}

\* Passages of t matched with identity i: one vote each.
Votes(rows, t, i) ==
    {p \in Countable(rows, t) :
        rows[p].correlation_status = "matched" /\ rows[p].identity = i}

Candidates(rows, t) == {i \in Identities : Votes(rows, t, i) # {}}

Occurrences(rows, t, i) == Cardinality(Votes(rows, t, i))

LastMatch(rows, t, i) ==
    CHOOSE e \in {rows[p].lpr_event_ms : p \in Votes(rows, t, i)} :
        \A p \in Votes(rows, t, i) : rows[p].lpr_event_ms <= e

DistinctDays(rows, t, i) ==
    Cardinality({rows[p].lpr_event_ms \div DayLength : p \in Votes(rows, t, i)})

\* The comparator of ranked.sort_by: i ranks before j.
Outranks(rows, t, i, j) ==
    \/ Occurrences(rows, t, i) > Occurrences(rows, t, j)
    \/ /\ Occurrences(rows, t, i) = Occurrences(rows, t, j)
       /\ \/ LastMatch(rows, t, i) > LastMatch(rows, t, j)
          \/ /\ LastMatch(rows, t, i) = LastMatch(rows, t, j)
             /\ KeyRank[i] < KeyRank[j]

\* ranked.remove(0).
Leader(rows, t) ==
    CHOOSE i \in Candidates(rows, t) :
        \A j \in Candidates(rows, t) \ {i} : Outranks(rows, t, i, j)

\* conflicting_occurrences < conflict_occurrences: the strongest other group.
FewConflicts(rows, t, i) ==
    \A j \in Candidates(rows, t) \ {i} : Occurrences(rows, t, j) < ConflictLimit

ConfidencePercent(rows, t, i) ==
    (Occurrences(rows, t, i) * 100) \div Cardinality(Countable(rows, t))

\* The occurrences a tag needs: an EPC can be rewritten, so that a tag known
\* only by its EPC needs five.
MinVotes(t) ==
    IF t \in EpcTags /\ MinOccurrences < EpcMinOccurrences
    THEN EpcMinOccurrences ELSE MinOccurrences

\* DiscoveryCandidate.ready, with dwelling the stationary flag of the tag's
\* current passage.
Ready(rows, t, i, dwelling) ==
    /\ ~dwelling
    /\ Occurrences(rows, t, i) >= MinVotes(t)
    /\ DistinctDays(rows, t, i) >= MinDays
    /\ ConfidencePercent(rows, t, i) >= MinConfidence
    /\ FewConflicts(rows, t, i)

\* The identity discovery_candidate would hand out as ready, or None.
ReadyCandidate(rows, t, dwelling) ==
    IF Candidates(rows, t) = {} \/ ~Ready(rows, t, Leader(rows, t), dwelling)
    THEN None ELSE Leader(rows, t)

\* count_discovery_conflicts against an assignment to i: every vote for
\* another identity counts, whichever identity it is for.
Conflicts(rows, t, i) ==
    Cardinality({p \in Countable(rows, t) :
        rows[p].correlation_status = "matched" /\ rows[p].identity # i})
=============================================================================
