--------------------------- MODULE LearningProofs ---------------------------
(***************************************************************************)
(* Proofs about Learning: its types, that all actors together implement    *)
(* Ownership, and what an activation and a renewal by the service rest on. *)
(* The inductive invariant IInv says of the two tables that an open        *)
(* passage belongs to its tag, and of the handler what its locals still    *)
(* tell about the database at each await.                                  *)
(***************************************************************************)
EXTENDS Learning, FiniteSetTheorems, TLAPS

-----------------------------------------------------------------------------
(* The tables.                                                             *)

\* The tables P, C and n (passages, current, nextId) are well typed, ids are
\* handed out once, and the current passage of a tag is a row of that tag.
SoundBook(P, C, n) ==
    /\ DOMAIN P \subseteq PassageIds
    /\ P \in [DOMAIN P -> Row]
    /\ \A p \in DOMAIN P : IdentityMatchesStatus(P[p])
    /\ C \in [Tags -> PassageIds \cup {None}]
    /\ n \in 1 .. MaxPassages + 1
    /\ \A p \in DOMAIN P : p < n
    /\ \A t \in Tags : C[t] # None => C[t] \in DOMAIN P /\ P[C[t]].tag_key = t

\* A new row under an id not used before.
LEMMA OpenedSound ==
  ASSUME NEW P, NEW C, NEW n, SoundBook(P, C, n), n <= MaxPassages,
         NEW t \in Tags
  PROVE  SoundBook([p \in DOMAIN P \cup {n} |->
                       IF p = n THEN NewRow(t) ELSE P[p]],
                   [C EXCEPT ![t] = n], n + 1)
  <1> DEFINE Q == [p \in DOMAIN P \cup {n} |-> IF p = n THEN NewRow(t) ELSE P[p]]
             D == [C EXCEPT ![t] = n]
  <1>1. /\ n \in PassageIds /\ n \notin DOMAIN P /\ n # None
        /\ DOMAIN Q = DOMAIN P \cup {n}
        /\ Q[n] = NewRow(t)
        /\ \A p \in DOMAIN P : Q[p] = P[p]
        /\ Q = [p \in DOMAIN Q |-> Q[p]]
    BY BookAssumption, IdentityAssumption DEF SoundBook, PassageIds
  <1>2. NewRow(t) \in Row /\ NewRow(t).tag_key = t
        /\ IdentityMatchesStatus(NewRow(t))
    BY DEF NewRow, Row, Statuses, IdentityMatchesStatus
  <1>3. D \in [Tags -> PassageIds \cup {None}] /\ D[t] = n
        /\ \A u \in Tags \ {t} : D[u] = C[u]
    BY <1>1 DEF SoundBook
  <1> HIDE DEF Q, D
  <1>4. Q \in [DOMAIN Q -> Row]
    BY <1>1, <1>2 DEF SoundBook
  <1>5. \A p \in DOMAIN Q : IdentityMatchesStatus(Q[p]) /\ p < n + 1
    BY <1>1, <1>2 DEF SoundBook, PassageIds
  <1>6. n + 1 \in 1 .. MaxPassages + 1 /\ DOMAIN Q \subseteq PassageIds
    BY <1>1, BookAssumption DEF SoundBook, PassageIds
  <1>7. ASSUME NEW u \in Tags, D[u] # None
        PROVE  D[u] \in DOMAIN Q /\ Q[D[u]].tag_key = u
    BY <1>1, <1>2, <1>3, <1>7 DEF SoundBook
  <1> QED BY <1>3, <1>4, <1>5, <1>6, <1>7 DEF SoundBook, Q, D

\* The tail of record_discovery_seen: sweep, close, and the stationary flag.
LEMMA CommittedSound ==
  ASSUME NEW P, NEW C, NEW n, SoundBook(P, C, n), NEW p \in DOMAIN P,
         NEW expired, p \notin expired, NEW dwelt \in BOOLEAN
  PROVE  SoundBook([Without(P, expired) EXCEPT ![p].stationary = @ \/ dwelt],
                   [t \in Tags |-> IF C[t] \in expired THEN None ELSE C[t]], n)
  <1> DEFINE row == [P[p] EXCEPT !.stationary = @ \/ dwelt]
             Q == [Without(P, expired) EXCEPT ![p].stationary = @ \/ dwelt]
             D == [t \in Tags |-> IF C[t] \in expired THEN None ELSE C[t]]
  <1>1. /\ DOMAIN Q = DOMAIN P \ expired
        /\ Q[p] = row
        /\ \A q \in DOMAIN Q \ {p} : Q[q] = P[q]
        /\ Q = [q \in DOMAIN Q |-> Q[q]]
    BY DEF Without
  <1>2. P[p] \in Row
    BY DEF SoundBook
  <1>3. row \in Row /\ row.tag_key = P[p].tag_key
        /\ row.correlation_status = P[p].correlation_status
        /\ row.identity = P[p].identity /\ row.lpr_event_ms = P[p].lpr_event_ms
    <2>1. row.stationary \in BOOLEAN
      BY <1>2, Zenon DEF Row
    <2> QED BY <1>2, <2>1 DEF Row
  <1>4. /\ D \in [Tags -> PassageIds \cup {None}]
        /\ \A t \in Tags : D[t] # None => D[t] = C[t] /\ C[t] \notin expired
    BY DEF SoundBook
  <1> HIDE DEF Q, D, row
  <1>5. Q \in [DOMAIN Q -> Row]
    BY <1>1, <1>3 DEF SoundBook
  <1>6. \A q \in DOMAIN Q : IdentityMatchesStatus(Q[q])
    BY <1>1, <1>3 DEF SoundBook, IdentityMatchesStatus
  <1>7. ASSUME NEW t \in Tags, D[t] # None
        PROVE  D[t] \in DOMAIN Q /\ Q[D[t]].tag_key = t
    BY <1>1, <1>3, <1>4, <1>7 DEF SoundBook
  <1> QED BY <1>1, <1>4, <1>5, <1>6, <1>7 DEF SoundBook, Q, D

\* Replacing a row by another one of the same tag.
LEMMA ReplacedSound ==
  ASSUME NEW P, NEW C, NEW n, SoundBook(P, C, n), NEW p \in DOMAIN P,
         NEW row \in Row, IdentityMatchesStatus(row),
         row.tag_key = P[p].tag_key
  PROVE  SoundBook([P EXCEPT ![p] = row], C, n)
  BY DEF SoundBook

\* A withdrawn match leaves a well-formed row of the same tag.
LEMMA AmbiguatedRow ==
  ASSUME NEW row \in Row
  PROVE  /\ Ambiguated(row) \in Row
         /\ IdentityMatchesStatus(Ambiguated(row))
         /\ Ambiguated(row).tag_key = row.tag_key
  BY DEF Ambiguated, Row, Statuses, IdentityMatchesStatus

\* So does record_discovery_match, whichever of its arms is taken.
LEMMA MatchedRow ==
  ASSUME NEW row \in Row, IdentityMatchesStatus(row),
         NEW i \in Identities, NEW e \in Nat
  PROVE  /\ MatchedWith(row, i, e) \in Row
         /\ IdentityMatchesStatus(MatchedWith(row, i, e))
         /\ MatchedWith(row, i, e).tag_key = row.tag_key
  <1>1. CASE row.correlation_status = "pending"
    BY <1>1, IdentityAssumption
       DEF MatchedWith, Row, Statuses, IdentityMatchesStatus
  <1>2. CASE row.correlation_status = "matched" /\ row.identity # i
    BY <1>2, AmbiguatedRow DEF MatchedWith
  <1>3. CASE /\ row.correlation_status # "pending"
             /\ ~(row.correlation_status = "matched" /\ row.identity # i)
    BY <1>3 DEF MatchedWith
  <1> QED BY <1>1, <1>2, <1>3

\* A reset: the tag's passages are gone and it has no current one.
LEMMA ClearedSound ==
  ASSUME NEW P, NEW C, NEW n, SoundBook(P, C, n), NEW t \in Tags
  PROVE  SoundBook(Without(P, {p \in DOMAIN P : P[p].tag_key = t}),
                   [C EXCEPT ![t] = None], n)
  BY DEF SoundBook, Without

-----------------------------------------------------------------------------
(* The evidence.                                                           *)

\* A ready candidate is one of the identities: readiness takes at least one
\* vote, and only a match leaves an identity in a row.
LEMMA ReadyIsIdentity ==
  ASSUME NEW P, NEW C, NEW n, SoundBook(P, C, n), NEW t, NEW d,
         ReadyCandidate(P, t, d) # None
  PROVE  ReadyCandidate(P, t, d) \in Identities
  <1> DEFINE i == Leader(P, t)
  <1>1. ReadyCandidate(P, t, d) = i /\ Occurrences(P, t, i) >= MinVotes(t)
    BY DEF ReadyCandidate, Ready
  <1>2. MinVotes(t) \in Nat \ {0}
    BY ThresholdAssumption DEF MinVotes
  <1>3. Votes(P, t, i) # {}
    BY <1>1, <1>2, FS_EmptySet DEF Occurrences
  <1> HIDE DEF i
  <1>4. \E p \in DOMAIN P : P[p].correlation_status = "matched" /\ P[p].identity = i
    BY <1>3 DEF Votes, Countable
  <1>5. i \in Identities
    BY <1>4 DEF SoundBook, Row, IdentityMatchesStatus
  <1> QED BY <1>1, <1>5

\* A tag has at most MaxPassages votes.
LEMMA OccurrencesBounded ==
  ASSUME NEW P, NEW C, NEW n, SoundBook(P, C, n), NEW t, NEW i
  PROVE  Occurrences(P, t, i) \in 0 .. MaxPassages
  <1>1. IsFiniteSet(PassageIds) /\ Cardinality(PassageIds) = MaxPassages
    BY FS_Interval, BookAssumption DEF PassageIds
  <1>2. Votes(P, t, i) \subseteq PassageIds
    BY DEF SoundBook, Votes, Countable
  <1>3. /\ IsFiniteSet(Votes(P, t, i))
        /\ Cardinality(Votes(P, t, i)) <= Cardinality(PassageIds)
    BY <1>1, <1>2, FS_Subset
  <1>4. Cardinality(Votes(P, t, i)) \in Nat
    BY <1>3, FS_CardinalityType
  <1> QED BY <1>1, <1>3, <1>4, BookAssumption DEF Occurrences

\* What is found for a tag depends on that tag's rows alone.
LEMMA SameEvidence ==
  ASSUME NEW P, NEW Q, NEW t, NEW d,
         Countable(P, t) = Countable(Q, t),
         \A p \in Countable(P, t) : P[p] = Q[p]
  PROVE  /\ ReadyCandidate(P, t, d) = ReadyCandidate(Q, t, d)
         /\ \A i : Occurrences(P, t, i) = Occurrences(Q, t, i)
  <1>1. \A i : Votes(P, t, i) = Votes(Q, t, i)
    BY DEF Votes
  <1>2. \A i : Occurrences(P, t, i) = Occurrences(Q, t, i)
    BY <1>1, Zenon DEF Occurrences
  <1>3. \A i : \A p \in Votes(P, t, i) : P[p] = Q[p]
    BY DEF Votes
  <1>4. Candidates(P, t) = Candidates(Q, t)
    BY <1>1 DEF Candidates
  <1>5. ASSUME NEW i PROVE LastMatch(P, t, i) = LastMatch(Q, t, i)
    <2> DEFINE V == Votes(Q, t, i)
    <2>1. /\ V = Votes(P, t, i) /\ V = Votes(Q, t, i)
          /\ \A p \in V : P[p] = Q[p]
      BY <1>1, <1>3
    <2> HIDE DEF V
    <2>2. {P[p].lpr_event_ms : p \in V} = {Q[p].lpr_event_ms : p \in V}
      BY <2>1
    <2>3. \A e : (\A p \in V : P[p].lpr_event_ms <= e)
                    <=> (\A p \in V : Q[p].lpr_event_ms <= e)
      BY <2>1, Zenon
    <2>4. (CHOOSE e \in {P[p].lpr_event_ms : p \in V} :
              \A p \in V : P[p].lpr_event_ms <= e)
          = CHOOSE e \in {Q[p].lpr_event_ms : p \in V} :
              \A p \in V : Q[p].lpr_event_ms <= e
      BY <2>2, <2>3, Zenon
    <2> QED BY <2>1, <2>4, Zenon DEF LastMatch
  <1>6. ASSUME NEW i PROVE DistinctDays(P, t, i) = DistinctDays(Q, t, i)
    <2> DEFINE V == Votes(Q, t, i)
    <2>1. V = Votes(P, t, i) /\ \A p \in V : P[p] = Q[p]
      BY <1>1, <1>3
    <2> HIDE DEF V
    <2>2. {P[p].lpr_event_ms \div DayLength : p \in V}
             = {Q[p].lpr_event_ms \div DayLength : p \in V}
      BY <2>1
    <2> QED BY <2>1, <2>2, Zenon DEF DistinctDays, V
  <1>7. ASSUME NEW i, NEW j
        PROVE  Outranks(P, t, i, j) <=> Outranks(Q, t, i, j)
    <2>1. /\ Occurrences(P, t, i) = Occurrences(Q, t, i)
          /\ Occurrences(P, t, j) = Occurrences(Q, t, j)
          /\ LastMatch(P, t, i) = LastMatch(Q, t, i)
          /\ LastMatch(P, t, j) = LastMatch(Q, t, j)
      BY <1>2, <1>5
    <2> QED BY <2>1 DEF Outranks
  <1>8. Leader(P, t) = Leader(Q, t)
    <2> DEFINE S == Candidates(Q, t)
    <2>1. (CHOOSE i \in S : \A j \in S \ {i} : Outranks(P, t, i, j))
          = CHOOSE i \in S : \A j \in S \ {i} : Outranks(Q, t, i, j)
      <3> HIDE DEF S
      <3> QED BY <1>7, Zenon
    <2> QED BY <1>4, <2>1, Zenon DEF Leader
  <1>9. \A i : Ready(P, t, i, d) <=> Ready(Q, t, i, d)
    BY <1>2, <1>4, <1>6, Zenon DEF Ready, ConfidencePercent, FewConflicts
  <1>10. ReadyCandidate(P, t, d) = ReadyCandidate(Q, t, d)
    BY <1>4, <1>8, <1>9, Zenon DEF ReadyCandidate
  <1> QED BY <1>2, <1>10

-----------------------------------------------------------------------------
(* The inductive invariant.                                                *)

BookIsSound == SoundBook(passages, current, nextId)

\* TypeOK without the tables.
Types ==
    /\ owner \in [Tags -> Assignment \cup {NoOwner}]
    /\ audited \in [Tags -> 0 .. MaxPassages]
    /\ \/ pc = "idle" /\ event = None
       \/ pc \in Steps /\ event \in Event
    /\ cli \in [Operators -> [tag_key: Tags, found: Candidate] \cup {None}]
    /\ failures \in 0 .. MaxFailures

\* Nobody can reset the assignment of tag t: there is none, or it is not a
\* suspended one, and only the handler itself suspends.
NotResettable(t) == owner[t] = NoOwner \/ owner[t].status # "suspended"

\* What the handler may still rely on about the tag t in its hands: between
\* Propose and ActivateTag the candidate it read, between RenewRead and
\* RenewWrite that the assignment names the matched vehicle.
Knows(t) ==
    /\ pc \in {"propose", "validate", "extend"} => NotResettable(t)
    /\ pc \in {"validate", "audit"} => event.candidate # None
    /\ pc = "validate" => /\ event.candidate = Found(t)
                          /\ event.candidate.identity \notin Visitors
    /\ pc = "extend" => owner[t] # NoOwner /\ owner[t].identity = event.match

InHand(t) == pc # "idle" /\ event.tag_key = t

IInv ==
    /\ BookIsSound
    /\ Types
    /\ \A t \in Tags : InHand(t) => Knows(t)

\* The invariant contains the run's type invariant.
LEMMA IInvTypeOK == IInv => TypeOK
  BY DEF IInv, BookIsSound, SoundBook, Types, TypeOK, BookTypeOK

\* An empty database and an idle service satisfy it.
LEMMA InitIInv == Init => IInv
  BY BookAssumption, LearningAssumption
     DEF Init, BookInit, IInv, BookIsSound, SoundBook, Types, InHand, Row

-----------------------------------------------------------------------------
(* Its three parts are kept.  First the tables.                            *)

\* What discovery_candidate hands out is a candidate or nothing.
LEMMA FoundTyped ==
  ASSUME BookIsSound, NEW t \in Tags
  PROVE  Found(t) \in Candidate \cup {None}
  BY ReadyIsIdentity, OccurrencesBounded DEF BookIsSound, Found, Candidate

\* A sighting that opens a passage keeps the tables sound.
LEMMA OpenKeepsBook ==
  ASSUME BookIsSound, NEW t \in Tags, NEW expired, OpenPassage(t, expired)
  PROVE  BookIsSound'
  <1> DEFINE P == [p \in DOMAIN passages \cup {nextId} |->
                      IF p = nextId THEN NewRow(t) ELSE passages[p]]
             C == [current EXCEPT ![t] = nextId]
  <1>1. SoundBook(P, C, nextId + 1)
    BY OpenedSound DEF BookIsSound, OpenPassage
  <1>2. nextId \in DOMAIN P /\ nextId' = nextId + 1
        /\ Commit(nextId, P, C, FALSE, expired)
    BY DEF OpenPassage
  <1> HIDE DEF P, C
  <1> QED BY <1>1, <1>2, CommittedSound DEF Commit, BookIsSound

\* And one that continues a passage.
LEMMA ContinueKeepsBook ==
  ASSUME BookIsSound, NEW t \in Tags, NEW dwelt \in BOOLEAN, NEW expired,
         ContinuePassage(t, dwelt, expired)
  PROVE  BookIsSound'
  <1>1. current[t] \in DOMAIN passages
    BY DEF BookIsSound, SoundBook, ContinuePassage
  <1> QED
    BY <1>1, CommittedSound DEF ContinuePassage, Commit, BookIsSound

\* So does withdrawing a match, of a missing passage too.
LEMMA AmbiguityKeepsBook ==
  ASSUME BookIsSound, NEW p, MarkAmbiguous(p)
  PROVE  BookIsSound'
  <1>1. CASE p \notin DOMAIN passages
    BY <1>1 DEF MarkAmbiguous, BookIsSound
  <1>2. CASE p \in DOMAIN passages
    <2>1. SoundBook([passages EXCEPT ![p] = Ambiguated(passages[p])],
                    current, nextId)
      BY <1>2, AmbiguatedRow, ReplacedSound DEF BookIsSound, SoundBook
    <2> QED BY <1>2, <2>1 DEF MarkAmbiguous, BookIsSound
  <1> QED BY <1>1, <1>2

\* So does recording one.
LEMMA MatchKeepsBook ==
  ASSUME BookIsSound, NEW p, NEW i \in Identities, NEW e \in EventTimes,
         RecordMatch(p, i, e)
  PROVE  BookIsSound'
  <1>1. p \in DOMAIN passages /\ e \in Nat
    BY BookAssumption DEF RecordMatch, Matchable
  <1>2. SoundBook([passages EXCEPT ![p] = MatchedWith(passages[p], i, e)],
                  current, nextId)
    BY <1>1, MatchedRow, ReplacedSound DEF BookIsSound, SoundBook
  <1> QED BY <1>2 DEF RecordMatch, BookIsSound

\* So does a reset.
LEMMA ClearKeepsBook ==
  ASSUME BookIsSound, NEW t \in Tags, ClearEvidence(t)
  PROVE  BookIsSound'
  BY ClearedSound DEF ClearEvidence, BookIsSound

\* A reset of one tag leaves what is found for the others as it is.
LEMMA ClearKeepsFound ==
  ASSUME BookIsSound, NEW t \in Tags, NEW u \in Tags \ {t}, ClearEvidence(u)
  PROVE  Found(t)' = Found(t)
  <1>1. /\ Countable(passages', t) = Countable(passages, t)
        /\ \A p \in Countable(passages', t) : passages'[p] = passages[p]
    BY DEF ClearEvidence, Without, Countable
  <1>2. current'[t] = current[t]
    BY DEF ClearEvidence, BookIsSound, SoundBook
  <1>3. Dwelling(t)' = Dwelling(t)
    BY <1>2 DEF Dwelling, ClearEvidence, Without, BookIsSound, SoundBook
  <1> DEFINE d == Dwelling(t)
  <1>4. /\ ReadyCandidate(passages', t, d) = ReadyCandidate(passages, t, d)
        /\ \A i : Occurrences(passages', t, i) = Occurrences(passages, t, i)
    <2> HIDE DEF d
    <2> QED BY <1>1, SameEvidence
  <1> QED BY <1>3, <1>4 DEF Found

\* Every step of the service and of the commands keeps the tables sound.
LEMMA NextBook ==
  ASSUME IInv, Next
  PROVE  BookIsSound'
  <1> USE DEF IInv
  <1>1. ASSUME NEW t \in Tags, Sight(t) PROVE BookIsSound'
    BY <1>1, OpenKeepsBook, ContinueKeepsBook DEF Sight
  <1>2. ASSUME LookupAmbiguous PROVE BookIsSound'
    <2>1. PICK p : p = event.passage_id
      OBVIOUS
    <2> QED BY <1>2, <2>1, AmbiguityKeepsBook DEF LookupAmbiguous
  <1>3. ASSUME NEW i \in Identities, NEW e \in EventTimes, LookupMatch(i, e)
        PROVE  BookIsSound'
    <2>1. PICK p : p = event.passage_id
      OBVIOUS
    <2> QED BY <1>3, <2>1, MatchKeepsBook DEF LookupMatch
  <1>4. ASSUME NEW t \in Tags, ResetLearned(t) PROVE BookIsSound'
    BY <1>4, ClearKeepsBook DEF ResetLearned
  <1>5. ASSUME UNCHANGED tables PROVE BookIsSound'
    BY <1>5 DEF tables, BookIsSound
  <1> QED
    BY <1>1, <1>2, <1>3, <1>4, <1>5
       DEF Next, ServiceStep, ValidateAccepts, Throttled, vars, tables, Retry, SuspendTag,
           LookupNothing, LookupRefused, Assess, RenewRead, RenewWrite, Weigh,
           Propose, ActivateTag, ValidateDryRun, ValidateFails, Audit, Abandon,
           AssociateRead, AssociateApply, AssociateStop, RevokeLearned,
           LeaseExpires

-----------------------------------------------------------------------------
(* Then the types.                                                         *)

\* activate_discovered_tag, by any actor, leaves assignments.
LEMMA ActivatedTyped ==
  ASSUME Types, NEW t \in Tags, NEW found \in Candidate, NEW a \in Actors
  PROVE  Activated(t, found, a) \in [Tags -> Assignment \cup {NoOwner}]
  BY DEF Types, Activated, Candidate, Assignment

\* suspend_discovered_tag leaves assignments.
LEMMA SuspendedTyped ==
  ASSUME Types, NEW t \in Tags
  PROVE  Suspended(t) \in [Tags -> Assignment \cup {NoOwner}]
  BY DEF Types, Suspended, Active, Assignment

\* A row of learned_tag_ownership with one column changed is still one.
LEMMA RowUpdated ==
  ASSUME NEW row \in Assignment,
         NEW status \in {"active", "suspended", "revoked"}, NEW live \in BOOLEAN
  PROVE  /\ [row EXCEPT !.status = status] \in Assignment
         /\ [row EXCEPT !.live = live] \in Assignment
  BY DEF Assignment

\* Every step keeps the variables well typed.
LEMMA NextTypes ==
  ASSUME IInv, Next
  PROVE  Types'
  <1> USE DEF IInv
  <1>1. ASSUME NEW t \in Tags, Sight(t) PROVE Types'
    <2>1. ASSUME NEW p \in PassageIds, NEW s \in Statuses
          PROVE  Arrival(t, p, s) \in Event
      BY DEF Arrival, Event
    <2>2. /\ nextId <= MaxPassages => nextId \in PassageIds
          /\ current[t] # None =>
                /\ current[t] \in PassageIds
                /\ passages[current[t]].correlation_status \in Statuses
      BY BookAssumption DEF BookIsSound, SoundBook, PassageIds, Row
    <2>3. PICK p \in PassageIds, s \in Statuses, b \in {"idle", "suspend", "lookup"} :
              Proceed(b, Arrival(t, p, s))
      BY <1>1, <2>2
         DEF Sight, OpenPassage, ContinuePassage, AfterSighting, SightingOf,
             NewRow, Statuses
    <2> QED BY <1>1, <2>1, <2>3 DEF Sight, Proceed, Types, Steps
  <1>2. ASSUME NEW p \in PassageIds, Retry(p) PROVE Types'
    <2>1. Arrival(passages[p].tag_key, p, "pending") \in Event
      BY <1>2 DEF Retry, BookIsSound, SoundBook, Row, Arrival, Event, Statuses
    <2> QED BY <1>2, <2>1 DEF Retry, Proceed, Types, Steps
  <1>3. ASSUME SuspendTag PROVE Types'
    <2>1. PICK t \in Tags : t = event.tag_key
      BY <1>3 DEF SuspendTag, Types, Event
    <2> QED
      BY <1>3, <2>1, SuspendedTyped DEF SuspendTag, Return, Proceed, Types
  <1>4. ASSUME LookupNothing \/ LookupAmbiguous \/ LookupRefused PROVE Types'
    BY <1>4 DEF LookupNothing, LookupAmbiguous, LookupRefused, Return, Proceed,
                Types, Steps
  <1>5. ASSUME NEW i \in Identities, NEW e \in EventTimes, LookupMatch(i, e)
        PROVE  Types'
    <2>1. [event EXCEPT !.match = i] \in Event
      BY <1>5 DEF LookupMatch, Types, Event
    <2>2. PICK b \in {"idle", "suspend", "assess"} :
              Proceed(b, [event EXCEPT !.match = i])
      BY <1>5 DEF LookupMatch
    <2> QED BY <1>5, <2>1, <2>2 DEF LookupMatch, Proceed, Types, Steps
  <1>6. ASSUME Assess PROVE Types'
    <2>1. PICK t \in Tags : t = event.tag_key
      BY <1>6 DEF Assess, Types, Event
    <2>2. CASE owner[t] = NoOwner
      BY <1>6, <2>1, <2>2 DEF Assess, Proceed, Types, Steps
    <2>3. CASE owner[t] # NoOwner
      <3>1. owner[t].identity \in Identities
        BY <2>3 DEF Types, Assignment
      <3>2. [event EXCEPT !.held = owner[t].identity] \in Event
        BY <1>6, <3>1 DEF Assess, Types, Event
      <3>3. PICK b \in {"idle", "weigh", "renew"} :
                Proceed(b, [event EXCEPT !.held = owner[t].identity])
        BY <1>6, <2>1, <2>3 DEF Assess
      <3> QED BY <1>6, <3>2, <3>3 DEF Assess, Proceed, Types, Steps
    <2> QED BY <2>2, <2>3
  <1>7. ASSUME RenewRead \/ Weigh \/ ValidateDryRun \/ ValidateFails
        PROVE  Types'
    BY <1>7 DEF RenewRead, Weigh, ValidateDryRun, ValidateFails, Return,
                Proceed, Types, Steps
  <1>8. ASSUME RenewWrite PROVE Types'
    <2>1. PICK t \in Tags : t = event.tag_key
      BY <1>8 DEF RenewWrite, Types, Event
    <2>2. owner' \in [Tags -> Assignment \cup {NoOwner}]
      BY <1>8, <2>1, RowUpdated DEF RenewWrite, Active, Types
    <2> QED BY <1>8, <2>2 DEF RenewWrite, Return, Proceed, Types
  <1>9. ASSUME Propose PROVE Types'
    <2>1. PICK t \in Tags : t = event.tag_key
      BY <1>9 DEF Propose, Types, Event
    <2>2. [event EXCEPT !.candidate = Found(t)] \in Event
      BY <1>9, FoundTyped DEF Propose, Types, Event
    <2>3. PICK b \in {"idle", "audit", "validate"} :
              Proceed(b, [event EXCEPT !.candidate = Found(t)])
      BY <1>9, <2>1 DEF Propose
    <2> QED BY <1>9, <2>2, <2>3 DEF Propose, Proceed, Types, Steps
  <1>10. ASSUME ActivateTag PROVE Types'
    <2>1. PICK t \in Tags : t = event.tag_key
      BY <1>10 DEF ActivateTag, Types, Event
    <2>2. event.candidate \in Candidate
      BY <1>10, <2>1 DEF ActivateTag, InHand, Knows, Types, Event
    <2>3. owner' \in [Tags -> Assignment \cup {NoOwner}]
      BY <1>10, <2>1, <2>2, ActivatedTyped DEF ActivateTag, Actors
    <2> QED BY <1>10, <2>3 DEF ActivateTag, Return, Proceed, Types
  <1>11. ASSUME Audit PROVE Types'
    <2>1. PICK t \in Tags : t = event.tag_key
      BY <1>11 DEF Audit, Types, Event
    <2>2. event.candidate \in Candidate
      BY <1>11, <2>1 DEF Audit, InHand, Knows, Types, Event
    <2>3. audited' \in [Tags -> 0 .. MaxPassages]
      BY <1>11, <2>1, <2>2 DEF Audit, Candidate, Types
    <2> QED BY <1>11, <2>3 DEF Audit, Return, Proceed, Types
  <1>12. ASSUME Abandon PROVE Types'
    BY <1>12, LearningAssumption DEF Abandon, Return, Proceed, Types
  <1>13. ASSUME NEW o \in Operators, NEW t \in Tags, AssociateRead(o, t)
         PROVE  Types'
    <2>1. Found(t) \in Candidate
      BY <1>13, FoundTyped DEF AssociateRead
    <2> QED BY <1>13, <2>1 DEF AssociateRead, Types
  <1>14. ASSUME NEW o \in Operators, AssociateApply(o) PROVE Types'
    <2>1. PICK t \in Tags, found \in Candidate :
              t = cli[o].tag_key /\ found = cli[o].found
      BY <1>14 DEF AssociateApply, Types
    <2>2. owner' \in [Tags -> Assignment \cup {NoOwner}]
      BY <1>14, <2>1, ActivatedTyped DEF AssociateApply, Actors
    <2> QED BY <1>14, <2>2 DEF AssociateApply, Types
  <1>15. ASSUME NEW o \in Operators, AssociateStop(o) PROVE Types'
    BY <1>15 DEF AssociateStop, Types
  <1>16. ASSUME NEW t \in Tags, RevokeLearned(t) \/ LeaseExpires(t)
         PROVE  Types'
    <2>1. owner[t] \in Assignment
      BY <1>16 DEF RevokeLearned, LeaseExpires, Types
    <2>2. PICK row \in Assignment : owner' = [owner EXCEPT ![t] = row]
      BY <1>16, <2>1, RowUpdated DEF RevokeLearned, LeaseExpires
    <2>3. owner' \in [Tags -> Assignment \cup {NoOwner}]
      BY <2>2 DEF Types
    <2> QED BY <1>16, <2>3 DEF RevokeLearned, LeaseExpires, Types
  <1>17. ASSUME NEW t \in Tags, ResetLearned(t) PROVE Types'
    BY <1>17, BookAssumption DEF ResetLearned, Types
  <1>18. ASSUME Throttled PROVE Types'
    BY <1>18 DEF Throttled, vars, Types
  <1> QED
    BY <1>1, <1>2, <1>3, <1>4, <1>5, <1>6, <1>7, <1>8, <1>9, <1>10, <1>11,
       <1>12, <1>13, <1>14, <1>15, <1>16, <1>17, <1>18 DEF Next, ServiceStep, ValidateAccepts

-----------------------------------------------------------------------------
(* And what the handler knows.                                             *)

\* A step that leaves the handler alone, and with it what is found for its
\* tag, keeps what it knows when a resettable assignment does not appear and
\* an assignment keeps its vehicle.
LEMMA OthersKeepKnows ==
  ASSUME IInv, UNCHANGED <<pc, event>>, NEW t \in Tags, InHand(t),
         pc = "validate" => Found(t)' = Found(t),
         NotResettable(t) => NotResettable(t)',
         pc = "extend" => /\ owner'[t] # NoOwner
                          /\ owner'[t].identity = owner[t].identity
  PROVE  Knows(t)'
  BY DEF IInv, InHand, Knows

\* What is found for a tag changes only with the tables.
LEMMA FoundUnchanged ==
  ASSUME UNCHANGED tables, NEW t
  PROVE  Found(t)' = Found(t)
  BY DEF tables, Found, Dwelling

\* Every step keeps true what the handler relies on about its tag.
LEMMA NextKnows ==
  ASSUME IInv, Next, NEW t \in Tags, InHand(t)'
  PROVE  Knows(t)'
  <1> USE DEF IInv
  <1>1. ASSUME NEW u \in Tags, Sight(u) PROVE Knows(t)'
    <2>1. pc' \in {"idle", "suspend", "lookup"}
      BY <1>1 DEF Sight, AfterSighting, Proceed
    <2> QED BY <2>1 DEF Knows
  <1>2. ASSUME \/ \E p \in PassageIds : Retry(p)
               \/ LookupAmbiguous
               \/ Weigh
               \/ \E i \in Identities, e \in EventTimes : LookupMatch(i, e)
        PROVE  Knows(t)'
    <2>1. pc' \in {"idle", "suspend", "lookup", "assess"}
      BY <1>2 DEF Retry, LookupAmbiguous, Weigh, LookupMatch, Proceed
    <2> QED BY <2>1 DEF Knows
  <1>3. ASSUME \/ SuspendTag \/ LookupNothing \/ LookupRefused \/ RenewWrite
               \/ ActivateTag \/ ValidateFails \/ Audit \/ Abandon
        PROVE  FALSE
    BY <1>3 DEF SuspendTag, LookupNothing, LookupRefused, RenewWrite, ActivateTag,
                ValidateFails, Audit, Abandon, Return, Proceed, InHand
  <1>4. ASSUME Assess PROVE Knows(t)'
    <2>1. event.tag_key = t
      BY <1>4 DEF Assess, Proceed, InHand, Types, Event
    <2>2. pc' \in {"propose", "idle", "weigh", "renew"}
          /\ (pc' = "propose" => owner[t] = NoOwner)
      BY <1>4, <2>1 DEF Assess, Proceed
    <2> QED BY <1>4, <2>2 DEF Assess, Knows, NotResettable
  <1>5. ASSUME RenewRead PROVE Knows(t)'
    <2>1. event' = event /\ pc' = "extend" /\ owner' = owner
          /\ event.tag_key = t
      BY <1>5 DEF RenewRead, Proceed, InHand
    <2>2. Active(t) /\ owner[t].identity = event.match
      BY <1>5, <2>1 DEF RenewRead, Proceed
    <2> QED BY <2>1, <2>2 DEF Knows, NotResettable, Active
  <1>6. ASSUME Propose PROVE Knows(t)'
    <2> DEFINE found == Found(event.tag_key)
    <2>1. event.tag_key = t /\ event' = [event EXCEPT !.candidate = Found(t)]
          /\ pc' \in {"audit", "validate"} /\ Found(t) # None
          /\ (pc' = "validate" => Found(t).identity \notin Visitors)
          /\ pc = "propose" /\ owner' = owner /\ UNCHANGED tables
      BY <1>6 DEF Propose, Proceed, InHand, Types, Event
    <2>2. NotResettable(t)
      BY <2>1 DEF InHand, Knows
    <2>3. event'.candidate = Found(t)
      BY <1>6, <2>1 DEF Propose, Types, Event
    <2>4. Found(t)' = Found(t)
      BY <2>1, FoundUnchanged
    <2> QED BY <2>1, <2>2, <2>3, <2>4 DEF Knows, NotResettable
  <1>7. ASSUME ValidateDryRun PROVE Knows(t)'
    <2>1. event' = event /\ pc' = "audit" /\ pc = "validate"
      BY <1>7 DEF ValidateDryRun, Proceed
    <2> QED BY <2>1 DEF Knows, InHand
  <1>8. ASSUME NEW o \in Operators,
               \/ \E u \in Tags : AssociateRead(o, u)
               \/ AssociateStop(o)
        PROVE  Knows(t)'
    <2>1. UNCHANGED <<pc, event, owner, tables>>
      BY <1>8 DEF AssociateRead, AssociateStop
    <2> QED
      BY <2>1, FoundUnchanged, OthersKeepKnows DEF NotResettable, InHand, Knows
  <1>9. ASSUME NEW o \in Operators, AssociateApply(o) PROVE Knows(t)'
    <2>1. /\ UNCHANGED <<pc, event, tables>>
          /\ owner' = Activated(cli[o].tag_key, cli[o].found, o)
      BY <1>9 DEF AssociateApply
    <2>2. \/ owner'[t] = owner[t]
          \/ owner[t] = NoOwner /\ owner'[t].status = "active"
      BY <2>1 DEF Activated, Types
    <2> QED
      BY <2>1, <2>2, FoundUnchanged, OthersKeepKnows
         DEF NotResettable, InHand, Knows
  <1>10. ASSUME NEW u \in Tags, RevokeLearned(u) PROVE Knows(t)'
    <2>1. UNCHANGED <<pc, event, tables>>
      BY <1>10 DEF RevokeLearned
    <2>2. \/ owner'[t] = owner[t]
          \/ /\ owner[t] \in Assignment
             /\ owner'[t] = [owner[t] EXCEPT !.status = "revoked"]
      BY <1>10 DEF RevokeLearned, Types
    <2>3. \/ owner'[t] = owner[t]
          \/ /\ owner'[t].status = "revoked"
             /\ owner'[t].identity = owner[t].identity
      BY <2>2 DEF Assignment
    <2>4. owner[t] # NoOwner => owner'[t] # NoOwner
      BY <2>2, OwnerAssumption, RowUpdated
    <2> QED
      BY <2>1, <2>3, <2>4, FoundUnchanged, OthersKeepKnows
         DEF NotResettable, InHand, Knows
  <1>11. ASSUME NEW u \in Tags, ResetLearned(u) PROVE Knows(t)'
    <2>1. /\ UNCHANGED <<pc, event>> /\ ClearEvidence(u)
          /\ owner[u] # NoOwner /\ owner[u].status = "suspended"
          /\ owner' = [owner EXCEPT ![u] = NoOwner]
      BY <1>11 DEF ResetLearned
    <2>2. pc \in {"validate", "extend"} => u # t
      BY <2>1 DEF InHand, Knows, NotResettable
    <2>3. pc = "validate" => Found(t)' = Found(t)
      BY <2>1, <2>2, ClearKeepsFound
    <2>4. NotResettable(t) => NotResettable(t)'
      BY <2>1 DEF NotResettable, Types
    <2>5. pc = "extend" => owner'[t] = owner[t] /\ owner[t] # NoOwner
      BY <2>1, <2>2 DEF InHand, Knows, Types
    <2> QED
      BY <2>1, <2>3, <2>4, <2>5, OthersKeepKnows DEF InHand
  <1>12. ASSUME NEW u \in Tags, LeaseExpires(u) PROVE Knows(t)'
    <2>1. UNCHANGED <<pc, event, tables>>
      BY <1>12 DEF LeaseExpires
    <2>2. \/ owner'[t] = owner[t]
          \/ /\ owner[t] \in Assignment
             /\ owner'[t] = [owner[t] EXCEPT !.live = FALSE]
      BY <1>12 DEF LeaseExpires, Types
    <2>3. /\ owner'[t].identity = owner[t].identity
          /\ owner'[t].status = owner[t].status
      BY <2>2 DEF Assignment
    <2>4. owner[t] # NoOwner => owner'[t] # NoOwner
      BY <2>2, OwnerAssumption, RowUpdated
    <2>5. NotResettable(t) => NotResettable(t)'
      BY <2>2, <2>3, OwnerAssumption DEF NotResettable
    <2> QED
      BY <2>1, <2>3, <2>4, <2>5, FoundUnchanged, OthersKeepKnows
         DEF InHand, Knows
  <1>13. ASSUME Throttled PROVE Knows(t)'
    BY <1>13 DEF Throttled, vars, InHand
  <1> QED
    BY <1>1, <1>2, <1>3, <1>4, <1>5, <1>6, <1>7, <1>8, <1>9, <1>10, <1>11,
       <1>12, <1>13 DEF Next, ServiceStep, ValidateAccepts

-----------------------------------------------------------------------------
(* The results.                                                            *)

\* The invariant is inductive.
LEMMA StepIInv == IInv /\ [Next]_vars => IInv'
  <1> SUFFICES ASSUME IInv, [Next]_vars PROVE IInv'
    OBVIOUS
  <1>1. CASE Next
    BY <1>1, NextBook, NextTypes, NextKnows DEF IInv
  <1>2. CASE UNCHANGED vars
    <2>1. BookIsSound' /\ Types'
      BY <1>2 DEF IInv, vars, BookIsSound, Types
    <2>2. ASSUME NEW t \in Tags, InHand(t)' PROVE Knows(t)'
      <3>1. Found(t)' = Found(t)
        BY <1>2, FoundUnchanged DEF vars, tables
      <3> QED
        BY <1>2, <2>2, <3>1, OthersKeepKnows
           DEF vars, IInv, InHand, Knows, NotResettable
    <2> QED BY <2>1, <2>2 DEF IInv
  <1> QED BY <1>1, <1>2

\* It holds in every reachable state.
LEMMA IInvHolds == Spec => []IInv
  BY InitIInv, StepIInv, PTL DEF Spec

\* Tables and handler locals stay well formed.
THEOREM TypeCorrect == Spec => []TypeOK
  BY IInvHolds, IInvTypeOK, PTL

\* Only these steps put an assignment where there was none.
LEMMA WhoAssigns ==
  ASSUME IInv, [Next]_vars, NEW t \in Tags,
         owner[t] = NoOwner, owner'[t] # NoOwner
  PROVE  \/ ActivateTag /\ event.tag_key = t
         \/ \E o \in Operators : AssociateApply(o) /\ cli[o].tag_key = t
  <1> USE DEF IInv, Types
  <1>1. ASSUME UNCHANGED owner PROVE FALSE
    BY <1>1
  <1>2. ASSUME SuspendTag PROVE FALSE
    BY <1>2 DEF SuspendTag, Suspended, Active
  <1>3. ASSUME RenewWrite PROVE FALSE
    BY <1>3 DEF RenewWrite, Active
  <1>4. ASSUME ActivateTag PROVE event.tag_key = t
    BY <1>4 DEF ActivateTag, Activated
  <1>5. ASSUME NEW o \in Operators, AssociateApply(o) PROVE cli[o].tag_key = t
    BY <1>5 DEF AssociateApply, Activated
  <1>6. ASSUME NEW u \in Tags,
               RevokeLearned(u) \/ ResetLearned(u) \/ LeaseExpires(u)
        PROVE  FALSE
    BY <1>6 DEF RevokeLearned, ResetLearned, LeaseExpires
  <1> QED
    BY <1>1, <1>2, <1>3, <1>4, <1>5, <1>6
       DEF Next, ServiceStep, ValidateAccepts, Throttled, vars, Sight, Retry, LookupNothing,
           LookupAmbiguous, LookupRefused, LookupMatch, Assess, RenewRead,
           Weigh, Propose, ValidateDryRun, ValidateFails, Audit, Abandon,
           AssociateRead, AssociateStop

\* What the service assigns is a ready candidate at that moment: nobody can
\* take evidence away while its tag has no assignment that can be reset.
THEOREM ActivationIsEarned == Spec => ServiceActivationIsEarned
  <1>1. ASSUME IInv, [Next]_vars, NEW t \in Tags, owner[t] = NoOwner,
               owner'[t] # NoOwner, owner'[t].assigned_by = Service
        PROVE  /\ Found(t) # None
               /\ Found(t).identity = owner'[t].identity
               /\ owner'[t].identity \notin Visitors
    <2>1. CASE ActivateTag /\ event.tag_key = t
      <3>1. Knows(t) /\ pc = "validate"
        BY <1>1, <2>1 DEF IInv, InHand, ActivateTag
      <3>2. owner'[t].identity = event.candidate.identity
        BY <1>1, <2>1 DEF ActivateTag, Activated, IInv, Types
      <3> QED BY <3>1, <3>2 DEF Knows
    <2>2. ASSUME NEW o \in Operators, AssociateApply(o), cli[o].tag_key = t
          PROVE  FALSE
      <3>1. owner'[t].assigned_by = o
        BY <1>1, <2>2 DEF AssociateApply, Activated, IInv, Types
      <3> QED BY <1>1, <3>1, LearningAssumption
    <2> QED BY <1>1, <2>1, <2>2, WhoAssigns
  <1>2. IInv /\ [Next]_vars =>
            [\A t \in Tags :
                /\ owner[t] = NoOwner
                /\ owner'[t] # NoOwner
                /\ owner'[t].assigned_by = Service
                => /\ Found(t) # None
                   /\ Found(t).identity = owner'[t].identity
                   /\ owner'[t].identity \notin Visitors]_vars
    BY <1>1
  <1> QED BY <1>2, IInvHolds, PTL DEF Spec, ServiceActivationIsEarned

\* A lease that has run out is renewed only on an active assignment to the
\* vehicle the tag has just been matched with.
THEOREM RenewalIsEarned == Spec => LeaseRenewedByOwnVehicle
  <1>1. ASSUME IInv, [Next]_vars, NEW t \in Tags,
               owner[t] # NoOwner, ~owner[t].live,
               owner'[t] # NoOwner, owner'[t].live
        PROVE  /\ Active(t)
               /\ pc # "idle"
               /\ event.tag_key = t /\ event.match = owner[t].identity
    <2> USE <1>1 DEF IInv, Types
    <2>1. ASSUME UNCHANGED owner PROVE FALSE
      BY <2>1
    <2>2. ASSUME SuspendTag PROVE FALSE
      BY <2>2 DEF SuspendTag, Suspended, Assignment
    <2>3. CASE RenewWrite
      <3>1. event.tag_key = t /\ Active(t) /\ pc = "extend"
        BY <2>3 DEF RenewWrite, Active
      <3> QED BY <3>1 DEF InHand, Knows
    <2>4. ASSUME \/ ActivateTag
                 \/ \E o \in Operators : AssociateApply(o)
          PROVE  FALSE
      BY <2>4 DEF ActivateTag, AssociateApply, Activated
    <2>5. ASSUME NEW u \in Tags,
                 RevokeLearned(u) \/ ResetLearned(u) \/ LeaseExpires(u)
          PROVE  FALSE
      BY <2>5 DEF RevokeLearned, ResetLearned, LeaseExpires, Assignment
    <2> QED
      BY <2>1, <2>2, <2>3, <2>4, <2>5
         DEF Next, ServiceStep, ValidateAccepts, Throttled, vars, Sight, Retry, LookupNothing,
             LookupAmbiguous, LookupRefused, LookupMatch, Assess, RenewRead,
             Weigh, Propose, ValidateDryRun, ValidateFails, Audit, Abandon,
             AssociateRead, AssociateStop
  <1>2. IInv /\ [Next]_vars =>
            [\A t \in Tags :
                /\ owner[t] # NoOwner /\ ~owner[t].live
                /\ owner'[t] # NoOwner /\ owner'[t].live
                => /\ Active(t)
                   /\ pc # "idle"
                   /\ event.tag_key = t /\ event.match = owner[t].identity]_vars
    BY <1>1
  <1> QED BY <1>2, IInvHolds, PTL DEF Spec, LeaseRenewedByOwnVehicle

\* Each step of the service or of a command is one step of the assignment's
\* life cycle, or none.
LEMMA OwnershipStep ==
  ASSUME IInv, [Next]_vars
  PROVE  [Own!OwnershipNext]_owner
  <1> USE DEF IInv, Types
  <1>1. ASSUME UNCHANGED owner PROVE [Own!OwnershipNext]_owner
    BY <1>1
  <1>2. ASSUME SuspendTag PROVE [Own!OwnershipNext]_owner
    <2>1. PICK t \in Tags : t = event.tag_key
      BY <1>2 DEF SuspendTag, Event
    <2>2. owner' = owner \/ Own!Suspend(t)
      BY <1>2, <2>1 DEF SuspendTag, Suspended, Active, Own!Suspend, Own!Has
    <2> QED BY <2>2 DEF Own!OwnershipNext
  <1>3. ASSUME RenewWrite PROVE [Own!OwnershipNext]_owner
    <2>1. PICK t \in Tags : t = event.tag_key
      BY <1>3 DEF RenewWrite, Event
    <2>2. owner' = owner \/ Own!Renew(t)
      BY <1>3, <2>1 DEF RenewWrite, Active, Own!Renew, Own!Has
    <2> QED BY <2>2 DEF Own!OwnershipNext
  <1>4. ASSUME NEW t \in Tags, NEW found \in Candidate, NEW a \in Actors,
               owner' = Activated(t, found, a)
        PROVE  [Own!OwnershipNext]_owner
    <2>1. found.identity \in Identities
      BY DEF Candidate
    <2>2. owner' = owner \/ Own!Assign(t)
      BY <1>4, <2>1 DEF Activated, Own!Assign
    <2> QED BY <2>2 DEF Own!OwnershipNext
  <1>5. ASSUME ActivateTag PROVE [Own!OwnershipNext]_owner
    <2>1. PICK t \in Tags : t = event.tag_key
      BY <1>5 DEF ActivateTag, Event
    <2>2. PICK found \in Candidate : found = event.candidate
      BY <1>5, <2>1 DEF ActivateTag, InHand, Knows, Event
    <2> QED BY <1>4, <1>5, <2>1, <2>2 DEF ActivateTag, Actors
  <1>6. ASSUME NEW o \in Operators, AssociateApply(o)
        PROVE  [Own!OwnershipNext]_owner
    <2>1. PICK t \in Tags, found \in Candidate :
              t = cli[o].tag_key /\ found = cli[o].found
      BY <1>6 DEF AssociateApply
    <2> QED BY <1>4, <1>6, <2>1 DEF AssociateApply, Actors
  <1>7. ASSUME NEW t \in Tags, RevokeLearned(t) \/ ResetLearned(t) \/ LeaseExpires(t)
        PROVE  [Own!OwnershipNext]_owner
    <2>1. Own!Revoke(t) \/ Own!Forget(t) \/ Own!Lapse(t)
      BY <1>7 DEF RevokeLearned, ResetLearned, LeaseExpires, Own!Revoke,
                  Own!Forget, Own!Lapse, Own!Has
    <2> QED BY <2>1 DEF Own!OwnershipNext
  <1> QED
    BY <1>1, <1>2, <1>3, <1>5, <1>6, <1>7
       DEF Next, ServiceStep, ValidateAccepts, Throttled, vars, Sight, Retry, LookupNothing,
           LookupAmbiguous, LookupRefused, LookupMatch, Assess, RenewRead,
           Weigh, Propose, ValidateDryRun, ValidateFails, Audit, Abandon,
           AssociateRead, AssociateStop

\* The service and any number of commands, interleaved in any way, keep to
\* the life cycle Ownership states.
THEOREM OwnershipImplemented == Spec => ImplementsOwnership
  <1>1. Init => Own!OwnershipInit
    BY DEF Init, Own!OwnershipInit
  <1> QED
    BY <1>1, OwnershipStep, IInvHolds, PTL
       DEF Spec, ImplementsOwnership, Own!OwnershipSpec
=============================================================================
