-------------------------- MODULE PassageLogProofs --------------------------
(***************************************************************************)
(* Proofs about PassageLog and PassageVisits.  One inductive invariant     *)
(* over the two tables, Sound, holds what the rows say by themselves; with *)
(* the history of sightings beside it, VisitInv, it gives what they say of *)
(* the visits.  Each operation is a chain of table transformations (a      *)
(* passage opened, a sighting entered, the sweep, a verdict, a reset), and *)
(* a lemma apiece shows that it keeps the tables sound, what it does to a  *)
(* passage's verdict, and which step of the untimed book it is             *)
(* (BookImplemented).                                                      *)
(***************************************************************************)
EXTENDS PassageVisits, TLAPS

\* The tables are well typed, and ids are handed out once.
SoundTypes(T, P, n) ==
    /\ DOMAIN T \subseteq Tags
    /\ T \in [DOMAIN T -> TagRow]
    /\ DOMAIN P \subseteq PassageIds
    /\ P \in [DOMAIN P -> PassageRow]
    /\ n \in 1 .. MaxPassages + 1
    /\ \A p \in DOMAIN P : p < n

\* Each row is right by itself.
SoundRow(row) ==
    /\ IdentityMatchesStatus(row)
    /\ row.started_at_ms <= row.last_seen_ms
    /\ row.stationary <=> row.last_seen_ms - row.started_at_ms >= MaxDwell

SoundRows(P) == \A p \in DOMAIN P : SoundRow(P[p])

\* CurrentPassageExists for one tag.
SoundCurrent(T, P, t) ==
    LET p == T[t].current_passage_id IN
    p # None =>
        /\ p \in DOMAIN P
        /\ P[p].tag_key = t
        /\ P[p].started_at_ms = T[t].session_started_ms
        /\ P[p].last_seen_ms = T[t].last_seen_ms

\* A tag with passages on file is in one of them, and that is its last one.
SoundLast(T, P) ==
    \A p \in DOMAIN P :
        /\ P[p].tag_key \in DOMAIN T
        /\ T[P[p].tag_key].current_passage_id # None
        /\ p <= T[P[p].tag_key].current_passage_id

SoundGaps(P) ==
    \A p, q \in DOMAIN P :
        p < q /\ P[p].tag_key = P[q].tag_key =>
            P[q].started_at_ms - P[p].last_seen_ms > Gap

Sound(T, P, n) ==
    /\ SoundTypes(T, P, n)
    /\ SoundRows(P)
    /\ \A t \in DOMAIN T : SoundCurrent(T, P, t)
    /\ SoundLast(T, P)
    /\ SoundGaps(P)

\* The inductive invariant.
IInv == Sound(tags, passages, nextId) /\ seen \in Sighting \cup {None}

\* It contains two of the invariants the runs check.
THEOREM IInvImplies == IInv => TypeOK /\ CurrentPassageExists
  BY DEF IInv, Sound, SoundTypes, SoundRows, SoundRow, SoundCurrent, TypeOK,
         CurrentPassageExists

-----------------------------------------------------------------------------
\* An opened passage keeps the tables sound: it starts more than the gap
\* after the tag's last one was last seen.
LEMMA OpenedSound ==
  ASSUME NEW T, NEW P, NEW n, Sound(T, P, n), n <= MaxPassages,
         NEW t \in Tags, NEW at \in Times,
         (t \in DOMAIN T /\ T[t].current_passage_id # None) =>
            at - T[t].last_seen_ms > Gap
  PROVE  Sound(WithTag(T, t, n, at), WithPassage(P, t, n, at), n + 1)
  <1> DEFINE T1 == WithTag(T, t, n, at)
             P1 == WithPassage(P, t, n, at)
             row == [tag_key |-> t, started_at_ms |-> at, last_seen_ms |-> at,
                     stationary |-> FALSE, correlation_status |-> "pending",
                     identity |-> None, lpr_event_ms |-> None]
  <1>1. /\ DOMAIN T1 = DOMAIN T \cup {t} /\ DOMAIN P1 = DOMAIN P \cup {n}
        /\ n \in PassageIds /\ n # None /\ n \notin DOMAIN P
    BY IdentityAssumption, LogAssumption
       DEF Sound, SoundTypes, WithTag, WithPassage, PassageIds
  <1>2. /\ T1[t] = [last_seen_ms |-> at, session_started_ms |-> at,
                    current_passage_id |-> n]
        /\ \A u \in DOMAIN T \ {t} : T1[u] = T[u]
    BY DEF WithTag
  <1>3. P1[n] = row /\ \A p \in DOMAIN P : P1[p] = P[p]
    BY <1>1 DEF WithPassage
  <1> HIDE DEF T1, P1
  <1>4. SoundTypes(T1, P1, n + 1)
    <2>1. T1 \in [DOMAIN T1 -> TagRow]
      <3>1. T1 = [u \in DOMAIN T1 |-> T1[u]]
        BY DEF T1, WithTag
      <3>2. \A u \in DOMAIN T1 : T1[u] \in TagRow
        BY <1>1, <1>2 DEF Sound, SoundTypes, TagRow
      <3> QED BY <3>1, <3>2
    <2>2. P1 \in [DOMAIN P1 -> PassageRow]
      <3>1. P1 = [p \in DOMAIN P1 |-> P1[p]]
        BY DEF P1, WithPassage
      <3>2. row \in PassageRow
        BY DEF PassageRow, Statuses
      <3>3. \A p \in DOMAIN P1 : P1[p] \in PassageRow
        BY <1>1, <1>3, <3>2 DEF Sound, SoundTypes
      <3> QED BY <3>1, <3>3
    <2> QED
      BY <1>1, <2>1, <2>2, LogAssumption DEF Sound, SoundTypes, PassageIds
  <1>5. SoundRows(P1)
    <2>1. SoundRow(row)
      BY ConfigAssumption DEF SoundRow, IdentityMatchesStatus, Times
    <2> QED BY <1>1, <1>3, <2>1 DEF Sound, SoundRows
  <1>6. ASSUME NEW u \in DOMAIN T1 PROVE SoundCurrent(T1, P1, u)
    BY <1>1, <1>2, <1>3 DEF Sound, SoundCurrent
  <1>7. SoundLast(T1, P1)
    BY <1>1, <1>2, <1>3 DEF Sound, SoundTypes, SoundLast, PassageIds
  <1>8. SoundGaps(P1)
    <2> SUFFICES ASSUME NEW p \in DOMAIN P1, NEW q \in DOMAIN P1,
                        p < q, P1[p].tag_key = P1[q].tag_key
                 PROVE  P1[q].started_at_ms - P1[p].last_seen_ms > Gap
      BY DEF SoundGaps
    <2>1. p \in DOMAIN P /\ P1[p] = P[p]
      BY <1>1, <1>3 DEF Sound, SoundTypes, PassageIds
    <2>2. CASE q \in DOMAIN P
      BY <1>3, <2>1, <2>2 DEF Sound, SoundGaps
    <2>3. CASE q = n
      <3> DEFINE c == T[t].current_passage_id
      <3>1. P1[q] = row /\ P[p].tag_key = t
        BY <1>3, <2>1, <2>3
      <3>2. /\ t \in DOMAIN T /\ c # None /\ p <= c
            /\ c \in DOMAIN P /\ P[c].tag_key = t
            /\ P[c].last_seen_ms = T[t].last_seen_ms
        BY <2>1, <3>1 DEF Sound, SoundLast, SoundCurrent
      <3>3. at - P[c].last_seen_ms > Gap
        BY <3>2
      <3>4. P[p].last_seen_ms <= P[c].last_seen_ms
        <4>1. p \in Nat /\ c \in Nat /\ P[p] \in PassageRow /\ P[c] \in PassageRow
          BY <2>1, <3>2 DEF Sound, SoundTypes, PassageIds
        <4>2. CASE p = c
          BY <4>1, <4>2 DEF PassageRow, Times
        <4>3. CASE p < c
          <5>1. P[c].started_at_ms - P[p].last_seen_ms > Gap
            BY <2>1, <3>1, <3>2, <4>3 DEF Sound, SoundGaps
          <5>2. P[c].started_at_ms <= P[c].last_seen_ms
            BY <3>2 DEF Sound, SoundRows, SoundRow
          <5> QED
            BY <4>1, <5>1, <5>2, ConfigAssumption DEF PassageRow, Times
        <4> QED BY <3>2, <4>1, <4>2, <4>3
      <3>5. /\ P[p].last_seen_ms \in Int /\ P[c].last_seen_ms \in Int
            /\ at \in Int /\ Gap \in Int
        BY <2>1, <3>2, ConfigAssumption
           DEF Sound, SoundTypes, PassageRow, Times
      <3> QED BY <2>1, <3>1, <3>3, <3>4, <3>5
    <2> QED BY <1>1, <2>2, <2>3
  <1> QED BY <1>4, <1>5, <1>6, <1>7, <1>8 DEF Sound, T1, P1

-----------------------------------------------------------------------------
\* A touched row, field by field.
LEMMA TouchedRowFields ==
  ASSUME NEW row \in PassageRow, NEW at, NEW dwelt \in BOOLEAN
  PROVE  TouchedRow(row, at, dwelt) =
            [tag_key |-> row.tag_key, started_at_ms |-> row.started_at_ms,
             last_seen_ms |-> Later(row.last_seen_ms, at),
             stationary |-> row.stationary \/ dwelt,
             correlation_status |-> row.correlation_status,
             identity |-> row.identity, lpr_event_ms |-> row.lpr_event_ms]
  <1> DEFINE late == Later(row.last_seen_ms, at)
             stat == row.stationary \/ dwelt
             seenRow == [row EXCEPT !.last_seen_ms = late]
  <1>1. TouchedRow(row, at, dwelt) =
            [row EXCEPT !.last_seen_ms = late, !.stationary = stat]
    BY Zenon DEF TouchedRow
  <1> HIDE DEF late, stat
  <1>2. seenRow =
            [tag_key |-> row.tag_key, started_at_ms |-> row.started_at_ms,
             last_seen_ms |-> late, stationary |-> row.stationary,
             correlation_status |-> row.correlation_status,
             identity |-> row.identity, lpr_event_ms |-> row.lpr_event_ms]
    BY DEF PassageRow
  <1>3. [row EXCEPT !.last_seen_ms = late, !.stationary = stat] =
            [seenRow EXCEPT !.stationary = stat]
    BY <1>2 DEF PassageRow
  <1>4. [seenRow EXCEPT !.stationary = stat] =
            [tag_key |-> row.tag_key, started_at_ms |-> row.started_at_ms,
             last_seen_ms |-> late, stationary |-> stat,
             correlation_status |-> row.correlation_status,
             identity |-> row.identity, lpr_event_ms |-> row.lpr_event_ms]
    <2> HIDE DEF seenRow
    <2> QED BY <1>2
  <1> QED BY <1>1, <1>3, <1>4, Zenon DEF late, stat

\* What TouchedTags and TouchedPassages leave in the rows they touch.
LEMMA TouchedFields ==
  ASSUME NEW T, NEW P, NEW n, Sound(T, P, n), NEW t \in DOMAIN T,
         NEW at \in Times, NEW dwelt \in BOOLEAN,
         NEW p, p = T[t].current_passage_id, p # None
  PROVE  LET T1 == TouchedTags(T, t, at)
             P1 == TouchedPassages(P, p, at, dwelt)
             late == Later(T[t].last_seen_ms, at)
         IN  /\ DOMAIN T1 = DOMAIN T /\ DOMAIN P1 = DOMAIN P /\ p \in DOMAIN P
             /\ \A u \in DOMAIN T \ {t} : T1[u] = T[u]
             /\ \A q \in DOMAIN P \ {p} : P1[q] = P[q]
             /\ T1[t] = [last_seen_ms |-> late,
                         session_started_ms |-> T[t].session_started_ms,
                         current_passage_id |-> p]
             /\ P1[p] = [tag_key |-> t,
                         started_at_ms |-> T[t].session_started_ms,
                         last_seen_ms |-> late,
                         stationary |-> P[p].stationary \/ dwelt,
                         correlation_status |-> P[p].correlation_status,
                         identity |-> P[p].identity,
                         lpr_event_ms |-> P[p].lpr_event_ms]
  <1>1. SoundCurrent(T, P, t) /\ T[t] \in TagRow
    BY DEF Sound, SoundTypes
  <1>2. /\ p \in DOMAIN P /\ P[p] \in PassageRow /\ P[p].tag_key = t
        /\ P[p].started_at_ms = T[t].session_started_ms
        /\ P[p].last_seen_ms = T[t].last_seen_ms
    BY <1>1 DEF Sound, SoundTypes, SoundCurrent
  <1>3. TouchedTags(T, t, at)[t] =
            [last_seen_ms |-> Later(T[t].last_seen_ms, at),
             session_started_ms |-> T[t].session_started_ms,
             current_passage_id |-> p]
    <2> DEFINE late == Later(T[t].last_seen_ms, at)
    <2>1. TouchedTags(T, t, at)[t] = [T[t] EXCEPT !.last_seen_ms = late]
      BY DEF TouchedTags, TouchedTag
    <2> HIDE DEF late
    <2>2. [T[t] EXCEPT !.last_seen_ms = late] =
              [last_seen_ms |-> late,
               session_started_ms |-> T[t].session_started_ms,
               current_passage_id |-> T[t].current_passage_id]
      BY <1>1 DEF TagRow
    <2> QED BY <2>1, <2>2, Zenon DEF late
  <1>4. TouchedPassages(P, p, at, dwelt)[p] = TouchedRow(P[p], at, dwelt)
    BY <1>2 DEF TouchedPassages
  <1>5. /\ DOMAIN TouchedTags(T, t, at) = DOMAIN T
        /\ \A u \in DOMAIN T \ {t} : TouchedTags(T, t, at)[u] = T[u]
        /\ DOMAIN TouchedPassages(P, p, at, dwelt) = DOMAIN P
        /\ \A q \in DOMAIN P \ {p} : TouchedPassages(P, p, at, dwelt)[q] = P[q]
    BY DEF TouchedTags, TouchedPassages
  <1>6. TouchedRow(P[p], at, dwelt) =
            [tag_key |-> P[p].tag_key, started_at_ms |-> P[p].started_at_ms,
             last_seen_ms |-> Later(P[p].last_seen_ms, at),
             stationary |-> P[p].stationary \/ dwelt,
             correlation_status |-> P[p].correlation_status,
             identity |-> P[p].identity, lpr_event_ms |-> P[p].lpr_event_ms]
    BY <1>2, TouchedRowFields, Zenon
  <1>7. TouchedPassages(P, p, at, dwelt)[p] =
            [tag_key |-> t, started_at_ms |-> T[t].session_started_ms,
             last_seen_ms |-> Later(T[t].last_seen_ms, at),
             stationary |-> P[p].stationary \/ dwelt,
             correlation_status |-> P[p].correlation_status,
             identity |-> P[p].identity, lpr_event_ms |-> P[p].lpr_event_ms]
    BY <1>2, <1>4, <1>6, Zenon
  <1> QED
    BY <1>2, <1>3, <1>5, <1>7, Zenon

\* The MAX of two times is a time, and not before either.
LEMMA LaterTime ==
  ASSUME NEW a \in Times, NEW b \in Times
  PROVE  Later(a, b) \in Times /\ Later(a, b) >= a /\ Later(a, b) >= b
  BY LogAssumption DEF Later, Times

\* A sighting entered in the tag's current passage keeps the tables sound.
LEMMA TouchedSound ==
  ASSUME NEW T, NEW P, NEW n, Sound(T, P, n), NEW t \in DOMAIN T,
         NEW at \in Times, NEW dwelt \in BOOLEAN,
         dwelt <=> at - T[t].session_started_ms >= MaxDwell,
         NEW p, p = T[t].current_passage_id, p # None
  PROVE  Sound(TouchedTags(T, t, at), TouchedPassages(P, p, at, dwelt), n)
  <1> DEFINE T1 == TouchedTags(T, t, at)
             P1 == TouchedPassages(P, p, at, dwelt)
             late == Later(T[t].last_seen_ms, at)
  <1>1. /\ DOMAIN T1 = DOMAIN T /\ DOMAIN P1 = DOMAIN P /\ p \in DOMAIN P
        /\ \A u \in DOMAIN T \ {t} : T1[u] = T[u]
        /\ \A q \in DOMAIN P \ {p} : P1[q] = P[q]
        /\ T1[t] = [last_seen_ms |-> late,
                    session_started_ms |-> T[t].session_started_ms,
                    current_passage_id |-> p]
        /\ P1[p] = [tag_key |-> t,
                    started_at_ms |-> T[t].session_started_ms,
                    last_seen_ms |-> late,
                    stationary |-> P[p].stationary \/ dwelt,
                    correlation_status |-> P[p].correlation_status,
                    identity |-> P[p].identity,
                    lpr_event_ms |-> P[p].lpr_event_ms]
    BY TouchedFields
  <1>2. /\ T[t] \in TagRow /\ P[p] \in PassageRow
        /\ P[p].tag_key = t /\ P[p].started_at_ms = T[t].session_started_ms
        /\ P[p].last_seen_ms = T[t].last_seen_ms
        /\ SoundRow(P[p])
    BY <1>1 DEF Sound, SoundTypes, SoundRows, SoundCurrent
  <1>3. /\ late \in Times /\ late >= T[t].last_seen_ms /\ late >= at
        /\ late = T[t].last_seen_ms \/ late = at
    <2>1. T[t].last_seen_ms \in Times
      BY <1>2 DEF TagRow
    <2>2. late \in Times /\ late >= T[t].last_seen_ms /\ late >= at
      BY <2>1, LaterTime
    <2> QED BY <2>2 DEF Later
  <1>4. T1 \in [DOMAIN T1 -> TagRow] /\ P1 \in [DOMAIN P1 -> PassageRow]
    <2>1. T1[t] \in TagRow
      BY <1>1, <1>2, <1>3 DEF TagRow
    <2>2. P1[p] \in PassageRow
      BY <1>1, <1>2, <1>3 DEF PassageRow, TagRow
    <2>3. \A u \in DOMAIN T1 : T1[u] \in TagRow
      BY <1>1, <2>1 DEF Sound, SoundTypes
    <2>4. \A q \in DOMAIN P1 : P1[q] \in PassageRow
      BY <1>1, <2>2 DEF Sound, SoundTypes
    <2>5. /\ T1 = [u \in DOMAIN T1 |-> T1[u]]
          /\ P1 = [q \in DOMAIN P1 |-> P1[q]]
      BY DEF TouchedTags, TouchedPassages, Sound, SoundTypes
    <2> QED BY <2>3, <2>4, <2>5
  <1> HIDE DEF T1, P1, late
  <1>5. SoundTypes(T1, P1, n)
    BY <1>1, <1>4 DEF Sound, SoundTypes
  <1>6. SoundRow(P1[p])
    <2>1. IdentityMatchesStatus(P1[p])
      BY <1>1, <1>2 DEF SoundRow, IdentityMatchesStatus
    <2>2. P1[p].started_at_ms <= P1[p].last_seen_ms
      BY <1>1, <1>2, <1>3 DEF SoundRow, TagRow, Times
    <2>3. P1[p].stationary <=>
              P1[p].last_seen_ms - P1[p].started_at_ms >= MaxDwell
      <3>1. P[p].stationary <=>
                T[t].last_seen_ms - T[t].session_started_ms >= MaxDwell
        BY <1>2 DEF SoundRow
      <3>2. /\ T[t].last_seen_ms \in Int /\ T[t].session_started_ms \in Int
            /\ late \in Int /\ at \in Int /\ MaxDwell \in Int
        BY <1>2, <1>3, ConfigAssumption DEF TagRow, Times
      <3>3. late - T[t].session_started_ms >= MaxDwell <=>
                \/ T[t].last_seen_ms - T[t].session_started_ms >= MaxDwell
                \/ at - T[t].session_started_ms >= MaxDwell
        BY <1>3, <3>2
      <3>4. /\ P1[p].stationary = (P[p].stationary \/ dwelt)
            /\ P1[p].last_seen_ms = late
            /\ P1[p].started_at_ms = T[t].session_started_ms
        BY <1>1
      <3> QED BY <3>1, <3>3, <3>4
    <2> QED BY <2>1, <2>2, <2>3 DEF SoundRow
  <1>7. SoundRows(P1)
    BY <1>1, <1>6 DEF Sound, SoundRows
  <1>8. ASSUME NEW u \in DOMAIN T1 PROVE SoundCurrent(T1, P1, u)
    <2>1. CASE u = t
      BY <1>1, <2>1 DEF SoundCurrent
    <2>2. CASE u # t
      BY <1>1, <1>2, <2>2 DEF Sound, SoundCurrent
    <2> QED BY <2>1, <2>2
  <1>9. SoundLast(T1, P1)
    BY <1>1, <1>2 DEF Sound, SoundLast
  <1>10. SoundGaps(P1)
    <2> SUFFICES ASSUME NEW q \in DOMAIN P1, NEW r \in DOMAIN P1,
                        q < r, P1[q].tag_key = P1[r].tag_key
                 PROVE  P1[r].started_at_ms - P1[q].last_seen_ms > Gap
      BY DEF SoundGaps
    <2>1. P1[r].started_at_ms = P[r].started_at_ms /\ P1[r].tag_key = P[r].tag_key
          /\ P1[q].tag_key = P[q].tag_key
      BY <1>1, <1>2
    <2>2. q # p
      <3>1. q = p => r <= p
        BY <1>1, <1>2, <2>1 DEF Sound, SoundLast
      <3>2. q \in Int /\ r \in Int
        BY <1>1 DEF Sound, SoundTypes, PassageIds
      <3> QED BY <3>1, <3>2
    <2> QED BY <1>1, <2>1, <2>2 DEF Sound, SoundGaps
  <1> QED BY <1>5, <1>7, <1>8, <1>9, <1>10 DEF Sound, T1, P1
-----------------------------------------------------------------------------
\* The sweep keeps the tables sound.  The point is SoundLast: a tag whose
\* current passage is closed loses every passage, because the earlier ones
\* ended before that one started.
LEMMA SweptSound ==
  ASSUME NEW T, NEW P, NEW n, Sound(T, P, n), NEW cutoff \in Int
  PROVE  Sound(SweptTags(T, P, cutoff), SweptPassages(T, P, cutoff), n)
  <1> DEFINE T1 == SweptTags(T, P, cutoff)
             P1 == SweptPassages(T, P, cutoff)
             closed == Closed(T, P, cutoff)
             swept == Swept(T, P, cutoff)
  <1>1. /\ DOMAIN T1 = DOMAIN T /\ DOMAIN P1 = DOMAIN P \ swept
        /\ \A p \in DOMAIN P1 : P1[p] = P[p]
        /\ \A t \in DOMAIN T \ closed : T1[t] = T[t]
        /\ \A t \in DOMAIN T \cap closed :
              T1[t] = [T[t] EXCEPT !.current_passage_id = None]
        /\ T1 = [t \in DOMAIN T1 |-> T1[t]] /\ P1 = [p \in DOMAIN P1 |-> P1[p]]
    BY DEF SweptTags, SweptPassages
  <1>2. \A t \in DOMAIN T : T[t] \in TagRow
    BY DEF Sound, SoundTypes
  <1>3. \A t \in DOMAIN T \cap closed :
            T1[t] \in TagRow /\ T1[t].current_passage_id = None
    BY <1>1, <1>2 DEF TagRow
  <1>4. \A p \in DOMAIN P :
            p \in swept <=>
                /\ P[p].started_at_ms < cutoff
                /\ \A t \in DOMAIN T \ closed : T[t].current_passage_id # p
    BY DEF Swept
  <1>5. \A t \in DOMAIN T :
            t \in closed <=>
                /\ T[t].last_seen_ms < cutoff
                /\ T[t].current_passage_id \in DOMAIN P
                /\ P[T[t].current_passage_id].started_at_ms < cutoff
    BY DEF Closed
  <1> HIDE DEF T1, P1, closed, swept
  <1>6. SoundTypes(T1, P1, n)
    BY <1>1, <1>2, <1>3 DEF Sound, SoundTypes
  <1>7. SoundRows(P1)
    BY <1>1 DEF Sound, SoundRows
  <1>8. SoundGaps(P1)
    BY <1>1 DEF Sound, SoundGaps
  <1>9. ASSUME NEW t \in DOMAIN T1 PROVE SoundCurrent(T1, P1, t)
    <2>1. CASE t \in closed
      BY <1>1, <1>3, <2>1 DEF SoundCurrent
    <2>2. CASE t \notin closed
      BY <1>1, <1>4, <2>2 DEF Sound, SoundCurrent
    <2> QED BY <2>1, <2>2
  <1>10. SoundLast(T1, P1)
    <2> SUFFICES ASSUME NEW p \in DOMAIN P1
                 PROVE  /\ P1[p].tag_key \in DOMAIN T1
                        /\ T1[P1[p].tag_key].current_passage_id # None
                        /\ p <= T1[P1[p].tag_key].current_passage_id
      BY DEF SoundLast
    <2> DEFINE t == P[p].tag_key
               c == T[t].current_passage_id
    <2>1. /\ p \in DOMAIN P /\ p \notin swept /\ P1[p] = P[p]
          /\ t \in DOMAIN T /\ c # None /\ p <= c
          /\ c \in DOMAIN P /\ P[c].tag_key = t
          /\ P[c].started_at_ms = T[t].session_started_ms
          /\ P[c].last_seen_ms = T[t].last_seen_ms
      BY <1>1 DEF Sound, SoundLast, SoundCurrent
    <2>2. t \notin closed
      <3> SUFFICES ASSUME t \in closed PROVE FALSE
        OBVIOUS
      <3>1. P[c].last_seen_ms < cutoff /\ P[c].started_at_ms < cutoff
        BY <1>5, <2>1
      <3>2. P[p].started_at_ms < cutoff
        <4>1. CASE p = c
          BY <3>1, <4>1
        <4>2. CASE p < c
          <5>1. P[c].started_at_ms - P[p].last_seen_ms > Gap
            BY <2>1, <4>2 DEF Sound, SoundGaps
          <5>2. P[p].started_at_ms <= P[p].last_seen_ms
            BY <2>1 DEF Sound, SoundRows, SoundRow
          <5>3. /\ P[p].started_at_ms \in Int /\ P[p].last_seen_ms \in Int
                /\ P[c].started_at_ms \in Int /\ Gap \in Nat
            BY <2>1, ConfigAssumption
               DEF Sound, SoundTypes, PassageRow, Times
          <5> QED BY <3>1, <5>1, <5>2, <5>3
        <4>3. p \in Int /\ c \in Int
          BY <2>1 DEF Sound, SoundTypes, PassageIds
        <4> QED BY <2>1, <4>1, <4>2, <4>3
      <3>3. PICK u \in DOMAIN T \ closed : T[u].current_passage_id = p
        BY <1>4, <2>1, <3>2
      <3>4. P[p].tag_key = u
        <4>1. p # None
          BY <2>1, IdentityAssumption DEF Sound, SoundTypes, PassageIds
        <4> QED BY <2>1, <3>3, <4>1 DEF Sound, SoundCurrent
      <3> QED BY <3>3, <3>4
    <2> QED BY <1>1, <2>1, <2>2
  <1> QED BY <1>6, <1>7, <1>8, <1>9, <1>10 DEF Sound, T1, P1

\* A row rewritten without touching its tag, times and dwell flag.
LEMMA RewrittenSound ==
  ASSUME NEW T, NEW P, NEW n, Sound(T, P, n), NEW p \in DOMAIN P,
         NEW row \in PassageRow, IdentityMatchesStatus(row),
         row.tag_key = P[p].tag_key, row.started_at_ms = P[p].started_at_ms,
         row.last_seen_ms = P[p].last_seen_ms,
         row.stationary = P[p].stationary
  PROVE  Sound(T, [P EXCEPT ![p] = row], n)
  <1> DEFINE P1 == [P EXCEPT ![p] = row]
  <1>1. /\ DOMAIN P1 = DOMAIN P /\ P1[p] = row
        /\ \A q \in DOMAIN P \ {p} : P1[q] = P[q]
        /\ P1 = [q \in DOMAIN P1 |-> P1[q]]
    BY DEF Sound, SoundTypes
  <1> HIDE DEF P1
  <1>2. \A q \in DOMAIN P :
            /\ P1[q].tag_key = P[q].tag_key
            /\ P1[q].started_at_ms = P[q].started_at_ms
            /\ P1[q].last_seen_ms = P[q].last_seen_ms
    BY <1>1
  <1>3. SoundTypes(T, P1, n)
    BY <1>1 DEF Sound, SoundTypes
  <1>4. SoundRows(P1)
    <2>1. SoundRow(row)
      BY DEF Sound, SoundRows, SoundRow
    <2> QED BY <1>1, <2>1 DEF Sound, SoundRows
  <1>5. \A t \in DOMAIN T : SoundCurrent(T, P1, t)
    BY <1>1, <1>2 DEF Sound, SoundCurrent
  <1>6. SoundLast(T, P1)
    BY <1>1, <1>2 DEF Sound, SoundLast
  <1>7. SoundGaps(P1)
    BY <1>1, <1>2 DEF Sound, SoundGaps
  <1> QED BY <1>3, <1>4, <1>5, <1>6, <1>7 DEF Sound, P1
-----------------------------------------------------------------------------
\* A verdict rewrites the three verdict columns and nothing else.
LEMMA VerdictFields ==
  ASSUME NEW row \in PassageRow, NEW status, NEW i, NEW e
  PROVE  [row EXCEPT !.correlation_status = status, !.identity = i,
                     !.lpr_event_ms = e] =
            [tag_key |-> row.tag_key, started_at_ms |-> row.started_at_ms,
             last_seen_ms |-> row.last_seen_ms, stationary |-> row.stationary,
             correlation_status |-> status, identity |-> i, lpr_event_ms |-> e]
  <1> DEFINE r1 == [row EXCEPT !.correlation_status = status]
             r2 == [r1 EXCEPT !.identity = i]
             r3 == [r2 EXCEPT !.lpr_event_ms = e]
  <1>1. r1 = [tag_key |-> row.tag_key, started_at_ms |-> row.started_at_ms,
              last_seen_ms |-> row.last_seen_ms, stationary |-> row.stationary,
              correlation_status |-> status, identity |-> row.identity,
              lpr_event_ms |-> row.lpr_event_ms]
    BY DEF PassageRow
  <1>2. r2 = [tag_key |-> row.tag_key, started_at_ms |-> row.started_at_ms,
              last_seen_ms |-> row.last_seen_ms, stationary |-> row.stationary,
              correlation_status |-> status, identity |-> i,
              lpr_event_ms |-> row.lpr_event_ms]
    <2> HIDE DEF r1
    <2> QED BY <1>1
  <1>3. r3 = [tag_key |-> row.tag_key, started_at_ms |-> row.started_at_ms,
              last_seen_ms |-> row.last_seen_ms, stationary |-> row.stationary,
              correlation_status |-> status, identity |-> i,
              lpr_event_ms |-> e]
    <2> HIDE DEF r2
    <2> QED BY <1>2
  <1>4. [row EXCEPT !.correlation_status = status, !.identity = i,
                    !.lpr_event_ms = e] = r3
    BY DEF PassageRow
  <1> QED BY <1>3, <1>4, Zenon

\* Withdrawing a match keeps the tables sound.
LEMMA AmbiguatedSound ==
  ASSUME NEW T, NEW P, NEW n, Sound(T, P, n), NEW p \in DOMAIN P
  PROVE  Sound(T, [P EXCEPT ![p] = Ambiguated(@)], n)
  <1> DEFINE row == Ambiguated(P[p])
  <1>1. P[p] \in PassageRow
    BY DEF Sound, SoundTypes
  <1>2. row = [tag_key |-> P[p].tag_key, started_at_ms |-> P[p].started_at_ms,
               last_seen_ms |-> P[p].last_seen_ms,
               stationary |-> P[p].stationary,
               correlation_status |-> "ambiguous", identity |-> None,
               lpr_event_ms |-> None]
    BY <1>1, VerdictFields, Zenon DEF Ambiguated
  <1> HIDE DEF row
  <1>3. row \in PassageRow /\ IdentityMatchesStatus(row)
    BY <1>1, <1>2 DEF PassageRow, Statuses, IdentityMatchesStatus
  <1>4. Sound(T, [P EXCEPT ![p] = row], n)
    BY <1>2, <1>3, RewrittenSound
  <1> QED BY <1>4, Zenon DEF row

\* Recording a match does, whichever arm is taken.
LEMMA MatchedSound ==
  ASSUME NEW T, NEW P, NEW n, Sound(T, P, n), NEW p \in DOMAIN P,
         NEW i \in Identities, NEW e \in Nat
  PROVE  Sound(T, [P EXCEPT ![p] = MatchedWith(@, i, e)], n)
  <1>1. CASE P[p].correlation_status = "pending"
    <2> DEFINE row == MatchedWith(P[p], i, e)
    <2>1. P[p] \in PassageRow
      BY DEF Sound, SoundTypes
    <2>2. row = [tag_key |-> P[p].tag_key, started_at_ms |-> P[p].started_at_ms,
                 last_seen_ms |-> P[p].last_seen_ms,
                 stationary |-> P[p].stationary,
                 correlation_status |-> "matched", identity |-> i,
                 lpr_event_ms |-> e]
      BY <1>1, <2>1, VerdictFields, Zenon DEF MatchedWith
    <2> HIDE DEF row
    <2>3. row \in PassageRow /\ IdentityMatchesStatus(row)
      BY <2>1, <2>2, IdentityAssumption
         DEF PassageRow, Statuses, IdentityMatchesStatus
    <2>4. Sound(T, [P EXCEPT ![p] = row], n)
      BY <2>2, <2>3, RewrittenSound
    <2> QED BY <2>4, Zenon DEF row
  <1>2. CASE P[p].correlation_status = "matched" /\ P[p].identity # i
    <2>1. MatchedWith(P[p], i, e) = Ambiguated(P[p])
      BY <1>2 DEF MatchedWith
    <2>2. [P EXCEPT ![p] = MatchedWith(@, i, e)] =
              [P EXCEPT ![p] = Ambiguated(@)]
      BY <2>1, Zenon
    <2> QED BY <2>2, AmbiguatedSound, Zenon
  <1>3. CASE /\ P[p].correlation_status # "pending"
             /\ ~(P[p].correlation_status = "matched" /\ P[p].identity # i)
    <2>1. MatchedWith(P[p], i, e) = P[p]
      BY <1>3, Zenon DEF MatchedWith
    <2>2. [P EXCEPT ![p] = MatchedWith(@, i, e)] = [P EXCEPT ![p] = P[p]]
      BY <2>1, Zenon
    <2>3. [P EXCEPT ![p] = P[p]] = P
      BY DEF Sound, SoundTypes
    <2> QED BY <2>2, <2>3, Zenon
  <1> QED BY <1>1, <1>2, <1>3

\* A reset forgets every passage of the tag and closes its current one.
LEMMA ClearedSound ==
  ASSUME NEW T, NEW P, NEW n, Sound(T, P, n), NEW t
  PROVE  Sound([u \in DOMAIN T |->
                   IF u = t THEN [T[u] EXCEPT !.current_passage_id = None]
                   ELSE T[u]],
               [p \in {q \in DOMAIN P : P[q].tag_key # t} |-> P[p]], n)
  <1> DEFINE T1 == [u \in DOMAIN T |->
                       IF u = t THEN [T[u] EXCEPT !.current_passage_id = None]
                       ELSE T[u]]
             P1 == [p \in {q \in DOMAIN P : P[q].tag_key # t} |-> P[p]]
  <1>1. /\ DOMAIN T1 = DOMAIN T
        /\ DOMAIN P1 = {q \in DOMAIN P : P[q].tag_key # t}
        /\ \A p \in DOMAIN P1 : P1[p] = P[p]
        /\ \A u \in DOMAIN T \ {t} : T1[u] = T[u]
        /\ \A u \in DOMAIN T \cap {t} :
              T1[u] = [T[u] EXCEPT !.current_passage_id = None]
        /\ T1 = [u \in DOMAIN T1 |-> T1[u]] /\ P1 = [p \in DOMAIN P1 |-> P1[p]]
    OBVIOUS
  <1> HIDE DEF T1, P1
  <1>2. \A u \in DOMAIN T : T[u] \in TagRow
    BY DEF Sound, SoundTypes
  <1>3. \A u \in DOMAIN T \cap {t} :
            T1[u] \in TagRow /\ T1[u].current_passage_id = None
    BY <1>1, <1>2 DEF TagRow
  <1>4. SoundTypes(T1, P1, n)
    BY <1>1, <1>2, <1>3 DEF Sound, SoundTypes
  <1>5. SoundRows(P1) /\ SoundGaps(P1)
    BY <1>1 DEF Sound, SoundRows, SoundGaps
  <1>6. \A u \in DOMAIN T1 : SoundCurrent(T1, P1, u)
    BY <1>1, <1>3 DEF Sound, SoundCurrent
  <1>7. SoundLast(T1, P1)
    BY <1>1 DEF Sound, SoundLast
  <1> QED BY <1>4, <1>5, <1>6, <1>7 DEF Sound, T1, P1
-----------------------------------------------------------------------------
\* The tail of record_discovery_seen, on tables with passage p in place: the
\* sighting entered, the sweep, and the DiscoverySeen that is returned.
LEMMA ObserveSound ==
  ASSUME NEW T, NEW P, NEW n, Sound(T, P, n), NEW t \in DOMAIN T,
         NEW at \in Times, NEW opened \in BOOLEAN,
         NEW p, p = T[t].current_passage_id, p # None
  PROVE  LET dwelt == at - T[t].session_started_ms >= MaxDwell
             T1 == TouchedTags(T, t, at)
             P1 == TouchedPassages(P, p, at, dwelt)
         IN  /\ Sound(SweptTags(T1, P1, at - Retention),
                      SweptPassages(T1, P1, at - Retention), n)
             /\ [passage_id |-> p, new_passage |-> opened,
                 correlation_status |-> P[p].correlation_status,
                 long_dwell |-> dwelt,
                 became_long_dwell |-> dwelt /\ ~P[p].stationary] \in Sighting
  <1> DEFINE dwelt == at - T[t].session_started_ms >= MaxDwell
             T1 == TouchedTags(T, t, at)
             P1 == TouchedPassages(P, p, at, dwelt)
  <1>1. dwelt \in BOOLEAN /\ at - Retention \in Int
    BY ConfigAssumption DEF Times
  <1>2. p \in DOMAIN P /\ P[p] \in PassageRow /\ p \in PassageIds
    BY DEF Sound, SoundTypes, SoundCurrent
  <1>3. Sound(T1, P1, n)
    <2> HIDE DEF dwelt
    <2> QED BY <1>1, TouchedSound DEF dwelt
  <1>4. Sound(SweptTags(T1, P1, at - Retention),
              SweptPassages(T1, P1, at - Retention), n)
    <2> HIDE DEF T1, P1
    <2> QED BY <1>1, <1>3, SweptSound
  <1>5. [passage_id |-> p, new_passage |-> opened,
         correlation_status |-> P[p].correlation_status,
         long_dwell |-> dwelt,
         became_long_dwell |-> dwelt /\ ~P[p].stationary] \in Sighting
    <2> HIDE DEF dwelt
    <2> QED BY <1>1, <1>2 DEF Sighting, PassageRow
  <1> QED BY <1>4, <1>5, Zenon

\* An empty database satisfies the invariant.
LEMMA InitIInv == Init => IInv
  BY LogAssumption
     DEF Init, IInv, Sound, SoundTypes, SoundRows, SoundCurrent, SoundLast,
         SoundGaps, TagRow, PassageRow

LEMMA SightedSound ==
  ASSUME IInv, NEW t \in Tags, NEW at \in Times,
         OpenPassage(t, at) \/ ContinuePassage(t, at)
  PROVE  IInv'
  <1>1. CASE OpenPassage(t, at)
    <2> DEFINE T == WithTag(tags, t, nextId, at)
               P == WithPassage(passages, t, nextId, at)
    <2>1. /\ nextId <= MaxPassages /\ nextId' = nextId + 1
          /\ Observe(t, nextId, at, TRUE, T, P)
          /\ t \in DOMAIN tags /\ tags[t].current_passage_id # None =>
                at - tags[t].last_seen_ms > Gap
      BY <1>1 DEF OpenPassage, StartsPassage, HasCurrent
    <2>2. Sound(T, P, nextId + 1)
      BY <2>1, OpenedSound DEF IInv
    <2>3. t \in DOMAIN T /\ T[t].current_passage_id = nextId
      BY DEF WithTag
    <2>4. nextId # None
      BY IdentityAssumption DEF IInv, Sound, SoundTypes
    <2> HIDE DEF T, P
    <2>5. Sound(tags', passages', nextId') /\ seen' \in Sighting
      BY <2>1, <2>2, <2>3, <2>4, ObserveSound DEF Observe
    <2> QED BY <2>5 DEF IInv
  <1>2. CASE ContinuePassage(t, at)
    <2> DEFINE p == tags[t].current_passage_id
    <2>1. /\ t \in DOMAIN tags /\ p # None
          /\ Observe(t, p, at, FALSE, tags, passages)
          /\ nextId' = nextId
      BY <1>2 DEF ContinuePassage, StartsPassage, HasCurrent
    <2>2. Sound(tags, passages, nextId)
      BY DEF IInv
    <2> HIDE DEF p
    <2>3. Sound(tags', passages', nextId') /\ seen' \in Sighting
      BY <2>1, <2>2, ObserveSound DEF Observe, p
    <2> QED BY <2>3 DEF IInv
  <1> QED BY <1>1, <1>2

\* Every operation keeps it.
LEMMA NextIInv == IInv /\ [Next]_vars => IInv'
  <1> SUFFICES ASSUME IInv, [Next]_vars PROVE IInv'
    OBVIOUS
  <1>1. ASSUME NEW t \in Tags, NEW at \in Times,
               OpenPassage(t, at) \/ ContinuePassage(t, at)
        PROVE  IInv'
    BY <1>1, SightedSound
  <1>3. ASSUME NEW p \in PassageIds, MarkAmbiguous(p) PROVE IInv'
    <2>1. Sound(tags', passages', nextId')
      BY <1>3, AmbiguatedSound DEF IInv, MarkAmbiguous
    <2> QED BY <1>3, <2>1 DEF IInv, MarkAmbiguous
  <1>4. ASSUME NEW p \in PassageIds, NEW i \in Identities, NEW e \in EventTimes,
               RecordMatch(p, i, e)
        PROVE  IInv'
    <2>1. e \in Nat
      BY LogAssumption
    <2>2. Sound(tags', passages', nextId')
      BY <1>4, <2>1, MatchedSound DEF IInv, RecordMatch
    <2> QED BY <1>4, <2>2 DEF IInv, RecordMatch
  <1>5. ASSUME NEW t \in Tags, ClearEvidence(t) PROVE IInv'
    <2>1. Sound(tags', passages', nextId')
      BY <1>5, ClearedSound DEF IInv, ClearEvidence
    <2> QED BY <1>5, <2>1 DEF IInv, ClearEvidence
  <1>6. CASE UNCHANGED vars
    BY <1>6 DEF vars, IInv
  <1> QED
    BY <1>1, <1>3, <1>4, <1>5, <1>6 DEF Next, RecordSeen

\* It holds in every reachable state.
LEMMA IInvHolds == Spec => []IInv
  BY InitIInv, NextIInv, PTL DEF Spec

\* The tables stay well formed.
THEOREM TypeCorrect == Spec => []TypeOK
  BY IInvHolds, IInvImplies, PTL

\* No sweep, reset or late sighting leaves current_passage_id dangling.
THEOREM CurrentPassagesExist == Spec => []CurrentPassageExists
  BY IInvHolds, IInvImplies, PTL

-----------------------------------------------------------------------------
\* What a sighting leaves in the rows: it is entered in the tag's current
\* passage, which the sweep spares, and the others stay or are dropped.
LEMMA ObservedRows ==
  ASSUME NEW T, NEW P, NEW n, Sound(T, P, n), NEW t \in DOMAIN T,
         NEW at \in Times,
         NEW p, p = T[t].current_passage_id, p # None
  PROVE  LET dwelt == at - T[t].session_started_ms >= MaxDwell
             T1 == TouchedTags(T, t, at)
             P1 == TouchedPassages(P, p, at, dwelt)
             P2 == SweptPassages(T1, P1, at - Retention)
         IN  /\ DOMAIN P2 \subseteq DOMAIN P /\ p \in DOMAIN P2
             /\ \A q \in DOMAIN P2 \ {p} : P2[q] = P[q]
             /\ P2[p].tag_key = t
             /\ P2[p].started_at_ms = T[t].session_started_ms
             /\ P2[p].last_seen_ms = Later(T[t].last_seen_ms, at)
             /\ P2[p].stationary <=> P[p].stationary \/ dwelt
             /\ P2[p].correlation_status = P[p].correlation_status
             /\ P2[p].identity = P[p].identity
             /\ P2[p].lpr_event_ms = P[p].lpr_event_ms
  <1> DEFINE dwelt == at - T[t].session_started_ms >= MaxDwell
             T1 == TouchedTags(T, t, at)
             P1 == TouchedPassages(P, p, at, dwelt)
             P2 == SweptPassages(T1, P1, at - Retention)
             late == Later(T[t].last_seen_ms, at)
  <1>1. /\ DOMAIN T1 = DOMAIN T /\ DOMAIN P1 = DOMAIN P /\ p \in DOMAIN P
        /\ \A q \in DOMAIN P \ {p} : P1[q] = P[q]
        /\ T1[t] = [last_seen_ms |-> late,
                    session_started_ms |-> T[t].session_started_ms,
                    current_passage_id |-> p]
        /\ P1[p] = [tag_key |-> t,
                    started_at_ms |-> T[t].session_started_ms,
                    last_seen_ms |-> late,
                    stationary |-> P[p].stationary \/ dwelt,
                    correlation_status |-> P[p].correlation_status,
                    identity |-> P[p].identity,
                    lpr_event_ms |-> P[p].lpr_event_ms]
    <2>1. dwelt \in BOOLEAN
      OBVIOUS
    <2> HIDE DEF dwelt
    <2> QED BY <2>1, TouchedFields
  <1>2. late \in Times /\ late >= at
    BY LaterTime DEF Sound, SoundTypes, TagRow
  <1> HIDE DEF dwelt, T1, P1, late
  <1>3. t \notin Closed(T1, P1, at - Retention)
    BY <1>1, <1>2, ConfigAssumption DEF Closed, Times
  <1>4. p \notin Swept(T1, P1, at - Retention)
    BY <1>1, <1>3 DEF Swept
  <1>5. /\ DOMAIN P2 = DOMAIN P1 \ Swept(T1, P1, at - Retention)
        /\ \A q \in DOMAIN P2 : P2[q] = P1[q]
    BY DEF SweptPassages
  <1>6. /\ DOMAIN P2 \subseteq DOMAIN P /\ p \in DOMAIN P2
        /\ \A q \in DOMAIN P2 \ {p} : P2[q] = P[q]
        /\ P2[p] = P1[p]
    BY <1>1, <1>4, <1>5
  <1>7. /\ P1[p].tag_key = t /\ P1[p].started_at_ms = T[t].session_started_ms
        /\ P1[p].last_seen_ms = late
        /\ P1[p].stationary <=> P[p].stationary \/ dwelt
        /\ P1[p].correlation_status = P[p].correlation_status
        /\ P1[p].identity = P[p].identity /\ P1[p].lpr_event_ms = P[p].lpr_event_ms
    <2> DEFINE stat == P[p].stationary \/ dwelt
    <2>1. P1[p] = [tag_key |-> t, started_at_ms |-> T[t].session_started_ms,
                   last_seen_ms |-> late, stationary |-> stat,
                   correlation_status |-> P[p].correlation_status,
                   identity |-> P[p].identity, lpr_event_ms |-> P[p].lpr_event_ms]
      BY <1>1, Zenon
    <2> HIDE DEF stat
    <2>2. P1[p].stationary = stat
      BY <2>1
    <2>3. P1[p].stationary <=> P[p].stationary \/ dwelt
      BY <2>2, Zenon DEF stat
    <2> QED BY <2>1, <2>3
  <1> QED BY <1>6, <1>7, Zenon DEF dwelt, T1, P1, late

\* What record_discovery_seen does to the rows and what it returns.
LEMMA SightedRows ==
  ASSUME IInv, NEW t \in Tags, NEW at \in Times,
         OpenPassage(t, at) \/ ContinuePassage(t, at)
  PROVE  LET p == seen'.passage_id IN
         /\ p \in DOMAIN passages'
         /\ DOMAIN passages' \ {p} \subseteq DOMAIN passages
         /\ \A q \in DOMAIN passages' \ {p} : passages'[q] = passages[q]
         /\ seen'.new_passage <=> p \notin DOMAIN passages
         /\ p \in DOMAIN passages =>
              /\ passages'[p].tag_key = passages[p].tag_key
              /\ passages'[p].started_at_ms = passages[p].started_at_ms
              /\ passages'[p].last_seen_ms = Later(passages[p].last_seen_ms, at)
              /\ passages'[p].correlation_status = passages[p].correlation_status
              /\ passages'[p].identity = passages[p].identity
              /\ passages'[p].lpr_event_ms = passages[p].lpr_event_ms
              /\ passages[p].stationary => passages'[p].stationary
              /\ seen'.correlation_status = passages[p].correlation_status
              /\ seen'.became_long_dwell <=>
                    passages'[p].stationary /\ ~passages[p].stationary
         /\ p \notin DOMAIN passages =>
              /\ passages'[p].correlation_status = "pending"
              /\ passages'[p].tag_key = t
              /\ passages'[p].started_at_ms = at /\ passages'[p].last_seen_ms = at
  <1>1. CASE OpenPassage(t, at)
    <2> DEFINE T == WithTag(tags, t, nextId, at)
               P == WithPassage(passages, t, nextId, at)
    <2>1. /\ nextId <= MaxPassages
          /\ Observe(t, nextId, at, TRUE, T, P)
          /\ t \in DOMAIN tags /\ tags[t].current_passage_id # None =>
                at - tags[t].last_seen_ms > Gap
      BY <1>1 DEF OpenPassage, StartsPassage, HasCurrent
    <2>2. Sound(T, P, nextId + 1)
      BY <2>1, OpenedSound DEF IInv
    <2>3. /\ t \in DOMAIN T /\ T[t].current_passage_id = nextId
          /\ T[t].session_started_ms = at /\ T[t].last_seen_ms = at
      BY DEF WithTag
    <2>4. nextId # None /\ nextId \notin DOMAIN passages
      BY IdentityAssumption DEF IInv, Sound, SoundTypes, PassageIds
    <2>5. /\ DOMAIN P = DOMAIN passages \cup {nextId}
          /\ P[nextId].correlation_status = "pending"
          /\ \A q \in DOMAIN passages : P[q] = passages[q]
      BY <2>4 DEF WithPassage
    <2> HIDE DEF T, P
    <2>6. /\ DOMAIN passages' \subseteq DOMAIN P /\ nextId \in DOMAIN passages'
          /\ \A q \in DOMAIN passages' \ {nextId} : passages'[q] = P[q]
          /\ passages'[nextId].correlation_status = P[nextId].correlation_status
          /\ passages'[nextId].tag_key = t
          /\ passages'[nextId].started_at_ms = at
          /\ passages'[nextId].last_seen_ms = at
      <3> DEFINE dwelt == at - T[t].session_started_ms >= MaxDwell
                 T1 == TouchedTags(T, t, at)
                 P1 == TouchedPassages(P, nextId, at, dwelt)
      <3>1. passages' = SweptPassages(T1, P1, at - Retention)
        BY <2>1 DEF Observe
      <3>2. LET P2 == SweptPassages(T1, P1, at - Retention) IN
            /\ DOMAIN P2 \subseteq DOMAIN P /\ nextId \in DOMAIN P2
            /\ \A q \in DOMAIN P2 \ {nextId} : P2[q] = P[q]
            /\ P2[nextId].correlation_status = P[nextId].correlation_status
            /\ P2[nextId].tag_key = t
            /\ P2[nextId].started_at_ms = T[t].session_started_ms
            /\ P2[nextId].last_seen_ms = Later(T[t].last_seen_ms, at)
        BY <2>2, <2>3, <2>4, ObservedRows
      <3>3. Later(T[t].last_seen_ms, at) = at
        BY <2>3 DEF Later
      <3> HIDE DEF T1, P1
      <3> QED BY <2>3, <3>1, <3>2, <3>3
    <2>7. seen'.passage_id = nextId /\ seen'.new_passage
      BY <2>1 DEF Observe
    <2> QED BY <2>4, <2>5, <2>6, <2>7
  <1>2. CASE ContinuePassage(t, at)
    <2> DEFINE p == tags[t].current_passage_id
               dwelt == at - tags[t].session_started_ms >= MaxDwell
    <2>1. /\ t \in DOMAIN tags /\ p # None
          /\ Observe(t, p, at, FALSE, tags, passages)
      BY <1>2 DEF ContinuePassage, StartsPassage, HasCurrent
    <2>2. /\ Sound(tags, passages, nextId) /\ p \in DOMAIN passages
          /\ passages[p].tag_key = t
          /\ passages[p].started_at_ms = tags[t].session_started_ms
          /\ passages[p].last_seen_ms = tags[t].last_seen_ms
      BY <2>1 DEF IInv, Sound, SoundCurrent
    <2> HIDE DEF p
    <2>3. /\ DOMAIN passages' \subseteq DOMAIN passages /\ p \in DOMAIN passages'
          /\ \A q \in DOMAIN passages' \ {p} : passages'[q] = passages[q]
          /\ passages'[p].tag_key = t
          /\ passages'[p].started_at_ms = tags[t].session_started_ms
          /\ passages'[p].last_seen_ms = Later(tags[t].last_seen_ms, at)
          /\ passages'[p].stationary <=> passages[p].stationary \/ dwelt
          /\ passages'[p].correlation_status = passages[p].correlation_status
          /\ passages'[p].identity = passages[p].identity
          /\ passages'[p].lpr_event_ms = passages[p].lpr_event_ms
      BY <2>1, <2>2, ObservedRows DEF Observe, p
    <2>4. seen' = [passage_id |-> p, new_passage |-> FALSE,
                   correlation_status |-> passages[p].correlation_status,
                   long_dwell |-> dwelt,
                   became_long_dwell |-> dwelt /\ ~passages[p].stationary]
      BY <2>1 DEF Observe
    <2> HIDE DEF dwelt
    <2>5. /\ passages[p].stationary => passages'[p].stationary
          /\ seen'.became_long_dwell <=>
                passages'[p].stationary /\ ~passages[p].stationary
      <3>1. passages'[p].stationary <=> passages[p].stationary \/ dwelt
        BY <2>3
      <3>2. seen'.became_long_dwell <=> dwelt /\ ~passages[p].stationary
        BY <2>4, Zenon
      <3> QED BY <3>1, <3>2, Zenon
    <2>6. seen'.passage_id = p /\ ~seen'.new_passage
          /\ seen'.correlation_status = passages[p].correlation_status
      BY <2>4
    <2> QED BY <2>2, <2>3, <2>5, <2>6
  <1> QED BY <1>1, <1>2

\* A sighting leaves the tag in the passage it returns, seen now.
LEMMA ObservedTag ==
    ASSUME NEW T, NEW P, NEW n, Sound(T, P, n), NEW t \in DOMAIN T,
           NEW at \in Times,
           NEW p, p = T[t].current_passage_id, p # None
    PROVE  LET dwelt == at - T[t].session_started_ms >= MaxDwell
               T1 == TouchedTags(T, t, at)
               P1 == TouchedPassages(P, p, at, dwelt)
               T2 == SweptTags(T1, P1, at - Retention)
           IN  /\ t \in DOMAIN T2
               /\ T2[t].current_passage_id = p
               /\ T2[t].last_seen_ms >= at
<1> DEFINE dwelt == at - T[t].session_started_ms >= MaxDwell
           T1 == TouchedTags(T, t, at)
           P1 == TouchedPassages(P, p, at, dwelt)
           T2 == SweptTags(T1, P1, at - Retention)
           late == Later(T[t].last_seen_ms, at)
<1>1. /\ DOMAIN T1 = DOMAIN T /\ DOMAIN P1 = DOMAIN P /\ p \in DOMAIN P
      /\ T1[t] = [last_seen_ms |-> late,
                  session_started_ms |-> T[t].session_started_ms,
                  current_passage_id |-> p]
      /\ P1[p] = [tag_key |-> t,
                  started_at_ms |-> T[t].session_started_ms,
                  last_seen_ms |-> late,
                  stationary |-> P[p].stationary \/ dwelt,
                  correlation_status |-> P[p].correlation_status,
                  identity |-> P[p].identity,
                  lpr_event_ms |-> P[p].lpr_event_ms]
  <2>1. dwelt \in BOOLEAN
    OBVIOUS
  <2> HIDE DEF dwelt
  <2> QED BY <2>1, TouchedFields
<1>2. late \in Times /\ late >= at
  BY LaterTime DEF Sound, SoundTypes, TagRow
<1> HIDE DEF dwelt, T1, P1, late
<1>3. t \notin Closed(T1, P1, at - Retention)
  BY <1>1, <1>2, ConfigAssumption DEF Closed, Times
<1>4. t \in DOMAIN T2 /\ T2[t] = T1[t]
  BY <1>1, <1>3 DEF SweptTags
<1> HIDE DEF T2
<1>5. t \in DOMAIN T2 /\ T2[t].current_passage_id = p /\ T2[t].last_seen_ms >= at
  BY <1>1, <1>2, <1>4
<1> QED BY <1>5 DEF dwelt, T1, P1, T2

LEMMA SightedTag ==
    ASSUME IInv, NEW t \in Tags, NEW at \in Times,
           OpenPassage(t, at) \/ ContinuePassage(t, at)
    PROVE  /\ t \in DOMAIN tags'
           /\ tags'[t].current_passage_id = seen'.passage_id
           /\ tags'[t].last_seen_ms >= at
           /\ seen'.passage_id # None
<1>1. ASSUME NEW T, NEW P, NEW n, Sound(T, P, n), NEW p, NEW opened,
             t \in DOMAIN T, p = T[t].current_passage_id, p # None,
             Observe(t, p, at, opened, T, P)
      PROVE  /\ t \in DOMAIN tags'
             /\ tags'[t].current_passage_id = seen'.passage_id
             /\ tags'[t].last_seen_ms >= at
             /\ seen'.passage_id # None
  <2>1. seen'.passage_id = p
    BY <1>1 DEF Observe
  <2>2. /\ t \in DOMAIN tags' /\ tags'[t].current_passage_id = p
        /\ tags'[t].last_seen_ms >= at
    BY <1>1, ObservedTag DEF Observe
  <2> QED BY <1>1, <2>1, <2>2
<1>2. CASE OpenPassage(t, at)
  <2> DEFINE T == WithTag(tags, t, nextId, at)
             P == WithPassage(passages, t, nextId, at)
  <2>1. /\ nextId <= MaxPassages
        /\ Observe(t, nextId, at, TRUE, T, P)
        /\ t \in DOMAIN tags /\ tags[t].current_passage_id # None =>
              at - tags[t].last_seen_ms > Gap
    BY <1>2 DEF OpenPassage, StartsPassage, HasCurrent
  <2>2. Sound(T, P, nextId + 1)
    BY <2>1, OpenedSound DEF IInv
  <2>3. t \in DOMAIN T /\ T[t].current_passage_id = nextId
    BY DEF WithTag
  <2>4. nextId # None
    BY IdentityAssumption DEF IInv, Sound, SoundTypes
  <2> HIDE DEF T, P
  <2> QED BY <1>1, <2>1, <2>2, <2>3, <2>4
<1>3. CASE ContinuePassage(t, at)
  <2>1. /\ t \in DOMAIN tags /\ tags[t].current_passage_id # None
        /\ Observe(t, tags[t].current_passage_id, at, FALSE, tags, passages)
    BY <1>3 DEF ContinuePassage, StartsPassage, HasCurrent
  <2>2. Sound(tags, passages, nextId)
    BY DEF IInv
  <2> QED BY <1>1, <2>1, <2>2
<1> QED BY <1>2, <1>3

\* What the other operations do to a row that stays.
LEMMA JudgedRows ==
  ASSUME IInv, NEW p \in DOMAIN passages \cap DOMAIN passages',
         \/ \E q \in PassageIds : MarkAmbiguous(q)
         \/ \E q \in PassageIds, i \in Identities, e \in EventTimes :
               RecordMatch(q, i, e)
         \/ \E t \in Tags : ClearEvidence(t)
  PROVE  /\ passages'[p].stationary = passages[p].stationary
         /\ passages[p].correlation_status = "ambiguous" =>
               passages'[p].correlation_status = "ambiguous"
         /\ passages[p].correlation_status = "matched" =>
               \/ passages'[p].correlation_status = "ambiguous"
               \/ passages'[p].identity = passages[p].identity
  <1>1. passages[p] \in PassageRow
    BY DEF IInv, Sound, SoundTypes
  <1>2. /\ Ambiguated(passages[p]).stationary = passages[p].stationary
        /\ Ambiguated(passages[p]).correlation_status = "ambiguous"
    BY <1>1, VerdictFields DEF Ambiguated
  <1>3. ASSUME NEW q \in PassageIds, MarkAmbiguous(q)
        PROVE  passages'[p] \in {passages[p], Ambiguated(passages[p])}
    BY <1>3 DEF MarkAmbiguous
  <1>4. ASSUME NEW q \in PassageIds, NEW i \in Identities, NEW e \in EventTimes,
               RecordMatch(q, i, e)
        PROVE  \/ passages'[p] \in {passages[p], Ambiguated(passages[p])}
               \/ /\ passages[p].correlation_status = "pending"
                  /\ passages'[p].stationary = passages[p].stationary
    <2>1. passages'[p] = passages[p] \/ passages'[p] = MatchedWith(passages[p], i, e)
      BY <1>4 DEF RecordMatch
    <2>2. passages[p].correlation_status = "pending" =>
              MatchedWith(passages[p], i, e).stationary = passages[p].stationary
      <3> SUFFICES ASSUME passages[p].correlation_status = "pending"
                   PROVE  MatchedWith(passages[p], i, e).stationary = passages[p].stationary
        OBVIOUS
      <3>1. MatchedWith(passages[p], i, e) =
                [tag_key |-> passages[p].tag_key,
                 started_at_ms |-> passages[p].started_at_ms,
                 last_seen_ms |-> passages[p].last_seen_ms,
                 stationary |-> passages[p].stationary,
                 correlation_status |-> "matched", identity |-> i, lpr_event_ms |-> e]
        BY <1>1, VerdictFields, Zenon DEF MatchedWith
      <3> QED BY <3>1
    <2> QED BY <2>1, <2>2 DEF MatchedWith
  <1>5. ASSUME NEW t \in Tags, ClearEvidence(t)
        PROVE  passages'[p] = passages[p]
    BY <1>5 DEF ClearEvidence
  <1> QED BY <1>2, <1>3, <1>4, <1>5

\* No verdict of record_discovery_match and no sighting takes back that a
\* passage is ambiguous or stationary, and a match never changes hands.
THEOREM VerdictsDegrade == Spec => VerdictsOnlyDegrade
  <1>1. IInv /\ [Next]_vars =>
          \A p \in DOMAIN passages \cap DOMAIN passages' :
             /\ passages[p].stationary => passages'[p].stationary
             /\ passages[p].correlation_status = "ambiguous" =>
                   passages'[p].correlation_status = "ambiguous"
             /\ passages[p].correlation_status = "matched" =>
                   \/ passages'[p].correlation_status = "ambiguous"
                   \/ passages'[p].identity = passages[p].identity
    <2> SUFFICES ASSUME IInv, [Next]_vars,
                        NEW p \in DOMAIN passages \cap DOMAIN passages'
                 PROVE  /\ passages[p].stationary => passages'[p].stationary
                        /\ passages[p].correlation_status = "ambiguous" =>
                              passages'[p].correlation_status = "ambiguous"
                        /\ passages[p].correlation_status = "matched" =>
                              \/ passages'[p].correlation_status = "ambiguous"
                              \/ passages'[p].identity = passages[p].identity
      OBVIOUS
    <2>1. ASSUME NEW t \in Tags, NEW at \in Times, RecordSeen(t, at)
          PROVE  \/ passages'[p] = passages[p]
                 \/ /\ passages[p].stationary => passages'[p].stationary
                    /\ passages'[p].correlation_status = passages[p].correlation_status
                    /\ passages'[p].identity = passages[p].identity
      BY <2>1, SightedRows DEF RecordSeen
    <2>2. CASE UNCHANGED vars
      BY <2>2 DEF vars
    <2> QED BY <2>1, <2>2, JudgedRows DEF Next
  <1> QED BY <1>1, IInvHolds, PTL DEF Spec, VerdictsOnlyDegrade

\* The DiscoverySeen record_discovery_seen returns is the truth about the row
\* it found, and became_long_dwell is said exactly when a row turns stationary.
THEOREM SightingsTrue == Spec => SightingsAreTrue
  <1>1. IInv /\ [Next]_vars =>
          (seen' # seen =>
             LET p == seen'.passage_id IN
             /\ p \in DOMAIN passages'
             /\ seen'.new_passage <=> p \notin DOMAIN passages
             /\ ~seen'.new_passage =>
                   /\ seen'.correlation_status = passages[p].correlation_status
                   /\ seen'.became_long_dwell <=>
                         passages'[p].stationary /\ ~passages[p].stationary)
    <2> SUFFICES ASSUME IInv, [Next]_vars, seen' # seen
                 PROVE  \E t \in Tags, at \in Times :
                            OpenPassage(t, at) \/ ContinuePassage(t, at)
      BY SightedRows
    <2> QED BY DEF Next, RecordSeen, MarkAmbiguous, RecordMatch, ClearEvidence, vars
  <1> QED BY <1>1, IInvHolds, PTL DEF Spec, SightingsAreTrue

-----------------------------------------------------------------------------
\* The sightings S that a passage's row stands for: the row keeps the one that
\* opened it and the latest one, none is earlier than Skew before the first
\* of these, and they follow one another without a break.
SoundVisit(S, row) ==
    /\ S \subseteq Times
    /\ row.started_at_ms \in S /\ row.last_seen_ms \in S
    /\ \A s \in S :
          /\ s <= row.last_seen_ms
          /\ s >= row.started_at_ms - Skew
          /\ s < row.last_seen_ms =>
                \E r \in S : s < r /\ (r - s <= Gap \/ r - s <= Skew)

\* The inductive invariant of the tables and the history together.
VisitInv ==
    /\ IInv
    /\ DOMAIN sighted = DOMAIN passages
    /\ \A p \in DOMAIN passages : SoundVisit(sighted[p], passages[p])

\* What IInv says of a row, and of two rows of a tag.
LEMMA RowFacts ==
  ASSUME IInv, NEW p \in DOMAIN passages
  PROVE  /\ passages[p].started_at_ms \in Times
         /\ passages[p].last_seen_ms \in Times
         /\ passages[p].stationary <=>
               passages[p].last_seen_ms - passages[p].started_at_ms >= MaxDwell
         /\ \A q \in DOMAIN passages :
               p < q /\ passages[p].tag_key = passages[q].tag_key =>
                  passages[q].started_at_ms - passages[p].last_seen_ms > Gap
  BY DEF IInv, Sound, SoundTypes, SoundRows, SoundRow, SoundGaps, PassageRow

\* The rows being right, so are the statements about the visits.
LEMMA VisitInvImplies == VisitInv => OneVotePerVisibility /\ StationaryIsDwell
  <1> SUFFICES ASSUME VisitInv PROVE OneVotePerVisibility /\ StationaryIsDwell
    OBVIOUS
  <1>1. \A p \in DOMAIN passages : SoundVisit(sighted[p], passages[p]) /\ IInv
    BY DEF VisitInv
  <1>2. ASSUME NEW p \in DOMAIN passages, NEW q \in DOMAIN passages, p < q,
               passages[p].tag_key = passages[q].tag_key,
               NEW s \in sighted[p], NEW r \in sighted[q]
        PROVE  /\ r - s > Gap - Skew
               /\ ~Late(q, r) => r - s > Gap
    <2>1. /\ passages[q].started_at_ms \in Times
          /\ passages[p].last_seen_ms \in Times
          /\ passages[q].started_at_ms - passages[p].last_seen_ms > Gap
      BY <1>1, <1>2, RowFacts
    <2>2. /\ s \in Times /\ s <= passages[p].last_seen_ms
          /\ r \in Times /\ r >= passages[q].started_at_ms - Skew
      BY <1>1, <1>2 DEF SoundVisit
    <2> QED BY <2>1, <2>2, ConfigAssumption, LogAssumption DEF Late, Times
  <1>3. VisitsApart
    BY <1>2 DEF VisitsApart
  <1>4. PassagesUnbroken
    BY <1>1 DEF PassagesUnbroken, SoundVisit
  <1>5. ASSUME NEW p \in DOMAIN passages
        PROVE  /\ passages[p].stationary => Spans(p, MaxDwell)
               /\ Spans(p, MaxDwell + Skew) => passages[p].stationary
               /\ Spans(p, MaxDwell) =>
                     passages[p].stationary \/ \E s \in sighted[p] : Late(p, s)
    <2>1. /\ passages[p].started_at_ms \in Times
          /\ passages[p].last_seen_ms \in Times
          /\ passages[p].stationary <=>
                passages[p].last_seen_ms - passages[p].started_at_ms >= MaxDwell
      BY <1>1, <1>5, RowFacts
    <2>2. /\ passages[p].started_at_ms \in sighted[p]
          /\ passages[p].last_seen_ms \in sighted[p]
          /\ \A s \in sighted[p] :
                /\ s \in Times /\ s <= passages[p].last_seen_ms
                /\ s >= passages[p].started_at_ms - Skew
      BY <1>1, <1>5 DEF SoundVisit
    <2>3. passages[p].stationary => Spans(p, MaxDwell)
      BY <2>1, <2>2 DEF Spans
    <2>4. Spans(p, MaxDwell + Skew) => passages[p].stationary
      BY <2>1, <2>2, ConfigAssumption, LogAssumption DEF Spans, Times
    <2>5. Spans(p, MaxDwell) =>
            passages[p].stationary \/ \E s \in sighted[p] : Late(p, s)
      BY <2>1, <2>2, ConfigAssumption, LogAssumption DEF Spans, Late, Times
    <2> QED BY <2>3, <2>4, <2>5
  <1>6. StationaryIsDwell
    BY <1>5 DEF StationaryIsDwell
  <1> QED BY <1>3, <1>4, <1>6 DEF OneVotePerVisibility

\* A sighting that continues a passage comes within the gap of its latest one
\* and lags it by no more than Skew.
LEMMA ContinuedNear ==
  ASSUME IInv, NEW t \in Tags, NEW at \in Times, RecordSeen(t, at),
         seen'.passage_id \in DOMAIN passages
  PROVE  LET last == passages[seen'.passage_id].last_seen_ms IN
         /\ at - last <= Gap
         /\ at >= last - Skew
  <1>1. CASE OpenPassage(t, at)
    <2>1. seen'.passage_id = nextId
      BY <1>1 DEF OpenPassage, Observe
    <2>2. nextId \notin DOMAIN passages
      BY DEF IInv, Sound, SoundTypes, PassageIds
    <2> QED BY <2>1, <2>2
  <1>2. CASE ContinuePassage(t, at)
    <2>1. /\ seen'.passage_id = tags[t].current_passage_id
          /\ t \in DOMAIN tags /\ tags[t].current_passage_id # None
          /\ ~(at - tags[t].last_seen_ms > Gap)
      BY <1>2 DEF ContinuePassage, Observe, StartsPassage, HasCurrent
    <2>2. /\ passages[seen'.passage_id].last_seen_ms = tags[t].last_seen_ms
          /\ tags[t].last_seen_ms \in Times
      BY <2>1 DEF IInv, Sound, SoundTypes, SoundCurrent, TagRow
    <2>3. at >= tags[t].last_seen_ms - Skew
      BY <2>1 DEF RecordSeen
    <2> QED BY <2>1, <2>2, <2>3, ConfigAssumption DEF Times
  <1> QED BY <1>1, <1>2 DEF RecordSeen

\* Entering a sighting keeps a passage's visit sound.
LEMMA JoinedSound ==
  ASSUME NEW S, NEW row, SoundVisit(S, row), NEW row1, NEW at \in Times,
         row.started_at_ms \in Times, row.last_seen_ms \in Times,
         at - row.last_seen_ms <= Gap, at >= row.last_seen_ms - Skew,
         row1.started_at_ms = row.started_at_ms,
         row1.last_seen_ms = Later(row.last_seen_ms, at),
         row.started_at_ms <= row.last_seen_ms
  PROVE  SoundVisit(S \cup {at}, row1)
  <1> DEFINE last == row.last_seen_ms
             last1 == row1.last_seen_ms
             start == row.started_at_ms
  <1>1. /\ S \subseteq Times /\ start \in S /\ last \in S
        /\ \A s \in S :
              /\ s <= last /\ s >= start - Skew
              /\ s < last => \E r \in S : s < r /\ (r - s <= Gap \/ r - s <= Skew)
    BY DEF SoundVisit
  <1>2. last1 = (IF last > at THEN last ELSE at) /\ row1.started_at_ms = start
    BY DEF Later
  <1>3. last \in Times /\ start \in Times /\ start <= last
        /\ at - last <= Gap /\ at >= last - Skew
    OBVIOUS
  <1> HIDE DEF last, last1, start
  <1>4. S \cup {at} \subseteq Times /\ start \in S \cup {at} /\ last1 \in S \cup {at}
    BY <1>1, <1>2
  <1>5. ASSUME NEW s \in S \cup {at}
        PROVE  /\ s <= last1 /\ s >= start - Skew
               /\ s < last1 =>
                    \E r \in S \cup {at} : s < r /\ (r - s <= Gap \/ r - s <= Skew)
    <2>1. last1 \in Times /\ last <= last1 /\ at <= last1 /\ last1 - last <= Gap
          /\ s \in Times
      BY <1>1, <1>2, <1>3, <1>5, ConfigAssumption DEF Times
    <2>2. s <= last1 /\ s >= start - Skew
      BY <1>1, <1>3, <2>1, LogAssumption DEF Times
    <2>3. CASE s \in S /\ s < last
      BY <1>1, <2>2, <2>3
    <2>4. CASE s \in S /\ s = last /\ s < last1
      <3>1. last1 \in S \cup {at} /\ last1 - s <= Gap
        BY <1>4, <2>1, <2>4
      <3> QED BY <2>2, <2>4, <3>1
    <2>5. CASE s = at /\ s < last1
      <3>1. last1 = last /\ s < last
        BY <1>2, <1>3, <2>5 DEF Times
      <3>2. last - s <= Skew
        BY <1>3, <2>5, LogAssumption DEF Times
      <3> QED BY <1>1, <2>2, <3>1, <3>2
    <2>6. CASE ~(s < last1)
      BY <2>2, <2>6
    <2> QED
      <3>1. s \in S => s < last \/ s = last
        BY <1>1, <1>3, <2>1 DEF Times
      <3> QED BY <1>5, <2>3, <2>4, <2>5, <2>6, <3>1
  <1> QED BY <1>2, <1>4, <1>5 DEF SoundVisit, last1, start

\* A passage just opened holds the one sighting.
LEMMA OpenedVisit ==
  ASSUME NEW row, NEW at \in Times,
         row.started_at_ms = at, row.last_seen_ms = at
  PROVE  SoundVisit({at}, row)
  BY LogAssumption DEF SoundVisit, Times

\* Every step of the store with its history is a step of the store.
LEMMA VisitStep == [VisitNext]_visitVars => [Next]_vars
  BY DEF VisitNext, visitVars, RecordVisit, Next, vars

\* Operations other than a sighting leave the times of the rows that stay.
LEMMA TimesKept ==
  ASSUME IInv,
         \/ \E p \in PassageIds : MarkAmbiguous(p)
         \/ \E p \in PassageIds, i \in Identities, e \in EventTimes :
               RecordMatch(p, i, e)
         \/ \E t \in Tags : ClearEvidence(t)
  PROVE  /\ DOMAIN passages' \subseteq DOMAIN passages
         /\ \A p \in DOMAIN passages' :
               /\ passages'[p].started_at_ms = passages[p].started_at_ms
               /\ passages'[p].last_seen_ms = passages[p].last_seen_ms
  <1>0. \A p \in DOMAIN passages : passages[p] \in PassageRow
    BY DEF IInv, Sound, SoundTypes
  <1>1. ASSUME NEW p \in PassageIds, MarkAmbiguous(p)
        PROVE  /\ DOMAIN passages' = DOMAIN passages
               /\ \A q \in DOMAIN passages :
                    /\ passages'[q].started_at_ms = passages[q].started_at_ms
                    /\ passages'[q].last_seen_ms = passages[q].last_seen_ms
    BY <1>0, <1>1 DEF MarkAmbiguous, Ambiguated, PassageRow
  <1>2. ASSUME NEW p \in PassageIds, NEW i \in Identities, NEW e \in EventTimes,
               RecordMatch(p, i, e)
        PROVE  /\ DOMAIN passages' = DOMAIN passages
               /\ \A q \in DOMAIN passages :
                    /\ passages'[q].started_at_ms = passages[q].started_at_ms
                    /\ passages'[q].last_seen_ms = passages[q].last_seen_ms
    BY <1>0, <1>2 DEF RecordMatch, MatchedWith, Ambiguated, PassageRow
  <1>3. ASSUME NEW t \in Tags, ClearEvidence(t)
        PROVE  /\ DOMAIN passages' \subseteq DOMAIN passages
               /\ \A q \in DOMAIN passages' : passages'[q] = passages[q]
    BY <1>3 DEF ClearEvidence
  <1> QED BY <1>1, <1>2, <1>3

\* Every operation keeps the history in step with the rows.
LEMMA NextVisitInv == VisitInv /\ [VisitNext]_visitVars => VisitInv'
  <1> SUFFICES ASSUME VisitInv, [VisitNext]_visitVars PROVE VisitInv'
    OBVIOUS
  <1>1. IInv /\ IInv'
    BY VisitStep, NextIInv DEF VisitInv
  <1>2. /\ DOMAIN sighted = DOMAIN passages
        /\ \A p \in DOMAIN passages : SoundVisit(sighted[p], passages[p])
    BY DEF VisitInv
  <1>3. ASSUME NEW t \in Tags, NEW at \in Times, RecordVisit(t, at)
        PROVE  VisitInv'
    <2> DEFINE p == seen'.passage_id
    <2>1. RecordSeen(t, at) /\ (OpenPassage(t, at) \/ ContinuePassage(t, at))
      BY <1>3 DEF RecordVisit, RecordSeen
    <2>2. /\ DOMAIN sighted' = DOMAIN passages'
          /\ p \in DOMAIN sighted' => sighted'[p] = Gathered(p) \cup {at}
          /\ \A q \in DOMAIN sighted' \ {p} : sighted'[q] = Gathered(q)
      BY <1>3 DEF RecordVisit, Gather
    <2>3. ASSUME NEW q \in DOMAIN passages', q # p
          PROVE  SoundVisit(sighted'[q], passages'[q])
      <3>1. q \in DOMAIN passages /\ passages'[q] = passages[q]
        BY <1>1, <2>1, <2>3, SightedRows
      <3>2. sighted'[q] = sighted[q]
        BY <1>2, <2>2, <2>3, <3>1 DEF Gathered
      <3> QED BY <1>2, <3>1, <3>2
    <2>4. CASE p \in DOMAIN passages
      <3>1. /\ p \in DOMAIN passages'
            /\ passages'[p].started_at_ms = passages[p].started_at_ms
            /\ passages'[p].last_seen_ms = Later(passages[p].last_seen_ms, at)
        BY <1>1, <2>1, <2>4, SightedRows
      <3>2. /\ at - passages[p].last_seen_ms <= Gap
            /\ at >= passages[p].last_seen_ms - Skew
        BY <1>1, <2>1, <2>4, ContinuedNear
      <3>3. /\ passages[p].started_at_ms \in Times
            /\ passages[p].last_seen_ms \in Times
            /\ passages[p].started_at_ms <= passages[p].last_seen_ms
        BY <1>1, <2>4
           DEF IInv, Sound, SoundTypes, SoundRows, SoundRow, PassageRow
      <3>4. sighted'[p] = sighted[p] \cup {at}
        BY <1>2, <2>2, <2>4, <3>1 DEF Gathered
      <3>5. SoundVisit(sighted[p], passages[p])
        BY <1>2, <2>4
      <3> HIDE DEF p
      <3>6. SoundVisit(sighted[p] \cup {at}, passages'[p])
        BY <3>1, <3>2, <3>3, <3>5, JoinedSound
      <3> QED BY <1>1, <2>2, <2>3, <3>4, <3>6 DEF VisitInv
    <2>5. CASE p \notin DOMAIN passages
      <3>1. /\ p \in DOMAIN passages'
            /\ passages'[p].started_at_ms = at /\ passages'[p].last_seen_ms = at
        BY <1>1, <2>1, <2>5, SightedRows
      <3>2. sighted'[p] = {at}
        BY <1>2, <2>2, <2>5, <3>1 DEF Gathered
      <3> HIDE DEF p
      <3>3. SoundVisit({at}, passages'[p])
        BY <3>1, OpenedVisit
      <3> QED BY <1>1, <2>2, <2>3, <3>2, <3>3 DEF VisitInv
    <2> QED BY <2>4, <2>5
  <1>4. ASSUME \/ \E p \in PassageIds : MarkAmbiguous(p)
               \/ \E p \in PassageIds, i \in Identities, e \in EventTimes :
                     RecordMatch(p, i, e)
               \/ \E t \in Tags : ClearEvidence(t),
               Keep
        PROVE  VisitInv'
    <2>1. /\ DOMAIN passages' \subseteq DOMAIN passages
          /\ \A p \in DOMAIN passages' :
                /\ passages'[p].started_at_ms = passages[p].started_at_ms
                /\ passages'[p].last_seen_ms = passages[p].last_seen_ms
      BY <1>1, <1>4, TimesKept
    <2>2. /\ DOMAIN sighted' = DOMAIN passages'
          /\ \A p \in DOMAIN passages' : sighted'[p] = sighted[p]
      BY <1>2, <1>4, <2>1 DEF Keep, Gathered
    <2>3. \A p \in DOMAIN passages' : SoundVisit(sighted'[p], passages'[p])
      BY <1>2, <2>1, <2>2 DEF SoundVisit
    <2> QED BY <1>1, <2>2, <2>3 DEF VisitInv
  <1>5. CASE UNCHANGED visitVars
    BY <1>1, <1>2, <1>5 DEF visitVars, VisitInv
  <1> QED BY <1>3, <1>4, <1>5 DEF VisitNext

\* It holds in every reachable state.
LEMMA VisitInvHolds == VisitSpec => []VisitInv
  <1>1. VisitInit => VisitInv
    BY InitIInv DEF VisitInit, VisitInv, Init
  <1> QED BY <1>1, NextVisitInv, PTL DEF VisitSpec

\* Two visits of a tag never share a passage, and one visit is two passages
\* only where a sighting came late; the passages are then still further apart
\* than the gap less the lag.
THEOREM VisibilityIsOneVote == VisitSpec => []OneVotePerVisibility
  BY VisitInvHolds, VisitInvImplies, PTL

\* A stationary passage has sightings as far apart as the dwell limit, and one
\* whose sightings span the limit is stationary, but for the part of its span
\* that lies before the sighting that opened it.
THEOREM StationaryMeansDwell == VisitSpec => []StationaryIsDwell
  BY VisitInvHolds, VisitInvImplies, PTL

\* The history only watches: what is proved of the store holds with it.
THEOREM HistoryWatches == VisitSpec => Spec
  BY VisitStep, PTL DEF VisitSpec, VisitInit, Spec

-----------------------------------------------------------------------------
(* PassageLog implements PassageBook.  Rows and Cur are the refinement     *)
(* mapping of PassageLog's instance Book, as operators on the two tables;  *)
(* each table transformation of PassageLog maps to its counterpart.        *)

\* A row without its times.
Untimed(row) ==
    [tag_key |-> row.tag_key, stationary |-> row.stationary,
     correlation_status |-> row.correlation_status,
     identity |-> row.identity, lpr_event_ms |-> row.lpr_event_ms]

Rows(P) == [p \in DOMAIN P |-> Untimed(P[p])]

Cur(T) ==
    [t \in Tags |-> IF t \in DOMAIN T THEN T[t].current_passage_id ELSE None]

\* The tables of the book's operations, over its rows R and current ids C.
OpenedRows(R, t, n) ==
    [p \in DOMAIN R \cup {n} |-> IF p = n THEN Book!NewRow(t) ELSE R[p]]

OpenedCur(C, t, n) == [C EXCEPT ![t] = n]

CommittedRows(R, p, dwelt, gone) ==
    [Book!Without(R, gone) EXCEPT ![p].stationary = @ \/ dwelt]

CommittedCur(C, gone) == [u \in Tags |-> IF C[u] \in gone THEN None ELSE C[u]]

ClearedRows(R, t) == Book!Without(R, {p \in DOMAIN R : R[p].tag_key = t})

VerdictRow(t, s, status, i, e) ==
    [tag_key |-> t, stationary |-> s, correlation_status |-> status,
     identity |-> i, lpr_event_ms |-> e]

\* A new passage is the book's new row, and current for its tag.
LEMMA OpenedMaps ==
  ASSUME NEW T, NEW P, NEW n, NEW t \in Tags, NEW at
  PROVE  /\ Rows(WithPassage(P, t, n, at)) = OpenedRows(Rows(P), t, n)
         /\ Cur(WithTag(T, t, n, at)) = OpenedCur(Cur(T), t, n)
  <1>1. Rows(WithPassage(P, t, n, at)) = OpenedRows(Rows(P), t, n)
    BY DEF Rows, WithPassage, Untimed, Book!NewRow, OpenedRows
  <1>2. Cur(WithTag(T, t, n, at)) = OpenedCur(Cur(T), t, n)
    BY DEF Cur, WithTag, OpenedCur
  <1> QED BY <1>1, <1>2

\* The sweep drops no passage whose tag was seen at the sighting's time, and
\* a tag loses its current passage exactly when that passage is dropped.
LEMMA SweptMaps ==
  ASSUME NEW T, NEW P, NEW n, Sound(T, P, n), NEW cutoff \in Int,
         NEW t \in DOMAIN T, T[t].last_seen_ms > cutoff,
         NEW p, p = T[t].current_passage_id, p # None
  PROVE  LET gone == Swept(T, P, cutoff) IN
         /\ gone \subseteq DOMAIN P /\ p \notin gone
         /\ Rows(SweptPassages(T, P, cutoff)) = Book!Without(Rows(P), gone)
         /\ Cur(SweptTags(T, P, cutoff)) = CommittedCur(Cur(T), gone)
  <1> DEFINE gone == Swept(T, P, cutoff)
             closed == Closed(T, P, cutoff)
  <1>1. gone \subseteq DOMAIN P /\ p \notin gone
    <2>1. t \notin closed
      BY DEF Closed, Sound, SoundTypes, TagRow, Times
    <2> QED BY <2>1 DEF Swept
  <1>2. Rows(SweptPassages(T, P, cutoff)) = Book!Without(Rows(P), gone)
    BY DEF Rows, SweptPassages, Book!Without
  <1>3. ASSUME NEW u \in DOMAIN T
        PROVE  u \in closed <=> T[u].current_passage_id \in gone
    <2> DEFINE c == T[u].current_passage_id
    <2>1. CASE u \in closed
      <3>1. c \in DOMAIN P /\ P[c].started_at_ms < cutoff
        BY <2>1 DEF Closed
      <3>2. c # None
        BY <3>1, IdentityAssumption DEF Sound, SoundTypes, PassageIds
      <3>3. ASSUME NEW v \in DOMAIN T, T[v].current_passage_id = c PROVE v = u
        BY <3>2, <3>3 DEF Sound, SoundCurrent
      <3> QED BY <2>1, <3>1, <3>3 DEF Swept
    <2>2. CASE u \notin closed
      BY <2>2 DEF Swept
    <2> QED BY <2>1, <2>2
  <1>4. Cur(SweptTags(T, P, cutoff)) = CommittedCur(Cur(T), gone)
    <2>1. /\ DOMAIN SweptTags(T, P, cutoff) = DOMAIN T
          /\ \A u \in DOMAIN T :
                SweptTags(T, P, cutoff)[u].current_passage_id =
                   IF u \in closed THEN None ELSE T[u].current_passage_id
      BY DEF SweptTags, Sound, SoundTypes, TagRow
    <2>2. None \notin gone
      BY <1>1, IdentityAssumption DEF Sound, SoundTypes, PassageIds
    <2> HIDE DEF gone, closed
    <2> QED BY <1>3, <2>1, <2>2 DEF Cur, CommittedCur
  <1> QED BY <1>1, <1>2, <1>4

\* The common tail of record_discovery_seen is the book's Commit.
LEMMA ObserveMaps ==
  ASSUME NEW T, NEW P, NEW n, Sound(T, P, n), NEW t \in DOMAIN T,
         NEW at \in Times, NEW p, p = T[t].current_passage_id, p # None,
         NEW dwelt \in BOOLEAN,
         dwelt <=> at - T[t].session_started_ms >= MaxDwell
  PROVE  LET T1 == TouchedTags(T, t, at)
             P1 == TouchedPassages(P, p, at, dwelt)
             gone == Swept(T1, P1, at - Retention)
         IN  /\ gone \subseteq DOMAIN P /\ p \notin gone
             /\ Rows(SweptPassages(T1, P1, at - Retention)) =
                   CommittedRows(Rows(P), p, dwelt, gone)
             /\ Cur(SweptTags(T1, P1, at - Retention)) =
                   CommittedCur(Cur(T), gone)
  <1> DEFINE T1 == TouchedTags(T, t, at)
             P1 == TouchedPassages(P, p, at, dwelt)
             late == Later(T[t].last_seen_ms, at)
             cutoff == at - Retention
             gone == Swept(T1, P1, cutoff)
  <1>1. Sound(T1, P1, n)
    BY TouchedSound
  <1>2. /\ DOMAIN T1 = DOMAIN T /\ DOMAIN P1 = DOMAIN P /\ p \in DOMAIN P
        /\ \A u \in DOMAIN T \ {t} : T1[u] = T[u]
        /\ \A q \in DOMAIN P \ {p} : P1[q] = P[q]
        /\ T1[t] = [last_seen_ms |-> late,
                    session_started_ms |-> T[t].session_started_ms,
                    current_passage_id |-> p]
        /\ P1[p] = [tag_key |-> t,
                    started_at_ms |-> T[t].session_started_ms,
                    last_seen_ms |-> late,
                    stationary |-> P[p].stationary \/ dwelt,
                    correlation_status |-> P[p].correlation_status,
                    identity |-> P[p].identity,
                    lpr_event_ms |-> P[p].lpr_event_ms]
    BY TouchedFields
  <1>3. P[p].tag_key = t
    BY <1>2 DEF Sound, SoundCurrent
  <1>4. cutoff \in Int /\ T1[t].last_seen_ms > cutoff
    <2>1. T[t].last_seen_ms \in Times
      BY DEF Sound, SoundTypes, TagRow
    <2>2. late \in Times /\ late >= at
      BY <2>1, LaterTime
    <2>3. T1[t].last_seen_ms = late
      BY <1>2
    <2> QED BY <2>2, <2>3, ConfigAssumption DEF Times
  <1> HIDE DEF T1, P1, late, cutoff, gone
  <1>5. /\ gone \subseteq DOMAIN P1 /\ p \notin gone
        /\ Rows(SweptPassages(T1, P1, cutoff)) = Book!Without(Rows(P1), gone)
        /\ Cur(SweptTags(T1, P1, cutoff)) = CommittedCur(Cur(T1), gone)
    BY <1>1, <1>2, <1>4, SweptMaps DEF gone
  <1>6. Cur(T1) = Cur(T)
    <2>1. \A u \in DOMAIN T : T1[u].current_passage_id = T[u].current_passage_id
      BY <1>2
    <2> QED BY <1>2, <2>1 DEF Cur
  <1>7. Book!Without(Rows(P1), gone) = CommittedRows(Rows(P), p, dwelt, gone)
    <2> DEFINE Q == Book!Without(Rows(P), gone)
    <2>1. /\ DOMAIN Q = DOMAIN P \ gone /\ p \in DOMAIN Q
          /\ Q[p] = Untimed(P[p])
          /\ \A q \in DOMAIN Q : Q[q] = Untimed(P[q])
          /\ Q = [q \in DOMAIN Q |-> Q[q]]
      BY <1>2, <1>5 DEF Book!Without, Rows
    <2>2. Untimed(P1[p]) = [Untimed(P[p]) EXCEPT !.stationary = @ \/ dwelt]
      <3> DEFINE s == P[p].stationary \/ dwelt
      <3>1. P1[p] = [tag_key |-> t,
                     started_at_ms |-> T[t].session_started_ms,
                     last_seen_ms |-> late,
                     stationary |-> s,
                     correlation_status |-> P[p].correlation_status,
                     identity |-> P[p].identity,
                     lpr_event_ms |-> P[p].lpr_event_ms]
        BY <1>2, Zenon
      <3>2. Untimed(P[p]).stationary = P[p].stationary
        BY DEF Untimed
      <3>3. [Untimed(P[p]) EXCEPT !.stationary = @ \/ dwelt] =
                [Untimed(P[p]) EXCEPT !.stationary = s]
        BY <3>2, Zenon
      <3> HIDE DEF s
      <3>4. [Untimed(P[p]) EXCEPT !.stationary = s] =
                [tag_key |-> t, stationary |-> s,
                 correlation_status |-> P[p].correlation_status,
                 identity |-> P[p].identity, lpr_event_ms |-> P[p].lpr_event_ms]
        BY <1>3 DEF Untimed
      <3>5. Untimed(P1[p]) =
                [tag_key |-> t, stationary |-> s,
                 correlation_status |-> P[p].correlation_status,
                 identity |-> P[p].identity, lpr_event_ms |-> P[p].lpr_event_ms]
        BY <3>1 DEF Untimed
      <3> QED BY <3>3, <3>4, <3>5, Zenon
    <2>3. [Q EXCEPT ![p].stationary = @ \/ dwelt] =
              [q \in DOMAIN Q |-> IF q = p THEN Untimed(P1[p]) ELSE Q[q]]
      <3> HIDE DEF Q
      <3> QED BY <2>1, <2>2, Zenon
    <2>4. Book!Without(Rows(P1), gone) =
              [q \in DOMAIN P1 \ gone |-> Untimed(P1[q])]
      BY DEF Book!Without, Rows
    <2>5. \A q \in DOMAIN P \ gone :
              Untimed(P1[q]) = IF q = p THEN Untimed(P1[p]) ELSE Q[q]
      BY <1>2, <2>1
    <2> HIDE DEF Q
    <2>6. Book!Without(Rows(P1), gone) =
              [q \in DOMAIN Q |-> IF q = p THEN Untimed(P1[p]) ELSE Q[q]]
      BY <1>2, <2>1, <2>4, <2>5
    <2> QED BY <2>3, <2>6, Zenon DEF Q, CommittedRows
  <1> QED BY <1>2, <1>5, <1>6, <1>7, Zenon DEF T1, P1, cutoff, gone

\* The three columns a verdict writes, in a row with or without times.
Written(row, status, i, e) ==
    [row EXCEPT !.correlation_status = status, !.identity = i,
                !.lpr_event_ms = e]

\* What writing the columns gives in a row without times.
LEMMA UntimedVerdict ==
  ASSUME NEW t, NEW s, NEW c, NEW j, NEW f, NEW status, NEW i, NEW e
  PROVE  Written(VerdictRow(t, s, c, j, f), status, i, e) =
            VerdictRow(t, s, status, i, e)
  <1> DEFINE u1 == [VerdictRow(t, s, c, j, f) EXCEPT !.correlation_status = status]
             u2 == [u1 EXCEPT !.identity = i]
  <1>1. u1 = VerdictRow(t, s, status, j, f)
    BY DEF VerdictRow
  <1> HIDE DEF u1
  <1>2. u2 = VerdictRow(t, s, status, i, f)
    BY <1>1 DEF VerdictRow
  <1> HIDE DEF u2
  <1>3. [u2 EXCEPT !.lpr_event_ms = e] = VerdictRow(t, s, status, i, e)
    BY <1>2 DEF VerdictRow
  <1>4. Written(VerdictRow(t, s, c, j, f), status, i, e) =
            [u2 EXCEPT !.lpr_event_ms = e]
    BY Zenon DEF u1, u2, Written
  <1> QED BY <1>3, <1>4, Zenon

\* What taking the times out of a row gives.
LEMMA UntimedRow ==
  ASSUME NEW t, NEW a, NEW l, NEW s, NEW c, NEW i, NEW e
  PROVE  Untimed([tag_key |-> t, started_at_ms |-> a, last_seen_ms |-> l,
                  stationary |-> s, correlation_status |-> c,
                  identity |-> i, lpr_event_ms |-> e]) =
            VerdictRow(t, s, c, i, e)
  BY DEF Untimed, VerdictRow

\* Writing the columns and taking the times out commute.
LEMMA WrittenMaps ==
  ASSUME NEW row \in PassageRow, NEW status, NEW i, NEW e
  PROVE  Untimed(Written(row, status, i, e)) =
            Written(Untimed(row), status, i, e)
  <1>1. Written(row, status, i, e) =
            [tag_key |-> row.tag_key, started_at_ms |-> row.started_at_ms,
             last_seen_ms |-> row.last_seen_ms, stationary |-> row.stationary,
             correlation_status |-> status, identity |-> i, lpr_event_ms |-> e]
    BY VerdictFields, Zenon DEF Written
  <1>2. Untimed(Written(row, status, i, e)) =
            VerdictRow(row.tag_key, row.stationary, status, i, e)
    BY <1>1, UntimedRow
  <1>3. Untimed(row) = VerdictRow(row.tag_key, row.stationary,
                           row.correlation_status, row.identity, row.lpr_event_ms)
    BY Zenon DEF Untimed, VerdictRow
  <1>4. Written(Untimed(row), status, i, e) =
            VerdictRow(row.tag_key, row.stationary, status, i, e)
    BY <1>3, UntimedVerdict
  <1> QED BY <1>2, <1>4, Zenon

\* A verdict on a row is the book's verdict on the untimed row.
LEMMA AmbiguatedMaps ==
  ASSUME NEW row \in PassageRow
  PROVE  Untimed(Ambiguated(row)) = Book!Ambiguated(Untimed(row))
  <1>1. /\ Ambiguated(row) = Written(row, "ambiguous", None, None)
        /\ Book!Ambiguated(Untimed(row)) =
              Written(Untimed(row), "ambiguous", None, None)
    BY Zenon DEF Ambiguated, Book!Ambiguated, Written
  <1> QED BY <1>1, WrittenMaps

\* The same for record_discovery_match.
LEMMA MatchedMaps ==
  ASSUME NEW row \in PassageRow, NEW i, NEW e
  PROVE  Untimed(MatchedWith(row, i, e)) =
            Book!MatchedWith(Untimed(row), i, e)
  <1> DEFINE u == Untimed(row)
  <1>1. u.correlation_status = row.correlation_status /\ u.identity = row.identity
    BY DEF Untimed
  <1>2. CASE row.correlation_status = "pending"
    <2>1. MatchedWith(row, i, e) = Written(row, "matched", i, e)
      BY <1>2, Zenon DEF MatchedWith, Written
    <2>2. Book!MatchedWith(u, i, e) = Written(u, "matched", i, e)
      <3> HIDE DEF u
      <3> QED BY <1>1, <1>2, Zenon DEF Book!MatchedWith, Written
    <2> QED BY <2>1, <2>2, WrittenMaps
  <1>3. CASE row.correlation_status = "matched" /\ row.identity # i
    <2>1. MatchedWith(row, i, e) = Ambiguated(row)
      BY <1>3 DEF MatchedWith
    <2>2. Book!MatchedWith(u, i, e) = Book!Ambiguated(u)
      <3> HIDE DEF u
      <3> QED BY <1>1, <1>3 DEF Book!MatchedWith
    <2> QED BY <2>1, <2>2, AmbiguatedMaps, Zenon
  <1>4. CASE /\ row.correlation_status # "pending"
             /\ ~(row.correlation_status = "matched" /\ row.identity # i)
    <2>1. MatchedWith(row, i, e) = row
      BY <1>4, Zenon DEF MatchedWith
    <2>2. Book!MatchedWith(u, i, e) = u
      <3> HIDE DEF u
      <3> QED BY <1>1, <1>4, Zenon DEF Book!MatchedWith
    <2> QED BY <2>1, <2>2, Zenon
  <1> QED BY <1>2, <1>3, <1>4

\* A row replaced is an untimed row replaced.
LEMMA ReplacedMaps ==
  ASSUME NEW P, NEW p \in DOMAIN P, NEW row
  PROVE  Rows([P EXCEPT ![p] = row]) = [Rows(P) EXCEPT ![p] = Untimed(row)]
  BY DEF Rows

\* A reset is the book's.
LEMMA ClearedMaps ==
  ASSUME NEW T, NEW P, NEW n, Sound(T, P, n), NEW t \in Tags
  PROVE  /\ Rows([p \in {q \in DOMAIN P : P[q].tag_key # t} |-> P[p]]) =
               ClearedRows(Rows(P), t)
         /\ Cur([u \in DOMAIN T |->
                    IF u = t THEN [T[u] EXCEPT !.current_passage_id = None]
                    ELSE T[u]]) = [Cur(T) EXCEPT ![t] = None]
  <1>1. {p \in DOMAIN Rows(P) : Rows(P)[p].tag_key = t} =
            {p \in DOMAIN P : P[p].tag_key = t}
    BY DEF Rows, Untimed
  <1>2. Rows([p \in {q \in DOMAIN P : P[q].tag_key # t} |-> P[p]]) =
            Book!Without(Rows(P), {p \in DOMAIN P : P[p].tag_key = t})
    BY DEF Rows, Book!Without
  <1>3. \A u \in DOMAIN T :
            [T[u] EXCEPT !.current_passage_id = None].current_passage_id = None
    BY DEF Sound, SoundTypes, TagRow
  <1>4. Cur([u \in DOMAIN T |->
                IF u = t THEN [T[u] EXCEPT !.current_passage_id = None]
                ELSE T[u]]) = [Cur(T) EXCEPT ![t] = None]
    BY <1>3 DEF Cur
  <1> QED BY <1>1, <1>2, <1>4, Zenon DEF ClearedRows

-----------------------------------------------------------------------------
\* Each operation of the timed store is the same operation of the book, with
\* the passages the retention drops as `expired`.
LEMMA BookStep ==
  ASSUME IInv, [Next]_vars
  PROVE  [Book!BookNext]_<<Rows(passages), Cur(tags), nextId>>
  <1> DEFINE Goal == [Book!BookNext]_<<Rows(passages), Cur(tags), nextId>>
  <1>1. ASSUME NEW t \in Tags, NEW at \in Times, OpenPassage(t, at)
        PROVE  Goal
    <2> DEFINE T == WithTag(tags, t, nextId, at)
               P == WithPassage(passages, t, nextId, at)
               dwelt == at - T[t].session_started_ms >= MaxDwell
               gone == Swept(TouchedTags(T, t, at),
                             TouchedPassages(P, nextId, at, dwelt),
                             at - Retention)
    <2>1. /\ nextId <= MaxPassages /\ nextId' = nextId + 1
          /\ t \in DOMAIN tags /\ tags[t].current_passage_id # None =>
                at - tags[t].last_seen_ms > Gap
      BY <1>1 DEF OpenPassage, StartsPassage, HasCurrent
    <2>2. Sound(T, P, nextId + 1)
      BY <2>1, OpenedSound DEF IInv
    <2>3. t \in DOMAIN T /\ T[t].current_passage_id = nextId
          /\ T[t].session_started_ms = at
      BY DEF WithTag
    <2>4. nextId # None /\ nextId \notin DOMAIN passages
          /\ DOMAIN P = DOMAIN passages \cup {nextId}
      BY IdentityAssumption DEF IInv, Sound, SoundTypes, WithPassage, PassageIds
    <2>5. dwelt = FALSE
      BY <2>3, ConfigAssumption DEF Times
    <2>6. /\ Rows(P) = OpenedRows(Rows(passages), t, nextId)
          /\ Cur(T) = OpenedCur(Cur(tags), t, nextId)
      BY OpenedMaps
    <2>7. /\ passages' = SweptPassages(TouchedTags(T, t, at),
                             TouchedPassages(P, nextId, at, dwelt), at - Retention)
          /\ tags' = SweptTags(TouchedTags(T, t, at),
                         TouchedPassages(P, nextId, at, dwelt), at - Retention)
      BY <1>1, Zenon DEF OpenPassage, Observe
    <2>8. dwelt \in BOOLEAN /\ (dwelt <=> at - T[t].session_started_ms >= MaxDwell)
      OBVIOUS
    <2> HIDE DEF T, P, dwelt
    <2>9. /\ gone \subseteq DOMAIN P /\ nextId \notin gone
          /\ Rows(passages') = CommittedRows(Rows(P), nextId, dwelt, gone)
          /\ Cur(tags') = CommittedCur(Cur(T), gone)
      BY <2>2, <2>3, <2>4, <2>7, <2>8, ObserveMaps
    <2> HIDE DEF gone
    <2>10. gone \in SUBSET DOMAIN Rows(passages)
      BY <2>4, <2>9 DEF Rows
    <2>11. /\ Rows(passages') =
                 CommittedRows(OpenedRows(Rows(passages), t, nextId),
                               nextId, FALSE, gone)
           /\ Cur(tags') = CommittedCur(OpenedCur(Cur(tags), t, nextId), gone)
      BY <2>5, <2>6, <2>9, Zenon
    <2>12. Book!OpenPassage(t, gone)
      BY <2>1, <2>9, <2>11, Zenon
         DEF Book!OpenPassage, Book!Commit, Rows, Cur, Untimed, OpenedRows,
             OpenedCur, CommittedRows, CommittedCur
    <2> QED BY <2>10, <2>12, Zenon DEF Book!BookNext, Rows, Untimed
  <1>2. ASSUME NEW t \in Tags, NEW at \in Times, ContinuePassage(t, at)
        PROVE  Goal
    <2> DEFINE p == tags[t].current_passage_id
    <2>1. t \in DOMAIN tags /\ p # None /\ nextId' = nextId
      BY <1>2 DEF ContinuePassage, StartsPassage, HasCurrent
    <2>2. PICK dwelt \in BOOLEAN :
              dwelt = (at - tags[t].session_started_ms >= MaxDwell)
      <3>1. (at - tags[t].session_started_ms >= MaxDwell) \in BOOLEAN
        OBVIOUS
      <3> QED BY <3>1, Zenon
    <2>3. PICK gone : gone = Swept(TouchedTags(tags, t, at),
                                   TouchedPassages(passages, p, at, dwelt),
                                   at - Retention)
      OBVIOUS
    <2>4. /\ passages' = SweptPassages(TouchedTags(tags, t, at),
                             TouchedPassages(passages, p, at, dwelt), at - Retention)
          /\ tags' = SweptTags(TouchedTags(tags, t, at),
                         TouchedPassages(passages, p, at, dwelt), at - Retention)
          /\ Cur(tags)[t] = p
      <3>1. Cur(tags)[t] = p
        BY <2>1 DEF Cur
      <3> QED BY <1>2, <2>2, <3>1, Zenon DEF ContinuePassage, Observe
    <2> HIDE DEF p
    <2>5. /\ gone \subseteq DOMAIN passages /\ p \notin gone
          /\ Rows(passages') = CommittedRows(Rows(passages), p, dwelt, gone)
          /\ Cur(tags') = CommittedCur(Cur(tags), gone)
      <3>1. dwelt <=> at - tags[t].session_started_ms >= MaxDwell
        BY <2>2, Zenon
      <3>2. Sound(tags, passages, nextId)
        BY DEF IInv
      <3>3. p = tags[t].current_passage_id
        BY DEF p
      <3> QED BY <2>1, <2>3, <2>4, <3>1, <3>2, <3>3, ObserveMaps
    <2>6. gone \in SUBSET DOMAIN Rows(passages)
      BY <2>5 DEF Rows
    <2>7. /\ Cur(tags)[t] # None /\ Cur(tags)[t] \notin gone
          /\ Rows(passages') =
                CommittedRows(Rows(passages), Cur(tags)[t], dwelt, gone)
      BY <2>1, <2>4, <2>5, Zenon
    <2>8. Book!ContinuePassage(t, dwelt, gone)
      BY <2>1, <2>5, <2>7, Zenon
         DEF Book!ContinuePassage, Book!Commit, Rows, Cur, Untimed,
             CommittedRows, CommittedCur
    <2> QED BY <2>6, <2>8, Zenon DEF Book!BookNext, Rows, Untimed
  <1>3. ASSUME NEW p \in PassageIds, MarkAmbiguous(p) PROVE Goal
    <2>1. Cur(tags') = Cur(tags) /\ nextId' = nextId
      BY <1>3 DEF MarkAmbiguous
    <2>2. CASE p \notin DOMAIN passages
      <3>1. passages' = passages
        BY <1>3, <2>2 DEF MarkAmbiguous
      <3> QED BY <2>1, <3>1
    <2>3. CASE p \in DOMAIN passages
      <3>1. passages' = [passages EXCEPT ![p] = Ambiguated(passages[p])]
        BY <1>3, <2>3 DEF MarkAmbiguous
      <3>2. passages[p] \in PassageRow /\ Rows(passages)[p] = Untimed(passages[p])
            /\ p \in DOMAIN Rows(passages)
        BY <2>3 DEF IInv, Sound, SoundTypes, Rows
      <3>3. Rows(passages') =
                [Rows(passages) EXCEPT ![p] = Book!Ambiguated(Rows(passages)[p])]
        <4>1. Rows(passages') =
                  [Rows(passages) EXCEPT ![p] = Untimed(Ambiguated(passages[p]))]
          BY <2>3, <3>1, ReplacedMaps, Zenon
        <4>2. Untimed(Ambiguated(passages[p])) = Book!Ambiguated(Untimed(passages[p]))
          BY <3>2, AmbiguatedMaps, Zenon
        <4> QED BY <3>2, <4>1, <4>2, Zenon
      <3>4. Book!MarkAmbiguous(p)
        BY <2>1, <3>2, <3>3, Zenon DEF Book!MarkAmbiguous, Rows, Cur, Untimed
      <3> QED BY <3>4, Zenon DEF Book!BookNext, Rows, Untimed, PassageIds, Book!PassageIds
    <2> QED BY <2>2, <2>3
  <1>4. ASSUME NEW p \in PassageIds, NEW i \in Identities, NEW e \in EventTimes,
               RecordMatch(p, i, e)
        PROVE  Goal
    <2>1. Cur(tags') = Cur(tags) /\ nextId' = nextId
      BY <1>4 DEF RecordMatch
    <2>2. /\ p \in DOMAIN passages /\ ~passages[p].stationary
          /\ passages' = [passages EXCEPT ![p] = MatchedWith(passages[p], i, e)]
      BY <1>4 DEF RecordMatch
    <2>3. /\ passages[p] \in PassageRow
          /\ Rows(passages)[p] = Untimed(passages[p])
          /\ p \in DOMAIN Rows(passages)
      BY <2>2 DEF IInv, Sound, SoundTypes, Rows
    <2>4. Untimed(passages[p]).stationary = passages[p].stationary
      BY DEF Untimed
    <2>5. Rows(passages') =
              [Rows(passages) EXCEPT ![p] = Book!MatchedWith(Rows(passages)[p], i, e)]
      <3>1. Rows(passages') =
                [Rows(passages) EXCEPT ![p] = Untimed(MatchedWith(passages[p], i, e))]
        BY <2>2, ReplacedMaps, Zenon
      <3>2. Untimed(MatchedWith(passages[p], i, e)) =
                Book!MatchedWith(Untimed(passages[p]), i, e)
        BY <2>3, MatchedMaps, Zenon
      <3> QED BY <2>3, <3>1, <3>2, Zenon
    <2>6. p \in DOMAIN Rows(passages) /\ ~Rows(passages)[p].stationary
      BY <2>2, <2>3, <2>4, Zenon
    <2>7. Book!RecordMatch(p, i, e)
      BY <2>1, <2>5, <2>6, Zenon
         DEF Book!RecordMatch, Book!Matchable, Rows, Cur, Untimed
    <2> QED BY <2>7, Zenon DEF Book!BookNext, Rows, Untimed, PassageIds, Book!PassageIds
  <1>5. ASSUME NEW t \in Tags, ClearEvidence(t) PROVE Goal
    <2>1. /\ Rows(passages') = ClearedRows(Rows(passages), t)
          /\ Cur(tags') = [Cur(tags) EXCEPT ![t] = None]
          /\ nextId' = nextId
      BY <1>5, ClearedMaps, Zenon DEF ClearEvidence, IInv
    <2>2. Book!ClearEvidence(t)
      BY <2>1, Zenon DEF Book!ClearEvidence, Rows, Cur, Untimed, ClearedRows
    <2> QED BY <2>2, Zenon DEF Book!BookNext, Rows, Untimed
  <1>6. CASE UNCHANGED vars
    BY <1>6 DEF vars
  <1> QED
    BY <1>1, <1>2, <1>3, <1>4, <1>5, <1>6 DEF Next, RecordSeen

\* An empty database is an empty book.
LEMMA BookStart == Init => Book!BookInit
  BY DEF Init, Book!BookInit

\* The timed store implements the untimed one Learning is built on.
THEOREM BookImplemented == Spec => ImplementsBook
  <1>1. IInv /\ [Next]_vars =>
            [Book!BookNext]_(Book!tables)
    BY BookStep, Zenon DEF Book!tables, Rows, Cur, Untimed
  <1> QED
    BY <1>1, BookStart, IInvHolds, PTL DEF Spec, ImplementsBook, Book!BookSpec
=============================================================================
