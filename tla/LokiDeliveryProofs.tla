------------------------- MODULE LokiDeliveryProofs -------------------------
(***************************************************************************)
(* Theorems about LokiDelivery, for any number of threads, any queue and   *)
(* batch size and any clock: its counters and its types.  depth stays a    *)
(* natural number because it counts what is under way, which is therefore  *)
(* part of the inductive invariant.                                        *)
(***************************************************************************)
EXTENDS LokiDelivery, FiniteSetTheorems, SequenceTheorems, TLAPS

LEMMA Sizes ==
    /\ IsFiniteSet(Writers)
    /\ {Capacity, BatchSize, MaxRetained, MaxRecords, MaxClock} \subseteq Nat
BY SizeAssumption

-----------------------------------------------------------------------------
(* Counting threads by their stage.                                        *)

Bit(b) == IF b THEN 1 ELSE 0

In(st, S) == {w \in Writers : st[w] \in S}

LEMMA Counted ==
    ASSUME NEW st, NEW S
    PROVE  IsFiniteSet(In(st, S)) /\ Cardinality(In(st, S)) \in Nat
<1>1. In(st, S) \subseteq Writers
  BY DEF In
<1> QED BY <1>1, Sizes, FS_Subset, FS_CardinalityType

\* One thread's step changes the count by that thread.
LEMMA Moved ==
    ASSUME NEW st \in [Writers -> Stages], NEW w \in Writers, NEW s \in Stages, NEW S
    PROVE  Cardinality(In([st EXCEPT ![w] = s], S))
             = Cardinality(In(st, S)) + Bit(s \in S) - Bit(st[w] \in S)
<1> DEFINE others == In(st, S) \ {w}
           st2 == [st EXCEPT ![w] = s]
<1>1. IsFiniteSet(others) /\ Cardinality(others) \in Nat
  BY Counted, FS_Subset, FS_CardinalityType
<1>2. w \notin others
  OBVIOUS
<1>3. Cardinality(others \cup {w}) = Cardinality(others) + 1
  BY <1>1, <1>2, FS_AddElement
<1>4. In(st, S) = IF st[w] \in S THEN others \cup {w} ELSE others
  BY DEF In
<1>5. In(st2, S) = IF s \in S THEN others \cup {w} ELSE others
  <2>1. st2[w] = s /\ \A v \in Writers \ {w} : st2[v] = st[v]
    OBVIOUS
  <2> QED BY <2>1 DEF In
<1> HIDE DEF others, st2
<1>6. Cardinality(In(st, S)) = Cardinality(others) + Bit(st[w] \in S)
  BY <1>1, <1>3, <1>4 DEF Bit
<1>7. Cardinality(In(st2, S)) = Cardinality(others) + Bit(s \in S)
  BY <1>1, <1>3, <1>5 DEF Bit
<1> QED BY <1>1, <1>6, <1>7 DEF st2, Bit

Waiting == {"counted", "refused"}
Uncounted == {"written", "released"}

LEMMA StagesCounted ==
    /\ At("counted") \cup At("refused") = In(stage, Waiting)
    /\ At("written") \cup At("released") = In(stage, Uncounted)
BY DEF At, In, Waiting, Uncounted

-----------------------------------------------------------------------------
(* The invariant.                                                          *)

Typed ==
    /\ stage \in [Writers -> Stages]
    /\ written \in [Writers -> 0 .. MaxRecords]
    /\ journal \subseteq Records
    /\ channel \in Seq(Records)
    /\ batch \in Seq(Entries)
    /\ worker \in WorkerStates
    /\ clock \in Nat
    /\ loki \subseteq Entries

Totals == enqueued \in Nat /\ dropped \in Nat /\ sent \in Nat

\* The journal names no record its thread has not begun.
JournalFresh ==
    /\ IsFiniteSet(journal)
    /\ \A r \in journal : r.n <= written[r.by]

Waits == Cardinality(In(stage, Waiting))
Apart == Cardinality(In(stage, Uncounted))

DepthCounts == depth = Waits + Len(channel) + Len(batch) + InHand
JournalCounts == Cardinality(journal) + CountedTwice = sent + dropped + depth + Apart

\* A thread under way with a record has it in the journal.
UnderWayIsJournaled ==
    \A w \in Writers : stage[w] # "idle" => Current(w) \in journal

IInv == /\ Typed /\ Totals /\ JournalFresh /\ UnderWayIsJournaled
        /\ DepthCounts /\ JournalCounts /\ stopping \in BOOLEAN

LEMMA Equivalent ==
    IInv => TypeOK /\ DepthIsUnderWay /\ EveryRecordAccounted
<1> SUFFICES ASSUME IInv PROVE TypeOK /\ DepthIsUnderWay /\ EveryRecordAccounted
  OBVIOUS
<1>1. Waits \in Nat /\ Len(channel) \in Nat /\ Len(batch) \in Nat /\ InHand \in Nat
  BY Counted, LenProperties DEF IInv, Typed, Waits, InHand
<1>2. depth \in Nat
  BY <1>1 DEF IInv, DepthCounts
<1>3. TypeOK
  <2>1. stopping \in BOOLEAN
    BY DEF IInv
  <2> QED BY <1>2, <2>1 DEF IInv, Typed, Totals, TypeOK
<1>4. DepthIsUnderWay /\ EveryRecordAccounted
  BY StagesCounted DEF IInv, DepthCounts, JournalCounts, DepthIsUnderWay,
     EveryRecordAccounted, Waits, Apart
<1> QED BY <1>3, <1>4

LEMMA Initial == Init => IInv
<1> SUFFICES ASSUME Init PROVE IInv
  OBVIOUS
<1>1. In(stage, Waiting) = {} /\ In(stage, Uncounted) = {}
  BY DEF Init, In, Waiting, Uncounted
<1>2. Waits = 0 /\ Apart = 0
  BY <1>1, FS_EmptySet DEF Waits, Apart
<1>3. Typed
  BY Sizes DEF Init, Typed, Stages, WorkerStates
<1>4. JournalFresh /\ Cardinality(journal) = 0
  BY FS_EmptySet DEF Init, JournalFresh
<1>5. DepthCounts /\ JournalCounts /\ Totals
  <2>1. InHand = 0 /\ CountedTwice = 0
    BY DEF Init, InHand, CountedTwice, OverStates, SettledStates
  <2>2. Len(channel) = 0 /\ Len(batch) = 0
    BY EmptySeq DEF Init
  <2> QED BY <1>2, <1>4, <2>1, <2>2 DEF Init, DepthCounts, JournalCounts, Totals
<1>6. stopping \in BOOLEAN
  BY Zenon DEF Init
<1>7. UnderWayIsJournaled
  BY DEF Init, UnderWayIsJournaled
<1> QED BY <1>3, <1>4, <1>5, <1>6, <1>7 DEF IInv

-----------------------------------------------------------------------------
(* The threads' steps.                                                     *)

LEMMA Naturals ==
    ASSUME IInv
    PROVE  /\ Waits \in Nat /\ Apart \in Nat /\ Len(channel) \in Nat
           /\ Len(batch) \in Nat /\ depth \in Nat
           /\ InHand \in Nat /\ CountedTwice \in Nat
           /\ enqueued \in Nat /\ dropped \in Nat /\ sent \in Nat
<1>1. Waits \in Nat /\ Apart \in Nat
  BY Counted DEF Waits, Apart
<1>2. Len(channel) \in Nat /\ Len(batch) \in Nat
  BY LenProperties DEF IInv, Typed
<1>3. InHand \in Nat /\ CountedTwice \in Nat
  BY <1>2 DEF InHand, CountedTwice
<1> QED BY <1>1, <1>2, <1>3 DEF IInv, DepthCounts, Totals

LEMMA Goes ==
    ASSUME Typed, NEW w \in Writers, NEW s \in Stages, Goto(w, s)
    PROVE  /\ stage' \in [Writers -> Stages]
           /\ stage'[w] = s
           /\ \A v \in Writers \ {w} : stage'[v] = stage[v]
           /\ Waits' = Waits + Bit(s \in Waiting) - Bit(stage[w] \in Waiting)
           /\ Apart' = Apart + Bit(s \in Uncounted) - Bit(stage[w] \in Uncounted)
<1>1. stage \in [Writers -> Stages] /\ stage' = [stage EXCEPT ![w] = s]
  BY DEF Typed, Goto
<1>2. Waits' = Waits + Bit(s \in Waiting) - Bit(stage[w] \in Waiting)
  BY <1>1, Moved DEF Waits, Waiting
<1>3. Apart' = Apart + Bit(s \in Uncounted) - Bit(stage[w] \in Uncounted)
  BY <1>1, Moved DEF Apart
<1> QED BY <1>1, <1>2, <1>3

\* A step of a thread that leaves the journal and its count of records.
LEMMA Stays ==
    ASSUME IInv, NEW w \in Writers, stage[w] # "idle", UNCHANGED <<written, journal>>,
           \A v \in Writers \ {w} : stage'[v] = stage[v]
    PROVE  UnderWayIsJournaled' /\ JournalFresh'
BY DEF IInv, UnderWayIsJournaled, JournalFresh, Current

LEMMA JournalKeeps ==
    ASSUME IInv, NEW w \in Writers, Journal(w)
    PROVE  IInv'
<1> DEFINE r == [by |-> w, n |-> written[w] + 1]
<1>1. written[w] \in Nat /\ written[w] < MaxRecords /\ MaxRecords \in Nat
  BY Sizes DEF Journal, IInv, Typed
<1>2. r \in Records /\ r \notin journal
  BY <1>1 DEF Records, IInv, JournalFresh
<1>3. Cardinality(journal') = Cardinality(journal) + 1 /\ IsFiniteSet(journal')
  BY <1>2, FS_AddElement DEF Journal, IInv, JournalFresh
<1>4. Cardinality(journal) \in Nat
  BY FS_CardinalityType DEF IInv, JournalFresh
<1>5. /\ stage' \in [Writers -> Stages] /\ stage'[w] = "written"
      /\ \A v \in Writers \ {w} : stage'[v] = stage[v]
      /\ Waits' = Waits /\ Apart' = Apart + 1
  BY Goes, Naturals DEF Journal, Stages, Bit, Waiting, Uncounted, IInv
<1>6. /\ written' \in [Writers -> 0 .. MaxRecords] /\ written'[w] = written[w] + 1
      /\ \A v \in Writers \ {w} : written'[v] = written[v]
  BY <1>1 DEF Journal, IInv, Typed
<1>7. UNCHANGED <<channel, batch, worker, clock, loki, depth, enqueued, dropped, sent>>
  BY DEF Journal, counters
<1>8. Typed'
  BY <1>2, <1>5, <1>6, <1>7 DEF Journal, IInv, Typed
<1>9. JournalFresh'
  <2> SUFFICES ASSUME NEW x \in journal' PROVE x.n <= written'[x.by]
    BY <1>3 DEF JournalFresh
  <2>1. CASE x = r
    BY <1>1, <1>6, <2>1
  <2>2. CASE x \in journal
    <3>1. x.by \in Writers /\ x.n <= written[x.by] /\ x.n \in Nat
      BY <2>2 DEF IInv, Typed, JournalFresh, Records
    <3>2. CASE x.by = w
      BY <1>1, <1>6, <3>1, <3>2
    <3>3. CASE x.by # w
      BY <1>6, <3>1, <3>3
    <3> QED BY <3>2, <3>3
  <2> QED BY <2>1, <2>2 DEF Journal
<1>10. UnderWayIsJournaled'
  <2> SUFFICES ASSUME NEW v \in Writers, stage'[v] # "idle"
               PROVE  [by |-> v, n |-> written'[v]] \in journal'
    BY DEF UnderWayIsJournaled, Current
  <2> QED BY <1>5, <1>6 DEF Journal, IInv, UnderWayIsJournaled, Current
<1>11. DepthCounts' /\ JournalCounts' /\ Totals'
  <2>0. InHand' = InHand /\ CountedTwice' = CountedTwice
    BY <1>7 DEF InHand, CountedTwice
  <2>1. DepthCounts'
    BY <1>5, <1>7, <2>0 DEF DepthCounts, IInv
  <2>2. JournalCounts'
    <3>1. Cardinality(journal) + CountedTwice = sent + dropped + depth + Apart
      BY DEF IInv, JournalCounts
    <3>2. /\ CountedTwice \in Nat /\ sent \in Nat /\ dropped \in Nat /\ depth \in Nat
          /\ Apart \in Nat
      BY Naturals
    <3> QED BY <1>3, <1>4, <1>5, <1>7, <2>0, <3>1, <3>2 DEF JournalCounts
  <2> QED BY <1>7, <2>1, <2>2 DEF Totals, IInv
<1>12. stopping' \in BOOLEAN
  BY Zenon DEF Journal, IInv
<1> QED BY <1>8, <1>9, <1>10, <1>11, <1>12 DEF IInv

LEMMA JournalFailsKeeps ==
    ASSUME IInv, NEW w \in Writers, JournalFails(w)
    PROVE  IInv'
<1>1. written[w] \in Nat /\ written[w] < MaxRecords /\ MaxRecords \in Nat
  BY Sizes DEF JournalFails, IInv, Typed
<1>2. /\ written' \in [Writers -> 0 .. MaxRecords] /\ written'[w] = written[w] + 1
      /\ \A v \in Writers \ {w} : written'[v] = written[v]
  BY <1>1 DEF JournalFails, IInv, Typed
<1>3. UNCHANGED <<stage, journal, channel, batch, worker, clock, loki,
                  depth, enqueued, dropped, sent>>
  BY DEF JournalFails, counters
<1>4. Typed'
  BY <1>2, <1>3 DEF IInv, Typed
<1>5. JournalFresh'
  <2> SUFFICES ASSUME NEW x \in journal PROVE x.n <= written'[x.by]
    BY <1>3 DEF JournalFresh, IInv
  <2>1. x.by \in Writers /\ x.n <= written[x.by] /\ x.n \in Nat
    BY DEF IInv, Typed, JournalFresh, Records
  <2>2. CASE x.by = w
    BY <1>1, <1>2, <2>1, <2>2
  <2>3. CASE x.by # w
    BY <1>2, <2>1, <2>3
  <2> QED BY <2>2, <2>3
<1>6. UnderWayIsJournaled'
  BY <1>2, <1>3 DEF JournalFails, IInv, UnderWayIsJournaled, Current
<1>7. DepthCounts' /\ JournalCounts' /\ Totals'
  BY <1>3 DEF IInv, DepthCounts, JournalCounts, Totals, Waits, Apart, InHand,
              CountedTwice
<1>8. stopping' \in BOOLEAN
  BY Zenon DEF JournalFails, IInv
<1> QED BY <1>4, <1>5, <1>6, <1>7, <1>8 DEF IInv

\* The steps that send the record or count it.
LEMMA SendKeeps ==
    ASSUME IInv, NEW w \in Writers,
           Unsendable(w) \/ Count(w) \/ Offer(w) \/ Accepted(w) \/ Refused(w)
           \/ CountRefused(w)
    PROVE  IInv'
<1>1. UNCHANGED <<written, journal, batch, worker, clock, stopping, loki>>
  BY DEF Unsendable, Count, Offer, Accepted, Refused, CountRefused
<1>2. stopping' \in BOOLEAN
  BY <1>1, Zenon DEF IInv
<1>3. stage[w] # "idle"
  BY DEF Unsendable, Count, Offer, Accepted, Refused, CountRefused
<1>4. PICK s \in Stages : Goto(w, s)
  BY DEF Unsendable, Count, Offer, Accepted, Refused, CountRefused, Stages
<1>5. stage' \in [Writers -> Stages] /\ \A v \in Writers \ {w} : stage'[v] = stage[v]
  BY <1>4, Goes DEF IInv
<1>6. JournalFresh' /\ UnderWayIsJournaled'
  BY <1>1, <1>3, <1>5, Stays
<1>7. channel' \in Seq(Records)
  <2>1. CASE UNCHANGED channel
    BY <2>1 DEF IInv, Typed
  <2>2. CASE channel' = Append(channel, Current(w))
    <3>1. Current(w) \in Records
      BY <1>3 DEF IInv, Typed, UnderWayIsJournaled
    <3> QED BY <2>2, <3>1, AppendProperties DEF IInv, Typed
  <2> QED BY <2>1, <2>2 DEF Unsendable, Count, Offer, Accepted, Refused, CountRefused
<1>8. Typed'
  BY <1>1, <1>5, <1>7 DEF IInv, Typed
<1>9. Cardinality(journal) \in Nat
  BY FS_CardinalityType DEF IInv, JournalFresh
<1>16. /\ InHand' = InHand /\ CountedTwice' = CountedTwice /\ Len(batch') = Len(batch)
       /\ Cardinality(journal') = Cardinality(journal)
  BY <1>1 DEF InHand, CountedTwice
<1>17. /\ depth = Waits + Len(channel) + Len(batch) + InHand
       /\ Cardinality(journal) + CountedTwice = sent + dropped + depth + Apart
  BY DEF IInv, DepthCounts, JournalCounts
<1>20. /\ Waits \in Nat /\ Apart \in Nat /\ Len(channel) \in Nat /\ Len(batch) \in Nat
       /\ depth \in Nat /\ InHand \in Nat /\ CountedTwice \in Nat
       /\ enqueued \in Nat /\ dropped \in Nat /\ sent \in Nat
  BY Naturals
<1> DEFINE Kept == DepthCounts' /\ JournalCounts' /\ Totals'
<1>10. ASSUME Unsendable(w) PROVE Kept
  <2>1. Waits' = Waits /\ Apart' = Apart - 1
    BY <1>10, Goes, Naturals DEF Unsendable, Stages, Waiting, Uncounted, Bit, IInv
  <2>2. /\ Len(channel') = Len(channel) /\ depth' = depth /\ dropped' = dropped + 1
        /\ sent' = sent /\ enqueued' = enqueued
    BY <1>10 DEF Unsendable
  <2>3. DepthCounts'
    BY <1>16, <1>17, <1>20, <2>1, <2>2 DEF DepthCounts
  <2>4. JournalCounts'
    BY <1>9, <1>16, <1>17, <1>20, <2>1, <2>2 DEF JournalCounts
  <2>5. Totals'
    BY <1>20, <2>2 DEF Totals
  <2> QED BY <2>3, <2>4, <2>5
<1>11. ASSUME Count(w) PROVE Kept
  <2>1. Waits' = Waits + 1 /\ Apart' = Apart - 1
    BY <1>11, Goes, Naturals DEF Count, Stages, Waiting, Uncounted, Bit, IInv
  <2>2. /\ Len(channel') = Len(channel) /\ depth' = depth + 1 /\ dropped' = dropped
        /\ sent' = sent /\ enqueued' = enqueued
    BY <1>11 DEF Count
  <2>3. DepthCounts'
    BY <1>16, <1>17, <1>20, <2>1, <2>2 DEF DepthCounts
  <2>4. JournalCounts'
    BY <1>9, <1>16, <1>17, <1>20, <2>1, <2>2 DEF JournalCounts
  <2>5. Totals'
    BY <1>20, <2>2 DEF Totals
  <2> QED BY <2>3, <2>4, <2>5
<1>12. ASSUME Offer(w) PROVE Kept
  <2>1. UNCHANGED <<depth, enqueued, dropped, sent>>
    BY <1>12 DEF Offer, counters
  <2>2. CASE Goto(w, "queued") /\ channel' = Append(channel, Current(w))
    <3>1. Waits' = Waits - 1 /\ Apart' = Apart
      BY <1>12, <2>2, Goes, Naturals DEF Offer, Stages, Waiting, Uncounted, Bit, IInv
    <3>2. Len(channel') = Len(channel) + 1
      <4>1. Current(w) \in Records
        BY <1>3 DEF IInv, Typed, UnderWayIsJournaled
      <4> QED BY <2>2, <4>1, AppendProperties DEF IInv, Typed
    <3>3. DepthCounts'
      BY <1>16, <1>17, <1>20, <2>1, <3>1, <3>2 DEF DepthCounts
    <3>4. JournalCounts'
      BY <1>9, <1>16, <1>17, <1>20, <2>1, <3>1 DEF JournalCounts
    <3>5. Totals'
      BY <1>20, <2>1 DEF Totals
    <3> QED BY <3>3, <3>4, <3>5
  <2>3. CASE Goto(w, "refused") /\ UNCHANGED channel
    <3>1. Waits' = Waits /\ Apart' = Apart
      BY <1>12, <2>3, Goes, Naturals DEF Offer, Stages, Waiting, Uncounted, Bit, IInv
    <3>2. Len(channel') = Len(channel)
      BY <2>3
    <3>3. DepthCounts'
      BY <1>16, <1>17, <1>20, <2>1, <3>1, <3>2 DEF DepthCounts
    <3>4. JournalCounts'
      BY <1>9, <1>16, <1>17, <1>20, <2>1, <3>1 DEF JournalCounts
    <3>5. Totals'
      BY <1>20, <2>1 DEF Totals
    <3> QED BY <3>3, <3>4, <3>5
  <2> QED BY <1>12, <2>2, <2>3 DEF Offer
<1>13. ASSUME Accepted(w) PROVE Kept
  <2>1. Waits' = Waits /\ Apart' = Apart
    BY <1>13, Goes, Naturals DEF Accepted, Stages, Waiting, Uncounted, Bit, IInv
  <2>2. /\ Len(channel') = Len(channel) /\ depth' = depth /\ dropped' = dropped
        /\ sent' = sent /\ enqueued' = enqueued + 1
    BY <1>13 DEF Accepted
  <2>3. DepthCounts'
    BY <1>16, <1>17, <1>20, <2>1, <2>2 DEF DepthCounts
  <2>4. JournalCounts'
    BY <1>9, <1>16, <1>17, <1>20, <2>1, <2>2 DEF JournalCounts
  <2>5. Totals'
    BY <1>20, <2>2 DEF Totals
  <2> QED BY <2>3, <2>4, <2>5
<1>14. ASSUME Refused(w) PROVE Kept
  <2>1. Waits' = Waits - 1 /\ Apart' = Apart + 1
    BY <1>14, Goes, Naturals DEF Refused, Stages, Waiting, Uncounted, Bit, IInv
  <2>2. /\ Len(channel') = Len(channel) /\ depth' = depth - 1 /\ dropped' = dropped
        /\ sent' = sent /\ enqueued' = enqueued
    BY <1>14 DEF Refused
  <2>3. DepthCounts'
    BY <1>16, <1>17, <1>20, <2>1, <2>2 DEF DepthCounts
  <2>4. JournalCounts'
    BY <1>9, <1>16, <1>17, <1>20, <2>1, <2>2 DEF JournalCounts
  <2>5. Totals'
    BY <1>20, <2>2 DEF Totals
  <2> QED BY <2>3, <2>4, <2>5
<1>15. ASSUME CountRefused(w) PROVE Kept
  <2>1. Waits' = Waits /\ Apart' = Apart - 1
    BY <1>15, Goes, Naturals DEF CountRefused, Stages, Waiting, Uncounted, Bit, IInv
  <2>2. /\ Len(channel') = Len(channel) /\ depth' = depth /\ dropped' = dropped + 1
        /\ sent' = sent /\ enqueued' = enqueued
    BY <1>15 DEF CountRefused
  <2>3. DepthCounts'
    BY <1>16, <1>17, <1>20, <2>1, <2>2 DEF DepthCounts
  <2>4. JournalCounts'
    BY <1>9, <1>16, <1>17, <1>20, <2>1, <2>2 DEF JournalCounts
  <2>5. Totals'
    BY <1>20, <2>2 DEF Totals
  <2> QED BY <2>3, <2>4, <2>5
<1>18. Kept
  BY <1>10, <1>11, <1>12, <1>13, <1>14, <1>15
<1> QED BY <1>2, <1>6, <1>8, <1>18 DEF IInv

-----------------------------------------------------------------------------
(* The worker's steps.                                                     *)

\* The threads' part of the invariant, which the worker leaves alone.
LEMMA ThreadsKept ==
    ASSUME IInv, UNCHANGED threads
    PROVE  /\ JournalFresh' /\ UnderWayIsJournaled' /\ Waits' = Waits /\ Apart' = Apart
           /\ Cardinality(journal') = Cardinality(journal) /\ Cardinality(journal) \in Nat
           /\ stage' \in [Writers -> Stages] /\ written' \in [Writers -> 0 .. MaxRecords]
           /\ journal' \subseteq Records
<1>1. stage' = stage /\ written' = written /\ journal' = journal
  BY DEF threads
<1>2. Waits' = Waits /\ Apart' = Apart
  BY <1>1 DEF Waits, Apart
<1>3. JournalFresh' /\ UnderWayIsJournaled'
  BY <1>1 DEF IInv, JournalFresh, UnderWayIsJournaled, Current
<1>4. Cardinality(journal) \in Nat
  BY FS_CardinalityType DEF IInv, JournalFresh
<1> QED BY <1>1, <1>2, <1>3, <1>4 DEF IInv, Typed

LEMMA EntriesTyped ==
    ASSUME Typed
    PROVE  EntriesOf(batch) \subseteq Entries
<1> SUFFICES ASSUME NEW k \in DOMAIN batch PROVE batch[k] \in Entries
  BY DEF EntriesOf
<1>1. k \in 1 .. Len(batch)
  BY LenProperties DEF Typed
<1> QED BY <1>1, ElementOfSeq DEF Typed

\* What either sum needs to stay even.
LEMMA DepthKept ==
    ASSUME Waits \in Nat, Len(channel) \in Nat, Len(batch) \in Nat, InHand \in Nat,
           depth \in Nat, Len(channel') \in Nat, Len(batch') \in Nat, InHand' \in Nat,
           DepthCounts, Waits' = Waits,
           depth' = depth + (Len(channel') - Len(channel)) + (Len(batch') - Len(batch))
                     + (InHand' - InHand)
    PROVE  DepthCounts'
BY DEF DepthCounts

LEMMA JournalKept ==
    ASSUME Apart \in Nat, CountedTwice \in Nat, Cardinality(journal) \in Nat,
           depth \in Nat, sent \in Nat, dropped \in Nat,
           depth' \in Int, sent' \in Nat, dropped' \in Nat,
           JournalCounts, Apart' = Apart, Cardinality(journal') = Cardinality(journal),
           CountedTwice' = CountedTwice + (sent' - sent) + (dropped' - dropped)
                            + (depth' - depth)
    PROVE  JournalCounts'
BY DEF JournalCounts

\* A step of the worker that moves records and counts so that both sums
\* stay even.
LEMMA WorkerKeeps ==
    ASSUME IInv, UNCHANGED threads,
           channel' \in Seq(Records), batch' \in Seq(Entries), clock' \in Nat,
           worker' \in WorkerStates, stopping' = stopping \/ stopping' = TRUE,
           loki' = loki \/ loki' = loki \cup EntriesOf(batch),
           enqueued' \in Nat, dropped' \in Nat, sent' \in Nat, depth' \in Int,
           depth' = depth + (Len(channel') - Len(channel)) + (Len(batch') - Len(batch))
                     + (InHand' - InHand),
           CountedTwice' = CountedTwice + (sent' - sent) + (dropped' - dropped) + (depth' - depth)
    PROVE  IInv'
<1>1. /\ JournalFresh' /\ UnderWayIsJournaled' /\ Waits' = Waits /\ Apart' = Apart
      /\ Cardinality(journal') = Cardinality(journal) /\ Cardinality(journal) \in Nat
      /\ stage' \in [Writers -> Stages] /\ written' \in [Writers -> 0 .. MaxRecords]
      /\ journal' \subseteq Records
  BY ThreadsKept
<1>2. loki' \subseteq Entries
  BY EntriesTyped DEF IInv, Typed
<1>3. Typed'
  BY <1>1, <1>2 DEF Typed
<1>4. /\ Len(channel') \in Nat /\ Len(batch') \in Nat
      /\ InHand' \in Nat /\ CountedTwice' \in Nat
  <2>1. Len(channel') \in Nat /\ Len(batch') \in Nat
    BY LenProperties
  <2> QED BY <2>1 DEF InHand, CountedTwice
<1>5. DepthCounts' /\ JournalCounts'
  <2>1. DepthCounts /\ JournalCounts
    BY DEF IInv
  <2> QED BY <1>1, <1>4, <2>1, Naturals, DepthKept, JournalKept
<1>7. Totals'
  BY DEF Totals
<1>8. stopping' \in BOOLEAN
  BY Zenon DEF IInv
<1> QED BY <1>1, <1>3, <1>5, <1>7, <1>8 DEF IInv

\* Nothing in hand and nothing counted twice; a record in hand, not yet
\* counted; a record in hand, counted twice; a batch counted twice.
Plain(s) == s \notin OverStates /\ s \notin SettledStates
Over(s) == s = "over" \/ s = "drain over"
OverCounted(s) == s = "over dropped" \/ s = "drain over dropped"
Settled(s) == s \in SettledStates

LEMMA Marks ==
    /\ Plain(worker) => InHand = 0 /\ CountedTwice = 0
    /\ Over(worker) => InHand = 1 /\ CountedTwice = 0
    /\ OverCounted(worker) => InHand = 1 /\ CountedTwice = 1
    /\ Settled(worker) => InHand = 0 /\ CountedTwice = Len(batch)
BY DEF Plain, Over, OverCounted, Settled, InHand, CountedTwice, OverStates, SettledStates

LEMMA MarksAfter ==
    /\ Plain(worker') => InHand' = 0 /\ CountedTwice' = 0
    /\ Over(worker') => InHand' = 1 /\ CountedTwice' = 0
    /\ OverCounted(worker') => InHand' = 1 /\ CountedTwice' = 1
    /\ Settled(worker') => InHand' = 0 /\ CountedTwice' = Len(batch')
BY DEF Plain, Over, OverCounted, Settled, InHand, CountedTwice, OverStates, SettledStates

LEMMA ReceiveKeeps ==
    ASSUME IInv, channel # <<>>, channel' = Tail(channel), NEW limit,
           NEW now \in 0 .. MaxClock, NEW kept, NEW over, Retain(limit, now, kept, over),
           UNCHANGED <<threads, stopping, loki, counters>>,
           Plain(worker), kept \in WorkerStates, Plain(kept),
           Over(over)
    PROVE  IInv'
<1> DEFINE e == [record |-> Head(channel), timestamp |-> NextTimestamp(now)]
<1>1. /\ channel' \in Seq(Records) /\ Len(channel') = Len(channel) - 1
      /\ Head(channel) \in Records
  BY HeadTailProperties DEF IInv, Typed
<1>2. NextTimestamp(now) \in Nat
  BY Sizes DEF IInv, Typed, NextTimestamp
<1>3. e \in Entries
  BY <1>1, <1>2 DEF Entries
<1>4. UNCHANGED <<depth, enqueued, dropped, sent>>
  BY DEF counters
<1>5. InHand = 0 /\ CountedTwice = 0
  BY Marks
<1>9. /\ Len(channel) \in Nat /\ Len(batch) \in Nat /\ depth \in Nat
      /\ enqueued \in Nat /\ dropped \in Nat /\ sent \in Nat
  BY Naturals
<1>6. enqueued' \in Nat /\ dropped' \in Nat /\ sent' \in Nat /\ depth' \in Int
  BY <1>4, <1>9
<1>7. CASE Len(batch) < limit
  <2>1. batch' = Append(batch, e) /\ clock' = NextTimestamp(now) /\ worker' = kept
    BY <1>7 DEF Retain
  <2>2. batch' \in Seq(Entries) /\ Len(batch') = Len(batch) + 1
    BY <1>3, <2>1, AppendProperties DEF IInv, Typed
  <2>3. InHand' = 0 /\ CountedTwice' = 0
    BY <2>1, MarksAfter
  <2>4. /\ depth' = depth + (Len(channel') - Len(channel)) + (Len(batch') - Len(batch))
                     + (InHand' - InHand)
        /\ CountedTwice' = CountedTwice + (sent' - sent) + (dropped' - dropped) + (depth' - depth)
    BY <1>1, <1>4, <1>5, <1>9, <2>2, <2>3
  <2> QED BY <1>1, <1>2, <1>6, <2>1, <2>2, <2>4, WorkerKeeps
<1>8. CASE ~(Len(batch) < limit)
  <2>1. batch' = batch /\ clock' = clock /\ worker' = over
    BY <1>8 DEF Retain
  <2>2. InHand' = 1 /\ CountedTwice' = 0
    BY <2>1, MarksAfter
  <2>3. /\ depth' = depth + (Len(channel') - Len(channel)) + (Len(batch') - Len(batch))
                     + (InHand' - InHand)
        /\ CountedTwice' = CountedTwice + (sent' - sent) + (dropped' - dropped) + (depth' - depth)
    BY <1>1, <1>4, <1>5, <1>9, <2>1, <2>2
  <2>4. batch' \in Seq(Entries) /\ clock' \in Nat /\ worker' \in WorkerStates
    BY <2>1 DEF IInv, Typed, WorkerStates, OverStates, Over
  <2> QED BY <1>1, <1>6, <2>3, <2>4, WorkerKeeps
<1> QED BY <1>7, <1>8

\* The worker moves on and leaves the records where they are.
LEMMA WorkerMoves ==
    ASSUME IInv, UNCHANGED <<threads, channel, batch, clock, counters>>,
           \/ worker' = worker
           \/ Plain(worker) /\ Plain(worker') /\ worker' \in WorkerStates,
           loki' = loki \/ loki' = loki \cup EntriesOf(batch),
           stopping' = stopping \/ stopping' = TRUE
    PROVE  IInv'
<1>1. /\ UNCHANGED <<depth, enqueued, dropped, sent>>
      /\ Len(batch') = Len(batch) /\ Len(channel') = Len(channel)
  BY DEF counters
<1>2. InHand' = InHand /\ CountedTwice' = CountedTwice
  <2>1. CASE worker' = worker
    BY <2>1 DEF InHand, CountedTwice
  <2>2. CASE Plain(worker) /\ Plain(worker')
    BY <2>2, Marks, MarksAfter
  <2> QED BY <2>1, <2>2
<1>3. enqueued' \in Nat /\ dropped' \in Nat /\ sent' \in Nat /\ depth' \in Int
  BY <1>1, Naturals
<1>4. /\ channel' \in Seq(Records) /\ batch' \in Seq(Entries) /\ clock' \in Nat
      /\ worker' \in WorkerStates
  BY DEF IInv, Typed
<1>5. /\ depth' = depth + (Len(channel') - Len(channel)) + (Len(batch') - Len(batch))
                     + (InHand' - InHand)
      /\ CountedTwice' = CountedTwice + (sent' - sent) + (dropped' - dropped) + (depth' - depth)
  <2>1. /\ Len(channel) \in Nat /\ Len(batch) \in Nat /\ InHand \in Nat
        /\ CountedTwice \in Nat /\ depth \in Nat /\ dropped \in Nat /\ sent \in Nat
    BY Naturals
  <2> QED BY <1>1, <1>2, <2>1
<1> QED BY <1>3, <1>4, <1>5, WorkerKeeps

\* The batch is counted as sent or as dropped, or the record in hand as
\* dropped: it is then counted twice.
LEMMA CountKeeps ==
    ASSUME IInv, UNCHANGED <<threads, channel, batch, clock, stopping, depth, enqueued>>,
           loki' = loki \/ loki' = loki \cup EntriesOf(batch),
           NEW n \in Nat,
           \/ sent' = sent + n /\ dropped' = dropped
           \/ sent' = sent /\ dropped' = dropped + n,
           \/ /\ n = Len(batch) /\ Plain(worker)
              /\ Settled(worker')
           \/ /\ n = 1 /\ Over(worker)
              /\ OverCounted(worker')
    PROVE  IInv'
<1>1. Len(batch') = Len(batch) /\ Len(channel') = Len(channel)
  OBVIOUS
<1>2. /\ CountedTwice = 0 /\ CountedTwice' = n
      /\ InHand' = InHand
  BY <1>1, Marks, MarksAfter
<1>3. enqueued' \in Nat /\ dropped' \in Nat /\ sent' \in Nat /\ depth' \in Int
  BY Naturals
<1>4. /\ channel' \in Seq(Records) /\ batch' \in Seq(Entries) /\ clock' \in Nat
      /\ worker' \in WorkerStates
  BY DEF IInv, Typed, WorkerStates, SettledStates, OverStates, Settled, OverCounted
<1>5. /\ Len(channel) \in Nat /\ Len(batch) \in Nat /\ InHand \in Nat
      /\ depth \in Nat /\ dropped \in Nat /\ sent \in Nat
  BY Naturals
<1>6. depth' = depth + (Len(channel') - Len(channel)) + (Len(batch') - Len(batch))
                + (InHand' - InHand)
  BY <1>1, <1>2, <1>5
<1>7. CountedTwice' = CountedTwice + (sent' - sent) + (dropped' - dropped) + (depth' - depth)
  <2>1. CASE sent' = sent + n /\ dropped' = dropped
    BY <1>2, <1>5, <2>1
  <2>2. CASE sent' = sent /\ dropped' = dropped + n
    BY <1>2, <1>5, <2>2
  <2> QED BY <2>1, <2>2
<1> QED BY <1>3, <1>4, <1>6, <1>7, WorkerKeeps

\* What was counted twice leaves the depth.
LEMMA ReleaseKeeps ==
    ASSUME IInv,
           UNCHANGED <<threads, channel, clock, stopping, loki, enqueued, dropped, sent>>,
           Plain(worker'), worker' \in WorkerStates,
           \/ /\ Settled(worker)
              /\ depth' = depth - Len(batch) /\ batch' = <<>>
           \/ /\ OverCounted(worker)
              /\ depth' = depth - 1 /\ batch' = batch
    PROVE  IInv'
<1>1. Len(channel') = Len(channel) /\ InHand' = 0 /\ CountedTwice' = 0
  BY MarksAfter
<1>2. enqueued' \in Nat /\ dropped' \in Nat /\ sent' \in Nat /\ depth' \in Int
  BY Naturals
<1>3. /\ channel' \in Seq(Records) /\ batch' \in Seq(Entries) /\ clock' \in Nat
  BY EmptySeq DEF IInv, Typed
<1>4. /\ depth' = depth + (Len(channel') - Len(channel)) + (Len(batch') - Len(batch))
                     + (InHand' - InHand)
      /\ CountedTwice' = CountedTwice + (sent' - sent) + (dropped' - dropped) + (depth' - depth)
  <2>1. CASE /\ Settled(worker)
             /\ depth' = depth - Len(batch) /\ batch' = <<>>
    <3>1. InHand = 0 /\ CountedTwice = Len(batch) /\ Len(batch') = 0
      BY <2>1, Marks, EmptySeq
    <3> QED BY <1>1, <2>1, <3>1, Naturals
  <2>2. CASE /\ OverCounted(worker)
             /\ depth' = depth - 1 /\ batch' = batch
    <3>1. InHand = 1 /\ CountedTwice = 1 /\ Len(batch') = Len(batch)
      BY <2>2, Marks
    <3> QED BY <1>1, <2>2, <3>1, Naturals
  <2> QED BY <2>1, <2>2
<1> QED BY <1>2, <1>3, <1>4, WorkerKeeps

LEMMA Inductive == IInv /\ [Next]_vars => IInv'
<1> SUFFICES ASSUME IInv, [Next]_vars PROVE IInv'
  OBVIOUS
<1> USE DEF Plain, Over, OverCounted, Settled, OverStates, SettledStates
<1>1. ASSUME NEW w \in Writers, Write(w) PROVE IInv'
  BY <1>1, JournalKeeps, JournalFailsKeeps, SendKeeps DEF Write
<1>2. CASE Receive
  <2>1. PICK now \in 0 .. MaxClock :
           Retain(MaxRetained, now, AfterRecord(Len(batch) + 1), "over")
    BY <1>2 DEF Receive
  <2>2. AfterRecord(Len(batch) + 1) \in {"select", "push"}
    BY DEF AfterRecord
  <2> QED BY <1>2, <2>1, <2>2, ReceiveKeeps DEF Receive, WorkerStates
<1>3. CASE Drain
  <2>1. CASE channel # <<>>
    <3>1. PICK now \in 0 .. MaxClock : Retain(FinalLimit, now, "drain", "drain over")
      BY <1>3, <2>1 DEF Drain
    <3>2. /\ Plain(worker) /\ Plain("drain") /\ "drain" \in WorkerStates
          /\ Over("drain over") /\ UNCHANGED <<threads, stopping, loki, counters>>
          /\ channel' = Tail(channel)
      BY <1>3, <2>1 DEF Drain, WorkerStates
    <3> HIDE DEF Plain, Over
    <3> QED BY <2>1, <3>1, <3>2, ReceiveKeeps
  <2>2. CASE channel = <<>>
    BY <1>3, <2>2, WorkerMoves DEF Drain, WorkerStates, counters
  <2> QED BY <2>1, <2>2
<1>4. CASE PushSucceeds \/ LastPushSucceeds \/ LastPushFails
  BY <1>4, Naturals, CountKeeps
     DEF PushSucceeds, LastPushSucceeds, LastPushFails, Push, LokiAfterFailure
<1>5. CASE StartWorker \/ Flush \/ PushFails \/ BackoffEnds \/ NoticeStop \/ RequestStop
  BY <1>5, WorkerMoves
     DEF StartWorker, Flush, PushFails, BackoffEnds, NoticeStop, RequestStop,
         LokiAfterFailure, WorkerStates
<1>6. CASE SettleOver
  <2>1. AfterRecord(Len(batch)) \in {"select", "push"}
    BY DEF AfterRecord
  <2>2. CASE \/ DropOver("over", "over dropped")
             \/ DropOver("drain over", "drain over dropped")
    BY <2>2, CountKeeps DEF DropOver
  <2>3. CASE \/ ReleaseOver("over dropped", AfterRecord(Len(batch)))
             \/ ReleaseOver("drain over dropped", "drain")
    BY <2>1, <2>3, ReleaseKeeps DEF ReleaseOver, WorkerStates
  <2> QED BY <1>6, <2>2, <2>3 DEF SettleOver
<1>7. CASE SettleBatch
  BY <1>7, ReleaseKeeps DEF SettleBatch, ReleaseBatch, WorkerStates
<1>8. CASE UNCHANGED vars
  BY <1>8, WorkerMoves DEF vars, threads, counters
<1> QED BY <1>1, <1>2, <1>3, <1>4, <1>5, <1>6, <1>7, <1>8 DEF Next, Work

-----------------------------------------------------------------------------
(* The order of Loki's log.  What Loki may yet hold is what it holds and   *)
(* what the worker retains, and the order must be that of both: a push     *)
(* only moves entries from one to the other.                               *)

Held == loki \cup EntriesOf(batch)

Slots == 1 .. Len(channel)

Ordered(S) ==
    \A x, y \in S :
        /\ x.record = y.record <=> x.timestamp = y.timestamp
        /\ x.record.by = y.record.by /\ x.record.n < y.record.n =>
              x.timestamp < y.timestamp

Before(r, s) == r.by = s.by => r.n < s.n

ClockAhead == \A x \in Held : x.timestamp <= clock
ChannelOrdered == \A j, k \in Slots : j < k => Before(channel[j], channel[k])
ChannelAfterHeld == \A x \in Held : \A k \in Slots : Before(x.record, channel[k])

\* A thread has not sent the record it still has in hand.
SentIn(st, wr, r) ==
    /\ r.n <= wr[r.by]
    /\ st[r.by] \in {"written", "counted"} => r.n < wr[r.by]

Sent(r) == SentIn(stage, written, r)

ChannelSent == \A k \in Slots : Sent(channel[k])
HeldSent == \A x \in Held : Sent(x.record)

\* Nothing is carried that the journal did not take.
Carried == /\ \A k \in Slots : channel[k] \in journal
           /\ \A x \in Held : x.record \in journal

OInv == /\ Ordered(Held) /\ ClockAhead /\ ChannelOrdered /\ ChannelAfterHeld
        /\ ChannelSent /\ HeldSent /\ Carried

LEMMA Places ==
    ASSUME Typed
    PROVE  /\ Len(channel) \in Nat /\ \A k \in Slots : channel[k] \in Records
           /\ Held \subseteq Entries
BY LenProperties, ElementOfSeq, EntriesTyped DEF Typed, Slots, Held

\* A step that stamps nothing, sends nothing and lets no entry appear.
LEMMA OrderKept ==
    ASSUME IInv, OInv, channel' = channel, clock' = clock, journal \subseteq journal',
           Held' \subseteq Held,
           \A r \in Records : Sent(r) => SentIn(stage', written', r)
    PROVE  OInv'
<1>1. Slots' = Slots
  BY DEF Slots
<1>2. (\A k \in Slots : channel[k] \in Records) /\ \A x \in Held : x.record \in Records
  BY Places DEF IInv, Entries
<1>3. ChannelSent' /\ HeldSent'
  BY <1>1, <1>2 DEF OInv, ChannelSent, HeldSent, Sent
<1>4. Ordered(Held)'
  BY DEF OInv, Ordered
<1>5. ClockAhead' /\ ChannelOrdered' /\ ChannelAfterHeld' /\ Carried'
  BY <1>1 DEF OInv, ClockAhead, ChannelOrdered, ChannelAfterHeld, Carried, Before
<1> QED BY <1>3, <1>4, <1>5 DEF OInv

\* What a thread does next is never a record it has sent already.
LEMMA WriterSent ==
    ASSUME IInv, NEW w \in Writers, Write(w), NEW r \in Records, Sent(r)
    PROVE  SentIn(stage', written', r)
<1>1. r.by \in Writers /\ r.n \in Nat /\ written[w] \in Nat
  BY DEF Records, IInv, Typed
<1>2. CASE Journal(w) \/ JournalFails(w)
  <2>1. /\ stage[w] = "idle" /\ written'[w] = written[w] + 1
        /\ \A v \in Writers \ {w} : written'[v] = written[v] /\ stage'[v] = stage[v]
    BY <1>2 DEF Journal, JournalFails, Goto, IInv, Typed
  <2>2. CASE r.by = w
    BY <1>1, <2>1, <2>2 DEF Sent, SentIn
  <2>3. CASE r.by # w
    BY <1>1, <2>1, <2>3 DEF Sent, SentIn
  <2> QED BY <2>2, <2>3
<1>3. CASE Unsendable(w) \/ Count(w) \/ Offer(w) \/ Accepted(w) \/ Refused(w)
           \/ CountRefused(w)
  <2>1. /\ written' = written
        /\ stage'[w] \in {"written", "counted"} => stage[w] = "written"
        /\ \A v \in Writers \ {w} : stage'[v] = stage[v]
    BY <1>3 DEF Unsendable, Count, Offer, Accepted, Refused, CountRefused, Goto, IInv, Typed
  <2> QED BY <1>1, <2>1 DEF Sent, SentIn
<1> QED BY <1>2, <1>3 DEF Write

LEMMA OfferOrder ==
    ASSUME IInv, OInv, NEW w \in Writers, Offer(w), channel' = Append(channel, Current(w))
    PROVE  OInv'
<1> DEFINE c == Current(w)
           end == Len(channel) + 1
<1>1. /\ stage[w] = "counted" /\ c \in journal /\ c \in Records
      /\ c.by = w /\ c.n = written[w] /\ c.n \in Nat
  BY DEF Offer, IInv, UnderWayIsJournaled, Typed, Current, Records
<1>2. UNCHANGED <<journal, batch, loki, clock>> /\ written' = written
  BY DEF Offer
<1>3. Held' = Held
  BY <1>2 DEF Held, EntriesOf
<1>4. Len(channel) \in Nat /\ (\A k \in Slots : channel[k] \in Records) /\ Held \subseteq Entries
  BY Places DEF IInv
<1>5. /\ Slots' = Slots \cup {end} /\ channel'[end] = c
      /\ \A k \in Slots : channel'[k] = channel[k] /\ k < end
  <2>1. Len(channel') = end /\ channel'[end] = c /\ \A k \in Slots : channel'[k] = channel[k]
    BY <1>1, AppendProperties DEF IInv, Typed, Slots
  <2> QED BY <1>4, <2>1 DEF Slots
<1>6. \A r \in Records : Sent(r) => Before(r, c)
  BY <1>1 DEF Sent, SentIn, Before, Records
<1>7. \A r \in Records : Sent(r) => SentIn(stage', written', r)
  BY WriterSent DEF Write
<1>8. SentIn(stage', written', c)
  <2>1. stage'[w] = "queued" \/ stage'[w] = "refused"
    BY DEF Offer, Goto, IInv, Typed
  <2> QED BY <1>1, <1>2, <2>1 DEF SentIn
<1> HIDE DEF c, end
<1>9. ChannelSent'
  BY <1>4, <1>5, <1>7, <1>8 DEF OInv, ChannelSent, Sent
<1>10. HeldSent'
  BY <1>3, <1>4, <1>7 DEF OInv, HeldSent, Sent, Entries
<1>11. ChannelOrdered'
  <2> SUFFICES ASSUME NEW j \in Slots', NEW k \in Slots', j < k
               PROVE  Before(channel'[j], channel'[k])
    BY DEF ChannelOrdered, Before
  <2>1. CASE k \in Slots /\ j \in Slots
    BY <1>5, <2>1 DEF OInv, ChannelOrdered
  <2>2. CASE k = end /\ j \in Slots
    BY <1>4, <1>5, <1>6, <2>2 DEF OInv, ChannelSent
  <2>3. j \in Slots
    <3>1. j # end
      BY <1>4, <1>5 DEF Slots, end
    <3> QED BY <1>5, <3>1
  <2> QED BY <1>5, <2>1, <2>2, <2>3
<1>12. ChannelAfterHeld'
  <2> SUFFICES ASSUME NEW x \in Held, NEW k \in Slots'
               PROVE  Before(x.record, channel'[k])
    BY <1>3 DEF ChannelAfterHeld, Before
  <2>1. CASE k \in Slots
    BY <1>5, <2>1 DEF OInv, ChannelAfterHeld
  <2>2. CASE k = end
    BY <1>4, <1>5, <1>6, <2>2 DEF OInv, HeldSent, Entries
  <2> QED BY <1>5, <2>1, <2>2
<1>13. Carried'
  BY <1>1, <1>2, <1>3, <1>5 DEF OInv, Carried
<1>14. Ordered(Held)' /\ ClockAhead'
  BY <1>2, <1>3 DEF OInv, Ordered, ClockAhead
<1> QED BY <1>9, <1>10, <1>11, <1>12, <1>13, <1>14 DEF OInv

LEMMA WriterOrder ==
    ASSUME IInv, OInv, NEW w \in Writers, Write(w)
    PROVE  OInv'
<1>1. \A r \in Records : Sent(r) => SentIn(stage', written', r)
  BY WriterSent
<1>2. clock' = clock /\ journal \subseteq journal' /\ batch' = batch /\ loki' = loki
  BY DEF Write, Journal, JournalFails, Unsendable, Count, Offer, Accepted, Refused,
         CountRefused
<1>3. Held' = Held
  BY <1>2 DEF Held, EntriesOf
<1>4. CASE channel' = channel
  BY <1>1, <1>2, <1>3, <1>4, OrderKept
<1>5. CASE Offer(w) /\ channel' = Append(channel, Current(w))
  BY <1>5, OfferOrder
<1> QED BY <1>4, <1>5 DEF Write, Journal, JournalFails, Unsendable, Count, Offer, Accepted, Refused,
         CountRefused

LEMMA ThreadsSent ==
    ASSUME UNCHANGED threads
    PROVE  journal' = journal /\ \A r \in Records : Sent(r) => SentIn(stage', written', r)
BY DEF threads, Sent

\* The channel's first record leaves it; what is held may grow by it alone,
\* stamped with the clock, which has gone on.
LEMMA ReceiveOrder ==
    ASSUME IInv, OInv, channel # <<>>, channel' = Tail(channel), UNCHANGED <<threads, loki>>,
           NEW limit, NEW now \in 0 .. MaxClock, NEW kept, NEW over,
           Retain(limit, now, kept, over)
    PROVE  OInv'
<1> DEFINE h == Head(channel)
           e == [record |-> h, timestamp |-> NextTimestamp(now)]
<1>1. Len(channel) \in Nat /\ (\A k \in Slots : channel[k] \in Records) /\ Held \subseteq Entries
  BY Places DEF IInv
<1>2. /\ 1 \in Slots /\ h = channel[1]
      /\ \A k \in Slots' : k + 1 \in Slots /\ 1 < k + 1 /\ channel'[k] = channel[k + 1]
      /\ \A j, k \in Slots' : j < k => j + 1 < k + 1
  <2>1. Len(channel) > 0 /\ h = channel[1]
    BY <1>1, EmptySeq DEF IInv, Typed
  <2>2. /\ Len(channel') = Len(channel) - 1
        /\ \A k \in 1 .. Len(channel') : channel'[k] = channel[k + 1]
    BY HeadTailProperties DEF IInv, Typed
  <2> QED BY <1>1, <2>1, <2>2 DEF Slots
<1>3. h \in Records /\ Sent(h) /\ h \in journal
  BY <1>1, <1>2 DEF OInv, ChannelSent, Carried
<1>4. /\ NextTimestamp(now) \in Nat /\ clock < NextTimestamp(now) /\ clock \in Nat
      /\ e.record = h /\ e.timestamp = NextTimestamp(now)
  BY Sizes DEF IInv, Typed, NextTimestamp
<1>5. \/ Held' = Held \cup {e} /\ clock' = NextTimestamp(now)
      \/ Held' = Held /\ clock' = clock
  <2>1. CASE Len(batch) < limit
    <3>1. batch' = Append(batch, e) /\ clock' = NextTimestamp(now)
      BY <2>1 DEF Retain
    <3>2. e \in Entries
      BY <1>3, <1>4 DEF Entries
    <3>3. /\ Len(batch) \in Nat /\ DOMAIN batch = 1 .. Len(batch)
          /\ DOMAIN batch' = 1 .. Len(batch) + 1
          /\ batch'[Len(batch) + 1] = e
          /\ \A k \in 1 .. Len(batch) : batch'[k] = batch[k]
      BY <3>1, <3>2, AppendProperties, LenProperties DEF IInv, Typed
    <3> HIDE DEF e
    <3>4. EntriesOf(batch') = EntriesOf(batch) \cup {e}
      <4>1. \A k \in 1 .. Len(batch) + 1 : k \in 1 .. Len(batch) \/ k = Len(batch) + 1
        BY <3>3
      <4>2. 1 .. Len(batch) \subseteq 1 .. Len(batch) + 1 /\ Len(batch) + 1 \in 1 .. Len(batch) + 1
        BY <3>3
      <4> QED BY <3>3, <4>1, <4>2 DEF EntriesOf
    <3> QED BY <3>1, <3>4 DEF Held
  <2>2. CASE ~(Len(batch) < limit)
    BY <2>2 DEF Retain, Held, EntriesOf
  <2> QED BY <2>1, <2>2
<1> HIDE DEF h, e
<1>6. \A x \in Held : Before(x.record, h) /\ x.timestamp <= clock /\ x.timestamp \in Nat
                      /\ x.record \in Records
  BY <1>1, <1>2 DEF OInv, ChannelAfterHeld, ClockAhead, Entries
<1>7. \A k \in Slots' : Before(h, channel'[k]) /\ channel'[k] \in Records
  BY <1>1, <1>2 DEF OInv, ChannelOrdered
<1>8. ChannelOrdered' /\ ChannelSent'
  <2>1. ChannelOrdered'
    BY <1>2 DEF OInv, ChannelOrdered, Before
  <2>2. ChannelSent'
    BY <1>1, <1>2, ThreadsSent DEF OInv, ChannelSent, Sent
  <2> QED BY <2>1, <2>2
<1>9. \A x \in Held' : x \in Held \/ x = e
  BY <1>5
<1>10. ChannelAfterHeld'
  BY <1>2, <1>4, <1>7, <1>9 DEF OInv, ChannelAfterHeld, Before
<1>11. HeldSent' /\ Carried'
  BY <1>2, <1>3, <1>4, <1>6, <1>9, ThreadsSent DEF OInv, HeldSent, Carried, Sent
<1>12. Ordered(Held)' /\ ClockAhead'
  <2>1. CASE Held' = Held /\ clock' = clock
    BY <2>1 DEF OInv, Ordered, ClockAhead
  <2>2. CASE Held' = Held \cup {e} /\ clock' = NextTimestamp(now)
    <3>1. ClockAhead'
      BY <1>4, <1>6, <2>2 DEF ClockAhead
    <3>2. ASSUME NEW x \in Held
          PROVE  /\ x.timestamp < e.timestamp /\ ~(e.timestamp < x.timestamp)
                 /\ x.timestamp # e.timestamp
                 /\ x.record.by = e.record.by => x.record.n < e.record.n
                 /\ x.record.n \in Nat /\ e.record.n \in Nat
      BY <1>3, <1>4, <1>6 DEF Before, Records
    <3>3. ASSUME NEW x \in Held PROVE x.record # e.record
      BY <3>2, <3>3
    <3>4. ASSUME NEW x \in Held' , NEW y \in Held'
          PROVE  /\ x.record = y.record <=> x.timestamp = y.timestamp
                 /\ x.record.by = y.record.by /\ x.record.n < y.record.n =>
                       x.timestamp < y.timestamp
      <4>1. CASE x \in Held /\ y \in Held
        BY <4>1 DEF OInv, Ordered
      <4>2. CASE x \in Held /\ y = e
        BY <3>2, <3>3, <4>2
      <4>3. CASE x = e /\ y \in Held
        BY <3>2, <3>3, <4>3
      <4>4. CASE x = e /\ y = e
        <5>1. e.record.n \in Nat
          BY <1>3, <1>4 DEF Records
        <5> QED BY <4>4, <5>1
      <4> QED BY <1>9, <4>1, <4>2, <4>3, <4>4
    <3> QED BY <3>1, <3>4 DEF Ordered
  <2> QED BY <1>5, <2>1, <2>2
<1> QED BY <1>8, <1>10, <1>11, <1>12 DEF OInv

LEMMA InitialOrder == Init => OInv
<1> SUFFICES ASSUME Init PROVE OInv
  OBVIOUS
<1>1. Held = {} /\ Slots = {}
  BY EmptySeq DEF Init, Held, EntriesOf, Slots
<1> QED BY <1>1 DEF OInv, Ordered, ClockAhead, ChannelOrdered, ChannelAfterHeld,
           ChannelSent, HeldSent, Carried

LEMMA InductiveOrder == IInv /\ OInv /\ [Next]_vars => OInv'
<1> SUFFICES ASSUME IInv, OInv, [Next]_vars PROVE OInv'
  OBVIOUS
<1>1. ASSUME NEW w \in Writers, Write(w) PROVE OInv'
  BY <1>1, WriterOrder
<1>2. CASE Receive
  BY <1>2, ReceiveOrder DEF Receive
<1>3. CASE Drain /\ channel # <<>>
  BY <1>3, ReceiveOrder DEF Drain
<1>4. ASSUME UNCHANGED <<threads, channel, clock>>, Held' \subseteq Held PROVE OInv'
  BY <1>4, ThreadsSent, OrderKept
<1>5. CASE SettleBatch
  <2>1. batch' = <<>> /\ loki' = loki /\ UNCHANGED <<threads, channel, clock>>
    BY <1>5 DEF SettleBatch, ReleaseBatch
  <2>2. Held' \subseteq Held
    BY <2>1, EmptySeq DEF Held, EntriesOf
  <2> QED BY <1>4, <2>1, <2>2
<1>6. CASE \/ StartWorker \/ Flush \/ PushFails \/ BackoffEnds \/ NoticeStop
           \/ RequestStop \/ (Drain /\ channel = <<>>) \/ UNCHANGED vars
           \/ PushSucceeds \/ LastPushSucceeds \/ LastPushFails \/ SettleOver
  <2>1. batch' = batch /\ (loki' = loki \/ loki' = loki \cup EntriesOf(batch))
    BY <1>6 DEF StartWorker, Flush, PushFails, BackoffEnds, NoticeStop, RequestStop,
       Drain, LokiAfterFailure, vars, PushSucceeds, LastPushSucceeds, LastPushFails,
       Push, SettleOver, DropOver, ReleaseOver
  <2>2. Held' \subseteq Held
    BY <2>1 DEF Held, EntriesOf
  <2>3. UNCHANGED <<threads, channel, clock>>
    BY <1>6 DEF StartWorker, Flush, PushFails, BackoffEnds, NoticeStop, RequestStop,
       Drain, vars, threads, PushSucceeds, LastPushSucceeds, LastPushFails, Push,
       SettleOver, DropOver, ReleaseOver
  <2> QED BY <1>4, <2>2, <2>3
<1> QED BY <1>1, <1>2, <1>3, <1>5, <1>6 DEF Next, Work

-----------------------------------------------------------------------------
(* The theorems.                                                           *)

LEMMA Invariance == Spec => [](IInv /\ OInv)
<1>1. Init => IInv /\ OInv
  BY Initial, InitialOrder
<1>2. (IInv /\ OInv) /\ [Next]_vars => (IInv /\ OInv)'
  BY Inductive, InductiveOrder
<1> QED BY <1>1, <1>2, PTL DEF Spec

\* Every variable keeps its type; queue_depth, decremented by several
\* threads, never goes below zero.
THEOREM TypeCorrect == Spec => []TypeOK
<1>1. IInv /\ OInv => TypeOK
  BY Equivalent
<1> QED BY <1>1, Invariance, PTL

\* queue_depth counts the records under way, whichever thread is between
\* which two of its steps.
THEOREM DepthCountsWhatIsUnderWay == Spec => []DepthIsUnderWay
<1>1. IInv /\ OInv => DepthIsUnderWay
  BY Equivalent
<1> QED BY <1>1, Invariance, PTL

\* Every record of the journal is sent, dropped or under way, and counted
\* once but in the moments between the two counters it moves across.
THEOREM RecordsAreAccounted == Spec => []EveryRecordAccounted
<1>1. IInv /\ OInv => EveryRecordAccounted
  BY Equivalent
<1> QED BY <1>1, Invariance, PTL

\* Retries, lost answers and a clock that is stepped leave Loki with one
\* entry per record and timestamp, in the order each thread wrote them.
THEOREM LogKeepsOrder == Spec => []LokiLogIsOrdered
<1>1. IInv /\ OInv => LokiLogIsOrdered
  BY DEF OInv, Ordered, Held, LokiLogIsOrdered
<1> QED BY <1>1, Invariance, PTL

\* Nothing is queued or delivered that journald does not retain.
THEOREM DeliveryFollowsJournal == Spec => []DeliveredIsJournaled
<1>1. IInv /\ OInv => DeliveredIsJournaled
  <2> SUFFICES ASSUME IInv, OInv, NEW r \in Records,
                      InTransit(r) \/ \E x \in loki : x.record = r
               PROVE  r \in journal
    BY DEF DeliveredIsJournaled
  <2>1. DOMAIN channel = Slots
    BY LenProperties DEF IInv, Typed, Slots
  <2> QED BY <2>1 DEF InTransit, OInv, Carried, Held, EntriesOf
<1> QED BY <1>1, Invariance, PTL
=============================================================================
