------------------------------ MODULE RunProofs ------------------------------
(***************************************************************************)
(* Theorems about the two things run() waits for in its loop: the events   *)
(* of the reader's stream (Reader) and the second at which pending         *)
(* passages are looked up again (RetryScheduler).                          *)
(***************************************************************************)
EXTENDS Reader, RetryScheduler, FiniteSetTheorems, WellFoundedInduction, TLAPS

-----------------------------------------------------------------------------
(* The retries.                                                            *)

RowsOf(s) == {s[k] : k \in DOMAIN s}

RetryState == [attempts : 1 .. MaxRetries, last_attempt : Nat]

RetryTypes ==
    /\ now \in Nat /\ passBegan \in Nat /\ restarts \in Nat
    /\ lastSeen \in [Passages -> Nat \cup {None}]
    /\ pending \subseteq Passages /\ once \subseteq Passages
    /\ DOMAIN retries \subseteq Passages
    /\ retries \in [DOMAIN retries -> RetryState]
    /\ pass = None \/ pass \in Seq(Passages)
    /\ looking \in Passages \cup {None}
    /\ tries \in [Passages -> Nat]
    /\ tickDue \in BOOLEAN /\ smooth \in BOOLEAN /\ crowded \in BOOLEAN

\* Nothing has happened yet that has a time to come, nor anything to a
\* passage not yet seen.
InThePast ==
    /\ passBegan <= now
    /\ \A p \in Passages :
          IF lastSeen[p] = None
          THEN p \notin pending \cup once \cup DOMAIN retries /\ tries[p] = 0
          ELSE lastSeen[p] <= now
    /\ \A p \in DOMAIN retries : retries[p].last_attempt <= now

\* The rows of the pass under way have been listed as they are.
PassListed ==
    /\ looking # None => pass # None
    /\ pass # None => \A p \in RowsOf(pass) :
          lastSeen[p] # None /\ lastSeen[p] <= passBegan - Delay

\* The lookups since the last sighting that a run now over may have made.
Former == MaxRetries * restarts

\* Attempts are forgotten only when the passage is out of reach.
TriesCounted(p) ==
    IF p \in DOMAIN retries
    THEN /\ tries[p] <= Former + retries[p].attempts
         /\ tries[p] > Former => retries[p].last_attempt >= lastSeen[p] + Delay
    ELSE tries[p] > Former =>
            /\ tries[p] <= Former + MaxRetries
            /\ lastSeen[p] # None /\ now > lastSeen[p] + Horizon
            /\ pass # None => p \notin RowsOf(pass)

\* The inductive invariant of LookupsAreBounded.
BoundInv ==
    /\ RetryTypes /\ InThePast /\ PassListed
    /\ \A p \in Passages : TriesCounted(p)

\* The loop is on time and the batch holds the list.
OnTime == smooth /\ ~crowded

\* Row p has yet to be visited in this second.
ToVisit(p) == tickDue \/ (pass # None /\ p \in RowsOf(pass))

\* When a passage that was seen once is looked up next, at the latest.
NextBy(p) == lastSeen[p] + Delay + tries[p] * Interval

SeenOnceInTime(p) ==
    /\ p \in DOMAIN retries => retries[p].attempts <= tries[p]
    /\ tries[p] < MaxRetries =>
          /\ now <= NextBy(p)
          /\ ~ToVisit(p) => now < NextBy(p)
          /\ p \in DOMAIN retries => retries[p].last_attempt + Interval <= NextBy(p)

SeenAgainInTime(p) ==
    tries[p] = 0 =>
        /\ now <= lastSeen[p] + Horizon
        /\ ~ToVisit(p) => now < lastSeen[p] + Horizon
        /\ p \in DOMAIN retries => retries[p].last_attempt <= lastSeen[p]

\* The inductive invariant of RetriedBeforeExpiry.
InTimeInv ==
    /\ BoundInv
    /\ OnTime =>
          /\ pass # None =>
                /\ passBegan = now /\ ~tickDue
                /\ \A p \in DOMAIN retries : now - retries[p].last_attempt < Horizon
          /\ \A p \in pending :
                IF p \in once THEN SeenOnceInTime(p) ELSE SeenAgainInTime(p)

LEMMA RowsOfTail ==
    ASSUME NEW s \in Seq(Passages), s # <<>>
    PROVE  /\ Head(s) \in Passages /\ Tail(s) \in Seq(Passages)
           /\ RowsOf(s) = {Head(s)} \cup RowsOf(Tail(s))
<1>1. Len(s) \in Nat \ {0} /\ DOMAIN s = 1 .. Len(s) /\ Head(s) = s[1]
  OBVIOUS
<1>2. /\ Tail(s) \in Seq(Passages) /\ DOMAIN Tail(s) = 1 .. Len(s) - 1
      /\ \A k \in 1 .. Len(s) - 1 : Tail(s)[k] = s[k + 1]
  OBVIOUS
<1>3. ASSUME NEW p \in RowsOf(s), p # Head(s) PROVE p \in RowsOf(Tail(s))
  <2>1. PICK k \in 1 .. Len(s) : p = s[k]
    BY <1>1 DEF RowsOf
  <2>2. k - 1 \in 1 .. Len(s) - 1 /\ Tail(s)[k - 1] = s[k]
    BY <1>1, <1>2, <1>3, <2>1
  <2> QED BY <1>2, <2>1, <2>2 DEF RowsOf
<1>4. ASSUME NEW p \in RowsOf(Tail(s)) PROVE p \in RowsOf(s)
  <2>1. PICK k \in 1 .. Len(s) - 1 : p = Tail(s)[k]
    BY <1>2 DEF RowsOf
  <2> QED BY <1>1, <1>2, <2>1 DEF RowsOf
<1>5. Head(s) \in RowsOf(s) /\ Head(s) \in Passages
  BY <1>1 DEF RowsOf
<1> QED BY <1>2, <1>3, <1>4, <1>5

\* What the query lists, in full as long as it fits into a batch.
LEMMA BatchOf ==
    ASSUME RetryTypes, NEW rows \in Ordered(Listed)
    PROVE  LET s == FirstOf(rows, BatchLimit) IN
           /\ s \in Seq(Passages)
           /\ RowsOf(s) \subseteq Listed
           /\ Cardinality(Listed) <= BatchLimit => Listed \subseteq RowsOf(s)
<1> DEFINE n == Cardinality(Listed)
<1> DEFINE m == IF n < BatchLimit THEN n ELSE BatchLimit
<1> DEFINE s == FirstOf(rows, BatchLimit)
<1>1. Listed \subseteq Passages /\ n \in Nat
  <2>1. Listed \subseteq Passages
    BY DEF Listed, RetryTypes
  <2>2. IsFiniteSet(Listed)
    BY <2>1, FS_Subset, RetryAssumption
  <2> QED BY <2>1, <2>2, FS_CardinalityType
<1>2. /\ rows \in [1 .. n -> Listed]
      /\ \A p \in Listed : \E k \in 1 .. n : rows[k] = p
  BY DEF Ordered
<1>3. BatchLimit \in Nat \ {0}
  BY RetryAssumption
<1> HIDE DEF n
<1>4. rows \in Seq(Passages) /\ Len(rows) = n
  BY <1>1, <1>2
<1>5. s = SubSeq(rows, 1, m) /\ m \in 0 .. n
  BY <1>1, <1>3, <1>4 DEF FirstOf
<1>6. /\ s \in Seq(Passages) /\ DOMAIN s = 1 .. m
      /\ \A k \in 1 .. m : s[k] = rows[k]
  BY <1>1, <1>4, <1>5
<1>7. RowsOf(s) \subseteq Listed
  BY <1>1, <1>2, <1>5, <1>6 DEF RowsOf
<1>8. ASSUME n <= BatchLimit PROVE Listed \subseteq RowsOf(s)
  <2>1. m = n
    BY <1>1, <1>3, <1>8
  <2> QED BY <1>2, <1>6, <2>1 DEF RowsOf
<1> QED BY <1>6, <1>7, <1>8 DEF n

LEMMA ProductGrows ==
    ASSUME NEW a \in Nat, NEW b \in Nat
    PROVE  a * b \in Nat /\ (b + 1) * a = b * a + a /\ a * (b + 1) = a * b + a
  OBVIOUS

LEMMA BoundInvInit == RetryInit => BoundInv
<1> SUFFICES ASSUME RetryInit PROVE BoundInv
  OBVIOUS
<1>1. RetryTypes
  <2>1. DOMAIN retries = {} /\ retries \in [DOMAIN retries -> RetryState]
    BY DEF RetryInit
  <2>2. tickDue \in BOOLEAN /\ smooth \in BOOLEAN /\ crowded \in BOOLEAN
    BY Zenon DEF RetryInit
  <2> QED BY <2>1, <2>2 DEF RetryInit, RetryTypes
<1>2. InThePast /\ PassListed
  BY DEF RetryInit, InThePast, PassListed
<1>3. \A p \in Passages : TriesCounted(p)
  <2>1. Former = 0
    BY RetryAssumption DEF RetryInit, Former
  <2> QED BY <2>1 DEF RetryInit, TriesCounted
<1> QED BY <1>1, <1>2, <1>3 DEF BoundInv

\* As long as the service runs on, what earlier runs may have done stays.
LEMMA FormerStays ==
    ASSUME restarts' = restarts
    PROVE  Former' = Former
  BY DEF Former

LEMMA FormerType == ASSUME RetryTypes PROVE Former \in Nat
  BY RetryAssumption, ProductGrows DEF RetryTypes, Former

LEMMA SightBound ==
    ASSUME BoundInv, NEW p \in Passages, Sight(p)
    PROVE  BoundInv'
<1>1. /\ pass = None /\ pass' = None /\ now' = now /\ retries' = retries
      /\ lastSeen' = [lastSeen EXCEPT ![p] = now]
      /\ tries' = [tries EXCEPT ![p] = 0] /\ restarts' = restarts
      /\ looking' = looking /\ passBegan' = passBegan
      /\ pending' \subseteq pending \cup {p} /\ once' \subseteq once \cup {p}
  BY DEF Sight
<1>2. RetryTypes'
  BY <1>1 DEF Sight, BoundInv, RetryTypes
<1>3. InThePast'
  <2>1. now \in Nat /\ now # None /\ lastSeen \in [Passages -> Nat \cup {None}] /\ InThePast
    BY RetryAssumption DEF BoundInv, RetryTypes
  <2>2. ASSUME NEW q \in Passages
        PROVE  IF lastSeen'[q] = None
               THEN q \notin pending' \cup once' \cup DOMAIN retries /\ tries'[q] = 0
               ELSE lastSeen'[q] <= now
    <3>1. CASE q = p
      BY <1>1, <2>1, <3>1
    <3>2. CASE q # p
      <4>1. lastSeen'[q] = lastSeen[q] /\ tries'[q] = tries[q]
        BY <1>1, <2>1, <3>2 DEF BoundInv, RetryTypes
      <4> QED BY <1>1, <2>1, <3>2, <4>1 DEF InThePast
    <3> QED BY <3>1, <3>2
  <2> QED BY <1>1, <2>1, <2>2 DEF InThePast
<1>4. PassListed'
  BY <1>1 DEF BoundInv, PassListed
<1>5. Former' = Former /\ Former \in Nat
  BY <1>1, FormerStays, FormerType DEF BoundInv
<1>6. ASSUME NEW q \in Passages PROVE TriesCounted(q)'
  <2>1. TriesCounted(q)
    BY DEF BoundInv
  <2>2. CASE q = p
    <3>1. tries'[q] = 0
      BY <1>1, <2>2 DEF BoundInv, RetryTypes
    <3>2. q \in DOMAIN retries => retries[q].attempts \in Nat
      BY DEF BoundInv, RetryTypes, RetryState
    <3> QED BY <1>1, <1>5, <3>1, <3>2 DEF TriesCounted
  <2>3. CASE q # p
    <3>1. tries'[q] = tries[q] /\ lastSeen'[q] = lastSeen[q]
      BY <1>1, <2>3 DEF BoundInv, RetryTypes
    <3> QED BY <1>1, <1>5, <2>1, <3>1 DEF TriesCounted
  <2> QED BY <2>2, <2>3
<1> QED BY <1>2, <1>3, <1>4, <1>6 DEF BoundInv

LEMMA BeginBound ==
    ASSUME BoundInv, BeginPass
    PROVE  BoundInv'
<1>1. PICK rows \in Ordered(Listed) : pass' = FirstOf(rows, BatchLimit)
  BY DEF BeginPass
<1>2. /\ now' = now /\ lastSeen' = lastSeen /\ tries' = tries /\ restarts' = restarts
      /\ pending' = pending /\ once' = once
      /\ passBegan' = now /\ looking' = looking /\ pass = None
      /\ retries' = [p \in Remembered |-> retries[p]]
      /\ tickDue' = FALSE /\ smooth' = smooth
  BY DEF BeginPass, store
<1>3. crowded' \in BOOLEAN
  BY DEF BeginPass
<1>4. pass' \in Seq(Passages) /\ RowsOf(pass') \subseteq Listed
  BY <1>1, BatchOf DEF BoundInv
<1>5. Remembered \subseteq DOMAIN retries /\ DOMAIN retries' = Remembered
  BY <1>2 DEF Remembered
<1>6. RetryTypes'
  <2>1. retries' \in [DOMAIN retries' -> RetryState] /\ DOMAIN retries' \subseteq Passages
    BY <1>2, <1>5 DEF BoundInv, RetryTypes
  <2> QED BY <1>2, <1>3, <1>4, <2>1 DEF BoundInv, RetryTypes
<1>7. InThePast'
  BY <1>2, <1>5 DEF BoundInv, RetryTypes, InThePast
<1>8. PassListed'
  <2>1. looking = None
    BY <1>2 DEF BoundInv, PassListed
  <2>2. \A p \in Listed : lastSeen[p] <= now - Delay /\ lastSeen[p] # None
    BY DEF Listed, BoundInv, InThePast, RetryTypes
  <2> QED BY <1>2, <1>4, <2>1, <2>2 DEF PassListed
<1>9. Former' = Former /\ Former \in Nat
  BY <1>2, FormerStays, FormerType DEF BoundInv
<1>10. ASSUME NEW q \in Passages PROVE TriesCounted(q)'
  <2>1. TriesCounted(q)
    BY DEF BoundInv
  <2>2. CASE q \in Remembered
    BY <1>2, <1>5, <1>9, <2>1, <2>2 DEF TriesCounted
  <2>3. CASE q \notin Remembered
    <3> SUFFICES ASSUME tries[q] > Former
                 PROVE  /\ tries[q] <= Former + MaxRetries
                        /\ lastSeen[q] # None /\ now > lastSeen[q] + Horizon
                        /\ q \notin RowsOf(pass')
      BY <1>2, <1>5, <1>9, <2>3 DEF TriesCounted
    <3>1. lastSeen[q] \in Nat
      BY <1>9 DEF BoundInv, RetryTypes, InThePast
    <3>2. lastSeen[q] # None
      BY <3>1, RetryAssumption
    <3>3. tries[q] <= Former + MaxRetries /\ now > lastSeen[q] + Horizon
      <4>1. CASE q \in DOMAIN retries
        <5>1. retries[q].attempts \in 1 .. MaxRetries /\ retries[q].last_attempt \in Nat
          BY <4>1 DEF BoundInv, RetryTypes, RetryState
        <5>2. now \in Nat /\ tries[q] \in Nat /\ {Delay, Horizon, MaxRetries} \subseteq Nat \ {0}
          BY RetryAssumption DEF BoundInv, RetryTypes
        <5>3. now - retries[q].last_attempt >= Horizon
          <6>1. ~(now - retries[q].last_attempt < Horizon)
            BY <2>3, <4>1, Zenon DEF Remembered
          <6> QED BY <5>1, <5>2, <6>1
        <5>4. /\ tries[q] <= Former + retries[q].attempts
              /\ retries[q].last_attempt >= lastSeen[q] + Delay
          BY <2>1, <4>1 DEF TriesCounted
        <5>5. tries[q] <= Former + MaxRetries
          BY <1>9, <5>1, <5>2, <5>4
        <5>6. now > lastSeen[q] + Horizon
          BY <3>1, <5>1, <5>2, <5>3, <5>4
        <5> QED BY <5>5, <5>6
      <4>2. CASE q \notin DOMAIN retries
        BY <2>1, <4>2 DEF TriesCounted
      <4> QED BY <4>1, <4>2
    <3>4. q \notin Listed
      <4>1. now \in Nat /\ Horizon \in Nat
        BY RetryAssumption DEF BoundInv, RetryTypes
      <4> QED BY <3>1, <3>3, <4>1 DEF Listed
    <3> QED BY <1>4, <3>2, <3>3, <3>4
  <2> QED BY <2>2, <2>3
<1> QED BY <1>6, <1>7, <1>8, <1>10 DEF BoundInv

\* What visiting row p does, by whether it is due.
LEMMA VisitEffects ==
    ASSUME BoundInv, VisitRow
    PROVE  LET p == Head(pass) IN
           /\ pass \in Seq(Passages) /\ pass # <<>> /\ pass # None
           /\ p \in Passages /\ pass' = Tail(pass) /\ pass' \in Seq(Passages)
           /\ RowsOf(pass) = {p} \cup RowsOf(pass')
           /\ lastSeen[p] \in Nat /\ lastSeen[p] + Delay <= now
           /\ now' = now /\ lastSeen' = lastSeen /\ pending' = pending /\ once' = once
           /\ tickDue' = tickDue /\ passBegan' = passBegan /\ restarts' = restarts
           /\ smooth' = smooth /\ crowded' = crowded
           /\ IF RetryDue(p)
              THEN /\ DOMAIN retries' = DOMAIN retries \cup {p}
                   /\ retries'[p] = [attempts |-> Attempts(p), last_attempt |-> now]
                   /\ \A q \in DOMAIN retries : q # p => retries'[q] = retries[q]
                   /\ Attempts(p) \in 1 .. MaxRetries
                   /\ looking' = p
                   /\ tries' = [tries EXCEPT ![p] = @ + 1]
              ELSE retries' = retries /\ looking' = looking /\ tries' = tries
<1> DEFINE p == Head(pass)
<1>1. pass \in Seq(Passages) /\ pass # <<>> /\ pass # None
  BY DEF VisitRow, BoundInv, RetryTypes
<1>2. p \in Passages /\ Tail(pass) \in Seq(Passages) /\ RowsOf(pass) = {p} \cup RowsOf(Tail(pass))
  BY <1>1, RowsOfTail
<1>3. pass' = Tail(pass)
  BY DEF VisitRow
<1>4. lastSeen[p] \in Nat /\ lastSeen[p] + Delay <= now
  <2>1. lastSeen[p] # None /\ lastSeen[p] <= passBegan - Delay
    BY <1>1, <1>2 DEF BoundInv, PassListed
  <2>2. passBegan \in Nat /\ now \in Nat /\ passBegan <= now /\ Delay \in Nat
    BY RetryAssumption DEF BoundInv, RetryTypes, InThePast
  <2>3. lastSeen[p] \in Nat
    BY <1>2, <2>1 DEF BoundInv, RetryTypes
  <2> QED BY <2>1, <2>2, <2>3
<1>5. /\ now' = now /\ lastSeen' = lastSeen /\ pending' = pending /\ once' = once
      /\ tickDue' = tickDue /\ passBegan' = passBegan /\ restarts' = restarts
      /\ smooth' = smooth /\ crowded' = crowded
  BY DEF VisitRow
<1>6. CASE RetryDue(p)
  <2>1. /\ retries' = [q \in DOMAIN retries \cup {p} |->
               IF q = p THEN [attempts |-> Attempts(p), last_attempt |-> now]
               ELSE retries[q]]
        /\ looking' = p /\ tries' = [tries EXCEPT ![p] = @ + 1]
    BY <1>6 DEF VisitRow
  <2>2. Attempts(p) \in 1 .. MaxRetries
    <3>1. CASE p \in DOMAIN retries
      <4>1. retries[p].attempts \in 1 .. MaxRetries /\ retries[p].attempts < MaxRetries
        BY <1>6, <3>1 DEF RetryDue, BoundInv, RetryTypes, RetryState
      <4> QED BY <3>1, <4>1, RetryAssumption DEF Attempts
    <3>2. CASE p \notin DOMAIN retries
      BY <3>2, RetryAssumption DEF Attempts
    <3> QED BY <3>1, <3>2
  <2>3. /\ DOMAIN retries' = DOMAIN retries \cup {p}
        /\ retries'[p] = [attempts |-> Attempts(p), last_attempt |-> now]
        /\ \A q \in DOMAIN retries : q # p => retries'[q] = retries[q]
    BY <2>1
  <2> QED BY <1>1, <1>2, <1>3, <1>4, <1>5, <1>6, <2>1, <2>2, <2>3
<1>7. CASE ~RetryDue(p)
  <2>1. retries' = retries /\ looking' = looking /\ tries' = tries
    BY <1>7 DEF VisitRow
  <2> QED BY <1>1, <1>2, <1>3, <1>4, <1>5, <1>7, <2>1
<1> QED BY <1>6, <1>7

LEMMA VisitBound ==
    ASSUME BoundInv, VisitRow
    PROVE  BoundInv'
<1> DEFINE p == Head(pass)
<1> HIDE DEF p
<1>0. /\ pass \in Seq(Passages) /\ pass # <<>> /\ pass # None
      /\ p \in Passages /\ pass' \in Seq(Passages)
      /\ RowsOf(pass) = {p} \cup RowsOf(pass')
      /\ lastSeen[p] \in Nat /\ lastSeen[p] + Delay <= now
      /\ now' = now /\ lastSeen' = lastSeen /\ pending' = pending /\ once' = once
      /\ tickDue' = tickDue /\ passBegan' = passBegan /\ restarts' = restarts
      /\ smooth' = smooth /\ crowded' = crowded
  BY VisitEffects DEF p
<1>1. Former' = Former /\ Former \in Nat
  BY <1>0, FormerStays, FormerType DEF BoundInv
<1>2. CASE RetryDue(p)
  <2>0. /\ DOMAIN retries' = DOMAIN retries \cup {p}
        /\ retries'[p] = [attempts |-> Attempts(p), last_attempt |-> now]
        /\ \A q \in DOMAIN retries : q # p => retries'[q] = retries[q]
        /\ Attempts(p) \in 1 .. MaxRetries
        /\ looking' = p
        /\ tries' = [tries EXCEPT ![p] = @ + 1]
    BY <1>2, VisitEffects DEF p
  <2>1. /\ retries'[p].attempts = Attempts(p) /\ retries'[p].last_attempt = now
        /\ retries'[p] \in RetryState
    BY <2>0, <1>0 DEF RetryState, BoundInv, RetryTypes
  <2>2. retries' \in [DOMAIN retries' -> RetryState]
    <3>1. retries' = [q \in DOMAIN retries' |-> retries'[q]]
      BY <1>2 DEF VisitRow, p
    <3>2. \A q \in DOMAIN retries' : retries'[q] \in RetryState
      BY <2>0, <2>1 DEF BoundInv, RetryTypes
    <3> QED BY <3>1, <3>2
  <2>3. RetryTypes'
    BY <1>0, <2>0, <2>2 DEF BoundInv, RetryTypes
  <2>4. InThePast'
    <3>1. lastSeen[p] # None
      BY <1>0, RetryAssumption
    <3>2. \A q \in Passages : q # p => tries'[q] = tries[q]
      BY <2>0 DEF BoundInv, RetryTypes
    <3>3. \A q \in DOMAIN retries' : retries'[q].last_attempt <= now
      BY <2>0, <2>1 DEF BoundInv, InThePast, RetryTypes
    <3> QED BY <1>0, <2>0, <3>1, <3>2, <3>3 DEF BoundInv, InThePast
  <2>5. PassListed'
    <3>1. pass' # None
      BY <1>0, RetryAssumption
    <3> QED BY <1>0, <3>1 DEF BoundInv, PassListed
  <2>6. ASSUME NEW q \in Passages PROVE TriesCounted(q)'
    <3>0. TriesCounted(q)
      BY DEF BoundInv
    <3>1. CASE q = p
      <4>0. tries[p] \in Nat /\ now \in Nat /\ tries'[p] = tries[p] + 1
        BY <1>0, <2>0 DEF BoundInv, RetryTypes
      <4>1. tries'[p] <= Former + Attempts(p)
        <5>1. CASE p \in DOMAIN retries
          <6>1. retries[p].attempts \in Nat
            BY <5>1 DEF BoundInv, RetryTypes, RetryState
          <6> QED BY <1>1, <3>0, <3>1, <4>0, <5>1, <6>1 DEF TriesCounted, Attempts
        <5>2. CASE p \notin DOMAIN retries
          <6>1. tries[p] <= Former
            BY <1>0, <1>1, <3>0, <3>1, <4>0, <5>2 DEF TriesCounted
          <6> QED BY <1>1, <4>0, <5>2, <6>1 DEF Attempts
        <5> QED BY <5>1, <5>2
      <4> QED BY <1>0, <1>1, <2>0, <2>1, <3>1, <4>0, <4>1 DEF TriesCounted
    <3>2. CASE q # p
      <4>1. tries'[q] = tries[q]
        BY <2>0, <3>2 DEF BoundInv, RetryTypes
      <4>2. q \in DOMAIN retries' <=> q \in DOMAIN retries
        BY <2>0, <3>2
      <4>3. q \in DOMAIN retries => retries'[q] = retries[q]
        BY <2>0, <3>2
      <4> QED BY <1>0, <1>1, <3>0, <4>1, <4>2, <4>3 DEF TriesCounted
    <3> QED BY <3>1, <3>2
  <2> QED BY <2>3, <2>4, <2>5, <2>6 DEF BoundInv
<1>3. CASE ~RetryDue(p)
  <2>0. retries' = retries /\ looking' = looking /\ tries' = tries
    BY <1>3, VisitEffects DEF p
  <2>1. RetryTypes'
    BY <1>0, <2>0 DEF BoundInv, RetryTypes
  <2>2. InThePast'
    BY <1>0, <2>0 DEF BoundInv, InThePast
  <2>3. PassListed'
    <3>1. pass' # None
      BY <1>0, RetryAssumption
    <3> QED BY <1>0, <2>0, <3>1 DEF BoundInv, PassListed
  <2>4. \A q \in Passages : TriesCounted(q)'
    BY <1>0, <1>1, <2>0 DEF BoundInv, TriesCounted
  <2> QED BY <2>1, <2>2, <2>3, <2>4 DEF BoundInv
<1> QED BY <1>2, <1>3

\* A pass that goes on, or ends without a lookup, asks nothing more.
LEMMA QuietBound ==
    ASSUME BoundInv, LookupReturns \/ EndPass \/ CutPass
    PROVE  BoundInv'
<1>1. /\ now' = now /\ lastSeen' = lastSeen /\ tries' = tries /\ once' = once
      /\ retries' = retries /\ restarts' = restarts /\ passBegan' = passBegan
      /\ tickDue' = tickDue /\ smooth' = smooth /\ crowded' = crowded
      /\ pending' \subseteq pending
  BY DEF LookupReturns, EndPass, CutPass, store
<1>2. /\ pass' = pass \/ pass' = None
      /\ looking' = looking \/ looking' = None
      /\ looking' # None => pass' = pass
  <2>1. CASE LookupReturns
    BY <2>1 DEF LookupReturns
  <2>2. CASE EndPass
    BY <2>2 DEF EndPass
  <2>3. CASE CutPass
    BY <2>3 DEF CutPass
  <2> QED BY <2>1, <2>2, <2>3
<1>3. RetryTypes'
  BY <1>1, <1>2 DEF BoundInv, RetryTypes
<1>4. InThePast'
  BY <1>1 DEF BoundInv, InThePast
<1>5. PassListed'
  BY <1>1, <1>2 DEF BoundInv, PassListed
<1>6. Former' = Former
  BY <1>1, FormerStays
<1>7. \A q \in Passages : TriesCounted(q)'
  BY <1>1, <1>2, <1>6 DEF BoundInv, TriesCounted
<1> QED BY <1>3, <1>4, <1>5, <1>7 DEF BoundInv

LEMMA SecondBound ==
    ASSUME BoundInv, NextSecond
    PROVE  BoundInv'
<1>1. /\ now' = now + 1 /\ lastSeen' = lastSeen /\ tries' = tries /\ once' = once
      /\ retries' = retries /\ restarts' = restarts /\ passBegan' = passBegan
      /\ pass' = pass /\ looking' = looking /\ pending' = pending
      /\ crowded' = crowded /\ tickDue' = TRUE
  BY DEF NextSecond, store
<1>2. smooth' \in BOOLEAN
  BY Zenon DEF NextSecond
<1>3. RetryTypes'
  BY <1>1, <1>2 DEF BoundInv, RetryTypes
<1>4. now \in Nat /\ Horizon \in Nat
  BY RetryAssumption DEF BoundInv, RetryTypes
<1>5. InThePast'
  <2>1. \A q \in Passages : lastSeen[q] # None => lastSeen[q] <= now + 1
    BY <1>4 DEF BoundInv, RetryTypes, InThePast
  <2>2. \A q \in DOMAIN retries : retries[q].last_attempt <= now + 1
    BY <1>4 DEF BoundInv, RetryTypes, RetryState, InThePast
  <2>3. passBegan <= now + 1
    BY <1>4 DEF BoundInv, RetryTypes, InThePast
  <2> QED BY <1>1, <2>1, <2>2, <2>3 DEF BoundInv, InThePast
<1>6. PassListed'
  BY <1>1 DEF BoundInv, PassListed
<1>7. Former' = Former
  BY <1>1, FormerStays
<1>8. ASSUME NEW q \in Passages PROVE TriesCounted(q)'
  <2>1. TriesCounted(q)
    BY DEF BoundInv
  <2>2. lastSeen[q] # None /\ now > lastSeen[q] + Horizon => now + 1 > lastSeen[q] + Horizon
    BY <1>4 DEF BoundInv, RetryTypes
  <2> QED BY <1>1, <1>7, <2>1, <2>2 DEF TriesCounted
<1> QED BY <1>3, <1>5, <1>6, <1>8 DEF BoundInv

LEMMA RestartBound ==
    ASSUME BoundInv, Restart
    PROVE  BoundInv'
<1>1. /\ now' = now /\ lastSeen' = lastSeen /\ tries' = tries /\ once' = once
      /\ retries' = <<>> /\ restarts' = restarts + 1 /\ passBegan' = passBegan
      /\ pass' = None /\ looking' = None /\ pending' = pending
      /\ crowded' = crowded /\ tickDue' = TRUE /\ smooth' = smooth
  BY DEF Restart, store
<1>2. DOMAIN retries' = {} /\ retries' \in [DOMAIN retries' -> RetryState]
  BY <1>1
<1>3. RetryTypes'
  BY <1>1, <1>2 DEF BoundInv, RetryTypes
<1>4. InThePast'
  BY <1>1, <1>2 DEF BoundInv, InThePast
<1>5. PassListed'
  BY <1>1 DEF PassListed
<1>6. Former' = Former + MaxRetries /\ Former \in Nat
  BY <1>1, ProductGrows, RetryAssumption DEF BoundInv, RetryTypes, Former
<1>7. ASSUME NEW q \in Passages PROVE TriesCounted(q)'
  <2>1. TriesCounted(q) /\ tries[q] \in Nat
    BY DEF BoundInv, RetryTypes
  <2>2. q \in DOMAIN retries => retries[q].attempts \in 1 .. MaxRetries
    BY DEF BoundInv, RetryTypes, RetryState
  <2>3. MaxRetries \in Nat
    BY RetryAssumption
  <2>4. tries[q] <= Former + MaxRetries
    BY <1>6, <2>1, <2>2, <2>3 DEF TriesCounted
  <2> QED BY <1>1, <1>2, <1>6, <2>1, <2>3, <2>4 DEF TriesCounted
<1> QED BY <1>3, <1>4, <1>5, <1>7 DEF BoundInv

LEMMA BoundInvNext == BoundInv /\ [RetryNext]_retryVars => BoundInv'
<1> SUFFICES ASSUME BoundInv, [RetryNext]_retryVars PROVE BoundInv'
  OBVIOUS
<1>1. CASE \E p \in Passages : Sight(p)
  BY <1>1, SightBound
<1>2. CASE BeginPass
  BY <1>2, BeginBound
<1>3. CASE VisitRow
  BY <1>3, VisitBound
<1>4. CASE LookupReturns \/ EndPass \/ CutPass
  BY <1>4, QuietBound
<1>5. CASE NextSecond
  BY <1>5, SecondBound
<1>6. CASE Restart
  BY <1>6, RestartBound
<1>7. CASE UNCHANGED retryVars
  BY <1>7 DEF retryVars, BoundInv, RetryTypes, InThePast, PassListed, TriesCounted, Former
<1> QED BY <1>1, <1>2, <1>3, <1>4, <1>5, <1>6, <1>7 DEF RetryNext

LEMMA BoundInvImplies == BoundInv => LookupsAreBounded
<1> SUFFICES ASSUME BoundInv, NEW p \in Passages
             PROVE  tries[p] <= MaxRetries * (restarts + 1)
  BY DEF LookupsAreBounded
<1>1. MaxRetries * (restarts + 1) = Former + MaxRetries /\ Former \in Nat
  BY ProductGrows, RetryAssumption DEF BoundInv, RetryTypes, Former
<1>2. TriesCounted(p) /\ tries[p] \in Nat /\ MaxRetries \in Nat
  BY RetryAssumption DEF BoundInv, RetryTypes
<1>3. p \in DOMAIN retries => retries[p].attempts \in 1 .. MaxRetries
  BY DEF BoundInv, RetryTypes, RetryState
<1> QED BY <1>1, <1>2, <1>3 DEF TriesCounted

\* Between two sightings a passage costs UniFi Access at most
\* DISCOVERY_LPR_MAX_RETRIES lookups for each run of the service.
THEOREM LookupsBounded == RetrySpec => []LookupsAreBounded
  BY BoundInvInit, BoundInvNext, BoundInvImplies, PTL DEF RetrySpec

-----------------------------------------------------------------------------
\* Before its last attempt a passage is due within the horizon.
LEMMA AttemptsFit ==
    ASSUME NEW n \in Nat, n < MaxRetries
    PROVE  /\ n * Interval \in Nat /\ (n + 1) * Interval = n * Interval + Interval
           /\ Delay + n * Interval <= Horizon
<1>1. Interval \in Nat \ {0} /\ MaxRetries \in Nat \ {0} /\ Delay \in Nat /\ Horizon \in Nat
  BY RetryAssumption
<1>2. n * Interval \in Nat /\ (n + 1) * Interval = n * Interval + Interval
  BY <1>1
<1> DEFINE k == MaxRetries - 1 - n
<1>3. k \in Nat /\ MaxRetries - 1 = n + k
  BY <1>1
<1>4. (n + k) * Interval = n * Interval + k * Interval /\ k * Interval \in Nat
  BY <1>1, <1>3
<1>5. Delay + (MaxRetries - 1) * Interval <= Horizon
  BY RetryAssumption
<1>6. Delay + (n * Interval + k * Interval) <= Horizon
  BY <1>3, <1>4, <1>5
<1> HIDE DEF k
<1>7. Delay + n * Interval <= Horizon
  BY <1>1, <1>2, <1>4, <1>6
<1> QED BY <1>2, <1>7

\* Row p is in time, as InTimeInv says it.
RowInTime(p) == IF p \in once THEN SeenOnceInTime(p) ELSE SeenAgainInTime(p)

PassOnTime ==
    pass # None =>
        /\ passBegan = now /\ ~tickDue
        /\ \A p \in DOMAIN retries : now - retries[p].last_attempt < Horizon

LEMMA InTimeInvParts ==
    InTimeInv <=> BoundInv /\ (OnTime => PassOnTime /\ \A p \in pending : RowInTime(p))
  BY DEF InTimeInv, PassOnTime, RowInTime

\* What the types say of a pending row.
LEMMA RowTypes ==
    ASSUME BoundInv, NEW p \in pending
    PROVE  /\ p \in Passages /\ lastSeen[p] \in Nat /\ lastSeen[p] # None
           /\ lastSeen[p] <= now /\ now \in Nat
           /\ tries[p] \in Nat /\ tries[p] * Interval \in Nat
           /\ NextBy(p) \in Nat
           /\ p \in DOMAIN retries =>
                 /\ retries[p].attempts \in 1 .. MaxRetries
                 /\ retries[p].last_attempt \in Nat /\ retries[p].last_attempt <= now
           /\ {Delay, Interval, MaxRetries, Horizon} \subseteq Nat \ {0}
           /\ Interval <= Delay /\ Delay <= Horizon
<1>1. p \in Passages /\ now \in Nat /\ tries[p] \in Nat
  BY DEF BoundInv, RetryTypes
<1>2. lastSeen[p] # None /\ lastSeen[p] <= now
  BY <1>1 DEF BoundInv, InThePast
<1>3. lastSeen[p] \in Nat
  BY <1>1, <1>2 DEF BoundInv, RetryTypes
<1>4. {Delay, Interval, MaxRetries, Horizon} \subseteq Nat \ {0} /\ Interval <= Delay
  BY RetryAssumption
<1>5. tries[p] * Interval \in Nat
  BY <1>1, <1>4
<1>6. Delay <= Horizon
  <2>1. 0 * Interval = 0 /\ Delay + 0 * Interval <= Horizon
    BY <1>4, AttemptsFit
  <2> QED BY <1>4, <2>1
<1>7. p \in DOMAIN retries =>
          /\ retries[p].attempts \in 1 .. MaxRetries
          /\ retries[p].last_attempt \in Nat /\ retries[p].last_attempt <= now
  BY DEF BoundInv, RetryTypes, RetryState, InThePast
<1>8. NextBy(p) \in Nat
  BY <1>1, <1>3, <1>4, <1>5 DEF NextBy
<1> QED BY <1>1, <1>2, <1>3, <1>4, <1>5, <1>6, <1>7, <1>8

LEMMA SightInTime ==
    ASSUME BoundInv, OnTime => PassOnTime /\ \A q \in pending : RowInTime(q),
           NEW p \in Passages, Sight(p), OnTime', BoundInv'
    PROVE  (PassOnTime /\ \A q \in pending : RowInTime(q))'
<1>1. /\ pass = None /\ pass' = None /\ now' = now /\ retries' = retries
      /\ lastSeen' = [lastSeen EXCEPT ![p] = now]
      /\ tries' = [tries EXCEPT ![p] = 0] /\ tickDue' = tickDue
      /\ pending' \subseteq pending \cup {p}
      /\ once' = IF lastSeen[p] = None THEN once \cup {p} ELSE once \ {p}
      /\ smooth' = smooth /\ crowded' = crowded
  BY DEF Sight
<1>2. OnTime
  BY <1>1 DEF OnTime
<1>3. PassOnTime'
  BY <1>1 DEF PassOnTime
<1>4. ASSUME NEW q \in pending' PROVE RowInTime(q)'
  <2>a. /\ q \in Passages /\ lastSeen'[q] \in Nat \cup {None} /\ lastSeen'[q] # None
        /\ now' \in Nat /\ tries'[q] \in Nat
    BY DEF BoundInv, RetryTypes, InThePast
  <2>0. /\ q \in Passages /\ lastSeen'[q] \in Nat /\ lastSeen'[q] # None
        /\ now' \in Nat /\ tries'[q] \in Nat
        /\ {Delay, Interval, MaxRetries, Horizon} \subseteq Nat \ {0}
    BY <2>a, RetryAssumption
  <2>1. CASE q = p
    <3>1. lastSeen'[q] = now /\ tries'[q] = 0
      BY <1>1, <2>1 DEF BoundInv, RetryTypes
    <3>2. CASE lastSeen[p] = None
      <4>1. q \in once' /\ q \notin DOMAIN retries'
        BY <1>1, <2>1, <3>2 DEF BoundInv, InThePast
      <4>2. NextBy(q)' = now + Delay
        <5>1. 0 * Interval = 0
          BY <2>0
        <5> QED BY <2>0, <3>1, <5>1, <1>1 DEF NextBy
      <4>3. SeenOnceInTime(q)'
        BY <1>1, <2>0, <4>1, <4>2 DEF SeenOnceInTime
      <4> QED BY <4>1, <4>3 DEF RowInTime
    <3>3. CASE lastSeen[p] # None
      <4>1. q \notin once'
        BY <1>1, <2>1, <3>3
      <4>2. q \in DOMAIN retries => retries[q].last_attempt <= now
        BY DEF BoundInv, InThePast
      <4>3. SeenAgainInTime(q)'
        BY <1>1, <2>0, <3>1, <4>2 DEF SeenAgainInTime
      <4> QED BY <4>1, <4>3 DEF RowInTime
    <3> QED BY <3>2, <3>3
  <2>2. CASE q # p
    <3>1. q \in pending /\ RowInTime(q)
      BY <1>1, <1>2, <2>2
    <3>2. lastSeen'[q] = lastSeen[q] /\ tries'[q] = tries[q] /\ (q \in once' <=> q \in once)
      BY <1>1, <2>2, <2>0 DEF BoundInv, RetryTypes
    <3>3. NextBy(q)' = NextBy(q) /\ (ToVisit(q)' <=> ToVisit(q))
      BY <1>1, <3>2 DEF NextBy, ToVisit
    <3> QED BY <1>1, <3>1, <3>2, <3>3 DEF RowInTime, SeenOnceInTime, SeenAgainInTime
  <2> QED BY <2>1, <2>2
<1> QED BY <1>3, <1>4

\* Every row that is due in this second is on the list.
LEMMA BeginInTime ==
    ASSUME BoundInv, OnTime => PassOnTime /\ \A q \in pending : RowInTime(q),
           BeginPass, OnTime'
    PROVE  (PassOnTime /\ \A q \in pending : RowInTime(q))'
<1>1. PICK rows \in Ordered(Listed) : pass' = FirstOf(rows, BatchLimit)
  BY DEF BeginPass
<1>2. /\ now' = now /\ lastSeen' = lastSeen /\ tries' = tries
      /\ pending' = pending /\ once' = once /\ passBegan' = now
      /\ retries' = [p \in Remembered |-> retries[p]]
      /\ tickDue' = FALSE /\ smooth' = smooth
  BY DEF BeginPass, store
<1>3. OnTime /\ Cardinality(Listed) <= BatchLimit
  <2>1. ~(crowded \/ Cardinality(Listed) > BatchLimit)
    BY Zenon DEF BeginPass, OnTime
  <2>2. Cardinality(Listed) \in Nat /\ BatchLimit \in Nat
    <3>1. Listed \subseteq Passages
      BY DEF Listed, BoundInv, RetryTypes
    <3> QED BY <3>1, FS_Subset, FS_CardinalityType, RetryAssumption
  <2>3. smooth
    BY <1>2 DEF OnTime
  <2>4. ~crowded /\ ~(Cardinality(Listed) > BatchLimit)
    BY <2>1, Zenon
  <2> QED BY <2>2, <2>3, <2>4 DEF OnTime
<1>4. pass' \in Seq(Passages) /\ Listed \subseteq RowsOf(pass') /\ pass' # None
  BY <1>1, <1>3, BatchOf, RetryAssumption DEF BoundInv
<1>5. /\ DOMAIN retries' = Remembered /\ Remembered \subseteq DOMAIN retries
      /\ \A p \in Remembered : retries'[p] = retries[p]
  BY <1>2 DEF Remembered
<1>6. PassOnTime'
  BY <1>2, <1>5 DEF PassOnTime, Remembered
<1>7. ASSUME NEW q \in pending PROVE RowInTime(q)'
  <2>0. /\ q \in Passages /\ lastSeen[q] \in Nat /\ lastSeen[q] <= now /\ now \in Nat
        /\ tries[q] \in Nat /\ tries[q] * Interval \in Nat
        /\ {Delay, Interval, MaxRetries, Horizon} \subseteq Nat \ {0}
        /\ Interval <= Delay /\ Delay <= Horizon
    BY RowTypes
  <2>1. RowInTime(q)
    BY <1>3, <1>7
  <2>2. NextBy(q)' = NextBy(q) /\ NextBy(q) = lastSeen[q] + Delay + tries[q] * Interval
    BY <1>2 DEF NextBy
  <2>3. q \in DOMAIN retries' => q \in DOMAIN retries /\ retries'[q] = retries[q]
    BY <1>5
  <2>4. ~ToVisit(q)' => q \notin Listed
    BY <1>4 DEF ToVisit
  <2>5. q \notin Listed => now < lastSeen[q] + Delay \/ now > lastSeen[q] + Horizon
    BY <1>7, <2>0 DEF Listed
  <2>6. CASE q \in once
    <3>1. SeenOnceInTime(q)
      BY <2>1, <2>6 DEF RowInTime
    <3>2. ASSUME tries[q] < MaxRetries, ~ToVisit(q)' PROVE now < NextBy(q)
      <4>1. now <= NextBy(q)
        BY <3>1, <3>2 DEF SeenOnceInTime
      <4>2. Delay + tries[q] * Interval <= Horizon
        BY <2>0, <3>2, AttemptsFit
      <4> QED BY <2>0, <2>2, <2>4, <2>5, <3>2, <4>1, <4>2
    <3>3. SeenOnceInTime(q)'
      BY <1>2, <2>2, <2>3, <3>1, <3>2 DEF SeenOnceInTime
    <3> QED BY <1>2, <2>6, <3>3 DEF RowInTime
  <2>7. CASE q \notin once
    <3>1. SeenAgainInTime(q)
      BY <2>1, <2>7 DEF RowInTime
    <3>2. ASSUME tries[q] = 0, ~ToVisit(q)' PROVE now < lastSeen[q] + Horizon
      <4>1. now <= lastSeen[q] + Horizon
        BY <3>1, <3>2 DEF SeenAgainInTime
      <4> QED BY <2>0, <2>4, <2>5, <3>2, <4>1
    <3>3. SeenAgainInTime(q)'
      BY <1>2, <2>3, <3>1, <3>2 DEF SeenAgainInTime
    <3> QED BY <1>2, <2>7, <3>3 DEF RowInTime
  <2> QED BY <2>6, <2>7
<1> QED BY <1>2, <1>6, <1>7

\* A row that is visited has had its lookup or has time left.
LEMMA VisitInTime ==
    ASSUME BoundInv, OnTime => PassOnTime /\ \A q \in pending : RowInTime(q),
           VisitRow, OnTime'
    PROVE  (PassOnTime /\ \A q \in pending : RowInTime(q))'
<1> DEFINE p == Head(pass)
<1> HIDE DEF p
<1>0. /\ pass \in Seq(Passages) /\ pass # <<>> /\ pass # None
      /\ p \in Passages /\ pass' \in Seq(Passages)
      /\ RowsOf(pass) = {p} \cup RowsOf(pass')
      /\ lastSeen[p] \in Nat /\ lastSeen[p] + Delay <= now
      /\ now' = now /\ lastSeen' = lastSeen /\ pending' = pending /\ once' = once
      /\ tickDue' = tickDue /\ passBegan' = passBegan
      /\ smooth' = smooth /\ crowded' = crowded
  BY VisitEffects DEF p
<1>1. OnTime /\ PassOnTime /\ \A q \in pending : RowInTime(q)
  BY <1>0 DEF OnTime
<1>2. pass' # None /\ passBegan = now /\ ~tickDue /\ now \in Nat /\ Horizon \in Nat \ {0}
  BY <1>0, <1>1, RetryAssumption DEF PassOnTime, BoundInv, RetryTypes
<1>3. \A q \in DOMAIN retries : now - retries[q].last_attempt < Horizon
  BY <1>0, <1>1 DEF PassOnTime
<1>4. CASE RetryDue(p)
  <2>0. /\ DOMAIN retries' = DOMAIN retries \cup {p}
        /\ retries'[p] = [attempts |-> Attempts(p), last_attempt |-> now]
        /\ \A q \in DOMAIN retries : q # p => retries'[q] = retries[q]
        /\ tries' = [tries EXCEPT ![p] = @ + 1]
    BY <1>4, VisitEffects DEF p
  <2>1. PassOnTime'
    <3>1. \A q \in DOMAIN retries' : now - retries'[q].last_attempt < Horizon
      BY <1>2, <1>3, <2>0
    <3> QED BY <1>0, <1>2, <3>1 DEF PassOnTime
  <2>2. ASSUME NEW q \in pending PROVE RowInTime(q)'
    <3>0. /\ q \in Passages /\ lastSeen[q] \in Nat /\ lastSeen[q] <= now
          /\ tries[q] \in Nat /\ tries[q] * Interval \in Nat /\ NextBy(q) \in Nat
          /\ {Delay, Interval, MaxRetries, Horizon} \subseteq Nat \ {0}
      BY RowTypes
    <3>1. RowInTime(q)
      BY <1>1, <2>2
    <3>2. CASE q = p
      <4>1. /\ tries'[q] = tries[q] + 1 /\ q \in DOMAIN retries'
            /\ retries'[q].attempts = Attempts(q) /\ retries'[q].last_attempt = now
        BY <2>0, <3>2 DEF BoundInv, RetryTypes
      <4>2. CASE q \in once
        <5>1. SeenOnceInTime(q)
          BY <3>1, <4>2 DEF RowInTime
        <5>2. Attempts(q) <= tries[q] + 1
          <6>1. q \in DOMAIN retries => retries[q].attempts \in Nat
            BY DEF BoundInv, RetryTypes, RetryState
          <6> QED BY <3>0, <5>1, <6>1 DEF SeenOnceInTime, Attempts
        <5>3. tries[q] < MaxRetries =>
                 NextBy(q)' = NextBy(q) + Interval /\ now <= NextBy(q)
          <6> SUFFICES ASSUME tries[q] < MaxRetries
                       PROVE  NextBy(q)' = NextBy(q) + Interval /\ now <= NextBy(q)
            OBVIOUS
          <6>1. (tries[q] + 1) * Interval = tries[q] * Interval + Interval
            BY <3>0, AttemptsFit
          <6>2. NextBy(q)' = lastSeen[q] + Delay + (tries[q] + 1) * Interval
            BY <1>0, <4>1 DEF NextBy
          <6>3. NextBy(q) = lastSeen[q] + Delay + tries[q] * Interval
            BY DEF NextBy
          <6> QED BY <3>0, <5>1, <6>1, <6>2, <6>3 DEF SeenOnceInTime
        <5>4. tries[q] + 1 < MaxRetries =>
                 now < NextBy(q)' /\ now + Interval <= NextBy(q)'
          BY <1>2, <3>0, <5>3
        <5>5. retries'[q].attempts <= tries'[q]
          BY <4>1, <5>2
        <5>6. tries'[q] < MaxRetries =>
                 /\ now' <= NextBy(q)' /\ now' < NextBy(q)'
                 /\ retries'[q].last_attempt + Interval <= NextBy(q)'
          <6>1. tries[q] < MaxRetries => NextBy(q)' \in Nat
            BY <3>0, <5>3
          <6>2. now' = now /\ now \in Nat /\ {Interval, MaxRetries} \subseteq Nat
            BY <1>0, <1>2, <3>0
          <6>3. tries'[q] = tries[q] + 1 /\ retries'[q].last_attempt = now /\ tries[q] \in Nat
            BY <3>0, <4>1
          <6> QED BY <5>4, <6>1, <6>2, <6>3
        <5>7. SeenOnceInTime(q)'
          BY <5>5, <5>6, Zenon DEF SeenOnceInTime
        <5> QED BY <1>0, <4>2, <5>7 DEF RowInTime
      <4>3. CASE q \notin once
        <5>1. SeenAgainInTime(q)'
          BY <3>0, <4>1 DEF SeenAgainInTime
        <5> QED BY <1>0, <4>3, <5>1 DEF RowInTime
      <4> QED BY <4>2, <4>3
    <3>3. CASE q # p
      <4>1. tries'[q] = tries[q] /\ NextBy(q)' = NextBy(q)
        BY <1>0, <2>0, <3>3 DEF BoundInv, RetryTypes, NextBy
      <4>2. q \in DOMAIN retries' <=> q \in DOMAIN retries
        BY <2>0, <3>3
      <4>3. q \in DOMAIN retries => retries'[q] = retries[q]
        BY <2>0, <3>3
      <4>4. ToVisit(q)' <=> ToVisit(q)
        BY <1>0, <1>2, <3>3 DEF ToVisit
      <4> QED BY <1>0, <3>1, <4>1, <4>2, <4>3, <4>4
              DEF RowInTime, SeenOnceInTime, SeenAgainInTime
    <3> QED BY <3>2, <3>3
  <2> QED BY <1>0, <2>1, <2>2
<1>5. CASE ~RetryDue(p)
  <2>0. retries' = retries /\ tries' = tries
    BY <1>5, VisitEffects DEF p
  <2>1. PassOnTime'
    BY <1>0, <1>2, <1>3, <2>0 DEF PassOnTime
  <2>2. ASSUME NEW q \in pending PROVE RowInTime(q)'
    <3>0. /\ q \in Passages /\ lastSeen[q] \in Nat /\ lastSeen[q] <= now
          /\ tries[q] \in Nat /\ NextBy(q) \in Nat
          /\ {Delay, Interval, MaxRetries, Horizon} \subseteq Nat \ {0}
          /\ q \in DOMAIN retries => retries[q].last_attempt \in Nat /\ retries[q].attempts \in Nat
      BY RowTypes
    <3>1. RowInTime(q)
      BY <1>1, <2>2
    <3>2. NextBy(q)' = NextBy(q)
      BY <1>0, <2>0 DEF NextBy
    <3>3. CASE q # p
      <4>1. ToVisit(q)' <=> ToVisit(q)
        BY <1>0, <1>2, <3>3 DEF ToVisit
      <4> QED BY <1>0, <2>0, <3>1, <3>2, <4>1 DEF RowInTime, SeenOnceInTime, SeenAgainInTime
    <3>4. CASE q = p
      <4>1. /\ q \in DOMAIN retries
            /\ retries[q].attempts >= MaxRetries \/ now - retries[q].last_attempt < Interval
        BY <1>2, <1>5, <3>0, <3>4 DEF RetryDue
      <4>2. CASE q \in once
        <5>1. SeenOnceInTime(q)
          BY <3>1, <4>2 DEF RowInTime
        <5>2. tries[q] < MaxRetries => now < NextBy(q)
          BY <1>2, <3>0, <4>1, <5>1 DEF SeenOnceInTime
        <5>3. SeenOnceInTime(q)'
          BY <1>0, <2>0, <3>2, <5>1, <5>2 DEF SeenOnceInTime
        <5> QED BY <1>0, <4>2, <5>3 DEF RowInTime
      <4>3. CASE q \notin once
        <5>1. SeenAgainInTime(q)
          BY <3>1, <4>3 DEF RowInTime
        <5>2. tries[q] = 0 => now < lastSeen[q] + Horizon
          BY <1>2, <1>3, <3>0, <4>1, <5>1 DEF SeenAgainInTime
        <5>3. SeenAgainInTime(q)'
          BY <1>0, <2>0, <5>1, <5>2 DEF SeenAgainInTime
        <5> QED BY <1>0, <4>3, <5>3 DEF RowInTime
      <4> QED BY <4>2, <4>3
    <3> QED BY <3>3, <3>4
  <2> QED BY <1>0, <2>1, <2>2
<1> QED BY <1>4, <1>5

LEMMA QuietInTime ==
    ASSUME BoundInv, OnTime => PassOnTime /\ \A q \in pending : RowInTime(q),
           LookupReturns \/ EndPass \/ CutPass, OnTime'
    PROVE  (PassOnTime /\ \A q \in pending : RowInTime(q))'
<1>1. /\ now' = now /\ lastSeen' = lastSeen /\ tries' = tries /\ once' = once
      /\ retries' = retries /\ passBegan' = passBegan
      /\ tickDue' = tickDue /\ smooth' = smooth /\ crowded' = crowded
      /\ pending' \subseteq pending
  BY DEF LookupReturns, EndPass, CutPass, store
<1>2. PassOnTime /\ \A q \in pending : RowInTime(q)
  BY <1>1 DEF OnTime
<1>3. ~CutPass
  <2> SUFFICES ASSUME CutPass PROVE FALSE
    OBVIOUS
  <2>1. pass # None /\ now - passBegan >= PassTimeout
    BY DEF CutPass, BoundInv, PassListed
  <2> QED BY <1>2, <2>1, RetryAssumption DEF PassOnTime, BoundInv, RetryTypes
<1>4. pass' = pass \/ (pass = <<>> /\ pass' = None)
  BY <1>3 DEF LookupReturns, EndPass
<1>5. PassOnTime'
  BY <1>1, <1>2, <1>4 DEF PassOnTime
<1>6. ASSUME NEW q \in pending' PROVE RowInTime(q)'
  <2>1. RowInTime(q)
    BY <1>1, <1>2
  <2>2. ToVisit(q)' <=> ToVisit(q)
    BY <1>1, <1>4 DEF ToVisit, RowsOf
  <2>3. NextBy(q)' = NextBy(q)
    BY <1>1 DEF NextBy
  <2> QED BY <1>1, <2>1, <2>2, <2>3 DEF RowInTime, SeenOnceInTime, SeenAgainInTime
<1> QED BY <1>5, <1>6

\* A second is over only when its pass is.
LEMMA SecondInTime ==
    ASSUME BoundInv, OnTime => PassOnTime /\ \A q \in pending : RowInTime(q),
           NextSecond, OnTime'
    PROVE  (PassOnTime /\ \A q \in pending : RowInTime(q))'
<1>1. /\ now' = now + 1 /\ lastSeen' = lastSeen /\ tries' = tries /\ once' = once
      /\ retries' = retries /\ pass' = pass /\ pending' = pending
      /\ crowded' = crowded /\ tickDue' = TRUE
      /\ smooth' = (smooth /\ ~tickDue /\ pass = None)
  BY DEF NextSecond, store
<1>2. OnTime /\ ~tickDue /\ pass = None
  BY <1>1, Zenon DEF OnTime
<1>3. PassOnTime'
  BY <1>1, <1>2 DEF PassOnTime
<1>4. ASSUME NEW q \in pending PROVE RowInTime(q)'
  <2>0. /\ lastSeen[q] \in Nat /\ now \in Nat /\ NextBy(q) \in Nat /\ Horizon \in Nat
    BY RowTypes
  <2>1. RowInTime(q) /\ ~ToVisit(q) /\ ToVisit(q)'
    BY <1>1, <1>2, <1>4 DEF ToVisit
  <2>2. NextBy(q)' = NextBy(q)
    BY <1>1 DEF NextBy
  <2>3. now < NextBy(q) => now + 1 <= NextBy(q)
    BY <2>0
  <2>4. now < lastSeen[q] + Horizon => now + 1 <= lastSeen[q] + Horizon
    BY <2>0
  <2> QED BY <1>1, <2>1, <2>2, <2>3, <2>4 DEF RowInTime, SeenOnceInTime, SeenAgainInTime
<1> QED BY <1>1, <1>3, <1>4

LEMMA RestartInTime ==
    ASSUME BoundInv, OnTime => PassOnTime /\ \A q \in pending : RowInTime(q),
           Restart, OnTime'
    PROVE  (PassOnTime /\ \A q \in pending : RowInTime(q))'
<1>1. /\ now' = now /\ lastSeen' = lastSeen /\ tries' = tries /\ once' = once
      /\ DOMAIN retries' = {} /\ pass' = None /\ pending' = pending
      /\ crowded' = crowded /\ tickDue' = TRUE /\ smooth' = smooth
  BY DEF Restart, store
<1>2. PassOnTime'
  BY <1>1 DEF PassOnTime
<1>3. ASSUME NEW q \in pending PROVE RowInTime(q)'
  <2>1. RowInTime(q) /\ ToVisit(q)'
    BY <1>1, <1>3 DEF ToVisit, OnTime
  <2>2. NextBy(q)' = NextBy(q)
    BY <1>1 DEF NextBy
  <2> QED BY <1>1, <2>1, <2>2 DEF RowInTime, SeenOnceInTime, SeenAgainInTime
<1> QED BY <1>1, <1>2, <1>3

LEMMA InTimeInvInit == RetryInit => InTimeInv
  BY BoundInvInit DEF RetryInit, InTimeInv

LEMMA InTimeInvNext == InTimeInv /\ [RetryNext]_retryVars => InTimeInv'
<1> SUFFICES ASSUME InTimeInv, [RetryNext]_retryVars PROVE InTimeInv'
  OBVIOUS
<1>1. BoundInv /\ (OnTime => PassOnTime /\ \A q \in pending : RowInTime(q))
  BY InTimeInvParts
<1>2. BoundInv'
  BY <1>1, BoundInvNext
<1>3. ASSUME OnTime' PROVE (PassOnTime /\ \A q \in pending : RowInTime(q))'
  <2>1. CASE \E p \in Passages : Sight(p)
    BY <1>1, <1>2, <1>3, <2>1, SightInTime
  <2>2. CASE BeginPass
    BY <1>1, <1>3, <2>2, BeginInTime
  <2>3. CASE VisitRow
    BY <1>1, <1>3, <2>3, VisitInTime
  <2>4. CASE LookupReturns \/ EndPass \/ CutPass
    BY <1>1, <1>3, <2>4, QuietInTime
  <2>5. CASE NextSecond
    BY <1>1, <1>3, <2>5, SecondInTime
  <2>6. CASE Restart
    BY <1>1, <1>3, <2>6, RestartInTime
  <2>7. CASE UNCHANGED retryVars
    BY <1>1, <1>3, <2>7
       DEF retryVars, OnTime, PassOnTime, RowInTime, SeenOnceInTime, SeenAgainInTime,
           NextBy, ToVisit
  <2> QED BY <2>1, <2>2, <2>3, <2>4, <2>5, <2>6, <2>7 DEF RetryNext
<1> QED BY <1>2, <1>3 DEF InTimeInv, PassOnTime, RowInTime

LEMMA InTimeInvImplies == InTimeInv => RetriedBeforeExpiry
<1> SUFFICES ASSUME InTimeInv, smooth, ~crowded, NEW p \in Passages, Expired(p)
             PROVE  tries[p] >= (IF p \in once THEN MaxRetries ELSE 1)
  BY DEF RetriedBeforeExpiry
<1>1. BoundInv /\ RowInTime(p) /\ p \in pending /\ now > lastSeen[p] + Horizon
  BY DEF InTimeInv, RowInTime, Expired, OnTime
<1>2. /\ lastSeen[p] \in Nat /\ now \in Nat /\ tries[p] \in Nat
      /\ tries[p] * Interval \in Nat
      /\ {Delay, Interval, MaxRetries, Horizon} \subseteq Nat \ {0}
  BY <1>1, RowTypes
<1>3. CASE p \in once
  <2> SUFFICES ASSUME tries[p] < MaxRetries PROVE FALSE
    BY <1>2, <1>3
  <2>1. now <= lastSeen[p] + Delay + tries[p] * Interval
    BY <1>1, <1>3 DEF RowInTime, SeenOnceInTime, NextBy
  <2>2. Delay + tries[p] * Interval <= Horizon
    BY <1>2, AttemptsFit
  <2> QED BY <1>1, <1>2, <2>1, <2>2
<1>4. CASE p \notin once
  <2>1. tries[p] # 0
    BY <1>1, <1>2, <1>4 DEF RowInTime, SeenAgainInTime
  <2> QED BY <1>2, <1>4, <2>1
<1> QED BY <1>3, <1>4

\* No pending passage expires without its lookups while the loop keeps up
\* and the list fits into a batch, whatever sightings and restarts did to
\* the attempts on record.
THEOREM RetriedInTime == RetrySpec => []RetriedBeforeExpiry
  BY InTimeInvInit, InTimeInvNext, InTimeInvImplies, PTL DEF RetrySpec

-----------------------------------------------------------------------------
(* The checks before the stream.                                           *)

\* What a check under way can rely on, although the reader's configuration
\* changes: it has seen what is so now, and what it was told once.
CheckInv ==
    /\ service \in {"status", "preset"} => Preset!Now \in during
    /\ service = "preset" =>
          /\ named # Transient
          /\ \E x \in during : Preset!ActiveInventory(x[1]) /\ x[1].preset = named

\* A preset that passes the check does not keep TIDs from being reported.
LEMMA VerifiedKeepsTid ==
    ASSUME NEW p, Preset!Verified(p)
    PROVE  ~Preset!TurnsTidOff(p)
  BY DEF Preset!Verified, Preset!TurnsTidOff, Preset!FirstWatched

LEMMA CheckInvNext == CheckInv /\ [ReaderNext]_readerVars => CheckInv'
<1> SUFFICES ASSUME CheckInv, [ReaderNext]_readerVars PROVE CheckInv'
  OBVIOUS
<1>1. CASE UNCHANGED presetVars
  BY <1>1 DEF presetVars, CheckInv, Preset!Now
<1>2. CASE Preset!Begin
  BY <1>2 DEF Preset!Begin, CheckInv, Preset!Now
<1>3. CASE Preset!QueryStatus
  <2>1. service = "status" /\ service' \in {"stopped", "streaming", "preset"}
    BY <1>3 DEF Preset!QueryStatus
  <2>2. CASE service' = "preset"
    <3>1. /\ Preset!ActiveInventory(state) /\ state.preset # Transient
          /\ named' = state.preset /\ UNCHANGED <<during, state, presets>>
      BY <1>3, <2>2 DEF Preset!QueryStatus
    <3>2. Preset!Now \in during /\ Preset!Now[1] = state
      BY <2>1 DEF CheckInv, Preset!Now
    <3>3. Preset!Now' = Preset!Now
      BY <3>1 DEF Preset!Now
    <3> QED BY <2>2, <3>1, <3>2, <3>3 DEF CheckInv
  <2>3. CASE service' # "preset"
    BY <2>1, <2>3 DEF CheckInv
  <2> QED BY <2>2, <2>3
<1>4. CASE Preset!FetchPreset
  BY <1>4 DEF Preset!FetchPreset, CheckInv
<1>5. CASE Preset!RequestFails
  BY <1>5 DEF Preset!RequestFails, CheckInv
<1>6. CASE Preset!Stop
  BY <1>6 DEF Preset!Stop, CheckInv
<1>7. CASE Preset!Configure
  <2>1. /\ service' = service /\ named' = named
        /\ during' = IF during = {} THEN {} ELSE during \cup {Preset!Now'}
    BY <1>7 DEF Preset!Configure
  <2> QED BY <2>1 DEF CheckInv
<1> QED BY <1>1, <1>2, <1>3, <1>4, <1>5, <1>6, <1>7
        DEF ReaderNext, readerVars, Streaming, Checking, ProcessEnds

\* The service streams only what it has checked, however often the reader is
\* reconfigured between the two requests.
THEOREM PresetsAreChecked == ReaderSpec => StreamsCheckedPreset
<1> DEFINE Checked ==
        \E x, y \in during :
             /\ x[1].interface = "IoT" /\ x[1].status \in {"running", "armed"}
             /\ x[1].profile = "inventory"
             /\ x[1].preset # Transient =>
                   y[2][x[1].preset] # Absent /\ ~Preset!TurnsTidOff(y[2][x[1].preset])
<1>1. ReaderInit => CheckInv
  BY DEF ReaderInit, Preset!Init, CheckInv
<1>2. CheckInv /\ [ReaderNext]_readerVars => (Preset!Starts => Checked)
  <2> SUFFICES ASSUME CheckInv, [ReaderNext]_readerVars, Preset!Starts PROVE Checked
    OBVIOUS
  <2>0. Preset!Now \in during /\ Preset!Now[1] = state /\ Preset!Now[2] = presets
    BY DEF CheckInv, Preset!Starts, Preset!Now
  <2>1. Preset!QueryStatus \/ Preset!FetchPreset
    BY DEF ReaderNext, readerVars, presetVars, Streaming, Checking, ProcessEnds,
           Preset!Starts, Preset!Begin, Preset!RequestFails, Preset!Stop, Preset!Configure
  <2>2. CASE Preset!QueryStatus
    <3>1. Preset!ActiveInventory(state) /\ state.preset = Transient
      BY <2>2 DEF Preset!QueryStatus, Preset!Starts
    <3> QED BY <2>0, <3>1 DEF Preset!ActiveInventory
  <2>3. CASE Preset!FetchPreset
    <3>1. /\ service = "preset" /\ presets[named] # Absent
          /\ Preset!Verified(presets[named])
      BY <2>3 DEF Preset!FetchPreset, Preset!Starts
    <3>2. PICK x \in during : Preset!ActiveInventory(x[1]) /\ x[1].preset = named
      BY <3>1 DEF CheckInv
    <3>3. ~Preset!TurnsTidOff(presets[named])
      BY <3>1, VerifiedKeepsTid
    <3> QED BY <2>0, <3>1, <3>2, <3>3 DEF Preset!ActiveInventory
  <2> QED BY <2>1, <2>2, <2>3
<1> QED BY <1>1, <1>2, CheckInvNext, PTL
        DEF ReaderSpec, StreamsCheckedPreset, Preset!StreamsCheckedPreset

-----------------------------------------------------------------------------
(* The stream.                                                             *)

Pieces == [event : Nat, newline : BOOLEAN]

\* Where the events in the buffer end.
EventEnds(b) == {k \in DOMAIN b : b[k].newline /\ b[k].event # 0}

\* The event that ends at k has a line of its own.
WholeAt(b, k) ==
    /\ k > 1 /\ b[k - 1] = Piece(b[k].event, FALSE)
    /\ k > 2 => b[k - 2].newline

\* The buffer holds what the reader r has sent after event n: every later
\* event once and in order, and the beginning of the next if it is under way.
Fed(b, r, n) ==
    /\ b \in Seq(Pieces)
    /\ \A k \in EventEnds(b) : WholeAt(b, k) /\ b[k].event \in n + 1 .. r.next - 1
    /\ \A m \in n + 1 .. r.next - 1 : \E k \in EventEnds(b) : b[k].event = m
    /\ \A j, k \in EventEnds(b) : j < k => b[j].event < b[k].event
    /\ r.within = "none" /\ b # <<>> => b[Len(b)].newline
    /\ r.within = "event" =>
          /\ b # <<>> /\ b[Len(b)] = Piece(r.next, FALSE)
          /\ Len(b) > 1 => b[Len(b) - 1].newline

Readers == [next : Nat \ {0}, within : {"none", "event", "endless"}]

\* The inductive invariant of WholeLinesAreHandled.
StreamInv ==
    /\ handled \in Nat /\ channel \in Seq(Nat) /\ ~misread /\ reader \in Readers
    /\ \A k \in DOMAIN channel : channel[k] = handled + k
    /\ whole = reader.next - 1
    /\ handled + Len(channel) <= whole
    /\ IF link = "streaming" THEN Fed(buffer, reader, handled + Len(channel))
       ELSE handled + Len(channel) = whole

LEMMA AppendedPiece ==
    ASSUME NEW b \in Seq(Pieces), NEW q \in Pieces
    PROVE  LET c == Append(b, q) IN
           /\ c \in Seq(Pieces) /\ c # <<>>
           /\ Len(b) \in Nat /\ Len(c) = Len(b) + 1
           /\ DOMAIN b = 1 .. Len(b) /\ DOMAIN c = 1 .. Len(b) + 1
           /\ c[Len(b) + 1] = q
           /\ \A k \in 1 .. Len(b) : c[k] = b[k]
           /\ EventEnds(c) = EventEnds(b) \cup
                 (IF q.newline /\ q.event # 0 THEN {Len(b) + 1} ELSE {})
           /\ \A k \in EventEnds(b) : WholeAt(b, k) => WholeAt(c, k)
<1> DEFINE c == Append(b, q)
<1> DEFINE n == Len(b)
<1>1. /\ c \in Seq(Pieces) /\ c # <<>> /\ n \in Nat /\ Len(c) = n + 1
      /\ DOMAIN b = 1 .. n /\ DOMAIN c = 1 .. n + 1
      /\ c[n + 1] = q /\ \A k \in 1 .. n : c[k] = b[k]
  OBVIOUS
<1> HIDE DEF c, n
<1>2. EventEnds(c) = EventEnds(b) \cup (IF q.newline /\ q.event # 0 THEN {n + 1} ELSE {})
  <2>1. \A k \in 1 .. n : k \in EventEnds(c) <=> k \in EventEnds(b)
    BY <1>1 DEF EventEnds
  <2>2. n + 1 \in EventEnds(c) <=> q.newline /\ q.event # 0
    BY <1>1 DEF EventEnds
  <2>3. EventEnds(c) \subseteq 1 .. n + 1 /\ EventEnds(b) \subseteq 1 .. n
    BY <1>1 DEF EventEnds
  <2>4. \A k \in 1 .. n + 1 : k \in 1 .. n \/ k = n + 1
    BY <1>1
  <2>5. n + 1 \notin 1 .. n
    BY <1>1
  <2> QED BY <2>1, <2>2, <2>3, <2>4, <2>5
<1>3. ASSUME NEW k \in EventEnds(b), WholeAt(b, k) PROVE WholeAt(c, k)
  <2>1. k \in 1 .. n
    BY <1>1 DEF EventEnds
  <2>2. k > 1 => k - 1 \in 1 .. n
    BY <1>1, <2>1
  <2>3. k > 2 => k - 2 \in 1 .. n
    BY <1>1, <2>1
  <2> QED BY <1>1, <1>3, <2>1, <2>2, <2>3 DEF WholeAt
<1> QED BY <1>1, <1>2, <1>3 DEF c, n

\* A piece that ends no event leaves the events in the buffer as they are.
LEMMA FedOther ==
    ASSUME NEW b, NEW r \in Readers, NEW n \in Nat, Fed(b, r, n),
           NEW q \in Pieces, ~(q.newline /\ q.event # 0),
           NEW s \in Readers, s.next = r.next,
           s.within = "none" => q.newline,
           s.within = "event" =>
               q = Piece(r.next, FALSE) /\ (b # <<>> => b[Len(b)].newline)
    PROVE  Fed(Append(b, q), s, n)
<1> DEFINE c == Append(b, q)
<1>1. b \in Seq(Pieces)
  BY DEF Fed
<1>2. /\ c \in Seq(Pieces) /\ c # <<>> /\ Len(b) \in Nat /\ Len(c) = Len(b) + 1
      /\ DOMAIN b = 1 .. Len(b) /\ c[Len(b) + 1] = q
      /\ \A k \in 1 .. Len(b) : c[k] = b[k]
      /\ \A k \in EventEnds(b) : WholeAt(b, k) => WholeAt(c, k)
  BY <1>1, AppendedPiece
<1>3. EventEnds(c) = EventEnds(b)
  <2> DEFINE added == IF q.newline /\ q.event # 0 THEN {Len(b) + 1} ELSE {}
  <2>1. added = {}
    BY Zenon
  <2>2. EventEnds(c) = EventEnds(b) \cup added
    BY <1>1, AppendedPiece
  <2> HIDE DEF added, c
  <2> QED BY <2>1, <2>2
<1>4. EventEnds(b) \subseteq 1 .. Len(b)
  BY <1>2 DEF EventEnds
<1> HIDE DEF c
<1>5. \A k \in EventEnds(c) : WholeAt(c, k) /\ c[k].event \in n + 1 .. s.next - 1
  BY <1>2, <1>3, <1>4 DEF Fed
<1>6. \A m \in n + 1 .. s.next - 1 : \E k \in EventEnds(c) : c[k].event = m
  BY <1>2, <1>3, <1>4 DEF Fed
<1>7. \A j, k \in EventEnds(c) : j < k => c[j].event < c[k].event
  BY <1>2, <1>3, <1>4 DEF Fed
<1>8. c[Len(c)] = q
  BY <1>2
<1>9. s.within = "event" /\ Len(c) > 1 => c[Len(c) - 1].newline
  <2> SUFFICES ASSUME s.within = "event", Len(c) > 1 PROVE c[Len(c) - 1].newline
    OBVIOUS
  <2>1. Len(b) \in 1 .. Len(b) /\ b # <<>> /\ Len(c) - 1 = Len(b)
    BY <1>1, <1>2
  <2> QED BY <1>2, <2>1
<1> QED BY <1>2, <1>5, <1>6, <1>7, <1>8, <1>9 DEF Fed, c

\* Whatever piece the reader sends next, the buffer stays fed.
LEMMA FedPiece ==
    ASSUME NEW b, NEW r \in Readers, NEW n \in Nat, n < r.next, Fed(b, r, n),
           NEW x \in NextPieces(r)
    PROVE  /\ x[1] \in Pieces /\ x[2] \in Readers /\ r.next <= x[2].next
           /\ Fed(Append(b, x[1]), x[2], n)
<1>0. r.next \in Nat \ {0} /\ r.within \in {"none", "event", "endless"}
  BY DEF Readers
<1>a. \A e \in Nat : /\ Piece(e, FALSE) \in Pieces /\ ~Piece(e, FALSE).newline
                     /\ Piece(e, TRUE) \in Pieces /\ Piece(e, TRUE).newline
                     /\ Piece(e, TRUE).event = e
  BY DEF Pieces, Piece
<1>1. CASE r.within = "endless"
  <2>1. x = <<Piece(0, FALSE), r>>
    BY <1>1, Zenon DEF NextPieces
  <2>2. x[1] = Piece(0, FALSE) /\ x[2] = r
    BY <2>1
  <2>3. ~x[1].newline /\ x[1] \in Pieces
    BY <1>a, <2>2
  <2>4. Fed(Append(b, x[1]), r, n)
    BY <1>1, <2>3, FedOther
  <2>5. Fed(Append(b, x[1]), x[2], n)
    BY <2>2, <2>4, Zenon
  <2>6. x[2] \in Readers
    BY <2>2, Zenon
  <2>7. x[2].next = r.next /\ r.next <= r.next
    BY <1>0, <2>2
  <2>8. r.next <= x[2].next
    BY <2>7, Zenon
  <2> QED BY <2>3, <2>5, <2>6, <2>8, Zenon
<1>2. CASE r.within = "event"
  <2> DEFINE q == Piece(r.next, TRUE)
  <2> DEFINE s == [next |-> r.next + 1, within |-> "none"]
  <2> DEFINE c == Append(b, q)
  <2>1. x[1] = q /\ x[2] = s
    <3>1. x = <<q, s>>
      BY <1>2, Zenon DEF NextPieces
    <3> QED BY <3>1
  <2>2. /\ q \in Pieces /\ q.newline /\ q.event = r.next /\ q.event # 0
        /\ s \in Readers /\ s.next = r.next + 1 /\ s.within = "none"
    <3>1. q \in Pieces /\ q.newline /\ q.event = r.next
      BY <1>0, <1>a
    <3>2. s \in Readers /\ s.next = r.next + 1 /\ s.within = "none"
      BY <1>0 DEF Readers
    <3> QED BY <1>0, <3>1, <3>2
  <2> HIDE DEF q, s
  <2>3. b \in Seq(Pieces)
    BY DEF Fed
  <2>4. /\ c \in Seq(Pieces) /\ c # <<>> /\ Len(b) \in Nat /\ Len(c) = Len(b) + 1
        /\ DOMAIN b = 1 .. Len(b) /\ c[Len(b) + 1] = q
        /\ \A k \in 1 .. Len(b) : c[k] = b[k]
        /\ \A k \in EventEnds(b) : WholeAt(b, k) => WholeAt(c, k)
    BY <2>2, <2>3, AppendedPiece
  <2>5. EventEnds(c) = EventEnds(b) \cup {Len(b) + 1}
    BY <2>2, <2>3, AppendedPiece
  <2>6. EventEnds(b) \subseteq 1 .. Len(b)
    BY <2>4 DEF EventEnds
  <2> HIDE DEF c
  <2>7. WholeAt(c, Len(b) + 1)
    <3>1. /\ b # <<>> /\ b[Len(b)] = Piece(r.next, FALSE)
          /\ Len(b) > 1 => b[Len(b) - 1].newline
      BY <1>2 DEF Fed
    <3>2. Len(b) \in 1 .. Len(b)
      BY <2>3, <3>1
    <3>3. Len(b) > 1 => Len(b) - 1 \in 1 .. Len(b)
      BY <2>4
    <3> DEFINE k == Len(b) + 1
    <3>4. k \in Nat /\ k > 1 /\ k - 1 = Len(b) /\ k - 2 = Len(b) - 1
      BY <2>4, <3>2
    <3>5. c[k] = q
      BY <2>4
    <3> HIDE DEF k
    <3>6. c[k - 1] = b[Len(b)]
      BY <2>4, <3>2, <3>4
    <3>7. c[k - 1] = Piece(c[k].event, FALSE)
      BY <2>2, <3>1, <3>5, <3>6, Zenon
    <3>8. ASSUME k > 2 PROVE c[k - 2].newline
      <4>1. Len(b) > 1
        BY <2>4, <3>4, <3>8
      <4>2. c[k - 2] = b[Len(b) - 1]
        BY <2>4, <3>3, <3>4, <4>1
      <4> QED BY <3>1, <4>1, <4>2, Zenon
    <3>9. WholeAt(c, k)
      BY <3>4, <3>7, <3>8, Zenon DEF WholeAt
    <3> QED BY <3>9 DEF k
  <2>8. \A k \in EventEnds(b) : c[k].event = b[k].event /\ b[k].event \in n + 1 .. r.next - 1
    BY <2>4, <2>6 DEF Fed
  <2>9. \A k \in EventEnds(c) : WholeAt(c, k) /\ c[k].event \in n + 1 .. s.next - 1
    <3>1. \A k \in EventEnds(b) : WholeAt(c, k)
      BY <2>4 DEF Fed
    <3>2. n + 1 .. r.next - 1 \subseteq n + 1 .. s.next - 1 /\ r.next \in n + 1 .. s.next - 1
      BY <1>0, <2>2
    <3> QED BY <2>2, <2>4, <2>5, <2>7, <2>8, <3>1, <3>2
  <2>10. \A m \in n + 1 .. s.next - 1 : \E k \in EventEnds(c) : c[k].event = m
    <3> TAKE m \in n + 1 .. s.next - 1
    <3>1. CASE m = r.next
      BY <2>2, <2>4, <2>5, <3>1
    <3>2. CASE m # r.next
      <4>1. m \in n + 1 .. r.next - 1
        BY <1>0, <2>2, <3>2
      <4>2. PICK k \in EventEnds(b) : b[k].event = m
        BY <4>1 DEF Fed
      <4> QED BY <2>5, <2>8, <4>2
    <3> QED BY <3>1, <3>2
  <2>11. \A j, k \in EventEnds(c) : j < k => c[j].event < c[k].event
    <3> TAKE j, k \in EventEnds(c)
    <3> HAVE j < k
    <3>1. j \in EventEnds(b)
      BY <2>4, <2>5, <2>6
    <3>2. CASE k \in EventEnds(b)
      BY <2>8, <3>1, <3>2 DEF Fed
    <3>3. CASE k = Len(b) + 1
      BY <1>0, <2>2, <2>4, <2>8, <3>1, <3>3
    <3> QED BY <2>5, <3>2, <3>3
  <2>12. c[Len(c)].newline
    BY <2>2, <2>4
  <2>13. Fed(c, s, n)
    BY <2>2, <2>4, <2>9, <2>10, <2>11, <2>12 DEF Fed
  <2> QED BY <1>0, <2>1, <2>2, <2>13 DEF c
<1>3. CASE r.within = "none"
  <2>0. /\ x[1] \in {Piece(0, TRUE), Piece(0, FALSE), Piece(r.next, FALSE)}
        /\ x[1] = Piece(0, TRUE) => x[2] = r
        /\ x[1] = Piece(0, FALSE) => x[2] = [r EXCEPT !.within = "endless"]
        /\ x[1] = Piece(r.next, FALSE) => x[2] = [r EXCEPT !.within = "event"]
    <3>1. \/ x = <<Piece(0, TRUE), r>>
          \/ x = <<Piece(0, FALSE), [r EXCEPT !.within = "endless"]>>
          \/ x = <<Piece(r.next, FALSE), [r EXCEPT !.within = "event"]>>
      <4>1. NextPieces(r) \subseteq
                {<<Piece(0, TRUE), r>>, <<Piece(0, FALSE), [r EXCEPT !.within = "endless"]>>,
                 <<Piece(r.next, FALSE), [r EXCEPT !.within = "event"]>>}
        <5> DEFINE first == {<<Piece(r.next, FALSE), [r EXCEPT !.within = "event"]>>}
        <5> DEFINE junk == {<<Piece(0, TRUE), r>>,
                            <<Piece(0, FALSE), [r EXCEPT !.within = "endless"]>>}
        <5>1. NextPieces(r) = junk \cup (IF r.next > MaxEvents THEN {} ELSE first)
          BY <1>3 DEF NextPieces
        <5> QED BY <5>1
      <4> QED BY <4>1
    <3>2. /\ Piece(0, TRUE) # Piece(0, FALSE) /\ Piece(r.next, FALSE) # Piece(0, FALSE)
          /\ Piece(r.next, FALSE) # Piece(0, TRUE)
      BY <1>0 DEF Piece
    <3>3. CASE x = <<Piece(0, TRUE), r>>
      BY <3>2, <3>3
    <3>4. CASE x = <<Piece(0, FALSE), [r EXCEPT !.within = "endless"]>>
      BY <3>2, <3>4
    <3>5. CASE x = <<Piece(r.next, FALSE), [r EXCEPT !.within = "event"]>>
      BY <3>2, <3>5
    <3> QED BY <3>1, <3>3, <3>4, <3>5
  <2>1. b # <<>> => b[Len(b)].newline
    BY <1>3 DEF Fed
  <2>2. CASE x[1] = Piece(0, TRUE)
    <3>1. x[1] \in Pieces /\ x[1].newline /\ x[1].event = 0 /\ x[2] = r
      BY <1>a, <2>0, <2>2
    <3>2. Fed(Append(b, x[1]), r, n)
      BY <1>3, <3>1, FedOther
    <3> QED BY <1>0, <3>1, <3>2
  <2>3. CASE x[1] = Piece(0, FALSE)
    <3>1. x[1] \in Pieces /\ ~x[1].newline
      BY <1>0, <1>a, <2>3
    <3>2. x[2] \in Readers /\ x[2].next = r.next /\ x[2].within = "endless"
      BY <2>0, <2>3 DEF Readers
    <3>3. Fed(Append(b, x[1]), x[2], n)
      BY <3>1, <3>2, FedOther
    <3> QED BY <1>0, <3>1, <3>2, <3>3
  <2>4. CASE x[1] = Piece(r.next, FALSE)
    <3>1. x[1] \in Pieces /\ ~x[1].newline
      BY <1>0, <1>a, <2>4
    <3>2. x[2] \in Readers /\ x[2].next = r.next /\ x[2].within = "event"
      BY <2>0, <2>4 DEF Readers
    <3>3. Fed(Append(b, x[1]), x[2], n)
      BY <2>1, <2>4, <3>1, <3>2, FedOther
    <3> QED BY <1>0, <3>1, <3>2, <3>3
  <2> QED BY <2>0, <2>2, <2>3, <2>4
<1> QED BY <1>0, <1>1, <1>2, <1>3

\* A chunk of one or two pieces.
LEMMA FedChunk ==
    ASSUME NEW b, NEW r \in Readers, NEW n \in Nat, n < r.next, Fed(b, r, n),
           NEW c \in Chunks(r)
    PROVE  /\ c[2] \in Readers /\ r.next <= c[2].next
           /\ Fed(b \o c[1], c[2], n)
<1>0. b \in Seq(Pieces)
  BY DEF Fed
<1> DEFINE one == {<<<<x[1]>>, x[2]>> : x \in NextPieces(r)}
<1>1. ASSUME NEW d \in one
      PROVE  /\ d[1] \in Seq(Pieces) /\ d[2] \in Readers /\ r.next <= d[2].next
             /\ Fed(b \o d[1], d[2], n)
  <2>1. PICK x \in NextPieces(r) : d = <<<<x[1]>>, x[2]>>
    OBVIOUS
  <2>2. /\ x[1] \in Pieces /\ x[2] \in Readers /\ r.next <= x[2].next
        /\ Fed(Append(b, x[1]), x[2], n)
    BY FedPiece
  <2>3. d[1] = <<x[1]>> /\ d[2] = x[2]
    BY <2>1
  <2>4. b \o d[1] = Append(b, x[1]) /\ d[1] \in Seq(Pieces)
    BY <1>0, <2>2, <2>3
  <2> QED BY <2>2, <2>3, <2>4
<1>2. CASE c \in one
  BY <1>1, <1>2
<1>3. CASE c \notin one
  <2>1. PICK d \in one : c \in {<<Append(d[1], x[1]), x[2]>> : x \in NextPieces(d[2])}
    BY <1>3 DEF Chunks
  <2>2. /\ d[1] \in Seq(Pieces) /\ d[2] \in Readers /\ r.next <= d[2].next
        /\ Fed(b \o d[1], d[2], n)
    BY <1>1, <2>1
  <2> HIDE DEF one
  <2>3. PICK x \in NextPieces(d[2]) : c = <<Append(d[1], x[1]), x[2]>>
    BY <2>1
  <2>4. d[2].next \in Nat /\ r.next \in Nat /\ n < d[2].next
    BY <2>2 DEF Readers
  <2>5. /\ x[1] \in Pieces /\ x[2] \in Readers /\ d[2].next <= x[2].next
        /\ Fed(Append(b \o d[1], x[1]), x[2], n)
    BY <2>2, <2>4, FedPiece
  <2>6. c[1] = Append(d[1], x[1]) /\ c[2] = x[2]
    BY <2>3
  <2>7. b \o c[1] = Append(b \o d[1], x[1])
    BY <1>0, <2>2, <2>5, <2>6
  <2>8. r.next <= x[2].next
    BY <2>2, <2>4, <2>5 DEF Readers
  <2> QED BY <2>5, <2>6, <2>7, <2>8
<1> QED BY <1>2, <1>3

\* Without an end of a line in the buffer every event has been taken.
LEMMA FedNoLine ==
    ASSUME NEW b, NEW r \in Readers, NEW n \in Nat, Fed(b, r, n), n < r.next,
           \A k \in DOMAIN b : ~b[k].newline
    PROVE  n = r.next - 1
<1>1. EventEnds(b) = {}
  BY DEF EventEnds
<1>2. n + 1 .. r.next - 1 = {}
  BY <1>1 DEF Fed
<1>3. r.next \in Nat
  BY DEF Readers
<1> QED BY <1>2, <1>3

\* e is where the first line of b ends.
FirstLineEnd(b, e) ==
    e \in DOMAIN b /\ b[e].newline /\ \A j \in 1 .. e - 1 : ~b[j].newline

\* What is left when the first line is taken.
LEMMA RestOf ==
    ASSUME NEW b \in Seq(Pieces), NEW e, FirstLineEnd(b, e)
    PROVE  LET rest == SubSeq(b, e + 1, Len(b)) IN
           /\ e \in 1 .. Len(b) /\ Len(b) \in Nat /\ DOMAIN b = 1 .. Len(b)
           /\ rest \in Seq(Pieces) /\ Len(rest) = Len(b) - e
           /\ DOMAIN rest = 1 .. Len(b) - e
           /\ \A k \in 1 .. Len(b) - e : rest[k] = b[k + e]
           /\ \A k \in 1 .. Len(b) - e : k \in EventEnds(rest) <=> k + e \in EventEnds(b)
           /\ EventEnds(rest) \subseteq 1 .. Len(b) - e
           /\ \A k \in EventEnds(rest) : WholeAt(b, k + e) => WholeAt(rest, k)
<1> DEFINE rest == SubSeq(b, e + 1, Len(b))
<1>1. e \in 1 .. Len(b) /\ Len(b) \in Nat /\ DOMAIN b = 1 .. Len(b)
  <2>1. e \in DOMAIN b
    BY Zenon DEF FirstLineEnd
  <2> QED BY <2>1
<1>2. /\ rest \in Seq(Pieces) /\ Len(rest) = Len(b) - e
      /\ DOMAIN rest = 1 .. Len(b) - e
      /\ \A k \in 1 .. Len(b) - e : rest[k] = b[k + e]
  <2>1. b \in Seq(Pieces) /\ e \in Nat /\ Len(b) \in Nat /\ 1 <= e /\ e <= Len(b)
    BY <1>1
  <2>2. \A j \in e + 1 .. Len(b) : b[j] \in Pieces
    BY <2>1
  <2> HIDE DEF Pieces
  <2>3. rest \in Seq(Pieces)
    BY <2>1, <2>2
  <2>4. Len(rest) = Len(b) - e
    BY <2>1
  <2>5. DOMAIN rest = 1 .. Len(b) - e
    BY <2>3, <2>4
  <2>6. \A k \in 1 .. Len(b) - e : rest[k] = b[k + e]
    BY <2>1
  <2> QED BY <2>3, <2>4, <2>5, <2>6
<1> HIDE DEF rest
<1>3. \A k \in 1 .. Len(b) - e : k \in EventEnds(rest) <=> k + e \in EventEnds(b)
  <2> TAKE k \in 1 .. Len(b) - e
  <2>1. k \in DOMAIN rest /\ k + e \in DOMAIN b /\ rest[k] = b[k + e]
    BY <1>1, <1>2
  <2>2. k \in EventEnds(rest) <=> rest[k].newline /\ rest[k].event # 0
    BY <2>1, Zenon DEF EventEnds
  <2>3. k + e \in EventEnds(b) <=> b[k + e].newline /\ b[k + e].event # 0
    BY <2>1, Zenon DEF EventEnds
  <2> QED BY <2>1, <2>2, <2>3, Zenon
<1>4. EventEnds(rest) \subseteq 1 .. Len(b) - e
  BY <1>2 DEF EventEnds
<1>5. ASSUME NEW k \in EventEnds(rest), WholeAt(b, k + e) PROVE WholeAt(rest, k)
  <2>1. k \in 1 .. Len(b) - e /\ rest[k] = b[k + e]
    BY <1>2, <1>4
  <2> DEFINE m == k + e
  <2>2. m \in Nat /\ m > 1 /\ k = m - e /\ e \in Nat
    BY <1>1, <2>1
  <2> HIDE DEF m
  <2>3. /\ b[m - 1] = Piece(b[m].event, FALSE)
        /\ m > 2 => b[m - 2].newline
    BY <1>5, Zenon DEF WholeAt, m
  <2>4. k > 1
    <3> SUFFICES ASSUME k = 1 PROVE FALSE
      BY <2>1
    <3>1. m - 1 = e
      BY <2>2
    <3>2. ~b[e].newline
      BY <2>3, <3>1 DEF Piece
    <3> QED BY <3>2 DEF FirstLineEnd
  <2>5. k - 1 \in 1 .. Len(b) - e /\ k - 1 + e = m - 1
    BY <1>1, <2>1, <2>2, <2>4
  <2>6. rest[k - 1] = b[m - 1] /\ rest[k] = b[m]
    BY <1>2, <2>1, <2>5 DEF m
  <2>7. ASSUME k > 2 PROVE rest[k - 2].newline
    <3>1. k - 2 \in 1 .. Len(b) - e /\ k - 2 + e = m - 2 /\ m > 2
      BY <1>1, <2>1, <2>2, <2>7
    <3>2. rest[k - 2] = b[m - 2]
      BY <1>2, <3>1
    <3> QED BY <2>3, <3>1, <3>2, Zenon
  <2>8. rest[k - 1] = Piece(rest[k].event, FALSE)
    BY <2>3, <2>6, Zenon
  <2> QED BY <2>4, <2>7, <2>8, Zenon DEF WholeAt
<1> QED BY <1>1, <1>2, <1>3, <1>4, <1>5 DEF rest

\* Taking a line takes the next event, if the line is one.
LEMMA FedTaken ==
    ASSUME NEW b, NEW r \in Readers, NEW n \in Nat, n < r.next, Fed(b, r, n),
           NEW e, FirstLineEnd(b, e)
    PROVE  LET rest == SubSeq(b, e + 1, Len(b)) IN
           IF e \in EventEnds(b)
           THEN /\ e = 2 /\ b[1] = Piece(n + 1, FALSE) /\ b[2].event = n + 1
                /\ n + 1 < r.next /\ Fed(rest, r, n + 1)
           ELSE Fed(rest, r, n)
<1> DEFINE rest == SubSeq(b, e + 1, Len(b))
<1>0. b \in Seq(Pieces) /\ r.next \in Nat
  BY DEF Fed, Readers
<1>1. /\ e \in 1 .. Len(b) /\ Len(b) \in Nat /\ DOMAIN b = 1 .. Len(b)
      /\ rest \in Seq(Pieces) /\ Len(rest) = Len(b) - e
      /\ DOMAIN rest = 1 .. Len(b) - e
      /\ \A k \in 1 .. Len(b) - e : rest[k] = b[k + e]
      /\ \A k \in 1 .. Len(b) - e : k \in EventEnds(rest) <=> k + e \in EventEnds(b)
      /\ EventEnds(rest) \subseteq 1 .. Len(b) - e
      /\ \A k \in EventEnds(rest) : WholeAt(b, k + e) => WholeAt(rest, k)
  BY <1>0, RestOf
<1> HIDE DEF rest
<1>2. \A k \in EventEnds(b) : k >= e
  <2> TAKE k \in EventEnds(b)
  <2>1. k \in 1 .. Len(b) /\ b[k].newline
    BY <1>1 DEF EventEnds
  <2>2. k \notin 1 .. e - 1
    BY <2>1 DEF FirstLineEnd
  <2> QED BY <1>1, <2>1, <2>2
<1>3. \A k \in EventEnds(b) : k # e => k - e \in EventEnds(rest) /\ rest[k - e] = b[k]
  <2> TAKE k \in EventEnds(b)
  <2> HAVE k # e
  <2>1. k \in 1 .. Len(b) /\ k > e
    BY <1>1, <1>2 DEF EventEnds
  <2>2. k - e \in 1 .. Len(b) - e /\ k - e + e = k
    BY <1>1, <2>1
  <2> QED BY <1>1, <2>2
<1>4. \A k \in EventEnds(rest) :
          k + e \in EventEnds(b) /\ k + e # e /\ rest[k] = b[k + e] /\ WholeAt(rest, k)
  <2> TAKE k \in EventEnds(rest)
  <2>1. k \in 1 .. Len(b) - e
    BY <1>1
  <2>2. k + e \in EventEnds(b) /\ rest[k] = b[k + e] /\ k + e # e
    BY <1>1, <2>1
  <2>3. WholeAt(b, k + e)
    BY <2>2 DEF Fed
  <2> QED BY <1>1, <2>2, <2>3
<1>5. \A j, k \in EventEnds(rest) : j < k => rest[j].event < rest[k].event
  <2> TAKE j, k \in EventEnds(rest)
  <2> HAVE j < k
  <2>1. j + e < k + e
    BY <1>1
  <2> QED BY <1>4, <2>1 DEF Fed
<1>6. r.within = "none" /\ rest # <<>> => rest[Len(rest)].newline
  <2> SUFFICES ASSUME r.within = "none", rest # <<>> PROVE rest[Len(rest)].newline
    OBVIOUS
  <2>1. Len(b) - e \in 1 .. Len(b) - e /\ Len(b) - e + e = Len(b) /\ b # <<>>
    BY <1>0, <1>1
  <2>2. rest[Len(rest)] = b[Len(b)]
    BY <1>1, <2>1
  <2>3. b[Len(b)].newline
    BY <2>1 DEF Fed
  <2> QED BY <2>2, <2>3, Zenon
<1>7. r.within = "event" =>
          /\ rest # <<>> /\ rest[Len(rest)] = Piece(r.next, FALSE)
          /\ Len(rest) > 1 => rest[Len(rest) - 1].newline
  <2> SUFFICES ASSUME r.within = "event"
               PROVE  /\ rest # <<>> /\ rest[Len(rest)] = Piece(r.next, FALSE)
                      /\ Len(rest) > 1 => rest[Len(rest) - 1].newline
    OBVIOUS
  <2>1. /\ b # <<>> /\ b[Len(b)] = Piece(r.next, FALSE)
        /\ Len(b) > 1 => b[Len(b) - 1].newline
    BY DEF Fed
  <2>2. e # Len(b)
    <3>1. b[e].newline
      BY Zenon DEF FirstLineEnd
    <3>2. ~Piece(r.next, FALSE).newline
      BY DEF Piece
    <3> QED BY <2>1, <3>1, <3>2, Zenon
  <2>3. Len(b) - e \in 1 .. Len(b) - e /\ Len(b) - e + e = Len(b)
    <3>1. e \in 1 .. Len(b) /\ Len(b) \in Nat
      BY <1>1, Zenon
    <3> QED BY <2>2, <3>1
  <2>4. rest[Len(rest)] = b[Len(b)] /\ rest # <<>>
    BY <1>1, <2>3
  <2>5. ASSUME Len(rest) > 1 PROVE rest[Len(rest) - 1].newline
    <3>1. Len(rest) - 1 \in 1 .. Len(b) - e /\ Len(rest) - 1 + e = Len(b) - 1 /\ Len(b) > 1
      BY <1>1, <2>5
    <3>2. rest[Len(rest) - 1] = b[Len(b) - 1]
      BY <1>1, <3>1
    <3> QED BY <2>1, <3>1, <3>2, Zenon
  <2> QED BY <2>1, <2>4, <2>5, Zenon
<1>8. CASE e \in EventEnds(b)
  <2>1. WholeAt(b, e) /\ b[e].event \in n + 1 .. r.next - 1
    BY <1>8 DEF Fed
  <2>2. e = 2
    <3>1. e \in Nat /\ e > 1 /\ (e > 2 => b[e - 2].newline)
      BY <1>1, <2>1 DEF WholeAt
    <3>2. e > 2 => e - 2 \in 1 .. e - 1
      BY <1>1
    <3>3. ~(e > 2)
      BY <3>1, <3>2 DEF FirstLineEnd
    <3> QED BY <3>1, <3>3
  <2>3. b[e].event = n + 1
    <3>1. n + 1 \in n + 1 .. r.next - 1
      BY <1>0, <2>1
    <3>2. PICK k \in EventEnds(b) : b[k].event = n + 1
      BY <3>1 DEF Fed
    <3>3. k > e => b[e].event < b[k].event
      BY <1>8, <3>2 DEF Fed
    <3>4. k >= e /\ k \in Nat /\ e \in Nat
      BY <1>1, <1>2 DEF EventEnds
    <3>5. ~(k > e)
      BY <2>1, <3>2, <3>3
    <3>6. k = e
      BY <3>4, <3>5
    <3> QED BY <3>2, <3>6
  <2>4. b[1] = Piece(n + 1, FALSE)
    <3>1. b[e - 1] = Piece(b[e].event, FALSE)
      BY <2>1, Zenon DEF WholeAt
    <3>2. e - 1 = 1
      BY <2>2
    <3> QED BY <2>3, <3>1, <3>2
  <2>5. n + 1 < r.next
    BY <1>0, <2>1
  <2>6. \A k \in EventEnds(rest) : rest[k].event \in n + 2 .. r.next - 1
    <3> TAKE k \in EventEnds(rest)
    <3>1. e < k + e
      BY <1>1
    <3>2. b[e].event < b[k + e].event /\ b[k + e].event \in n + 1 .. r.next - 1
      BY <1>4, <1>8, <3>1 DEF Fed
    <3>3. rest[k] = b[k + e]
      BY <1>4
    <3> QED BY <2>3, <3>2, <3>3
  <2>7. \A m \in n + 2 .. r.next - 1 : \E k \in EventEnds(rest) : rest[k].event = m
    <3> TAKE m \in n + 2 .. r.next - 1
    <3>1. m \in n + 1 .. r.next - 1 /\ m # n + 1
      OBVIOUS
    <3>2. PICK k \in EventEnds(b) : b[k].event = m
      BY <3>1 DEF Fed
    <3> QED BY <1>3, <2>3, <3>1, <3>2
  <2>8. n + 1 + 1 = n + 2
    OBVIOUS
  <2>9. Fed(rest, r, n + 1)
    BY <1>1, <1>4, <1>5, <1>6, <1>7, <2>6, <2>7, <2>8 DEF Fed
  <2> QED BY <1>8, <2>2, <2>3, <2>4, <2>5, <2>9 DEF rest
<1>9. CASE e \notin EventEnds(b)
  <2>1. \A k \in EventEnds(rest) : rest[k].event \in n + 1 .. r.next - 1
    BY <1>4 DEF Fed
  <2>2. \A m \in n + 1 .. r.next - 1 : \E k \in EventEnds(rest) : rest[k].event = m
    <3> TAKE m \in n + 1 .. r.next - 1
    <3>1. PICK k \in EventEnds(b) : b[k].event = m
      BY DEF Fed
    <3> QED BY <1>3, <1>9, <3>1
  <2>3. Fed(rest, r, n)
    BY <1>1, <1>4, <1>5, <1>6, <1>7, <2>1, <2>2 DEF Fed
  <2> QED BY <1>9, <2>3 DEF rest
<1> QED BY <1>8, <1>9

LEMMA StreamInvInit == ReaderInit => StreamInv
  BY DEF ReaderInit, Init, StreamInv, Readers

\* What the invariant says of the stream.
LEMMA StreamInvTypes ==
    ASSUME StreamInv
    PROVE  /\ reader \in Readers /\ reader.next \in Nat \ {0} /\ whole \in Nat
           /\ handled \in Nat /\ channel \in Seq(Nat) /\ Len(channel) \in Nat
           /\ handled + Len(channel) \in Nat /\ handled + Len(channel) < reader.next
<1>1. /\ reader \in Readers /\ handled \in Nat /\ channel \in Seq(Nat)
      /\ whole = reader.next - 1 /\ handled + Len(channel) <= whole
  BY DEF StreamInv
<1>2. reader.next \in Nat \ {0} /\ Len(channel) \in Nat
  BY <1>1 DEF Readers
<1> QED BY <1>1, <1>2

\* The connection is gone and the buffer holds no event.
LEMMA StreamLost ==
    ASSUME StreamInv, link # "streaming",
           UNCHANGED <<channel, handled, misread, reader, whole>>, link' # "streaming"
    PROVE  StreamInv'
  BY DEF StreamInv

LEMMA ReceiveKeeps == ASSUME StreamInv, ReceiveChunk PROVE StreamInv'
<1>1. PICK c \in Chunks(reader) : buffer' = buffer \o c[1] /\ reader' = c[2]
  BY DEF ReceiveChunk
<1>2. /\ link = "streaming" /\ whole' = reader'.next - 1
      /\ channel' = channel /\ handled' = handled /\ misread' = misread
      /\ link' = IF Len(buffer') > MaxLine /\ ~HasLine' THEN "backoff" ELSE "streaming"
  BY DEF ReceiveChunk
<1> DEFINE n == handled + Len(channel)
<1>3. Fed(buffer, reader, n) /\ reader \in Readers /\ n \in Nat /\ n < reader.next
  BY <1>2, StreamInvTypes DEF StreamInv
<1>4. c[2] \in Readers /\ reader.next <= c[2].next /\ Fed(buffer \o c[1], c[2], n)
  BY <1>3, FedChunk
<1>5. reader' \in Readers /\ reader.next <= reader'.next /\ Fed(buffer', reader', n)
  BY <1>1, <1>4
<1>6. n' = n
  BY <1>2
<1>7. reader'.next \in Nat /\ reader.next \in Nat
  BY <1>3, <1>5 DEF Readers
<1> HIDE DEF n
<1>8. n <= whole' /\ n < reader'.next
  BY <1>2, <1>3, <1>5, <1>7
<1>9. link' # "streaming" => n = whole'
  <2> SUFFICES ASSUME link' # "streaming" PROVE n = whole'
    OBVIOUS
  <2>1. ~HasLine'
    BY <1>2
  <2>2. \A k \in DOMAIN buffer' : ~buffer'[k].newline
    BY <2>1 DEF HasLine
  <2> QED BY <1>2, <1>3, <1>5, <1>8, <2>2, FedNoLine
<1> QED BY <1>2, <1>5, <1>6, <1>8, <1>9 DEF StreamInv, n

LEMMA StreamFailsKeeps == ASSUME StreamInv, StreamFails PROVE StreamInv'
<1> DEFINE n == handled + Len(channel)
<1>1. /\ link = "streaming" /\ link' = "backoff" /\ ~HasLine
      /\ UNCHANGED <<channel, handled, misread, reader, whole>>
  BY DEF StreamFails
<1>2. Fed(buffer, reader, n) /\ reader \in Readers /\ n \in Nat /\ n < reader.next
  BY <1>1, StreamInvTypes DEF StreamInv
<1>3. n = reader.next - 1
  BY <1>1, <1>2, FedNoLine DEF HasLine
<1> QED BY <1>1, <1>3 DEF StreamInv

LEMMA LeastNatural ==
    ASSUME NEW S \in SUBSET Nat, S # {}
    PROVE  \E k \in S : \A m \in S : k <= m
<1> DEFINE Less == OpToRel(<, Nat)
<1>1. PICK k \in S : \A m \in S : ~(<<m, k>> \in Less)
  BY NatLessThanWellFounded, WFMin
<1>2. \A m \in S : ~(m < k)
  BY <1>1 DEF OpToRel
<1> QED BY <1>2

LEMMA TakeKeeps == ASSUME StreamInv, TakeLine PROVE StreamInv'
<1> DEFINE n == handled + Len(channel)
<1> DEFINE e == LineEnd
<1>1. /\ link = "streaming" /\ HasLine
      /\ UNCHANGED <<link, handled, misread, reader, whole>>
      /\ buffer' = SubSeq(buffer, e + 1, Len(buffer))
      /\ channel' = IF IsEvent(Line) THEN Append(channel, Line[1].event) ELSE channel
  BY DEF TakeLine
<1>2. /\ Fed(buffer, reader, n) /\ reader \in Readers /\ n \in Nat /\ n < reader.next
      /\ handled \in Nat /\ channel \in Seq(Nat) /\ Len(channel) \in Nat
      /\ reader.next \in Nat \ {0} /\ whole = reader.next - 1
  BY <1>1, StreamInvTypes DEF StreamInv
<1>3. buffer \in Seq(Pieces)
  BY <1>2 DEF Fed
<1>4. FirstLineEnd(buffer, e)
  <2> DEFINE S == {k \in DOMAIN buffer : buffer[k].newline}
  <2>1. S \in SUBSET Nat /\ S # {}
    BY <1>1, <1>3 DEF HasLine
  <2>2. PICK k \in S : \A m \in S : k <= m
    BY <2>1, LeastNatural
  <2>3. k \in DOMAIN buffer /\ buffer[k].newline /\ DOMAIN buffer = 1 .. Len(buffer)
    BY <1>3, <2>2
  <2>4. \A j \in 1 .. k - 1 : ~buffer[j].newline
    <3> TAKE j \in 1 .. k - 1
    <3>1. j \in DOMAIN buffer /\ ~(k <= j)
      BY <1>3, <2>3
    <3> QED BY <2>2, <3>1
  <2>5. \E i \in DOMAIN buffer :
            buffer[i].newline /\ \A j \in 1 .. i - 1 : ~buffer[j].newline
    BY <2>3, <2>4
  <2> QED BY <2>5, Zenon DEF FirstLineEnd, LineEnd
<1> HIDE DEF e
<1>5. /\ e \in 1 .. Len(buffer) /\ Len(buffer) \in Nat /\ DOMAIN buffer = 1 .. Len(buffer)
      /\ buffer[e].newline
  <2>1. e \in DOMAIN buffer /\ buffer[e].newline
    BY <1>4, Zenon DEF FirstLineEnd
  <2> QED BY <1>3, <2>1
<1>6. Len(Line) = e /\ \A k \in 1 .. e : Line[k] = buffer[k]
  BY <1>3, <1>5 DEF Line, e
<1>7. IF e \in EventEnds(buffer)
      THEN /\ e = 2 /\ buffer[1] = Piece(n + 1, FALSE) /\ buffer[2].event = n + 1
           /\ n + 1 < reader.next /\ Fed(buffer', reader, n + 1)
      ELSE Fed(buffer', reader, n)
  BY <1>1, <1>2, <1>4, FedTaken
<1> HIDE DEF n
<1>8. CASE e \in EventEnds(buffer)
  <2>1. /\ e = 2 /\ buffer[1] = Piece(n + 1, FALSE) /\ buffer[2].event = n + 1
        /\ n + 1 < reader.next /\ Fed(buffer', reader, n + 1)
    BY <1>7, <1>8
  <2>2. Line[1].event = n + 1 /\ Line[2].event = n + 1 /\ Len(Line) = 2
    <3>1. buffer[1].event = n + 1
      BY <2>1 DEF Piece
    <3>2. 1 \in 1 .. e /\ 2 \in 1 .. e
      BY <2>1
    <3>3. Line[1] = buffer[1] /\ Line[2] = buffer[2] /\ Len(Line) = 2
      BY <1>6, <2>1, <3>2, Zenon
    <3> QED BY <2>1, <3>1, <3>3, Zenon
  <2>3. IsEvent(Line)
    BY <1>2, <2>2 DEF IsEvent
  <2>4. channel' = Append(channel, n + 1)
    BY <1>1, <2>2, <2>3
  <2>5. /\ channel' \in Seq(Nat) /\ Len(channel') = Len(channel) + 1
        /\ DOMAIN channel' = 1 .. Len(channel) + 1 /\ channel'[Len(channel) + 1] = n + 1
        /\ \A k \in 1 .. Len(channel) : channel'[k] = channel[k]
    BY <1>2, <2>4
  <2>6. \A k \in DOMAIN channel' : channel'[k] = handled + k
    <3> TAKE k \in DOMAIN channel'
    <3>1. CASE k \in 1 .. Len(channel)
      <4>1. channel'[k] = channel[k]
        BY <2>5, <3>1, Zenon
      <4>2. k \in DOMAIN channel
        BY <1>2, <3>1
      <4>3. channel[k] = handled + k
        BY <4>2, Zenon DEF StreamInv
      <4> QED BY <4>1, <4>3
    <3>2. CASE k = Len(channel) + 1
      <4>1. channel'[k] = n + 1
        BY <2>5, <3>2, Zenon
      <4>2. n + 1 = handled + k
        BY <1>2, <3>2 DEF n
      <4> QED BY <4>1, <4>2
    <3> QED BY <1>2, <2>5, <3>1, <3>2
  <2>7. handled + Len(channel') = n + 1
    BY <1>2, <2>5 DEF n
  <2>8. n + 1 <= whole
    BY <1>2, <2>1
  <2> QED BY <1>1, <2>1, <2>5, <2>6, <2>7, <2>8 DEF StreamInv
<1>9. CASE e \notin EventEnds(buffer)
  <2>1. ~IsEvent(Line)
    <3> SUFFICES ASSUME IsEvent(Line) PROVE FALSE
      OBVIOUS
    <3>1. e = 2 /\ Line[1].event = Line[2].event /\ Line[1].event # 0
      BY <1>6 DEF IsEvent
    <3>2. Line[2] = buffer[e]
      BY <1>6, <3>1
    <3>3. buffer[e].event # 0
      BY <3>1, <3>2
    <3>4. e \in DOMAIN buffer
      BY <1>5
    <3> QED BY <1>5, <1>9, <3>3, <3>4, Zenon DEF EventEnds
  <2>2. channel' = channel
    BY <1>1, <2>1
  <2>3. Fed(buffer', reader, n)
    BY <1>7, <1>9
  <2> QED BY <1>1, <2>2, <2>3 DEF StreamInv, n
<1> QED BY <1>8, <1>9

LEMMA HandleKeeps == ASSUME StreamInv, HandleEvent PROVE StreamInv'
<1>1. /\ channel # <<>> /\ channel' = Tail(channel) /\ handled' = Head(channel)
      /\ misread' = (misread \/ Head(channel) # handled + 1)
      /\ UNCHANGED <<link, buffer, reader, whole>>
  BY DEF HandleEvent
<1>2. handled \in Nat /\ channel \in Seq(Nat) /\ \A k \in DOMAIN channel : channel[k] = handled + k
  BY DEF StreamInv
<1>3. /\ Len(channel) \in Nat \ {0} /\ DOMAIN channel = 1 .. Len(channel)
      /\ Head(channel) = channel[1] /\ Tail(channel) \in Seq(Nat)
      /\ Len(Tail(channel)) = Len(channel) - 1
      /\ DOMAIN Tail(channel) = 1 .. Len(channel) - 1
      /\ \A k \in 1 .. Len(channel) - 1 : Tail(channel)[k] = channel[k + 1]
  BY <1>1, <1>2
<1>4. Head(channel) = handled + 1
  BY <1>2, <1>3
<1>5. ~misread'
  BY <1>1, <1>4, Zenon DEF StreamInv
<1>6. \A k \in DOMAIN channel' : channel'[k] = handled' + k
  <2> TAKE k \in DOMAIN channel'
  <2>1. k \in 1 .. Len(channel) - 1 /\ k + 1 \in DOMAIN channel
    BY <1>1, <1>3
  <2>2. channel'[k] = handled + (k + 1)
    BY <1>1, <1>2, <1>3, <2>1
  <2> QED BY <1>1, <1>2, <1>4, <2>1, <2>2
<1>7. handled' + Len(channel') = handled + Len(channel) /\ handled' \in Nat
  BY <1>1, <1>2, <1>3, <1>4
<1>8. channel' \in Seq(Nat)
  BY <1>1, <1>3
<1> QED BY <1>1, <1>5, <1>6, <1>7, <1>8 DEF StreamInv
\* The headers of a response arrive: an empty buffer, and no event under way.
LEMMA OpenKeeps == ASSUME StreamInv, OpenStream PROVE StreamInv'
<1> DEFINE n == handled + Len(channel)
<1>1. /\ link # "streaming" /\ link' = "streaming" /\ buffer' = <<>>
      /\ reader' = [reader EXCEPT !.within = "none"]
      /\ UNCHANGED <<channel, handled, misread, whole>>
  BY DEF OpenStream
<1>2. reader \in Readers /\ reader.next \in Nat \ {0} /\ n \in Nat
  BY StreamInvTypes
<1>3. n = reader.next - 1
  BY <1>1 DEF StreamInv
<1>4. reader' \in Readers /\ reader'.next = reader.next /\ reader'.within = "none"
  BY <1>1, <1>2 DEF Readers
<1>5. Fed(buffer', reader', n)
  <2>1. buffer' = <<>> /\ EventEnds(buffer') = {} /\ buffer' \in Seq(Pieces)
    BY <1>1 DEF EventEnds
  <2>2. n + 1 .. reader'.next - 1 = {}
    BY <1>2, <1>3, <1>4
  <2> QED BY <1>4, <2>1, <2>2 DEF Fed
<1> QED BY <1>1, <1>3, <1>4, <1>5 DEF StreamInv

\* The process ends: counting starts again behind what came.
LEMMA EndKeeps == ASSUME StreamInv, ProcessEnds PROVE StreamInv'
<1>1. /\ link' = "dialing" /\ channel' = <<>> /\ handled' = whole
      /\ UNCHANGED <<misread, reader, whole>>
  BY DEF ProcessEnds
<1>2. reader \in Readers /\ whole \in Nat /\ ~misread /\ whole = reader.next - 1
  BY StreamInvTypes DEF StreamInv
<1> QED BY <1>1, <1>2 DEF StreamInv

LEMMA StreamInvNext == StreamInv /\ [ReaderNext]_readerVars => StreamInv'
<1> SUFFICES ASSUME StreamInv, [ReaderNext]_readerVars PROVE StreamInv'
  OBVIOUS
<1>1. CASE UNCHANGED vars
  BY <1>1 DEF StreamInv, vars
<1>2. CASE DialSucceeds \/ DialFails \/ RequestFails \/ Retry
  BY <1>2, StreamLost DEF DialSucceeds, DialFails, RequestFails, Retry
<1>3. CASE Tick
  BY <1>3 DEF StreamInv, Tick
<1> QED BY <1>1, <1>2, <1>3, OpenKeeps, ReceiveKeeps, TakeKeeps, StreamFailsKeeps,
           HandleKeeps, EndKeeps
        DEF ReaderNext, readerVars, Streaming, Checking

\* As many events end in the buffer as came whole and were not taken.
LEMMA FedCount ==
    ASSUME NEW b, NEW r \in Readers, NEW n \in Nat, n < r.next, Fed(b, r, n)
    PROVE  Cardinality(EventEnds(b)) = r.next - 1 - n
<1> DEFINE E == EventEnds(b)
           M == n + 1 .. r.next - 1
           event == [k \in E |-> b[k].event]
<1>1. b \in Seq(Pieces) /\ r.next \in Nat
  BY DEF Fed, Readers
<1>2. E \subseteq 1 .. Len(b) /\ Len(b) \in Nat
  BY <1>1 DEF EventEnds
<1>3. IsFiniteSet(E)
  <2>1. IsFiniteSet(1 .. Len(b))
    <3>1. 1 \in Int /\ Len(b) \in Int
      BY <1>2
    <3> QED BY <3>1, FS_Interval, Zenon
  <2> QED BY <1>2, <2>1, FS_Subset, Zenon
<1>4. event \in Bijection(E, M)
  <2>1. event \in [E -> M]
    BY DEF Fed
  <2>2. \A m \in M : \E k \in E : event[k] = m
    BY DEF Fed
  <2>3. ASSUME NEW j \in E, NEW k \in E, event[j] = event[k] PROVE j = k
    <3>1. event[j] \in Nat /\ event[j] = b[j].event /\ event[k] = b[k].event
      BY <1>1, <2>1
    <3>2. ~(j < k) /\ ~(k < j)
      BY <2>3, <3>1 DEF Fed
    <3> QED BY <1>2, <3>2
  <2> HIDE DEF E, M, event
  <2>4. event \in Injection(E, M)
    BY <2>1, <2>3 DEF Injection, IsInjective
  <2>5. event \in Surjection(E, M)
    BY <2>1, <2>2 DEF Surjection
  <2> QED BY <2>4, <2>5 DEF Bijection
<1>5. Cardinality(E) = Cardinality(M)
  <2>1. ExistsBijection(E, M)
    BY <1>4, Zenon DEF ExistsBijection
  <2> QED BY <1>3, <2>1, FS_Bijection, Zenon
<1>6. Cardinality(M) = r.next - 1 - n
  <2>1. n + 1 \in Int /\ r.next - 1 \in Int
    BY <1>1
  <2>2. Cardinality(M) = IF n + 1 > r.next - 1 THEN 0 ELSE r.next - 1 - (n + 1) + 1
    BY <2>1, FS_Interval, Zenon
  <2> QED BY <1>1, <2>2
<1> QED BY <1>5, <1>6

LEMMA StreamInvImplies == StreamInv => WholeLinesAreHandled
<1> SUFFICES ASSUME StreamInv PROVE WholeLinesAreHandled
  OBVIOUS
<1> DEFINE n == handled + Len(channel)
<1>1. /\ reader \in Readers /\ reader.next \in Nat \ {0} /\ n \in Nat /\ n < reader.next
      /\ whole = reader.next - 1 /\ whole \in Nat
  BY StreamInvTypes DEF StreamInv
<1>2. CASE link = "streaming"
  <2>1. Cardinality(EventEnds(buffer)) = reader.next - 1 - n
    BY <1>1, <1>2, FedCount DEF StreamInv
  <2>2. n + Cardinality(EventEnds(buffer)) = whole
    BY <1>1, <2>1
  <2> QED BY <1>2, <2>2 DEF WholeLinesAreHandled, StreamInv, EventEnds
<1>3. CASE link # "streaming"
  <2>1. n + 0 = whole
    BY <1>1, <1>3 DEF StreamInv
  <2> QED BY <1>3, <2>1 DEF WholeLinesAreHandled, StreamInv
<1> QED BY <1>2, <1>3

\* Of stream_once, the channel and run()'s loop: whatever the sizes of the line
\* buffer, the channel and the chunks, and wherever a connection breaks, every
\* event that came whole is handed on once and in order.
THEOREM WholeLinesHandled == ReaderSpec => []WholeLinesAreHandled
<1>1. ReaderSpec => []StreamInv
  BY StreamInvInit, StreamInvNext, PTL DEF ReaderSpec
<1> QED BY <1>1, StreamInvImplies, PTL
=============================================================================
