--------------------------- MODULE DiscoveryProofs ---------------------------
(***************************************************************************)
(* Theorems about discovery on either side of the store.                   *)
(*                                                                         *)
(* LprMatching, passages into matches, for any log, page and window: a     *)
(* lookup is one pass over the log (OnePass); neighbouring hits commute up *)
(* to values that differ in no verdict (Alike), so the order is no matter; *)
(* and what a scan has kept tells what it has been over (Told).  The       *)
(* inductive invariant MatchInv carries that from the lookup to the store, *)
(* past the shared reply.  What a scan does to a log of any length is      *)
(* proved by induction, from the least element of a set of naturals.       *)
(*                                                                         *)
(* Intake, reports into passages, for any wait, throttle and gap: IntakeInv*)
(* bounds how far a tag's current passage is behind what the reader has    *)
(* reported of it (UpToDate).  A passage that is opened all the same has a *)
(* moment before it at which the tag was not reported.                     *)
(***************************************************************************)
EXTENDS LprMatching, Intake, PassageLogProofs, SequenceTheorems,
        FiniteSetTheorems, WellFoundedInduction

\* The induction theorems of the library take an operator; this one a set.
Less == {ss \in Nat \X Nat : ss[1] < ss[2]}

LEMMA LeastElement ==
    ASSUME NEW S \in SUBSET Nat, S # {}
    PROVE  \E n \in S : \A m \in S : n <= m
<1>1. IsWellFoundedOn(Less, Nat)
  BY NatLessThanWellFounded DEF OpToRel, Less
<1>2. PICK n \in S : \A m \in S : ~(<<m, n>> \in Less)
  BY <1>1, WFMin
<1>3. \A m \in S : ~(m < n)
  BY <1>2 DEF Less
<1> QED BY <1>3

LEMMA SetInduction ==
    ASSUME NEW S, 0 \in S, \A n \in Nat : n \in S => n + 1 \in S
    PROVE  \A n \in Nat : n \in S
<1> SUFFICES ASSUME Nat \ S # {} PROVE FALSE
  OBVIOUS
<1>1. PICK n \in Nat \ S : \A m \in Nat \ S : n <= m
  BY LeastElement
<1>2. n # 0 /\ n - 1 \in Nat /\ (n - 1) + 1 = n
  BY <1>1
<1>3. n - 1 \in S
  BY <1>1, <1>2
<1> QED BY <1>1, <1>2, <1>3

-----------------------------------------------------------------------------
(* The recursive functions of Scan and Asked are what they say.            *)

LEMMA ScanIsFunction ==
    ASSUME NEW hits, NEW w, Len(hits) \in Nat
    PROVE  \E f : /\ f = [k \in 0 .. Len(hits) |->
                             IF k = 0 THEN Blank ELSE ScanHit(f[k - 1], hits[k], w)]
                  /\ Scan(hits, w) = f[Len(hits)]
<1> DEFINE Turn(g, k) == IF k = 0 THEN Blank ELSE ScanHit(g[k - 1], hits[k], w)
           S == {n \in Nat : \E g : g = [k \in 0 .. n |-> Turn(g, k)]}
<1>1. 0 \in S
  <2> DEFINE f == [k \in 0 .. 0 |-> Blank]
  <2>1. f = [k \in 0 .. 0 |-> Turn(f, k)]
    OBVIOUS
  <2> QED BY <2>1
<1>2. ASSUME NEW n \in Nat, n \in S PROVE n + 1 \in S
  <2>1. PICK f : f = [k \in 0 .. n |-> Turn(f, k)]
    BY <1>2
  <2> DEFINE g == [k \in 0 .. n + 1 |-> Turn(f, k)]
  <2>2. \A k \in 0 .. n : g[k] = f[k]
    <3> HIDE DEF Turn
    <3> QED BY <2>1
  <2>3. \A k \in 0 .. n + 1 : Turn(g, k) = Turn(f, k)
    <3> HIDE DEF g
    <3>1. \A k \in 0 .. n + 1 : k # 0 => k - 1 \in 0 .. n
      OBVIOUS
    <3> QED BY <2>2, <3>1
  <2>4. g = [k \in 0 .. n + 1 |-> Turn(g, k)]
    <3> HIDE DEF Turn
    <3> QED BY <2>3
  <2> HIDE DEF g
  <2> QED BY <2>4
<1> HIDE DEF S
<1>3. \A n \in Nat : n \in S
  BY <1>1, <1>2, SetInduction
<1>4. Len(hits) \in S
  BY <1>3
<1>5. \E f : f = [k \in 0 .. Len(hits) |-> Turn(f, k)]
  <2> HIDE DEF Turn
  <2> QED BY <1>4 DEF S
<1> DEFINE scanned[k \in 0 .. Len(hits)] ==
               IF k = 0 THEN Blank ELSE ScanHit(scanned[k - 1], hits[k], w)
<1>6. scanned = [k \in 0 .. Len(hits) |->
                    IF k = 0 THEN Blank ELSE ScanHit(scanned[k - 1], hits[k], w)]
  BY <1>5, Zenon
<1>7. Scan(hits, w) = scanned[Len(hits)]
  BY Zenon DEF Scan
<1> HIDE DEF scanned
<1> QED BY <1>6, <1>7

LEMMA AskedIsFunction ==
    ASSUME NEW hits, NEW w, Len(hits) \in Nat
    PROVE  \E f : /\ f = [k \in 0 .. Len(hits) |->
                             IF k = 0 THEN <<>>
                             ELSE IF Within(hits[k], w) THEN Append(f[k - 1], hits[k])
                             ELSE f[k - 1]]
                  /\ Asked(hits, w) = f[Len(hits)]
<1> DEFINE Turn(g, k) == IF k = 0 THEN <<>>
                         ELSE IF Within(hits[k], w) THEN Append(g[k - 1], hits[k])
                         ELSE g[k - 1]
           S == {n \in Nat : \E g : g = [k \in 0 .. n |-> Turn(g, k)]}
<1>1. 0 \in S
  <2> DEFINE f == [k \in 0 .. 0 |-> <<>>]
  <2>1. f = [k \in 0 .. 0 |-> Turn(f, k)]
    OBVIOUS
  <2> QED BY <2>1
<1>2. ASSUME NEW n \in Nat, n \in S PROVE n + 1 \in S
  <2>1. PICK f : f = [k \in 0 .. n |-> Turn(f, k)]
    BY <1>2
  <2> DEFINE g == [k \in 0 .. n + 1 |-> Turn(f, k)]
  <2>2. \A k \in 0 .. n : g[k] = f[k]
    <3> HIDE DEF Turn
    <3> QED BY <2>1
  <2>3. \A k \in 0 .. n + 1 : Turn(g, k) = Turn(f, k)
    <3> HIDE DEF g
    <3>1. \A k \in 0 .. n + 1 : k # 0 => k - 1 \in 0 .. n
      OBVIOUS
    <3> QED BY <2>2, <3>1
  <2>4. g = [k \in 0 .. n + 1 |-> Turn(g, k)]
    <3> HIDE DEF Turn
    <3> QED BY <2>3
  <2> HIDE DEF g
  <2> QED BY <2>4
<1> HIDE DEF S
<1>3. \A n \in Nat : n \in S
  BY <1>1, <1>2, SetInduction
<1>4. Len(hits) \in S
  BY <1>3
<1>5. \E f : f = [k \in 0 .. Len(hits) |-> Turn(f, k)]
  <2> HIDE DEF Turn
  <2> QED BY <1>4 DEF S
<1> DEFINE listed[k \in 0 .. Len(hits)] ==
               IF k = 0 THEN <<>>
               ELSE IF Within(hits[k], w) THEN Append(listed[k - 1], hits[k])
               ELSE listed[k - 1]
<1>6. listed = [k \in 0 .. Len(hits) |->
                   IF k = 0 THEN <<>>
                   ELSE IF Within(hits[k], w) THEN Append(listed[k - 1], hits[k])
                   ELSE listed[k - 1]]
  BY <1>5, Zenon
<1>7. Asked(hits, w) = listed[Len(hits)]
  BY Zenon DEF Asked
<1> HIDE DEF listed
<1> QED BY <1>6, <1>7

-----------------------------------------------------------------------------
(* A lookup as one pass over the log.                                      *)

Hit == Hits(HitTimes)

\* What a hit of the log does to the scan, and to the length of the list.
Turn(acc, hit, w) == IF Within(hit, w) THEN ScanHit(acc, hit, w) ELSE acc
More(n, hit, w) == IF Within(hit, w) THEN n + 1 ELSE n

\* Truncated, as a matter of how many hits are listed.
Cut(n) == IF Paginated THEN n > PageSize ELSE n >= PageSize

LEMMA ScanAppend ==
    ASSUME NEW s \in Seq(Hit), NEW x \in Hit, NEW w
    PROVE  Scan(Append(s, x), w) = ScanHit(Scan(s, w), x, w)
<1> DEFINE r == Append(s, x)
<1>1. /\ Len(s) \in Nat /\ Len(r) = Len(s) + 1 /\ Len(r) \in Nat
      /\ \A k \in 1 .. Len(s) : r[k] = s[k]
      /\ r[Len(r)] = x
  OBVIOUS
<1> HIDE DEF r
<1>2. PICK f : /\ f = [k \in 0 .. Len(s) |->
                          IF k = 0 THEN Blank ELSE ScanHit(f[k - 1], s[k], w)]
               /\ Scan(s, w) = f[Len(s)]
  BY <1>1, ScanIsFunction
<1>3. PICK g : /\ g = [k \in 0 .. Len(r) |->
                          IF k = 0 THEN Blank ELSE ScanHit(g[k - 1], r[k], w)]
               /\ Scan(r, w) = g[Len(r)]
  BY <1>1, ScanIsFunction
<1> DEFINE S == {n \in Nat : n \in 0 .. Len(s) => g[n] = f[n]}
<1>4. 0 \in S
  BY <1>1, <1>2, <1>3
<1>5. ASSUME NEW n \in Nat, n \in S PROVE n + 1 \in S
  <2> SUFFICES ASSUME n + 1 \in 0 .. Len(s) PROVE g[n + 1] = f[n + 1]
    OBVIOUS
  <2>1. n \in 0 .. Len(s) /\ n + 1 \in 0 .. Len(r) /\ n + 1 # 0 /\ (n + 1) - 1 = n
        /\ n + 1 \in 1 .. Len(s)
    BY <1>1
  <2>2. g[n] = f[n]
    BY <1>5, <2>1
  <2>3. g[n + 1] = ScanHit(g[n], r[n + 1], w)
    BY <2>1, <1>3
  <2>4. f[n + 1] = ScanHit(f[n], s[n + 1], w)
    BY <2>1, <1>2
  <2> QED BY <2>1, <2>2, <2>3, <2>4, <1>1
<1> HIDE DEF S
<1>6. \A n \in Nat : n \in S
  BY <1>4, <1>5, SetInduction
<1>7. g[Len(s)] = f[Len(s)]
  BY <1>1, <1>6 DEF S
<1>8. g[Len(r)] = ScanHit(g[Len(s)], x, w)
  <2>1. Len(r) \in 0 .. Len(r) /\ Len(r) # 0 /\ Len(r) - 1 = Len(s)
    BY <1>1
  <2> QED BY <1>1, <1>3, <2>1
<1> QED BY <1>2, <1>3, <1>7, <1>8 DEF r

LEMMA OnePass ==
    ASSUME NEW hits \in Seq(Hit), NEW w
    PROVE  \E T, N :
              /\ T[0] = Blank /\ N[0] = 0
              /\ \A k \in 1 .. Len(hits) :
                    /\ T[k] = Turn(T[k - 1], hits[k], w)
                    /\ N[k] = More(N[k - 1], hits[k], w)
              /\ T[Len(hits)] = Scan(Asked(hits, w), w)
              /\ N[Len(hits)] = Len(Asked(hits, w))
              /\ Asked(hits, w) \in Seq(Hit)
<1>0. Len(hits) \in Nat /\ \A k \in 1 .. Len(hits) : hits[k] \in Hit
  OBVIOUS
<1>1. PICK A : /\ A = [k \in 0 .. Len(hits) |->
                          IF k = 0 THEN <<>>
                          ELSE IF Within(hits[k], w) THEN Append(A[k - 1], hits[k])
                          ELSE A[k - 1]]
               /\ Asked(hits, w) = A[Len(hits)]
  BY <1>0, AskedIsFunction
<1>2. A[0] = <<>>
  BY <1>0, <1>1
<1>3. ASSUME NEW k \in 1 .. Len(hits)
      PROVE  A[k] = IF Within(hits[k], w) THEN Append(A[k - 1], hits[k]) ELSE A[k - 1]
  <2>1. k \in 0 .. Len(hits) /\ k # 0
    BY <1>0
  <2> QED BY <1>1, <2>1
<1> DEFINE S == {n \in Nat : n \in 0 .. Len(hits) => A[n] \in Seq(Hit)}
<1>4. 0 \in S
  <2>1. A[0] \in Seq(Hit)
    BY <1>2
  <2> QED BY <2>1
<1>5. ASSUME NEW n \in Nat, n \in S PROVE n + 1 \in S
  <2> SUFFICES ASSUME n + 1 \in 0 .. Len(hits) PROVE A[n + 1] \in Seq(Hit)
    OBVIOUS
  <2>1. n \in 0 .. Len(hits) /\ n + 1 \in 1 .. Len(hits) /\ (n + 1) - 1 = n
    BY <1>0
  <2>2. A[n] \in Seq(Hit) /\ hits[n + 1] \in Hit
    BY <1>5, <2>1, <1>0
  <2>3. A[n + 1] = IF Within(hits[n + 1], w) THEN Append(A[n], hits[n + 1]) ELSE A[n]
    BY <1>3, <2>1
  <2> QED BY <2>2, <2>3
<1> HIDE DEF S
<1>6. \A n \in Nat : n \in S
  BY <1>4, <1>5, SetInduction
<1>7. \A n \in 0 .. Len(hits) : A[n] \in Seq(Hit)
  BY <1>0, <1>6 DEF S
<1> DEFINE T == [k \in 0 .. Len(hits) |-> Scan(A[k], w)]
           N == [k \in 0 .. Len(hits) |-> Len(A[k])]
<1>8. T[0] = Blank
  <2>1. Len(<<>>) = 0 /\ Len(<<>>) \in Nat
    OBVIOUS
  <2>2. PICK f : /\ f = [k \in 0 .. Len(<<>>) |->
                            IF k = 0 THEN Blank ELSE ScanHit(f[k - 1], <<>>[k], w)]
                 /\ Scan(<<>>, w) = f[Len(<<>>)]
    BY <2>1, ScanIsFunction
  <2>3. f[0] = Blank
    BY <2>1, <2>2
  <2>4. Scan(<<>>, w) = Blank
    BY <2>1, <2>2, <2>3
  <2> QED BY <1>0, <1>2, <2>4
<1>9. N[0] = 0
  BY <1>0, <1>2
<1>10. ASSUME NEW k \in 1 .. Len(hits)
       PROVE  T[k] = Turn(T[k - 1], hits[k], w) /\ N[k] = More(N[k - 1], hits[k], w)
  <2>1. k \in 0 .. Len(hits) /\ k - 1 \in 0 .. Len(hits)
    BY <1>0
  <2>2. A[k - 1] \in Seq(Hit) /\ hits[k] \in Hit
    BY <2>1, <1>7, <1>0
  <2>3. CASE Within(hits[k], w)
    <3>1. A[k] = Append(A[k - 1], hits[k])
      BY <2>3, <1>3
    <3>2. Scan(A[k], w) = ScanHit(Scan(A[k - 1], w), hits[k], w)
      BY <2>2, <3>1, ScanAppend
    <3>3. Len(A[k]) = Len(A[k - 1]) + 1
      BY <2>2, <3>1
    <3> QED BY <2>1, <2>3, <3>2, <3>3 DEF Turn, More
  <2>4. CASE ~Within(hits[k], w)
    <3>1. A[k] = A[k - 1]
      BY <2>4, <1>3
    <3> QED BY <2>1, <2>4, <3>1 DEF Turn, More
  <2> QED BY <2>3, <2>4
<1>11. /\ T[Len(hits)] = Scan(Asked(hits, w), w)
       /\ N[Len(hits)] = Len(Asked(hits, w))
       /\ Asked(hits, w) \in Seq(Hit)
  <2>1. Len(hits) \in 0 .. Len(hits)
    BY <1>0
  <2> QED BY <2>1, <1>1, <1>7
<1> HIDE DEF T, N
<1> QED BY <1>8, <1>9, <1>10, <1>11

\* What the scan keeps of a log.
Locals == [spoilt: BOOLEAN, nobody: BOOLEAN, plates: SUBSET Plates,
           pairs: SUBSET (Actors \X Plates), times: SUBSET HitTimes]

LEMMA ReadingKept ==
    ASSUME NEW hit \in Hit, NEW w
    PROVE  /\ Reading(hit, w) \in {"skip", "spoilt", "seen", "nobody", "access"}
           /\ Reading(hit, w) \in {"seen", "nobody", "access"} => hit.plate \in Plates
           /\ Reading(hit, w) = "access" =>
                 hit.actor \in Actors /\ hit.timestamp \in HitTimes
BY DEF Reading, Hit, Hits

\* One turn, field by field.
LEMMA TurnFields ==
    ASSUME NEW acc \in Locals, NEW hit \in Hit, NEW w
    PROVE  LET r == Reading(hit, w)
               b == ScanHit(acc, hit, w)
               on == ~acc.spoilt /\ r \in {"seen", "nobody", "access"}
           IN  /\ b \in Locals
               /\ b.spoilt <=> acc.spoilt \/ r = "spoilt"
               /\ b.nobody <=> acc.nobody \/ (on /\ r = "nobody")
               /\ b.plates = IF on THEN acc.plates \cup {hit.plate} ELSE acc.plates
               /\ b.pairs = IF on /\ r = "access"
                            THEN acc.pairs \cup {<<hit.actor, hit.plate>>} ELSE acc.pairs
               /\ b.times = IF on /\ r = "access"
                            THEN acc.times \cup {hit.timestamp} ELSE acc.times
<1> DEFINE r == Reading(hit, w)
           b == ScanHit(acc, hit, w)
<1>1. /\ r \in {"skip", "spoilt", "seen", "nobody", "access"}
      /\ r \in {"seen", "nobody", "access"} => hit.plate \in Plates
      /\ r = "access" => hit.actor \in Actors /\ hit.timestamp \in HitTimes
  BY ReadingKept
<1>2. b = IF acc.spoilt \/ r = "skip" THEN acc
          ELSE IF r = "spoilt" THEN [acc EXCEPT !.spoilt = TRUE]
          ELSE IF r # "access"
               THEN [acc EXCEPT !.plates = @ \cup {hit.plate}, !.nobody = @ \/ r = "nobody"]
          ELSE [acc EXCEPT !.plates = @ \cup {hit.plate},
                           !.pairs = @ \cup {<<hit.actor, hit.plate>>},
                           !.times = @ \cup {hit.timestamp}]
  BY DEF ScanHit
<1>3. /\ acc = [spoilt |-> acc.spoilt, nobody |-> acc.nobody, plates |-> acc.plates,
                pairs |-> acc.pairs, times |-> acc.times]
      /\ acc.spoilt \in BOOLEAN /\ acc.nobody \in BOOLEAN /\ acc.plates \subseteq Plates
      /\ acc.pairs \subseteq Actors \X Plates /\ acc.times \subseteq HitTimes
  BY DEF Locals
<1> HIDE DEF r, b
<1>4. CASE acc.spoilt \/ r = "skip"
  <2>1. b = acc
    BY <1>2, <1>4
  <2> QED BY <2>1, <1>1, <1>4 DEF r, b
<1>5. CASE ~acc.spoilt /\ r = "spoilt"
  <2>1. b = [spoilt |-> TRUE, nobody |-> acc.nobody, plates |-> acc.plates,
             pairs |-> acc.pairs, times |-> acc.times]
    BY <1>2, <1>3, <1>5
  <2>2. b \in Locals
    BY <2>1, <1>3 DEF Locals
  <2> QED BY <2>1, <2>2, <1>5 DEF r, b
<1>6. CASE ~acc.spoilt /\ r \in {"seen", "nobody"}
  <2>1. b = [spoilt |-> acc.spoilt, nobody |-> acc.nobody \/ r = "nobody",
             plates |-> acc.plates \cup {hit.plate},
             pairs |-> acc.pairs, times |-> acc.times]
    BY <1>2, <1>3, <1>6
  <2>2. b \in Locals
    BY <2>1, <1>1, <1>3, <1>6 DEF Locals
  <2>3. /\ b.spoilt = acc.spoilt /\ b.plates = acc.plates \cup {hit.plate}
        /\ b.pairs = acc.pairs /\ b.times = acc.times
    BY <2>1
  <2>4. b.nobody <=> acc.nobody \/ r = "nobody"
    BY <2>1, Zenon
  <2>5. r \in {"seen", "nobody", "access"} /\ r # "spoilt" /\ r # "access"
    BY <1>6
  <2> HIDE <2>1
  <2>6. b.spoilt <=> acc.spoilt \/ r = "spoilt"
    BY <2>3, <2>5, Zenon
  <2>7. b.nobody <=> acc.nobody \/ (~acc.spoilt /\ r \in {"seen", "nobody", "access"} /\ r = "nobody")
    BY <2>4, <2>5, <1>6, Zenon
  <2> QED BY <2>2, <2>3, <2>5, <2>6, <2>7, <1>6, Zenon DEF r, b
<1>7. CASE ~acc.spoilt /\ r = "access"
  <2>1. b = [spoilt |-> acc.spoilt, nobody |-> acc.nobody,
             plates |-> acc.plates \cup {hit.plate},
             pairs |-> acc.pairs \cup {<<hit.actor, hit.plate>>},
             times |-> acc.times \cup {hit.timestamp}]
    BY <1>2, <1>3, <1>7
  <2>2. b \in Locals
    BY <2>1, <1>1, <1>3, <1>7 DEF Locals
  <2> QED BY <2>1, <2>2, <1>7 DEF r, b
<1> QED BY <1>1, <1>4, <1>5, <1>6, <1>7

-----------------------------------------------------------------------------
(* The order of two hits makes no difference.                              *)

\* Two states of the scan that come to the same verdict whatever follows.
Alike(a, b) == (a.spoilt /\ b.spoilt) \/ a = b

LEMMA LocalsEqual ==
    ASSUME NEW a \in Locals, NEW b \in Locals,
           a.spoilt <=> b.spoilt, a.nobody <=> b.nobody,
           a.plates = b.plates, a.pairs = b.pairs, a.times = b.times
    PROVE  a = b
<1>1. a.spoilt = b.spoilt /\ a.nobody = b.nobody
  <2>1. a.spoilt \in BOOLEAN /\ b.spoilt \in BOOLEAN /\ a.nobody \in BOOLEAN /\ b.nobody \in BOOLEAN
    BY DEF Locals
  <2> QED BY <2>1, Zenon
<1> QED BY <1>1 DEF Locals

LEMMA AlikeKept ==
    ASSUME NEW a \in Locals, NEW b \in Locals, Alike(a, b), NEW hit \in Hit, NEW w
    PROVE  Alike(ScanHit(a, hit, w), ScanHit(b, hit, w))
<1>1. CASE a.spoilt /\ b.spoilt
  <2>1. ScanHit(a, hit, w).spoilt /\ ScanHit(b, hit, w).spoilt
    BY <1>1, TurnFields
  <2> QED BY <2>1 DEF Alike
<1>2. CASE a = b
  BY <1>2 DEF Alike
<1> QED BY <1>1, <1>2 DEF Alike

LEMMA Commute ==
    ASSUME NEW acc \in Locals, NEW x \in Hit, NEW y \in Hit, NEW w
    PROVE  Alike(ScanHit(ScanHit(acc, x, w), y, w), ScanHit(ScanHit(acc, y, w), x, w))
<1> DEFINE a == ScanHit(acc, x, w)
           b == ScanHit(acc, y, w)
           c == ScanHit(a, y, w)
           d == ScanHit(b, x, w)
           Plain(r) == r \in {"seen", "nobody", "access"}
           rx == Reading(x, w)
           ry == Reading(y, w)
<1>1. /\ a \in Locals
      /\ a.spoilt <=> acc.spoilt \/ rx = "spoilt"
      /\ a.nobody <=> acc.nobody \/ (~acc.spoilt /\ Plain(rx) /\ rx = "nobody")
      /\ a.plates = IF ~acc.spoilt /\ Plain(rx) THEN acc.plates \cup {x.plate} ELSE acc.plates
      /\ a.pairs = IF ~acc.spoilt /\ Plain(rx) /\ rx = "access"
                   THEN acc.pairs \cup {<<x.actor, x.plate>>} ELSE acc.pairs
      /\ a.times = IF ~acc.spoilt /\ Plain(rx) /\ rx = "access"
                   THEN acc.times \cup {x.timestamp} ELSE acc.times
  BY TurnFields, Zenon
<1>2. /\ b \in Locals
      /\ b.spoilt <=> acc.spoilt \/ ry = "spoilt"
      /\ b.nobody <=> acc.nobody \/ (~acc.spoilt /\ Plain(ry) /\ ry = "nobody")
      /\ b.plates = IF ~acc.spoilt /\ Plain(ry) THEN acc.plates \cup {y.plate} ELSE acc.plates
      /\ b.pairs = IF ~acc.spoilt /\ Plain(ry) /\ ry = "access"
                   THEN acc.pairs \cup {<<y.actor, y.plate>>} ELSE acc.pairs
      /\ b.times = IF ~acc.spoilt /\ Plain(ry) /\ ry = "access"
                   THEN acc.times \cup {y.timestamp} ELSE acc.times
  BY TurnFields, Zenon
<1>3. /\ c \in Locals
      /\ c.spoilt <=> a.spoilt \/ ry = "spoilt"
      /\ c.nobody <=> a.nobody \/ (~a.spoilt /\ Plain(ry) /\ ry = "nobody")
      /\ c.plates = IF ~a.spoilt /\ Plain(ry) THEN a.plates \cup {y.plate} ELSE a.plates
      /\ c.pairs = IF ~a.spoilt /\ Plain(ry) /\ ry = "access"
                   THEN a.pairs \cup {<<y.actor, y.plate>>} ELSE a.pairs
      /\ c.times = IF ~a.spoilt /\ Plain(ry) /\ ry = "access"
                   THEN a.times \cup {y.timestamp} ELSE a.times
  <2> HIDE DEF a
  <2> QED BY <1>1, TurnFields, Zenon
<1>4. /\ d \in Locals
      /\ d.spoilt <=> b.spoilt \/ rx = "spoilt"
      /\ d.nobody <=> b.nobody \/ (~b.spoilt /\ Plain(rx) /\ rx = "nobody")
      /\ d.plates = IF ~b.spoilt /\ Plain(rx) THEN b.plates \cup {x.plate} ELSE b.plates
      /\ d.pairs = IF ~b.spoilt /\ Plain(rx) /\ rx = "access"
                   THEN b.pairs \cup {<<x.actor, x.plate>>} ELSE b.pairs
      /\ d.times = IF ~b.spoilt /\ Plain(rx) /\ rx = "access"
                   THEN b.times \cup {x.timestamp} ELSE b.times
  <2> HIDE DEF b
  <2> QED BY <1>2, TurnFields, Zenon
<1> HIDE DEF a, b, c, d, rx, ry, Plain
<1>5. CASE acc.spoilt \/ rx = "spoilt" \/ ry = "spoilt"
  <2>1. c.spoilt /\ d.spoilt
    BY <1>1, <1>2, <1>3, <1>4, <1>5, Zenon
  <2> QED BY <2>1 DEF Alike, a, b, c, d
<1>6. CASE ~(acc.spoilt \/ rx = "spoilt" \/ ry = "spoilt")
  <2>1. ~acc.spoilt /\ ~a.spoilt /\ ~b.spoilt /\ ~c.spoilt /\ ~d.spoilt
    BY <1>1, <1>2, <1>3, <1>4, <1>6, Zenon
  <2>2. c.nobody <=> d.nobody
    BY <2>1, <1>1, <1>2, <1>3, <1>4, Zenon
  <2>3. c.plates = d.plates
    BY <2>1, <1>1, <1>2, <1>3, <1>4
  <2>4. c.pairs = d.pairs
    BY <2>1, <1>1, <1>2, <1>3, <1>4
  <2>5. c.times = d.times
    BY <2>1, <1>1, <1>2, <1>3, <1>4
  <2>6. c = d
    BY <2>1, <2>2, <2>3, <2>4, <2>5, <1>3, <1>4, LocalsEqual
  <2> QED BY <2>6 DEF Alike, a, b, c, d
<1> QED BY <1>5, <1>6

-----------------------------------------------------------------------------
(* What a lookup answers.                                                  *)

\* T and N are what the scan and the list come to along the log.
Pass(T, N, hits, w) ==
    /\ T[0] = Blank /\ N[0] = 0
    /\ \A k \in 1 .. Len(hits) :
          /\ T[k] = Turn(T[k - 1], hits[k], w)
          /\ N[k] = More(N[k - 1], hits[k], w)

LEMMA BlankTyped == Blank \in Locals
BY DEF Blank, Locals

LEMMA TurnTyped ==
    ASSUME NEW acc \in Locals, NEW hit \in Hit, NEW w
    PROVE  Turn(acc, hit, w) \in Locals
<1>1. ScanHit(acc, hit, w) \in Locals
  BY TurnFields, Zenon
<1> QED BY <1>1 DEF Turn

LEMMA PassTyped ==
    ASSUME NEW hits \in Seq(Hit), NEW w, NEW T, NEW N, Pass(T, N, hits, w)
    PROVE  \A k \in 0 .. Len(hits) : T[k] \in Locals /\ N[k] \in Nat
<1>0. Len(hits) \in Nat /\ \A k \in 1 .. Len(hits) : hits[k] \in Hit
  OBVIOUS
<1> DEFINE S == {n \in Nat : n \in 0 .. Len(hits) => T[n] \in Locals /\ N[n] \in Nat}
<1>1. 0 \in S
  BY BlankTyped DEF Pass
<1>2. ASSUME NEW n \in Nat, n \in S PROVE n + 1 \in S
  <2> SUFFICES ASSUME n + 1 \in 0 .. Len(hits)
               PROVE  T[n + 1] \in Locals /\ N[n + 1] \in Nat
    OBVIOUS
  <2>1. n \in 0 .. Len(hits) /\ n + 1 \in 1 .. Len(hits) /\ (n + 1) - 1 = n
    BY <1>0
  <2>2. T[n] \in Locals /\ N[n] \in Nat /\ hits[n + 1] \in Hit
    BY <1>2, <2>1, <1>0
  <2>3. T[n + 1] = Turn(T[n], hits[n + 1], w) /\ N[n + 1] = More(N[n], hits[n + 1], w)
    BY <2>1 DEF Pass
  <2>4. T[n + 1] \in Locals
    BY <2>2, <2>3, TurnTyped
  <2> QED BY <2>2, <2>3, <2>4 DEF More
<1> HIDE DEF S
<1>3. \A n \in Nat : n \in S
  BY <1>1, <1>2, SetInduction
<1> QED BY <1>0, <1>3 DEF S

LEMMA CutIsTruncated ==
    ASSUME NEW listed \in Seq(Hit)
    PROVE  /\ Truncated(listed) <=> Cut(Len(listed))
           /\ ~Cut(Len(listed)) => Page(listed) = listed /\ Len(listed) <= PageSize
<1>1. Len(listed) \in Nat /\ PageSize \in Nat /\ PageSize > 0
  BY PageAssumption
<1>2. CASE Len(listed) <= PageSize
  BY <1>1, <1>2 DEF Truncated, Cut, Page
<1>3. CASE Len(listed) > PageSize
  <2>1. Page(listed) = SubSeq(listed, 1, PageSize)
    BY <1>1, <1>3 DEF Page
  <2>2. Len(Page(listed)) = PageSize
    BY <2>1, <1>1, <1>3
  <2> QED BY <2>2, <1>1, <1>3 DEF Truncated, Cut
<1> QED BY <1>1, <1>2, <1>3

LEMMA LookedUpInOnePass ==
    ASSUME NEW hits \in Seq(Hit), NEW w
    PROVE  \E T, N :
              /\ Pass(T, N, hits, w)
              /\ N[Len(hits)] = Len(Asked(hits, w))
              /\ LookedUp(hits, w) = IF w.until <= w.since THEN NoMatch
                                     ELSE IF Cut(N[Len(hits)]) THEN Ambiguous
                                     ELSE Verdict(T[Len(hits)])
<1>1. PICK T, N :
         /\ T[0] = Blank /\ N[0] = 0
         /\ \A k \in 1 .. Len(hits) :
               /\ T[k] = Turn(T[k - 1], hits[k], w)
               /\ N[k] = More(N[k - 1], hits[k], w)
         /\ T[Len(hits)] = Scan(Asked(hits, w), w)
         /\ N[Len(hits)] = Len(Asked(hits, w))
         /\ Asked(hits, w) \in Seq(Hit)
  BY OnePass
<1> DEFINE listed == Asked(hits, w)
<1>2. LookedUp(hits, w) = IF w.until <= w.since THEN NoMatch
                          ELSE IF Truncated(listed) THEN Ambiguous
                          ELSE Verdict(Scan(Page(listed), w))
  BY DEF LookedUp, Correlate
<1>3. /\ Truncated(listed) <=> Cut(Len(listed))
      /\ ~Cut(Len(listed)) => Page(listed) = listed
  BY <1>1, CutIsTruncated
<1> HIDE DEF listed
<1>4. T[Len(hits)] = Scan(listed, w) /\ N[Len(hits)] = Len(listed)
  BY <1>1 DEF listed
<1>5. LookedUp(hits, w) = IF w.until <= w.since THEN NoMatch
                          ELSE IF Cut(N[Len(hits)]) THEN Ambiguous
                          ELSE Verdict(T[Len(hits)])
  BY <1>2, <1>3, <1>4
<1>6. Pass(T, N, hits, w)
  BY <1>1 DEF Pass
<1> QED BY <1>1, <1>5, <1>6

LEMMA TurnAlike ==
    ASSUME NEW a \in Locals, NEW b \in Locals, Alike(a, b), NEW hit \in Hit, NEW w
    PROVE  Alike(Turn(a, hit, w), Turn(b, hit, w))
<1>1. Alike(ScanHit(a, hit, w), ScanHit(b, hit, w))
  BY AlikeKept
<1> QED BY <1>1 DEF Turn

LEMMA TurnsCommute ==
    ASSUME NEW acc \in Locals, NEW x \in Hit, NEW y \in Hit, NEW w
    PROVE  Alike(Turn(Turn(acc, x, w), y, w), Turn(Turn(acc, y, w), x, w))
<1>1. Alike(ScanHit(ScanHit(acc, x, w), y, w), ScanHit(ScanHit(acc, y, w), x, w))
  BY Commute
<1>2. CASE Within(x, w) /\ Within(y, w)
  BY <1>1, <1>2 DEF Turn
<1>3. CASE ~(Within(x, w) /\ Within(y, w))
  <2>1. Turn(Turn(acc, x, w), y, w) = Turn(Turn(acc, y, w), x, w)
    BY <1>3, Zenon DEF Turn
  <2> QED BY <2>1 DEF Alike
<1> QED BY <1>2, <1>3

LEMMA VerdictAlike ==
    ASSUME NEW a, NEW b, Alike(a, b)
    PROVE  Verdict(a) = Verdict(b)
<1>1. CASE a.spoilt /\ b.spoilt
  <2>1. Verdict(a) = Ambiguous
    BY <1>1, Zenon DEF Verdict
  <2>2. Verdict(b) = Ambiguous
    BY <1>1, Zenon DEF Verdict
  <2> QED BY <2>1, <2>2
<1>2. CASE a = b
  BY <1>2
<1> QED BY <1>1, <1>2 DEF Alike

\* Two logs that differ in the order of two neighbours.
LEMMA SwapPasses ==
    ASSUME NEW hits \in Seq(Hit), NEW other \in Seq(Hit), NEW w,
           Len(other) = Len(hits),
           NEW k \in 1 .. Len(hits) - 1,
           other[k] = hits[k + 1], other[k + 1] = hits[k],
           \A j \in 1 .. Len(hits) : j \notin {k, k + 1} => other[j] = hits[j],
           NEW T, NEW N, Pass(T, N, hits, w),
           NEW U, NEW M, Pass(U, M, other, w)
    PROVE  Alike(U[Len(hits)], T[Len(hits)]) /\ M[Len(hits)] = N[Len(hits)]
<1>0. /\ Len(hits) \in Nat /\ k \in Nat
      /\ \A j \in 1 .. Len(hits) : hits[j] \in Hit
      /\ \A j \in 1 .. Len(hits) : other[j] \in Hit
  OBVIOUS
<1>1. \A j \in 0 .. Len(hits) : /\ T[j] \in Locals /\ N[j] \in Nat
                                /\ U[j] \in Locals /\ M[j] \in Nat
  BY PassTyped, Zenon
<1>2. ASSUME NEW j \in 1 .. Len(hits)
      PROVE  /\ T[j] = Turn(T[j - 1], hits[j], w) /\ N[j] = More(N[j - 1], hits[j], w)
             /\ U[j] = Turn(U[j - 1], other[j], w) /\ M[j] = More(M[j - 1], other[j], w)
  BY Zenon DEF Pass
<1> DEFINE Same(n) == Alike(U[n], T[n]) /\ M[n] = N[n]
           S == {n \in Nat : n \in 0 .. Len(hits) =>
                                (n # k => Same(n)) /\ (n = k => Same(k - 1))}
<1>3. 0 \in S
  BY <1>0 DEF Pass, Alike
<1>4. ASSUME NEW n \in Nat, n \in S PROVE n + 1 \in S
  <2> SUFFICES ASSUME n + 1 \in 0 .. Len(hits)
               PROVE  (n + 1 # k => Same(n + 1)) /\ (n + 1 = k => Same(k - 1))
    OBVIOUS
  <2>1. /\ n \in 0 .. Len(hits) /\ n + 1 \in 1 .. Len(hits) /\ (n + 1) - 1 = n
        /\ n # k => Same(n)
        /\ n = k => Same(k - 1)
    BY <1>0, <1>4
  <2> HIDE DEF Same, S
  <2>2. CASE n + 1 = k
    <3>1. n # k /\ n = k - 1
      BY <2>2, <1>0
    <3> QED BY <3>1, <2>1, <2>2, <1>0
  <2>3. CASE n = k
    <3>1. k \in 1 .. Len(hits) /\ k - 1 \in 0 .. Len(hits) /\ k + 1 \in 1 .. Len(hits)
          /\ (k + 1) - 1 = k
      BY <1>0
    <3>2. Alike(U[k - 1], T[k - 1]) /\ M[k - 1] = N[k - 1]
      BY <2>1, <2>3 DEF Same
    <3> DEFINE x == hits[k]
               y == hits[k + 1]
    <3>3. x \in Hit /\ y \in Hit /\ T[k - 1] \in Locals /\ U[k - 1] \in Locals
          /\ N[k - 1] \in Nat
      BY <3>1, <1>0, <1>1
    <3>4. /\ T[k] = Turn(T[k - 1], x, w) /\ N[k] = More(N[k - 1], x, w)
          /\ U[k] = Turn(U[k - 1], y, w) /\ M[k] = More(M[k - 1], y, w)
      BY <3>1, <1>2
    <3>5. /\ T[k + 1] = Turn(T[k], y, w) /\ N[k + 1] = More(N[k], y, w)
          /\ U[k + 1] = Turn(U[k], x, w) /\ M[k + 1] = More(M[k], x, w)
      BY <3>1, <1>2
    <3> HIDE DEF x, y
    <3>6. Alike(Turn(Turn(U[k - 1], y, w), x, w), Turn(Turn(U[k - 1], x, w), y, w))
      BY <3>3, TurnsCommute
    <3>7. Alike(Turn(Turn(U[k - 1], x, w), y, w), Turn(Turn(T[k - 1], x, w), y, w))
      <4>1. Turn(U[k - 1], x, w) \in Locals /\ Turn(T[k - 1], x, w) \in Locals
        BY <3>3, TurnTyped
      <4>2. Alike(Turn(U[k - 1], x, w), Turn(T[k - 1], x, w))
        BY <3>2, <3>3, TurnAlike
      <4> QED BY <4>1, <4>2, <3>3, TurnAlike
    <3>8. Alike(Turn(Turn(U[k - 1], y, w), x, w), Turn(Turn(T[k - 1], x, w), y, w))
      BY <3>6, <3>7, Zenon DEF Alike
    <3>9. Alike(U[k + 1], T[k + 1])
      BY <3>8, <3>4, <3>5
    <3>10. M[k + 1] = N[k + 1]
      BY <3>2, <3>3, <3>4, <3>5 DEF More
    <3> QED BY <3>9, <3>10, <2>3, <1>0 DEF Same
  <2>4. CASE n # k /\ n + 1 # k
    <3>1. other[n + 1] = hits[n + 1] /\ hits[n + 1] \in Hit
      BY <2>1, <2>4, <1>0
    <3>2. Alike(U[n], T[n]) /\ M[n] = N[n] /\ U[n] \in Locals /\ T[n] \in Locals
      BY <2>1, <2>4, <1>1 DEF Same
    <3>3. /\ T[n + 1] = Turn(T[n], hits[n + 1], w) /\ N[n + 1] = More(N[n], hits[n + 1], w)
          /\ U[n + 1] = Turn(U[n], hits[n + 1], w) /\ M[n + 1] = More(M[n], hits[n + 1], w)
      BY <2>1, <1>2, <3>1
    <3>4. Alike(U[n + 1], T[n + 1])
      BY <3>1, <3>2, <3>3, TurnAlike
    <3>5. M[n + 1] = N[n + 1]
      BY <3>2, <3>3
    <3> QED BY <3>4, <3>5, <2>4 DEF Same
  <2> QED BY <2>2, <2>3, <2>4
<1> HIDE DEF S
<1>5. \A n \in Nat : n \in S
  BY <1>3, <1>4, SetInduction
<1>6. Len(hits) # k /\ Len(hits) \in 0 .. Len(hits)
  BY <1>0
<1> QED BY <1>0, <1>5, <1>6 DEF S

\* Whatever the log and the window, the order of the events is no matter.
LEMMA EveryLogIsSwappable ==
    ASSUME NEW hits \in Seq(Hit), NEW w
    PROVE  Swappable(hits, w)
<1> SUFFICES ASSUME NEW k \in 1 .. Len(hits) - 1
             PROVE  LookedUp([hits EXCEPT ![k] = hits[k + 1], ![k + 1] = hits[k]], w)
                       = LookedUp(hits, w)
  BY DEF Swappable
<1> DEFINE other == [hits EXCEPT ![k] = hits[k + 1], ![k + 1] = hits[k]]
<1>0. /\ Len(hits) \in Nat /\ k \in 1 .. Len(hits) /\ k + 1 \in 1 .. Len(hits) /\ k # k + 1
      /\ \A j \in 1 .. Len(hits) : hits[j] \in Hit
      /\ hits = [j \in 1 .. Len(hits) |-> hits[j]]
  OBVIOUS
<1>1. other = [j \in 1 .. Len(hits) |-> IF j = k THEN hits[k + 1]
                                        ELSE IF j = k + 1 THEN hits[k] ELSE hits[j]]
  BY <1>0
<1>2. /\ other[k] = hits[k + 1] /\ other[k + 1] = hits[k]
      /\ \A j \in 1 .. Len(hits) : j \notin {k, k + 1} => other[j] = hits[j]
      /\ \A j \in 1 .. Len(hits) : other[j] \in Hit
  <2> HIDE DEF other
  <2> QED BY <1>0, <1>1
<1>3. other \in Seq(Hit) /\ Len(other) = Len(hits)
  <2>1. other \in [1 .. Len(hits) -> Hit]
    <3> HIDE DEF other
    <3> QED BY <1>1, <1>2
  <2> HIDE DEF other
  <2> QED BY <2>1, <1>0
<1> HIDE DEF other
<1>4. PICK T, N :
         /\ Pass(T, N, hits, w)
         /\ LookedUp(hits, w) = IF w.until <= w.since THEN NoMatch
                                ELSE IF Cut(N[Len(hits)]) THEN Ambiguous
                                ELSE Verdict(T[Len(hits)])
  BY LookedUpInOnePass, Zenon
<1>5. PICK U, M :
         /\ Pass(U, M, other, w)
         /\ LookedUp(other, w) = IF w.until <= w.since THEN NoMatch
                                 ELSE IF Cut(M[Len(other)]) THEN Ambiguous
                                 ELSE Verdict(U[Len(other)])
  BY <1>3, LookedUpInOnePass, Zenon
<1>6. Alike(U[Len(hits)], T[Len(hits)]) /\ M[Len(hits)] = N[Len(hits)]
  BY <1>2, <1>3, <1>4, <1>5, SwapPasses
<1>7. Verdict(U[Len(hits)]) = Verdict(T[Len(hits)])
  BY <1>6, VerdictAlike
<1> QED BY <1>3, <1>4, <1>5, <1>6, <1>7 DEF other

-----------------------------------------------------------------------------
(* What a match says of the log.                                           *)

\* What the scan has kept of the first n hits, none of which spoilt it.
Told(acc, hits, n, w) ==
    /\ IsFiniteSet(acc.plates) /\ IsFiniteSet(acc.pairs)
    /\ acc.times = {} <=> acc.pairs = {}
    /\ acc.times # {} => \E e \in acc.times : \A f \in acc.times : f <= e
    /\ ~acc.spoilt =>
          /\ \A j \in 1 .. n : Within(hits[j], w) =>
                LET r == Reading(hits[j], w) IN
                /\ r # "spoilt"
                /\ r = "nobody" => acc.nobody
                /\ r \in {"seen", "nobody", "access"} => hits[j].plate \in acc.plates
                /\ r = "access" => <<hits[j].actor, hits[j].plate>> \in acc.pairs
          /\ \A e \in acc.times : \E j \in 1 .. n :
                /\ Within(hits[j], w) /\ Reading(hits[j], w) = "access"
                /\ hits[j].timestamp = e

LEMMA PassTold ==
    ASSUME NEW hits \in Seq(Hit), NEW w, NEW T, NEW N, Pass(T, N, hits, w)
    PROVE  Told(T[Len(hits)], hits, Len(hits), w)
<1>0. Len(hits) \in Nat /\ \A j \in 1 .. Len(hits) : hits[j] \in Hit
  OBVIOUS
<1> DEFINE S == {n \in Nat : n \in 0 .. Len(hits) => Told(T[n], hits, n, w)}
<1>1. 0 \in S
  <2>1. T[0] = Blank
    BY DEF Pass
  <2>2. IsFiniteSet({})
    BY FS_EmptySet
  <2>3. Told(Blank, hits, 0, w)
    BY <2>2 DEF Told, Blank
  <2> QED BY <2>1, <2>3
<1>2. ASSUME NEW n \in Nat, n \in S PROVE n + 1 \in S
  <2> SUFFICES ASSUME n + 1 \in 0 .. Len(hits)
               PROVE  Told(T[n + 1], hits, n + 1, w)
    OBVIOUS
  <2>1. n \in 0 .. Len(hits) /\ n + 1 \in 1 .. Len(hits) /\ (n + 1) - 1 = n
    BY <1>0
  <2> DEFINE a == T[n]
             b == T[n + 1]
             x == hits[n + 1]
             r == Reading(x, w)
  <2>2. a \in Locals /\ x \in Hit /\ Told(a, hits, n, w)
    BY <1>0, <1>2, <2>1, PassTyped
  <2>3. b = Turn(a, x, w)
    BY <2>1 DEF Pass
  <2>4. \A j \in 1 .. n + 1 : j \in 1 .. n \/ j = n + 1
    OBVIOUS
  <2>5. \A j \in 1 .. n : j \in 1 .. n + 1
    OBVIOUS
  <2>6. CASE ~Within(x, w)
    <3>1. b = a
      BY <2>3, <2>6 DEF Turn
    <3>2. Told(a, hits, n + 1, w)
      BY <2>2, <2>4, <2>5, <2>6, Zenon DEF Told
    <3> QED BY <3>1, <3>2
  <2>7. CASE Within(x, w)
    <3> DEFINE on == ~a.spoilt /\ r \in {"seen", "nobody", "access"}
    <3>1. /\ b.spoilt <=> a.spoilt \/ r = "spoilt"
          /\ b.nobody <=> a.nobody \/ (on /\ r = "nobody")
          /\ b.plates = IF on THEN a.plates \cup {x.plate} ELSE a.plates
          /\ b.pairs = IF on /\ r = "access"
                       THEN a.pairs \cup {<<x.actor, x.plate>>} ELSE a.pairs
          /\ b.times = IF on /\ r = "access" THEN a.times \cup {x.timestamp} ELSE a.times
      <4>1. b = ScanHit(a, x, w)
        BY <2>3, <2>7 DEF Turn
      <4> HIDE DEF a, b, x
      <4> QED BY <4>1, <2>2, TurnFields, Zenon
    <3>2. r = "access" => x.timestamp \in Int
      BY <2>2, ReadingKept, PageAssumption
    <3>3. a.times \subseteq Int
      BY <2>2, PageAssumption DEF Locals
    <3> HIDE DEF a, b, x, r, on
    <3>4. IsFiniteSet(b.plates) /\ IsFiniteSet(b.pairs)
      <4>1. IsFiniteSet(a.plates) /\ IsFiniteSet(a.pairs)
        BY <2>2 DEF Told
      <4>2. IsFiniteSet(a.plates \cup {x.plate})
        BY <4>1, FS_AddElement
      <4>3. IsFiniteSet(a.pairs \cup {<<x.actor, x.plate>>})
        BY <4>1, FS_AddElement
      <4> QED BY <3>1, <4>1, <4>2, <4>3
    <3>5. b.times = {} <=> b.pairs = {}
      BY <2>2, <3>1 DEF Told
    <3>6. b.times # {} => \E e \in b.times : \A f \in b.times : f <= e
      <4>1. a.times # {} => \E e \in a.times : \A f \in a.times : f <= e
        BY <2>2 DEF Told
      <4>2. CASE on /\ r = "access" /\ a.times # {}
        <5>1. PICK e \in a.times : \A f \in a.times : f <= e
          BY <4>1, <4>2
        <5>2. b.times = a.times \cup {x.timestamp} /\ x.timestamp \in Int
          BY <3>1, <3>2, <4>2
        <5>3. CASE x.timestamp <= e
          BY <5>1, <5>2, <5>3
        <5>4. CASE ~(x.timestamp <= e)
          <6>1. \A f \in b.times : f <= x.timestamp
            BY <5>1, <5>2, <5>4, <3>3
          <6> QED BY <6>1, <5>2
        <5> QED BY <5>3, <5>4
      <4>3. CASE on /\ r = "access" /\ a.times = {}
        BY <3>1, <3>2, <4>3
      <4>4. CASE ~(on /\ r = "access")
        BY <3>1, <4>1, <4>4
      <4> QED BY <4>2, <4>3, <4>4
    <3>7. ASSUME ~b.spoilt, NEW j \in 1 .. n + 1, Within(hits[j], w)
          PROVE  /\ Reading(hits[j], w) # "spoilt"
                 /\ Reading(hits[j], w) = "nobody" => b.nobody
                 /\ Reading(hits[j], w) \in {"seen", "nobody", "access"} =>
                       hits[j].plate \in b.plates
                 /\ Reading(hits[j], w) = "access" =>
                       <<hits[j].actor, hits[j].plate>> \in b.pairs
      <4>1. ~a.spoilt /\ r # "spoilt"
        BY <3>1, <3>7, Zenon
      <4>2. (a.nobody => b.nobody) /\ a.plates \subseteq b.plates /\ a.pairs \subseteq b.pairs
        BY <3>1, Zenon
      <4>3. CASE j \in 1 .. n
        <5>1. /\ Reading(hits[j], w) # "spoilt"
              /\ Reading(hits[j], w) = "nobody" => a.nobody
              /\ Reading(hits[j], w) \in {"seen", "nobody", "access"} =>
                    hits[j].plate \in a.plates
              /\ Reading(hits[j], w) = "access" =>
                    <<hits[j].actor, hits[j].plate>> \in a.pairs
          BY <2>2, <3>7, <4>1, <4>3, Zenon DEF Told
        <5> QED BY <5>1, <4>2, Zenon
      <4>4. CASE j = n + 1
        <5>1. hits[j] = x /\ Reading(hits[j], w) = r
          BY <4>4 DEF x, r
        <5>2. r \in {"seen", "nobody", "access"} => on
          BY <4>1 DEF on
        <5>3. r = "nobody" => r \in {"seen", "nobody", "access"}
          OBVIOUS
        <5>4. r = "access" => r \in {"seen", "nobody", "access"}
          OBVIOUS
        <5>5. r = "nobody" => b.nobody
          BY <3>1, <5>2, <5>3, Zenon
        <5>6. r \in {"seen", "nobody", "access"} => x.plate \in b.plates
          BY <3>1, <5>2
        <5>7. r = "access" => <<x.actor, x.plate>> \in b.pairs
          BY <3>1, <5>2, <5>4
        <5> QED BY <5>1, <4>1, <5>5, <5>6, <5>7, Zenon
      <4> QED BY <2>4, <4>3, <4>4, <3>7
    <3>8. ASSUME ~b.spoilt, NEW e \in b.times
          PROVE  \E j \in 1 .. n + 1 : /\ Within(hits[j], w) /\ Reading(hits[j], w) = "access"
                                       /\ hits[j].timestamp = e
      <4>1. ~a.spoilt
        BY <3>1, <3>8, Zenon
      <4>2. CASE e \in a.times
        <5>1. \E j \in 1 .. n : /\ Within(hits[j], w) /\ Reading(hits[j], w) = "access"
                                /\ hits[j].timestamp = e
          BY <2>2, <4>1, <4>2, Zenon DEF Told
        <5> QED BY <5>1, <2>5
      <4>3. CASE e \notin a.times
        <5>1. r = "access" /\ e = x.timestamp
          BY <3>1, <3>8, <4>3
        <5>2. n + 1 \in 1 .. n + 1
          OBVIOUS
        <5> QED BY <5>1, <5>2, <2>7 DEF x, r
      <4> QED BY <4>2, <4>3
    <3> QED BY <3>4, <3>5, <3>6, <3>7, <3>8, Zenon DEF Told, b
  <2> QED BY <2>6, <2>7
<1> HIDE DEF S
<1>3. \A n \in Nat : n \in S
  BY <1>1, <1>2, SetInduction
<1> QED BY <1>0, <1>3 DEF S

LEMMA AtMostOne ==
    ASSUME NEW S, IsFiniteSet(S), ~(Cardinality(S) > 1), NEW x \in S, NEW y \in S
    PROVE  x = y
<1>1. Cardinality(S) \in Nat
  BY FS_CardinalityType
<1>2. Cardinality(S) # 0
  BY FS_EmptySet
<1>3. Cardinality(S) = 1
  BY <1>1, <1>2
<1>4. \E z : S = {z}
  BY <1>3, FS_Singleton
<1> QED BY <1>4

\* Cutting a time to whole seconds does not raise it.
LEMMA WholeSecondBelow ==
    ASSUME NEW a \in Int
    PROVE  WholeSecond(a) \in Int /\ WholeSecond(a) <= a
<1>1. Second \in Nat \ {0}
  BY PageAssumption
<1> QED BY <1>1, Z3 DEF WholeSecond

\* What a hit that could be an entry is, if it has not spoilt the scan.
LEMMA EntryRead ==
    ASSUME NEW hit \in Hit, NEW w, w.since \in Int, w.until \in Int,
           EntrySide(hit, AskedPart(w))
    PROVE  /\ Within(hit, w)
           /\ Reading(hit, w) # "spoilt" =>
                 /\ Reading(hit, w) \in {"seen", "nobody", "access"}
                 /\ hit.target = "gate" /\ hit.direction = "entry"
                 /\ hit.timestamp # Omitted
                 /\ hit.result \in {"ACCESS", "BLOCKED"}
                 /\ hit.result = "ACCESS" => Reading(hit, w) \in {"nobody", "access"}
<1>1. /\ hit.target \in {"gate", "elsewhere", "omitted"}
      /\ hit.timestamp \in HitTimes \cup {Omitted}
      /\ hit.direction \in {"entry", "exit", "unclear"}
      /\ hit.result \in {"ACCESS", "BLOCKED", "omitted"}
  BY DEF Hit, Hits
<1>2. Within(hit, w)
  <2> SUFFICES ASSUME hit.timestamp # Omitted
               PROVE  hit.timestamp \in WholeSecond(w.since) .. WholeSecond(w.until)
    BY DEF Within
  <2>1. hit.timestamp \in Int
    BY <1>1, PageAssumption
  <2>2. hit.timestamp > w.since /\ hit.timestamp <= WholeSecond(w.until)
    BY DEF EntrySide, AskedPart
  <2>3. /\ WholeSecond(w.since) \in Int /\ WholeSecond(w.since) <= w.since
        /\ WholeSecond(w.until) \in Int
    BY WholeSecondBelow
  <2> QED BY <2>1, <2>2, <2>3
<1>3. ASSUME Reading(hit, w) # "spoilt"
      PROVE  /\ Reading(hit, w) \in {"seen", "nobody", "access"}
             /\ hit.target = "gate" /\ hit.direction = "entry"
             /\ hit.timestamp # Omitted
             /\ hit.result \in {"ACCESS", "BLOCKED"}
             /\ hit.result = "ACCESS" => Reading(hit, w) \in {"nobody", "access"}
  <2>1. EntrySide(hit, w)
    <3>1. hit.timestamp # Omitted => hit.timestamp <= w.until
      <4>1. hit.timestamp # Omitted => hit.timestamp \in Int
        BY <1>1, PageAssumption
      <4>2. hit.timestamp # Omitted => hit.timestamp <= WholeSecond(w.until)
        BY DEF EntrySide, AskedPart
      <4>3. WholeSecond(w.until) \in Int /\ WholeSecond(w.until) <= w.until
        BY WholeSecondBelow
      <4> QED BY <4>1, <4>2, <4>3
    <3> QED BY <3>1 DEF EntrySide, AskedPart
  <2> QED BY <1>1, <1>3, <2>1 DEF EntrySide, Reading, InWindow
<1> QED BY <1>2, <1>3

\* An access that is listed is an entry of the part asked for.
LEMMA AccessRead ==
    ASSUME NEW hit \in Hit, NEW w, Within(hit, w), Reading(hit, w) = "access",
           w.since \in Int, w.until \in Int
    PROVE  /\ EntrySide(hit, AskedPart(w))
           /\ hit.result = "ACCESS" /\ hit.timestamp # Omitted
           /\ hit.direction = "entry" /\ hit.target = "gate"
           /\ InWindow(hit.timestamp, w)
<1>1. /\ hit.target \in {"gate", "elsewhere", "omitted"}
      /\ hit.direction \in {"entry", "exit", "unclear"}
  BY DEF Hit, Hits
<1>2. /\ hit.result = "ACCESS" /\ hit.timestamp # Omitted
      /\ hit.direction = "entry" /\ hit.target = "gate"
      /\ hit.provider = "LICENSEPLATE"
      /\ InWindow(hit.timestamp, w)
  BY <1>1 DEF Reading
<1>3. WholeSecond(w.since) \in Int /\ WholeSecond(w.until) \in Int
  BY WholeSecondBelow
<1>4. hit.timestamp <= WholeSecond(w.until)
  BY <1>2, <1>3 DEF Within
<1> QED BY <1>2, <1>4 DEF EntrySide, AskedPart, InWindow

LEMMA MatchTells ==
    ASSUME NEW hits \in Seq(Hit), NEW w, w.since \in Int, w.until \in Int,
           LookedUp(hits, w).kind = "Match"
    PROVE  LET c == LookedUp(hits, w) IN
           /\ c.identity \in Actors \X Plates /\ c.timestamp \in HitTimes
           /\ Len(Asked(hits, w)) <= PageSize
           /\ \A k \in 1 .. Len(hits) : EntrySide(hits[k], AskedPart(w)) =>
                 /\ hits[k].target = "gate" /\ hits[k].direction = "entry"
                 /\ hits[k].timestamp # Omitted
                 /\ hits[k].plate = c.identity[2]
                 /\ hits[k].result \in {"ACCESS", "BLOCKED"}
                 /\ hits[k].result = "ACCESS" => hits[k].actor = c.identity[1]
           /\ \E k \in 1 .. Len(hits) :
                 /\ Within(hits[k], w) /\ Reading(hits[k], w) = "access"
                 /\ hits[k].timestamp = c.timestamp
                 /\ <<hits[k].actor, hits[k].plate>> = c.identity
<1> DEFINE c == LookedUp(hits, w)
<1>0. Len(hits) \in Nat /\ \A j \in 1 .. Len(hits) : hits[j] \in Hit
  OBVIOUS
<1>1. PICK T, N :
         /\ Pass(T, N, hits, w)
         /\ N[Len(hits)] = Len(Asked(hits, w))
         /\ c = IF w.until <= w.since THEN NoMatch
                ELSE IF Cut(N[Len(hits)]) THEN Ambiguous
                ELSE Verdict(T[Len(hits)])
  BY LookedUpInOnePass, Zenon
<1> DEFINE acc == T[Len(hits)]
<1>2. acc \in Locals /\ N[Len(hits)] \in Nat /\ Told(acc, hits, Len(hits), w)
  BY <1>0, <1>1, PassTyped, PassTold
<1> HIDE DEF c, acc
<1>3. c.kind = "Match"
  BY DEF c
<1>4. c = Verdict(acc) /\ ~Cut(N[Len(hits)])
  BY <1>1, <1>3 DEF NoMatch, Ambiguous, acc
<1>5. Len(Asked(hits, w)) <= PageSize
  BY <1>1, <1>2, <1>4, PageAssumption DEF Cut
<1>6. /\ ~acc.spoilt /\ ~acc.nobody
      /\ ~(Cardinality(acc.plates) > 1) /\ ~(Cardinality(acc.pairs) > 1)
      /\ acc.pairs # {}
      /\ c = Match(CHOOSE i \in acc.pairs : TRUE,
                   CHOOSE e \in acc.times : \A f \in acc.times : f <= e)
  BY <1>3, <1>4 DEF Verdict, NoMatch, Ambiguous
<1>7. c.identity \in acc.pairs
  BY <1>6 DEF Match
<1>8. c.timestamp \in acc.times
  <2>1. acc.times # {}
    BY <1>2, <1>6 DEF Told
  <2>2. \E e \in acc.times : \A f \in acc.times : f <= e
    BY <1>2, <2>1 DEF Told
  <2> QED BY <1>6, <2>2 DEF Match
<1>9. /\ \A j \in 1 .. Len(hits) : Within(hits[j], w) =>
            /\ Reading(hits[j], w) # "spoilt"
            /\ Reading(hits[j], w) # "nobody"
            /\ Reading(hits[j], w) \in {"seen", "nobody", "access"} =>
                  hits[j].plate \in acc.plates
            /\ Reading(hits[j], w) = "access" =>
                  <<hits[j].actor, hits[j].plate>> \in acc.pairs
      /\ \A e \in acc.times : \E j \in 1 .. Len(hits) :
            /\ Within(hits[j], w) /\ Reading(hits[j], w) = "access"
            /\ hits[j].timestamp = e
  BY <1>2, <1>6, Zenon DEF Told
<1>10. IsFiniteSet(acc.plates) /\ IsFiniteSet(acc.pairs)
  BY <1>2 DEF Told
<1>11. PICK m \in 1 .. Len(hits) : /\ Within(hits[m], w) /\ Reading(hits[m], w) = "access"
                                   /\ hits[m].timestamp = c.timestamp
  BY <1>8, <1>9
<1>12. <<hits[m].actor, hits[m].plate>> = c.identity /\ hits[m].plate \in acc.plates
  <2>1. <<hits[m].actor, hits[m].plate>> \in acc.pairs /\ hits[m].plate \in acc.plates
    BY <1>9, <1>11
  <2>2. \A x, y \in acc.pairs : x = y
    BY <1>6, <1>10, AtMostOne
  <2> QED BY <2>1, <2>2, <1>7
<1>13. c.identity[1] = hits[m].actor /\ c.identity[2] = hits[m].plate
  BY <1>12
<1>14. ASSUME NEW k \in 1 .. Len(hits), EntrySide(hits[k], AskedPart(w))
       PROVE  /\ hits[k].target = "gate" /\ hits[k].direction = "entry"
              /\ hits[k].timestamp # Omitted
              /\ hits[k].plate = c.identity[2]
              /\ hits[k].result \in {"ACCESS", "BLOCKED"}
              /\ hits[k].result = "ACCESS" => hits[k].actor = c.identity[1]
  <2>1. hits[k] \in Hit
    BY <1>0
  <2>2. Within(hits[k], w)
    BY <1>14, <2>1, EntryRead
  <2>3. Reading(hits[k], w) # "spoilt"
    BY <1>9, <2>2
  <2>4. /\ Reading(hits[k], w) \in {"seen", "nobody", "access"}
        /\ hits[k].target = "gate" /\ hits[k].direction = "entry"
        /\ hits[k].timestamp # Omitted
        /\ hits[k].result \in {"ACCESS", "BLOCKED"}
        /\ hits[k].result = "ACCESS" => Reading(hits[k], w) \in {"nobody", "access"}
    BY <1>14, <2>1, <2>3, EntryRead
  <2>5. hits[k].plate = hits[m].plate
    <3>1. hits[k].plate \in acc.plates
      BY <1>9, <2>2, <2>4
    <3> QED BY <3>1, <1>6, <1>10, <1>12, AtMostOne
  <2>6. ASSUME hits[k].result = "ACCESS" PROVE hits[k].actor = c.identity[1]
    <3>1. Reading(hits[k], w) = "access"
      BY <2>2, <2>4, <2>6, <1>9
    <3>2. <<hits[k].actor, hits[k].plate>> \in acc.pairs
      BY <3>1, <1>9, <2>2
    <3>3. <<hits[k].actor, hits[k].plate>> = c.identity
      BY <3>2, <1>6, <1>7, <1>10, AtMostOne
    <3> QED BY <3>3
  <2> QED BY <2>4, <2>5, <2>6, <1>13
<1>15. c.identity \in Actors \X Plates /\ c.timestamp \in HitTimes
  BY <1>2, <1>7, <1>8 DEF Locals
<1> QED BY <1>5, <1>11, <1>12, <1>14, <1>15 DEF c

LEMMA EveryLogIsSole ==
    ASSUME NEW hits \in Seq(Hit), NEW w, w.since \in Int, w.until \in Int
    PROVE  SoleEntry(hits, w)
<1> DEFINE c == LookedUp(hits, w)
           entries == {x \in {hits[k] : k \in DOMAIN hits} : EntrySide(x, AskedPart(w))}
<1> SUFFICES ASSUME c.kind = "Match"
             PROVE  /\ Len(Asked(hits, w)) <= PageSize
                    /\ \A hit \in entries :
                          /\ hit.target = "gate" /\ hit.direction = "entry"
                          /\ hit.timestamp # Omitted
                          /\ hit.plate = c.identity[2]
                          /\ hit.result \in {"ACCESS", "BLOCKED"}
                          /\ hit.result = "ACCESS" => hit.actor = c.identity[1]
                    /\ \E hit \in entries :
                          hit.result = "ACCESS" /\ hit.timestamp = c.timestamp
  BY DEF SoleEntry
<1>1. /\ Len(Asked(hits, w)) <= PageSize
      /\ \A k \in 1 .. Len(hits) : EntrySide(hits[k], AskedPart(w)) =>
            /\ hits[k].target = "gate" /\ hits[k].direction = "entry"
            /\ hits[k].timestamp # Omitted
            /\ hits[k].plate = c.identity[2]
            /\ hits[k].result \in {"ACCESS", "BLOCKED"}
            /\ hits[k].result = "ACCESS" => hits[k].actor = c.identity[1]
      /\ \E k \in 1 .. Len(hits) :
            /\ Within(hits[k], w) /\ Reading(hits[k], w) = "access"
            /\ hits[k].timestamp = c.timestamp
  BY MatchTells, Zenon
<1> HIDE DEF c
<1>2. DOMAIN hits = 1 .. Len(hits) /\ \A k \in 1 .. Len(hits) : hits[k] \in Hit
  OBVIOUS
<1>3. ASSUME NEW hit \in entries
      PROVE  /\ hit.target = "gate" /\ hit.direction = "entry"
             /\ hit.timestamp # Omitted
             /\ hit.plate = c.identity[2]
             /\ hit.result \in {"ACCESS", "BLOCKED"}
             /\ hit.result = "ACCESS" => hit.actor = c.identity[1]
  <2>1. PICK k \in 1 .. Len(hits) : hit = hits[k] /\ EntrySide(hits[k], AskedPart(w))
    BY <1>2, <1>3
  <2> QED BY <1>1, <2>1
<1>4. \E hit \in entries : hit.result = "ACCESS" /\ hit.timestamp = c.timestamp
  <2>1. PICK k \in 1 .. Len(hits) :
           /\ Within(hits[k], w) /\ Reading(hits[k], w) = "access"
           /\ hits[k].timestamp = c.timestamp
    BY <1>1
  <2>2. EntrySide(hits[k], AskedPart(w)) /\ hits[k].result = "ACCESS"
    BY <1>2, <2>1, AccessRead
  <2>3. hits[k] \in entries
    BY <1>2, <2>2
  <2> QED BY <2>1, <2>2, <2>3
<1> QED BY <1>1, <1>3, <1>4

-----------------------------------------------------------------------------
(* The inductive invariant of the whole: what is kept of a lookup, on file *)
(* or in the cache, is about an event in the log, and the window of a      *)
(* lookup is that of its passage.                                          *)

CameBy(l, i, e) ==
    \E k \in DOMAIN l :
        /\ l[k].target = "gate" /\ l[k].direction = "entry"
        /\ l[k].result = "ACCESS"
        /\ <<l[k].actor, l[k].plate>> = i
        /\ l[k].timestamp = e

GoodRow(l, row) ==
    row.correlation_status = "matched" =>
        /\ row.lpr_event_ms > row.started_at_ms - Window
        /\ row.lpr_event_ms <= row.last_seen_ms + Window
        /\ CameBy(l, row.identity, row.lpr_event_ms)

GoodReply(l, reply) ==
    /\ reply.kind \in {"NoMatch", "Ambiguous", "Match"}
    /\ reply.kind = "Match" =>
          /\ reply.identity \in Identities /\ reply.timestamp \in HitTimes
          /\ CameBy(l, reply.identity, reply.timestamp)

GoodLook(P, w) ==
    /\ w.since \in Int /\ w.until \in Int /\ w.passage \in PassageIds
    /\ w.passage \in DOMAIN P =>
          /\ w.since = P[w.passage].started_at_ms - Window
          /\ w.until <= P[w.passage].last_seen_ms + Window

MatchInv ==
    /\ IInv
    /\ log \in Seq(Kinds)
    /\ now \in Times
    /\ looking # None => GoodLook(passages, looking)
    /\ cache # None => GoodReply(log, cache.reply)
    /\ \A p \in DOMAIN passages : GoodRow(log, passages[p])

LEMMA LogTyped == ASSUME MatchInv PROVE log \in Seq(Hit)
BY PageAssumption DEF MatchInv, Hit

LEMMA MatchInvImplies ==
    MatchInv => OrderDoesNotMatter /\ MatchIsSoleEntry /\ MatchedVehicleCameBy
                /\ OneVotePerEvent
<1> SUFFICES ASSUME MatchInv
             PROVE  OrderDoesNotMatter /\ MatchIsSoleEntry /\ MatchedVehicleCameBy
                    /\ OneVotePerEvent
  OBVIOUS
<1>1. log \in Seq(Hit)
  BY LogTyped
<1>2. \A hits \in Logs : hits \in Seq(Hit)
  BY PageAssumption DEF Hit
<1>3. \A w \in Windows : w.since \in Int /\ w.until \in Int
  BY PageAssumption DEF Windows
<1>4. OrderDoesNotMatter
  <2>1. Swappable(log, looking)
    BY <1>1, EveryLogIsSwappable
  <2>2. EveryLogSwappable
    BY <1>2, EveryLogIsSwappable DEF EveryLogSwappable
  <2> QED BY <2>1, <2>2 DEF OrderDoesNotMatter
<1>5. MatchIsSoleEntry
  <2>1. ASSUME looking # None PROVE SoleEntry(log, looking)
    <3>1. looking.since \in Int /\ looking.until \in Int
      BY <2>1 DEF MatchInv, GoodLook
    <3> QED BY <1>1, <3>1, EveryLogIsSole
  <2>2. EveryLogSole
    BY <1>2, <1>3, EveryLogIsSole DEF EveryLogSole
  <2> QED BY <2>1, <2>2 DEF MatchIsSoleEntry
<1>6. MatchedVehicleCameBy
  BY DEF MatchInv, GoodRow, CameBy, MatchedVehicleCameBy
<1>7. OneVotePerEvent
  <2> SUFFICES ASSUME 2 * Window <= Gap + 1,
                      NEW p \in DOMAIN passages, NEW q \in DOMAIN passages,
                      p # q, passages[p].tag_key = passages[q].tag_key,
                      passages[p].correlation_status = "matched",
                      passages[q].correlation_status = "matched"
               PROVE  passages[p].lpr_event_ms # passages[q].lpr_event_ms
    BY DEF OneVotePerEvent
  <2>1. /\ SoundGaps(passages) /\ p \in Nat /\ q \in Nat
        /\ passages[p] \in PassageRow /\ passages[q] \in PassageRow
    BY DEF MatchInv, IInv, Sound, SoundTypes, PassageIds
  <2>2. /\ passages[p].lpr_event_ms \in Nat /\ passages[q].lpr_event_ms \in Nat
        /\ passages[p].started_at_ms \in Nat /\ passages[q].started_at_ms \in Nat
        /\ passages[p].last_seen_ms \in Nat /\ passages[q].last_seen_ms \in Nat
    <3>1. IdentityMatchesStatus(passages[p]) /\ IdentityMatchesStatus(passages[q])
      BY DEF MatchInv, IInv, Sound, SoundRows, SoundRow
    <3> QED BY <2>1, <3>1, LogAssumption DEF PassageRow, Times, IdentityMatchesStatus
  <2>3. /\ passages[p].lpr_event_ms > passages[p].started_at_ms - Window
        /\ passages[p].lpr_event_ms <= passages[p].last_seen_ms + Window
        /\ passages[q].lpr_event_ms > passages[q].started_at_ms - Window
        /\ passages[q].lpr_event_ms <= passages[q].last_seen_ms + Window
    BY DEF MatchInv, GoodRow
  <2>4. p < q \/ q < p
    BY <2>1
  <2>5. CASE p < q
    <3>1. passages[q].started_at_ms - passages[p].last_seen_ms > Gap
      BY <2>1, <2>5 DEF SoundGaps
    <3> QED BY <3>1, <2>2, <2>3, ConfigAssumption, WindowAssumption
  <2>6. CASE q < p
    <3>1. passages[p].started_at_ms - passages[q].last_seen_ms > Gap
      BY <2>1, <2>6 DEF SoundGaps
    <3> QED BY <3>1, <2>2, <2>3, ConfigAssumption, WindowAssumption
  <2> QED BY <2>4, <2>5, <2>6
<1> QED BY <1>4, <1>5, <1>6, <1>7

-----------------------------------------------------------------------------
\* The window a sighting is looked up with is that of its passage.
LEMMA SightedLook ==
    ASSUME IInv, IInv', now \in Times, NEW t \in Tags,
           OpenPassage(t, now) \/ ContinuePassage(t, now)
    PROVE  GoodLook(passages', Look(seen'.passage_id, tags'[t].session_started_ms, now))
<1> DEFINE p == seen'.passage_id
           w == Look(p, tags'[t].session_started_ms, now)
<1>1. /\ t \in DOMAIN tags' /\ tags'[t].current_passage_id = p
      /\ tags'[t].last_seen_ms >= now /\ p # None
  BY SightedTag
<1>2. /\ p \in DOMAIN passages'
      /\ passages'[p].started_at_ms = tags'[t].session_started_ms
      /\ passages'[p].last_seen_ms = tags'[t].last_seen_ms
      /\ passages'[p] \in PassageRow /\ p \in PassageIds
  BY <1>1 DEF IInv, Sound, SoundCurrent, SoundTypes
<1>3. /\ w.passage = p /\ w.since = tags'[t].session_started_ms - Window
      /\ w.until = Earlier(now + Window, now)
  BY DEF Look
<1>4. /\ passages'[p].started_at_ms \in Nat /\ passages'[p].last_seen_ms \in Nat
      /\ now \in Nat /\ Window \in Nat
  BY <1>2, LogAssumption, WindowAssumption DEF PassageRow, Times
<1>5. w.until \in Int /\ w.until <= now + Window
  BY <1>3, <1>4 DEF Earlier
<1>6. w.since \in Int
  BY <1>2, <1>3, <1>4
<1> HIDE DEF w, p
<1>7. w.until <= passages'[p].last_seen_ms + Window
  BY <1>1, <1>2, <1>4, <1>5
<1>8. GoodLook(passages', w)
  BY <1>2, <1>3, <1>5, <1>6, <1>7 DEF GoodLook
<1> QED BY <1>8 DEF w, p

\* A sighting widens the window of a matched passage, or opens a passage.
LEMMA SightedGood ==
    ASSUME MatchInv, NEW t \in Tags,
           OpenPassage(t, now) \/ ContinuePassage(t, now)
    PROVE  \A p \in DOMAIN passages' : GoodRow(log, passages'[p])
<1> SUFFICES ASSUME NEW p \in DOMAIN passages' PROVE GoodRow(log, passages'[p])
  OBVIOUS
<1> DEFINE s == seen'.passage_id
<1>0. IInv /\ now \in Times
  BY DEF MatchInv
<1>1. /\ DOMAIN passages' \ {s} \subseteq DOMAIN passages
      /\ \A q \in DOMAIN passages' \ {s} : passages'[q] = passages[q]
      /\ s \in DOMAIN passages =>
            /\ passages'[s].started_at_ms = passages[s].started_at_ms
            /\ passages'[s].last_seen_ms = Later(passages[s].last_seen_ms, now)
            /\ passages'[s].correlation_status = passages[s].correlation_status
            /\ passages'[s].identity = passages[s].identity
            /\ passages'[s].lpr_event_ms = passages[s].lpr_event_ms
      /\ s \notin DOMAIN passages => passages'[s].correlation_status = "pending"
  BY <1>0, SightedRows
<1> HIDE DEF s
<1>2. CASE p # s
  BY <1>1, <1>2 DEF MatchInv
<1>3. CASE p = s /\ s \notin DOMAIN passages
  BY <1>1, <1>3 DEF GoodRow
<1>4. CASE p = s /\ s \in DOMAIN passages
  <2> SUFFICES ASSUME passages[s].correlation_status = "matched"
               PROVE  GoodRow(log, passages'[s])
    BY <1>1, <1>4 DEF GoodRow
  <2>1. /\ passages[s].lpr_event_ms > passages[s].started_at_ms - Window
        /\ passages[s].lpr_event_ms <= passages[s].last_seen_ms + Window
        /\ CameBy(log, passages[s].identity, passages[s].lpr_event_ms)
    BY <1>4 DEF MatchInv, GoodRow
  <2>2. passages[s] \in PassageRow /\ IdentityMatchesStatus(passages[s])
    BY <1>0, <1>4 DEF IInv, Sound, SoundTypes, SoundRows, SoundRow
  <2>3. /\ passages[s].last_seen_ms \in Times /\ passages[s].lpr_event_ms \in Nat
        /\ Window \in Nat
    BY <2>2, WindowAssumption DEF PassageRow, IdentityMatchesStatus
  <2>4. /\ Later(passages[s].last_seen_ms, now) \in Times
        /\ Later(passages[s].last_seen_ms, now) >= passages[s].last_seen_ms
    BY <1>0, <2>3, LaterTime
  <2>5. passages[s].lpr_event_ms <= Later(passages[s].last_seen_ms, now) + Window
    BY <2>1, <2>3, <2>4 DEF Times
  <2> QED BY <1>1, <1>4, <2>1, <2>5 DEF GoodRow
<1> QED BY <1>2, <1>3, <1>4

\* A withdrawn match claims nothing.
LEMMA AmbiguatedGood ==
    ASSUME NEW row \in PassageRow
    PROVE  GoodRow(log, Ambiguated(row))
<1>1. Ambiguated(row).correlation_status = "ambiguous"
  BY VerdictFields DEF Ambiguated
<1> QED BY <1>1 DEF GoodRow

\* Recording a match the window allows leaves the row right.
LEMMA RecordedGood ==
    ASSUME NEW row \in PassageRow, IdentityMatchesStatus(row), GoodRow(log, row),
           NEW i, NEW e,
           e > row.started_at_ms - Window, e <= row.last_seen_ms + Window,
           CameBy(log, i, e)
    PROVE  GoodRow(log, MatchedWith(row, i, e))
<1>2. GoodRow(log, Ambiguated(row))
  BY AmbiguatedGood
<1>3. CASE row.correlation_status = "pending"
  <2>1. MatchedWith(row, i, e) =
           [tag_key |-> row.tag_key, started_at_ms |-> row.started_at_ms,
            last_seen_ms |-> row.last_seen_ms, stationary |-> row.stationary,
            correlation_status |-> "matched", identity |-> i, lpr_event_ms |-> e]
    BY <1>3, VerdictFields, Zenon DEF MatchedWith
  <2> DEFINE r == MatchedWith(row, i, e)
  <2>2. r.started_at_ms = row.started_at_ms /\ r.last_seen_ms = row.last_seen_ms
        /\ r.identity = i /\ r.lpr_event_ms = e
    BY <2>1
  <2> HIDE DEF r
  <2>3. GoodRow(log, r)
    BY <2>2 DEF GoodRow
  <2> QED BY <2>3, <1>2 DEF r
<1>4. CASE row.correlation_status = "matched" /\ row.identity # i
  <2>1. MatchedWith(row, i, e) = Ambiguated(row)
    BY <1>4 DEF MatchedWith
  <2> QED BY <2>1, <1>2
<1>5. CASE /\ row.correlation_status # "pending"
           /\ ~(row.correlation_status = "matched" /\ row.identity # i)
  <2>1. MatchedWith(row, i, e) = row
    BY <1>5, Zenon DEF MatchedWith
  <2> QED BY <2>1, <1>2
<1> QED BY <1>3, <1>4, <1>5

\* A verdict on a reply that is good for the window is an operation of the
\* store and leaves the rows right.
LEMMA SettledGood ==
    ASSUME MatchInv, looking # None, NEW reply, GoodReply(log, reply),
           reply.kind = "Match" => InWindow(reply.timestamp, looking),
           Settle(reply)
    PROVE  /\ [Next]_vars
           /\ \A p \in DOMAIN passages' : GoodRow(log, passages'[p])
<1> DEFINE q == looking.passage
<1>1. /\ looking.since \in Int /\ looking.until \in Int /\ q \in PassageIds
      /\ q \in DOMAIN passages =>
            /\ looking.since = passages[q].started_at_ms - Window
            /\ looking.until <= passages[q].last_seen_ms + Window
  BY DEF MatchInv, GoodLook
<1>2. \A p \in DOMAIN passages : /\ passages[p] \in PassageRow
                                 /\ IdentityMatchesStatus(passages[p])
                                 /\ GoodRow(log, passages[p])
  BY DEF MatchInv, IInv, Sound, SoundTypes, SoundRows, SoundRow
<1> HIDE DEF q
<1>3. CASE reply.kind = "NoMatch"
  <2>1. UNCHANGED vars
    BY <1>3 DEF Settle
  <2> QED BY <2>1, <1>2 DEF vars
<1>4. CASE reply.kind = "Ambiguous"
  <2>1. MarkAmbiguous(q)
    BY <1>4 DEF Settle, q
  <2>2. Next
    BY <2>1, <1>1 DEF Next
  <2>3. ASSUME NEW p \in DOMAIN passages' PROVE GoodRow(log, passages'[p])
    <3>1. p \in DOMAIN passages /\ passages'[p] \in {passages[p], Ambiguated(passages[p])}
      BY <2>1, <2>3 DEF MarkAmbiguous
    <3>2. passages[p] \in PassageRow
      BY <3>1, <1>2
    <3>3. GoodRow(log, Ambiguated(passages[p]))
      BY <3>2, AmbiguatedGood
    <3> QED BY <3>1, <3>3, <1>2
  <2> QED BY <2>2, <2>3
<1>5. CASE reply.kind = "Match"
  <2>1. IF q \in DOMAIN passages
        THEN RecordMatch(q, reply.identity, reply.timestamp) ELSE UNCHANGED vars
    BY <1>5 DEF Settle, q
  <2>2. CASE q \notin DOMAIN passages
    <3>1. UNCHANGED vars
      BY <2>1, <2>2
    <3> QED BY <3>1, <1>2 DEF vars
  <2>3. CASE q \in DOMAIN passages
    <3> DEFINE i == reply.identity
               e == reply.timestamp
    <3>1. RecordMatch(q, i, e)
      BY <2>1, <2>3
    <3>2. /\ i \in Identities /\ e \in HitTimes /\ CameBy(log, i, e)
          /\ e > looking.since /\ e <= looking.until
      BY <1>5 DEF GoodReply, InWindow
    <3>3. e \in EventTimes /\ e \in Int
      BY <3>2, WindowAssumption, PageAssumption
    <3> HIDE DEF i, e
    <3>4. Next
      BY <3>1, <3>2, <3>3, <1>1 DEF Next
    <3>5. e > passages[q].started_at_ms - Window /\ e <= passages[q].last_seen_ms + Window
      <4>1. passages[q].last_seen_ms \in Nat /\ Window \in Nat
        BY <1>2, <2>3, LogAssumption, WindowAssumption DEF PassageRow, Times
      <4> QED BY <1>1, <2>3, <3>2, <3>3, <4>1
    <3>6. GoodRow(log, MatchedWith(passages[q], i, e))
      BY <1>2, <2>3, <3>2, <3>5, RecordedGood
    <3>7. ASSUME NEW p \in DOMAIN passages' PROVE GoodRow(log, passages'[p])
      <4> DEFINE row == MatchedWith(passages[q], i, e)
      <4>1. passages' = [passages EXCEPT ![q] = row]
        BY <3>1, Zenon DEF RecordMatch
      <4>2. GoodRow(log, row)
        BY <3>6
      <4> HIDE DEF row
      <4>3. DOMAIN passages' = DOMAIN passages
        BY <4>1
      <4>4. passages'[p] = passages[p] \/ passages'[p] = row
        BY <4>1, <4>3, <3>7
      <4> QED BY <4>2, <4>3, <4>4, <3>7, <1>2
    <3> QED BY <3>4, <3>7
  <2> QED BY <2>2, <2>3
<1> QED BY <1>3, <1>4, <1>5 DEF GoodReply

\* What UniFi Access answers about the log is good for its window.
LEMMA LookedUpGood ==
    ASSUME NEW hits \in Seq(Hit), NEW w, w.since \in Int, w.until \in Int
    PROVE  /\ GoodReply(hits, LookedUp(hits, w))
           /\ LookedUp(hits, w).kind = "Match" => InWindow(LookedUp(hits, w).timestamp, w)
<1> DEFINE c == LookedUp(hits, w)
<1>1. c.kind \in {"NoMatch", "Ambiguous", "Match"}
  BY DEF LookedUp, Correlate, Verdict, NoMatch, Ambiguous, Match
<1>2. ASSUME c.kind = "Match"
      PROVE  /\ c.identity \in Identities /\ c.timestamp \in HitTimes
             /\ CameBy(hits, c.identity, c.timestamp)
             /\ InWindow(c.timestamp, w)
  <2>1. /\ c.identity \in Actors \X Plates /\ c.timestamp \in HitTimes
        /\ \E k \in 1 .. Len(hits) :
              /\ Within(hits[k], w) /\ Reading(hits[k], w) = "access"
              /\ hits[k].timestamp = c.timestamp
              /\ <<hits[k].actor, hits[k].plate>> = c.identity
    BY <1>2, MatchTells, Zenon
  <2> HIDE DEF c
  <2>2. PICK k \in 1 .. Len(hits) :
           /\ Within(hits[k], w) /\ Reading(hits[k], w) = "access"
           /\ hits[k].timestamp = c.timestamp
           /\ <<hits[k].actor, hits[k].plate>> = c.identity
    BY <2>1
  <2>3. k \in DOMAIN hits /\ hits[k] \in Hit
    OBVIOUS
  <2>4. /\ hits[k].result = "ACCESS" /\ hits[k].direction = "entry"
        /\ hits[k].target = "gate" /\ InWindow(hits[k].timestamp, w)
    BY <2>2, <2>3, AccessRead
  <2>5. CameBy(hits, c.identity, c.timestamp)
    BY <2>2, <2>3, <2>4 DEF CameBy
  <2> QED BY <2>1, <2>2, <2>4, <2>5, WindowAssumption
<1> HIDE DEF c
<1>3. GoodReply(hits, c) /\ (c.kind = "Match" => InWindow(c.timestamp, w))
  BY <1>1, <1>2 DEF GoodReply
<1> QED BY <1>3 DEF c

-----------------------------------------------------------------------------
\* An event that is published does not undo what has come by.
LEMMA PublishedGood ==
    ASSUME NEW l \in Seq(Kinds), NEW hit \in Kinds
    PROVE  /\ Append(l, hit) \in Seq(Kinds)
           /\ \A i, e : CameBy(l, i, e) => CameBy(Append(l, hit), i, e)
           /\ \A row : GoodRow(l, row) => GoodRow(Append(l, hit), row)
           /\ \A reply : GoodReply(l, reply) => GoodReply(Append(l, hit), reply)
<1> DEFINE m == Append(l, hit)
<1>1. m \in Seq(Kinds) /\ \A k \in DOMAIN l : k \in DOMAIN m /\ m[k] = l[k]
  OBVIOUS
<1> HIDE DEF m
<1>2. \A i, e : CameBy(l, i, e) => CameBy(m, i, e)
  BY <1>1 DEF CameBy
<1>3. \A row : GoodRow(l, row) => GoodRow(m, row)
  BY <1>2, Zenon DEF GoodRow
<1>4. \A reply : GoodReply(l, reply) => GoodReply(m, reply)
  BY <1>2, Zenon DEF GoodReply
<1> QED BY <1>1, <1>2, <1>3, <1>4 DEF m

LEMMA MatchInvInit == MatchingInit => MatchInv
<1> SUFFICES ASSUME MatchingInit PROVE MatchInv
  OBVIOUS
<1>1. IInv
  BY InitIInv DEF MatchingInit
<1>2. log = <<>> /\ now = 0 /\ looking = None /\ cache = None /\ DOMAIN passages = {}
  BY DEF MatchingInit, LogInit, Init
<1>3. log \in Seq(Kinds) /\ now \in Times
  BY <1>2, LogAssumption DEF Times
<1> QED BY <1>1, <1>2, <1>3 DEF MatchInv

\* Every step is an operation of the store, or leaves it alone, and keeps
\* the invariant.
LEMMA MatchInvNext ==
    ASSUME MatchInv, [MatchingNext]_matchingVars
    PROVE  MatchInv' /\ [Next]_vars
<1>0. /\ IInv /\ log \in Seq(Kinds) /\ log \in Seq(Hit) /\ now \in Times
      /\ \A p \in DOMAIN passages : GoodRow(log, passages[p])
      /\ looking # None => GoodLook(passages, looking)
      /\ cache # None => GoodReply(log, cache.reply)
  BY LogTyped DEF MatchInv
<1>1. ASSUME NEW t \in Tags, Sight(t) PROVE MatchInv' /\ [Next]_vars
  <2>1. /\ RecordSeen(t, now)
        /\ OpenPassage(t, now) \/ ContinuePassage(t, now)
        /\ log' = log /\ now' = now /\ cache' = cache
        /\ looking' \in {None, Look(seen'.passage_id, tags'[t].session_started_ms, now)}
    BY <1>1 DEF Sight, RecordSeen
  <2>2. Next
    BY <1>0, <2>1 DEF Next
  <2>3. IInv'
    BY <1>0, <2>2, NextIInv
  <2>4. GoodLook(passages', Look(seen'.passage_id, tags'[t].session_started_ms, now))
    BY <1>0, <2>1, <2>3, SightedLook
  <2>5. \A p \in DOMAIN passages' : GoodRow(log, passages'[p])
    BY <2>1, SightedGood
  <2>6. looking' # None => GoodLook(passages', looking')
    BY <2>1, <2>4
  <2> QED BY <1>0, <2>1, <2>2, <2>3, <2>5, <2>6 DEF MatchInv
<1>2. ASSUME NEW p \in PassageIds, Retry(p) PROVE MatchInv' /\ [Next]_vars
  <2>1. /\ p \in DOMAIN passages
        /\ UNCHANGED <<vars, log, now, attempted, cache>>
    BY <1>2 DEF Retry
  <2> DEFINE w == Look(p, passages[p].started_at_ms, passages[p].last_seen_ms)
  <2>2. looking' = w
    BY <1>2 DEF Retry
  <2>3. /\ w.passage = p /\ w.since = passages[p].started_at_ms - Window
        /\ w.until = Earlier(passages[p].last_seen_ms + Window, now)
    BY DEF Look
  <2>4. passages[p] \in PassageRow
    BY <1>0, <2>1 DEF IInv, Sound, SoundTypes
  <2>5. /\ passages[p].started_at_ms \in Nat /\ passages[p].last_seen_ms \in Nat
        /\ now \in Nat /\ Window \in Nat
    BY <1>0, <2>4, LogAssumption, WindowAssumption DEF PassageRow, Times
  <2>6. w.until \in Int /\ w.until <= passages[p].last_seen_ms + Window /\ w.since \in Int
    BY <2>3, <2>5 DEF Earlier
  <2> HIDE DEF w
  <2>7. GoodLook(passages, w)
    BY <2>3, <2>6, <1>2 DEF GoodLook
  <2>8. UNCHANGED vars /\ IInv'
    BY <1>0, <2>1, NextIInv
  <2> QED BY <1>0, <2>1, <2>2, <2>7, <2>8 DEF MatchInv, vars
<1>3. CASE SettleFromCache
  <2>1. /\ looking # None /\ cache # None /\ Settle(cache.reply)
        /\ cache.reply.kind = "Match" => InWindow(cache.reply.timestamp, looking)
        /\ cache' = cache
    BY <1>3 DEF SettleFromCache, CacheServes
  <2>2. /\ [Next]_vars
        /\ \A p \in DOMAIN passages' : GoodRow(log, passages'[p])
    BY <1>0, <2>1, SettledGood
  <2>3. looking' = None /\ log' = log /\ now' = now
    BY <2>1 DEF Settle
  <2>4. IInv'
    BY <1>0, <2>2, NextIInv
  <2> QED BY <1>0, <2>1, <2>2, <2>3, <2>4 DEF MatchInv
<1>4. CASE SettleFromUniFi
  <2> DEFINE reply == LookedUp(log, looking)
  <2>1. /\ looking # None /\ Settle(reply)
        /\ cache' = [fetched |-> looking.at, observed |-> looking.observed,
                     reply |-> reply]
    BY <1>4 DEF SettleFromUniFi
  <2>2. looking.since \in Int /\ looking.until \in Int
    BY <1>0, <2>1 DEF GoodLook
  <2>3. /\ GoodReply(log, reply)
        /\ reply.kind = "Match" => InWindow(reply.timestamp, looking)
    BY <1>0, <2>2, LookedUpGood
  <2> HIDE DEF reply
  <2>4. /\ [Next]_vars
        /\ \A p \in DOMAIN passages' : GoodRow(log, passages'[p])
    BY <2>1, <2>3, SettledGood
  <2>5. looking' = None /\ log' = log /\ now' = now
    BY <2>1 DEF Settle
  <2>6. IInv'
    BY <1>0, <2>4, NextIInv
  <2>7. GoodReply(log, cache'.reply)
    BY <2>1, <2>3
  <2> QED BY <1>0, <2>4, <2>5, <2>6, <2>7 DEF MatchInv
<1>5. CASE LookupFails
  <2>1. looking' = None /\ UNCHANGED <<vars, log, now, cache>>
    BY <1>5 DEF LookupFails
  <2>2. UNCHANGED vars /\ IInv'
    BY <1>0, <2>1, NextIInv
  <2> QED BY <1>0, <2>1, <2>2 DEF MatchInv, vars
<1>6. CASE Restart
  <2>1. looking' = None /\ cache' = None /\ UNCHANGED <<vars, log, now>>
    BY <1>6 DEF Restart
  <2>2. UNCHANGED vars /\ IInv'
    BY <1>0, <2>1, NextIInv
  <2> QED BY <1>0, <2>1, <2>2 DEF MatchInv, vars
<1>7. CASE EventPublished
  <2>1. PICK hit \in Kinds : log' = Append(log, hit)
    BY <1>7 DEF EventPublished, Publish
  <2>2. UNCHANGED <<vars, now, looking, cache>>
    BY <1>7 DEF EventPublished
  <2>3. /\ log' \in Seq(Kinds)
        /\ \A p \in DOMAIN passages : GoodRow(log', passages[p])
        /\ cache # None => GoodReply(log', cache.reply)
    BY <1>0, <2>1, PublishedGood
  <2>4. UNCHANGED vars /\ IInv'
    BY <1>0, <2>2, NextIInv
  <2> QED BY <1>0, <2>2, <2>3, <2>4 DEF MatchInv, vars
<1>8. CASE Tick
  <2>1. now' \in Times /\ UNCHANGED <<vars, log, looking, cache>>
    BY <1>0, <1>8, LogAssumption DEF Tick, Times
  <2>2. UNCHANGED vars /\ IInv'
    BY <1>0, <2>1, NextIInv
  <2> QED BY <1>0, <2>1, <2>2 DEF MatchInv, vars
<1>9. CASE UNCHANGED matchingVars
  <2>1. UNCHANGED <<vars, log, now, looking, cache>>
    BY <1>9 DEF matchingVars
  <2>2. UNCHANGED vars /\ IInv'
    BY <1>0, <2>1, NextIInv
  <2> QED BY <1>0, <2>1, <2>2 DEF MatchInv, vars
<1> QED BY <1>1, <1>2, <1>3, <1>4, <1>5, <1>6, <1>7, <1>8, <1>9 DEF MatchingNext

LEMMA MatchInvHolds == MatchingSpec => []MatchInv
<1>1. MatchInv /\ [MatchingNext]_matchingVars => MatchInv'
  BY MatchInvNext
<1> QED BY MatchInvInit, <1>1, PTL DEF MatchingSpec

\* Looking passages up is nothing but sightings and verdicts to the store:
\* what is proved of PassageLog holds of it.
THEOREM MatchingUsesStore == MatchingSpec => Spec
<1>1. MatchInv /\ [MatchingNext]_matchingVars => [Next]_vars
  BY MatchInvNext
<1>2. MatchingInit => Init
  BY DEF MatchingInit
<1> QED BY <1>1, <1>2, MatchInvHolds, PTL DEF MatchingSpec, Spec

\* For any log, page and window the verdict of find_lpr_user_match does not
\* depend on the order of two neighbours.
THEOREM OrderNeverMatters == MatchingSpec => []OrderDoesNotMatter
  BY MatchInvHolds, MatchInvImplies, PTL

\* For any log, page and window a match is of the one vehicle let in.
THEOREM MatchesAreSole == MatchingSpec => []MatchIsSoleEntry
  BY MatchInvHolds, MatchInvImplies, PTL

\* However late events are published and wherever the reply comes from, a
\* matched passage's vehicle was let in within the passage's window.
THEOREM MatchedCameBy == MatchingSpec => []MatchedVehicleCameBy
  BY MatchInvHolds, MatchInvImplies, PTL

\* An event at the gate is at most one vote for a tag.
THEOREM EventsVoteOnce == MatchingSpec => []OneVotePerEvent
  BY MatchInvHolds, MatchInvImplies, PTL

-----------------------------------------------------------------------------
(* Reports into passages: Intake.                                          *)

QueuedReport == [tag: Tags, at: Times, kind: ReportKinds]

\* The times of t's reports that wait to be taken up.
Pending(w, t) == {w[k].at : k \in {j \in DOMAIN w : w[j].tag = t /\ w[j].kind = "usable"}}

\* Reports wait in the order of their times, each tag's at times of its own,
\* and none for longer than MaxLag.
Queue ==
    /\ waiting \in Seq(QueuedReport)
    /\ \A k \in DOMAIN waiting : clock - MaxLag <= waiting[k].at /\ waiting[k].at <= clock
    /\ \A j, k \in DOMAIN waiting : j < k =>
          /\ waiting[j].at <= waiting[k].at
          /\ waiting[j].tag = waiting[k].tag => waiting[j].at < waiting[k].at
    /\ \A t \in Tags : Pending(waiting, t) \subseteq reported[t]

\* A passage begins and ends with a report and spans no longer absence than
\* the gap.
ReportedRow(row) ==
    /\ {row.started_at_ms, row.last_seen_ms} \subseteq reported[row.tag_key]
    /\ \A s \in row.started_at_ms .. row.last_seen_ms - Gap - 1 :
          \E u \in s + 1 .. s + Gap + 1 : u \in reported[row.tag_key]

ReportedRows == \A p \in DOMAIN passages : ReportedRow(passages[p])

\* How far t's current passage may be behind: behind the report that was last
\* recorded by its wait, behind any that was taken up since by the throttle too.
UpToDate(t) ==
    HasCurrent(t) =>
        /\ throttle[t] # None => throttle[t] - MaxLag <= tags[t].last_seen_ms
        /\ \A x \in reported[t] \ Pending(waiting, t) :
              x - tags[t].last_seen_ms < PollTime + MaxLag

\* The inductive invariant of PassagesAreVisits.
IntakeInv ==
    /\ IInv
    /\ clock \in Times
    /\ throttle \in [Tags -> Times \cup {None}]
    /\ \A t \in Tags : throttle[t] # None => throttle[t] <= clock
    /\ reported \in [Tags -> SUBSET (0 .. clock)]
    /\ Queue
    /\ ReportedRows
    /\ \A t \in Tags : UpToDate(t)
    /\ PromptVisibilityIsOnePassage

\* A sighting is entered in the current passage unless the gap was exceeded.
LEMMA SightedGap ==
    ASSUME IInv, NEW t \in Tags, NEW at \in Times,
           OpenPassage(t, at) \/ ContinuePassage(t, at)
    PROVE  IF seen'.passage_id \in DOMAIN passages
           THEN /\ HasCurrent(t) /\ seen'.passage_id = tags[t].current_passage_id
                /\ ~(at - tags[t].last_seen_ms > Gap)
           ELSE HasCurrent(t) => at - tags[t].last_seen_ms > Gap
<1>1. CASE OpenPassage(t, at)
  <2>1. seen'.passage_id = nextId /\ StartsPassage(t, at)
    BY <1>1 DEF OpenPassage, Observe
  <2>2. nextId \notin DOMAIN passages
    BY DEF IInv, Sound, SoundTypes, PassageIds
  <2> QED BY <2>1, <2>2 DEF StartsPassage
<1>2. CASE ContinuePassage(t, at)
  <2>1. seen'.passage_id = tags[t].current_passage_id /\ ~StartsPassage(t, at)
    BY <1>2 DEF ContinuePassage, Observe
  <2>2. HasCurrent(t) /\ ~(at - tags[t].last_seen_ms > Gap)
    BY <2>1 DEF StartsPassage
  <2>3. tags[t].current_passage_id \in DOMAIN passages
    BY <2>2 DEF IInv, Sound, SoundCurrent, HasCurrent
  <2> QED BY <2>1, <2>2, <2>3
<1> QED BY <1>1, <1>2

\* The other tags stay as they are, or the sweep closes their passages.
LEMMA OthersKept ==
    ASSUME IInv, NEW t \in Tags, NEW at \in Times,
           OpenPassage(t, at) \/ ContinuePassage(t, at),
           NEW u \in Tags, u # t, HasCurrent(u)'
    PROVE  HasCurrent(u) /\ tags'[u] = tags[u]
<1>1. ASSUME NEW T, NEW P, NEW p, NEW opened, Observe(t, p, at, opened, T, P),
             u \in DOMAIN T => u \in DOMAIN tags /\ T[u] = tags[u]
      PROVE  HasCurrent(u) /\ tags'[u] = tags[u]
  <2> DEFINE dwelt == at - T[t].session_started_ms >= MaxDwell
             T1 == TouchedTags(T, t, at)
             P1 == TouchedPassages(P, p, at, dwelt)
  <2>1. tags' = SweptTags(T1, P1, at - Retention)
    BY <1>1 DEF Observe
  <2>2. DOMAIN T1 = DOMAIN T /\ (u \in DOMAIN T => T1[u] = T[u])
    BY DEF TouchedTags
  <2> HIDE DEF T1, P1
  <2>3. u \in DOMAIN tags' /\ tags'[u].current_passage_id # None
    BY DEF HasCurrent
  <2>4. u \in DOMAIN T1
    BY <2>1, <2>3 DEF SweptTags
  <2>5. u \in Closed(T1, P1, at - Retention) => tags'[u].current_passage_id = None
    <3>1. T1[u] \in TagRow
      BY <1>1, <2>2, <2>4 DEF IInv, Sound, SoundTypes
    <3>2. [T1[u] EXCEPT !.current_passage_id = None].current_passage_id = None
      BY <3>1 DEF TagRow
    <3>3. u \in Closed(T1, P1, at - Retention) =>
             tags'[u] = [T1[u] EXCEPT !.current_passage_id = None]
      BY <2>1, <2>4, Zenon DEF SweptTags
    <3> QED BY <3>2, <3>3, Zenon
  <2>6. tags'[u] = T1[u]
    BY <2>1, <2>3, <2>4, <2>5 DEF SweptTags
  <2> QED BY <1>1, <2>2, <2>3, <2>4, <2>6 DEF HasCurrent
<1>2. CASE OpenPassage(t, at)
  <2> DEFINE T == WithTag(tags, t, nextId, at)
             P == WithPassage(passages, t, nextId, at)
  <2>1. Observe(t, nextId, at, TRUE, T, P)
    BY <1>2 DEF OpenPassage
  <2>2. u \in DOMAIN T => u \in DOMAIN tags /\ T[u] = tags[u]
    BY DEF WithTag
  <2> HIDE DEF T, P
  <2> QED BY <1>1, <2>1, <2>2
<1>3. CASE ContinuePassage(t, at)
  <2>1. Observe(t, tags[t].current_passage_id, at, FALSE, tags, passages)
    BY <1>3 DEF ContinuePassage
  <2> QED BY <1>1, <2>1
<1> QED BY <1>2, <1>3

\* In particular a tag's current passage is the last of it on file.
LEMMA CurrentIsLast ==
    ASSUME IInv, NEW p \in DOMAIN passages, NEW t, passages[p].tag_key = t
    PROVE  /\ t \in Tags /\ HasCurrent(t) /\ p \in Nat
           /\ tags[t].current_passage_id \in DOMAIN passages
           /\ passages[tags[t].current_passage_id].last_seen_ms = tags[t].last_seen_ms
           /\ tags[t].last_seen_ms \in Times
           /\ p <= tags[t].current_passage_id
           /\ {passages[p].started_at_ms, passages[p].last_seen_ms} \subseteq Times
           /\ passages[p].started_at_ms <= passages[p].last_seen_ms
           /\ passages[p].last_seen_ms <= tags[t].last_seen_ms
<1> DEFINE c == tags[t].current_passage_id
<1>1. passages[p] \in PassageRow /\ p \in Nat /\ SoundRow(passages[p])
  BY DEF IInv, Sound, SoundTypes, SoundRows, PassageIds
<1>2. t \in Tags /\ t \in DOMAIN tags /\ c # None /\ p <= c
  BY <1>1 DEF IInv, Sound, SoundLast, PassageRow
<1>3. c \in DOMAIN passages /\ passages[c].tag_key = t
      /\ passages[c].last_seen_ms = tags[t].last_seen_ms
  BY <1>2 DEF IInv, Sound, SoundCurrent
<1>4. /\ passages[c] \in PassageRow /\ c \in Nat /\ SoundRow(passages[c])
      /\ tags[t].last_seen_ms \in Times
  BY <1>2, <1>3 DEF IInv, Sound, SoundTypes, SoundRows, PassageIds, TagRow
<1>5. /\ {passages[p].started_at_ms, passages[p].last_seen_ms} \subseteq Times
      /\ passages[p].started_at_ms <= passages[p].last_seen_ms
      /\ {passages[c].started_at_ms, passages[c].last_seen_ms} \subseteq Times
      /\ passages[c].started_at_ms <= passages[c].last_seen_ms
  BY <1>1, <1>4 DEF PassageRow, SoundRow
<1> HIDE DEF c
<1>6. p < c => passages[c].started_at_ms - passages[p].last_seen_ms > Gap
  BY <1>3 DEF IInv, Sound, SoundGaps
<1>7. passages[p].last_seen_ms <= tags[t].last_seen_ms
  <2>1. CASE p = c
    BY <1>3, <1>5, <2>1 DEF Times
  <2>2. CASE p < c
    BY <1>3, <1>5, <1>6, <2>2, ConfigAssumption DEF Times
  <2> QED BY <1>1, <1>2, <1>4, <2>1, <2>2
<1>8. HasCurrent(t)
  BY <1>2 DEF HasCurrent, c
<1> QED BY <1>1, <1>2, <1>3, <1>4, <1>5, <1>7, <1>8 DEF c

LEMMA IntakeTypes ==
    ASSUME IntakeInv
    PROVE  /\ clock \in Nat /\ MaxLag \in Nat /\ PollTime \in Nat \ {0} /\ Gap \in Nat \ {0}
           /\ \A t \in Tags : reported[t] \subseteq 0 .. clock
  BY IntakeAssumption, ConfigAssumption DEF IntakeInv, Times

\* The first report leaves the queue.
LEMMA QueueTail ==
    ASSUME IntakeInv, waiting # <<>>, waiting' = Tail(waiting),
           UNCHANGED <<clock, reported>>
    PROVE  LET r == Head(waiting) IN
           /\ Queue'
           /\ r \in QueuedReport /\ r.at <= clock /\ clock - MaxLag <= r.at
           /\ r.kind = "usable" => r.at \in reported[r.tag]
           /\ \A t \in Tags : \A x \in Pending(waiting, t) :
                 x \in Pending(waiting', t) \/ (t = r.tag /\ r.kind = "usable" /\ x = r.at)
           /\ \A x \in Pending(waiting, r.tag) : x >= r.at
<1> DEFINE r == Head(waiting)
           n == Len(waiting)
<1>1. /\ waiting \in Seq(QueuedReport) /\ n \in Nat \ {0} /\ DOMAIN waiting = 1 .. n
      /\ r = waiting[1] /\ waiting' \in Seq(QueuedReport)
      /\ DOMAIN waiting' = 1 .. n - 1
      /\ \A k \in 1 .. n - 1 : waiting'[k] = waiting[k + 1]
  BY DEF IntakeInv, Queue
<1> HIDE DEF n, r
<1>2. /\ clock' = clock /\ reported' = reported /\ clock \in Nat /\ MaxLag \in Nat
      /\ \A k \in 1 .. n : waiting[k] \in QueuedReport /\ waiting[k].at \in Nat
  <2>1. UNCHANGED <<clock, reported>>
    BY Zenon
  <2>2. clock \in Nat /\ MaxLag \in Nat
    BY IntakeTypes
  <2>3. ASSUME NEW k \in 1 .. n PROVE waiting[k] \in QueuedReport
    BY <1>1
  <2>4. \A q \in QueuedReport : q.at \in Nat
    BY LogAssumption DEF QueuedReport, Times
  <2> QED BY <2>1, <2>2, <2>3, <2>4
<1>3. /\ \A k \in 1 .. n : clock - MaxLag <= waiting[k].at /\ waiting[k].at <= clock
      /\ \A j, k \in 1 .. n : j < k =>
          /\ waiting[j].at <= waiting[k].at
          /\ waiting[j].tag = waiting[k].tag => waiting[j].at < waiting[k].at
      /\ \A t \in Tags : Pending(waiting, t) \subseteq reported[t]
  BY <1>1 DEF IntakeInv, Queue
<1>4. \A k \in 1 .. n - 1 : k + 1 \in 1 .. n
  BY <1>1
<1>5. \A t : Pending(waiting', t) \subseteq Pending(waiting, t)
  <2> SUFFICES ASSUME NEW t, NEW k \in 1 .. n - 1, waiting'[k].tag = t,
                      waiting'[k].kind = "usable"
               PROVE  waiting'[k].at \in Pending(waiting, t)
    BY <1>1 DEF Pending
  <2> QED BY <1>1, <1>4 DEF Pending
<1>6. \A j, k \in 1 .. n - 1 : j < k =>
          /\ waiting'[j].at <= waiting'[k].at
          /\ waiting'[j].tag = waiting'[k].tag => waiting'[j].at < waiting'[k].at
  <2> TAKE j, k \in 1 .. n - 1
  <2> HAVE j < k
  <2>1. j + 1 < k + 1
    OBVIOUS
  <2> QED BY <1>1, <1>3, <1>4, <2>1
<1>7. Queue'
  BY <1>1, <1>2, <1>3, <1>4, <1>5, <1>6 DEF Queue
<1>8. \A t \in Tags : \A x \in Pending(waiting, t) :
          x \in Pending(waiting', t) \/ (t = r.tag /\ r.kind = "usable" /\ x = r.at)
  <2> SUFFICES ASSUME NEW t, NEW k \in 1 .. n, waiting[k].tag = t,
                      waiting[k].kind = "usable"
               PROVE  \/ waiting[k].at \in Pending(waiting', t)
                      \/ t = r.tag /\ r.kind = "usable" /\ waiting[k].at = r.at
    BY <1>1 DEF Pending
  <2>1. CASE k = 1
    BY <1>1, <2>1
  <2>2. CASE k # 1
    <3>1. k - 1 \in 1 .. n - 1 /\ waiting'[k - 1] = waiting[k]
      BY <1>1, <2>2
    <3> QED BY <1>1, <3>1 DEF Pending
  <2> QED BY <2>1, <2>2
<1>9. \A x \in Pending(waiting, r.tag) : x >= r.at
  <2> SUFFICES ASSUME NEW k \in 1 .. n PROVE waiting[k].at >= r.at
    BY <1>1 DEF Pending
  <2>1. 1 \in 1 .. n /\ (k = 1 \/ 1 < k)
    BY <1>1
  <2> QED BY <1>1, <1>2, <1>3, <2>1
<1>10. r.kind = "usable" => r.at \in reported[r.tag]
  <2>1. 1 \in 1 .. n /\ r.tag \in Tags
    BY <1>1, <1>2 DEF QueuedReport
  <2> QED BY <1>1, <1>3, <2>1 DEF Pending
<1>11. r \in QueuedReport /\ r.at <= clock /\ clock - MaxLag <= r.at
  BY <1>1, <1>2, <1>3
<1> QED BY <1>7, <1>8, <1>9, <1>10, <1>11 DEF r

\* A report joins the queue.
LEMMA QueueAppend ==
    ASSUME IntakeInv, NEW t \in Tags, NEW kind \in ReportKinds, Report(t, kind)
    PROVE  /\ Queue' /\ reported' \in [Tags -> SUBSET (0 .. clock)]
           /\ \A u \in Tags : /\ reported[u] \subseteq reported'[u]
                              /\ reported'[u] \subseteq reported[u] \cup {clock}
                              /\ u # t => reported'[u] = reported[u]
                              /\ reported'[u] \ Pending(waiting', u) \subseteq
                                    reported[u] \ Pending(waiting, u)
<1> DEFINE n == Len(waiting)
           r == [tag |-> t, at |-> clock, kind |-> kind]
<1>1. /\ waiting \in Seq(QueuedReport) /\ r \in QueuedReport /\ n \in Nat
      /\ DOMAIN waiting = 1 .. n
  BY DEF IntakeInv, Queue, QueuedReport
<1>2. /\ waiting' \in Seq(QueuedReport) /\ DOMAIN waiting' = 1 .. n + 1
      /\ \A k \in 1 .. n : waiting'[k] = waiting[k]
      /\ waiting'[n + 1] = r
  BY <1>1 DEF Report
<1> HIDE DEF n
<1>3. /\ r.tag = t /\ r.at = clock /\ r.kind = kind
  OBVIOUS
<1> HIDE DEF r
<1>4. /\ clock' = clock /\ clock \in Nat /\ MaxLag \in Nat
      /\ \A k \in 1 .. n : waiting[k] \in QueuedReport /\ waiting[k].at \in Nat
  <2>1. clock' = clock
    BY DEF Report
  <2>2. clock \in Nat /\ MaxLag \in Nat
    BY IntakeTypes
  <2>3. ASSUME NEW k \in 1 .. n PROVE waiting[k] \in QueuedReport
    BY <1>1
  <2>4. \A q \in QueuedReport : q.at \in Nat
    BY LogAssumption DEF QueuedReport, Times
  <2> QED BY <2>1, <2>2, <2>3, <2>4
<1>5. /\ \A k \in 1 .. n : clock - MaxLag <= waiting[k].at /\ waiting[k].at <= clock
      /\ \A j, k \in 1 .. n : j < k =>
          /\ waiting[j].at <= waiting[k].at
          /\ waiting[j].tag = waiting[k].tag => waiting[j].at < waiting[k].at
      /\ \A u \in Tags : Pending(waiting, u) \subseteq reported[u]
  BY <1>1 DEF IntakeInv, Queue
<1>6. \A k \in 1 .. n : waiting[k].at = clock => waiting[k].tag # t
  BY <1>1 DEF Report
<1>7. /\ reported' = IF kind = "usable"
                     THEN [reported EXCEPT ![t] = @ \cup {clock}] ELSE reported
      /\ reported \in [Tags -> SUBSET (0 .. clock)]
  BY DEF Report, IntakeInv
<1>8. /\ reported' \in [Tags -> SUBSET (0 .. clock)]
      /\ \A u \in Tags : /\ reported[u] \subseteq reported'[u]
                         /\ reported'[u] \subseteq reported[u] \cup {clock}
                         /\ u # t => reported'[u] = reported[u]
                         /\ kind # "usable" => reported'[u] = reported[u]
      /\ kind = "usable" => clock \in reported'[t]
  BY <1>4, <1>7
<1>9. \A u : Pending(waiting', u) =
                 Pending(waiting, u) \cup
                    (IF u = t /\ kind = "usable" THEN {clock} ELSE {})
  <2> TAKE u
  <2>1. \A k \in 1 .. n : k \in 1 .. n + 1
    BY <1>1
  <2>2. n + 1 \in 1 .. n + 1 /\ \A k \in 1 .. n + 1 : k \in 1 .. n \/ k = n + 1
    BY <1>1
  <2> QED BY <1>1, <1>2, <1>3, <2>1, <2>2 DEF Pending
<1>10. \A k \in 1 .. n + 1 : clock - MaxLag <= waiting'[k].at /\ waiting'[k].at <= clock
  <2> TAKE k \in 1 .. n + 1
  <2>1. CASE k \in 1 .. n
    BY <1>2, <1>5, <2>1
  <2>2. CASE k = n + 1
    BY <1>2, <1>3, <1>4, <2>2
  <2> QED BY <1>1, <2>1, <2>2
<1>11. \A j, k \in 1 .. n + 1 : j < k =>
          /\ waiting'[j].at <= waiting'[k].at
          /\ waiting'[j].tag = waiting'[k].tag => waiting'[j].at < waiting'[k].at
  <2> TAKE j, k \in 1 .. n + 1
  <2> HAVE j < k
  <2>1. CASE k \in 1 .. n
    <3>1. j \in 1 .. n
      BY <1>1, <2>1
    <3> QED BY <1>2, <1>5, <2>1, <3>1
  <2>2. CASE k = n + 1
    <3>1. j \in 1 .. n
      BY <1>1, <2>2
    <3>2. waiting'[j] = waiting[j] /\ waiting'[k].at = clock /\ waiting'[k].tag = t
      BY <1>2, <1>3, <2>2, <3>1
    <3>3. waiting[j].at <= clock /\ (waiting[j].tag = t => waiting[j].at # clock)
          /\ waiting[j].at \in Nat
      BY <1>4, <1>5, <1>6, <3>1
    <3> QED BY <1>4, <3>2, <3>3
  <2> QED BY <1>1, <2>1, <2>2
<1>12. \A u \in Tags : Pending(waiting', u) \subseteq reported'[u]
  BY <1>5, <1>8, <1>9
<1>13. Queue'
  BY <1>2, <1>4, <1>10, <1>11, <1>12 DEF Queue
<1>14. \A u \in Tags : reported'[u] \ Pending(waiting', u) \subseteq
                          reported[u] \ Pending(waiting, u)
  BY <1>8, <1>9
<1> QED BY <1>8, <1>13, <1>14

LEMMA IntakeInvInit == IntakeInit => IntakeInv
<1> SUFFICES ASSUME IntakeInit PROVE IntakeInv
  OBVIOUS
<1>1. /\ Init /\ clock = 0 /\ waiting = <<>>
      /\ throttle = [t \in Tags |-> None] /\ reported = [t \in Tags |-> {}]
  BY DEF IntakeInit
<1>2. IInv
  BY <1>1, InitIInv
<1>3. clock \in Times
  BY <1>1, LogAssumption DEF Times
<1>4. Queue
  BY <1>1 DEF Queue, Pending
<1>5. passages = <<>> /\ tags = <<>>
  BY <1>1 DEF Init
<1>6. DOMAIN passages = {} /\ DOMAIN tags = {}
  BY <1>5
<1>7. \A t \in Tags : UpToDate(t)
  BY <1>6 DEF UpToDate, HasCurrent
<1>9. ReportedRows
  BY <1>6 DEF ReportedRows
<1>8. PromptVisibilityIsOnePassage
  BY <1>6 DEF PromptVisibilityIsOnePassage, VisibilityIsOnePassage
<1> QED BY <1>1, <1>2, <1>3, <1>4, <1>7, <1>8, <1>9 DEF IntakeInv

\* A report is new to the time it is of, and no passage has begun then.
LEMMA ReportKeeps ==
    ASSUME IntakeInv, NEW t \in Tags, NEW kind \in ReportKinds, Report(t, kind)
    PROVE  IntakeInv'
<1>1. /\ UNCHANGED vars /\ UNCHANGED <<clock, throttle>> /\ clock \notin reported[t]
      /\ UNCHANGED <<tags, passages, nextId, seen>>
  BY DEF Report, vars
<1>2. /\ Queue' /\ reported' \in [Tags -> SUBSET (0 .. clock)]
      /\ \A u \in Tags : /\ reported[u] \subseteq reported'[u]
                         /\ reported'[u] \subseteq reported[u] \cup {clock}
                         /\ u # t => reported'[u] = reported[u]
                         /\ reported'[u] \ Pending(waiting', u) \subseteq
                               reported[u] \ Pending(waiting, u)
  BY QueueAppend
<1>3. IInv'
  BY <1>1 DEF IInv, IntakeInv
<1>4. \A p \in DOMAIN passages : passages[p].tag_key \in Tags
  BY CurrentIsLast DEF IntakeInv
<1>5. ReportedRows'
  BY <1>1, <1>2, <1>4 DEF IntakeInv, ReportedRows, ReportedRow
<1>6. \A u \in Tags : UpToDate(u)'
  BY <1>1, <1>2 DEF IntakeInv, UpToDate, HasCurrent
<1>7. PromptVisibilityIsOnePassage'
  <2> SUFFICES ASSUME MaxLag + PollTime <= Gap, NEW p \in DOMAIN passages,
                      NEW q \in DOMAIN passages, Split(p, q)'
               PROVE  FALSE
    BY <1>1 DEF PromptVisibilityIsOnePassage, VisibilityIsOnePassage
  <2> DEFINE u == passages[p].tag_key
             between == passages[p].last_seen_ms .. passages[q].started_at_ms
  <2>1. /\ p # q /\ passages[q].tag_key = u
        /\ passages[p].last_seen_ms < passages[q].started_at_ms
        /\ between \subseteq reported'[u] /\ u \in Tags
    BY <1>1, <1>4 DEF Split
  <2>2. ~Split(p, q)
    BY DEF IntakeInv, PromptVisibilityIsOnePassage, VisibilityIsOnePassage
  <2>3. ~(between \subseteq reported[u])
    BY <2>1, <2>2 DEF Split
  <2>4. clock \in between /\ u = t
    BY <1>2, <2>1, <2>3
  <2>5. passages[q].started_at_ms \in reported[u]
    BY <2>1 DEF IntakeInv, ReportedRows, ReportedRow
  <2>6. passages[q].started_at_ms \in 0 .. clock
    BY <2>1, <2>5, IntakeTypes
  <2>7. passages[q].started_at_ms = clock
    BY <2>4, <2>6, IntakeTypes
  <2> QED BY <1>1, <2>4, <2>5, <2>7
<1> QED BY <1>1, <1>2, <1>3, <1>5, <1>6, <1>7 DEF IntakeInv

LEMMA ClockKeeps == ASSUME IntakeInv, ClockTicks PROVE IntakeInv'
<1>1. /\ clock < MaxTime /\ clock' = clock + 1
      /\ waiting # <<>> => clock - Head(waiting).at < MaxLag
      /\ UNCHANGED <<tags, passages, nextId, seen, waiting, throttle, reported>>
  BY DEF ClockTicks, vars
<1>2. clock \in Nat /\ MaxLag \in Nat
  BY IntakeTypes
<1>3. clock' \in Times
  BY <1>1, <1>2, LogAssumption DEF Times
<1>4. IInv'
  BY <1>1 DEF IInv, IntakeInv
<1>5. Queue'
  <2>1. \A k \in DOMAIN waiting :
            clock' - MaxLag <= waiting[k].at /\ waiting[k].at <= clock'
    <3> TAKE k \in DOMAIN waiting
    <3>1. /\ waiting \in Seq(QueuedReport) /\ k \in 1 .. Len(waiting)
          /\ waiting[k] \in QueuedReport /\ waiting[1] \in QueuedReport
          /\ Head(waiting) = waiting[1] /\ waiting # <<>> /\ 1 \in DOMAIN waiting
      BY DEF IntakeInv, Queue
    <3>2. waiting[k].at \in Nat /\ waiting[1].at \in Nat
      BY <3>1, LogAssumption DEF QueuedReport, Times
    <3>3. clock - waiting[1].at < MaxLag
      BY <1>1, <3>1
    <3>4. waiting[k].at <= clock /\ (1 < k => waiting[1].at <= waiting[k].at)
      BY <3>1 DEF IntakeInv, Queue
    <3>5. waiting[1].at <= waiting[k].at
      BY <3>1, <3>2, <3>4
    <3>6. clock' = clock + 1
      BY <1>1
    <3> QED BY <1>2, <3>2, <3>3, <3>4, <3>5, <3>6
  <2>2. waiting' = waiting /\ reported' = reported
    BY <1>1, Zenon
  <2>4. Queue
    BY DEF IntakeInv
  <2> QED BY <2>1, <2>2, <2>4, Zenon DEF Queue
<1>6. \A t \in Tags : throttle'[t] # None => throttle'[t] <= clock'
  <2>1. \A t \in Tags : throttle[t] # None => throttle[t] \in Nat /\ throttle[t] <= clock
    BY LogAssumption DEF IntakeInv, Times
  <2> QED BY <1>1, <1>2, <2>1
<1>7. reported' \in [Tags -> SUBSET (0 .. clock')]
  <2>1. 0 .. clock \subseteq 0 .. clock + 1
    BY <1>2
  <2> QED BY <1>1, <2>1 DEF IntakeInv
<1>8. ReportedRows'
  BY <1>1 DEF IntakeInv, ReportedRows, ReportedRow
<1>9. \A t \in Tags : UpToDate(t)'
  BY <1>1 DEF IntakeInv, UpToDate, HasCurrent
<1>10. PromptVisibilityIsOnePassage'
  BY <1>1 DEF IntakeInv, PromptVisibilityIsOnePassage, VisibilityIsOnePassage, Split
<1> QED BY <1>1, <1>3, <1>4, <1>5, <1>6, <1>7, <1>8, <1>9, <1>10 DEF IntakeInv

\* A report that is left out: the passage is not far behind it.
LEMMA SkipKeeps ==
    ASSUME IntakeInv, waiting # <<>>, waiting' = Tail(waiting),
           UNCHANGED <<vars, clock, throttle, reported>>,
           Head(waiting).kind = "usable" =>
              /\ throttle[Head(waiting).tag] # None
              /\ clock - throttle[Head(waiting).tag] < PollTime
    PROVE  IntakeInv'
<1> DEFINE r == Head(waiting)
<1>1. UNCHANGED <<tags, passages, nextId, seen>> /\ UNCHANGED <<clock, throttle, reported>>
  BY DEF vars
<1>2. /\ Queue'
      /\ r \in QueuedReport /\ r.at <= clock /\ clock - MaxLag <= r.at
      /\ \A t \in Tags : \A x \in Pending(waiting, t) :
            x \in Pending(waiting', t) \/ (t = r.tag /\ r.kind = "usable" /\ x = r.at)
  BY <1>1, QueueTail
<1> HIDE DEF r
<1>3. IInv'
  BY <1>1 DEF IInv, IntakeInv
<1>4. ReportedRows'
  BY <1>1 DEF IntakeInv, ReportedRows, ReportedRow
<1>5. \A t \in Tags : UpToDate(t)'
  <2> SUFFICES ASSUME NEW t \in Tags, HasCurrent(t)
               PROVE  /\ throttle[t] # None => throttle[t] - MaxLag <= tags[t].last_seen_ms
                      /\ \A x \in reported[t] \ Pending(waiting', t) :
                            x - tags[t].last_seen_ms < PollTime + MaxLag
    BY <1>1 DEF UpToDate, HasCurrent
  <2>1. /\ throttle[t] # None => throttle[t] - MaxLag <= tags[t].last_seen_ms
        /\ \A x \in reported[t] \ Pending(waiting, t) :
              x - tags[t].last_seen_ms < PollTime + MaxLag
    BY DEF IntakeInv, UpToDate
  <2>2. ASSUME t = r.tag, r.kind = "usable"
        PROVE  r.at - tags[t].last_seen_ms < PollTime + MaxLag
    <3>1. throttle[t] # None /\ clock - throttle[t] < PollTime
      BY <2>2 DEF r
    <3>2. throttle[t] \in Nat
      BY <3>1, LogAssumption DEF IntakeInv, Times
    <3>3. tags[t].last_seen_ms \in Nat
      BY LogAssumption DEF IntakeInv, IInv, Sound, SoundTypes, TagRow, Times, HasCurrent
    <3>4. r.at \in Nat
      BY <1>2, LogAssumption DEF QueuedReport, Times
    <3> QED BY <1>2, <2>1, <3>1, <3>2, <3>3, <3>4, IntakeTypes
  <2> QED BY <1>2, <2>1, <2>2
<1>6. PromptVisibilityIsOnePassage'
  BY <1>1 DEF IntakeInv, PromptVisibilityIsOnePassage, VisibilityIsOnePassage, Split
<1> QED BY <1>1, <1>2, <1>3, <1>4, <1>5, <1>6 DEF IntakeInv

\* A passage is recorded with a report that leaves the queue.
Recorded(r) ==
    /\ waiting # <<>> /\ waiting' = Tail(waiting) /\ r = Head(waiting) /\ r.kind = "usable"
    /\ throttle' = [throttle EXCEPT ![r.tag] = clock]
    /\ OpenPassage(r.tag, r.at) \/ ContinuePassage(r.tag, r.at)
    /\ UNCHANGED <<clock, reported>>

LEMMA RecordedFacts ==
    ASSUME IntakeInv, NEW r, Recorded(r)
    PROVE  /\ r.tag \in Tags /\ r.at \in Times /\ r.at \in Nat /\ r.at \in reported[r.tag]
           /\ IInv /\ IInv' /\ Queue' /\ r.at <= clock /\ clock - MaxLag <= r.at
           /\ \A t \in Tags : \A x \in Pending(waiting, t) :
                 x \in Pending(waiting', t) \/ (t = r.tag /\ x = r.at)
           /\ \A x \in Pending(waiting, r.tag) : x >= r.at
<1>1. /\ waiting # <<>> /\ waiting' = Tail(waiting) /\ r = Head(waiting) /\ r.kind = "usable"
      /\ OpenPassage(r.tag, r.at) \/ ContinuePassage(r.tag, r.at)
      /\ UNCHANGED <<clock, reported>>
  BY DEF Recorded
<1>2. /\ Queue'
      /\ r \in QueuedReport /\ r.at <= clock /\ clock - MaxLag <= r.at
      /\ r.at \in reported[r.tag]
      /\ \A t \in Tags : \A x \in Pending(waiting, t) :
            x \in Pending(waiting', t) \/ (t = r.tag /\ x = r.at)
      /\ \A x \in Pending(waiting, r.tag) : x >= r.at
  BY <1>1, QueueTail
<1>3. r.tag \in Tags /\ r.at \in Times /\ r.at \in Nat
  BY <1>2, LogAssumption DEF QueuedReport, Times
<1>4. IInv
  BY DEF IntakeInv
<1>6. IInv'
  BY <1>1, <1>3, <1>4, SightedSound
<1> QED BY <1>2, <1>3, <1>4, <1>6

\* The rows after it.
LEMMA RecordedRows ==
    ASSUME IntakeInv, NEW r, Recorded(r), NEW p \in DOMAIN passages'
    PROVE  LET s == seen'.passage_id IN
           IF p # s THEN p \in DOMAIN passages /\ passages'[p] = passages[p]
           ELSE /\ passages'[p].tag_key = r.tag /\ HasCurrent(r.tag)'
                /\ tags'[r.tag].current_passage_id = p
                /\ passages'[p].last_seen_ms = tags'[r.tag].last_seen_ms
                /\ IF p \in DOMAIN passages
                   THEN /\ passages[p].tag_key = r.tag
                        /\ HasCurrent(r.tag) /\ p = tags[r.tag].current_passage_id
                        /\ passages[p].last_seen_ms = tags[r.tag].last_seen_ms
                        /\ r.at - passages[p].last_seen_ms <= Gap
                        /\ passages'[p].started_at_ms = passages[p].started_at_ms
                        /\ passages'[p].last_seen_ms = Later(passages[p].last_seen_ms, r.at)
                   ELSE /\ passages'[p].started_at_ms = r.at
                        /\ passages'[p].last_seen_ms = r.at
                        /\ HasCurrent(r.tag) => r.at - tags[r.tag].last_seen_ms > Gap
<1> DEFINE s == seen'.passage_id
           t == r.tag
           at == r.at
<1>1. /\ t \in Tags /\ at \in Times /\ IInv /\ IInv'
      /\ OpenPassage(t, at) \/ ContinuePassage(t, at)
  BY RecordedFacts DEF Recorded
<1> HIDE DEF t, at
<1>2. /\ s \in DOMAIN passages' /\ DOMAIN passages' \ {s} \subseteq DOMAIN passages
      /\ \A q \in DOMAIN passages' \ {s} : passages'[q] = passages[q]
      /\ s \in DOMAIN passages =>
            /\ passages'[s].tag_key = passages[s].tag_key
            /\ passages'[s].started_at_ms = passages[s].started_at_ms
            /\ passages'[s].last_seen_ms = Later(passages[s].last_seen_ms, at)
      /\ s \notin DOMAIN passages =>
            passages'[s].started_at_ms = at /\ passages'[s].last_seen_ms = at
  BY <1>1, SightedRows
<1>3. /\ t \in DOMAIN tags' /\ tags'[t].current_passage_id = s /\ s # None
  BY <1>1, SightedTag
<1>4. /\ passages'[s].tag_key = t /\ passages'[s].last_seen_ms = tags'[t].last_seen_ms
      /\ HasCurrent(t)'
  BY <1>1, <1>3 DEF IInv, Sound, SoundCurrent, HasCurrent
<1>5. IF s \in DOMAIN passages
      THEN HasCurrent(t) /\ s = tags[t].current_passage_id
           /\ ~(at - tags[t].last_seen_ms > Gap)
      ELSE HasCurrent(t) => at - tags[t].last_seen_ms > Gap
  BY <1>1, SightedGap
<1> HIDE DEF s
<1>6. ASSUME s \in DOMAIN passages
      PROVE  /\ passages[s].tag_key = t /\ passages[s].last_seen_ms = tags[t].last_seen_ms
             /\ at - passages[s].last_seen_ms <= Gap
  <2>1. passages[s].tag_key = t /\ passages[s].last_seen_ms = tags[t].last_seen_ms
    BY <1>1, <1>5, <1>6 DEF IInv, Sound, SoundCurrent, HasCurrent
  <2>2. passages[s].last_seen_ms \in Times
    BY <1>1, <1>6, CurrentIsLast
  <2> QED BY <1>1, <1>5, <1>6, <2>1, <2>2, ConfigAssumption DEF Times
<1>7. CASE p # s
  BY <1>2, <1>7 DEF s
<1>8. CASE p = s
  BY <1>2, <1>3, <1>4, <1>5, <1>6, <1>8 DEF s, t, at
<1> QED BY <1>7, <1>8

\* The passage spans the time up to the report, which the gap allows.
LEMMA RecordedReported == ASSUME IntakeInv, NEW r, Recorded(r) PROVE ReportedRows'
<1> SUFFICES ASSUME NEW p \in DOMAIN passages' PROVE ReportedRow(passages'[p])
  BY DEF ReportedRows, ReportedRow, Recorded
<1> DEFINE row == passages'[p]
           old == passages[p]
<1>1. /\ r.tag \in Tags /\ r.at \in Nat /\ r.at \in reported[r.tag] /\ IInv
  BY RecordedFacts
<1>2. \A q \in DOMAIN passages : ReportedRow(passages[q])
  BY DEF IntakeInv, ReportedRows
<1>3. CASE p # seen'.passage_id
  BY <1>2, <1>3, RecordedRows
<1>4. CASE p = seen'.passage_id /\ p \notin DOMAIN passages
  <2>1. row.tag_key = r.tag /\ row.started_at_ms = r.at /\ row.last_seen_ms = r.at
    BY <1>4, RecordedRows
  <2>2. r.at .. r.at - Gap - 1 = {}
    BY <1>1, ConfigAssumption
  <2> QED BY <1>1, <2>1, <2>2 DEF ReportedRow
<1>5. CASE p = seen'.passage_id /\ p \in DOMAIN passages
  <2>1. /\ row.tag_key = r.tag /\ old.tag_key = r.tag
        /\ row.started_at_ms = old.started_at_ms
        /\ row.last_seen_ms = Later(old.last_seen_ms, r.at)
        /\ r.at - old.last_seen_ms <= Gap
    BY <1>5, RecordedRows
  <2>2. {old.started_at_ms, old.last_seen_ms} \subseteq Nat
    BY <1>1, <1>5, CurrentIsLast, LogAssumption DEF Times
  <2>3. /\ {old.started_at_ms, old.last_seen_ms} \subseteq reported[r.tag]
        /\ \A m \in old.started_at_ms .. old.last_seen_ms - Gap - 1 :
              \E u \in m + 1 .. m + Gap + 1 : u \in reported[r.tag]
    BY <1>2, <1>5, <2>1 DEF ReportedRow
  <2> HIDE DEF row, old
  <2>4. /\ row.last_seen_ms \in reported[r.tag] /\ row.last_seen_ms \in Nat
        /\ row.last_seen_ms <= old.last_seen_ms + Gap
    BY <1>1, <2>1, <2>2, <2>3, ConfigAssumption DEF Later
  <2>5. ASSUME NEW m \in row.started_at_ms .. row.last_seen_ms - Gap - 1
        PROVE  \E u \in m + 1 .. m + Gap + 1 : u \in reported[r.tag]
    <3>0. m \in Int /\ old.started_at_ms <= m /\ m <= row.last_seen_ms - Gap - 1
      BY <2>1, <2>2
    <3>1. CASE m <= old.last_seen_ms - Gap - 1
      <4>1. m \in old.started_at_ms .. old.last_seen_ms - Gap - 1
        BY <2>2, <3>0, <3>1, ConfigAssumption
      <4> QED BY <2>3, <4>1
    <3>2. CASE ~(m <= old.last_seen_ms - Gap - 1)
      <4>1. old.last_seen_ms \in m + 1 .. m + Gap + 1
        BY <2>2, <2>4, <3>0, <3>2, ConfigAssumption
      <4> QED BY <2>3, <4>1
    <3> QED BY <3>1, <3>2
  <2>6. ReportedRow(row)
    BY <2>1, <2>3, <2>4, <2>5 DEF ReportedRow
  <2> QED BY <2>6 DEF row
<1> QED BY <1>3, <1>4, <1>5

LEMMA RecordedUpToDate ==
    ASSUME IntakeInv, NEW r, Recorded(r), NEW t \in Tags PROVE UpToDate(t)'
<1>1. /\ r.tag \in Tags /\ r.at \in Times /\ r.at \in Nat /\ IInv /\ r.at <= clock
      /\ clock - MaxLag <= r.at
      /\ \A u \in Tags : \A x \in Pending(waiting, u) :
            x \in Pending(waiting', u) \/ (u = r.tag /\ x = r.at)
      /\ OpenPassage(r.tag, r.at) \/ ContinuePassage(r.tag, r.at)
      /\ throttle' = [throttle EXCEPT ![r.tag] = clock] /\ reported' = reported
      /\ clock' = clock
  BY RecordedFacts DEF Recorded
<1>2. throttle \in [Tags -> Times \cup {None}] /\ UpToDate(t)
  BY DEF IntakeInv
<1>3. ASSUME t # r.tag PROVE UpToDate(t)'
  <2> SUFFICES ASSUME HasCurrent(t)'
               PROVE  /\ throttle[t] # None => throttle[t] - MaxLag <= tags[t].last_seen_ms
                      /\ \A x \in reported[t] \ Pending(waiting', t) :
                            x - tags[t].last_seen_ms < PollTime + MaxLag
                      /\ throttle'[t] = throttle[t] /\ tags'[t] = tags[t]
    BY <1>1 DEF UpToDate
  <2>1. HasCurrent(t) /\ tags'[t] = tags[t]
    BY <1>1, <1>3, OthersKept
  <2>2. throttle'[t] = throttle[t]
    BY <1>1, <1>2, <1>3
  <2>3. Pending(waiting, t) \subseteq Pending(waiting', t)
    BY <1>1, <1>3
  <2> QED BY <1>2, <2>1, <2>2, <2>3 DEF UpToDate
<1>4. ASSUME t = r.tag PROVE UpToDate(t)'
  <2> DEFINE last == tags'[t].last_seen_ms
  <2>1. last >= r.at
    BY <1>1, <1>4, SightedTag
  <2>2. last \in Nat
    <3>1. t \in DOMAIN tags' /\ IInv'
      BY <1>1, <1>4, SightedTag, RecordedFacts
    <3> QED BY <3>1, LogAssumption DEF IInv, Sound, SoundTypes, TagRow, Times
  <2>3. throttle'[t] = clock
    BY <1>1, <1>2, <1>4
  <2> HIDE DEF last
  <2>4. clock - MaxLag <= last
    BY <1>1, <2>1, <2>2, IntakeTypes
  <2>5. \A x \in reported[t] : x - last < PollTime + MaxLag
    <3> TAKE x \in reported[t]
    <3>1. x \in Nat /\ x <= clock
      BY IntakeTypes
    <3> QED BY <2>2, <2>4, <3>1, IntakeTypes
  <2> QED BY <1>1, <2>3, <2>4, <2>5 DEF UpToDate, last
<1> QED BY <1>3, <1>4

\* A passage that is opened does not continue the last one: the report of the
\* moment before was taken up, and would have brought that one too close.
LEMMA RecordedUnsplit ==
    ASSUME IntakeInv, NEW r, Recorded(r), MaxLag + PollTime <= Gap,
           NEW p \in DOMAIN passages', NEW q \in DOMAIN passages', Split(p, q)'
    PROVE  FALSE
<1> DEFINE s == seen'.passage_id
           t == r.tag
<1>1. /\ t \in Tags /\ r.at \in Nat /\ r.at \in reported[t] /\ IInv /\ IInv'
      /\ \A x \in Pending(waiting, t) : x >= r.at
      /\ reported' = reported
  BY RecordedFacts DEF Recorded
<1>2. /\ p # q /\ passages'[p].tag_key = passages'[q].tag_key
      /\ passages'[p].last_seen_ms < passages'[q].started_at_ms
      /\ passages'[p].last_seen_ms .. passages'[q].started_at_ms
            \subseteq reported[passages'[p].tag_key]
  BY <1>1 DEF Split
<1>3. /\ {passages'[p].started_at_ms, passages'[p].last_seen_ms,
          passages'[q].started_at_ms, passages'[q].last_seen_ms} \subseteq Nat
      /\ passages'[p].started_at_ms <= passages'[p].last_seen_ms
      /\ passages'[q].started_at_ms <= passages'[q].last_seen_ms
      /\ p \in Nat /\ q \in Nat
  <2>1. \A k \in DOMAIN passages' : passages'[k] \in PassageRow /\ SoundRow(passages'[k])
                                    /\ k \in Nat
    BY <1>1 DEF IInv, Sound, SoundTypes, SoundRows, PassageIds
  <2> QED BY <2>1, LogAssumption DEF PassageRow, SoundRow, Times
<1>4. \A k, l \in DOMAIN passages : ~Split(k, l)
  BY DEF IntakeInv, PromptVisibilityIsOnePassage, VisibilityIsOnePassage
<1>5. CASE p # s /\ q # s
  <2>1. /\ p \in DOMAIN passages /\ passages'[p] = passages[p]
        /\ q \in DOMAIN passages /\ passages'[q] = passages[q]
    BY <1>5, RecordedRows
  <2> QED BY <1>2, <1>4, <2>1 DEF Split
<1>6. CASE p = s
  <2>1. passages'[p].tag_key = t /\ tags'[t].current_passage_id = p
    BY <1>6, RecordedRows
  <2>2. q <= p
    BY <1>1, <1>2, <2>1 DEF IInv, Sound, SoundLast
  <2>3. q < p
    BY <1>2, <1>3, <2>2
  <2>4. passages'[p].started_at_ms - passages'[q].last_seen_ms > Gap
    BY <1>1, <1>2, <2>3 DEF IInv, Sound, SoundGaps
  <2> QED BY <1>2, <1>3, <2>4, ConfigAssumption
<1>7. CASE q = s /\ p # s
  <2>1. p \in DOMAIN passages /\ passages'[p] = passages[p] /\ passages'[q].tag_key = t
    BY <1>7, RecordedRows
  <2>2. CASE q \in DOMAIN passages
    <3>1. /\ passages[q].tag_key = t
          /\ passages'[q].started_at_ms = passages[q].started_at_ms
      BY <1>7, <2>2, RecordedRows
    <3> QED BY <1>2, <1>4, <2>1, <2>2, <3>1 DEF Split
  <2>3. CASE q \notin DOMAIN passages
    <3>1. passages'[q].started_at_ms = r.at
          /\ (HasCurrent(t) => r.at - tags[t].last_seen_ms > Gap)
      BY <1>7, <2>3, RecordedRows
    <3>2. passages[p].tag_key = t
      BY <1>2, <2>1
    <3>3. /\ HasCurrent(t) /\ tags[t].last_seen_ms \in Times
      BY <1>1, <2>1, <3>2, CurrentIsLast
    <3>4. tags[t].last_seen_ms \in Nat
      BY <3>3, LogAssumption DEF Times
    <3>5. r.at - 1 \in reported[t]
      BY <1>1, <1>2, <1>3, <2>1, <3>1, <3>2
    <3>6. r.at - 1 \notin Pending(waiting, t)
      BY <1>1
    <3>7. (r.at - 1) - tags[t].last_seen_ms < PollTime + MaxLag
      BY <1>1, <3>3, <3>5, <3>6 DEF IntakeInv, UpToDate
    <3>8. r.at - tags[t].last_seen_ms > Gap
      BY <3>1, <3>3
    <3> HIDE DEF t
    <3> QED BY <1>1, <3>4, <3>7, <3>8, IntakeTypes
  <2> QED BY <2>2, <2>3
<1> QED BY <1>5, <1>6, <1>7

LEMMA RecordKeeps == ASSUME IntakeInv, NEW r, Recorded(r) PROVE IntakeInv'
<1>1. /\ r.tag \in Tags /\ IInv' /\ Queue'
      /\ UNCHANGED <<clock, reported>>
      /\ throttle' = [throttle EXCEPT ![r.tag] = clock]
  BY RecordedFacts DEF Recorded
<1>2. /\ clock \in Times /\ throttle \in [Tags -> Times \cup {None}]
      /\ reported \in [Tags -> SUBSET (0 .. clock)] /\ clock \in Nat
      /\ \A t \in Tags : throttle[t] # None => throttle[t] <= clock
  BY IntakeTypes DEF IntakeInv
<1>3. /\ throttle' \in [Tags -> Times \cup {None}]
      /\ \A t \in Tags : throttle'[t] # None => throttle'[t] <= clock
  BY <1>1, <1>2
<1>4. PromptVisibilityIsOnePassage'
  BY RecordedUnsplit DEF PromptVisibilityIsOnePassage, VisibilityIsOnePassage
<1> QED BY <1>1, <1>2, <1>3, <1>4, RecordedReported, RecordedUpToDate DEF IntakeInv

LEMMA IntakeInvNext == IntakeInv /\ [IntakeNext]_intakeVars => IntakeInv'
<1> SUFFICES ASSUME IntakeInv, [IntakeNext]_intakeVars PROVE IntakeInv'
  OBVIOUS
<1>1. CASE Handle
  <2> DEFINE r == Head(waiting)
             throttled == throttle[r.tag] # None /\ clock - throttle[r.tag] < PollTime
  <2>1. CASE r.kind # "usable" \/ throttled
    BY <1>1, <2>1, SkipKeeps DEF Handle
  <2>2. CASE ~(r.kind # "usable" \/ throttled)
    <3>1. Recorded(r)
      BY <1>1, <2>2 DEF Handle, Recorded, RecordSeen
    <3> QED BY <3>1, RecordKeeps
  <2> QED BY <2>1, <2>2
<1>2. CASE UNCHANGED intakeVars
  <2>1. UNCHANGED <<tags, passages, nextId, seen>>
        /\ UNCHANGED <<clock, waiting, throttle, reported>>
    BY <1>2 DEF intakeVars, vars
  <2> QED BY <2>1 DEF IntakeInv, IInv, Queue, ReportedRows, ReportedRow, UpToDate,
                      HasCurrent, PromptVisibilityIsOnePassage, VisibilityIsOnePassage, Split
<1> QED BY <1>1, <1>2, ReportKeeps, ClockKeeps DEF IntakeNext

LEMMA IntakeInvImplies == IntakeInv => PassagesAreVisits
<1> SUFFICES ASSUME IntakeInv PROVE VisitsAreApart
  BY DEF PassagesAreVisits, IntakeInv
<1> QED BY DEF IntakeInv, ReportedRows, ReportedRow, VisitsAreApart

\* Whatever waits in the channel and is throttled, a passage is not begun while
\* the tag has been reported without a break, if wait and throttle fit into the
\* gap, and none spans an absence longer than the gap.
THEOREM PassagesVisits == IntakeSpec => []PassagesAreVisits
<1>1. IntakeSpec => []IntakeInv
  BY IntakeInvInit, IntakeInvNext, PTL DEF IntakeSpec
<1> QED BY <1>1, IntakeInvImplies, PTL

\* Reports change the store only by the store's own operations: what is proved
\* of PassageLog holds of it behind the channel and the throttle.
THEOREM IntakeUsesStore == IntakeSpec => Spec
<1>1. IntakeInit => Init
  BY DEF IntakeInit
<1>2. IntakeInv /\ [IntakeNext]_intakeVars => [Next]_vars
  <2> SUFFICES ASSUME IntakeInv, [IntakeNext]_intakeVars PROVE [Next]_vars
    OBVIOUS
  <2>1. ASSUME NEW t \in Tags, NEW kind \in ReportKinds, Report(t, kind) PROVE UNCHANGED vars
    BY <2>1 DEF Report
  <2>2. CASE Handle
    <3> DEFINE r == Head(waiting)
    <3>1. CASE UNCHANGED vars
      BY <3>1
    <3>2. CASE ~UNCHANGED vars
      <4>1. Recorded(r) /\ RecordSeen(r.tag, r.at)
        BY <2>2, <3>2 DEF Handle, Recorded, RecordSeen
      <4>2. r.tag \in Tags /\ r.at \in Times
        BY <4>1, RecordedFacts
      <4> HIDE DEF r
      <4> QED BY <4>1, <4>2 DEF Next
    <3> QED BY <3>1, <3>2
  <2>3. CASE ClockTicks
    BY <2>3 DEF ClockTicks
  <2>4. CASE UNCHANGED intakeVars
    BY <2>4 DEF intakeVars
  <2> QED BY <2>1, <2>2, <2>3, <2>4 DEF IntakeNext
<1>3. IntakeSpec => []IntakeInv
  BY IntakeInvInit, IntakeInvNext, PTL DEF IntakeSpec
<1> QED BY <1>1, <1>2, <1>3, PTL DEF IntakeSpec, Spec
=============================================================================
