--------------------------- MODULE LprCorrelation ---------------------------
(***************************************************************************)
(* correlate_lpr_hits: what the door-opening log of UniFi Access says      *)
(* about the vehicle that came in during a window (unifi.rs).              *)
(*                                                                         *)
(* A hit is kept as what the scan tells apart.  target is the door it      *)
(* names, direction what its device_config targets add up to, and Omitted  *)
(* stands for a field that is missing, blank or cannot be parsed.  An      *)
(* actor is a type and an id; a plate is its canonical key.                *)
(***************************************************************************)
EXTENDS Integers, Sequences, FiniteSets

CONSTANTS
    Plates,      \* canonical plate keys
    Actors,      \* (actor type, actor id) pairs of users and visitors
    Omitted      \* a field that says nothing usable

ASSUME HitAssumption ==
    /\ Omitted \notin Plates \cup Actors
    /\ Omitted \notin Int

Hits(times) ==
    [provider: {"LICENSEPLATE", "other"}, target: {"gate", "elsewhere", "omitted"},
     timestamp: times \cup {Omitted}, direction: {"entry", "exit", "unclear"},
     plate: Plates \cup {Omitted}, result: {"ACCESS", "BLOCKED", "omitted"},
     actor: Actors \cup {Omitted}]

\* Faulty variant: the lower bound belongs to the window.
InWindowFromSince(e, w) == e >= w.since /\ e <= w.until

\* "The lower bound is exclusive" (unifi.rs:556).
InWindow(e, w) == e > w.since /\ e <= w.until

\* What one hit is to the scan: "skip", "spoilt" (the scan returns
\* Ambiguous), "seen" (a plate without access), "nobody" (access without an
\* identity) or "access".
Reading(hit, w) ==
    IF hit.provider # "LICENSEPLATE" \/ hit.target = "elsewhere" THEN "skip"
    ELSE IF hit.target = "omitted" \/ hit.timestamp = Omitted THEN "spoilt"
    ELSE IF ~InWindow(hit.timestamp, w) \/ hit.direction = "exit" THEN "skip"
    ELSE IF \/ hit.direction = "unclear"
            \/ hit.plate = Omitted
            \/ hit.result = "omitted" THEN "spoilt"
    ELSE IF hit.result # "ACCESS" THEN "seen"
    ELSE IF hit.actor = Omitted THEN "nobody" ELSE "access"

\* The locals of the loop.
Blank == [spoilt |-> FALSE, nobody |-> FALSE,
          plates |-> {}, pairs |-> {}, times |-> {}]

\* Faulty variant: an access without an identity is forgiven by a later one
\* with one.
ScanHitForgiving(acc, hit, w) ==
    LET r == Reading(hit, w) IN
    IF acc.spoilt \/ r = "skip" THEN acc
    ELSE IF r = "spoilt" THEN [acc EXCEPT !.spoilt = TRUE]
    ELSE IF r # "access"
         THEN [acc EXCEPT !.plates = @ \cup {hit.plate}, !.nobody = (r = "nobody")]
    ELSE [acc EXCEPT !.plates = @ \cup {hit.plate}, !.nobody = FALSE,
                     !.pairs = @ \cup {<<hit.actor, hit.plate>>},
                     !.times = @ \cup {hit.timestamp}]

\* One turn of the loop; a spoilt scan has returned.
ScanHit(acc, hit, w) ==
    LET r == Reading(hit, w) IN
    IF acc.spoilt \/ r = "skip" THEN acc
    ELSE IF r = "spoilt" THEN [acc EXCEPT !.spoilt = TRUE]
    ELSE IF r # "access"
         THEN [acc EXCEPT !.plates = @ \cup {hit.plate}, !.nobody = @ \/ r = "nobody"]
    ELSE [acc EXCEPT !.plates = @ \cup {hit.plate},
                     !.pairs = @ \cup {<<hit.actor, hit.plate>>},
                     !.times = @ \cup {hit.timestamp}]

Scan(hits, w) ==
    LET scanned[k \in 0 .. Len(hits)] ==
            IF k = 0 THEN Blank ELSE ScanHit(scanned[k - 1], hits[k], w)
    IN  scanned[Len(hits)]

NoMatch == [kind |-> "NoMatch"]
Ambiguous == [kind |-> "Ambiguous"]
Match(i, e) == [kind |-> "Match", identity |-> i, timestamp |-> e]

\* What the loop's locals come to.
Verdict(acc) ==
    IF \/ acc.spoilt \/ acc.nobody
       \/ Cardinality(acc.plates) > 1 \/ Cardinality(acc.pairs) > 1
    THEN Ambiguous
    ELSE IF acc.pairs = {} THEN NoMatch
    ELSE Match(CHOOSE i \in acc.pairs : TRUE,
               CHOOSE e \in acc.times : \A f \in acc.times : f <= e)

\* correlate_lpr_hits.
Correlate(hits, w, truncated) ==
    IF truncated THEN Ambiguous ELSE Verdict(Scan(hits, w))
=============================================================================
