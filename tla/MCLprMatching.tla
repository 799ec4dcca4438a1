--------------------------- MODULE MCLprMatching ---------------------------
(***************************************************************************)
(* Two tags and two vehicles that are let in, a window that just fits      *)
(* twice into the gap, two clock units to a second.  The logs looked at by *)
(* themselves have up to four hits of every kind the scan tells apart, one *)
(* of them in the last part of a second; a page holds three.               *)
(***************************************************************************)
EXTENDS LprMatching, TLC

CONSTANTS t1, t2, plateA, plateB, user, visitor

MCActors == {user, visitor}
MCPlates == {plateA, plateB}
MCIdentities == MCActors \X MCPlates
MCKeyRank == [i \in MCIdentities |-> (IF i[1] = user THEN 0 ELSE 2) + (IF i[2] = plateA THEN 0 ELSE 1)]
MCHitTimes == 0 .. MaxTime

MCKinds ==
    [provider: {"LICENSEPLATE"}, target: {"gate"}, timestamp: 0 .. MaxTime - 1,
     direction: {"entry"}, plate: MCPlates, result: {"ACCESS"}, actor: {user}]

MCSymmetry == Permutations(Tags)

Hit(target, e, direction, plate, result, actor) ==
    [provider |-> "LICENSEPLATE", target |-> target, timestamp |-> e,
     direction |-> direction, plate |-> plate, result |-> result, actor |-> actor]

Entry(e, plate, result, actor) == Hit("gate", e, "entry", plate, result, actor)

SomeHits ==
    {Entry(1, plateA, "ACCESS", user), Entry(2, plateA, "ACCESS", user),
     Entry(1, plateA, "ACCESS", visitor), Entry(3, plateB, "ACCESS", user),
     Entry(1, plateA, "BLOCKED", user), Entry(2, plateB, "BLOCKED", Omitted),
     Entry(1, plateA, "ACCESS", Omitted), Entry(2, Omitted, "ACCESS", user),
     Entry(1, plateA, "omitted", user), Entry(Omitted, plateA, "ACCESS", user),
     Hit("gate", 1, "exit", plateB, "ACCESS", visitor),
     Hit("gate", 2, "unclear", plateA, "ACCESS", user),
     Hit("omitted", 1, "entry", plateA, "ACCESS", user),
     Hit("elsewhere", 2, "entry", plateB, "ACCESS", user),
     [Entry(2, plateB, "ACCESS", user) EXCEPT !.provider = "other"]}

MCLogs == UNION {[1 .. n -> SomeHits] : n \in 0 .. 4}
=============================================================================
