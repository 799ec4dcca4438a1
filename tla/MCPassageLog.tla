--------------------------- MODULE MCPassageLog ----------------------------
(***************************************************************************)
(* Two tags, times 0 .. 4 with a gap of 1 and a dwell limit of 2.          *)
(***************************************************************************)
EXTENDS PassageVisits, TLC

CONSTANTS t1, t2, resident, visitor

MCIdentities == {resident, visitor}
MCVisitors == {visitor}
MCSymmetry == Permutations(Tags)
MCKeyRank == [i \in MCIdentities |-> IF i = resident THEN 0 ELSE 1]
=============================================================================
