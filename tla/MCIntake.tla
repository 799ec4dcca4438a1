------------------------------ MODULE MCIntake ------------------------------
(***************************************************************************)
(* A tag, a gap the throttle and a short wait just fit into.               *)
(***************************************************************************)
EXTENDS Intake

CONSTANTS t1, i1

MCKeyRank == [i \in {i1} |-> 0]
=============================================================================
