----------------------------- MODULE MCLearning -----------------------------
(***************************************************************************)
(* One tag, one resident's vehicle and one visitor's.                      *)
(***************************************************************************)
EXTENDS Learning, TLC

CONSTANTS resident, visitor

MCIdentities == {resident, visitor}
MCVisitors == {visitor}
MCKeyRank == [i \in MCIdentities |-> IF i = resident THEN 0 ELSE 1]
=============================================================================
