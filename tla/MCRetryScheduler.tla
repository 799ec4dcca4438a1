-------------------------- MODULE MCRetryScheduler --------------------------
(***************************************************************************)
(* Two passages; seconds are scaled so that two attempts fit into the      *)
(* horizon with one to spare.                                              *)
(***************************************************************************)
EXTENDS RetryScheduler
=============================================================================
