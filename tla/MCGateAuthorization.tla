------------------------ MODULE MCGateAuthorization ------------------------
(***************************************************************************)
(* Two tags; each awaited call takes at most one unit of time.             *)
(***************************************************************************)
EXTENDS GateAuthorization

CONSTANTS t1, t2
=============================================================================
