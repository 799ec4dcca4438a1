--------------------------- MODULE MCLokiDelivery ---------------------------
(***************************************************************************)
(* Two threads of two records each, a channel and batches they can fill.   *)
(***************************************************************************)
EXTENDS LokiDelivery

CONSTANTS a, b
=============================================================================
