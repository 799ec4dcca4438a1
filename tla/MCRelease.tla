----------------------------- MODULE MCRelease -----------------------------
(***************************************************************************)
(* Four days, two changes, releases of two assets, one setback.  Changes,  *)
(* builds and assets are interchangeable.                                  *)
(***************************************************************************)
EXTENDS Release, TLC

CONSTANTS c1, c2, archive, sums, b1, b2

Symmetry == Permutations(Changes) \cup Permutations(Builds) \cup Permutations(Names)
=============================================================================
