--------------------------- MODULE MCSessionMarkers ---------------------------
(***************************************************************************)
(* SessionMarkers for TLC: runs are interchangeable.  The symmetry is for  *)
(* configurations without liveness properties.                             *)
(***************************************************************************)
EXTENDS SessionMarkers, TLC

RunSymmetry == Permutations(Runs)
===============================================================================
