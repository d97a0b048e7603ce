---------------------------- MODULE MCArrayList -----------------------------
(* Nine entries: capacities 1 to 16.                                       *)
EXTENDS ArrayList
=============================================================================
