----------------------------- MODULE MCTerminal -----------------------------
(* Two rows of two: a line of four letters wraps and scrolls, and its      *)
(* first letters leave the screen.                                         *)
EXTENDS Terminal, TLC

Symmetry == Permutations(Letter)
=============================================================================
