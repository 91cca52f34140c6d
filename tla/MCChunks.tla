------------------------------ MODULE MCChunks ------------------------------
(* Six-bit ints: every range, and counts and sizes on both sides of each   *)
(* guard of the code, INT_MAX among them.                                   *)
EXTENDS TaskMath

MCCounts == {-1, 0, 1, 2, 3, 4, MaxInt}
MCSizes == {-1, 0, 1, 2, 3, 5, MaxInt}
MCSteps == {1, 2, 3, 5}
=============================================================================
