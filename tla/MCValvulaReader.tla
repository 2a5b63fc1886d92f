--------------------------- MODULE MCValvulaReader ---------------------------
(* A small instance of ValvulaReader for TLC.                               *)
EXTENDS ValvulaReader, TLC
CONSTANTS c1, c2, w1, w2, r1, r2, r3
Interchangeable == Permutations(Workers) \cup Permutations(Requests)
=============================================================================
