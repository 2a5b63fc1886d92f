------------------------- MODULE MCValvulaAsyncQueue -------------------------
(* A small instance of ValvulaAsyncQueue for TLC.                            *)
EXTENDS ValvulaAsyncQueue
CONSTANTS t1, t2, t3, x1, y1
=============================================================================
