------------------------- MODULE MCValvulaThreadPool -------------------------
(* Small instances of ValvulaThreadPool for TLC.                             *)
EXTENDS ValvulaThreadPool
CONSTANTS t1, t2, t3, x1, y1
=============================================================================
