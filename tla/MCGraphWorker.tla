--------------------------- MODULE MCGraphWorker ---------------------------
(* Small instances of GraphWorker for TLC.                                 *)
EXTENDS GraphWorker

CONSTANTS n0, n1, t1, t2
=============================================================================
