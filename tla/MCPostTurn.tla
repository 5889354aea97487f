----------------------------- MODULE MCPostTurn -----------------------------
(* Small instances of PostTurn: two run loops of each worker.              *)
EXTENDS PostTurn

CONSTANTS l1, l2
=============================================================================
