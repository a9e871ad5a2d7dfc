----------------------------- MODULE MCTaskQueue -----------------------------
(* Small instance of TaskQueue for TLC. *)
EXTENDS TaskQueue

CONSTANTS t1, d1, p1
=============================================================================
