---------------------------- MODULE MCTaskExecutor ----------------------------
(* The intervals for the model checking of TaskExecutor. *)
EXTENDS TaskExecutor, TLC

ShortInterval == [r \in Recurring |-> 1]
=============================================================================
