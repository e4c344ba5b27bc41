---------------------------- MODULE JobQueueTurns ----------------------------
(***************************************************************************)
(* The job queue keeps the promise of EnvTurns: a row is waiting while it   *)
(* is queued, active while it is running and over when it is finished.      *)
(***************************************************************************)
EXTENDS JobQueue

Turns == INSTANCE EnvTurns WITH
    Jobs    <- JobIds,
    target  <- [j \in JobIds |-> jobs[j].env],
    waiting <- {j \in JobIds : Queued(j)},
    active  <- {j \in JobIds : Running(j)},
    over    <- {j \in JobIds : jobs[j].state \in FINISHED}

(* Across every worker, handler, crash and recovery, a job starts at most   *)
(* once and its environment's jobs take turns: retry inserts a new row, and *)
(* neither recover_stale, cancel nor _finish puts a row back in the queue.  *)
TakesTurns == Turns!Spec
=============================================================================
