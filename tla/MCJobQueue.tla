----------------------------- MODULE MCJobQueue -----------------------------
(* Small instances of the job queue for TLC. *)
EXTENDS JobQueueTurns, TLC

CONSTANTS h1, h2

(* Every environment lives on h1. *)
MCHomeOf == [e \in Envs |-> h1]

Moves           == {DeployJob, MoveJob, RotateJob}
DeployAndReboot == {DeployJob, RebootJob}

Enabled(n)  == [limit |-> n, enabled |-> TRUE]
TwoAtATime  == {Enabled(2)}
Changing    == {Enabled(2), [limit |-> 1, enabled |-> FALSE]}

Interchangeable == Permutations(Requests) \cup Permutations(Workers)
=============================================================================
