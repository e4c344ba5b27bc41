----------------------------- MODULE MCRotation -----------------------------
(* Values for TLC: one secret of the worker's and one of the agent's. *)
EXTENDS Rotation

MCWorkerOrder == <<"builtin_data_key">>
MCAgentOrder == <<"master_key">>

=============================================================================
