--------------------------- MODULE MCEnvironments ---------------------------
(* Values for TLC: environments, names and addresses are interchangeable. *)
EXTENDS Environments, TLC

Interchangeable == Permutations(Envs) \cup Permutations(VmNames) \cup Permutations(Addresses)

=============================================================================
