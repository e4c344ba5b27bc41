---------------------------- MODULE MCTemplates ----------------------------
(* Values for TLC: two hosts, the primary and another one.                 *)
EXTENDS Templates
CONSTANTS filer, kvm
Uses(there, here) == [x \in Hosts |-> IF x = filer THEN there ELSE here]
\* At home on the other host, and parts on both with the primary as their home.
SomeSpecs == {[home |-> kvm, uses |-> Uses(None, 1)], [home |-> filer, uses |-> Uses(1, 1)]}
=============================================================================
