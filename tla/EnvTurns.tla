------------------------------ MODULE EnvTurns ------------------------------
(***************************************************************************)
(* What the job queue promises its callers: a job is submitted once, starts *)
(* at most once, never starts after it is over, and while it is active no   *)
(* other job of its environment is.  Nothing is said of hosts, workers,     *)
(* requests, heartbeats or maintenance.                                     *)
(***************************************************************************)
CONSTANTS Jobs, Envs, NoEnv    \* a job may be for no environment

VARIABLES target,    \* target[j]: the environment job j is for
          waiting, active, over

vars == <<target, waiting, active, over>>

Init == /\ target = [j \in Jobs |-> NoEnv]
        /\ waiting = {} /\ active = {} /\ over = {}

Submit(j, e) ==
    /\ j \notin waiting \cup active \cup over
    /\ target' = [target EXCEPT ![j] = e]
    /\ waiting' = waiting \cup {j}
    /\ UNCHANGED <<active, over>>

Start(j) ==
    /\ j \in waiting
    /\ target[j] = NoEnv \/ \A k \in active : target[k] # target[j]
    /\ waiting' = waiting \ {j}
    /\ active' = active \cup {j}
    /\ UNCHANGED <<target, over>>

(* Finished, failed, or dropped before they started. *)
End(ended) ==
    /\ ended \subseteq waiting \cup active
    /\ waiting' = waiting \ ended
    /\ active' = active \ ended
    /\ over' = over \cup ended
    /\ UNCHANGED target

Next == \/ \E j \in Jobs : Start(j) \/ \E e \in Envs \cup {NoEnv} : Submit(j, e)
        \/ \E ended \in SUBSET Jobs : End(ended)

Spec == Init /\ [][Next]_vars
=============================================================================
