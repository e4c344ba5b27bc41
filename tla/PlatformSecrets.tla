-------------------------- MODULE PlatformSecrets --------------------------
(***************************************************************************)
(* What a secret.rotate job of the worker does to one platform secret, and *)
(* what the check that follows a failure repairs.  A behaviour is about    *)
(* one kind of secret: a token or password that a server replaces at once  *)
(* (Authentik, Conjur), a login a store issues beside the old one          *)
(* (OpenBao), a key that hosts or VMs keep beside others (ssh), or the     *)
(* password the stored engine vault is encrypted with.                     *)
(*                                                                         *)
(* A value is a number.  A place accepts a set of values; the vault is a   *)
(* place that accepts the one password that opens it.  A fault is a worker *)
(* that dies, an answer that is lost, a step that breaks off half-way, or  *)
(* a machine that is off.                                                  *)
(***************************************************************************)
EXTENDS Naturals, Sequences, FiniteSets, SequencesExt

CONSTANTS
    Kinds,          \* the kinds of secrets
    Hosts,          \* the KVM hosts (worker key) or the VMs (bootstrap key), visited in order
    Keep,           \* how many earlier VM keys and vault passwords are kept
    MaxFaults,      \* bound: faults
    MaxRotations    \* bound: rotations

Replaced == {"directory_token", "authentik_admin", "oidc_client_secret"}
AllKinds == Replaced \cup {"openbao_secret_id", "conjur_api_key", "worker_ssh_key",
                           "bootstrap_ssh_key", "vault_password"}

ASSUME PlatformAssumption ==
    /\ Kinds \subseteq AllKinds
    /\ Hosts \in Seq(Range(Hosts)) /\ IsInjective(Hosts)
    /\ Keep \in Nat \ {0} /\ MaxFaults \in Nat /\ MaxRotations \in Nat

Server == "server"
Values == 0..(MaxRotations + MaxFaults + 1)

VARIABLES
    kind,       \* the kind this behaviour is about
    accepts,    \* what each place accepts
    stored,     \* the value in the secret store (worker key: the key file)
    history,    \* the earlier values that are kept, newest first
    missed,     \* the VMs passed over by the rotation that stored the key
    newest,     \* the newest value that was made
    job,        \* the job: its step, its new value, the hosts it added it on or left out
    used        \* how much of each bound is used

vars == <<kind, accepts, stored, history, missed, newest, job, used>>

Keys == kind \in {"worker_ssh_key", "bootstrap_ssh_key"}
Places == IF Keys THEN Range(Hosts) ELSE {Server}
Idle == [at |-> "idle", task |-> "none", new |-> 0, added |-> {}, left |-> {}, next |-> 1]

Init ==
    /\ kind \in Kinds
    /\ accepts = [p \in Places |-> {0}]
    /\ stored = 0
    /\ history = <<>>
    /\ missed = {}
    /\ newest = 0
    /\ job = Idle
    /\ used = [faults |-> 0, rotations |-> 0]

-----------------------------------------------------------------------------
Goes(step) == job' = [job EXCEPT !.at = step]
Ends == job' = Idle
Fault == used.faults < MaxFaults /\ used' = [used EXCEPT !.faults = @ + 1]
Fine == UNCHANGED used

\* A refusal is an ordinary end of a rotation; where a check recovers it counts as a fault.
Refused == IF job.task = "check" THEN Fault ELSE Fine

Accepts(p, S) == accepts' = [accepts EXCEPT ![p] = S]

\* What is stored is accepted, by VMs where it was added (every other kind misses no place).
Works == \A p \in Places \ missed : stored \in accepts[p]
Kept == {stored} \cup Range(history)

\* The step a rotation of each kind begins with.
FirstStep == CASE kind \in Replaced \cup {"conjur_api_key"} -> "set"
               [] kind = "openbao_secret_id" -> "issue"
               [] kind = "vault_password" -> "history"
               [] OTHER -> "add"

Begin(task) == /\ newest' = newest + 1
               /\ job' = [Idle EXCEPT !.at = FirstStep, !.task = task, !.new = newest + 1]
               /\ UNCHANGED <<kind, accepts, stored, history, missed>>

Rotate ==
    /\ job.at = "idle"
    /\ used.rotations < MaxRotations
    /\ used' = [used EXCEPT !.rotations = @ + 1]
    /\ Begin("rotate")

-----------------------------------------------------------------------------
(* A value that a server replaces: set it, try it, store it, or put the    *)
(* old one back.                                                           *)

ServerSets ==
    /\ job.at = "set"
    /\ \/ Accepts(Server, {job.new}) /\ Goes(IF kind = "conjur_api_key" THEN "store" ELSE "check") /\ Fine
       \/ Refused /\ Ends /\ UNCHANGED accepts                          \* the old one stays
       \/ Fault /\ Accepts(Server, {job.new}) /\ Ends                    \* set, and the answer is lost
    /\ UNCHANGED <<kind, stored, history, missed, newest>>

\* The new value is tried before it is stored; OpenBao's is issued beside the old one.
Tries ==
    /\ job.at = "check"
    /\ \/ Goes("store") /\ Fine
       \/ Refused /\ Goes("put_back")
    /\ UNCHANGED <<kind, accepts, stored, history, missed, newest>>

\* PutBack variant for OldStays: a value that does not work stays.
LeavesNew ==
    /\ job.at = "put_back"
    /\ Ends /\ Fine
    /\ UNCHANGED <<kind, accepts, stored, history, missed, newest>>

\* The old value again, or the issued one destroyed; either may fail too.
PutBack ==
    /\ job.at = "put_back"
    /\ \/ Fine /\ Accepts(Server, IF kind = "openbao_secret_id" THEN accepts[Server] \ {job.new} ELSE {stored})
       \/ Fault /\ UNCHANGED accepts
    /\ Ends
    /\ UNCHANGED <<kind, stored, history, missed, newest>>

Stores ==
    /\ job.at = "store"
    /\ kind # "bootstrap_ssh_key"
    /\ stored' = job.new
    /\ IF kind = "openbao_secret_id" THEN job' = [job EXCEPT !.at = "destroy", !.next = stored] ELSE Ends
    /\ Fine
    /\ UNCHANGED <<kind, accepts, history, missed, newest>>

-----------------------------------------------------------------------------
(* OpenBao: the new secret ID is issued beside the old one, which is       *)
(* destroyed once the new one is stored.                                   *)

\* Issues variant for KeepsWorking: the role has room for one secret ID.
IssuesInstead ==
    /\ job.at = "issue"
    /\ Accepts(Server, {job.new}) /\ Goes("check") /\ Fine
    /\ UNCHANGED <<kind, stored, history, missed, newest>>

Issues ==
    /\ job.at = "issue"
    /\ \/ Accepts(Server, accepts[Server] \cup {job.new}) /\ Goes("check") /\ Fine
       \/ Refused /\ Ends /\ UNCHANGED accepts
       \/ Fault /\ Accepts(Server, accepts[Server] \cup {job.new}) /\ Ends
    /\ UNCHANGED <<kind, stored, history, missed, newest>>

Destroys ==
    /\ job.at = "destroy"
    /\ \/ Accepts(Server, accepts[Server] \ {job.next}) /\ Fine
       \/ Fault /\ UNCHANGED accepts
    /\ Ends
    /\ UNCHANGED <<kind, stored, history, missed, newest>>

-----------------------------------------------------------------------------
(* The ssh keys: added and tried everywhere before anything is dropped.    *)

More == job.next <= Len(Hosts)
Host == Hosts[job.next]
Visited == [job EXCEPT !.next = @ + 1, !.added = @ \cup {Host}]

\* The oldest kept VM key leaves a VM as soon as the new one works there.
Expired == IF kind = "bootstrap_ssh_key" /\ Len(history) = Keep THEN {history[Keep]} ELSE {}

\* One host more has the new key and it logs in; else the new key is removed
\* again: from every host (worker key), from this environment's VMs (VM key).
AddsKey ==
    /\ job.at = "add" /\ More
    /\ accepts[Host] \cap Kept # {}
    /\ \/ Fine /\ job' = Visited /\ Accepts(Host, (accepts[Host] \ Expired) \cup {job.new})
       \/ Fine /\ UNCHANGED accepts
          /\ IF kind = "worker_ssh_key" THEN Goes("undo") ELSE Ends
       \/ Fault /\ Accepts(Host, accepts[Host] \cup {job.new})
          /\ IF kind = "worker_ssh_key" THEN job' = [job EXCEPT !.at = "undo", !.added = @ \cup {Host}] ELSE Ends
    /\ UNCHANGED <<kind, stored, history, missed, newest>>

PassesOver == job' = [job EXCEPT !.next = @ + 1, !.left = @ \cup {Host}]

\* A VM whose environment is not deployed at the moment, or is on a remote KVM host, is not visited.
Skips ==
    /\ job.at = "add" /\ More
    /\ kind = "bootstrap_ssh_key"
    /\ PassesOver /\ Fine
    /\ UNCHANGED <<kind, accepts, stored, history, missed, newest>>

\* A VM that is off is passed over and reported; a host that is off ends the worker key's rotation.
OffAtAdd ==
    /\ job.at = "add" /\ More
    /\ Fault
    /\ IF kind = "worker_ssh_key" THEN Goes("undo") ELSE PassesOver
    /\ UNCHANGED <<kind, accepts, stored, history, missed, newest>>

\* A VM that refuses every kept key counts as unreachable; a KVM host ends the rotation.
Refuses ==
    /\ job.at = "add" /\ More
    /\ accepts[Host] \cap Kept = {}
    /\ IF kind = "worker_ssh_key" THEN Goes("undo") ELSE PassesOver
    /\ Fine
    /\ UNCHANGED <<kind, accepts, stored, history, missed, newest>>

AllAdded ==
    /\ job.at = "add" /\ ~More
    /\ IF kind = "worker_ssh_key" THEN job' = [job EXCEPT !.at = "drop", !.next = 1] ELSE Goes("history")
    /\ Fine
    /\ UNCHANGED <<kind, accepts, stored, history, missed, newest>>

\* Only now the old key goes, host by host; an exception removes the new one from all of them.
DropsOld ==
    /\ job.at = "drop"
    /\ \/ More /\ Fine /\ Accepts(Host, accepts[Host] \ {stored}) /\ job' = [job EXCEPT !.next = @ + 1]
       \/ More /\ Fault /\ Goes("undo") /\ UNCHANGED accepts
       \/ More /\ Fault /\ job' = [job EXCEPT !.next = @ + 1] /\ UNCHANGED accepts
       \/ ~More /\ Fine /\ Goes("store") /\ UNCHANGED accepts
    /\ UNCHANGED <<kind, stored, history, missed, newest>>

Undoes ==
    /\ job.at = "undo"
    /\ accepts' = [p \in Places |-> IF p \in job.added THEN accepts[p] \ {job.new} ELSE accepts[p]]
    /\ Ends /\ Fine
    /\ UNCHANGED <<kind, stored, history, missed, newest>>

\* Of the earlier vault passwords the one in use is taken out, and each is there once; a VM key that
\* was kept and then not replaced is there twice.
Earlier == IF kind = "vault_password" THEN RemoveFirst(history, stored) ELSE history

\* KeepsEarlier variant for TypeOK: nothing leaves the history.
KeepsAll ==
    /\ job.at = "history" /\ (kind = "vault_password" => Works)
    /\ history' = <<stored>> \o Earlier
    /\ Goes(IF kind = "vault_password" THEN "vault" ELSE "store")
    /\ Fine
    /\ UNCHANGED <<kind, accepts, stored, missed, newest>>

\* The value in use becomes the newest of the earlier ones, before the new one is stored.
KeepsEarlier ==
    /\ job.at = "history" /\ (kind = "vault_password" => Works)
    /\ LET all == <<stored>> \o Earlier
       IN  history' = SubSeq(all, 1, IF Len(all) < Keep THEN Len(all) ELSE Keep)
    /\ Goes(IF kind = "vault_password" THEN "vault" ELSE "store")
    /\ Fine
    /\ UNCHANGED <<kind, accepts, stored, missed, newest>>

\* The private key, what Ansible signs in with; the public one is put after it.
StoresKey ==
    /\ job.at = "store" /\ kind = "bootstrap_ssh_key"
    /\ stored' = job.new
    /\ missed' = job.left
    /\ Ends /\ Fine
    /\ UNCHANGED <<kind, accepts, history, newest>>

-----------------------------------------------------------------------------
(* The vault: re-encrypted with the stored password; then the new vault is *)
(* stored, and its password after it.  A put that fails puts both back.    *)

\* Re-encrypting fails, as it does when the stored password no longer opens the vault.
RekeyFails ==
    /\ job.at = "history" /\ kind = "vault_password"
    /\ Ends /\ Fine
    /\ UNCHANGED <<kind, accepts, stored, history, missed, newest>>

\* A put that fails may still have been done; putting the old vault back may fail as well.
StoresVault ==
    /\ job.at = "vault"
    /\ \/ Fine /\ Accepts(Server, {job.new}) /\ Goes("store")
       \/ Fault /\ UNCHANGED accepts /\ Ends
       \/ Fault /\ Accepts(Server, {job.new}) /\ Ends
    /\ UNCHANGED <<kind, stored, history, missed, newest>>

\* The password's put fails, done or not; neither, the vault, or both of them are put back.
VaultPutFails ==
    /\ job.at = "store" /\ kind = "vault_password"
    /\ Fault
    /\ \E now \in {stored, job.new} :
          \/ stored' = now /\ UNCHANGED accepts
          \/ stored' = now /\ Accepts(Server, {stored})
          \/ Accepts(Server, {stored}) /\ UNCHANGED stored
    /\ Ends
    /\ UNCHANGED <<kind, history, missed, newest>>

\* The secret store fails: only the OIDC client secret is put back then.
StoreFails ==
    /\ job.at = "store"
    /\ kind \in Replaced \cup {"openbao_secret_id", "conjur_api_key"}
    /\ Fault
    /\ IF kind = "oidc_client_secret" THEN Goes("put_back") ELSE Ends
    /\ UNCHANGED <<kind, accepts, stored, history, missed, newest>>

-----------------------------------------------------------------------------
(* The check, and what recovers a value that is refused.                   *)

\* A rotation through an account that needs no old value.
RecoversByRotation ==
    /\ job.at = "idle" /\ ~Works
    /\ kind \in Replaced
    /\ newest < MaxRotations + MaxFaults + 1
    /\ Fine
    /\ Begin("check")

\* The host's agent gives LABaPe a new login with the stores' root credentials.
AgentRecovers ==
    /\ job.at = "idle" /\ ~Works
    /\ kind \in {"openbao_secret_id", "conjur_api_key"}
    /\ newest' = newest + 1
    /\ stored' = newest'
    /\ Accepts(Server, {newest'})
    /\ Fine
    /\ UNCHANGED <<kind, history, missed, job>>

\* RecoversKey variant for Recovers: only the hosts of the job's own list are visited.
RecoversAdded ==
    /\ job.at = "idle" /\ ~Works
    /\ kind = "worker_ssh_key"
    /\ accepts' = [p \in Places |-> IF p \in job.added THEN accepts[p] \cup {stored} ELSE accepts[p]]
    /\ Fine
    /\ UNCHANGED <<kind, stored, history, missed, newest, job>>

\* The worker's key is authorized again through each host's access account.
RecoversKey ==
    /\ job.at = "idle" /\ ~Works
    /\ kind = "worker_ssh_key"
    /\ accepts' = [p \in Places |-> accepts[p] \cup {stored}]
    /\ Fine
    /\ UNCHANGED <<kind, stored, history, missed, newest, job>>

\* An earlier vault password that opens the vault is the stored one again.
RecoversVault ==
    /\ job.at = "idle" /\ ~Works
    /\ kind = "vault_password"
    /\ \E v \in Range(history) \cap accepts[Server] : stored' = v
    /\ Fine
    /\ UNCHANGED <<kind, accepts, history, missed, newest, job>>

WorkerDies ==
    /\ job.at # "idle"
    /\ Fault /\ Ends
    /\ UNCHANGED <<kind, accepts, stored, history, missed, newest>>

JobStep ==
    \/ ServerSets \/ Tries \/ PutBack \/ Stores \/ Issues \/ Destroys
    \/ AddsKey \/ Skips \/ OffAtAdd \/ Refuses \/ AllAdded \/ DropsOld \/ Undoes \/ KeepsEarlier \/ StoresKey
    \/ RekeyFails \/ StoresVault \/ VaultPutFails \/ StoreFails

Check == RecoversByRotation \/ AgentRecovers \/ RecoversKey \/ RecoversVault

Next == Rotate \/ JobStep \/ Check \/ WorkerDies

Spec == Init /\ [][Next]_vars

\* A running job goes on, and a failed value is checked again and again.
FairSpec == Spec /\ WF_vars(JobStep) /\ SF_vars(Check)

-----------------------------------------------------------------------------
Jobs == [at : {"idle", "set", "issue", "check", "put_back", "store", "destroy", "add", "drop", "undo",
               "history", "vault"},
         task : {"none", "rotate", "check"}, new : Values, added : SUBSET Places, left : SUBSET Places,
         next : Nat]
Bounds == [faults : 0..MaxFaults, rotations : 0..MaxRotations]

\* Every variable has its type, and no more than Keep earlier values are kept.
TypeOK ==
    /\ kind \in Kinds
    /\ accepts \in [Places -> SUBSET Values]
    /\ stored \in Values /\ newest \in Values
    /\ history \in Seq(Values) /\ Len(history) <= Keep
    /\ missed \subseteq Places
    /\ job \in Jobs
    /\ used \in Bounds

\* Jobs run beside the rotation of OpenBao's secret ID and of the VM key: at every moment, whatever
\* failed, the stored one is accepted, by every VM that the rotation which stored it did not pass over.
\* (A VM that was off, on a remote host or in an environment that was not deployed gets it from a later
\* rotation, if ever.  The Keep-th rotation in a row that breaks off before the new key is stored leaves
\* the key in use as the oldest of the kept ones, and the next one drops it from the VMs.)
KeepsWorking ==
    (kind = "openbao_secret_id" \/ (kind = "bootstrap_ssh_key" /\ used.faults < Keep)) => Works

\* "rotation failed, the old secret stays": however a rotation ends, refusals and values that do not
\* work included, the stored value works when no fault happened: no crash, no lost answer.
OldStays == job.at = "idle" /\ used.faults = 0 => Works

\* After the faults the checks make the stored value work again, wherever the rotation was cut off.
\* (The VM key is only checked against its public key, and an engine vault can be lost.)
Recovers == kind \notin {"vault_password", "bootstrap_ssh_key"} => []<>Works

-----------------------------------------------------------------------------
(* Why it holds: the conjuncts of the inductive invariant.                 *)

AtServer == kind \in Replaced \cup {"conjur_api_key"}

\* Each kind's rotation has its own steps.
StepsFit ==
    /\ job.at # "idle" => job.task # "none"
    /\ job.at = "set" => AtServer
    /\ job.at \in {"check", "put_back"} => kind \in Replaced \cup {"openbao_secret_id"}
    /\ job.at \in {"issue", "destroy"} => kind = "openbao_secret_id"
    /\ job.at = "add" => Keys /\ job.next # 0
    /\ job.at = "drop" => job.next # 0
    /\ job.at \in {"drop", "undo"} => kind = "worker_ssh_key"
    /\ job.at = "history" => kind \in {"bootstrap_ssh_key", "vault_password"}
    /\ job.at = "vault" => kind = "vault_password"
    /\ kind # "bootstrap_ssh_key" => missed = {}

\* Values are made in order; the job's is newer than the stored one until it is stored.
InOrder ==
    /\ stored <= newest /\ \A i \in DOMAIN history : history[i] <= newest
    /\ job.at # "idle" => job.new = newest /\ \A i \in DOMAIN history : history[i] < newest
    /\ job.at \notin {"idle", "destroy"} => stored < newest

\* No value is made but by a rotation or, once a fault left a value that does not work, by a check.
Counted ==
    /\ newest <= used.rotations + used.faults
    /\ AtServer /\ ~Works /\ (job.at = "idle" \/ (job.at = "set" /\ job.task = "rotate")) =>
           newest < used.rotations + used.faults

\* Where the new value is accepted before it is the stored one, whatever failed.
Accepted ==
    /\ AtServer \/ kind = "vault_password" =>
           (job.at \in {"check", "store"} => accepts[Server] = {job.new})
    /\ kind = "openbao_secret_id" =>
           /\ job.at \in {"check", "store"} => job.new \in accepts[Server]
           /\ job.at = "destroy" => job.next # stored
    /\ kind = "worker_ssh_key" =>
           /\ job.at = "add" => \A i \in DOMAIN Hosts : i < job.next => job.new \in accepts[Hosts[i]]
           /\ job.at \in {"drop", "store"} => \A p \in Places : job.new \in accepts[p]
    /\ kind = "bootstrap_ssh_key" =>
           /\ job.at \in {"add", "history", "store"} => \A p \in job.added : job.new \in accepts[p]
           /\ job.at = "add" => \A i \in DOMAIN Hosts : i < job.next => Hosts[i] \in job.added \cup job.left
           /\ job.at \in {"history", "store"} => Places = job.added \cup job.left

\* The earlier vault passwords differ; the VM key in use is among the earlier ones once for each
\* rotation that broke off after it was kept.
Copies ==
    /\ kind = "vault_password" => IsInjective(history)
    /\ kind = "bootstrap_ssh_key" =>
           \A i \in DOMAIN history :
              history[i] = stored => i <= used.faults + (IF job.at = "store" THEN 1 ELSE 0)

\* While nothing failed, nothing has been dropped.
NothingFailed ==
    used.faults = 0 => (job.at \in {"idle", "set", "add", "undo", "history", "vault"} => Works)

IInv == TypeOK /\ StepsFit /\ InOrder /\ Counted /\ Accepted /\ Copies /\ KeepsWorking /\ NothingFailed
=============================================================================
