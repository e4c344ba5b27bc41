---------------------------- MODULE AgentSecrets ----------------------------
(***************************************************************************)
(* rotate() of the update agent (deploy/update-agent/labape-update.sh): a   *)
(* bootstrap secret gets a new value in the service that checks it (the     *)
(* data keys, the database role, the CA's keys), in its file, in the        *)
(* platform store and in the running containers, one command after the      *)
(* other.  Any command can fail, and what was done is then taken back in    *)
(* the order of that secret's own branch.  The power can go at any time.    *)
(*                                                                          *)
(* Values are numbered: rotation n makes value n.  The agent runs alone,    *)
(* with maintenance on; turning it on and off is not modelled here.  What   *)
(* Rotation has too, the agent's schedule, has names of its own here.       *)
(***************************************************************************)
EXTENDS Integers

CONSTANTS
    MaxRotations,   \* bound: rotations begun
    MaxFaults,      \* bound: commands that fail though nothing was wrong
    Missing         \* no such file

ASSUME AgentAssumption ==
    MaxRotations \in Nat /\ MaxFaults \in Nat /\ Missing \notin Nat

Kinds   == {"master_key", "postgres_password", "ca_password"}
CaKeys  == {"root_ca_key", "intermediate_ca_key"}
Parts(k) == CASE k = "master_key"        -> {"dataKeys"}
              [] k = "postgres_password" -> {"role"}
              [] k = "ca_password"       -> CaKeys \cup {"provisioner"}
Forward == {"maintenance", "change", "provisioner", "swap", "push", "recreate", "health"}
Back    == {"changeBack", "provisionerBack", "filesBack", "pushBack", "recreateBack"}
Ends    == {"succeeded", "nothingChanged", "notStored", "unhealthy"}

VARIABLES
    kind,        \* the secret
    inStore,     \* the files are a memory-only copy of the platform store's (LABAPE_SECRETS_DIR)
    pc,          \* the command the agent runs next
    said,        \* status.json: running, or how the last rotation ended
    why,         \* why it is going back
    rotations,
    file,        \* the secret's file
    old,         \* its .old copy
    store,       \* the platform store's value
    service,     \* service[p]: the value that part p of the service opens with
    loaded,      \* the file as the containers read it when they were made
    running,     \* the service's keys as the CA read them then
    up,          \* whether the containers the agent works in are up
    faults,      \* history: commands that failed though nothing was wrong, and the first of them
    fault,
    cut          \* history: where the power went

secretVars == <<kind, inStore, pc, said, why, rotations, file, old, store, service, loaded, running,
                up, faults, fault, cut>>

SecretTypeOK ==
    /\ kind \in Kinds /\ inStore \in BOOLEAN
    /\ pc \in {"idle"} \cup Forward \cup Back
    /\ said \in {"none", "running"} \cup Ends
    /\ why \in {"none"} \cup Ends
    /\ rotations \in 0 .. MaxRotations
    /\ file \in Nat /\ old \in Nat \cup {Missing} /\ store \in Nat
    /\ service \in [Parts(kind) -> Nat]
    /\ loaded \in Nat /\ running \in [Parts(kind) -> Nat]
    /\ up \in BOOLEAN
    /\ faults \in 0 .. MaxFaults
    /\ fault \in {"none"} \cup Forward \cup Back
    /\ cut \in {"none", "idle"} \cup Forward \cup Back

All(value) == [p \in Parts(kind) |-> value]

SecretInit ==
    /\ kind \in Kinds /\ inStore \in BOOLEAN
    /\ pc = "idle" /\ said = "none" /\ why = "none" /\ rotations = 0
    /\ file = 0 /\ old = Missing /\ store = 0 /\ service = All(0)
    /\ loaded = 0 /\ running = All(0) /\ up = TRUE
    /\ faults = 0 /\ fault = "none" /\ cut = "none"

-----------------------------------------------------------------------------
GoTo(step) == pc' = step /\ UNCHANGED <<said, why>>
GoBack(step, reason) == pc' = step /\ why' = reason /\ UNCHANGED said
End(how) == pc' = "idle" /\ said' = how /\ why' = "none"

Works == UNCHANGED <<faults, fault>>
Fails == /\ faults < MaxFaults /\ faults' = faults + 1
         /\ fault' = IF faults = 0 THEN pc ELSE fault

UntouchedFiles == UNCHANGED <<file, old, store>>
Unchanged      == UNCHANGED <<kind, inStore, rotations, cut>>

(* A request the API let through: no other is running (update.py busy). *)
Start ==
    /\ pc = "idle" /\ said # "running" /\ rotations < MaxRotations
    /\ rotations' = rotations + 1
    /\ pc' = "maintenance" /\ said' = "running"
    /\ UNCHANGED <<kind, inStore, why, file, old, store, service, loaded, running, up, faults, fault, cut>>

(* What the agent runs in the API's container reaches the database. *)
Reaches == up /\ (kind = "postgres_password" => service = All(loaded))

(* Maintenance goes on and running jobs end, within DRAIN_SECONDS. *)
Maintenance ==
    /\ pc = "maintenance"
    /\ \/ Reaches /\ Works /\ GoTo("change")
       \/ (IF Reaches THEN Fails ELSE Works) /\ End("nothingChanged")
    /\ Unchanged /\ UntouchedFiles /\ UNCHANGED <<service, loaded, running, up>>

(* The new value in the service. *)

RewrapKeys ==
    /\ pc = "change" /\ kind = "master_key"
    /\ \/ /\ service = All(file) /\ Works
          /\ service' = All(rotations) /\ GoTo("swap")
       \/ /\ IF service = All(file) THEN Fails ELSE Works
          /\ End("nothingChanged") /\ UNCHANGED service
    /\ Unchanged /\ UntouchedFiles /\ UNCHANGED <<loaded, running, up>>

AlterRole ==
    /\ pc = "change" /\ kind = "postgres_password"
    /\ \/ Works /\ service' = All(rotations) /\ GoTo("swap")
       \/ Fails /\ End("nothingChanged") /\ UNCHANGED service
    /\ Unchanged /\ UntouchedFiles /\ UNCHANGED <<loaded, running, up>>

(* repass.sh re-encrypts the root's key, then the intermediate's, and stops *)
(* at the first that does not open.                                         *)
Opens(k, from) == service[k] = from
Reencrypt(keys, to) == [p \in Parts(kind) |-> IF p \in keys THEN to ELSE service[p]]
RepassStops(from, to) ==
    {service} \cup IF Opens("root_ca_key", from) THEN {Reencrypt({"root_ca_key"}, to)} ELSE {}
Repass(from, to) ==
    IF \A k \in CaKeys : Opens(k, from) THEN Reencrypt(CaKeys, to)
    ELSE IF Opens("root_ca_key", from) THEN Reencrypt({"root_ca_key"}, to) ELSE service

RepassKeys ==
    /\ pc = "change" /\ kind = "ca_password"
    /\ LET opens == up /\ \A k \in CaKeys : Opens(k, loaded)
       IN  \/ /\ opens /\ Works
              /\ service' = Repass(loaded, rotations) /\ GoTo("provisioner")
           \/ /\ opens /\ Fails
              /\ service' \in RepassStops(loaded, rotations) /\ End("nothingChanged")
           \/ /\ ~opens /\ Works
              /\ service' = IF up THEN Repass(loaded, rotations) ELSE service
              /\ End("nothingChanged")
    /\ Unchanged /\ UntouchedFiles /\ UNCHANGED <<loaded, running, up>>

RepassProvisioner ==
    /\ pc = "provisioner" /\ kind = "ca_password"
    /\ \/ /\ Opens("provisioner", file) /\ Works
          /\ service' = Reencrypt({"provisioner"}, rotations) /\ GoTo("swap")
       \/ /\ IF Opens("provisioner", file) THEN Fails ELSE Works
          /\ GoBack("changeBack", "nothingChanged") /\ UNCHANGED service
    /\ Unchanged /\ UntouchedFiles /\ UNCHANGED <<loaded, running, up>>

(* The new value in the file, the store and the containers. *)

SwapUncopied ==         \* variant for SecretTypeOK: no .old copy is made
    /\ pc = "swap" /\ file' = rotations
    /\ GoTo("push") /\ Works
    /\ Unchanged /\ UNCHANGED <<old, store, service, loaded, running, up>>

SwapFiles ==
    /\ pc = "swap"
    /\ old' = file /\ file' = rotations
    /\ GoTo("push") /\ Works
    /\ Unchanged /\ UNCHANGED <<store, service, loaded, running, up>>

(* Variant for SuccessIsKept: the store keeps the old value. *)
PushNothing ==
    /\ pc = "push"
    /\ GoTo("recreate") /\ Works
    /\ Unchanged /\ UntouchedFiles /\ UNCHANGED <<service, loaded, running, up>>

(* The first command of each secret's way back. *)
FirstBack == IF kind = "master_key" THEN "filesBack" ELSE "changeBack"

(* The store takes the files one by one: a push that fails may have written *)
(* this one.                                                                *)
Push ==
    /\ pc = "push"
    /\ \/ /\ Works /\ store' = IF inStore THEN file ELSE store
          /\ GoTo("recreate")
       \/ /\ inStore /\ Fails /\ store' \in {store, file}
          /\ GoBack(FirstBack, "notStored")
    /\ Unchanged /\ UNCHANGED <<file, old, service, loaded, running, up>>

(* Containers made again read the file; the CA starts if that opens its     *)
(* key.  When they are not, the old ones stay or are gone, and the agent    *)
(* does not look at which.                                                  *)
Starts == kind = "ca_password" => Opens("intermediate_ca_key", file)
Made ==
    \/ /\ Works /\ loaded' = file /\ running' = service /\ up' = Starts
    \/ /\ Fails /\ UNCHANGED <<loaded, running>> /\ up' \in {up, FALSE}

Recreate ==
    /\ pc = "recreate" /\ Made /\ GoTo("health")
    /\ Unchanged /\ UntouchedFiles /\ UNCHANGED service

(* labape health --deep: the API reaches the database, the CA signs.  It    *)
(* reads no secret of the built-in store.                                   *)
AlwaysHealthy == up         \* variant for EndsWhole: the password is not tried
Healthy == Reaches /\ (kind = "ca_password" => running["provisioner"] = loaded)

CheckHealth ==
    /\ pc = "health"
    /\ \/ /\ Healthy /\ Works
          /\ old' = Missing /\ End("succeeded")
       \/ /\ IF Healthy THEN Fails ELSE Works
          /\ UNCHANGED old /\ GoBack(FirstBack, "unhealthy")
    /\ Unchanged /\ UNCHANGED <<file, store, service, loaded, running, up>>

-----------------------------------------------------------------------------
(* The way back.  No command of it is checked. *)

RewrapBack ==
    /\ pc = "changeBack" /\ kind = "master_key"
    /\ LET from == IF why = "notStored" THEN old ELSE rotations
       IN  \/ Works /\ service' = IF Opens("dataKeys", from) THEN All(file) ELSE service
           \/ Fails /\ UNCHANGED service
    /\ GoTo("pushBack")
    /\ Unchanged /\ UntouchedFiles /\ UNCHANGED <<loaded, running, up>>

AlterRoleBack ==
    /\ pc = "changeBack" /\ kind = "postgres_password"
    /\ \/ Works /\ service' = All(old)
       \/ Fails /\ UNCHANGED service
    /\ GoTo("filesBack")
    /\ Unchanged /\ UntouchedFiles /\ UNCHANGED <<loaded, running, up>>

RepassBack ==
    /\ pc = "changeBack" /\ kind = "ca_password"
    /\ LET from == IF why = "unhealthy" THEN loaded ELSE rotations
           to   == IF why = "unhealthy" THEN old ELSE loaded
       IN  \/ Works /\ service' = IF up THEN Repass(from, to) ELSE service
           \/ up /\ Fails /\ service' \in RepassStops(from, to)
    /\ IF why = "nothingChanged" THEN End("nothingChanged") ELSE GoTo("provisionerBack")
    /\ Unchanged /\ UntouchedFiles /\ UNCHANGED <<loaded, running, up>>

(* After failing health checks the old password comes from a copy in the    *)
(* CA's volume, which only the running CA can write.                        *)
ProvisionerBack ==
    /\ pc = "provisionerBack" /\ kind = "ca_password"
    /\ \/ /\ Works
          /\ service' = IF Opens("provisioner", file) /\ (why = "unhealthy" => up)
                        THEN Reencrypt({"provisioner"}, old) ELSE service
       \/ Fails /\ UNCHANGED service
    /\ GoTo("filesBack")
    /\ Unchanged /\ UntouchedFiles /\ UNCHANGED <<loaded, running, up>>

FilesBack ==
    /\ pc = "filesBack"
    /\ file' = old /\ old' = Missing
    /\ GoTo(IF kind = "master_key" THEN "changeBack" ELSE "pushBack")
    /\ Works /\ Unchanged /\ UNCHANGED <<store, service, loaded, running, up>>

PushNothingBack ==      \* variant for BootsWhole: the store keeps the new value
    /\ pc = "pushBack" /\ Works
    /\ IF why = "unhealthy" THEN GoTo("recreateBack") ELSE End("notStored")
    /\ Unchanged /\ UntouchedFiles /\ UNCHANGED <<service, loaded, running, up>>

PushBack ==
    /\ pc = "pushBack"
    /\ \/ Works /\ store' = IF inStore THEN file ELSE store
       \/ inStore /\ Fails /\ store' \in {store, file}
    /\ IF why = "unhealthy" THEN GoTo("recreateBack") ELSE End("notStored")
    /\ Unchanged /\ UNCHANGED <<file, old, service, loaded, running, up>>

RecreateBack ==
    /\ pc = "recreateBack" /\ Made /\ End("unhealthy")
    /\ Unchanged /\ UntouchedFiles /\ UNCHANGED service

(* The host loses power and boots: the memory-only files come from the      *)
(* store again, the containers start, and the agent does not go on.         *)
PowerGoes ==
    /\ cut = "none" /\ cut' = pc
    /\ LET boots == IF inStore THEN store ELSE file
       IN  /\ file' = boots
           /\ loaded' = boots /\ running' = service
           /\ up' = (kind = "ca_password" => Opens("intermediate_ca_key", boots))
    /\ old' = IF inStore THEN Missing ELSE old
    /\ pc' = "idle" /\ why' = "none"
    /\ UNCHANGED <<kind, inStore, said, rotations, store, service, faults, fault>>

SecretNext ==
    \/ Start \/ Maintenance
    \/ RewrapKeys \/ AlterRole \/ RepassKeys \/ RepassProvisioner
    \/ SwapFiles \/ Push \/ Recreate \/ CheckHealth
    \/ RewrapBack \/ AlterRoleBack \/ RepassBack \/ ProvisionerBack
    \/ FilesBack \/ PushBack \/ RecreateBack
    \/ PowerGoes

SecretSpec == SecretInit /\ [][SecretNext]_secretVars
-----------------------------------------------------------------------------
(* The secret has one value: in the service, the file, the store and the    *)
(* containers.                                                              *)
Agree == service = All(file) /\ (inStore => store = file)
Whole == Agree /\ up /\ loaded = file /\ running = service

(* The single failures that the agent does not take back. *)
Unrepaired == {<<"master_key", "push">>, <<"master_key", "recreate">>,
               <<"ca_password", "change">>, <<"ca_password", "recreate">>}
Repaired == faults = 0 \/ (faults = 1 /\ <<kind, fault>> \notin Unrepaired)

(* A rotation in which one command failed, other than those, ends as whole  *)
(* as it began: on the old value if it failed and on the new one if not.    *)
EndsWhole == pc = "idle" /\ said # "running" /\ Repaired =>
    Whole /\ (said \in {"none", "succeeded"} <=> file = rotations)

(* A boot brings back a secret that works, wherever the power went, unless  *)
(* the agent was between changing the service and what a boot reads, one    *)
(* way or the other.                                                        *)
Between == {"provisioner", "swap", "changeBack", "provisionerBack", "filesBack"}
           \cup IF inStore THEN {"push", "pushBack"} ELSE {}
BootsWhole == pc = "idle" /\ said = "running" /\ cut \notin Between /\ Repaired => Whole

(* However many commands failed, a rotation that reports success has        *)
(* changed the service, the file and the store.                             *)
SuccessIsKept == [][said' = "succeeded" /\ said # "succeeded" => (Agree /\ file = rotations)']_secretVars

-----------------------------------------------------------------------------
(* The inductive invariant: where every value is, at each command. *)

Sound == Repaired /\ cut \notin Between

Serves(v)  == up /\ loaded = v /\ running = All(v)
Stored(v)  == inStore => store = v
HalfWay(keys, prov) ==
    /\ kind = "ca_password"
    /\ service = [p \in Parts(kind) |-> IF p \in CaKeys THEN keys ELSE prov]

OnTheWay ==
    /\ pc \in {"idle", "maintenance", "change"} => Whole /\ why = "none"
    /\ pc = "provisioner" => HalfWay(rotations, file) /\ Serves(file) /\ Stored(file)
    /\ pc = "swap" => Serves(file) /\ Stored(file)
    /\ pc = "push" => Serves(old) /\ Stored(old)
    /\ pc = "recreate" => Serves(old)
    /\ pc = "health" =>
          Serves(file) \/ (kind = "postgres_password" /\ faults = 1 /\ loaded = old /\ running = All(old))

(* What the containers read while the agent goes back. *)
StillServes(v) == CASE why = "notStored"  -> kind # "master_key" /\ Serves(v)
                    [] why = "unhealthy"   -> kind # "postgres_password" => Serves(rotations)
                    [] OTHER               -> FALSE

OnTheWayBack ==
    /\ pc \in Back => faults = 1
    /\ pc = "changeBack" /\ why = "nothingChanged" =>
          HalfWay(rotations, file) /\ Serves(file) /\ Stored(file)
    /\ pc = "changeBack" /\ why # "nothingChanged" =>
          /\ service = All(rotations)
          /\ IF kind = "master_key" THEN why = "unhealthy"
             ELSE file = rotations /\ old \in Nat /\ StillServes(old)
    /\ pc = "provisionerBack" => HalfWay(old, file) /\ old \in Nat /\ StillServes(old)
    /\ pc = "filesBack" =>
          /\ service = All(IF kind = "master_key" THEN rotations ELSE old)
          /\ old \in Nat /\ StillServes(old)
    /\ pc = "pushBack" => service = All(file) /\ (why = "unhealthy" \/ (why = "notStored" /\ Serves(file)))
    /\ pc = "recreateBack" => service = All(file) /\ Stored(file)

(* A value that is not the new one is older; only success leaves the new    *)
(* one in the file.                                                         *)
Dated ==
    /\ file <= rotations
    /\ pc \in {"maintenance", "change", "provisioner", "swap", "pushBack", "recreateBack"} => file < rotations
    /\ pc \in {"push", "recreate", "health", "provisionerBack", "filesBack"} => old < rotations
    /\ pc = "changeBack" =>
          (IF kind = "master_key" \/ why = "nothingChanged" THEN file ELSE old) < rotations
    /\ pc = "idle" /\ said # "running" => (said \in {"none", "succeeded"} <=> file = rotations)

(* Whatever fails, the agent goes forward only from where its commands      *)
(* worked.                                                                  *)
Changed ==
    /\ pc = "provisioner" => kind = "ca_password" /\ \A k \in CaKeys : service[k] = rotations
    /\ pc \in {"swap", "push", "recreate", "health"} => service = All(rotations)
    /\ pc \in {"push", "recreate", "health"} => file = rotations
    /\ pc \in {"recreate", "health"} => Stored(file)

(* Whatever fails, the .old copy is there until the files are back. *)
KeptCopy ==
    \/ pc \in {"push", "recreate", "health", "provisionerBack", "filesBack"}
    \/ pc = "changeBack" /\ kind = "postgres_password"
    \/ pc = "changeBack" /\ kind = "ca_password" /\ why # "nothingChanged"
    => old \in Nat

(* The agent reports running while it works, and for ever after a power     *)
(* loss that stopped it.                                                    *)
CutOff ==
    /\ pc # "idle" => said = "running"
    /\ cut \in {"none", "idle"} \/ (pc = "idle" /\ said = "running")

SecretInv == SecretTypeOK /\ Changed /\ KeptCopy /\ CutOff /\ (Sound => OnTheWay /\ OnTheWayBack /\ Dated)
=============================================================================
