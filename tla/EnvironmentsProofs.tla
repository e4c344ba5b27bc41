------------------------- MODULE EnvironmentsProofs -------------------------
(***************************************************************************)
(* The environments' records, addresses, workspaces and VMs stay in step,   *)
(* for any number of environments, hosts, VM names, addresses and jobs,     *)
(* wherever nothing has made a VM and its entry part (InStep): the invariant *)
(* is inductive, and there no job changes a VM of another environment.       *)
(***************************************************************************)
EXTENDS Environments, TLAPS

USE EnvironmentsAssumption, NoneAssumption

THEOREM InitIInv == Init => IInv
<1> SUFFICES ASSUME Init PROVE IInv
  OBVIOUS
<1>1. NoAddresses \in [VmNames -> Addresses \cup {None}] /\ NoWorkspaces \in [Hosts -> Entries \cup {None}]
  BY DEF NoAddresses, NoWorkspaces
<1>2. TypeOK
  BY <1>1 DEF Init, TypeOK, Statuses
<1>3. AddressesAreHeld
  BY DEF Init, AddressesAreHeld, NoAddresses
<1>4. DestroyedIsGone
  BY DEF Init, DestroyedIsGone
<1>5. ListedIsOurs
  BY DEF Init, ListedIsOurs, Entry, NoWorkspaces
<1>6. JobsFit /\ AddressesGiven /\ DestroyedParts
  BY DEF Init, JobsFit, AddressesGiven, DestroyedParts, Busy
<1>7. QED
  BY <1>2, <1>3, <1>4, <1>5, <1>6 DEF IInv

-----------------------------------------------------------------------------
(* What an allocation hands out.                                            *)

LEMMA AllocationsFit ==
    ASSUME TypeOK, NEW e \in Envs, NEW s \in Specs, NEW f \in Allocations(e, s)
    PROVE  /\ f \in [VmNames -> Addresses \cup {None}]
           /\ \A v \in VmNames : holds[e][v] # None => f[v] = holds[e][v]
           /\ \A v \in Members(s) : f[v] # None
           /\ \A v \in VmNames : f[v] # None => f[v] = holds[e][v] \/ f[v] \in FreeAddresses
           /\ \A v, w \in VmNames : f[v] # None /\ f[v] = f[w] => v = w
<1>1. /\ f \in [VmNames -> FreeAddresses \cup {holds[e][v] : v \in VmNames} \cup {None}]
      /\ \A v \in VmNames : IF v \in Members(s) /\ holds[e][v] = None
                            THEN f[v] \in FreeAddresses ELSE f[v] = holds[e][v]
      /\ \A v, w \in VmNames : v # w /\ f[v] # None => f[v] # f[w]
  BY DEF Allocations
<1>2. FreeAddresses \subseteq Addresses /\ None \notin FreeAddresses
  BY DEF FreeAddresses
<1>3. holds[e] \in [VmNames -> Addresses \cup {None}]
  BY DEF TypeOK
<1>4. Members(s) \subseteq VmNames
  BY DEF Members
<1>5. \A v \in VmNames : f[v] \in Addresses \cup {None}
  BY <1>1, <1>2, <1>3
<1>6. QED
  BY <1>1, <1>2, <1>3, <1>4, <1>5

LEMMA JobTypes ==
    /\ \A t \in {"deploy", "destroy", "move"} : Queued(t) \in Jobs
    /\ \A j \in Jobs : [j EXCEPT !.running = TRUE] \in Jobs
    /\ \A j \in Jobs, h \in Hosts, ok \in BOOLEAN :
          [j EXCEPT !.done = @ \cup {h}, !.ok = @ /\ ok] \in Jobs
    /\ \A j \in Jobs, h \in Hosts : [j EXCEPT !.done = {h}] \in Jobs
BY DEF Queued, Jobs

(* A record is absent or has a group; a group's host is a host.             *)
LEMMA SpecTypes ==
    ASSUME TypeOK, NEW e \in Envs, status[e] # "absent"
    PROVE  spec[e] \in Specs /\ HostIds(spec[e]) \subseteq Hosts /\ \A v \in VmNames : spec[e][v] \in Hosts \cup {None}
<1>1. spec[e] \in Specs
  BY DEF TypeOK
<1>2. \A v \in VmNames : spec[e][v] \in Hosts \cup {None}
  BY <1>1 DEF Specs
<1>3. QED
  BY <1>1, <1>2 DEF HostIds, Members

(* What the queueing of a deploy does, to its environment and to no other.  *)
LEMMA QueueDeployFits ==
    ASSUME TypeOK, AddressesAreHeld, NEW e \in Envs, NEW s \in Specs, QueueDeploy(e, s)
    PROVE  /\ holds' \in [Envs -> [VmNames -> Addresses \cup {None}]]
           /\ job' \in [Envs -> Jobs \cup {None}] /\ jobs' \in 0..MaxJobs /\ status' \in [Envs -> Statuses]
           /\ \A d \in Envs, v \in VmNames : holds[d][v] # None => holds'[d][v] = holds[d][v]
           /\ \A v \in Members(s) : holds'[e][v] # None
           /\ \A c, d \in Envs, v, w \in VmNames :
                 holds'[c][v] # None /\ holds'[c][v] = holds'[d][w] => c = d /\ v = w
           /\ \A d \in Envs \ {e} : holds'[d] = holds[d] /\ job'[d] = job[d] /\ status'[d] = status[d]
           /\ job'[e] = Queued("deploy") /\ status'[e] = "deploying"
<1>1. PICK f \in Allocations(e, s) : holds' = [holds EXCEPT ![e] = f]
  BY DEF QueueDeploy
<1>2. /\ f \in [VmNames -> Addresses \cup {None}]
      /\ \A v \in VmNames : holds[e][v] # None => f[v] = holds[e][v]
      /\ \A v \in Members(s) : f[v] # None
      /\ \A v \in VmNames : f[v] # None => f[v] = holds[e][v] \/ f[v] \in FreeAddresses
      /\ \A v, w \in VmNames : f[v] # None /\ f[v] = f[w] => v = w
  BY AllocationsFit
<1>3. holds \in [Envs -> [VmNames -> Addresses \cup {None}]]
  BY DEF TypeOK
<1>4. holds'[e] = f /\ \A d \in Envs \ {e} : holds'[d] = holds[d]
  BY <1>1, <1>3
<1>5. \A c, d \in Envs, v, w \in VmNames : holds'[c][v] # None /\ holds'[c][v] = holds'[d][w] => c = d /\ v = w
  <2>1. \A c, d \in Envs, v, w \in VmNames : holds[c][v] # None /\ holds[c][v] = holds[d][w] => c = d /\ v = w
    BY DEF AddressesAreHeld, InStep
  <2>2. \A d \in Envs, v, w \in VmNames : f[w] \in FreeAddresses => holds[d][v] # f[w]
    BY DEF FreeAddresses
  <2>3. \A d \in Envs \ {e}, v, w \in VmNames : holds[d][v] # None => holds[d][v] # f[w]
    BY <1>2, <2>1, <2>2
  <2>4. QED
    BY <1>2, <1>4, <2>1, <2>3
<1>6. /\ job' = [job EXCEPT ![e] = Queued("deploy")] /\ jobs' = jobs + 1 /\ jobs < MaxJobs
      /\ status' = [status EXCEPT ![e] = "deploying"]
  BY DEF QueueDeploy
<1>7. /\ job' \in [Envs -> Jobs \cup {None}] /\ jobs' \in 0..MaxJobs /\ status' \in [Envs -> Statuses]
      /\ \A d \in Envs \ {e} : job'[d] = job[d] /\ status'[d] = status[d]
      /\ job'[e] = Queued("deploy") /\ status'[e] = "deploying"
  <2>1. jobs' \in 0..MaxJobs
    BY <1>6 DEF TypeOK
  <2>2. job \in [Envs -> Jobs \cup {None}] /\ status \in [Envs -> Statuses] /\ "deploying" \in Statuses
    BY DEF TypeOK, Statuses
  <2>3. Queued("deploy") \in Jobs
    BY JobTypes
  <2>4. QED
    BY <1>6, <2>1, <2>2, <2>3
<1>8. QED
  BY <1>1, <1>2, <1>3, <1>5, <1>7

(* An environment without VMs is listed nowhere and has no VM.              *)
LEMMA GoneHasNone ==
    ASSUME IInv, NEW e \in Envs, status[e] \in Gone
    PROVE  \A h \in Hosts, v \in VmNames : InStep(h, v) =>
               Entry(e, h, v) = "unlisted" /\ (domain[h][v] # None => domain[h][v].env # e)
<1>1. \A h \in Hosts, v \in VmNames : InStep(h, v) /\ domain[h][v] # None => domain[h][v].env # e
  BY DEF IInv, DestroyedIsGone, InStep
<1>2. QED
  BY <1>1 DEF IInv, ListedIsOurs

(* A step that changes no workspace and no VM.                              *)
LEMMA VmsStay ==
    ASSUME IInv, UNCHANGED <<workspace, domain>>, astray \subseteq astray',
           NEW e \in Envs, \A d \in Envs \ {e} : spec'[d] = spec[d] /\ status'[d] = status[d],
           \/ spec'[e] = spec[e] /\ (status'[e] \in Gone => status[e] \in Gone)
           \/ status[e] \in Gone
    PROVE  ListedIsOurs' /\ DestroyedIsGone'
<1>0. \A h \in Hosts, v \in VmNames : InStep(h, v)' => InStep(h, v)
  BY DEF InStep
<1>1. \A d \in Envs, h \in Hosts, v \in VmNames :
         InStep(h, v) /\ Entry(d, h, v) # "unlisted" => spec'[d][v] = spec[d][v] /\ status'[d] \notin Gone
  BY GoneHasNone DEF IInv, ListedIsOurs
<1>2. ListedIsOurs'
  BY <1>0, <1>1 DEF IInv, ListedIsOurs, Entry, Tagged
<1>3. \A h \in Hosts, v \in VmNames : InStep(h, v) /\ domain[h][v] # None =>
         domain[h][v].env \in Envs /\ status[domain[h][v].env] \notin Gone
  <2>1. \A h \in Hosts, v \in VmNames : domain[h][v] \in Domains \cup {None}
    BY DEF IInv, TypeOK
  <2>2. QED
    BY <2>1 DEF IInv, DestroyedIsGone, Domains
<1>4. QED
  BY <1>0, <1>2, <1>3, GoneHasNone DEF DestroyedIsGone

(* A VM's address is one of the environment that its tag names.             *)
LEMMA VmTypes ==
    ASSUME IInv, NEW h \in Hosts, NEW v \in VmNames, domain[h][v] # None
    PROVE  /\ domain[h][v] \in Domains /\ domain[h][v].env \in Envs
           /\ InStep(h, v) => holds[domain[h][v].env][v] = domain[h][v].address
           /\ domain[h][v].address # None
<1>1. domain[h][v] \in Domains
  BY DEF IInv, TypeOK
<1>2. QED
  BY <1>1 DEF IInv, AddressesAreHeld, Domains

-----------------------------------------------------------------------------
(* The requests.                                                            *)

LEMMA QueueDeployStep ==
    ASSUME IInv, NEW e \in Envs, NEW s \in Specs, QueueDeploy(e, s), spec' = [spec EXCEPT ![e] = s],
           spec[e] = s \/ status[e] \in Gone, UNCHANGED <<workspace, domain, moves, astray>>
    PROVE  IInv'
<1>1. TypeOK /\ AddressesAreHeld
  BY DEF IInv
<1>2. /\ holds' \in [Envs -> [VmNames -> Addresses \cup {None}]]
      /\ job' \in [Envs -> Jobs \cup {None}] /\ jobs' \in 0..MaxJobs /\ status' \in [Envs -> Statuses]
      /\ \A d \in Envs, v \in VmNames : holds[d][v] # None => holds'[d][v] = holds[d][v]
      /\ \A v \in Members(s) : holds'[e][v] # None
      /\ \A c, d \in Envs, v, w \in VmNames :
            holds'[c][v] # None /\ holds'[c][v] = holds'[d][w] => c = d /\ v = w
      /\ \A d \in Envs \ {e} : holds'[d] = holds[d] /\ job'[d] = job[d] /\ status'[d] = status[d]
      /\ job'[e] = Queued("deploy") /\ status'[e] = "deploying"
  BY <1>1, QueueDeployFits
<1>3. /\ spec' \in [Envs -> Specs \cup {None}] /\ spec'[e] = s
      /\ \A d \in Envs \ {e} : spec'[d] = spec[d]
  BY DEF IInv, TypeOK
<1>4. TypeOK'
  BY <1>2, <1>3 DEF IInv, TypeOK
<1>5. AddressesAreHeld'
  <2>1. \A h \in Hosts, v \in VmNames : InStep(h, v) /\ domain[h][v] # None =>
           holds'[domain[h][v].env][v] = domain[h][v].address
    BY <1>2, VmTypes
  <2>2. \A d \in Envs : status'[d] \in Gone => holds'[d] = NoAddresses
    BY <1>2 DEF IInv, AddressesAreHeld, Gone, InStep
  <2>3. QED
    BY <1>2, <2>1, <2>2 DEF AddressesAreHeld, InStep
<1>6. ListedIsOurs' /\ DestroyedIsGone'
  BY <1>2, <1>3, VmsStay DEF Gone
<1>7. Queued("deploy").type = "deploy" /\ Queued("deploy") # None
  BY JobTypes DEF Queued
<1>8. JobsFit'
  <2>1. JobsFit /\ \A h \in Hosts, v \in VmNames : InStep(h, v)' <=> InStep(h, v)
    BY DEF IInv, InStep
  <2>2. \A d \in Envs \ {e} : spec'[d] = spec[d] /\ status'[d] = status[d] /\ job'[d] = job[d]
    BY <1>2, <1>3
  <2>3. status'[e] \notin Gone /\ job'[e].type # "move"
    BY <1>2, <1>7 DEF Gone
  <2>4. QED
    BY <2>1, <2>2, <2>3 DEF JobsFit, Busy
<1>9. AddressesGiven'
  BY <1>2, <1>3, <1>7, SMTT(30) DEF IInv, AddressesGiven, Busy
<1>10. DestroyedParts'
  <2>1. DestroyedParts /\ workspace' = workspace
    BY DEF IInv
  <2>2. \A d \in Envs \ {e} : job'[d] = job[d]
    BY <1>2
  <2>3. job'[e].type # "destroy"
    BY <1>2, <1>7
  <2>4. QED
    BY <2>1, <2>2, <2>3 DEF DestroyedParts, Busy
<1>11. QED
  BY <1>4, <1>5, <1>6, <1>8, <1>9, <1>10 DEF IInv

LEMMA CreateEnvStep == ASSUME IInv, NEW e \in Envs, CreateEnv(e) PROVE IInv'
<1>1. PICK s \in Specs : /\ status[e] = "absent" /\ QueueDeploy(e, s) /\ spec' = [spec EXCEPT ![e] = s]
                         /\ UNCHANGED <<workspace, domain, moves, astray>>
  BY DEF CreateEnv
<1>2. QED
  BY <1>1, QueueDeployStep DEF Gone

LEMMA RedeployStep == ASSUME IInv, NEW e \in Envs, Redeploy(e) PROVE IInv'
<1>1. spec[e] \in Specs
  BY SpecTypes DEF IInv, Redeploy
<1>2. spec' = [spec EXCEPT ![e] = spec[e]]
  BY DEF IInv, TypeOK, Redeploy
<1>3. QED
  BY <1>1, <1>2, QueueDeployStep DEF Redeploy

LEMMA SaveDraftStep == ASSUME IInv, NEW e \in Envs, SaveDraft(e) PROVE IInv'
<1>1. PICK s \in Specs : /\ status[e] \in {"absent", "new"} /\ ~Busy(e)
                         /\ status' = [status EXCEPT ![e] = "new"] /\ spec' = [spec EXCEPT ![e] = s]
                         /\ UNCHANGED <<holds, workspace, domain, job, jobs, moves, astray>>
  BY DEF SaveDraft
<1>2. /\ status' \in [Envs -> Statuses] /\ spec' \in [Envs -> Specs \cup {None}]
      /\ status'[e] = "new" /\ spec'[e] = s /\ status[e] \in Gone
      /\ \A d \in Envs \ {e} : spec'[d] = spec[d] /\ status'[d] = status[d]
  BY <1>1 DEF IInv, TypeOK, Statuses, Gone
<1>3. TypeOK'
  BY <1>1, <1>2 DEF IInv, TypeOK
<1>4. AddressesAreHeld'
  BY <1>1, <1>2 DEF IInv, AddressesAreHeld, InStep
<1>5. ListedIsOurs' /\ DestroyedIsGone'
  BY <1>1, <1>2, VmsStay
<1>6. JobsFit' /\ AddressesGiven' /\ DestroyedParts'
  BY <1>1 DEF IInv, JobsFit, AddressesGiven, DestroyedParts, Busy, InStep
<1>7. QED
  BY <1>3, <1>4, <1>5, <1>6 DEF IInv

LEMMA DestroyStep == ASSUME IInv, NEW e \in Envs, Destroy(e) PROVE IInv'
<1>1. Queued("destroy") \in Jobs /\ Queued("destroy").type = "destroy" /\ Queued("destroy").done = {}
  BY JobTypes DEF Queued
<1>2. /\ status' \in [Envs -> Statuses] /\ job' \in [Envs -> Jobs \cup {None}] /\ jobs' \in 0..MaxJobs
      /\ status'[e] = "destroying" /\ status[e] # "absent" /\ job'[e] = Queued("destroy")
      /\ \A d \in Envs \ {e} : status'[d] = status[d] /\ job'[d] = job[d]
  <2>1. QED
    BY <1>1 DEF IInv, TypeOK, Destroy, Statuses
<1>3. UNCHANGED <<spec, holds, workspace, domain, moves, astray>>
  BY DEF Destroy
<1>4. TypeOK'
  BY <1>2, <1>3 DEF IInv, TypeOK
<1>5. AddressesAreHeld'
  BY <1>2, <1>3 DEF IInv, AddressesAreHeld, Gone, InStep
<1>6. ListedIsOurs' /\ DestroyedIsGone'
  BY <1>2, <1>3, VmsStay DEF Gone
<1>7. JobsFit' /\ AddressesGiven' /\ DestroyedParts'
  BY <1>1, <1>2, <1>3 DEF IInv, JobsFit, AddressesGiven, DestroyedParts, Busy, InStep, Gone
<1>8. QED
  BY <1>4, <1>5, <1>6, <1>7 DEF IInv

LEMMA MoveGroupStep == ASSUME IInv, NEW e \in Envs, MoveGroup(e) PROVE IInv'
<1> DEFINE Move(v, h) == [Queued("move") EXCEPT !.vm = v, !.to = h]
<1>1. PICK v \in VmNames, h \in Hosts :
        /\ status[e] = "deployed" /\ ~Busy(e) /\ jobs < MaxJobs /\ moves < MaxMoves
        /\ spec[e][v] \notin {None, h}
        /\ job' = [job EXCEPT ![e] = Move(v, h)]
        /\ jobs' = jobs + 1 /\ moves' = moves + 1 /\ astray' = astray \cup (Hosts \X {v})
        /\ UNCHANGED <<status, spec, holds, workspace, domain>>
  BY DEF MoveGroup
<1>2. /\ Move(v, h) \in Jobs /\ Move(v, h).type = "move" /\ Move(v, h).vm = v /\ Move(v, h).to = h
  BY DEF Queued, Jobs
<1>3. /\ job' \in [Envs -> Jobs \cup {None}] /\ job'[e] = Move(v, h)
      /\ \A d \in Envs \ {e} : job'[d] = job[d]
      /\ jobs' \in 0..MaxJobs /\ moves' \in 0..MaxMoves
  <2>1. jobs' \in 0..MaxJobs /\ moves' \in 0..MaxMoves
    BY <1>1 DEF IInv, TypeOK
  <2>2. QED
    BY <1>1, <1>2, <2>1 DEF IInv, TypeOK
<1> HIDE DEF Move
<1>4. TypeOK'
  BY <1>1, <1>3 DEF IInv, TypeOK
<1>5. AddressesAreHeld'
  BY <1>1 DEF IInv, AddressesAreHeld, Gone, InStep
<1>6. ListedIsOurs' /\ DestroyedIsGone'
  BY <1>1, VmsStay
<1>7. JobsFit'
  BY <1>1, <1>2 DEF IInv, JobsFit, Busy, Gone, InStep
<1>8. AddressesGiven' /\ DestroyedParts'
  BY <1>1, <1>2 DEF IInv, AddressesGiven, DestroyedParts, Busy
<1>9. QED
  BY <1>4, <1>5, <1>6, <1>7, <1>8 DEF IInv

LEMMA DeleteRecordStep == ASSUME IInv, NEW e \in Envs, DeleteRecord(e) PROVE IInv'
<1>1. /\ status[e] \in Gone /\ ~Busy(e)
      /\ UNCHANGED <<workspace, domain, job, jobs, moves, astray>>
  BY DEF DeleteRecord, Gone
<1>2. /\ status' \in [Envs -> Statuses] /\ spec' \in [Envs -> Specs \cup {None}]
      /\ holds' \in [Envs -> [VmNames -> Addresses \cup {None}]]
      /\ status'[e] = "absent" /\ spec'[e] = None /\ holds'[e] = NoAddresses
      /\ \A d \in Envs \ {e} : status'[d] = status[d] /\ spec'[d] = spec[d] /\ holds'[d] = holds[d]
  <2>1. NoAddresses \in [VmNames -> Addresses \cup {None}]
    BY DEF NoAddresses
  <2>2. QED
    BY <2>1 DEF IInv, TypeOK, DeleteRecord, Statuses
<1>3. TypeOK'
  BY <1>1, <1>2 DEF IInv, TypeOK
<1>4. ListedIsOurs' /\ DestroyedIsGone'
  BY <1>1, <1>2, VmsStay
<1>5. AddressesAreHeld'
  <2>1. \A v \in VmNames : holds'[e][v] = None
    BY <1>2 DEF NoAddresses
  <2>2. \A h \in Hosts, v \in VmNames : InStep(h, v) /\ domain[h][v] # None =>
           holds'[domain[h][v].env][v] = domain[h][v].address
    BY <1>1, <1>2, VmTypes, GoneHasNone
  <2>3. \A c, d \in Envs, v, w \in VmNames : holds[c][v] # None /\ holds[c][v] = holds[d][w] => c = d /\ v = w
    BY DEF IInv, AddressesAreHeld, InStep
  <2>4. \A c, d \in Envs, v, w \in VmNames : holds'[c][v] # None /\ holds'[c][v] = holds'[d][w] => c = d /\ v = w
    BY <1>2, <2>1, <2>3
  <2>5. \A d \in Envs : status'[d] \in Gone => holds'[d] = NoAddresses
    BY <1>2 DEF IInv, AddressesAreHeld, InStep
  <2>6. QED
    BY <1>1, <2>2, <2>4, <2>5 DEF AddressesAreHeld, InStep
<1>6. JobsFit' /\ DestroyedParts'
  BY <1>1, <1>2 DEF IInv, JobsFit, DestroyedParts, Busy, InStep
<1>7. AddressesGiven'
  BY <1>1, <1>2 DEF IInv, AddressesGiven, Busy
<1>8. QED
  BY <1>3, <1>4, <1>5, <1>6, <1>7 DEF IInv

-----------------------------------------------------------------------------
(* A job that comes, goes on or goes without touching anything else.         *)

LEMMA JobOnly ==
    ASSUME IInv, NEW e \in Envs, NEW j \in Jobs \cup {None}, job' = [job EXCEPT ![e] = j],
           UNCHANGED <<spec, holds, workspace, domain, jobs, moves, astray>>,
           status' \in [Envs -> Statuses], \A d \in Envs \ {e} : status'[d] = status[d],
           status'[e] \in Gone => status[e] \in Gone,
           status'[e] = "absent" <=> status[e] = "absent",
           status'[e] = "deployed" => status[e] = "deployed" \/ (Busy(e) /\ job[e].type = "deploy"),
           j # None => /\ Busy(e) /\ status'[e] = status[e]
                       /\ j.type = job[e].type /\ j.vm = job[e].vm /\ j.to = job[e].to
                       /\ j.ok => job[e].ok
                       /\ j.type = "destroy" /\ j.ok => \A h \in j.done \ job[e].done : workspace[e][h] = None
    PROVE  IInv'
<1>1. /\ job' \in [Envs -> Jobs \cup {None}] /\ job'[e] = j
      /\ \A d \in Envs \ {e} : job'[d] = job[d]
  BY DEF IInv, TypeOK
<1>2. TypeOK'
  BY <1>1 DEF IInv, TypeOK
<1>3. AddressesAreHeld'
  BY DEF IInv, AddressesAreHeld, InStep
<1>4. ListedIsOurs' /\ DestroyedIsGone'
  BY VmsStay
<1>5. JobsFit'
  BY <1>1 DEF IInv, JobsFit, Busy, InStep
<1>6. AddressesGiven'
  BY <1>1 DEF IInv, AddressesGiven, Busy
<1>7. DestroyedParts'
  BY <1>1 DEF IInv, DestroyedParts, Busy
<1>8. QED
  BY <1>2, <1>3, <1>4, <1>5, <1>6, <1>7 DEF IInv

LEMMA JobTyped == ASSUME IInv, NEW e \in Envs, Busy(e) PROVE job[e] \in Jobs /\ job[e].ok \in BOOLEAN
BY DEF IInv, TypeOK, Busy, Jobs

LEMMA CancelQueuedStep == ASSUME IInv, NEW e \in Envs, CancelQueued(e) PROVE IInv'
<1>1. /\ job' = [job EXCEPT ![e] = None]
      /\ UNCHANGED <<status, spec, holds, workspace, domain, jobs, moves, astray>>
  BY DEF CancelQueued
<1>2. status \in [Envs -> Statuses]
  BY DEF IInv, TypeOK
<1>3. QED
  BY <1>1, <1>2, JobOnly

LEMMA ClaimStep == ASSUME IInv, NEW e \in Envs, Claim(e) PROVE IInv'
<1> DEFINE j == [job[e] EXCEPT !.running = TRUE]
<1>1. /\ Busy(e) /\ job' = [job EXCEPT ![e] = j]
      /\ UNCHANGED <<status, spec, holds, workspace, domain, jobs, moves, astray>>
  BY DEF Claim, IInv, TypeOK
<1>2. job[e] \in Jobs /\ status \in [Envs -> Statuses]
  BY <1>1, JobTyped DEF IInv, TypeOK
<1>3. /\ j \in Jobs /\ j.type = job[e].type /\ j.vm = job[e].vm /\ j.to = job[e].to /\ j.ok = job[e].ok
      /\ j.done = job[e].done
  BY <1>2 DEF Jobs
<1> HIDE DEF j
<1>4. QED
  BY <1>1, <1>2, <1>3, JobOnly

LEMMA MoveStopsStep == ASSUME IInv, NEW e \in Envs, MoveStops(e) PROVE IInv'
<1>1. /\ job' = [job EXCEPT ![e] = None]
      /\ UNCHANGED <<status, spec, holds, workspace, domain, jobs, moves, astray>>
  BY DEF MoveStops
<1>2. status \in [Envs -> Statuses]
  BY DEF IInv, TypeOK
<1>3. QED
  BY <1>1, <1>2, JobOnly

LEMMA WorkerDiesStep == ASSUME IInv, NEW e \in Envs, WorkerDies(e) PROVE IInv'
<1>1. /\ Busy(e) /\ job' = [job EXCEPT ![e] = None]
      /\ UNCHANGED <<spec, holds, workspace, domain, jobs, moves, astray>>
  BY DEF WorkerDies
<1>2. /\ status' \in [Envs -> Statuses] /\ status'[e] = "failed"
      /\ \A d \in Envs \ {e} : status'[d] = status[d]
  BY DEF WorkerDies, IInv, TypeOK, Statuses
<1>3. status[e] # "absent"
  BY <1>1 DEF IInv, JobsFit, Gone
<1>4. QED
  BY <1>1, <1>2, <1>3, JobOnly DEF Gone

-----------------------------------------------------------------------------
(* The parts of a deploy and of a destroy.                                   *)

LEMMA PartDoneFits ==
    ASSUME IInv, NEW e \in Envs, Busy(e), NEW h \in Hosts, NEW well \in BOOLEAN, PartDone(e, h, well)
    PROVE  \E j \in Jobs : /\ job' = [job EXCEPT ![e] = j]
                           /\ j.type = job[e].type /\ j.vm = job[e].vm /\ j.to = job[e].to
                           /\ j.done = job[e].done \cup {h}
                           /\ j.ok => job[e].ok /\ well
<1> DEFINE j == [job[e] EXCEPT !.done = @ \cup {h}, !.ok = @ /\ well]
<1>1. job[e] \in Jobs /\ job \in [Envs -> Jobs \cup {None}]
  BY JobTyped DEF IInv, TypeOK
<1>2. j \in Jobs
  BY <1>1, JobTypes
<1>3. j.type = job[e].type /\ j.vm = job[e].vm /\ j.to = job[e].to /\ j.done = job[e].done \cup {h}
  BY <1>1 DEF Jobs
<1>4. j.ok = (job[e].ok /\ well)
  BY <1>1 DEF Jobs
<1>5. job' = [job EXCEPT ![e] = j]
  BY <1>1 DEF PartDone
<1>6. QED
  BY <1>2, <1>3, <1>4, <1>5

LEMMA PartStopsStep == ASSUME IInv, NEW e \in Envs, PartStops(e) PROVE IInv'
<1>1. PICK h \in Hosts : /\ Running(e, "deploy") \/ Running(e, "destroy")
                         /\ PartDone(e, h, FALSE)
                         /\ UNCHANGED <<status, spec, holds, workspace, domain, jobs, moves, astray>>
  BY DEF PartStops
<1>2. Busy(e)
  BY <1>1 DEF Running
<1>3. PICK j \in Jobs : /\ job' = [job EXCEPT ![e] = j]
                        /\ j.type = job[e].type /\ j.vm = job[e].vm /\ j.to = job[e].to
                        /\ ~j.ok
  BY <1>1, <1>2, PartDoneFits
<1>4. status \in [Envs -> Statuses]
  BY DEF IInv, TypeOK
<1>5. QED
  BY <1>1, <1>2, <1>3, <1>4, JobOnly

(* What an OpenTofu run can leave of one VM.  Where the VM and its entry agree and the run does not    *)
(* part them, they still agree, and a VM of another environment is left alone.                         *)
LEMMA OutcomeFits ==
    ASSUME IInv, NEW e \in Envs, NEW h \in Hosts, NEW v \in VmNames, NEW want,
           v \in want => spec[e][v] = h /\ holds[e][v] # None,
           NEW o \in Outcomes(e, h, v, want)
    PROVE  /\ o.vm \in Domains \cup {None} /\ o.entry \in {"unlisted", "sound", "tainted"}
           /\ o.vm = None \/ o.vm = domain[h][v] \/ o.vm = Made(e, h, v)
           /\ InStep(h, v) => /\ o.entry # "unlisted" => spec[e][v] = h
                              /\ domain[h][v] # None /\ domain[h][v].env # e => o.vm = domain[h][v]
           /\ InStep(h, v) /\ ~Parted(e, h, v, o) => /\ Tagged(e, h, o.vm) => o.entry # "unlisted"
                                                     /\ o.entry = "sound" => Tagged(e, h, o.vm)
<1> DEFINE d == domain[h][v]
           n == Entry(e, h, v)
           m == Made(e, h, v)
<1>1. d \in Domains \cup {None} /\ n \in {"unlisted", "sound", "tainted"}
  BY DEF IInv, TypeOK, Entries, Entry
<1>2. v \in want => m \in Domains
  BY DEF IInv, TypeOK, Made, Domains
<1>3. m.env = e /\ m.tag = h
  BY DEF Made
<1>4. v \in want => Tagged(e, h, m)
  BY <1>2, <1>3 DEF Tagged
<1>5. /\ InStep(h, v) => /\ d # None => d.tag = h /\ Entry(d.env, h, v) # "unlisted"
                         /\ n = "sound" => Tagged(e, h, d)
                         /\ n # "unlisted" => spec[e][v] = h
      /\ ~Tagged(e, h, None)
  BY DEF IInv, ListedIsOurs, Tagged
<1>6. InStep(h, v) /\ Tagged(e, h, d) => n # "unlisted"
  BY <1>5 DEF Tagged
<1>7. d # None /\ d.env # e => ~Tagged(e, h, d)
  BY DEF Tagged
<1> DEFINE rest == Rest(e, h, v)
<1>8. rest = IF n = "sound" THEN None ELSE d
  BY DEF Rest
<1>9. /\ rest = None => Creates(e, h, v) = {m}
      /\ rest # None /\ Tagged(e, h, d) => Creates(e, h, v) = {d, m}
      /\ rest # None /\ ~Tagged(e, h, d) => Creates(e, h, v) = {}
  BY DEF Creates
<1>10. /\ Fails(e, h, v) \subseteq {rest, None, d, m}
       /\ Creates(e, h, v) = {} => Fails(e, h, v) = {rest}
  BY <1>9 DEF Fails
<1>11. CASE o \in Removal(e, h, v)
  <2>1. \/ o = Outcome(d, n, FALSE)
        \/ o = Outcome(rest, "unlisted", FALSE)
        \/ o = Outcome(rest, n, TRUE)
    BY <1>11 DEF Removal
  <2> HIDE DEF d, n, m, rest
  <2>2. CASE o = Outcome(d, n, FALSE)
    <3>1. o.vm = d /\ o.entry = n
      BY <2>2 DEF Outcome
    <3>2. QED
      BY <1>1, <1>5, <1>6, <3>1 DEF d, m
  <2>3. CASE o = Outcome(rest, "unlisted", FALSE)
    <3>1. o.vm = rest /\ o.entry = "unlisted"
      BY <2>3 DEF Outcome
    <3>2. InStep(h, v) /\ Tagged(e, h, rest) => Parted(e, h, v, o)
      BY <1>1, <1>5, <1>6, <1>8, <3>1 DEF Parted, n
    <3>3. QED
      BY <1>1, <1>5, <1>7, <1>8, <3>1, <3>2 DEF d, m
  <2>4. CASE o = Outcome(rest, n, TRUE)
    <3>1. o.vm = rest /\ o.entry = n /\ o.killed
      BY <2>4 DEF Outcome
    <3>2. n = "sound" => Parted(e, h, v, o)
      BY <1>5, <1>8, <3>1 DEF Parted
    <3>3. QED
      BY <1>1, <1>5, <1>6, <1>7, <1>8, <3>1, <3>2 DEF d, m
  <2>5. QED
    BY <2>1, <2>2, <2>3, <2>4
<1>12. CASE v \in want /\ o \in Creation(e, h, v)
  <2>1. \/ \E x \in Creates(e, h, v) : o = Outcome(x, "sound", FALSE)
        \/ \E x \in Fails(e, h, v) :
              o \in {Outcome(x, "tainted", FALSE), Outcome(x, n, TRUE), Outcome(x, "unlisted", TRUE)}
    BY <1>12 DEF Creation
  <2>2. /\ o.entry \in {"sound", "tainted", "unlisted", n}
        /\ o.vm \in Creates(e, h, v) \cup Fails(e, h, v)
        /\ o.killed \/ o.entry = "tainted" \/ (o.entry = "sound" /\ o.vm \in Creates(e, h, v))
    BY <2>1 DEF Outcome
  <2> HIDE DEF d, n, m, rest
  <2>3. o.vm \in {None, d, m} /\ o.entry \in {"unlisted", "sound", "tainted"}
    BY <1>1, <1>8, <1>9, <1>10, <2>2
  <2>4. InStep(h, v) /\ d # None /\ d.env # e => o.vm = d
    BY <1>5, <1>7, <1>8, <1>9, <1>10, <2>2
  <2>5. o.vm \in Creates(e, h, v) => Tagged(e, h, o.vm) \/ (o.vm = d /\ n = "sound")
    BY <1>4, <1>8, <1>9, <1>12
  <2>6. InStep(h, v) /\ o.vm \in Creates(e, h, v) => Tagged(e, h, o.vm)
    BY <1>5, <2>5
  <2>7. InStep(h, v) /\ ~Parted(e, h, v, o) => /\ Tagged(e, h, o.vm) => o.entry # "unlisted"
                                               /\ o.entry = "sound" => Tagged(e, h, o.vm)
    BY <2>2, <2>6 DEF Parted
  <2>8. QED
    BY <1>1, <1>2, <1>12, <2>3, <2>4, <2>7 DEF d, m
<1>13. QED
  BY <1>11, <1>12 DEF Outcomes

(* What a run lists is a workspace.                                                                    *)
LEMMA RunTyped ==
    ASSUME IInv, NEW e \in Envs, NEW h \in Hosts, NEW want,
           \A v \in VmNames : v \in want => spec[e][v] = h /\ holds[e][v] # None,
           NEW run \in Runs(e, h, want)
    PROVE  Listing(run) \in Entries /\ \A v \in VmNames : Listing(run)[v] = run[v].entry
<1>1. \A v \in VmNames : run[v] \in Outcomes(e, h, v, want)
  BY DEF Runs
<1>2. \A v \in VmNames : run[v].entry \in {"unlisted", "sound", "tainted"}
  BY <1>1, OutcomeFits
<1>3. QED
  BY <1>2 DEF Listing, Entries

(* An OpenTofu run of one environment on one host.                                                     *)
TofuRuns(e, h, want, run, list) ==
    /\ e \in Envs /\ h \in Hosts /\ Busy(e)
    /\ want \subseteq PartOn(spec[e], h) /\ \A v \in want : holds[e][v] # None
    /\ run \in Runs(e, h, want) /\ Applies(e, h, run)
    /\ list \in Entries \cup {None}
    /\ \A v \in VmNames : (IF list = None THEN "unlisted" ELSE list[v]) = run[v].entry
    /\ workspace' = [workspace EXCEPT ![e][h] = list]
    /\ UNCHANGED <<status, spec, holds>>

LEMMA RunFits ==
    ASSUME IInv, NEW e, NEW h, NEW want, NEW run, NEW list, TofuRuns(e, h, want, run, list)
    PROVE  /\ workspace' \in [Envs -> [Hosts -> Entries \cup {None}]]
           /\ domain' \in [Hosts -> [VmNames -> Domains \cup {None}]]
           /\ astray' \subseteq Hosts \X VmNames /\ astray \subseteq astray'
           /\ workspace'[e][h] = list /\ \A k \in Hosts \ {h} : workspace'[e][k] = workspace[e][k]
           /\ \A d \in Envs \ {e} : workspace'[d] = workspace[d]
           /\ ListedIsOurs' /\ DestroyedIsGone' /\ AddressesAreHeld'
           /\ \A k \in Hosts, v \in VmNames :
                 InStep(k, v) /\ domain[k][v] # None /\ domain[k][v].env # e => domain'[k][v] = domain[k][v]
<1>1. /\ e \in Envs /\ h \in Hosts /\ Busy(e)
      /\ \A v \in VmNames : v \in want => spec[e][v] = h /\ holds[e][v] # None
      /\ \A v \in VmNames : run[v] \in Outcomes(e, h, v, want)
      /\ list \in Entries \cup {None}
      /\ \A v \in VmNames : (IF list = None THEN "unlisted" ELSE list[v]) = run[v].entry
      /\ workspace' = [workspace EXCEPT ![e][h] = list]
      /\ domain' = [domain EXCEPT ![h] = [v \in VmNames |-> run[v].vm]]
      /\ astray' = astray \cup {<<h, v>> : v \in {w \in VmNames : Parted(e, h, w, run[w])}}
      /\ UNCHANGED <<status, spec, holds>>
  BY DEF TofuRuns, Runs, Applies, PartOn
<1>2. /\ workspace \in [Envs -> [Hosts -> Entries \cup {None}]]
      /\ domain \in [Hosts -> [VmNames -> Domains \cup {None}]]
      /\ astray \subseteq Hosts \X VmNames
  BY DEF IInv, TypeOK
<1>3. /\ workspace' \in [Envs -> [Hosts -> Entries \cup {None}]]
      /\ workspace'[e][h] = list /\ \A k \in Hosts \ {h} : workspace'[e][k] = workspace[e][k]
      /\ \A d \in Envs \ {e} : workspace'[d] = workspace[d]
  BY <1>1, <1>2
<1>4. \A v \in VmNames :
        /\ run[v].vm \in Domains \cup {None} /\ run[v].entry \in {"unlisted", "sound", "tainted"}
        /\ run[v].vm = None \/ run[v].vm = domain[h][v] \/ run[v].vm = Made(e, h, v)
        /\ InStep(h, v) => /\ run[v].entry # "unlisted" => spec[e][v] = h
                           /\ domain[h][v] # None /\ domain[h][v].env # e => run[v].vm = domain[h][v]
        /\ InStep(h, v) /\ ~Parted(e, h, v, run[v]) => /\ Tagged(e, h, run[v].vm) => run[v].entry # "unlisted"
                                                       /\ run[v].entry = "sound" => Tagged(e, h, run[v].vm)
  BY <1>1, OutcomeFits
<1>5. /\ \A v \in VmNames : domain'[h][v] = run[v].vm
      /\ \A k \in Hosts \ {h} : domain'[k] = domain[k]
      /\ domain' \in [Hosts -> [VmNames -> Domains \cup {None}]]
  BY <1>1, <1>2, <1>4
<1>6. /\ astray' \subseteq Hosts \X VmNames /\ astray \subseteq astray'
      /\ \A k \in Hosts, v \in VmNames : InStep(k, v)' => InStep(k, v)
      /\ \A v \in VmNames : InStep(h, v)' => ~Parted(e, h, v, run[v])
  BY <1>1, <1>2 DEF InStep
<1>7. \A k \in Hosts, v \in VmNames :
         InStep(k, v) /\ domain[k][v] # None /\ domain[k][v].env # e => domain'[k][v] = domain[k][v]
  BY <1>4, <1>5
<1>8. \A v : Made(e, h, v).env = e /\ Made(e, h, v).tag = h /\ Made(e, h, v).address = holds[e][v]
  BY DEF Made
<1>9. /\ \A v \in VmNames : Entry(e, h, v)' = run[v].entry
      /\ \A k \in Hosts \ {h}, v \in VmNames : Entry(e, k, v)' = Entry(e, k, v)
      /\ \A d \in Envs \ {e}, k \in Hosts, v \in VmNames : Entry(d, k, v)' = Entry(d, k, v)
  BY <1>1, <1>3 DEF Entry
<1>10. status[e] \notin Gone
  BY <1>1 DEF IInv, JobsFit
<1>11. ListedIsOurs'
  <2> SUFFICES ASSUME NEW k \in Hosts, NEW v \in VmNames, InStep(k, v)'
               PROVE  /\ domain'[k][v] # None => domain'[k][v].tag = k /\ Entry(domain[k][v].env, k, v)' # "unlisted"
                      /\ \A d \in Envs : Entry(d, k, v)' = "sound" => Tagged(d, k, domain'[k][v])
                      /\ \A d \in Envs : Entry(d, k, v)' # "unlisted" => spec[d][v] = k /\ status[d] \notin Gone
    BY <1>1 DEF ListedIsOurs, Entry, Tagged
  <2>1. InStep(k, v)
    BY <1>6
  <2>2. /\ domain[k][v] # None => domain[k][v].tag = k /\ Entry(domain[k][v].env, k, v) # "unlisted"
        /\ \A d \in Envs : Entry(d, k, v) = "sound" => Tagged(d, k, domain[k][v])
        /\ \A d \in Envs : Entry(d, k, v) # "unlisted" => spec[d][v] = k /\ status[d] \notin Gone
    BY <2>1 DEF IInv, ListedIsOurs
  <2>3. domain[k][v] # None => domain[k][v].env \in Envs
    BY VmTypes
  <2>4. CASE k # h
    <3>1. \A d \in Envs : Entry(d, k, v)' = Entry(d, k, v)
      BY <1>1, <1>9, <2>4
    <3>2. domain'[k][v] = domain[k][v]
      BY <1>5, <2>4
    <3>3. QED
      BY <2>2, <2>3, <3>1, <3>2
  <2>5. CASE k = h
    <3>1. ~Parted(e, h, v, run[v])
      BY <1>6, <2>5
    <3>2. /\ Tagged(e, h, domain'[h][v]) => run[v].entry # "unlisted"
          /\ run[v].entry = "sound" => Tagged(e, h, domain'[h][v])
          /\ run[v].entry # "unlisted" => spec[e][v] = h
          /\ domain'[h][v] = None \/ domain'[h][v] = domain[h][v] \/ domain'[h][v] = Made(e, h, v)
      BY <1>4, <1>5, <2>1, <2>5, <3>1
    <3>3. /\ Entry(e, h, v)' = run[v].entry
          /\ \A d \in Envs \ {e} : Entry(d, h, v)' = Entry(d, h, v)
      BY <1>1, <1>9
    <3>4. domain'[h][v] # None => domain'[h][v].tag = h /\ domain'[h][v].env \in Envs
      BY <1>1, <1>8, <2>2, <2>3, <2>5, <3>2
    <3>5. domain'[h][v] # None => Entry(domain[h][v].env, h, v)' # "unlisted"
      <4>1. CASE domain'[h][v] # None /\ domain'[h][v].env = e
        BY <3>2, <3>3, <3>4, <4>1 DEF Tagged
      <4>2. CASE domain'[h][v] # None /\ domain'[h][v].env # e
        <5>1. domain'[h][v] = domain[h][v]
          BY <1>8, <3>2, <4>2
        <5>2. QED
          BY <2>2, <2>5, <3>3, <3>4, <4>2, <5>1
      <4>3. QED
        BY <4>1, <4>2
    <3>6. ASSUME NEW d \in Envs, Entry(d, h, v)' = "sound" PROVE Tagged(d, h, domain'[h][v])
      <4>1. CASE d = e
        BY <3>2, <3>3, <3>6, <4>1
      <4>2. CASE d # e
        <5>1. Tagged(d, h, domain[h][v])
          BY <2>2, <2>5, <3>3, <3>6, <4>2
        <5>2. domain'[h][v] = domain[h][v]
          BY <1>7, <2>1, <2>5, <4>2, <5>1 DEF Tagged
        <5>3. QED
          BY <5>1, <5>2
      <4>3. QED
        BY <4>1, <4>2
    <3>7. ASSUME NEW d \in Envs, Entry(d, h, v)' # "unlisted" PROVE spec[d][v] = h /\ status[d] \notin Gone
      BY <1>10, <2>2, <2>5, <3>2, <3>3, <3>7
    <3>8. QED
      BY <2>5, <3>4, <3>5, <3>6, <3>7
  <2>6. QED
    BY <2>4, <2>5
<1>12. DestroyedIsGone'
  <2> SUFFICES ASSUME NEW k \in Hosts, NEW v \in VmNames, InStep(k, v)', domain'[k][v] # None
               PROVE  status[domain'[k][v].env] \notin Gone
    BY <1>1 DEF DestroyedIsGone
  <2>1. domain'[k][v] = domain[k][v] \/ domain'[k][v].env = e
    BY <1>4, <1>5, <1>8
  <2>2. QED
    BY <1>6, <1>10, <2>1 DEF IInv, DestroyedIsGone
<1>13. AddressesAreHeld'
  <2> SUFFICES ASSUME NEW k \in Hosts, NEW v \in VmNames, InStep(k, v)', domain'[k][v] # None
               PROVE  holds[domain'[k][v].env][v] = domain'[k][v].address
    BY <1>1 DEF IInv, AddressesAreHeld
  <2>1. domain'[k][v] = domain[k][v] \/ domain'[k][v] = Made(e, h, v)
    BY <1>4, <1>5
  <2>2. QED
    BY <1>6, <1>8, <2>1, VmTypes
<1>14. QED
  BY <1>3, <1>5, <1>6, <1>7, <1>11, <1>12, <1>13

LEMMA JobGoesOn ==
    ASSUME IInv, NEW e \in Envs, Busy(e), NEW j \in Jobs, job' = [job EXCEPT ![e] = j],
           j.type = job[e].type, j.vm = job[e].vm, j.to = job[e].to,
           UNCHANGED <<status, spec, holds, jobs, moves>>,
           astray \subseteq astray', astray' \subseteq Hosts \X VmNames,
           workspace' \in [Envs -> [Hosts -> Entries \cup {None}]],
           domain' \in [Hosts -> [VmNames -> Domains \cup {None}]],
           \A d \in Envs \ {e} : workspace'[d] = workspace[d],
           j.type = "destroy" /\ j.ok => \A h \in j.done : workspace'[e][h] = None,
           AddressesAreHeld' /\ DestroyedIsGone' /\ ListedIsOurs'
    PROVE  IInv'
<1>1. /\ job' \in [Envs -> Jobs \cup {None}] /\ job'[e] = j
      /\ \A d \in Envs \ {e} : job'[d] = job[d]
  BY DEF IInv, TypeOK
<1>2. TypeOK'
  BY <1>1 DEF IInv, TypeOK
<1>3. JobsFit' /\ AddressesGiven'
  BY <1>1 DEF IInv, JobsFit, AddressesGiven, Busy, InStep
<1>4. DestroyedParts'
  BY <1>1 DEF IInv, DestroyedParts, Busy
<1>5. QED
  BY <1>2, <1>3, <1>4 DEF IInv

(* What a deploy's part does to the host's VMs.                              *)
LEMMA DeployPartFits ==
    ASSUME IInv, NEW e \in Envs, DeployPart(e)
    PROVE  /\ IInv'
           /\ \A k \in Hosts, v \in VmNames :
                 InStep(k, v) /\ domain[k][v] # None /\ domain[k][v].env # e => domain'[k][v] = domain[k][v]
<1>1. PICK h \in Hosts :
        /\ Running(e, "deploy")
        /\ \E run \in Runs(e, h, PartOn(spec[e], h)) :
             /\ Applies(e, h, run)
             /\ workspace' = [workspace EXCEPT ![e][h] = Listing(run)]
             /\ PartDone(e, h, Well(run, PartOn(spec[e], h)))
        /\ UNCHANGED <<status, spec, holds, jobs, moves>>
  BY Zenon DEF DeployPart
<1> DEFINE want == PartOn(spec[e], h)
<1>2. PICK run \in Runs(e, h, want) :
        /\ Applies(e, h, run)
        /\ workspace' = [workspace EXCEPT ![e][h] = Listing(run)]
        /\ PartDone(e, h, Well(run, want))
  BY Zenon, <1>1
<1>3. Busy(e) /\ job[e].type = "deploy"
  BY <1>1 DEF Running
<1>4. \A v \in want : holds[e][v] # None
  BY <1>3 DEF IInv, AddressesGiven, PartOn, Members
<1>5. Well(run, want) \in BOOLEAN
  BY DEF Well
<1> HIDE DEF want
<1>6. TofuRuns(e, h, want, run, Listing(run))
  <2>1. Listing(run) \in Entries /\ \A v \in VmNames : Listing(run)[v] = run[v].entry
    BY <1>2, <1>4, RunTyped DEF want, PartOn
  <2>2. want \subseteq PartOn(spec[e], h)
    BY DEF want
  <2>3. Listing(run) # None
    BY <2>1
  <2>4. QED
    BY <1>1, <1>2, <1>3, <1>4, <2>1, <2>2, <2>3 DEF TofuRuns
<1>7. PICK j \in Jobs : /\ job' = [job EXCEPT ![e] = j]
                        /\ j.type = job[e].type /\ j.vm = job[e].vm /\ j.to = job[e].to
  BY <1>2, <1>3, <1>5, PartDoneFits
<1>8. QED
  BY <1>1, <1>3, <1>6, <1>7, RunFits, JobGoesOn

(* What a destroy's part does to the host's VMs.                             *)
LEMMA DestroyPartFits ==
    ASSUME IInv, NEW e \in Envs, DestroyPart(e)
    PROVE  /\ IInv'
           /\ \A k \in Hosts, v \in VmNames :
                 InStep(k, v) /\ domain[k][v] # None /\ domain[k][v].env # e => domain'[k][v] = domain[k][v]
<1>1. PICK h \in Hosts, deleted \in BOOLEAN :
        /\ Running(e, "destroy")
        /\ \E run \in Runs(e, h, {}) :
             /\ deleted => Well(run, {})
             /\ Applies(e, h, run)
             /\ workspace' = [workspace EXCEPT ![e][h] = IF deleted THEN None ELSE Listing(run)]
             /\ PartDone(e, h, deleted)
        /\ UNCHANGED <<status, spec, holds, jobs, moves>>
  BY Zenon DEF DestroyPart
<1>2. PICK run \in Runs(e, h, {}) :
        /\ deleted => Well(run, {})
        /\ Applies(e, h, run)
        /\ workspace' = [workspace EXCEPT ![e][h] = IF deleted THEN None ELSE Listing(run)]
        /\ PartDone(e, h, deleted)
  BY Zenon, <1>1
<1>3. Busy(e) /\ job[e].type = "destroy"
  BY <1>1 DEF Running
<1>4. PICK list : list = IF deleted THEN None ELSE Listing(run)
  OBVIOUS
<1>5. TofuRuns(e, h, {}, run, list)
  <2>1. Listing(run) \in Entries /\ \A v \in VmNames : Listing(run)[v] = run[v].entry
    BY <1>2, RunTyped
  <2>2. deleted => \A v \in VmNames : run[v].entry = "unlisted"
    BY <1>2 DEF Well
  <2>3. workspace' = [workspace EXCEPT ![e][h] = list]
    BY <1>2, <1>4
  <2>4. /\ list \in Entries \cup {None}
        /\ \A v \in VmNames : (IF list = None THEN "unlisted" ELSE list[v]) = run[v].entry
    BY <1>4, <2>1, <2>2
  <2>5. QED
    BY <1>1, <1>2, <1>3, <2>3, <2>4 DEF TofuRuns
<1>6. PICK j \in Jobs : /\ job' = [job EXCEPT ![e] = j]
                        /\ j.type = job[e].type /\ j.vm = job[e].vm /\ j.to = job[e].to
                        /\ j.done = job[e].done \cup {h} /\ (j.ok => job[e].ok /\ deleted)
  BY <1>2, <1>3, PartDoneFits
<1>7. j.ok => \A k \in j.done : workspace'[e][k] = None
  <2>1. job[e].ok => \A k \in job[e].done : workspace[e][k] = None
    BY <1>3 DEF IInv, DestroyedParts
  <2>2. job[e].done \subseteq Hosts
    BY <1>3, JobTyped DEF Jobs
  <2>3. workspace'[e][h] = list /\ \A k \in Hosts \ {h} : workspace'[e][k] = workspace[e][k]
    BY <1>5, RunFits
  <2>4. QED
    BY <1>4, <1>6, <2>1, <2>2, <2>3
<1>8. QED
  BY <1>1, <1>3, <1>5, <1>6, <1>7, RunFits, JobGoesOn

-----------------------------------------------------------------------------
(* A move, and the end of a job.                                             *)

(* What happens to a VM whose name was moved is out of these conjuncts' sight. *)
LEMMA OnlyMoved ==
    ASSUME IInv, UNCHANGED <<workspace, holds, astray>>,
           \A k \in Hosts, w \in VmNames : InStep(k, w) => domain'[k][w] = domain[k][w],
           \A d \in Envs, k \in Hosts, w \in VmNames : InStep(k, w) => spec'[d][w] = spec[d][w],
           \A d \in Envs : status'[d] \in Gone <=> status[d] \in Gone
    PROVE  AddressesAreHeld' /\ DestroyedIsGone' /\ ListedIsOurs'
<1>1. AddressesAreHeld'
  BY DEF IInv, AddressesAreHeld, InStep
<1>2. DestroyedIsGone'
  <2>1. \A h \in Hosts, v \in VmNames : InStep(h, v) /\ domain[h][v] # None => domain[h][v].env \in Envs
    BY VmTypes
  <2>2. QED
    BY <2>1 DEF IInv, DestroyedIsGone, InStep
<1>3. ListedIsOurs'
  BY DEF IInv, ListedIsOurs, Entry, Tagged, InStep
<1>4. QED
  BY <1>1, <1>2, <1>3

LEMMA MigrateFits ==
    ASSUME IInv, NEW e \in Envs, Migrate(e)
    PROVE  IInv' /\ \A k \in Hosts, w \in VmNames : InStep(k, w) => domain'[k][w] = domain[k][w]
<1> DEFINE v == job[e].vm
           src == spec[e][v]
           dst == job[e].to
           j == [job[e] EXCEPT !.done = {dst}]
<1>1. /\ Busy(e) /\ job[e].type = "move"
      /\ domain' = [domain EXCEPT ![src][v] = None, ![dst][v] = domain[src][v]]
      /\ job' = [job EXCEPT ![e] = j]
      /\ UNCHANGED <<status, spec, holds, workspace, jobs, moves, astray>>
  BY DEF Migrate, Running, IInv, TypeOK
<1>2. /\ v \in VmNames /\ dst \in Hosts /\ src \notin {None, dst} /\ status[e] = "deployed"
      /\ \A k \in Hosts : ~InStep(k, v)
  BY <1>1 DEF IInv, TypeOK, JobsFit
<1>3. src \in Hosts
  BY <1>2, SpecTypes DEF IInv
<1>4. j \in Jobs /\ j.type = job[e].type /\ j.vm = job[e].vm /\ j.to = job[e].to
  BY <1>1, <1>2, JobTyped DEF Jobs
<1> HIDE DEF v, src, dst, j
<1>5. domain \in [Hosts -> [VmNames -> Domains \cup {None}]]
  BY DEF IInv, TypeOK
<1>6. /\ domain' \in [Hosts -> [VmNames -> Domains \cup {None}]]
      /\ \A k \in Hosts, w \in VmNames : InStep(k, w) => domain'[k][w] = domain[k][w]
  <2>1. PICK x \in Domains \cup {None} : x = domain[src][v]
    BY <1>2, <1>3, <1>5
  <2>2. PICK left \in [Hosts -> [VmNames -> Domains \cup {None}]] : left = [domain EXCEPT ![src][v] = None]
    BY <1>2, <1>3, <1>5
  <2>3. \A k \in Hosts, w \in VmNames : InStep(k, w) => left[k][w] = domain[k][w]
    BY <1>2, <1>3, <1>5, <2>2
  <2>4. domain' = [left EXCEPT ![dst][v] = x]
    BY <1>1, <2>1, <2>2
  <2>5. /\ domain' \in [Hosts -> [VmNames -> Domains \cup {None}]]
        /\ \A k \in Hosts, w \in VmNames \ {v} : domain'[k][w] = left[k][w]
    BY <1>2, <2>2, <2>4
  <2>6. \A k \in Hosts, w \in VmNames : InStep(k, w) => w # v
    BY <1>2
  <2>7. QED
    BY <2>3, <2>5, <2>6
<1>7. AddressesAreHeld' /\ DestroyedIsGone' /\ ListedIsOurs'
  BY <1>1, <1>6, OnlyMoved
<1>8. workspace' \in [Envs -> [Hosts -> Entries \cup {None}]]
  BY <1>1 DEF IInv, TypeOK
<1>9. IInv'
  <2>1. astray' = astray /\ astray \subseteq Hosts \X VmNames
    BY <1>1 DEF IInv, TypeOK
  <2>2. j.type # "destroy"
    BY <1>1, <1>4
  <2>3. QED
    BY <1>1, <1>4, <1>6, <1>7, <1>8, <2>1, <2>2, JobGoesOn
<1>10. QED
  BY <1>6, <1>9

LEMMA MoveEndsFits ==
    ASSUME IInv, NEW e \in Envs, MoveEnds(e)
    PROVE  IInv' /\ \A k \in Hosts, w \in VmNames : InStep(k, w) => domain'[k][w] = domain[k][w]
<1> DEFINE v == job[e].vm
           dst == job[e].to
           vm == [domain[dst][v] EXCEPT !.env = e, !.tag = dst]
           q == Queued("deploy")
<1>1. /\ Busy(e) /\ job[e].type = "move" /\ domain[dst][v] # None
      /\ domain' = [domain EXCEPT ![dst][v] = vm]
      /\ spec' = [spec EXCEPT ![e][v] = dst]
      /\ status' = [status EXCEPT ![e] = "deploying"]
      /\ job' = [job EXCEPT ![e] = q]
      /\ UNCHANGED <<holds, workspace, jobs, moves, astray>>
  BY DEF MoveEnds, Running, Tagged, IInv, TypeOK
<1>2. /\ v \in VmNames /\ dst \in Hosts /\ spec[e][v] \notin {None, dst} /\ status[e] = "deployed"
      /\ \A k \in Hosts : ~InStep(k, v)
  BY <1>1 DEF IInv, TypeOK, JobsFit
<1>3. vm \in Domains
  <2>1. domain[dst][v] \in Domains
    BY <1>1, <1>2, VmTypes
  <2> HIDE DEF v, dst
  <2>2. QED
    BY <1>2, <2>1 DEF Domains
<1>4. q \in Jobs /\ q.type = "deploy"
  BY JobTypes DEF Queued
<1> HIDE DEF v, dst, vm, q
<1>5. domain \in [Hosts -> [VmNames -> Domains \cup {None}]]
  BY DEF IInv, TypeOK
<1>6. /\ domain' \in [Hosts -> [VmNames -> Domains \cup {None}]]
      /\ \A k \in Hosts, w \in VmNames : InStep(k, w) => domain'[k][w] = domain[k][w]
  BY <1>1, <1>2, <1>3, <1>5
<1>7. spec[e] \in Specs /\ spec \in [Envs -> Specs \cup {None}]
  BY <1>2, SpecTypes DEF IInv, TypeOK
<1>8. /\ spec'[e] \in Specs /\ spec'[e][v] = dst
      /\ \A w \in VmNames \ {v} : spec'[e][w] = spec[e][w]
      /\ \A d \in Envs \ {e} : spec'[d] = spec[d]
  <2>1. dst # None
    BY <1>2
  <2>2. QED
    BY <1>1, <1>2, <1>7, <2>1 DEF Specs
<1>9. /\ status' \in [Envs -> Statuses] /\ status'[e] = "deploying"
      /\ \A d \in Envs \ {e} : status'[d] = status[d] /\ job'[d] = job[d]
      /\ job' \in [Envs -> Jobs \cup {None}] /\ job'[e] = q
  BY <1>1, <1>4 DEF IInv, TypeOK, Statuses
<1>10. TypeOK'
  <2>1. spec' \in [Envs -> Specs \cup {None}]
    BY <1>1, <1>7, <1>8
  <2>2. \A d \in Envs : status'[d] = "absent" <=> spec'[d] = None
    BY <1>2, <1>8, <1>9 DEF IInv, TypeOK
  <2>3. QED
    BY <1>1, <1>6, <1>9, <2>1, <2>2 DEF IInv, TypeOK
<1>11. AddressesAreHeld' /\ DestroyedIsGone' /\ ListedIsOurs'
  <2>1. \A d \in Envs, k \in Hosts, w \in VmNames : InStep(k, w) => spec'[d][w] = spec[d][w]
    BY <1>2, <1>8
  <2>2. \A d \in Envs : status'[d] \in Gone <=> status[d] \in Gone
    BY <1>2, <1>9 DEF Gone
  <2>3. QED
    BY <1>1, <1>6, <2>1, <2>2, OnlyMoved
<1>12. JobsFit'
  BY <1>1, <1>4, <1>9 DEF IInv, JobsFit, Busy, Gone, InStep
<1>13. AddressesGiven'
  <2>1. \A w \in Members(spec'[e]) : w \in Members(spec[e])
    BY <1>2, <1>8 DEF Members
  <2>2. \A w \in Members(spec[e]) : holds[e][w] # None
    BY <1>2 DEF IInv, AddressesGiven
  <2>3. QED
    BY <1>1, <2>1, <2>2 DEF IInv, AddressesGiven, Busy
<1>14. DestroyedParts'
  BY <1>1, <1>4 DEF IInv, DestroyedParts, Busy
<1>15. QED
  BY <1>6, <1>10, <1>11, <1>12, <1>13, <1>14 DEF IInv

(* A destroy whose parts are all done and well has left no entry and no VM.  *)
LEMMA NoneIsLeft ==
    ASSUME IInv, NEW e \in Envs, Busy(e), job[e].type = "destroy", job[e].ok, Left(e) = {}
    PROVE  \A h \in Hosts, v \in VmNames : InStep(h, v) =>
               Entry(e, h, v) = "unlisted" /\ (domain[h][v] # None => domain[h][v].env # e)
<1>1. ASSUME NEW h \in Hosts, NEW v \in VmNames, InStep(h, v), Entry(e, h, v) # "unlisted" PROVE FALSE
  <2>1. spec[e][v] = h /\ h # None
    BY <1>1 DEF IInv, ListedIsOurs
  <2>2. h \in HostIds(spec[e])
    BY <2>1 DEF HostIds, Members
  <2>3. h \in job[e].done
    BY <2>2 DEF Left
  <2>4. workspace[e][h] = None
    BY <2>3 DEF IInv, DestroyedParts
  <2>5. QED
    BY <1>1, <2>4 DEF Entry
<1>2. QED
  BY <1>1 DEF IInv, ListedIsOurs

LEMMA JobEndsStep == ASSUME IInv, NEW e \in Envs, JobEnds(e) PROVE IInv'
<1>1. PICK ends \in {"deployed", "destroyed", "failed"} :
        /\ Busy(e) /\ job[e].type # "move"
        /\ ends # "failed" => job[e].ok /\ Left(e) = {}
        /\ ends = "deployed"  => job[e].type = "deploy"
        /\ ends = "destroyed" => job[e].type = "destroy"
        /\ status' = [status EXCEPT ![e] = ends]
        /\ holds' = IF ends = "destroyed" THEN [holds EXCEPT ![e] = NoAddresses] ELSE holds
        /\ job' = [job EXCEPT ![e] = None]
        /\ UNCHANGED <<spec, workspace, domain, jobs, moves, astray>>
  BY DEF JobEnds, Releases
<1>2. /\ status' \in [Envs -> Statuses] /\ status'[e] = ends
      /\ \A d \in Envs \ {e} : status'[d] = status[d]
  BY <1>1 DEF IInv, TypeOK, Statuses
<1>3. status[e] \notin Gone
  BY <1>1 DEF IInv, JobsFit
<1>4. CASE ends # "destroyed"
  BY <1>1, <1>2, <1>3, <1>4, JobOnly DEF Gone
<1>5. CASE ends = "destroyed"
  <2>1. /\ NoAddresses \in [VmNames -> Addresses \cup {None}]
        /\ \A v \in VmNames : NoAddresses[v] = None
    BY DEF NoAddresses
  <2>2. /\ holds' \in [Envs -> [VmNames -> Addresses \cup {None}]] /\ holds'[e] = NoAddresses
        /\ \A d \in Envs \ {e} : holds'[d] = holds[d]
    BY <1>1, <1>5, <2>1 DEF IInv, TypeOK
  <2>3. \A h \in Hosts, v \in VmNames : InStep(h, v) =>
           Entry(e, h, v) = "unlisted" /\ (domain[h][v] # None => domain[h][v].env # e)
    BY <1>1, <1>5, NoneIsLeft
  <2>4. /\ job' \in [Envs -> Jobs \cup {None}] /\ ~Busy(e)'
        /\ \A d \in Envs \ {e} : job'[d] = job[d]
    BY <1>1 DEF IInv, TypeOK, Busy
  <2>5. TypeOK'
    BY <1>1, <1>2, <1>3, <2>2 DEF IInv, TypeOK, Gone
  <2>6. AddressesAreHeld'
    <3>1. \A h \in Hosts, v \in VmNames : InStep(h, v) /\ domain[h][v] # None =>
             holds'[domain[h][v].env][v] = domain[h][v].address
      BY <2>2, <2>3, VmTypes
    <3>2. \A c, d \in Envs, v, w \in VmNames : holds[c][v] # None /\ holds[c][v] = holds[d][w] => c = d /\ v = w
      BY DEF IInv, AddressesAreHeld, InStep
    <3>3. \A c, d \in Envs, v, w \in VmNames : holds'[c][v] # None /\ holds'[c][v] = holds'[d][w] => c = d /\ v = w
      BY <2>1, <2>2, <3>2
    <3>4. \A d \in Envs : status'[d] \in Gone => holds'[d] = NoAddresses
      BY <1>2, <2>2 DEF IInv, AddressesAreHeld, InStep
    <3>5. QED
      BY <1>1, <3>1, <3>3, <3>4 DEF AddressesAreHeld, InStep
  <2>7. DestroyedIsGone'
    BY <1>1, <2>3 DEF IInv, DestroyedIsGone, InStep
  <2>8. ListedIsOurs'
    <3>1. \A h \in Hosts, v \in VmNames : InStep(h, v)' <=> InStep(h, v)
      BY <1>1 DEF InStep
    <3>2. \A d \in Envs, h \in Hosts, v \in VmNames :
             InStep(h, v) /\ Entry(d, h, v) # "unlisted" => d # e /\ status'[d] = status[d]
      BY <1>2, <2>3
    <3>3. QED
      BY <1>1, <3>1, <3>2 DEF IInv, ListedIsOurs, Entry, Tagged
  <2>9. JobsFit' /\ AddressesGiven' /\ DestroyedParts'
    <3>1. JobsFit'
      BY <1>1, <2>4 DEF IInv, JobsFit, Busy, InStep
    <3>2. AddressesGiven'
      BY <1>1, <1>2 DEF IInv, AddressesGiven, Busy
    <3>3. DestroyedParts'
      BY <1>1, <2>4 DEF IInv, DestroyedParts, Busy
    <3>4. QED
      BY <3>1, <3>2, <3>3
  <2>10. QED
    BY <2>5, <2>6, <2>7, <2>8, <2>9 DEF IInv
<1>6. QED
  BY <1>4, <1>5

-----------------------------------------------------------------------------
(* The theorems.                                                             *)

THEOREM NextIInv == IInv /\ [Next]_vars => IInv'
<1> SUFFICES ASSUME IInv, [Next]_vars PROVE IInv'
  OBVIOUS
<1>1. ASSUME NEW e \in Envs, CreateEnv(e) PROVE IInv'
  BY <1>1, CreateEnvStep
<1>2. ASSUME NEW e \in Envs, SaveDraft(e) PROVE IInv'
  BY <1>2, SaveDraftStep
<1>3. ASSUME NEW e \in Envs, Redeploy(e) PROVE IInv'
  BY <1>3, RedeployStep
<1>4. ASSUME NEW e \in Envs, Destroy(e) PROVE IInv'
  BY <1>4, DestroyStep
<1>5. ASSUME NEW e \in Envs, MoveGroup(e) PROVE IInv'
  BY <1>5, MoveGroupStep
<1>6. ASSUME NEW e \in Envs, DeleteRecord(e) PROVE IInv'
  BY <1>6, DeleteRecordStep
<1>7. ASSUME NEW e \in Envs, CancelQueued(e) PROVE IInv'
  BY <1>7, CancelQueuedStep
<1>8. ASSUME NEW e \in Envs, Claim(e) PROVE IInv'
  BY <1>8, ClaimStep
<1>9. ASSUME NEW e \in Envs, DeployPart(e) PROVE IInv'
  BY <1>9, DeployPartFits
<1>10. ASSUME NEW e \in Envs, PartStops(e) PROVE IInv'
  BY <1>10, PartStopsStep
<1>11. ASSUME NEW e \in Envs, DestroyPart(e) PROVE IInv'
  BY <1>11, DestroyPartFits
<1>12. ASSUME NEW e \in Envs, Migrate(e) PROVE IInv'
  BY <1>12, MigrateFits
<1>13. ASSUME NEW e \in Envs, MoveEnds(e) PROVE IInv'
  BY <1>13, MoveEndsFits
<1>14. ASSUME NEW e \in Envs, MoveStops(e) PROVE IInv'
  BY <1>14, MoveStopsStep
<1>15. ASSUME NEW e \in Envs, JobEnds(e) PROVE IInv'
  BY <1>15, JobEndsStep
<1>16. ASSUME NEW e \in Envs, WorkerDies(e) PROVE IInv'
  BY <1>16, WorkerDiesStep
<1>17. CASE UNCHANGED vars
  <2>1. UNCHANGED <<status, spec, holds, workspace, domain, job, jobs, moves, astray>>
    BY <1>17 DEF vars
  <2>2. TypeOK' /\ AddressesAreHeld' /\ DestroyedIsGone'
    BY <2>1 DEF IInv, TypeOK, AddressesAreHeld, DestroyedIsGone, InStep
  <2>3. ListedIsOurs' /\ JobsFit' /\ AddressesGiven' /\ DestroyedParts'
    BY <2>1 DEF IInv, ListedIsOurs, Entry, Tagged, InStep, JobsFit, AddressesGiven, DestroyedParts, Busy
  <2>4. QED
    BY <2>2, <2>3 DEF IInv
<1>18. QED
  BY <1>1, <1>2, <1>3, <1>4, <1>5, <1>6, <1>7, <1>8, <1>9, <1>10, <1>11, <1>12, <1>13, <1>14, <1>15, <1>16, <1>17
     DEF Next

(* The records, the addresses, the workspaces and the VMs agree as IInv says  *)
(* in every reachable state, with any number of environments and hosts,       *)
(* through installs that take too long and jobs that fail or die: at every     *)
(* place no move, killed run or dropped tainted entry has touched (InStep).    *)
THEOREM Invariance == Spec => []IInv
BY InitIInv, NextIInv, PTL DEF Spec

(* Every variable keeps its type: an environment has a status and groups     *)
(* exactly when there is a record of it, and its hosts and addresses are      *)
(* ones that exist (models.Environment, netpolicy.py).                        *)
THEOREM TypeCorrect == Spec => []TypeOK
BY Invariance, PTL DEF IInv

(* At a place in step a VM has the address its environment holds for it; no   *)
(* two VMs hold the same one, and an environment without VMs holds none,       *)
(* whatever jobs fail, are cancelled or die beside it                          *)
(* (netpolicy.allocate, runner._finish, envdelete.delete).                     *)
THEOREM AddressesHeld == Spec => []AddressesAreHeld
BY Invariance, PTL DEF IInv

(* A destroy that ended well left no VM at a place in step, and neither does a *)
(* deleted record nor a draft hide one there: where one is left, a move, a     *)
(* killed run or a dropped tainted entry left it                               *)
(* (runner._finish, envdelete.delete).                                         *)
THEOREM DestroyedGone == Spec => []DestroyedIsGone
BY Invariance, PTL DEF IInv

(* Whatever names two environments share, and whatever an earlier job left,   *)
(* a job changes no VM of another environment that stands at a place in step   *)
(* (lib/existing-domain.sh, deploy.sh, destroy.sh).                            *)
THEOREM OwnVms == Spec => OwnVmsOnly
<1> DEFINE Leaves(e) == \A h \in Hosts, v \in VmNames :
               InStep(h, v) /\ domain[h][v] # None /\ domain[h][v].env # e => domain'[h][v] = domain[h][v]
           Others(e) == \A d \in Envs \ {e} : job'[d] = job[d]
<1>1. ASSUME IInv, NEW e \in Envs, CreateEnv(e) \/ SaveDraft(e) \/ Redeploy(e) \/ Destroy(e) \/ MoveGroup(e)
             \/ DeleteRecord(e) \/ CancelQueued(e) \/ Claim(e) \/ PartStops(e) \/ MoveStops(e) \/ JobEnds(e)
             \/ WorkerDies(e)
      PROVE  UNCHANGED domain
  BY <1>1 DEF CreateEnv, SaveDraft, Redeploy, Destroy, MoveGroup, DeleteRecord, CancelQueued, Claim, PartStops,
              MoveStops, JobEnds, WorkerDies
<1>2. ASSUME IInv, NEW e \in Envs, DeployPart(e) \/ DestroyPart(e) \/ Migrate(e) \/ MoveEnds(e)
      PROVE  Leaves(e) /\ Others(e)
  <2>1. Leaves(e)
    BY <1>2, DeployPartFits, DestroyPartFits, MigrateFits, MoveEndsFits
  <2>2. job \in [Envs -> Jobs \cup {None}]
    BY <1>2 DEF IInv, TypeOK
  <2>3. ASSUME NEW h \in Hosts, NEW well, PartDone(e, h, well) PROVE Others(e)
    BY <2>2, <2>3 DEF PartDone
  <2>4. ASSUME DeployPart(e) PROVE Others(e)
    <3>1. \E h \in Hosts : \E well : PartDone(e, h, well)
      BY Zenon, <2>4 DEF DeployPart
    <3>2. QED
      BY <2>3, <3>1
  <2>5. ASSUME DestroyPart(e) PROVE Others(e)
    <3>1. \E h \in Hosts : \E well : PartDone(e, h, well)
      BY Zenon, <2>5 DEF DestroyPart
    <3>2. QED
      BY <2>3, <3>1
  <2>6. ASSUME Migrate(e) PROVE Others(e)
    <3>1. job' = [job EXCEPT ![e].done = {job[e].to}]
      BY <2>6 DEF Migrate
    <3>2. QED
      BY <2>2, <3>1
  <2>7. ASSUME MoveEnds(e) PROVE Others(e)
    <3>1. job' = [job EXCEPT ![e] = Queued("deploy")]
      BY <2>7 DEF MoveEnds
    <3>2. QED
      BY <2>2, <3>1
  <2>8. QED
    BY <1>2, <2>1, <2>4, <2>5, <2>6, <2>7
<1> DEFINE Own == \A e \in Envs : job'[e] # job[e] => Leaves(e)
<1>3. ASSUME IInv, [Next]_vars PROVE Own
  <2>1. CASE UNCHANGED domain
    BY <2>1
  <2>2. ASSUME NEW e \in Envs, Leaves(e) /\ Others(e) PROVE Own
    BY <2>2
  <2>3. UNCHANGED vars => UNCHANGED domain
    BY DEF vars
  <2> HIDE DEF Own, Leaves, Others
  <2>4. QED
    BY <1>1, <1>2, <1>3, <2>1, <2>2, <2>3 DEF Next
<1>4. QED
  BY <1>3, Invariance, PTL DEF OwnVmsOnly, Spec
=============================================================================
