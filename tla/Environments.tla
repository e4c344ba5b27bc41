---------------------------- MODULE Environments ----------------------------
(***************************************************************************)
(* The environments' records against what stands on the KVM hosts: the     *)
(* requests of api/environments.py (create, draft, deploy, move, destroy,   *)
(* delete), the static addresses of netpolicy.py, and the jobs that run     *)
(* OpenTofu once per host of an environment (engine/runner.py, spread.py,   *)
(* scripts/deploy.sh, scripts/destroy.sh).  Four things have to agree and   *)
(* no transaction covers them: the record, the addresses its VMs hold, the  *)
(* workspaces OpenTofu keeps and the VMs libvirt runs.                      *)
(*                                                                         *)
(* Abstractions.  A host group is one VM, named for it; every environment   *)
(* has the same home host; there is one network, and every VM is static.    *)
(* A request is one step.  An OpenTofu run is one step: of each VM it may   *)
(* leave what was there, fail at it, or be killed between the VM and its    *)
(* entry in the workspace.                                                  *)
(***************************************************************************)
EXTENDS Naturals, FiniteSets

CONSTANTS Envs, Hosts, Home, VmNames, Addresses,
          None,             \* no host, no VM, no job, no workspace
          MaxJobs,          \* how many jobs are queued in all
          MaxMoves          \* how many of them move a VM

ASSUME EnvironmentsAssumption ==
    /\ Home \in Hosts /\ IsFiniteSet(Addresses)
    /\ None \notin Hosts /\ None \notin Addresses
    /\ MaxJobs \in Nat /\ MaxMoves \in Nat

VARIABLES
    status,      \* Environment.status; "absent": there is no such record
    spec,        \* Environment.spec: the host of each VM's group (None: no such group)
    holds,       \* ip_allocations: the address of each environment's VM
    workspace,   \* OpenTofu's workspace of an environment on a host: its entry for each VM
    domain,      \* libvirt on a host: the VM of each name
    job,         \* the environment's queued or running job
    jobs, moves, \* how many were queued
    astray       \* where OpenTofu's entry and the VM may have parted, by host and name

vars == <<status, spec, holds, workspace, domain, job, jobs, moves, astray>>

Statuses  == {"absent", "new", "deploying", "deployed", "failed", "destroying", "destroyed"}
Specs     == {s \in [VmNames -> Hosts \cup {None}] : \E v \in VmNames : s[v] # None}
\* An entry is tainted when the VM's create script failed.
Entries   == [VmNames -> {"unlisted", "sound", "tainted"}]
Domains   == [env : Envs, tag : Hosts, address : Addresses]
Jobs      == [type : {"deploy", "destroy", "move"}, running : BOOLEAN, done : SUBSET Hosts,
              ok : BOOLEAN, vm : VmNames \cup {None}, to : Hosts \cup {None}]

ASSUME NoneAssumption ==
    None \notin Specs /\ None \notin Domains /\ None \notin Jobs /\ None \notin Entries

TypeOK ==
    /\ status \in [Envs -> Statuses]
    /\ spec \in [Envs -> Specs \cup {None}]
    /\ holds \in [Envs -> [VmNames -> Addresses \cup {None}]]
    /\ workspace \in [Envs -> [Hosts -> Entries \cup {None}]]
    /\ domain \in [Hosts -> [VmNames -> Domains \cup {None}]]
    /\ job \in [Envs -> Jobs \cup {None}]
    /\ jobs \in 0..MaxJobs /\ moves \in 0..MaxMoves /\ astray \subseteq Hosts \X VmNames
    /\ \A e \in Envs : status[e] = "absent" <=> spec[e] = None

NoAddresses  == [v \in VmNames |-> None]
NoWorkspaces == [h \in Hosts |-> None]

Init ==
    /\ status = [e \in Envs |-> "absent"] /\ spec = [e \in Envs |-> None]
    /\ holds = [e \in Envs |-> NoAddresses] /\ workspace = [e \in Envs |-> NoWorkspaces]
    /\ domain = [h \in Hosts |-> [v \in VmNames |-> None]]
    /\ job = [e \in Envs |-> None] /\ jobs = 0 /\ moves = 0 /\ astray = {}

Members(s)   == {v \in VmNames : s[v] # None}
PartOn(s, h) == {v \in VmNames : s[v] = h}
\* The hosts an environment has a part on: its home always, even with no group left there.
HostIds(s)   == {Home} \cup {s[v] : v \in Members(s)}

\* A draft and a destroyed environment take no name.
Taken(e, h, v) == \E o \in Envs \ {e} : status[o] \notin {"absent", "destroyed", "new"} /\ spec[o][v] = h
NamesFree(e, s) == \A v \in Members(s) : ~Taken(e, s[v], v)

\* An address no row of ip_allocations has.
FreeAddresses == Addresses \ {holds[e][v] : e \in Envs, v \in VmNames}

AllocatesOnce(e, s) ==
    {f \in [VmNames -> FreeAddresses \cup {None}] :
        \A v, w \in VmNames : /\ f[v] # None <=> v \in Members(s) /\ status[e] \in {"absent", "new"}
                              /\ v # w /\ f[v] # None => f[v] # f[w]}
\* Variant for TypeOK: only a first deploy hands out addresses.

\* Which addresses a deploy may hand out: any free one to each VM without one, each its own.
Allocations(e, s) ==
    {f \in [VmNames -> FreeAddresses \cup {holds[e][v] : v \in VmNames} \cup {None}] :
        /\ \A v \in VmNames : IF v \in Members(s) /\ holds[e][v] = None
                              THEN f[v] \in FreeAddresses ELSE f[v] = holds[e][v]
        /\ \A v, w \in VmNames : v # w /\ f[v] # None => f[v] # f[w]}

Queued(t) == [type |-> t, running |-> FALSE, done |-> {}, ok |-> TRUE, vm |-> None, to |-> None]
Busy(e)   == job[e] # None

\* _queue() of a deploy: the addresses, the job and the status in one commit.
QueueDeploy(e, s) ==
    /\ ~Busy(e) /\ jobs < MaxJobs
    /\ \E f \in Allocations(e, s) : holds' = [holds EXCEPT ![e] = f]
    /\ job' = [job EXCEPT ![e] = Queued("deploy")] /\ jobs' = jobs + 1
    /\ status' = [status EXCEPT ![e] = "deploying"]

CreateEnv(e) == \E s \in Specs :
    /\ status[e] = "absent" /\ NamesFree(e, s)
    /\ QueueDeploy(e, s)
    /\ spec' = [spec EXCEPT ![e] = s]
    /\ UNCHANGED <<workspace, domain, moves, astray>>

\* A new draft, or a draft edited: nothing but its record.
SaveDraft(e) == \E s \in Specs :
    /\ status[e] \in {"absent", "new"} /\ ~Busy(e)
    /\ status' = [status EXCEPT ![e] = "new"] /\ spec' = [spec EXCEPT ![e] = s]
    /\ UNCHANGED <<holds, workspace, domain, job, jobs, moves, astray>>

\* The names of a draft are checked, those of a destroyed environment are not.
Redeploy(e) ==
    /\ status[e] # "absent" /\ (status[e] = "new" => NamesFree(e, spec[e]))
    /\ QueueDeploy(e, spec[e])
    /\ UNCHANGED <<spec, workspace, domain, moves, astray>>

Destroy(e) ==
    /\ status[e] # "absent" /\ ~Busy(e) /\ jobs < MaxJobs
    /\ job' = [job EXCEPT ![e] = Queued("destroy")] /\ jobs' = jobs + 1
    /\ status' = [status EXCEPT ![e] = "destroying"]
    /\ UNCHANGED <<spec, holds, workspace, domain, moves, astray>>

MoveGroup(e) == \E v \in VmNames, h \in Hosts :
    /\ status[e] = "deployed" /\ ~Busy(e) /\ jobs < MaxJobs /\ moves < MaxMoves
    /\ spec[e][v] \notin {None, h} /\ ~Taken(e, h, v)
    /\ job' = [job EXCEPT ![e] = [Queued("move") EXCEPT !.vm = v, !.to = h]]
    /\ jobs' = jobs + 1 /\ moves' = moves + 1 /\ astray' = astray \cup (Hosts \X {v})
    /\ UNCHANGED <<status, spec, holds, workspace, domain>>

DeleteRecord(e) ==
    /\ status[e] \in {"destroyed", "new"} /\ ~Busy(e)
    /\ status' = [status EXCEPT ![e] = "absent"] /\ spec' = [spec EXCEPT ![e] = None]
    /\ holds' = [holds EXCEPT ![e] = NoAddresses]
    /\ UNCHANGED <<workspace, domain, job, jobs, moves, astray>>

\* A queued job is cancelled: the row ends, the environment's status stays.
CancelQueued(e) ==
    /\ Busy(e) /\ ~job[e].running /\ job' = [job EXCEPT ![e] = None]
    /\ UNCHANGED <<status, spec, holds, workspace, domain, jobs, moves, astray>>

----------------------------------------------------------------------------
(* The jobs.                                                               *)

Running(e, t) == Busy(e) /\ job[e].type = t /\ job[e].running

Claim(e) ==
    /\ Busy(e) /\ ~job[e].running
    /\ job' = [job EXCEPT ![e].running = TRUE]
    /\ UNCHANGED <<status, spec, holds, workspace, domain, jobs, moves, astray>>

\* The next host of a job: a deploy starts at home, a destroy ends there.
Left(e)     == HostIds(spec[e]) \ job[e].done
MayRun(e, h) ==
    /\ h \in Left(e)
    /\ job[e].type = "deploy"  => job[e].ok /\ (Home \in Left(e) => h = Home)
    /\ job[e].type = "destroy" => (Left(e) # {Home} => h # Home)

LastPartTells(e, h, well) ==
    job' = [job EXCEPT ![e].done = @ \cup {h}, ![e].ok = well]
\* Variant for DestroyedIsGone: the last part's exit code becomes the job's.

\* The first exit code that isn't 0 is the job's.
PartDone(e, h, well) ==
    job' = [job EXCEPT ![e].done = @ \cup {h}, ![e].ok = @ /\ well]

Entry(e, h, v) == IF workspace[e][h] = None THEN "unlisted" ELSE workspace[e][h][v]
Made(e, h, v)  == [env |-> e, tag |-> h, address |-> holds[e][v]]

Adopts(e, h, d) == d # None
\* Variant for OwnVmsOnly: a create takes any running VM of its name for its own.

\* A VM carrying this workspace's tag.
Tagged(e, h, d) == d # None /\ d.env = e /\ d.tag = h

\* What stands once an entry is removed: destroy-vm.sh removes the VM of that name, but OpenTofu runs no
\* destroy-time provisioner for a tainted entry.
Rest(e, h, v) == IF Entry(e, h, v) = "sound" THEN None ELSE domain[h][v]

\* A create keeps a running VM that is ours, makes one that isn't running anew, and refuses anyone else's.
Creates(e, h, v) ==
    IF Rest(e, h, v) = None THEN {Made(e, h, v)}
    ELSE IF Tagged(e, h, domain[h][v]) THEN {domain[h][v], Made(e, h, v)} ELSE {}

\* One that fails leaves what was there, nothing, or (an install that took too long) its VM, running.
Fails(e, h, v) == {Rest(e, h, v)} \cup Creates(e, h, v) \cup (IF Creates(e, h, v) = {} THEN {} ELSE {None})

\* What an OpenTofu run leaves of one VM: the VM, its entry, and whether the run was killed at it.
Outcome(vm, entry, killed) == [vm |-> vm, entry |-> entry, killed |-> killed]

Removal(e, h, v) ==
    {Outcome(domain[h][v], Entry(e, h, v), FALSE), Outcome(Rest(e, h, v), "unlisted", FALSE),
     Outcome(Rest(e, h, v), Entry(e, h, v), TRUE)}

Creation(e, h, v) ==
    {Outcome(d, "sound", FALSE) : d \in Creates(e, h, v)} \cup
    UNION {{Outcome(d, "tainted", FALSE), Outcome(d, Entry(e, h, v), TRUE), Outcome(d, "unlisted", TRUE)} :
              d \in Fails(e, h, v)}

\* A VM of ours that is no longer listed, since a killed run did not list it or a tainted entry was
\* dropped; an entry whose VM a killed run had removed.
Parted(e, h, v, o) ==
    \/ o.entry = "unlisted" /\ Tagged(e, h, o.vm) /\ (o.killed \/ Entry(e, h, v) = "tainted")
    \/ o.entry = "sound" /\ ~Tagged(e, h, o.vm) /\ o.killed

Outcomes(e, h, v, want) == Removal(e, h, v) \cup IF v \in want THEN Creation(e, h, v) ELSE {}

\* What a run over the host's VMs can come to, when these are the ones the environment has there.
Runs(e, h, want) == {run \in [VmNames -> UNION {Outcomes(e, h, v, want) : v \in VmNames}] :
                        \A v \in VmNames : run[v] \in Outcomes(e, h, v, want)}

Well(run, want) ==
    \A v \in VmNames : ~run[v].killed /\ run[v].entry = IF v \in want THEN "sound" ELSE "unlisted"

Applies(e, h, run) ==
    /\ domain' = [domain EXCEPT ![h] = [v \in VmNames |-> run[v].vm]]
    /\ astray' = astray \cup {<<h, v>> : v \in {w \in VmNames : Parted(e, h, w, run[w])}}

Listing(run) == [v \in VmNames |-> run[v].entry]

\* deploy.sh on one host.  OpenTofu removes what the workspace lists and the environment no longer has
\* there, or has to replace, and creates what is missing.  A VM it removes it removes by its name.
DeployPart(e) == \E h \in Hosts :
    /\ Running(e, "deploy") /\ MayRun(e, h)
    /\ \E run \in Runs(e, h, PartOn(spec[e], h)) :
         /\ Applies(e, h, run)
         /\ workspace' = [workspace EXCEPT ![e][h] = Listing(run)]
         /\ PartDone(e, h, Well(run, PartOn(spec[e], h)))
    /\ UNCHANGED <<status, spec, holds, jobs, moves>>

\* The pre-flight check, or anything before the VMs, stops the part; so does a missing workspace a destroy.
PartStops(e) == \E h \in Hosts :
    /\ Running(e, "deploy") \/ Running(e, "destroy")
    /\ MayRun(e, h) /\ PartDone(e, h, FALSE)
    /\ UNCHANGED <<status, spec, holds, workspace, domain, jobs, moves, astray>>

\* destroy.sh on one host: every VM the workspace lists, by name, then the workspace.
DestroyPart(e) == \E h \in Hosts, deleted \in BOOLEAN :
    /\ Running(e, "destroy") /\ MayRun(e, h) /\ workspace[e][h] # None
    /\ \E run \in Runs(e, h, {}) :
         /\ deleted => Well(run, {})
         /\ Applies(e, h, run)
         /\ workspace' = [workspace EXCEPT ![e][h] = IF deleted THEN None ELSE Listing(run)]
         /\ PartDone(e, h, deleted)
    /\ UNCHANGED <<status, spec, holds, jobs, moves>>

\* The live migration: the VM runs on the other host, still tagged for the first one's part.
Migrate(e) ==
    /\ Running(e, "move")
    /\ LET v == job[e].vm  src == spec[e][v]  dst == job[e].to IN
         /\ domain[src][v] # None /\ domain[dst][v] = None
         /\ domain' = [domain EXCEPT ![src][v] = None, ![dst][v] = domain[src][v]]
         /\ job' = [job EXCEPT ![e].done = {dst}]
    /\ UNCHANGED <<status, spec, holds, workspace, jobs, moves, astray>>

\* The tag, of a VM that is there (one an earlier move brought and tagged is left), then the group's
\* new host and the deploy that reconciles OpenTofu, in one commit.
MoveEnds(e) ==
    /\ Running(e, "move")
    /\ LET v == job[e].vm  dst == job[e].to IN
         /\ (dst \in job[e].done /\ domain[dst][v] # None) \/ Tagged(e, dst, domain[dst][v])
         /\ domain' = [domain EXCEPT ![dst][v] = [@ EXCEPT !.env = e, !.tag = dst]]
         /\ spec' = [spec EXCEPT ![e][v] = dst]
    /\ status' = [status EXCEPT ![e] = "deploying"]
    /\ job' = [job EXCEPT ![e] = Queued("deploy")]
    /\ UNCHANGED <<holds, workspace, jobs, moves, astray>>

\* A move that stops, at any point: the record is left as it was.
MoveStops(e) ==
    /\ Running(e, "move") /\ job' = [job EXCEPT ![e] = None]
    /\ UNCHANGED <<status, spec, holds, workspace, domain, jobs, moves, astray>>

\* Variant for AddressesAreHeld: a destroy that fails releases too.
ReleasesAnyway(e, ends) ==
    holds' = IF job[e].type = "destroy" THEN [holds EXCEPT ![e] = NoAddresses] ELSE holds

\* The rows of ip_allocations go with a destroy that ended well.
Releases(e, ends) == holds' = IF ends = "destroyed" THEN [holds EXCEPT ![e] = NoAddresses] ELSE holds

\* _finish(): the last part, Ansible's, is what a deploy can still fail by.
JobEnds(e) == \E ends \in {"deployed", "destroyed", "failed"} :
    /\ Busy(e) /\ job[e].running /\ job[e].type # "move"
    /\ ends # "failed" => job[e].ok /\ Left(e) = {}
    /\ ends = "deployed"  => job[e].type = "deploy"
    /\ ends = "destroyed" => job[e].type = "destroy"
    /\ status' = [status EXCEPT ![e] = ends]
    /\ Releases(e, ends)
    /\ job' = [job EXCEPT ![e] = None]
    /\ UNCHANGED <<spec, workspace, domain, jobs, moves, astray>>

\* The worker's process dies; recover_stale() later fails the job and its environment.
WorkerDies(e) ==
    /\ Busy(e) /\ job[e].running
    /\ status' = [status EXCEPT ![e] = "failed"] /\ job' = [job EXCEPT ![e] = None]
    /\ UNCHANGED <<spec, holds, workspace, domain, jobs, moves, astray>>

Next == \E e \in Envs :
    \/ CreateEnv(e) \/ SaveDraft(e) \/ Redeploy(e) \/ Destroy(e) \/ MoveGroup(e) \/ DeleteRecord(e)
    \/ CancelQueued(e)
    \/ Claim(e) \/ DeployPart(e) \/ PartStops(e) \/ DestroyPart(e)
    \/ Migrate(e) \/ MoveEnds(e) \/ MoveStops(e) \/ JobEnds(e) \/ WorkerDies(e)

Spec == Init /\ [][Next]_vars

----------------------------------------------------------------------------
(* What has to hold.  Three things make a VM and the entry that is to take  *)
(* care of it part: a move, which can leave a VM where no part of its       *)
(* environment looks for it, and whose name is then free where the          *)
(* workspace still lists it; an OpenTofu run that is killed between the VM  *)
(* and its entry; and a tainted entry that is dropped while its VM runs     *)
(* on.  So the first three are about the places where none of them ever     *)
(* happened, in every environment and whatever happens beside them.         *)

Gone == {"absent", "new", "destroyed"}
InStep(h, v) == <<h, v>> \notin astray

\* A VM has the address its environment holds for it and no two VMs hold the same one, also while one is
\* being destroyed, redeployed or left by a job that failed or an install that took too long; and an
\* environment without VMs gives its addresses back to the pool (netpolicy.allocate, runner._finish,
\* envdelete.delete).
AddressesAreHeld ==
    /\ \A h \in Hosts, v \in VmNames : InStep(h, v) /\ domain[h][v] # None =>
           holds[domain[h][v].env][v] = domain[h][v].address
    /\ \A d, e \in Envs, v, w \in VmNames : holds[d][v] # None /\ holds[d][v] = holds[e][w] => d = e /\ v = w
    /\ \A e \in Envs : status[e] \in Gone => holds[e] = NoAddresses

\* A destroy that ended well left no VM on any host, and neither a record nor a draft hides one
\* (engine/envdelete.py: "destroy it first, so no VM is left behind").
DestroyedIsGone ==
    \A h \in Hosts, v \in VmNames : InStep(h, v) /\ domain[h][v] # None => status[domain[h][v].env] \notin Gone

\* A job changes no VM of another environment, whatever names they share
\* (lib/existing-domain.sh: "only a VM carrying this workspace's tag is treated as ours").
OwnVmsOnly == [][\A e \in Envs : job'[e] # job[e] =>
    \A h \in Hosts, v \in VmNames :
        InStep(h, v) /\ domain[h][v] # None /\ domain[h][v].env # e => domain'[h][v] = domain[h][v]]_vars

----------------------------------------------------------------------------
(* Why it holds: the conjuncts of the inductive invariant.                  *)

\* A VM runs on the host it is tagged for, and the workspace of its environment there lists it; what a
\* workspace lists the record has there, and where it is not tainted its own VM stands.
ListedIsOurs ==
    \A h \in Hosts, v \in VmNames : InStep(h, v) =>
        /\ domain[h][v] # None => domain[h][v].tag = h /\ Entry(domain[h][v].env, h, v) # "unlisted"
        /\ \A e \in Envs : Entry(e, h, v) = "sound" => Tagged(e, h, domain[h][v])
        /\ \A e \in Envs : Entry(e, h, v) # "unlisted" => spec[e][v] = h /\ status[e] \notin Gone

\* A job belongs to a record with VMs; what a move moves is one of them, to another host.
JobsFit ==
    \A e \in Envs : Busy(e) =>
        /\ status[e] \notin Gone
        /\ job[e].type = "move" =>
             /\ status[e] = "deployed" /\ job[e].vm \in VmNames /\ job[e].to \in Hosts
             /\ \A h \in Hosts : ~InStep(h, job[e].vm)
             /\ spec[e][job[e].vm] \notin {None, job[e].to}

\* A deploy, and what it made, has an address for each VM.
AddressesGiven ==
    \A e \in Envs : status[e] = "deployed" \/ (Busy(e) /\ job[e].type = "deploy") =>
        \A v \in Members(spec[e]) : holds[e][v] # None

\* The parts a destroy has done are gone as long as it goes well.
DestroyedParts ==
    \A e \in Envs : Busy(e) /\ job[e].type = "destroy" /\ job[e].ok =>
        \A h \in job[e].done : workspace[e][h] = None

IInv == TypeOK /\ AddressesAreHeld /\ DestroyedIsGone /\ ListedIsOurs /\ JobsFit /\ AddressesGiven /\ DestroyedParts
=============================================================================
