------------------------------ MODULE JobQueue ------------------------------
(***************************************************************************)
(* The job queue of the LABaPe worker: the `jobs` table, the status of the  *)
(* environments the jobs act on, the API handlers that insert and cancel    *)
(* jobs, and the worker processes that claim them, run them in threads and  *)
(* fail the ones whose heartbeats stop (app/labape/engine/runner.py,        *)
(* app/labape/api/jobs.py, and the queueing half of api/environments.py     *)
(* and api/hosts.py).                                                       *)
(*                                                                          *)
(* One action is one database transaction or one thread step.  PostgreSQL   *)
(* runs READ COMMITTED, so an API handler that reads, decides and writes is *)
(* two actions with everybody else's steps between them; claim() holds an   *)
(* advisory lock and is one.                                                *)
(***************************************************************************)
EXTENDS Integers, FiniteSets

CONSTANTS
    Envs,        \* environments
    Hosts,       \* KVM hosts
    Workers,     \* worker processes (containers running serve())
    Requests,    \* API request handlers that can be in flight together
    NoEnv, NoHost, NoWorker,   \* the null of environment_id, kvm_host_id and worker
    HomeOf,      \* HomeOf[e]: Environment.kvm_host_id
    Offered,     \* the job types requested in this instance
    HostRows,    \* the (limit, enabled) pairs an admin gives a host
    Slots,       \* LABAPE_WORKER_SLOTS
    MaxJobs,     \* bound: job rows ever inserted
    MaxCrashes,  \* bound: worker processes killed
    MaxPauses    \* bound: times maintenance is turned on

(* The types modelled, by how run() treats them. *)
DeployJob  == "environment.deploy"
DestroyJob == "environment.destroy"
ReadOnlyTypes == {"environment.plan", "environment.refresh_addresses"}
EngineTypes == {DeployJob, DestroyJob} \cup ReadOnlyTypes
MoveJob    == "environment.move"
VmTypes    == {"environment.power", "vm.snapshot", MoveJob}
RotateJob  == "secret.rotate"
EnvTypes   == EngineTypes \cup VmTypes \cup {RotateJob}
RebootJob  == "host.reboot"
HOST_OWN_JOBS == {"host.install", "host.update", RebootJob}
JobTypes   == EnvTypes \cup HOST_OWN_JOBS

(* The worker-run types whose code calls beat() while it works. *)
BeatingTypes == {"environment.power"} \cup HOST_OWN_JOBS

JobIds   == 1 .. MaxJobs
FINISHED == {"succeeded", "failed", "cancelled"}
States   == {"absent", "queued", "running"} \cup FINISHED
Statuses == {"new", "deploying", "deployed", "failed", "destroying", "destroyed"}

ASSUME ConstantsAssumption ==
    /\ MaxJobs \in Nat /\ MaxCrashes \in Nat /\ MaxPauses \in Nat
    /\ Slots \in Nat \ {0}
    /\ NoEnv \notin Envs /\ NoHost \notin Hosts /\ NoWorker \notin Workers
    /\ HomeOf \in [Envs -> Hosts]
    /\ Offered \subseteq JobTypes
    /\ HostRows \subseteq [limit : Nat, enabled : BOOLEAN] /\ HostRows # {}

VARIABLES
    jobs,      \* the table: a row per id, state "absent" until it is inserted
    lastId,    \* the newest id
    status,    \* Environment.status
    hosts,     \* KvmHost.concurrency_limit and enabled
    stale,     \* running rows whose heartbeat_at is older than STALE_AFTER
    phase,     \* phase[j]: where the thread running job j is
    loop,      \* serve(): down, idle, or committed to a claim
    req,       \* an API handler between its reads and its commit
    paused,    \* maintenance mode
    crashes, pauses

vars == <<jobs, lastId, status, hosts, stale, phase, loop, req, paused, crashes, pauses>>

Row == [type : JobTypes, env : Envs \cup {NoEnv}, host : Hosts \cup {NoHost},
        state : States, cancel : BOOLEAN, worker : Workers \cup {NoWorker}]

(* `none`: no thread.  An engine job is preparing (and copying files to its *)
(* host), in its script, or pulling results back; a job the worker runs     *)
(* itself works; a reboot waits, then the host is down.  `ok` and `bad`:    *)
(* the exit code is known and _finish() is next.                            *)
Phases == {"none", "prepare", "script", "pull", "work", "wait", "down", "ok", "bad"}

(* `starting`: maintenance is on and the API still answers from a copy of   *)
(* the row, up to CACHE_SECONDS old, that says off.                         *)
Modes == {"off", "starting", "on"}

Idle == [op |-> "idle"]
ReqStates == {Idle}
             \cup [op : {"insert"}, row : Row, status : Statuses \cup {"keep"}]
             \cup [op : {"cancel"}, job : JobIds, saw : {"queued", "running"}]

TypeOK ==
    /\ jobs \in [JobIds -> Row]
    /\ lastId \in 0 .. MaxJobs
    /\ status \in [Envs -> Statuses]
    /\ hosts \in [Hosts -> HostRows]
    /\ stale \in SUBSET JobIds
    /\ phase \in [JobIds -> Phases]
    /\ loop \in [Workers -> {"down", "idle", "claim"}]
    /\ req \in [Requests -> ReqStates]
    /\ paused \in Modes
    /\ crashes \in 0 .. MaxCrashes
    /\ pauses \in 0 .. MaxPauses

-----------------------------------------------------------------------------
(* Questions asked of the table. *)

Queued(j)   == jobs[j].state = "queued"
Running(j)  == jobs[j].state = "running"
Live(j)     == phase[j] # "none"
Busy(e)     == \E j \in JobIds : jobs[j].env = e /\ jobs[j].state \in {"queued", "running"}
EnvRunning(e)  == \E j \in JobIds : Running(j) /\ jobs[j].env = e
RunningOn(h)   == {j \in JobIds : Running(j) /\ jobs[j].host = h}
RebootIgnored(h) == FALSE    \* variant for RebootAlone: claim() forgets H2
Rebooting(h)   == \E j \in RunningOn(h) : jobs[j].type = RebootJob
Active(w)      == {j \in JobIds : Live(j) /\ jobs[j].worker = w}
Limit(h)       == IF hosts[h].limit > 1 THEN hosts[h].limit ELSE 1

(* The thread refreshes heartbeat_at at least every few seconds. *)
Beating(j) == phase[j] = "script" \/ (Live(j) /\ jobs[j].type \in BeatingTypes)

(* The thread is using the environment's engine directory. *)
InEngineDir(j) == phase[j] \in {"prepare", "script", "pull"}

NewRow(t, e, h) == [type |-> t, env |-> e, host |-> h, state |-> "queued",
                    cancel |-> FALSE, worker |-> NoWorker]

NoRow == [NewRow(DeployJob, NoEnv, NoHost) EXCEPT !.state = "absent"]

Init ==
    /\ jobs = [j \in JobIds |-> NoRow]
    /\ lastId = 0
    /\ status \in [Envs -> {"new", "deployed"}]
    /\ hosts \in [Hosts -> HostRows]
    /\ stale = {}
    /\ phase = [j \in JobIds |-> "none"]
    /\ loop = [w \in Workers |-> "idle"]
    /\ req = [r \in Requests |-> Idle]
    /\ paused = "off"
    /\ crashes = 0 /\ pauses = 0

-----------------------------------------------------------------------------
(* The API.  The check and the commit of one request are two actions; in    *)
(* maintenance every write but a cancel is refused as it comes in.          *)

(* What each endpoint asks of the environment's status, and what _queue     *)
(* sets it to (a session writes a column only when the value it read        *)
(* changes).                                                                *)
Admits(t, s) ==
    CASE t \in {DeployJob, DestroyJob} -> TRUE
      [] t = "environment.plan"        -> s \in {"deployed", "failed"}
      [] OTHER                         -> s = "deployed"
Sets(t, s) ==
    LET new == CASE t = DeployJob  -> "deploying"
                 [] t = DestroyJob -> "destroying"
                 [] OTHER          -> "keep"
    IN  IF new = s THEN "keep" ELSE new

Begin(r, row, s) ==
    /\ req[r] = Idle /\ paused # "on"
    /\ lastId < MaxJobs
    /\ req' = [req EXCEPT ![r] = [op |-> "insert", row |-> row, status |-> s]]
    /\ UNCHANGED <<jobs, lastId, status, hosts, stale, phase, loop, paused, crashes, pauses>>

(* Deploy, destroy, plan, refresh, power, snapshot and move are refused     *)
(* while the environment has a queued or running job; a rotation is not.    *)
(* A rotation has no KVM host, a move the one it moves to.                  *)
QueueEnvJob(r, e, t, h) ==
    /\ t \in Offered \cap EnvTypes
    /\ h \in CASE t = RotateJob -> {NoHost} [] t = MoveJob -> Hosts [] OTHER -> {HomeOf[e]}
    /\ Admits(t, status[e])
    /\ t # RotateJob => ~Busy(e)
    /\ Begin(r, NewRow(t, e, h), Sets(t, status[e]))

(* One update or reboot per host at a time, and one install. *)
QueueHostJob(r, h, t) ==
    /\ t \in Offered \cap HOST_OWN_JOBS
    /\ LET kin == IF t = "host.install" THEN {t} ELSE {"host.update", RebootJob}
       IN  ~\E j \in JobIds : /\ jobs[j].host = h /\ jobs[j].type \in kin
                              /\ jobs[j].state \in {"queued", "running"}
    /\ Begin(r, NewRow(t, NoEnv, h), "keep")

Retry(r, j) ==
    /\ jobs[j].state \in {"failed", "cancelled"}
    /\ jobs[j].env # NoEnv => ~Busy(jobs[j].env)
    /\ Begin(r, NewRow(jobs[j].type, jobs[j].env, jobs[j].host), "keep")

CommitInsert(r) ==
    /\ req[r].op = "insert"
    /\ lastId < MaxJobs
    /\ lastId' = lastId + 1
    /\ jobs' = [jobs EXCEPT ![lastId + 1] = req[r].row]
    /\ status' = [e \in Envs |-> IF e = req[r].row.env /\ req[r].status # "keep"
                                 THEN req[r].status ELSE status[e]]
    /\ req' = [req EXCEPT ![r] = Idle]
    /\ UNCHANGED <<hosts, stale, phase, loop, paused, crashes, pauses>>

CancelRead(r, j) ==
    /\ req[r] = Idle
    /\ jobs[j].state \in {"queued", "running"}
    /\ req' = [req EXCEPT ![r] = [op |-> "cancel", job |-> j, saw |-> jobs[j].state]]
    /\ UNCHANGED <<jobs, lastId, status, hosts, stale, phase, loop, paused, crashes, pauses>>

(* The row is written by its id, whatever became of it since it was read. *)
CancelCommit(r) ==
    /\ req[r].op = "cancel"
    /\ LET j == req[r].job
           gone == req[r].saw = "queued"
       IN  /\ jobs' = [jobs EXCEPT ![j].cancel = TRUE,
                                   ![j].state = IF gone THEN "cancelled" ELSE @]
           /\ stale' = IF gone THEN stale \ {j} ELSE stale
    /\ req' = [req EXCEPT ![r] = Idle]
    /\ UNCHANGED <<lastId, status, hosts, phase, loop, paused, crashes, pauses>>

SetHost(h, row) ==
    /\ hosts[h] # row /\ paused # "on"
    /\ hosts' = [hosts EXCEPT ![h] = row]
    /\ UNCHANGED <<jobs, lastId, status, stale, phase, loop, req, paused, crashes, pauses>>

(* An admin, a schedule the worker starts, the update agent, a rotation: in *)
(* the API's own process the copy goes with it, in another it grows old.    *)
TurnOn ==
    /\ paused = "off" /\ pauses < MaxPauses
    /\ paused' \in {"starting", "on"} /\ pauses' = pauses + 1
    /\ UNCHANGED <<jobs, lastId, status, hosts, stale, phase, loop, req, crashes>>

CacheEnds ==
    /\ paused = "starting" /\ paused' = "on"
    /\ UNCHANGED <<jobs, lastId, status, hosts, stale, phase, loop, req, crashes, pauses>>

TurnOff ==
    /\ paused # "off" /\ paused' = "off"
    /\ UNCHANGED <<jobs, lastId, status, hosts, stale, phase, loop, req, crashes, pauses>>

-----------------------------------------------------------------------------
(* The worker's loop: serve(). *)

(* serve() reads the maintenance row in a session of its own, then claims. *)
ReadMaintenance(w) ==
    /\ loop[w] = "idle"
    /\ paused = "off"
    /\ Cardinality(Active(w)) < Slots
    /\ loop' = [loop EXCEPT ![w] = "claim"]
    /\ UNCHANGED <<jobs, lastId, status, hosts, stale, phase, req, paused, crashes, pauses>>

EnvLets(j) == jobs[j].env # NoEnv => ~EnvRunning(jobs[j].env)
HostLets(j, n) ==
    jobs[j].host # NoHost =>
        LET h == jobs[j].host
        IN  /\ hosts[h].enabled \/ jobs[j].type \in HOST_OWN_JOBS
            /\ Cardinality(RunningOn(h)) < n
            /\ ~Rebooting(h)

(* Variants of Runnable: the environment is not looked at                 *)
(* (SharedOnlyAfterLoss), a queued job blocks its own environment         *)
(* (QueuedStarts), the limit is passed by one (LimitKept).                *)
RunnableAnyEnv(j)  == Queued(j) /\ HostLets(j, Limit(jobs[j].host))
RunnableBusyEnv(j) == Queued(j) /\ ~Busy(jobs[j].env) /\ HostLets(j, Limit(jobs[j].host))
RunnableOneOver(j) == Queued(j) /\ EnvLets(j) /\ HostLets(j, Limit(jobs[j].host) + 1)

Runnable(j) == Queued(j) /\ EnvLets(j) /\ HostLets(j, Limit(jobs[j].host))

FirstPhase(t) == IF t \in EngineTypes THEN "prepare"
                 ELSE IF t = RebootJob THEN "wait" ELSE "work"

Take(w, j) == /\ jobs' = [jobs EXCEPT ![j].state = "running", ![j].worker = w]
              /\ phase' = [phase EXCEPT ![j] = FirstPhase(jobs[j].type)]

(* claim(): the oldest runnable queued job, and the thread that runs it. *)
Claim(w) ==
    /\ loop[w] = "claim"
    /\ loop' = [loop EXCEPT ![w] = "idle"]
    /\ \/ /\ ~\E j \in JobIds : Runnable(j)
          /\ UNCHANGED <<jobs, phase>>
       \/ \E j \in JobIds :
             /\ Runnable(j)
             /\ \A k \in JobIds : Runnable(k) => j <= k
             /\ Take(w, j)
    /\ UNCHANGED <<lastId, status, hosts, stale, req, paused, crashes, pauses>>

(* Two minutes without a heartbeat: the thread is gone, or in a step that   *)
(* does not beat.                                                           *)
GoStale(j) ==
    /\ Running(j) /\ j \notin stale /\ ~Beating(j)
    /\ stale' = stale \cup {j}
    /\ UNCHANGED <<jobs, lastId, status, hosts, phase, loop, req, paused, crashes, pauses>>

(* Variant for TakesTurns: the rows go back to the queue. *)
Requeue(lost) ==
    /\ lost # {}
    /\ jobs' = [j \in JobIds |-> IF j \in lost THEN [jobs[j] EXCEPT !.state = "queued"]
                                 ELSE jobs[j]]
    /\ stale' = stale \ lost
    /\ UNCHANGED <<lastId, status, hosts, phase, loop, req, paused, crashes, pauses>>

Fail(lost) ==
    /\ lost # {}
    /\ jobs' = [j \in JobIds |-> IF j \in lost THEN [jobs[j] EXCEPT !.state = "failed"]
                                 ELSE jobs[j]]
    /\ status' = [e \in Envs |-> IF \E j \in lost : jobs[j].env = e
                                 THEN "failed" ELSE status[e]]
    /\ stale' = stale \ lost
    /\ UNCHANGED <<lastId, hosts, phase, loop, req, paused, crashes, pauses>>

(* Variant for RunningEnds: a worker leaves alone the rows that carry its   *)
(* own name, which a restarted container has again.                         *)
RecoverOthers(w) == loop[w] = "idle" /\ Fail({j \in stale : jobs[j].worker # w})

(* recover_stale(): every stale running row, and its environment. *)
RecoverStale(w) == loop[w] = "idle" /\ Fail(stale)

WorkerDies(w) ==
    /\ loop[w] # "down" /\ crashes < MaxCrashes
    /\ crashes' = crashes + 1
    /\ loop' = [loop EXCEPT ![w] = "down"]
    /\ phase' = [j \in JobIds |-> IF j \in Active(w) THEN "none" ELSE phase[j]]
    /\ UNCHANGED <<jobs, lastId, status, hosts, stale, req, paused, pauses>>

WorkerStarts(w) ==
    /\ loop[w] = "down"
    /\ loop' = [loop EXCEPT ![w] = "idle"]
    /\ UNCHANGED <<jobs, lastId, status, hosts, stale, phase, req, paused, crashes, pauses>>

-----------------------------------------------------------------------------
(* The thread of one job: run(), _execute(), and the jobs run in-process. *)

MoveTo(j, p) == /\ phase' = [phase EXCEPT ![j] = p]
                /\ UNCHANGED <<jobs, lastId, status, hosts, loop, req, paused, crashes, pauses>>

(* The directory is filled and the files it needs are copied to the host,   *)
(* without a heartbeat; then the script starts and its poll loop beats.     *)
Prepared(j) ==
    /\ phase[j] = "prepare"
    /\ \/ MoveTo(j, "script") /\ stale' = stale \ {j}
       \/ MoveTo(j, "bad") /\ UNCHANGED stale

ScriptEnds(j) == phase[j] = "script" /\ MoveTo(j, "pull") /\ UNCHANGED stale

(* The results are copied back; a cancel seen after the part fails the job. *)
Pulled(j) ==
    /\ phase[j] = "pull"
    /\ \/ MoveTo(j, "bad")
       \/ ~jobs[j].cancel /\ MoveTo(j, "ok")
    /\ UNCHANGED stale

WorkEnds(j) == /\ phase[j] = "work"
               /\ \/ jobs[j].type # MoveJob /\ MoveTo(j, "ok")
                  \/ MoveTo(j, "bad")
               /\ UNCHANGED stale

(* A finished move queues the deploy that reconciles it. *)
Moved(j) ==
    /\ phase[j] = "work" /\ jobs[j].type = MoveJob
    /\ lastId < MaxJobs
    /\ LET e == jobs[j].env
       IN  /\ jobs' = [jobs EXCEPT ![lastId + 1] = NewRow(DeployJob, e, HomeOf[e])]
           /\ status' = [status EXCEPT ![e] = "deploying"]
    /\ lastId' = lastId + 1
    /\ phase' = [phase EXCEPT ![j] = "ok"]
    /\ UNCHANGED <<hosts, stale, loop, req, paused, crashes, pauses>>

(* run_reboot(): no other running row on the host, then the shutdown. *)
RebootGoes(j) ==
    /\ phase[j] = "wait"
    /\ RunningOn(jobs[j].host) \subseteq {j}
    /\ MoveTo(j, "down") /\ UNCHANGED stale

(* Cancelled, twelve hours of waiting, or the shutdown was refused. *)
RebootGivesUp(j) == phase[j] = "wait" /\ MoveTo(j, "bad") /\ UNCHANGED stale

RebootEnds(j) == /\ phase[j] = "down"
                 /\ \E p \in {"ok", "bad"} : MoveTo(j, p)
                 /\ UNCHANGED stale

Outcome(j) == IF phase[j] = "ok" THEN "succeeded"
              ELSE IF jobs[j].cancel THEN "cancelled" ELSE "failed"

(* Variant for TypeOK: the job's state written as the environment's status. *)
StatusIsOutcome(j, s) == Outcome(j)

(* The environment's status after _finish(): only deploy and destroy set it. *)
StatusAfter(j, s) ==
    CASE jobs[j].type \notin {DeployJob, DestroyJob} -> s
      [] Outcome(j) # "succeeded"                    -> "failed"
      [] jobs[j].type = DeployJob                    -> "deployed"
      [] OTHER                                       -> "destroyed"

(* _finish() writes the row and the status whatever they are by now. *)
Finish(j) ==
    /\ phase[j] \in {"ok", "bad"}
    /\ jobs' = [jobs EXCEPT ![j].state = Outcome(j)]
    /\ status' = [e \in Envs |-> IF e = jobs[j].env THEN StatusAfter(j, status[e]) ELSE status[e]]
    /\ phase' = [phase EXCEPT ![j] = "none"]
    /\ stale' = stale \ {j}
    /\ UNCHANGED <<lastId, hosts, loop, req, paused, crashes, pauses>>

(* _run_safely(): an exception out of run() fails the row, not the status. *)
RunnerError(j) ==
    /\ Live(j)
    /\ jobs' = [jobs EXCEPT ![j].state = IF @ = "running" THEN "failed" ELSE @]
    /\ phase' = [phase EXCEPT ![j] = "none"]
    /\ stale' = stale \ {j}
    /\ UNCHANGED <<lastId, status, hosts, loop, req, paused, crashes, pauses>>

-----------------------------------------------------------------------------
ApiStep(r) ==
    \/ \E e \in Envs, t \in EnvTypes, h \in Hosts \cup {NoHost} : QueueEnvJob(r, e, t, h)
    \/ \E h \in Hosts, t \in HOST_OWN_JOBS : QueueHostJob(r, h, t)
    \/ \E j \in JobIds : Retry(r, j) \/ CancelRead(r, j)
    \/ CommitInsert(r) \/ CancelCommit(r)

AdminStep == \/ \E h \in Hosts, row \in HostRows : SetHost(h, row)
             \/ TurnOn \/ CacheEnds \/ TurnOff

WorkerStep(w) == \/ ReadMaintenance(w) \/ Claim(w) \/ RecoverStale(w)
                 \/ WorkerDies(w) \/ WorkerStarts(w)

(* What a thread does next when nothing kills it. *)
Progress(j) == \/ Prepared(j) \/ ScriptEnds(j) \/ Pulled(j) \/ WorkEnds(j) \/ Moved(j)
               \/ RebootGoes(j) \/ RebootGivesUp(j) \/ RebootEnds(j) \/ Finish(j)

ThreadStep(j) == Progress(j) \/ RunnerError(j) \/ GoStale(j)

Next == \/ \E r \in Requests : ApiStep(r)
        \/ AdminStep
        \/ \E w \in Workers : WorkerStep(w)
        \/ \E j \in JobIds : ThreadStep(j)

Spec == Init /\ [][Next]_vars

(* What the deployment gives: the loop goes round, a killed container is    *)
(* restarted, threads get on, handlers answer, and two minutes pass for a   *)
(* row nobody beats.  Nobody has to queue, cancel, or end maintenance.      *)
Fairness ==
    /\ \A w \in Workers : /\ WF_vars(ReadMaintenance(w)) /\ WF_vars(Claim(w))
                          /\ SF_vars(RecoverStale(w)) /\ WF_vars(WorkerStarts(w))
    /\ \A j \in JobIds : WF_vars(Progress(j)) /\ WF_vars(~Live(j) /\ GoStale(j))
    /\ \A r \in Requests : WF_vars(CommitInsert(r)) /\ WF_vars(CancelCommit(r))

FairSpec == Spec /\ Fairness
-----------------------------------------------------------------------------
(* Safety. *)

(* At most one row per environment is running: what claim() keeps across    *)
(* all workers, whatever the API inserted (runner.py claim, "One job per    *)
(* environment at a time").                                                 *)
OneRunningPerEnv ==
    \A i, j \in JobIds :
        Running(i) /\ Running(j) /\ jobs[i].env = jobs[j].env /\ jobs[i].env # NoEnv => i = j

(* While a host goes down for a reboot job that still has its row, no other *)
(* row is running on that host (run_reboot waits, claim skips the host).    *)
RebootAlone ==
    \A j \in JobIds : phase[j] = "down" /\ Running(j) => RunningOn(jobs[j].host) = {j}

(* A job cancelled before it was claimed is not claimed later: no queued    *)
(* row carries a cancel request (api/jobs.py cancel, runner.py claim).      *)
QueuedNotCancelled == \A j \in JobIds : Queued(j) => ~jobs[j].cancel

(* Two threads are in one engine directory only when one of them goes on    *)
(* for a row that recovery failed, or that a cancel overwrote, under it.    *)
LostRow(j) == jobs[j].state = "failed" \/ (jobs[j].state = "cancelled" /\ jobs[j].cancel)
SharedOnlyAfterLoss ==
    \A i, j \in JobIds :
        InEngineDir(i) /\ InEngineDir(j) /\ i # j /\ jobs[i].env = jobs[j].env /\ jobs[i].env # NoEnv
            => LostRow(i) \/ LostRow(j)

(* The inductive invariant: what the four invariants above rest on. *)

(* Ids above the newest have no row, no thread and no heartbeat. *)
AbsentRows == \A j \in JobIds : /\ jobs[j].state = "absent" <=> j > lastId
                                /\ j > lastId => phase[j] = "none"

(* A thread belongs to a row it was claimed for, or to a row it lost. *)
LiveRows == \A j \in JobIds : Live(j) => Running(j) \/ LostRow(j)

StaleRows == \A j \in stale : Running(j)

(* A host's own job names its host and no environment, a move its           *)
(* environment; only a reboot waits and goes down.                          *)
Targeted(row) == /\ row.type \in HOST_OWN_JOBS => row.host \in Hosts /\ row.env = NoEnv
                 /\ row.type = MoveJob => row.env \in Envs
RebootRows ==
    \A j \in JobIds : /\ Targeted(jobs[j])
                      /\ phase[j] \in {"wait", "down"} => jobs[j].type = RebootJob

PendingRequest(r) ==
    /\ req[r].op = "insert" =>
          /\ req[r].row.state = "queued" /\ ~req[r].row.cancel /\ Targeted(req[r].row)
    /\ req[r].op = "cancel" =>
          /\ req[r].job <= lastId
          /\ req[r].saw = "running" => ~Queued(req[r].job)
PendingRequests == \A r \in Requests : PendingRequest(r)

IInv == /\ TypeOK /\ AbsentRows /\ LiveRows /\ StaleRows /\ RebootRows /\ PendingRequests
        /\ OneRunningPerEnv /\ RebootAlone /\ QueuedNotCancelled

(* No step takes the running rows of a host above its concurrency limit     *)
(* (which an admin may lower under running jobs).                           *)
StepKeepsLimits ==
    \A h \in Hosts :
       (RunningOn(h))' \subseteq RunningOn(h) \/ Cardinality((RunningOn(h))') <= Limit(h)
LimitKept == [][StepKeepsLimits]_vars

(* Nothing is claimed for a host that is waiting to reboot, or that is not  *)
(* enabled unless it is the host's own job.                                 *)
StepStartsOnOpenHost ==
    \A j \in JobIds : Queued(j) /\ (Running(j))' /\ jobs[j].host # NoHost =>
       /\ ~Rebooting(jobs[j].host)
       /\ hosts[jobs[j].host].enabled \/ jobs[j].type \in HOST_OWN_JOBS
HostMayStart == [][StepStartsOnOpenHost]_vars

(* "Claim the oldest runnable queued job": among the queued jobs of one     *)
(* environment and one host, ids are claimed in order.                      *)
StepStartsOldest ==
    \A i, j \in JobIds :
       /\ i < j /\ Queued(i) /\ Queued(j)
       /\ jobs[i].env = jobs[j].env /\ jobs[i].env # NoEnv /\ jobs[i].host = jobs[j].host
       => ~(Running(j))'
InOrder == [][StepStartsOldest]_vars

(* Liveness. *)

(* A running row does not stay running: its thread finishes it, or its      *)
(* heartbeats stop and recovery fails it, so no environment is busy for     *)
(* ever because a worker died.                                              *)
RunningEnds == \A j \in JobIds : Running(j) ~> ~Running(j)

(* A queued job is claimed or cancelled, unless maintenance is on or its    *)
(* host is not enabled.                                                     *)
QueuedStarts ==
    \A j \in JobIds :
        Queued(j) ~> \/ ~Queued(j)
                     \/ paused # "off"
                     \/ jobs[j].host # NoHost /\ ~hosts[jobs[j].host].enabled
=============================================================================
