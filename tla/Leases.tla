------------------------------- MODULE Leases -------------------------------
(***************************************************************************)
(* The lease of one environment (app/labape/leases.py): the rounds of the   *)
(* worker that remind, shut down and destroy, the requests that extend the  *)
(* lease or queue a job (api/environments.py), and what the jobs leave.     *)
(* Environments share nothing here.  A round reads every leased environment *)
(* first and then goes through its copies, so a request may commit between  *)
(* the read and the write of one environment; a session writes only the     *)
(* columns whose value differs from what it read.                           *)
(*                                                                          *)
(* Of the job queue this module takes what JobQueue establishes: a job is   *)
(* pending, its environment's jobs end in turn, and then it is over.        *)
(***************************************************************************)
EXTENDS Integers, FiniteSets

CONSTANTS
    Workers,      \* worker processes, each with its own rounds
    Requests,     \* API handlers that can be in flight together
    Never,        \* no date: expires_at or a mark that is null
    RemindDays,   \* LeaseSettings.remind_days
    GraceDays,    \* LeaseSettings.grace_days
    DefaultDays,  \* LeaseSettings.default_days
    LongestDays,  \* LeaseSettings.max_days
    Extensions,   \* the days an owner or an admin asks for
    LastDay,      \* bound: the clock
    MaxAsks,      \* bound: requests that are begun
    MaxJobs       \* bound: jobs ever queued for the environment

JobIds   == 1 .. MaxJobs
Kinds    == {"shutdown", "power", "deploy", "destroy"}
Statuses == {"new", "deploying", "deployed", "failed", "destroying", "destroyed"}
Dates    == Nat \cup {Never}
Policies == [enabled : BOOLEAN, destroy : BOOLEAN]   \* after_grace: destroy or keep

ASSUME LeaseAssumption ==
    /\ GraceDays \in Nat /\ DefaultDays \in Nat \ {0} /\ LongestDays \in Nat
    /\ RemindDays \subseteq Nat \ {0} /\ Extensions \subseteq Nat \ {0}
    /\ LastDay \in Nat /\ MaxAsks \in Nat /\ MaxJobs \in Nat
    /\ Never \notin Nat

VARIABLES
    now,       \* days, since the model began
    policy,    \* Settings > Environment leases
    status,    \* Environment.status
    expires,   \* Environment.expires_at
    lease,     \* Environment.lease_state
    jobs,      \* the environment's jobs
    lastId,
    round,     \* round[w]: the copy tick() works on
    req,       \* a handler between its reads and its commit
    asks

vars == <<now, policy, status, expires, lease, jobs, lastId, round, req, asks>>

Marks == [reminded : SUBSET RemindDays, stopped : Dates, destroy : BOOLEAN]
Unmarked == [reminded |-> {}, stopped |-> Never, destroy |-> FALSE]

(* A round holds the time it took, after_grace, and its copy of the row. *)
Copy == [at : {"act", "stop", "destroy"}, now : Nat, destroy : BOOLEAN,
         expires : Nat, lease : Marks]
Between == [at |-> "between"]

(* A request holds what it read and what it will write: `fresh`, a new end  *)
(* and no marks.                                                            *)
Idle == [op |-> "idle"]
Asked == [op : {"lease", "deploy", "destroy", "power"}, fresh : BOOLEAN, expires : Dates,
          sawExpires : Dates, sawMarks : BOOLEAN, sawStatus : Statuses]

TypeOK ==
    /\ now \in Nat /\ policy \in Policies
    /\ status \in Statuses /\ expires \in Dates /\ lease \in Marks
    /\ jobs \in [JobIds -> [kind : Kinds, by : {"lease", "owner"},
                            state : {"absent", "pending", "over"}]]
    /\ lastId \in 0 .. MaxJobs
    /\ round \in [Workers -> {Between} \cup Copy]
    /\ req \in [Requests -> {Idle} \cup Asked]
    /\ asks \in 0 .. MaxAsks

Pending(j) == jobs[j].state = "pending"
BusyOnce == \E j \in JobIds : jobs[j].state # "absent"   \* variant for LeaseEnds
Busy == \E j \in JobIds : Pending(j)
ByLease(j, kind) == j <= lastId /\ jobs[j].kind = kind /\ jobs[j].by = "lease"

NoJob == [kind |-> "power", by |-> "owner", state |-> "absent"]
Queue(kind, by) ==
    /\ lastId < MaxJobs
    /\ lastId' = lastId + 1
    /\ jobs' = [jobs EXCEPT ![lastId + 1] = [kind |-> kind, by |-> by, state |-> "pending"]]

DefaultExpiry == IF policy.enabled THEN now + DefaultDays ELSE Never

(* A draft, or an environment deployed with or without a lease. *)
Init ==
    /\ now = 0
    /\ policy \in Policies
    /\ status \in {"new", "deployed"}
    /\ expires \in {Never, DefaultDays}
    /\ lease = Unmarked
    /\ jobs = [j \in JobIds |-> NoJob] /\ lastId = 0
    /\ round = [w \in Workers |-> Between]
    /\ req = [r \in Requests |-> Idle]
    /\ asks = 0

-----------------------------------------------------------------------------
Day == /\ now < LastDay /\ now' = now + 1
       /\ UNCHANGED <<policy, status, expires, lease, jobs, lastId, round, req, asks>>

SetPolicy == /\ asks < MaxAsks /\ asks' = asks + 1
             /\ policy' \in Policies \ {policy}
             /\ UNCHANGED <<now, status, expires, lease, jobs, lastId, round, req>>

(* Requests.  Each reads and checks, then commits. *)

Ask(r, what) == /\ req[r] = Idle /\ asks < MaxAsks
                /\ req' = [req EXCEPT ![r] = what]
                /\ asks' = asks + 1
                /\ UNCHANGED <<now, policy, status, expires, lease, jobs, lastId, round>>

Later(a, b) == IF a > b THEN a ELSE b
Extended(days) == Later(now, IF expires = Never THEN now ELSE expires) + days

(* Owners add days up to the longest lease; admins set any later end, or none. *)
Ends(admin) == {end \in {Extended(d) : d \in Extensions} : admin \/ end <= now + LongestDays}
               \cup IF admin THEN {Never} \cup {now + d : d \in Extensions} ELSE {}

Wants(op, fresh, end) ==
    [op |-> op, fresh |-> fresh, expires |-> end,
     sawExpires |-> expires, sawMarks |-> lease # Unmarked, sawStatus |-> status]

AskLease(r) ==
    /\ status \notin {"destroying", "destroyed"}
    /\ \E admin \in BOOLEAN : \E end \in Ends(admin) : Ask(r, Wants("lease", TRUE, end))

(* A fresh deploy starts a fresh lease; any other job leaves the lease alone. *)
AskJob(r) ==
    /\ ~Busy
    /\ \E op \in {"deploy", "destroy", "power"} :
          /\ op = "power" => status = "deployed"
          /\ Ask(r, Wants(op, op = "deploy" /\ status \in {"new", "destroyed"}, DefaultExpiry))

(* The lease begins again, as far as that differs from what was read. *)
Renew(r) ==
    IF req[r].fresh
    THEN /\ expires' = IF req[r].expires = req[r].sawExpires THEN expires ELSE req[r].expires
         /\ lease' = IF req[r].sawMarks THEN Unmarked ELSE lease
    ELSE UNCHANGED <<expires, lease>>

CommitLease(r) ==
    /\ req[r].op = "lease"
    /\ Renew(r)
    /\ req' = [req EXCEPT ![r] = Idle]
    /\ UNCHANGED <<now, policy, status, jobs, lastId, round, asks>>

CommitJob(r) ==
    /\ req[r].op \in {"deploy", "destroy", "power"}
    /\ Queue(req[r].op, "owner")
    /\ LET new == CASE req[r].op = "deploy"  -> "deploying"
                    [] req[r].op = "destroy" -> "destroying"
                    [] OTHER                 -> req[r].sawStatus
       IN  status' = IF new = req[r].sawStatus THEN status ELSE new
    /\ Renew(r)
    /\ req' = [req EXCEPT ![r] = Idle]
    /\ UNCHANGED <<now, policy, round, asks>>

-----------------------------------------------------------------------------
(* tick(): one round of a worker, outside maintenance. *)

Ended(c)     == c.now >= c.expires
GraceAtEnd(c) == c.now >= c.expires         \* variant for InTime: no grace
GraceOver(c) == c.now >= c.expires + GraceDays
Due(c)       == {d \in RemindDays : c.expires - c.now <= d}

(* The round takes the time and reads the deployed, leased environments. *)
ReadLeases(w) ==
    /\ round[w] = Between
    /\ policy.enabled /\ status = "deployed" /\ expires # Never
    /\ round' = [round EXCEPT ![w] = [at |-> "act", now |-> now, destroy |-> policy.destroy,
                                         expires |-> expires, lease |-> lease]]
    /\ UNCHANGED <<now, policy, status, expires, lease, jobs, lastId, req, asks>>

Mark(w, marks) == /\ lease' = marks
                  /\ round' = [round EXCEPT ![w] = Between]

Remind(w) ==
    /\ round[w].at = "act"
    /\ LET c == round[w]
       IN  /\ ~Ended(c)
           /\ IF Due(c) \subseteq c.lease.reminded
              THEN round' = [round EXCEPT ![w] = Between] /\ UNCHANGED lease
              ELSE Mark(w, [c.lease EXCEPT !.reminded = @ \cup Due(c)])
    /\ UNCHANGED <<now, policy, status, expires, jobs, lastId, req, asks>>

ShutdownDue(c) == Ended(c) /\ c.lease.stopped = Never

(* Variant for DestroyAfterShutdown: whether it was shut down is not asked. *)
DestroyDueAnyway(c) == c.destroy /\ GraceOver(c) /\ ~c.lease.destroy

DestroyDue(c) == c.destroy /\ GraceOver(c) /\ c.lease.stopped # Never /\ ~c.lease.destroy

(* An environment with a job waits for the next round. *)
LookForJobs(w) ==
    LET c == round[w]
        next(at) == round' = [round EXCEPT ![w].at = at]
    IN  /\ c.at = "act" /\ Ended(c)
        /\ \/ ~Busy /\ ShutdownDue(c) /\ next("stop")
           \/ ~Busy /\ DestroyDue(c) /\ next("destroy")
           \/ /\ Busy \/ ~(ShutdownDue(c) \/ DestroyDue(c))
              /\ round' = [round EXCEPT ![w] = Between]
        /\ UNCHANGED <<now, policy, status, expires, lease, jobs, lastId, req, asks>>

ShutDown(w) ==
    /\ round[w].at = "stop"
    /\ Queue("shutdown", "lease")
    /\ Mark(w, [round[w].lease EXCEPT !.stopped = round[w].now])
    /\ UNCHANGED <<now, policy, status, expires, req, asks>>

DestroyIt(w) ==
    /\ round[w].at = "destroy"
    /\ Queue("destroy", "lease")
    /\ status' = "destroying"
    /\ Mark(w, [round[w].lease EXCEPT !.destroy = TRUE])
    /\ UNCHANGED <<now, policy, expires, req, asks>>

-----------------------------------------------------------------------------
(* The environment's oldest job ends: as it should, as a failure, failed by *)
(* recovery, or cancelled before it started.                                *)
Results == {"ok", "failed", "lost", "dropped"}

StatusIsResult(kind, result) == result    \* variant for TypeOK
Untouched(kind, result) == result = "dropped" \/ (result # "lost" /\ kind \notin {"deploy", "destroy"})
StatusAfter(kind, result) ==
    IF Untouched(kind, result) THEN status
    ELSE IF result # "ok" THEN "failed"
    ELSE IF kind = "deploy" THEN "deployed" ELSE "destroyed"

JobEnds(j, result) ==
    /\ Pending(j) /\ \A k \in JobIds : Pending(k) => j <= k
    /\ jobs' = [jobs EXCEPT ![j].state = "over"]
    /\ status' = StatusAfter(jobs[j].kind, result)
    /\ UNCHANGED <<now, policy, expires, lease, lastId, round, req, asks>>

-----------------------------------------------------------------------------
RequestStep(r) == AskLease(r) \/ AskJob(r) \/ CommitLease(r) \/ CommitJob(r)
RoundStep(w)   == ReadLeases(w) \/ Remind(w) \/ LookForJobs(w) \/ ShutDown(w) \/ DestroyIt(w)

Next == \/ Day \/ SetPolicy
        \/ \E r \in Requests : RequestStep(r)
        \/ \E w \in Workers : RoundStep(w)
        \/ \E j \in JobIds, result \in Results : JobEnds(j, result)

Spec == Init /\ [][Next]_vars

(* The loop goes round, handlers answer, jobs end.  Nobody has to ask. *)
Fairness ==
    /\ \A w \in Workers : WF_vars(RoundStep(w))
    /\ \A r \in Requests : WF_vars(CommitLease(r) \/ CommitJob(r))
    /\ \A j \in JobIds : WF_vars(\E result \in Results : JobEnds(j, result))

FairSpec == Spec /\ Fairness
-----------------------------------------------------------------------------
(* The lease destroys an environment only after it has shut it down: each   *)
(* destroy job of the lease comes after a shutdown job of the lease that is *)
(* over, whatever requests, other rounds and failed jobs came in between.   *)
DestroyAfterShutdown ==
    \A d \in JobIds : ByLease(d, "destroy") =>
        \E s \in JobIds : s < d /\ ByLease(s, "shutdown") /\ jobs[s].state = "over"

(* A round queues nothing before the end (for a destroy, before the grace   *)
(* is over) of the lease as it is now, unless a request moved the end while *)
(* the round was on its way.                                                *)
LeaseQueues == lastId' # lastId /\ jobs'[lastId'].by = "lease"
StepInTime ==
    LeaseQueues => \E w \in Workers :
        /\ round[w] # Between /\ round'[w] = Between
        /\ \/ round[w].expires # expires
           \/ now >= expires + (IF jobs'[lastId'].kind = "destroy" THEN GraceDays ELSE 0)
InTime == [][StepInTime]_vars

(* The inductive invariant. *)

AbsentJobs == \A j \in JobIds : jobs[j].state = "absent" <=> j > lastId

(* A stop mark, in the row or in a round's copy of it, stands for a         *)
(* shutdown job; a round about to destroy saw that job over.                *)
StopMarks ==
    /\ lease.stopped # Never => \E s \in JobIds : ByLease(s, "shutdown")
    /\ \A w \in Workers : round[w] # Between =>
          /\ round[w].lease.stopped # Never => \E s \in JobIds : ByLease(s, "shutdown")
          /\ round[w].at = "destroy" => \E s \in JobIds : ByLease(s, "shutdown") /\ jobs[s].state = "over"

(* What a round decided on was due at the time it took. *)
RoundsDecided ==
    \A w \in Workers : round[w] # Between =>
        /\ round[w].now <= now
        /\ round[w].at = "stop" => Ended(round[w])
        /\ round[w].at = "destroy" => GraceOver(round[w])

IInv == TypeOK /\ AbsentJobs /\ StopMarks /\ RoundsDecided /\ DestroyAfterShutdown

(* Liveness. *)

(* "At the end the worker shuts the VMs down": a deployed environment whose *)
(* lease has ended gets its shutdown, unless it stops being deployed, the   *)
(* lease is changed or leases are turned off.                               *)
LeaseOver == policy.enabled /\ status = "deployed" /\ expires # Never /\ now >= expires
LeaseEnds == LeaseOver ~> lease.stopped # Never \/ ~LeaseOver \/ lastId = MaxJobs    \* the bound
=============================================================================
