------------------------------ MODULE Rotation ------------------------------
(***************************************************************************)
(* Scheduling of secret rotations.  The worker rotates some secrets itself *)
(* in secret.rotate jobs; the host's update agent rotates those that       *)
(* restart the stack, through request.json and status.json, which updates  *)
(* and backups share.  A person can ask for one rotation, or for every     *)
(* overdue one in turn; that queue is a settings row which the worker and  *)
(* the API both read, change and write back.  Maintenance mode is another  *)
(* row, written by admins, by the clock and by the agent.                  *)
(*                                                                         *)
(* A date is ahead or passed (by more than an hour); the window is open or *)
(* closed at each pass of the worker.  A request's id is any unused        *)
(* number: ids are only compared.                                          *)
(***************************************************************************)
EXTENDS Naturals, Sequences, FiniteSets, SequencesExt

CONSTANTS
    WorkerOrder,    \* the policies a worker job rotates, by id
    AgentOrder,     \* the policies the agent rotates, in the order of a run
    MaxRows,        \* bound: secret.rotate jobs that are kept at one time
    Nothing,        \* no file, no row, no policy
    MaxPassed,      \* bound: how often dates pass
    MaxEvents       \* bound: requests by people, daily backups and power losses

WorkerKinds == Range(WorkerOrder)
AgentKinds == Range(AgentOrder)
Order == WorkerOrder \o AgentOrder      \* of a run: the worker's first
Jobs == 1..MaxRows
Policies == WorkerKinds \cup AgentKinds
\* What else the agent is asked for: the version changes restart the stack in
\* maintenance mode as a rotation does; the rest stops nothing.
Versions == {"update", "rollback"}
Others == Versions \cup {"full_backup"}
Restarts == AgentKinds \cup Versions

ASSUME RotationAssumption ==
    /\ WorkerOrder \in Seq(WorkerKinds) /\ AgentOrder \in Seq(AgentKinds) /\ IsInjective(Order)
    /\ MaxRows \in Nat /\ MaxPassed \in Nat /\ MaxEvents \in Nat
    /\ Nothing \notin [id : Nat, action : AgentKinds \cup Others]

VARIABLES
    policy,     \* the policies' rows: status, whether the date passed, request id
    job,        \* the secret.rotate jobs: policy and state
    request,    \* request.json
    agent,      \* the running agent: the step it is at and the request it moved
    report,     \* status.json
    maint,      \* the maintenance.state row
    overdue,    \* the rotation_queue row
    held,       \* the worker's copy of that row while it hands a rotation over
    asked,      \* an API request between its busy() check and its write
    pass,       \* where the worker is in its loop: the pass of every minute, then the claim
    used        \* how much of each bound is used

vars == <<policy, job, request, agent, report, maint, overdue, held, asked, pass, used>>
agentVars == <<agent, report, request>>

NoRun == [state |-> "none", ids |-> {}, done |-> {}, current |-> Nothing, job |-> Nothing]
Off == [active |-> FALSE, by |-> Nothing, scheduled |-> FALSE]

Init ==
    /\ policy = [p \in Policies |-> [status |-> "pending", due |-> FALSE, request |-> 0]]
    /\ job = [j \in Jobs |-> [policy |-> Nothing, state |-> "free"]]
    /\ request = Nothing
    /\ agent = [at |-> "idle", id |-> 0, action |-> Nothing, outcome |-> Nothing]
    /\ report = [id |-> 0, action |-> Nothing, state |-> "idle"]
    /\ maint = Off
    /\ overdue = NoRun
    /\ held = Nothing
    /\ asked = Nothing
    /\ pass = "idle"
    /\ used = [passed |-> 0, asks |-> 0, losses |-> 0]

-----------------------------------------------------------------------------
(* The rows and the files.                                                 *)

Unfinished(j) == job[j].state \in {"queued", "running"}
Free == {j \in Jobs : job[j].state = "free"}
Row == CHOOSE j \in Free : \A k \in Free : j <= k
JobOf(p) == {j \in Jobs : Unfinished(j) /\ job[j].policy = p}

Ids == 0..(Cardinality(AgentKinds) + 4)
UsedIds == {agent.id, report.id} \cup {policy[p].request : p \in Policies}
              \cup (IF request = Nothing THEN {} ELSE {request.id})
FreshId == CHOOSE i \in Ids \ (UsedIds \cup {0}) : \A k \in Ids \ (UsedIds \cup {0}) : i <= k

\* A request is waiting, or the last report says that the agent is at work.
Busy == request # Nothing \/ report.state = "running"

Request(action) == [id |-> FreshId, action |-> action]

\* A finished row is kept only while the overdue run still reads it.
Kept(rows, run, copy) ==
    [j \in Jobs |->
        IF \/ rows[j].state \in {"queued", "running"}
           \/ run.job = j
           \/ copy # Nothing /\ copy.job = j
        THEN rows[j] ELSE [policy |-> Nothing, state |-> "free"]]

Event(kind) == /\ used.asks + used.losses < MaxEvents
               /\ used' = [used EXCEPT ![kind] = @ + 1]

\* A write of the API outside the maintenance paths: refused in maintenance,
\* which the API may notice a few seconds after the agent turned it on.
MayWrite == ~maint.active \/ agent.at \in {"draining", "working"}

-----------------------------------------------------------------------------
(* The agent on the host.                                                  *)

Goes(step) == agent' = [agent EXCEPT !.at = step]

AgentTakes ==
    /\ agent.at = "idle"
    /\ request # Nothing
    /\ agent' = [at |-> "taken", id |-> request.id, action |-> request.action, outcome |-> Nothing]
    /\ request' = Nothing
    /\ UNCHANGED <<policy, job, report, maint, overdue, held, asked, pass, used>>

AgentBegins ==
    /\ agent.at = "taken"
    /\ report' = [id |-> agent.id, action |-> agent.action, state |-> "running"]
    /\ Goes(IF agent.action \in Restarts THEN "begun" ELSE "working")
    /\ UNCHANGED <<policy, job, request, maint, overdue, held, asked, pass, used>>

\* Maintenance goes on, whatever the row said before; a refused update never gets there
\* and a rollback waits for no job.
AgentTurnsOn ==
    /\ agent.at = "begun"
    /\ \/ /\ maint' = [Off EXCEPT !.active = TRUE, !.by = "agent"]
          /\ Goes(IF agent.action = "rollback" THEN "working" ELSE "draining")
       \/ /\ agent.action # "rollback"
          /\ agent' = [agent EXCEPT !.at = "ending", !.outcome = "failed"]
          /\ UNCHANGED maint
    /\ UNCHANGED <<policy, job, request, report, overdue, held, asked, pass, used>>

\* AgentDrains variant for WorksAlone: the running jobs are not waited for.
DrainsNobody ==
    /\ agent.at = "draining"
    /\ Goes("working")
    /\ UNCHANGED <<policy, job, request, report, maint, overdue, held, asked, pass, used>>

\* It waits for the running jobs, half an hour at most.
AgentDrains ==
    /\ agent.at = "draining"
    /\ \/ (\A j \in Jobs : job[j].state # "running") /\ Goes("working")
       \/ /\ \E j \in Jobs : job[j].state = "running"
          /\ agent' = [agent EXCEPT !.at = "ending", !.outcome = "failed"]
    /\ UNCHANGED <<policy, job, request, report, maint, overdue, held, asked, pass, used>>

\* Recreated containers take the worker's pass and its jobs along.
WorkerStops ==
    /\ job' = Kept([j \in Jobs |-> IF job[j].state = "running" THEN [job[j] EXCEPT !.state = "failed"]
                                  ELSE job[j]], overdue, Nothing)
    /\ held' = Nothing
    /\ pass' = "idle"

\* The work itself: done, put back, or (a rollback that fails, an update's own
\* included) left in maintenance.
AgentWorks ==
    /\ agent.at = "working"
    /\ \E outcome \in {"succeeded"} \cup (IF agent.action = "rollback" THEN {} ELSE {"failed"})
                        \cup (IF agent.action \in Versions THEN {"stays"} ELSE {}) :
        agent' = [agent EXCEPT !.at = "ending", !.outcome = outcome]
    /\ \/ agent.action \in Restarts /\ WorkerStops /\ UNCHANGED asked
       \/ (agent.action \notin Restarts \/ agent'.outcome = "failed") /\ UNCHANGED <<job, held, pass, asked>>
    /\ UNCHANGED <<policy, request, report, maint, overdue, used>>

\* The end: maintenance goes off, whoever turned it on, except after a backup or an
\* update whose rollback failed; then the outcome is reported.
AgentEnds ==
    /\ agent.at = "ending"
    /\ maint' = IF agent.action \in Restarts /\ agent.outcome # "stays" THEN Off ELSE maint
    /\ report' = [id |-> agent.id, action |-> agent.action,
                  state |-> IF agent.outcome = "stays" THEN "failed" ELSE agent.outcome]
    /\ agent' = [at |-> "idle", id |-> 0, action |-> Nothing, outcome |-> Nothing]
    /\ UNCHANGED <<policy, job, request, overdue, held, asked, pass, used>>

AgentStep ==
    \/ AgentTakes \/ AgentBegins \/ AgentTurnsOn \/ AgentDrains
    \/ AgentWorks \/ AgentEnds

\* The host goes down: nothing reads processing.json again, the report stays as it was.
PowerLoss ==
    /\ Event("losses")
    /\ agent' = [at |-> "idle", id |-> 0, action |-> Nothing, outcome |-> Nothing]
    /\ asked' = Nothing
    /\ WorkerStops
    /\ UNCHANGED <<policy, request, report, maint, overdue>>

-----------------------------------------------------------------------------
(* People, through the API.                                                *)

DatesPass ==
    /\ used.passed < MaxPassed
    /\ \E S \in SUBSET {p \in Policies : ~policy[p].due} :
        /\ S # {}
        /\ policy' = [p \in Policies |-> [policy[p] EXCEPT !.due = @ \/ p \in S]]
    /\ used' = [used EXCEPT !.passed = @ + 1]
    /\ UNCHANGED <<job, maint, overdue, held, asked, pass>> /\ UNCHANGED agentVars

\* Rotate now, the worker's kinds: only one unfinished job is looked at, any one.
RotateNow(p) ==
    /\ Event("asks") /\ MayWrite
    /\ LET busy == {j \in Jobs : Unfinished(j)}
       IN  busy = {} \/ \E j \in busy : job[j].policy # p
    /\ Free # {}
    /\ job' = [job EXCEPT ![Row] = [policy |-> p, state |-> "queued"]]
    /\ UNCHANGED <<policy, maint, overdue, held, asked, pass>> /\ UNCHANGED agentVars

\* Rotate now, the agent's kinds, and the agent's other work: busy() now, the write later.
AskAgent(action) ==
    /\ Event("asks")
    /\ action \in AgentKinds => MayWrite
    /\ asked = Nothing /\ ~Busy
    /\ asked' = action
    /\ UNCHANGED <<policy, job, maint, overdue, held, pass>> /\ UNCHANGED agentVars

\* WriteRequest variant for OutcomeLost: the policy keeps the id of an earlier request.
WritesOldId ==
    /\ asked # Nothing
    /\ request' = Request(asked)
    /\ policy' = IF asked \in AgentKinds THEN [policy EXCEPT ![asked].status = "running"] ELSE policy
    /\ asked' = Nothing
    /\ UNCHANGED <<job, agent, report, maint, overdue, held, pass, used>>

WriteRequest ==
    /\ asked # Nothing
    /\ request' = Request(asked)
    /\ policy' = IF asked \in AgentKinds
                 THEN [policy EXCEPT ![asked].status = "running", ![asked].request = FreshId]
                 ELSE policy
    /\ asked' = Nothing
    /\ UNCHANGED <<job, agent, report, maint, overdue, held, pass, used>>

CancelJob(j) ==
    /\ job[j].state = "queued"
    /\ job' = Kept([job EXCEPT ![j].state = "cancelled"], overdue, held)
    /\ UNCHANGED <<policy, maint, overdue, held, asked, pass, used>> /\ UNCHANGED agentVars

\* The overdue policies that are not marked running, the worker's first.
Overdue == {p \in Policies : policy[p].due /\ policy[p].status # "running"}

StartOverdue ==
    /\ Event("asks") /\ MayWrite
    /\ overdue.state # "running"
    /\ Overdue # {}
    /\ overdue' = [NoRun EXCEPT !.state = "running", !.ids = Overdue]
    /\ job' = Kept(job, overdue', held)
    /\ UNCHANGED <<policy, maint, held, asked, pass>> /\ UNCHANGED agentVars

CancelOverdue ==
    /\ Event("asks") /\ MayWrite
    /\ overdue.state = "running"
    /\ overdue' = [overdue EXCEPT !.state = "cancelled"]
    /\ UNCHANGED <<policy, job, maint, held, asked, pass>> /\ UNCHANGED agentVars

\* An admin writes the whole row: on now, off, or off until its start.
SetMaintenance ==
    /\ Event("asks")
    /\ \E row \in {[Off EXCEPT !.active = TRUE, !.by = "admin"], [Off EXCEPT !.scheduled = TRUE, !.by = "admin"], Off} :
        row # maint /\ maint' = row
    /\ UNCHANGED <<policy, job, overdue, held, asked, pass>> /\ UNCHANGED agentVars

PeopleAsk ==
    \/ DatesPass
    \/ \E p \in WorkerKinds : RotateNow(p)
    \/ \E action \in AgentKinds \cup Others : AskAgent(action)
    \/ \E j \in Jobs : CancelJob(j)
    \/ StartOverdue \/ CancelOverdue \/ SetMaintenance

-----------------------------------------------------------------------------
(* The worker.                                                             *)

\* Settled variant for TypeOK: the agent's word is recorded as it is.
SettledAsReported(status) == [status |-> report.state, due |-> FALSE, request |-> 0]

\* A rotation's outcome on its policy: the next date is a period ahead after a success
\* and an hour ahead after a failure.
Settled(status) == [status |-> status, due |-> FALSE, request |-> 0]

\* After the pass the maintenance row is read, in a session of its own; only after "off"
\* the worker goes on to claim.
ReadMaintenance ==
    /\ pass = "read"
    /\ pass' = IF maint.active THEN "idle" ELSE "claim"
    /\ UNCHANGED <<policy, job, maint, overdue, held, asked, used>> /\ UNCHANGED agentVars

\* The claim itself does not look at the row again; then the loop starts over, with the
\* pass when its minute is over.
Claim(j) ==
    /\ pass = "claim"
    /\ job[j].state = "queued"
    /\ job' = [job EXCEPT ![j].state = "running"]
    /\ pass' \in {"idle", "read"}
    /\ UNCHANGED <<policy, maint, overdue, held, asked, used>> /\ UNCHANGED agentVars

\* No job is queued, or every slot is taken.
ClaimsNone ==
    /\ pass = "claim"
    /\ \A j \in Jobs : job[j].state = "queued" => \E k \in Jobs : job[k].state = "running"
    /\ pass' = "idle"
    /\ UNCHANGED <<policy, job, maint, overdue, held, asked, used>> /\ UNCHANGED agentVars

JobEnds(j) ==
    /\ job[j].state = "running"
    /\ \E ok \in BOOLEAN :
        /\ policy' = [policy EXCEPT ![job[j].policy] = Settled(IF ok THEN "ok" ELSE "failed")]
        /\ job' = Kept([job EXCEPT ![j].state = IF ok THEN "succeeded" ELSE "failed"], overdue, held)
    /\ UNCHANGED <<maint, overdue, held, asked, pass, used>> /\ UNCHANGED agentVars

\* A scheduled maintenance may have come due; in maintenance the pass is left out.  The
\* daily full backup is asked for earlier in the same pass than the rotations.
PassBegins ==
    /\ pass = "idle"
    /\ \/ /\ maint.active \/ maint.scheduled
          /\ maint' = [maint EXCEPT !.active = TRUE, !.scheduled = FALSE]
          /\ pass' = "read"
          /\ UNCHANGED <<request, used>>
       \/ /\ ~maint.active
          /\ pass' = "reconcile"
          /\ \/ Event("asks") /\ ~Busy /\ request' = Request("full_backup")
             \/ UNCHANGED <<request, used>>
          /\ UNCHANGED maint
    /\ UNCHANGED <<policy, job, agent, report, overdue, held, asked>>

\* PassReconciles variant for RotationEnds: only a success is recorded.
RecordsSuccess ==
    /\ pass = "reconcile"
    /\ policy' = [p \in Policies |->
                    IF report.state = "succeeded" /\ policy[p].status = "running" /\ policy[p].request = report.id
                    THEN Settled("ok") ELSE policy[p]]
    /\ pass' = "advance"
    /\ UNCHANGED <<job, maint, overdue, held, asked, used>> /\ UNCHANGED agentVars

\* The last report's rotation is recorded on the policy that asked for it.
PassReconciles ==
    /\ pass = "reconcile"
    /\ LET mine == {p \in AgentKinds : /\ report.action \in AgentKinds
                                       /\ report.state # "running"
                                       /\ policy[p].status = "running"
                                       /\ policy[p].request = report.id}
       IN  policy' = [p \in Policies |->
                        IF p \in mine
                        THEN Settled(IF report.state = "succeeded" THEN "ok" ELSE "failed")
                        ELSE policy[p]]
    /\ pass' = "advance"
    /\ UNCHANGED <<job, maint, overdue, held, asked, used>> /\ UNCHANGED agentVars

\* Waits variant for RunEnds: a job that failed is waited for.
WaitsForSuccess == overdue.job # Nothing /\ job[overdue.job].state # "succeeded"

Waits == \/ overdue.job # Nothing /\ Unfinished(overdue.job)
         \/ overdue.current # Nothing /\ policy[overdue.current].status = "running"
Failed == overdue.current # Nothing /\ policy[overdue.current].status # "ok"
Stopped(state) == [overdue EXCEPT !.state = state, !.current = Nothing, !.job = Nothing]

\* advance() up to its busy() check: the row is copied, what the copy says of the
\* current rotation is settled, and only a stop is written here.
PassLoadsRun ==
    /\ pass = "advance"
    /\ IF overdue.state # "running" \/ Waits
       THEN pass' = "rest" /\ UNCHANGED <<overdue, held, job>>
       ELSE IF Failed
       THEN pass' = "rest" /\ overdue' = Stopped("stopped") /\ job' = Kept(job, overdue', held) /\ UNCHANGED held
       ELSE IF Busy
       THEN pass' = "rest" /\ UNCHANGED <<overdue, held, job>>
       ELSE /\ pass' = "handover"
            /\ held' = [Stopped("running") EXCEPT
                           !.done = IF overdue.current = Nothing THEN @ ELSE @ \cup {overdue.current}]
            /\ UNCHANGED <<overdue, job>>
    /\ UNCHANGED <<policy, maint, asked, used>> /\ UNCHANGED agentVars

\* The rest of advance(): the next policy not marked running is handed over, and the copy
\* is written back over whatever the row says by now.  A run's ids are in the fixed Order.
PassHandsOver ==
    /\ pass = "handover"
    /\ pass' = "rest"
    /\ held' = Nothing
    /\ LET fit == {i \in DOMAIN Order : Order[i] \in held.ids /\ policy[Order[i]].status # "running"}
           next == CHOOSE i \in fit : \A k \in fit : i <= k
           p == Order[next]
           rest == held.ids \cap {Order[i] : i \in (next + 1)..Len(Order)}
           run == [held EXCEPT !.ids = rest, !.current = p]
       IN  IF fit = {}
           THEN /\ overdue' = [held EXCEPT !.state = "done", !.ids = {}]
                /\ job' = Kept(job, overdue', Nothing)
                /\ UNCHANGED <<policy, request>>
           ELSE IF p \in AgentKinds
           THEN IF Busy
                THEN /\ overdue' = [held EXCEPT !.state = "stopped", !.ids = rest]
                     /\ job' = Kept(job, overdue', Nothing)
                     /\ UNCHANGED <<policy, request>>
                ELSE /\ request' = Request(p)
                     /\ policy' = [policy EXCEPT ![p].status = "running", ![p].request = FreshId]
                     /\ overdue' = run
                     /\ job' = Kept(job, run, Nothing)
           ELSE /\ Free # {}
                /\ overdue' = [run EXCEPT !.job = Row]
                /\ job' = Kept([job EXCEPT ![Row] = [policy |-> p, state |-> "queued"]], overdue', Nothing)
                /\ UNCHANGED <<policy, request>>
    /\ UNCHANGED <<agent, report, maint, asked, used>>

\* The policies whose date passed: a job each for the worker's, and the agent for the
\* first of its own in the window; it is busy for the others, which count as failed.
PassQueues ==
    /\ pass = "rest"
    /\ pass' = "read"
    /\ \E window \in BOOLEAN :
        LET ready == {p \in Policies : policy[p].due /\ policy[p].status # "running" /\ JobOf(p) = {}}
            own == ready \cap WorkerKinds
            theirs == IF window THEN ready \cap AgentKinds ELSE {}
        IN  /\ \E rows \in [own -> Free] :
                /\ IsInjective(rows)
                /\ job' = [j \in Jobs |-> IF j \in Range(rows)
                                          THEN [policy |-> CHOOSE p \in own : rows[p] = j, state |-> "queued"]
                                          ELSE job[j]]
            /\ \/ /\ theirs = {} \/ Busy
                  /\ policy' = [p \in Policies |-> IF p \in theirs THEN Settled("failed") ELSE policy[p]]
                  /\ UNCHANGED request
               \/ /\ ~Busy
                  /\ \E first \in theirs :
                      /\ request' = Request(first)
                      /\ policy' = [p \in Policies |->
                                        IF p = first THEN [policy[p] EXCEPT !.status = "running", !.request = FreshId]
                                        ELSE IF p \in theirs THEN Settled("failed") ELSE policy[p]]
    /\ UNCHANGED <<agent, report, maint, overdue, held, asked, used>>

WorkerStep ==
    \/ PassBegins \/ PassReconciles
    \/ PassLoadsRun \/ PassHandsOver \/ PassQueues
    \/ ReadMaintenance \/ (\E j \in Jobs : Claim(j)) \/ ClaimsNone

JobStep == \E j \in Jobs : JobEnds(j)

Next == AgentStep \/ PowerLoss \/ PeopleAsk \/ WriteRequest \/ WorkerStep \/ JobStep

Spec == Init /\ [][Next]_vars

\* The worker loops, its jobs end, the agent's path unit fires and each of the agent's
\* waits has a deadline; an API request that checked goes on to write.
FairSpec ==
    /\ Spec
    /\ WF_vars(AgentStep) /\ WF_vars(WriteRequest) /\ WF_vars(WorkerStep)
    /\ \A j \in Jobs : WF_vars(JobEnds(j))

-----------------------------------------------------------------------------
(* Properties.                                                             *)

Rows == [status : {"pending", "ok", "failed", "running"}, due : BOOLEAN, request : Ids]
JobRows == [policy : WorkerKinds \cup {Nothing},
            state : {"free", "queued", "running", "succeeded", "failed", "cancelled"}]
Requests == [id : Ids, action : AgentKinds \cup Others]
Runs == [state : {"none", "running", "cancelled", "stopped", "done"}, ids : SUBSET Policies,
         done : SUBSET Policies, current : Policies \cup {Nothing}, job : Jobs \cup {Nothing}]
Agents == [at : {"idle", "taken", "begun", "draining", "working", "ending"}, id : Ids,
           action : AgentKinds \cup Others \cup {Nothing}, outcome : {"succeeded", "failed", "stays", Nothing}]
Reports == [id : Ids, action : AgentKinds \cup Others \cup {Nothing},
            state : {"idle", "running", "succeeded", "failed"}]
Maintenances == [active : BOOLEAN, by : {"agent", "admin", Nothing}, scheduled : BOOLEAN]
Uses == [passed : 0..MaxPassed, asks : 0..MaxEvents, losses : 0..MaxEvents]

TypeOK ==
    /\ policy \in [Policies -> Rows]
    /\ job \in [Jobs -> JobRows]
    /\ request \in Requests \cup {Nothing}
    /\ agent \in Agents /\ report \in Reports /\ maint \in Maintenances
    /\ overdue \in Runs /\ held \in Runs \cup {Nothing}
    /\ asked \in AgentKinds \cup Others \cup {Nothing}
    /\ pass \in {"idle", "reconcile", "advance", "handover", "rest", "read", "claim"}
    /\ used \in Uses

\* The request a policy is marked running for is still on its way, at the agent, or
\* answered by the report.
Carried(p) ==
    \/ request # Nothing /\ request.id = policy[p].request
    \/ agent.at # "idle" /\ agent.id = policy[p].request
    \/ report.id = policy[p].request /\ report.state # "running"
Stuck(p) == policy[p].status = "running" /\ ~Carried(p)

\* At most one job runs while the agent restarts the stack: the one the worker claims on a
\* reading of the maintenance row from before the agent turned it on; once that is claimed,
\* or dropped, there is no other.  Somebody may have ended the agent's maintenance in the
\* meantime, and a rollback waits for no job (agent script, drain; engine/runner.py, serve).
Running == {j \in Jobs : job[j].state = "running"}
Alone == (\A j, k \in Running : j = k) /\ (pass = "claim" => Running = {})
WorksAlone ==
    agent.at = "working" /\ agent.action # "rollback" /\ maint.active /\ maint.by = "agent" => Alone

\* A rotation's outcome is lost only when the host goes down, when another request is
\* reported before the worker's next pass, or when a request is written over one that
\* waits (engine/rotation.py, reconcile_agent; update.py, write_request).
OutcomeLost ==
    [][ \A p \in AgentKinds : Stuck(p)' /\ ~Stuck(p) =>
            \/ used'.losses # used.losses
            \/ report'.id # report.id
            \/ request # Nothing /\ request' # Nothing ]_vars

\* A policy marked running gets its outcome, unless that was lost or maintenance that
\* nobody is working under holds the worker's passes back.
Unattended == maint.active /\ agent.at = "idle"
RotationEnds ==
    \A p \in AgentKinds : policy[p].status = "running" ~> policy[p].status # "running" \/ Stuck(p) \/ Unattended

\* A run of the overdue secrets comes to its end, unless the outcome it waits for was
\* lost, the agent stays busy for ever, or maintenance holds the worker back.
RunEnds ==
    overdue.state = "running" ~>
        \/ overdue.state # "running"
        \/ overdue.current # Nothing /\ Stuck(overdue.current)
        \/ used.losses > 0 \/ Unattended

-----------------------------------------------------------------------------
(* Why it holds: the conjuncts of the inductive invariant.                 *)

\* What restarts the stack, what an ending reports, what a handover holds, who asks the agent.
StepsFit ==
    /\ agent.at \in {"begun", "draining"} => agent.action \in Restarts
    /\ agent.at = "ending" => agent.outcome \in {"succeeded", "failed", "stays"}
    /\ pass = "handover" => held \in Runs
    /\ \A p \in Policies \ AgentKinds : policy[p].request = 0
    /\ maint.scheduled => maint.by = "admin"

\* Under the agent's maintenance one job runs at most, but while it waits for them, gives up
\* or rolls back.
Quiet ==
    maint.active /\ maint.by = "agent" =>
        \/ Alone
        \/ agent.at = "draining"
        \/ agent.at = "ending" /\ agent.outcome = "failed" /\ agent.action \in Restarts
        \/ agent.at = "working" /\ agent.action = "rollback"

IInv == TypeOK /\ StepsFit /\ Quiet
=============================================================================
