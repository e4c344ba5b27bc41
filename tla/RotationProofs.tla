--------------------------- MODULE RotationProofs ---------------------------
(***************************************************************************)
(* Proofs about Rotation for any policies and bounds: what the rows and    *)
(* files of the worker and the agent may hold, that the agent restarts the *)
(* stack with one job running at most, and when the outcome of a rotation  *)
(* is lost.                                                                *)
(* And proofs about AgentSecrets, what the agent does for one request, for *)
(* any number of rotations and failing commands: how it ends, and what a   *)
(* boot after a power loss finds.                                          *)
(***************************************************************************)
EXTENDS Rotation, AgentSecrets, FiniteSetTheorems, SequenceTheorems, WellFoundedInduction, TLAPS

LEMMA Smallest ==
    ASSUME NEW S \in SUBSET Nat, S # {}
    PROVE  \E x \in S : \A y \in S : x <= y
<1>1. PICK x \in S : \A y \in S : ~(<<y, x>> \in OpToRel(<, Nat))
  BY WFMin, NatLessThanWellFounded
<1>2. \A y \in S : ~(y < x)
  BY <1>1 DEF OpToRel
<1>3. QED
  BY <1>2

\* The fixed order names the policies, and no others.
LEMMA OrderFits == /\ Len(Order) \in Nat /\ DOMAIN Order = 1..Len(Order)
                   /\ \A i \in DOMAIN Order : Order[i] \in Policies
<1>1. WorkerOrder \in Seq(Policies) /\ AgentOrder \in Seq(Policies)
  <2>1. WorkerOrder \in Seq(WorkerKinds) /\ AgentOrder \in Seq(AgentKinds)
    BY RotationAssumption
  <2>2. WorkerKinds \subseteq Policies /\ AgentKinds \subseteq Policies
    BY DEF Policies
  <2>3. QED
    BY <2>1, <2>2
<1>2. Order \in Seq(Policies)
  BY <1>1, ConcatProperties DEF Order
<1>3. QED
  BY <1>2

\* An image of a finite set is finite and no larger.
LEMMA ImageSize ==
    ASSUME NEW S, IsFiniteSet(S), NEW f \in [S -> Nat]
    PROVE  /\ IsFiniteSet({f[x] : x \in S}) /\ Cardinality({f[x] : x \in S}) \in Nat
           /\ Cardinality(S) \in Nat /\ Cardinality({f[x] : x \in S}) <= Cardinality(S)
<1> DEFINE T == {f[x] : x \in S}
<1>1. f \in Surjection(S, T)
  BY DEF Surjection
<1>2. IsFiniteSet(T) /\ Cardinality(T) <= Cardinality(S)
  BY <1>1, FS_Surjection
<1>3. QED
  BY <1>2, FS_CardinalityType

LEMMA AgentKindsFinite == IsFiniteSet(AgentKinds) /\ Cardinality(AgentKinds) \in Nat
<1>1. AgentOrder \in Seq(AgentKinds)
  BY RotationAssumption
<1>2. Len(AgentOrder) \in Nat /\ DOMAIN AgentOrder = 1..Len(AgentOrder)
  BY <1>1
<1>3. AgentOrder \in Surjection(1..Len(AgentOrder), AgentKinds)
  BY <1>1, <1>2 DEF Surjection, AgentKinds, Range
<1>4. IsFiniteSet(1..Len(AgentOrder))
  BY <1>2, FS_Interval
<1>5. QED
  BY <1>3, <1>4, FS_Surjection, FS_CardinalityType

LEMMA IdsFit == Ids \subseteq Nat /\ 0 \in Ids /\ IsFiniteSet(Ids) /\ Cardinality(Ids) = Cardinality(AgentKinds) + 5
<1>1. Cardinality(AgentKinds) \in Nat
  BY AgentKindsFinite
<1>2. /\ IsFiniteSet(0..(Cardinality(AgentKinds) + 4))
      /\ Cardinality(0..(Cardinality(AgentKinds) + 4)) = Cardinality(AgentKinds) + 5
  BY <1>1, FS_Interval, SMTT(30)
<1>3. QED
  BY <1>1, <1>2 DEF Ids

\* A set of one more element has at most one more.
LEMMA OneMore ==
    ASSUME NEW S, IsFiniteSet(S), NEW n \in Nat, Cardinality(S) <= n, NEW x
    PROVE  IsFiniteSet(S \cup {x}) /\ Cardinality(S \cup {x}) <= n + 1
<1>1. Cardinality(S) \in Nat
  BY FS_CardinalityType
<1>2. QED
  BY <1>1, FS_AddElement

LEMMA FourMore ==
    ASSUME NEW S, IsFiniteSet(S), NEW n \in Nat, Cardinality(S) <= n, NEW v, NEW x, NEW y, NEW z
    PROVE  IsFiniteSet(S \cup {v, x, y, z}) /\ Cardinality(S \cup {v, x, y, z}) <= n + 4
<1>1. PICK S1 : S1 = S \cup {v}
  OBVIOUS
<1>2. IsFiniteSet(S1) /\ Cardinality(S1) <= n + 1 /\ n + 1 \in Nat
  BY <1>1, OneMore
<1>3. PICK S2 : S2 = S1 \cup {x}
  OBVIOUS
<1>4. IsFiniteSet(S2) /\ Cardinality(S2) <= n + 2 /\ n + 2 \in Nat
  <2>1. IsFiniteSet(S1 \cup {x}) /\ Cardinality(S1 \cup {x}) <= (n + 1) + 1
    BY <1>2, OneMore
  <2>2. QED
    BY <1>3, <2>1
<1>5. PICK S3 : S3 = S2 \cup {y}
  OBVIOUS
<1>6. IsFiniteSet(S3) /\ Cardinality(S3) <= n + 3 /\ n + 3 \in Nat
  <2>1. IsFiniteSet(S2 \cup {y}) /\ Cardinality(S2 \cup {y}) <= (n + 2) + 1
    BY <1>4, OneMore
  <2>2. QED
    BY <1>5, <2>1
<1>7. IsFiniteSet(S3 \cup {z}) /\ Cardinality(S3 \cup {z}) <= (n + 3) + 1
  BY <1>6, OneMore
<1>8. S3 \cup {z} = S \cup {v, x, y, z}
  BY <1>1, <1>3, <1>5
<1>9. QED
  BY <1>7, <1>8

\* There is always an id left for a request: only the agent's policies hold one each.
LEMMA FreshFits ==
    ASSUME TypeOK, StepsFit
    PROVE  FreshId \in Ids /\ FreshId \notin UsedIds /\ FreshId # 0
<1> DEFINE N == Cardinality(AgentKinds)
           asks == [p \in AgentKinds |-> policy[p].request]
           A == {asks[p] : p \in AgentKinds}
           w == IF request = Nothing THEN 0 ELSE request.id
           B == A \cup {0, agent.id, report.id, w}
<1>1. N \in Nat /\ IsFiniteSet(AgentKinds)
  BY AgentKindsFinite
<1>2. asks \in [AgentKinds -> Nat]
  BY IdsFit DEF TypeOK, Rows, Policies
<1>3. IsFiniteSet(A) /\ Cardinality(A) <= N
  <2> HIDE DEF asks
  <2>1. QED
    BY <1>1, <1>2, ImageSize
<1>4. IsFiniteSet(B) /\ Cardinality(B) <= N + 4
  <2> HIDE DEF A, N, w
  <2>1. QED
    BY <1>1, <1>3, FourMore
<1>5. UsedIds \cup {0} \subseteq B
  <2>1. \A p \in Policies : policy[p].request \in A \cup {0}
    BY DEF StepsFit
  <2>2. request # Nothing => request.id = w
    OBVIOUS
  <2> HIDE DEF A, w
  <2>3. QED
    BY <2>1, <2>2 DEF UsedIds
<1>6. ~(Ids \subseteq B)
  <2> HIDE DEF B
  <2>1. SUFFICES ASSUME Ids \subseteq B PROVE FALSE
    OBVIOUS
  <2>2. Cardinality(Ids) <= Cardinality(B) /\ Cardinality(B) \in Nat
    BY <1>4, <2>1, FS_Subset, FS_CardinalityType
  <2>3. QED
    BY <1>1, <1>4, <2>2, IdsFit
<1>7. Ids \ (UsedIds \cup {0}) # {}
  BY <1>5, <1>6
<1>8. \E i \in Ids \ (UsedIds \cup {0}) : \A k \in Ids \ (UsedIds \cup {0}) : i <= k
  BY <1>7, IdsFit, Smallest
<1>9. FreshId \in Ids \ (UsedIds \cup {0})
  BY <1>8 DEF FreshId
<1>10. QED
  BY <1>9

\* A request that is written is not the absent file.
LEMMA RequestFits ==
    ASSUME TypeOK, StepsFit, NEW a \in AgentKinds \cup Others
    PROVE  Request(a) \in Requests /\ Request(a) # Nothing /\ Request(a).id = FreshId /\ Request(a).action = a
<1>1. Request(a) \in [id : Nat, action : AgentKinds \cup Others]
  BY FreshFits, IdsFit DEF Request
<1>2. QED
  BY <1>1, FreshFits, RotationAssumption DEF Request, Requests

LEMMA RowFits == ASSUME Free # {} PROVE Row \in Jobs /\ Row \in Free
<1>1. Free \subseteq Jobs /\ Jobs \subseteq Nat
  BY DEF Free, Jobs
<1>2. \E j \in Free : \A k \in Free : j <= k
  BY <1>1, Smallest
<1>3. QED
  BY <1>1, <1>2 DEF Row

\* What is kept of the jobs: rows of their type, running ones among them.
LEMMA KeptFits ==
    ASSUME NEW rows \in [Jobs -> JobRows], NEW run, NEW copy
    PROVE  /\ Kept(rows, run, copy) \in [Jobs -> JobRows]
           /\ \A j \in Jobs : Kept(rows, run, copy)[j].state = "running" => rows[j].state = "running"
BY DEF Kept, JobRows

LEMMA StopsFit ==
    ASSUME TypeOK, WorkerStops
    PROVE  /\ job' \in [Jobs -> JobRows] /\ \A j \in Jobs : job'[j].state # "running"
           /\ held' = Nothing /\ pass' = "idle"
<1> DEFINE rows == [j \in Jobs |-> IF job[j].state = "running" THEN [job[j] EXCEPT !.state = "failed"] ELSE job[j]]
<1>1. rows \in [Jobs -> JobRows] /\ \A j \in Jobs : rows[j].state # "running"
  BY DEF TypeOK, JobRows
<1>2. job' = Kept(rows, overdue, Nothing) /\ held' = Nothing /\ pass' = "idle"
  BY DEF WorkerStops
<1> HIDE DEF rows
<1>3. QED
  BY <1>1, <1>2, KeptFits
LEMMA MaintenanceFits ==
    ASSUME NEW active \in BOOLEAN, NEW by \in {"agent", "admin", Nothing}, NEW scheduled \in BOOLEAN
    PROVE  [active |-> active, by |-> by, scheduled |-> scheduled] \in Maintenances
BY DEF Maintenances

LEMMA EventFits ==
    ASSUME TypeOK, NEW what \in {"asks", "losses"}, Event(what)
    PROVE  used' \in Uses
<1>1. PICK n \in 0..MaxEvents, m \in 0..MaxEvents : n = used.asks /\ m = used.losses /\ n + m < MaxEvents
  BY DEF TypeOK, Uses, Event
<1>2. n + 1 \in 0..MaxEvents /\ m + 1 \in 0..MaxEvents
  BY <1>1, RotationAssumption, SMTT(30)
<1>3. used' = [used EXCEPT ![what] = @ + 1]
  BY DEF Event
<1>4. CASE what = "asks"
  BY <1>1, <1>2, <1>3 DEF TypeOK, Uses
<1>5. CASE what = "losses"
  BY <1>1, <1>2, <1>3 DEF TypeOK, Uses
<1>6. QED
  BY <1>4, <1>5

-----------------------------------------------------------------------------
(* The agent.                                                              *)

LEMMA AgentTakesStep ==
    ASSUME IInv, AgentTakes
    PROVE  IInv'
<1>1. TypeOK /\ StepsFit /\ Quiet
  BY DEF IInv
<1>2. /\ agent.at = "idle" /\ request \in Requests /\ request' = Nothing
      /\ agent' = [at |-> "taken", id |-> request.id, action |-> request.action, outcome |-> Nothing]
  BY <1>1 DEF AgentTakes, TypeOK
<1>3. agent' \in Agents
  BY <1>2 DEF Agents, Requests
<1>4. UNCHANGED <<policy, job, report, maint, overdue, held, asked, pass, used>>
  BY DEF AgentTakes
<1>5. TypeOK'
  BY <1>1, <1>2, <1>3, <1>4 DEF TypeOK
<1>6. StepsFit'
  BY <1>1, <1>2, <1>3, <1>4 DEF StepsFit
<1>7. Quiet'
  BY <1>1, <1>2, <1>3, <1>4 DEF Quiet, Alone, Running
<1>8. QED
  BY <1>5, <1>6, <1>7 DEF IInv

LEMMA AgentBeginsStep ==
    ASSUME IInv, AgentBegins
    PROVE  IInv'
<1>1. TypeOK /\ StepsFit /\ Quiet
  BY DEF IInv
<1>2. PICK step \in {"begun", "working"} :
        /\ agent.at = "taken" /\ report' = [id |-> agent.id, action |-> agent.action, state |-> "running"]
        /\ agent' = [agent EXCEPT !.at = step]
        /\ step = "begun" <=> agent.action \in Restarts
  BY DEF AgentBegins, Goes
<1>3. agent' \in Agents /\ agent'.at = step /\ agent'.action = agent.action /\ report' \in Reports
  BY <1>1, <1>2 DEF TypeOK, Agents, Reports
<1>4. UNCHANGED <<policy, job, request, maint, overdue, held, asked, pass, used>>
  BY DEF AgentBegins
<1>5. TypeOK'
  BY <1>1, <1>2, <1>3, <1>4 DEF TypeOK
<1>6. StepsFit'
  BY <1>1, <1>2, <1>3, <1>4 DEF StepsFit
<1>7. Quiet'
  BY <1>1, <1>2, <1>3, <1>4 DEF Quiet, Alone, Running
<1>8. QED
  BY <1>5, <1>6, <1>7 DEF IInv

LEMMA AgentTurnsOnStep ==
    ASSUME IInv, AgentTurnsOn
    PROVE  IInv'
<1>1. TypeOK /\ StepsFit /\ Quiet
  BY DEF IInv
<1>2. /\ agent.at = "begun"
      /\ \/ /\ maint' = [active |-> TRUE, by |-> "agent", scheduled |-> FALSE]
            /\ \/ agent' = [agent EXCEPT !.at = "draining"]
               \/ agent' = [agent EXCEPT !.at = "working"] /\ agent.action = "rollback"
         \/ agent' = [agent EXCEPT !.at = "ending", !.outcome = "failed"] /\ maint' = maint
  BY DEF AgentTurnsOn, Goes, Off
<1>3. agent' \in Agents /\ agent'.action = agent.action
  BY <1>1, <1>2 DEF TypeOK, Agents
<1>4. maint' \in Maintenances
  BY <1>1, <1>2, MaintenanceFits DEF TypeOK
<1>5. \/ agent'.at = "draining" \/ (agent'.at = "working" /\ agent.action = "rollback")
      \/ agent'.at = "ending" /\ agent'.outcome = "failed" /\ maint' = maint
  BY <1>1, <1>2 DEF TypeOK, Agents
<1>6. UNCHANGED <<policy, job, request, report, overdue, held, asked, pass, used>>
  BY DEF AgentTurnsOn
<1>7. TypeOK'
  BY <1>1, <1>3, <1>4, <1>6 DEF TypeOK
<1>8. StepsFit'
  BY <1>1, <1>2, <1>3, <1>5, <1>6 DEF StepsFit
<1>9. Quiet'
  BY <1>1, <1>2, <1>3, <1>5, <1>6 DEF Quiet, Alone, Running
<1>10. QED
  BY <1>7, <1>8, <1>9 DEF IInv

LEMMA AgentDrainsStep ==
    ASSUME IInv, AgentDrains
    PROVE  IInv'
<1>1. TypeOK /\ StepsFit /\ Quiet
  BY DEF IInv
<1>2. /\ agent.at = "draining"
      /\ \/ (\A j \in Jobs : job[j].state # "running") /\ agent' = [agent EXCEPT !.at = "working"]
         \/ agent' = [agent EXCEPT !.at = "ending", !.outcome = "failed"]
  BY DEF AgentDrains, Goes
<1>3. /\ agent' \in Agents /\ agent'.action = agent.action
      /\ \/ agent'.at = "working" /\ \A j \in Jobs : job[j].state # "running"
         \/ agent'.at = "ending" /\ agent'.outcome = "failed"
  BY <1>1, <1>2 DEF TypeOK, Agents
<1>4. agent.action \in Restarts
  BY <1>1, <1>2 DEF StepsFit
<1>5. UNCHANGED <<policy, job, request, report, maint, overdue, held, asked, pass, used>>
  BY DEF AgentDrains
<1>6. TypeOK'
  BY <1>1, <1>3, <1>5 DEF TypeOK
<1>7. StepsFit'
  BY <1>1, <1>3, <1>5 DEF StepsFit
<1>8. Quiet'
  BY <1>3, <1>4, <1>5 DEF Quiet, Alone, Running
<1>9. QED
  BY <1>6, <1>7, <1>8 DEF IInv

LEMMA AgentWorksStep ==
    ASSUME IInv, AgentWorks
    PROVE  IInv'
<1>1. TypeOK /\ StepsFit /\ Quiet
  BY DEF IInv
<1>2. PICK outcome \in {"succeeded", "failed", "stays"} :
        /\ agent.at = "working" /\ agent' = [agent EXCEPT !.at = "ending", !.outcome = outcome]
        /\ outcome = "failed" => agent.action # "rollback"
        /\ \/ WorkerStops
           \/ (agent.action \notin Restarts \/ outcome = "failed") /\ UNCHANGED <<job, held, pass>>
  <2>1. PICK outcome \in {"succeeded"} \cup (IF agent.action = "rollback" THEN {} ELSE {"failed"})
                        \cup (IF agent.action \in Versions THEN {"stays"} ELSE {}) :
            agent' = [agent EXCEPT !.at = "ending", !.outcome = outcome]
    BY DEF AgentWorks
  <2>2. agent'.outcome = outcome
    BY <1>1, <2>1 DEF TypeOK
  <2>3. QED
    BY <2>1, <2>2 DEF AgentWorks
<1>3. /\ job' \in [Jobs -> JobRows] /\ held' \in Runs \cup {Nothing} /\ ((pass' = pass /\ held' = held) \/ pass' = "idle")
  BY <1>1, <1>2, StopsFit DEF TypeOK
<1>4. \/ (\A j \in Jobs : job'[j].state # "running") /\ pass' = "idle"
      \/ (agent.action \notin Restarts \/ outcome = "failed") /\ job' = job /\ pass' = pass
  BY <1>1, <1>2, StopsFit
<1>5. agent' \in Agents /\ agent'.at = "ending" /\ agent'.outcome = outcome /\ agent'.action = agent.action
  BY <1>1, <1>2 DEF TypeOK, Agents
<1>6. asked' \in AgentKinds \cup Others \cup {Nothing}
  BY <1>1 DEF AgentWorks, TypeOK
<1>7. UNCHANGED <<policy, request, report, maint, overdue, used>>
  BY DEF AgentWorks
<1>8. TypeOK'
  BY <1>1, <1>3, <1>5, <1>6, <1>7 DEF TypeOK
<1>9. StepsFit'
  BY <1>1, <1>2, <1>3, <1>7 DEF StepsFit
<1>10. Quiet'
  <2>1. CASE (\A j \in Jobs : job'[j].state # "running") /\ pass' = "idle"
    BY <2>1 DEF Quiet, Alone, Running
  <2>2. CASE agent.action \notin Restarts /\ job' = job /\ pass' = pass
    <3>1. Alone => Alone'
      BY <2>2 DEF Alone, Running
    <3>2. agent.action # "rollback" /\ agent.at = "working"
      BY <1>2, <2>2 DEF Restarts, Versions
    <3>3. QED
      BY <1>1, <1>7, <3>1, <3>2 DEF Quiet
  <2>3. CASE agent.action \in Restarts /\ outcome = "failed"
    BY <1>5, <2>3 DEF Quiet
  <2>4. QED
    BY <1>4, <2>1, <2>2, <2>3
<1>11. QED
  BY <1>8, <1>9, <1>10 DEF IInv

LEMMA AgentEndsStep ==
    ASSUME IInv, AgentEnds
    PROVE  IInv'
<1>1. TypeOK /\ StepsFit /\ Quiet
  BY DEF IInv
<1>2. /\ agent.at = "ending" /\ agent' = [at |-> "idle", id |-> 0, action |-> Nothing, outcome |-> Nothing]
      /\ maint' = IF agent.action \in Restarts /\ agent.outcome # "stays" THEN Off ELSE maint
      /\ report' = [id |-> agent.id, action |-> agent.action,
                    state |-> IF agent.outcome = "stays" THEN "failed" ELSE agent.outcome]
  BY DEF AgentEnds
<1>3. agent.outcome \in {"succeeded", "failed", "stays"}
  BY <1>1, <1>2 DEF TypeOK, StepsFit
<1>4. agent' \in Agents /\ report' \in Reports /\ maint' \in Maintenances
  BY <1>1, <1>2, <1>3, IdsFit DEF TypeOK, Agents, Reports, Maintenances, Off
<1>5. UNCHANGED <<policy, job, request, overdue, held, asked, pass, used>>
  BY DEF AgentEnds
<1>6. TypeOK'
  BY <1>1, <1>4, <1>5 DEF TypeOK
<1>7. StepsFit'
  BY <1>1, <1>2, <1>5 DEF StepsFit, Off
<1>8. Quiet'
  BY <1>1, <1>2, <1>5 DEF Quiet, Alone, Running, Off
<1>9. QED
  BY <1>6, <1>7, <1>8 DEF IInv

LEMMA PowerLossStep ==
    ASSUME IInv, PowerLoss
    PROVE  IInv'
<1>1. TypeOK /\ StepsFit /\ Quiet
  BY DEF IInv
<1>2. /\ agent' = [at |-> "idle", id |-> 0, action |-> Nothing, outcome |-> Nothing] /\ asked' = Nothing
      /\ used.asks + used.losses < MaxEvents /\ used' = [used EXCEPT !.losses = @ + 1] /\ WorkerStops
  BY DEF PowerLoss, Event
<1>3. used' \in Uses /\ agent' \in Agents
  BY <1>1, EventFits, IdsFit DEF PowerLoss, Agents
<1>4. /\ job' \in [Jobs -> JobRows] /\ \A j \in Jobs : job'[j].state # "running"
      /\ held' = Nothing /\ pass' = "idle"
  BY <1>1, <1>2, StopsFit
<1>5. UNCHANGED <<policy, request, report, maint, overdue>>
  BY DEF PowerLoss
<1>6. TypeOK'
  BY <1>1, <1>2, <1>3, <1>4, <1>5 DEF TypeOK
<1>7. StepsFit'
  BY <1>1, <1>2, <1>4, <1>5 DEF StepsFit
<1>8. Quiet'
  BY <1>4 DEF Quiet, Alone, Running
<1>9. QED
  BY <1>6, <1>7, <1>8 DEF IInv

-----------------------------------------------------------------------------
(* People.                                                                 *)

LEMMA DatesPassStep ==
    ASSUME IInv, DatesPass
    PROVE  IInv'
<1>1. TypeOK /\ StepsFit /\ Quiet
  BY DEF IInv
<1>2. PICK S \in SUBSET Policies : policy' = [p \in Policies |-> [policy[p] EXCEPT !.due = @ \/ p \in S]]
  BY DEF DatesPass
<1>3. \A p \in Policies : policy'[p] \in Rows /\ policy'[p].request = policy[p].request
  <2>1. \A p \in Policies : policy[p] \in Rows /\ (policy[p].due \/ p \in S) \in BOOLEAN
    BY <1>1 DEF TypeOK
  <2>2. \A p \in Policies : policy'[p] = [policy[p] EXCEPT !.due = policy[p].due \/ p \in S]
    BY <1>2
  <2>3. \A row \in Rows, b \in BOOLEAN : [row EXCEPT !.due = b] \in Rows /\ [row EXCEPT !.due = b].request = row.request
    BY DEF Rows
  <2>4. QED
    BY <2>1, <2>2, <2>3
<1>4. used' \in Uses
  BY <1>1, RotationAssumption DEF TypeOK, Uses, DatesPass
<1>5. UNCHANGED <<job, maint, overdue, held, asked, pass, agent, report, request>>
  BY DEF DatesPass, agentVars
<1>6. TypeOK'
  BY <1>1, <1>2, <1>3, <1>4, <1>5 DEF TypeOK
<1>7. StepsFit'
  BY <1>1, <1>3, <1>5 DEF StepsFit
<1>8. Quiet'
  BY <1>1, <1>5 DEF Quiet, Alone, Running
<1>9. QED
  BY <1>6, <1>7, <1>8 DEF IInv

LEMMA RotateNowStep ==
    ASSUME IInv, NEW p \in WorkerKinds, RotateNow(p)
    PROVE  IInv'
<1>1. TypeOK /\ StepsFit /\ Quiet
  BY DEF IInv
<1>2. /\ job' = [job EXCEPT ![Row] = [policy |-> p, state |-> "queued"]] /\ Row \in Jobs
  BY RowFits DEF RotateNow
<1>3. /\ job' \in [Jobs -> JobRows]
      /\ \A j \in Jobs : job'[j].state = "running" => job[j].state = "running"
  BY <1>1, <1>2 DEF TypeOK, JobRows
<1>4. used' \in Uses
  BY <1>1, EventFits DEF RotateNow
<1>5. UNCHANGED <<policy, maint, overdue, held, asked, pass, agent, report, request>>
  BY DEF RotateNow, agentVars
<1>6. TypeOK'
  BY <1>1, <1>3, <1>4, <1>5 DEF TypeOK
<1>7. StepsFit'
  BY <1>1, <1>5 DEF StepsFit
<1>8. Quiet'
  BY <1>1, <1>3, <1>5 DEF Quiet, Alone, Running
<1>9. QED
  BY <1>6, <1>7, <1>8 DEF IInv

LEMMA AskAgentStep ==
    ASSUME IInv, NEW action \in AgentKinds \cup Others, AskAgent(action)
    PROVE  IInv'
<1>1. TypeOK /\ StepsFit /\ Quiet
  BY DEF IInv
<1>2. asked' = action
  BY DEF AskAgent
<1>3. used' \in Uses
  BY <1>1, EventFits DEF AskAgent
<1>4. UNCHANGED <<policy, job, maint, overdue, held, pass, agent, report, request>>
  BY DEF AskAgent, agentVars
<1>5. TypeOK'
  BY <1>1, <1>2, <1>3, <1>4 DEF TypeOK
<1>6. StepsFit'
  BY <1>1, <1>2, <1>3, <1>4 DEF StepsFit
<1>7. Quiet'
  BY <1>1, <1>2, <1>3, <1>4 DEF Quiet, Alone, Running
<1>8. QED
  BY <1>5, <1>6, <1>7 DEF IInv

LEMMA WriteRequestStep ==
    ASSUME IInv, WriteRequest
    PROVE  IInv'
<1>1. TypeOK /\ StepsFit /\ Quiet
  BY DEF IInv
<1>2. asked \in AgentKinds \cup Others /\ asked' = Nothing /\ request' = Request(asked)
  BY <1>1 DEF WriteRequest, TypeOK
<1>3. FreshId \in Ids /\ request' \in Requests
  BY <1>1, <1>2, FreshFits, RequestFits
<1>4. /\ policy' \in [Policies -> Rows]
      /\ \A p \in Policies \ AgentKinds : policy'[p] = policy[p]
  BY <1>1, <1>3 DEF WriteRequest, TypeOK, Rows, Policies
<1>5. UNCHANGED <<job, agent, report, maint, overdue, held, pass, used>>
  BY DEF WriteRequest
<1>6. TypeOK'
  BY <1>1, <1>2, <1>3, <1>4, <1>5 DEF TypeOK
<1>7. StepsFit'
  BY <1>1, <1>4, <1>5 DEF StepsFit
<1>8. Quiet'
  BY <1>1, <1>5 DEF Quiet, Alone, Running
<1>9. QED
  BY <1>6, <1>7, <1>8 DEF IInv

LEMMA CancelJobStep ==
    ASSUME IInv, NEW j \in Jobs, CancelJob(j)
    PROVE  IInv'
<1>1. TypeOK /\ StepsFit /\ Quiet
  BY DEF IInv
<1>2. job' = Kept([job EXCEPT ![j].state = "cancelled"], overdue, held)
  BY DEF CancelJob
<1>3. /\ [job EXCEPT ![j].state = "cancelled"] \in [Jobs -> JobRows]
      /\ \A k \in Jobs : [job EXCEPT ![j].state = "cancelled"][k].state = "running" => job[k].state = "running"
  BY <1>1 DEF TypeOK, JobRows
<1>4. /\ job' \in [Jobs -> JobRows]
      /\ \A k \in Jobs : job'[k].state = "running" => job[k].state = "running"
  BY <1>2, <1>3, KeptFits
<1>5. UNCHANGED <<policy, maint, overdue, held, asked, pass, used, agent, report, request>>
  BY DEF CancelJob, agentVars
<1>6. TypeOK'
  BY <1>1, <1>4, <1>5 DEF TypeOK
<1>7. StepsFit'
  BY <1>1, <1>5 DEF StepsFit
<1>8. Quiet'
  BY <1>1, <1>4, <1>5 DEF Quiet, Alone, Running
<1>9. QED
  BY <1>6, <1>7, <1>8 DEF IInv

LEMMA StartOverdueStep ==
    ASSUME IInv, StartOverdue
    PROVE  IInv'
<1>1. TypeOK /\ StepsFit /\ Quiet
  BY DEF IInv
<1>2. /\ overdue' = [NoRun EXCEPT !.state = "running", !.ids = Overdue] /\ job' = Kept(job, overdue', held)
  BY DEF StartOverdue
<1>3. overdue' \in Runs
  BY <1>2 DEF NoRun, Runs, Overdue
<1>4. /\ job' \in [Jobs -> JobRows]
      /\ \A k \in Jobs : job'[k].state = "running" => job[k].state = "running"
  BY <1>1, <1>2, KeptFits DEF TypeOK
<1>5. used' \in Uses
  BY <1>1, EventFits DEF StartOverdue
<1>6. UNCHANGED <<policy, maint, held, asked, pass, agent, report, request>>
  BY DEF StartOverdue, agentVars
<1>7. TypeOK'
  BY <1>1, <1>3, <1>4, <1>5, <1>6 DEF TypeOK
<1>8. StepsFit'
  BY <1>1, <1>6 DEF StepsFit
<1>9. Quiet'
  BY <1>1, <1>4, <1>6 DEF Quiet, Alone, Running
<1>10. QED
  BY <1>7, <1>8, <1>9 DEF IInv

LEMMA CancelOverdueStep ==
    ASSUME IInv, CancelOverdue
    PROVE  IInv'
<1>1. TypeOK /\ StepsFit /\ Quiet
  BY DEF IInv
<1>2. overdue' = [overdue EXCEPT !.state = "cancelled"]
  BY DEF CancelOverdue
<1>3. overdue' \in Runs
  BY <1>1, <1>2 DEF TypeOK, Runs
<1>4. used' \in Uses
  BY <1>1, EventFits DEF CancelOverdue
<1>5. UNCHANGED <<policy, job, maint, held, asked, pass, agent, report, request>>
  BY DEF CancelOverdue, agentVars
<1>6. TypeOK'
  BY <1>1, <1>3, <1>4, <1>5 DEF TypeOK
<1>7. StepsFit'
  BY <1>1, <1>5 DEF StepsFit
<1>8. Quiet'
  BY <1>1, <1>5 DEF Quiet, Alone, Running
<1>9. QED
  BY <1>6, <1>7, <1>8 DEF IInv

LEMMA SetMaintenanceStep ==
    ASSUME IInv, SetMaintenance
    PROVE  IInv'
<1>1. TypeOK /\ StepsFit /\ Quiet
  BY DEF IInv
<1>2. /\ maint' \in Maintenances
      /\ maint'.active => maint'.by = "admin"
      /\ maint'.scheduled => maint'.by = "admin"
  <2>1. maint' \in {[active |-> TRUE, by |-> "admin", scheduled |-> FALSE],
                    [active |-> FALSE, by |-> "admin", scheduled |-> TRUE],
                    [active |-> FALSE, by |-> Nothing, scheduled |-> FALSE]}
    BY DEF SetMaintenance, Off
  <2>2. maint' \in Maintenances
    BY <2>1, MaintenanceFits
  <2>3. QED
    BY <2>1, <2>2
<1>3. used' \in Uses
  BY <1>1, EventFits DEF SetMaintenance
<1>4. UNCHANGED <<policy, job, overdue, held, asked, pass, agent, report, request>>
  BY DEF SetMaintenance, agentVars
<1>5. TypeOK'
  BY <1>1, <1>2, <1>3, <1>4 DEF TypeOK
<1>6. StepsFit'
  BY <1>1, <1>2, <1>3, <1>4 DEF StepsFit
<1>7. Quiet'
  BY <1>1, <1>2, <1>3, <1>4 DEF Quiet, Alone, Running
<1>8. QED
  BY <1>5, <1>6, <1>7 DEF IInv

-----------------------------------------------------------------------------
(* The worker.                                                             *)

\* A claim needs a reading of "off", and uses it up.
LEMMA ClaimStep ==
    ASSUME IInv, NEW j \in Jobs, Claim(j)
    PROVE  IInv'
<1>1. TypeOK /\ StepsFit /\ Quiet
  BY DEF IInv
<1>2. job' = [job EXCEPT ![j].state = "running"] /\ pass = "claim" /\ pass' \in {"idle", "read"}
  BY DEF Claim
<1>3. UNCHANGED <<policy, maint, overdue, held, asked, used, agent, report, request>>
  BY DEF Claim, agentVars
<1>4. TypeOK'
  BY <1>1, <1>2, <1>3 DEF TypeOK, JobRows
<1>5. StepsFit'
  BY <1>1, <1>2, <1>3 DEF StepsFit
<1>6. Quiet'
  <2>1. \A k \in Jobs : job'[k].state = "running" => k = j \/ job[k].state = "running"
    BY <1>1, <1>2 DEF TypeOK
  <2>2. Alone => Alone'
    BY <1>2, <2>1 DEF Alone, Running
  <2>3. QED
    BY <1>1, <1>3, <2>2 DEF Quiet
<1>7. QED
  BY <1>4, <1>5, <1>6 DEF IInv

\* A reading of "off" is made only while maintenance is off.
LEMMA ReadMaintenanceStep ==
    ASSUME IInv, ReadMaintenance
    PROVE  IInv'
<1>1. TypeOK /\ StepsFit /\ Quiet
  BY DEF IInv
<1>2. pass' \in {"idle", "claim"} /\ (maint.active => pass' = "idle")
  BY DEF ReadMaintenance
<1>3. UNCHANGED <<policy, job, maint, overdue, held, asked, used, agent, report, request>>
  BY DEF ReadMaintenance, agentVars
<1>4. TypeOK'
  BY <1>1, <1>2, <1>3 DEF TypeOK
<1>5. StepsFit'
  BY <1>1, <1>2, <1>3 DEF StepsFit
<1>6. Quiet'
  BY <1>1, <1>2, <1>3 DEF Quiet, Alone, Running
<1>7. QED
  BY <1>4, <1>5, <1>6 DEF IInv

LEMMA ClaimsNoneStep ==
    ASSUME IInv, ClaimsNone
    PROVE  IInv'
<1>1. TypeOK /\ StepsFit /\ Quiet
  BY DEF IInv
<1>2. pass' = "idle" /\ UNCHANGED <<policy, job, maint, overdue, held, asked, used, agent, report, request>>
  BY DEF ClaimsNone, agentVars
<1>3. TypeOK'
  BY <1>1, <1>2 DEF TypeOK
<1>4. StepsFit'
  BY <1>1, <1>2 DEF StepsFit
<1>5. Quiet'
  BY <1>1, <1>2 DEF Quiet, Alone, Running
<1>6. QED
  BY <1>3, <1>4, <1>5 DEF IInv

LEMMA JobEndsStep ==
    ASSUME IInv, NEW j \in Jobs, JobEnds(j)
    PROVE  IInv'
<1>1. TypeOK /\ StepsFit /\ Quiet
  BY DEF IInv
<1>2. PICK ok \in BOOLEAN :
        /\ policy' = [policy EXCEPT ![job[j].policy] = Settled(IF ok THEN "ok" ELSE "failed")]
        /\ job' = Kept([job EXCEPT ![j].state = IF ok THEN "succeeded" ELSE "failed"], overdue, held)
  BY DEF JobEnds
<1>3. PICK state \in {"succeeded", "failed"} : job' = Kept([job EXCEPT ![j].state = state], overdue, held)
  BY <1>2
<1>4. /\ [job EXCEPT ![j].state = state] \in [Jobs -> JobRows]
      /\ \A k \in Jobs : [job EXCEPT ![j].state = state][k].state = "running" => job[k].state = "running"
  BY <1>1 DEF TypeOK, JobRows
<1>5. /\ job' \in [Jobs -> JobRows]
      /\ \A k \in Jobs : job'[k].state = "running" => job[k].state = "running"
  BY <1>3, <1>4, KeptFits
<1>6. /\ policy' \in [Policies -> Rows]
      /\ \A p \in Policies : policy'[p].request \in {policy[p].request, 0}
  BY <1>1, <1>2, IdsFit DEF TypeOK, Rows, Settled
<1>7. UNCHANGED <<maint, overdue, held, asked, pass, used, agent, report, request>>
  BY DEF JobEnds, agentVars
<1>8. TypeOK'
  BY <1>1, <1>2, <1>3, <1>4, <1>5, <1>6, <1>7 DEF TypeOK
<1>9. StepsFit'
  BY <1>1, <1>6, <1>7 DEF StepsFit
<1>10. Quiet'
  BY <1>1, <1>2, <1>3, <1>4, <1>5, <1>6, <1>7 DEF Quiet, Alone, Running
<1>11. QED
  BY <1>8, <1>9, <1>10 DEF IInv

LEMMA PassBeginsStep ==
    ASSUME IInv, PassBegins
    PROVE  IInv'
<1>1. TypeOK /\ StepsFit /\ Quiet
  BY DEF IInv
<1>2. \/ /\ maint.active \/ maint.scheduled
         /\ maint' = [maint EXCEPT !.active = TRUE, !.scheduled = FALSE]
         /\ pass' = "read" /\ UNCHANGED <<request, used>>
      \/ /\ pass' = "reconcile" /\ maint' = maint
         /\ \/ Event("asks") /\ request' = Request("full_backup")
            \/ UNCHANGED <<request, used>>
  BY DEF PassBegins
<1>3. request' \in Requests \cup {Nothing}
  BY <1>1, <1>2, RequestFits DEF Others, TypeOK
<1>4. used' \in Uses
  BY <1>1, <1>2, EventFits DEF TypeOK
<1>5. pass' \in {"read", "reconcile"}
  BY <1>2
<1>6. /\ maint' \in Maintenances /\ maint'.by = maint.by /\ (maint'.scheduled => maint.scheduled)
      /\ maint'.active = maint.active \/ maint.scheduled
  BY <1>1, <1>2 DEF TypeOK, Maintenances
<1>7. UNCHANGED <<policy, job, agent, report, overdue, held, asked>>
  BY DEF PassBegins
<1>8. TypeOK'
  BY <1>1, <1>3, <1>4, <1>5, <1>6, <1>7 DEF TypeOK
<1>9. StepsFit'
  BY <1>1, <1>5, <1>6, <1>7 DEF StepsFit
<1>10. Quiet'
  BY <1>1, <1>5, <1>6, <1>7 DEF Quiet, Alone, Running, StepsFit
<1>11. QED
  BY <1>8, <1>9, <1>10 DEF IInv

LEMMA PassReconcilesStep ==
    ASSUME IInv, PassReconciles
    PROVE  IInv'
<1>1. TypeOK /\ StepsFit /\ Quiet
  BY DEF IInv
<1>2. /\ policy' \in [Policies -> Rows]
      /\ \A p \in Policies : policy'[p].request \in {policy[p].request, 0}
  BY <1>1, IdsFit DEF PassReconciles, TypeOK, Rows, Settled
<1>3. pass' = "advance" /\ UNCHANGED <<job, maint, overdue, held, asked, used, agent, report, request>>
  BY DEF PassReconciles, agentVars
<1>4. TypeOK'
  BY <1>1, <1>2, <1>3 DEF TypeOK
<1>5. StepsFit'
  BY <1>1, <1>2, <1>3 DEF StepsFit
<1>6. Quiet'
  BY <1>1, <1>2, <1>3 DEF Quiet, Alone, Running
<1>7. QED
  BY <1>4, <1>5, <1>6 DEF IInv

LEMMA PassLoadsRunStep ==
    ASSUME IInv, PassLoadsRun
    PROVE  IInv'
<1>1. TypeOK /\ StepsFit /\ Quiet
  BY DEF IInv
<1>2. /\ pass' \in {"rest", "handover"} /\ (pass' = "handover" => held' \in Runs) /\ held' \in Runs \cup {Nothing}
      /\ overdue' \in Runs /\ \/ job' = job
                              \/ job' = Kept(job, overdue', held)
  <2>1. Stopped("stopped") \in Runs
    BY <1>1 DEF Stopped, TypeOK, Runs
  <2>2. [Stopped("running") EXCEPT !.done = IF overdue.current = Nothing THEN @ ELSE @ \cup {overdue.current}] \in Runs
    BY <1>1 DEF Stopped, TypeOK, Runs
  <2>3. QED
    BY <1>1, <2>1, <2>2 DEF PassLoadsRun, TypeOK
<1>3. /\ job' \in [Jobs -> JobRows]
      /\ \A k \in Jobs : job'[k].state = "running" => job[k].state = "running"
  BY <1>1, <1>2, KeptFits DEF TypeOK
<1>4. UNCHANGED <<policy, maint, asked, used, agent, report, request>>
  BY DEF PassLoadsRun, agentVars
<1>5. TypeOK'
  BY <1>1, <1>2, <1>3, <1>4 DEF TypeOK
<1>6. StepsFit'
  BY <1>1, <1>2, <1>3, <1>4 DEF StepsFit
<1>7. Quiet'
  BY <1>1, <1>2, <1>3, <1>4 DEF Quiet, Alone, Running
<1>8. QED
  BY <1>5, <1>6, <1>7 DEF IInv

\* What a handover writes: a job for the worker's policies, a request for the agent's, or neither.
LEMMA HandsOver ==
    ASSUME IInv, PassHandsOver
    PROVE  /\ overdue' \in Runs
           /\ \/ job' = Kept(job, overdue', Nothing)
              \/ \E p \in WorkerKinds : job' = Kept([job EXCEPT ![Row] = [policy |-> p, state |-> "queued"]], overdue', Nothing)
           /\ \/ UNCHANGED <<policy, request>>
              \/ \E p \in AgentKinds : /\ request' = Request(p)
                                       /\ policy' = [policy EXCEPT ![p].status = "running", ![p].request = FreshId]
<1>1. held \in Runs
  BY DEF IInv, StepsFit, PassHandsOver
<1> DEFINE fit == {i \in DOMAIN Order : Order[i] \in held.ids /\ policy[Order[i]].status # "running"}
           next == CHOOSE i \in fit : \A k \in fit : i <= k
           p == Order[next]
           rest == held.ids \cap {Order[i] : i \in (next + 1)..Len(Order)}
           run == [held EXCEPT !.ids = rest, !.current = p]
<1>2. CASE fit = {}
  <2>1. overdue' = [held EXCEPT !.state = "done", !.ids = {}] /\ job' = Kept(job, overdue', Nothing) /\ UNCHANGED <<policy, request>>
    BY <1>2 DEF PassHandsOver
  <2>2. QED
    BY <1>1, <2>1 DEF Runs
<1>3. CASE fit # {}
  <2>1. fit \subseteq DOMAIN Order /\ fit \in SUBSET Nat
    BY OrderFits
  <2>2. next \in fit
    <3> HIDE DEF fit
    <3>1. \E i \in fit : \A k \in fit : i <= k
      BY <1>3, <2>1, Smallest
    <3>2. QED
      BY <3>1
  <2>3. p \in Policies
    <3> HIDE DEF fit, next
    <3>1. QED
      BY <2>1, <2>2, OrderFits
  <2>4. rest \subseteq Policies
    BY <1>1 DEF Runs
  <2>5. CASE p \in AgentKinds /\ Busy
    <3>1. overdue' = [held EXCEPT !.state = "stopped", !.ids = rest] /\ job' = Kept(job, overdue', Nothing)
          /\ UNCHANGED <<policy, request>>
      BY <1>3, <2>5 DEF PassHandsOver
    <3> HIDE DEF fit, next, p, rest
    <3>2. QED
      BY <1>1, <2>4, <3>1 DEF Runs
  <2>6. CASE p \in AgentKinds /\ ~Busy
    <3>1. request' = Request(p) /\ policy' = [policy EXCEPT ![p].status = "running", ![p].request = FreshId]
          /\ overdue' = run /\ job' = Kept(job, overdue', Nothing)
      BY <1>3, <2>6 DEF PassHandsOver
    <3> HIDE DEF fit, next, p, rest
    <3>2. run \in Runs
      BY <1>1, <2>3, <2>4 DEF Runs
    <3> HIDE DEF run
    <3>3. QED
      BY <2>6, <3>1, <3>2
  <2>7. CASE p \notin AgentKinds
    <3>1. Free # {} /\ overdue' = [run EXCEPT !.job = Row] /\ UNCHANGED <<policy, request>>
          /\ job' = Kept([job EXCEPT ![Row] = [policy |-> p, state |-> "queued"]], overdue', Nothing)
      BY <1>3, <2>7 DEF PassHandsOver
    <3> HIDE DEF fit, next, p, rest
    <3>2. [run EXCEPT !.job = Row] \in Runs
      BY <1>1, <2>3, <2>4, <3>1, RowFits DEF Runs
    <3>3. p \in WorkerKinds
      BY <2>3, <2>7 DEF Policies
    <3> HIDE DEF run
    <3>4. QED
      BY <3>1, <3>2, <3>3
  <2>8. QED
    BY <2>5, <2>6, <2>7
<1>4. QED
  BY <1>2, <1>3

\* What the pass queues: jobs for the worker's policies, and one request at most.
LEMMA Queues ==
    ASSUME PassQueues
    PROVE  \E ready \in SUBSET Policies, theirs \in SUBSET AgentKinds :
             /\ \E rows \in [ready \cap WorkerKinds -> Free] :
                   job' = [j \in Jobs |-> IF j \in Range(rows)
                                          THEN [policy |-> CHOOSE p \in ready \cap WorkerKinds : rows[p] = j, state |-> "queued"]
                                          ELSE job[j]]
             /\ \/ /\ policy' = [p \in Policies |-> IF p \in theirs THEN Settled("failed") ELSE policy[p]]
                   /\ UNCHANGED request
                \/ \E first \in theirs :
                     /\ request' = Request(first)
                     /\ policy' = [p \in Policies |->
                                       IF p = first THEN [policy[p] EXCEPT !.status = "running", !.request = FreshId]
                                       ELSE IF p \in theirs THEN Settled("failed") ELSE policy[p]]
<1> DEFINE all == {p \in Policies : policy[p].due /\ policy[p].status # "running" /\ JobOf(p) = {}}
<1>1. PICK window \in BOOLEAN :
        /\ \E rows \in [all \cap WorkerKinds -> Free] :
              job' = [j \in Jobs |-> IF j \in Range(rows)
                                     THEN [policy |-> CHOOSE p \in all \cap WorkerKinds : rows[p] = j, state |-> "queued"]
                                     ELSE job[j]]
        /\ \/ /\ policy' = [p \in Policies |-> IF p \in IF window THEN all \cap AgentKinds ELSE {}
                                                THEN Settled("failed") ELSE policy[p]]
              /\ UNCHANGED request
           \/ \E first \in IF window THEN all \cap AgentKinds ELSE {} :
                /\ request' = Request(first)
                /\ policy' = [p \in Policies |->
                                  IF p = first THEN [policy[p] EXCEPT !.status = "running", !.request = FreshId]
                                  ELSE IF p \in IF window THEN all \cap AgentKinds ELSE {}
                                  THEN Settled("failed") ELSE policy[p]]
  BY DEF PassQueues
<1>2. all \in SUBSET Policies
  OBVIOUS
<1> HIDE DEF all
<1>3. PICK these \in SUBSET AgentKinds : these = IF window THEN all \cap AgentKinds ELSE {}
  OBVIOUS
<1>4. QED
  BY <1>1, <1>2, <1>3

LEMMA PassHandsOverStep ==
    ASSUME IInv, PassHandsOver
    PROVE  IInv'
<1>1. TypeOK /\ StepsFit /\ Quiet
  BY DEF IInv
<1>2. /\ held \in Runs /\ pass' = "rest" /\ held' = Nothing
      /\ UNCHANGED <<agent, report, maint, asked, used>>
  BY <1>1 DEF PassHandsOver, StepsFit
<1>3. /\ overdue' \in Runs
      /\ \/ job' = Kept(job, overdue', Nothing)
         \/ \E p \in WorkerKinds : job' = Kept([job EXCEPT ![Row] = [policy |-> p, state |-> "queued"]], overdue', Nothing)
      /\ \/ UNCHANGED <<policy, request>>
         \/ \E p \in AgentKinds : /\ request' = Request(p)
                                  /\ policy' = [policy EXCEPT ![p].status = "running", ![p].request = FreshId]
  BY HandsOver
<1>4. /\ job' \in [Jobs -> JobRows]
      /\ \A k \in Jobs : job'[k].state = "running" => job[k].state = "running"
  <2>1. CASE job' = Kept(job, overdue', Nothing)
    BY <1>1, <2>1, KeptFits DEF TypeOK
  <2>2. ASSUME NEW p \in WorkerKinds, job' = Kept([job EXCEPT ![Row] = [policy |-> p, state |-> "queued"]], overdue', Nothing)
        PROVE  /\ job' \in [Jobs -> JobRows]
               /\ \A k \in Jobs : job'[k].state = "running" => job[k].state = "running"
    <3> DEFINE rows == [job EXCEPT ![Row] = [policy |-> p, state |-> "queued"]]
    <3>1. rows \in [Jobs -> JobRows] /\ \A k \in Jobs : rows[k].state = "running" => job[k].state = "running"
      BY <1>1 DEF TypeOK, JobRows
    <3> HIDE DEF rows
    <3>2. /\ Kept(rows, overdue', Nothing) \in [Jobs -> JobRows]
          /\ \A k \in Jobs : Kept(rows, overdue', Nothing)[k].state = "running" => rows[k].state = "running"
      BY <3>1, KeptFits
    <3>3. job' = Kept(rows, overdue', Nothing)
      BY <2>2 DEF rows
    <3>4. QED
      BY <3>1, <3>2, <3>3
  <2>3. QED
    BY <1>3, <2>1, <2>2
<1>5. /\ request' \in Requests \cup {Nothing} /\ policy' \in [Policies -> Rows]
      /\ \A p \in Policies \ AgentKinds : policy'[p] = policy[p]
  <2>1. CASE UNCHANGED <<policy, request>>
    BY <1>1, <2>1 DEF TypeOK
  <2>2. ASSUME NEW p \in AgentKinds, request' = Request(p),
               policy' = [policy EXCEPT ![p].status = "running", ![p].request = FreshId]
        PROVE  /\ request' \in Requests \cup {Nothing} /\ policy' \in [Policies -> Rows]
               /\ \A q \in Policies \ AgentKinds : policy'[q] = policy[q]
    <3>1. request' \in Requests
      BY <1>1, <2>2, RequestFits
    <3>2. FreshId \in Ids
      BY <1>1, FreshFits
    <3>3. p \in Policies /\ policy \in [Policies -> Rows]
      BY <1>1 DEF TypeOK, Policies
    <3>4. policy' \in [Policies -> Rows] /\ \A q \in Policies \ AgentKinds : policy'[q] = policy[q]
      BY <2>2, <3>2, <3>3 DEF Rows
    <3>5. QED
      BY <3>1, <3>4
  <2>3. QED
    BY <1>3, <2>1, <2>2
<1>6. TypeOK'
  BY <1>1, <1>2, <1>3, <1>4, <1>5 DEF TypeOK
<1>7. StepsFit'
  BY <1>1, <1>2, <1>5 DEF StepsFit
<1>8. Quiet'
  BY <1>1, <1>2, <1>4 DEF Quiet, Alone, Running
<1>9. QED
  BY <1>6, <1>7, <1>8 DEF IInv

LEMMA PassQueuesStep ==
    ASSUME IInv, PassQueues
    PROVE  IInv'
<1>1. TypeOK /\ StepsFit /\ Quiet
  BY DEF IInv
<1>2. PICK ready \in SUBSET Policies, theirs \in SUBSET AgentKinds :
        /\ \E rows \in [ready \cap WorkerKinds -> Free] :
              job' = [j \in Jobs |-> IF j \in Range(rows)
                                     THEN [policy |-> CHOOSE p \in ready \cap WorkerKinds : rows[p] = j, state |-> "queued"]
                                     ELSE job[j]]
        /\ \/ /\ policy' = [p \in Policies |-> IF p \in theirs THEN Settled("failed") ELSE policy[p]]
              /\ UNCHANGED request
           \/ \E first \in theirs :
                /\ request' = Request(first)
                /\ policy' = [p \in Policies |->
                                  IF p = first THEN [policy[p] EXCEPT !.status = "running", !.request = FreshId]
                                  ELSE IF p \in theirs THEN Settled("failed") ELSE policy[p]]
  BY Queues
<1>3. pass' = "read" /\ UNCHANGED <<agent, report, maint, overdue, held, asked, used>>
  BY DEF PassQueues
<1>4. /\ job' \in [Jobs -> JobRows]
      /\ \A k \in Jobs : job'[k].state = "running" => job[k].state = "running"
  <2> DEFINE own == ready \cap WorkerKinds
  <2>1. PICK rows \in [own -> Free] :
          job' = [j \in Jobs |-> IF j \in Range(rows)
                                 THEN [policy |-> CHOOSE p \in own : rows[p] = j, state |-> "queued"]
                                 ELSE job[j]]
    BY <1>2
  <2>2. \A j \in Range(rows) : (CHOOSE p \in own : rows[p] = j) \in WorkerKinds
    BY DEF Range
  <2>3. QED
    BY <1>1, <2>1, <2>2 DEF TypeOK, JobRows
<1>5. /\ request' \in Requests \cup {Nothing} /\ policy' \in [Policies -> Rows]
      /\ \A p \in Policies \ AgentKinds : policy'[p].request \in {policy[p].request, 0}
  <2>1. \A p \in Policies : policy[p] \in Rows /\ Settled("failed") \in Rows
    BY <1>1, IdsFit DEF TypeOK, Rows, Settled
  <2>2. CASE /\ policy' = [p \in Policies |-> IF p \in theirs THEN Settled("failed") ELSE policy[p]]
             /\ UNCHANGED request
    BY <1>1, <2>1, <2>2 DEF TypeOK, Settled
  <2>3. ASSUME NEW first \in theirs, request' = Request(first),
               policy' = [p \in Policies |->
                            IF p = first THEN [policy[p] EXCEPT !.status = "running", !.request = FreshId]
                            ELSE IF p \in theirs THEN Settled("failed") ELSE policy[p]]
        PROVE  /\ request' \in Requests \cup {Nothing} /\ policy' \in [Policies -> Rows]
               /\ \A p \in Policies \ AgentKinds : policy'[p].request \in {policy[p].request, 0}
    <3>1. request' \in Requests
      BY <1>1, <2>3, RequestFits
    <3>2. \A p \in Policies : [policy[p] EXCEPT !.status = "running", !.request = FreshId] \in Rows
      BY <1>1, <2>1, FreshFits DEF Rows
    <3>3. QED
      BY <2>1, <2>3, <3>1, <3>2 DEF Settled
  <2>4. QED
    BY <1>2, <2>2, <2>3
<1>6. TypeOK'
  BY <1>1, <1>3, <1>4, <1>5 DEF TypeOK
<1>7. StepsFit'
  BY <1>1, <1>3, <1>5 DEF StepsFit
<1>8. Quiet'
  BY <1>1, <1>3, <1>4 DEF Quiet, Alone, Running
<1>9. QED
  BY <1>6, <1>7, <1>8 DEF IInv

-----------------------------------------------------------------------------
(* When the outcome of a rotation is lost.                                 *)

\* With the files as they were, a policy that was carried still is.
LEMMA CarriedOn ==
    ASSUME NEW p \in AgentKinds, Stuck(p)', ~Stuck(p), UNCHANGED <<request, agent, report>>,
           policy'[p].status = "running" => policy'[p].status = policy[p].status /\ policy'[p].request = policy[p].request
    PROVE  FALSE
BY DEF Stuck, Carried

\* A request written now carries its own policy and leaves the others as they were.
LEMMA WrittenCarries ==
    ASSUME IInv, NEW p \in AgentKinds, Stuck(p)', ~Stuck(p), NEW a \in AgentKinds \cup Others,
           request' = Request(a), UNCHANGED <<agent, report>>,
           \/ policy'[p].status = "running" => policy'[p].status = policy[p].status /\ policy'[p].request = policy[p].request
           \/ policy'[p].request = FreshId
    PROVE  request # Nothing /\ request' # Nothing
<1>1. request' # Nothing /\ request'.id = FreshId
  BY RequestFits DEF IInv
<1>2. policy'[p].status = "running" /\ policy'[p].request # FreshId
  BY <1>1 DEF Stuck, Carried
<1>3. policy[p].status = "running" /\ policy[p].request = policy'[p].request
  BY <1>2
<1>4. Carried(p) /\ ~Carried(p)'
  BY <1>2, <1>3 DEF Stuck
<1>5. request # Nothing
  BY <1>3, <1>4 DEF Carried
<1>6. QED
  BY <1>1, <1>5

LEMMA AgentCarries ==
    ASSUME IInv, AgentStep, NEW p \in AgentKinds, Stuck(p)', ~Stuck(p)
    PROVE  report'.id # report.id
<1>1. TypeOK /\ StepsFit /\ policy' = policy
  BY DEF IInv, AgentStep, AgentTakes, AgentBegins, AgentTurnsOn, AgentDrains, AgentWorks, AgentEnds
<1>2. policy[p].status = "running" /\ Carried(p) /\ ~Carried(p)'
  BY <1>1 DEF Stuck
<1>3. CASE AgentTakes
  BY <1>1, <1>2, <1>3 DEF AgentTakes, Carried
<1>4. CASE AgentBegins
  BY <1>2, <1>4 DEF AgentBegins, Carried, Goes
<1>5. CASE AgentTurnsOn \/ AgentDrains \/ AgentWorks
  <2>1. agent.at # "idle" /\ agent'.at # "idle" /\ agent'.id = agent.id /\ UNCHANGED <<request, report>>
    <3>1. DOMAIN agent = {"at", "id", "action", "outcome"}
      BY <1>1 DEF TypeOK, Agents
    <3>2. agent'.at # "idle" /\ agent'.id = agent.id
      <4>1. CASE AgentTurnsOn
        BY <3>1, <4>1 DEF AgentTurnsOn, Goes
      <4>2. CASE AgentDrains
        BY <3>1, <4>2 DEF AgentDrains, Goes
      <4>3. CASE AgentWorks
        BY <3>1, <4>3 DEF AgentWorks
      <4>4. QED
        BY <1>5, <4>1, <4>2, <4>3
    <3>3. agent.at # "idle"
      BY <1>5 DEF AgentTurnsOn, AgentDrains, AgentWorks
    <3>4. QED
      BY <1>5, <3>2, <3>3 DEF AgentTurnsOn, AgentDrains, AgentWorks
  <2>2. QED
    BY <1>1, <1>2, <2>1 DEF Carried
<1>6. CASE AgentEnds
  <2>1. report'.id = agent.id /\ report'.state \in {"succeeded", "failed"} /\ UNCHANGED request
    BY <1>1, <1>6 DEF AgentEnds, StepsFit
  <2>2. QED
    BY <1>1, <1>2, <2>1 DEF Carried
<1>7. QED
  BY <1>3, <1>4, <1>5, <1>6 DEF AgentStep

\* People change no policy's status and no file, and the worker's steps that write no request only settle.
LEMMA OthersCarry ==
    ASSUME IInv, NEW p \in AgentKinds, Stuck(p)', ~Stuck(p),
           PeopleAsk \/ JobStep \/ PassReconciles \/ PassLoadsRun \/ ReadMaintenance \/ ClaimsNone \/ \E j \in Jobs : Claim(j)
    PROVE  FALSE
<1>1. TypeOK /\ p \in Policies
  BY DEF IInv, Policies
<1>2. UNCHANGED <<request, agent, report>>
  BY DEF PeopleAsk, JobStep, PassReconciles, PassLoadsRun, DatesPass, RotateNow, AskAgent, CancelJob, StartOverdue,
         CancelOverdue, SetMaintenance, ReadMaintenance, ClaimsNone, Claim, JobEnds, agentVars
<1>3. policy'[p].status = "running" => policy'[p].status = policy[p].status /\ policy'[p].request = policy[p].request
  <2>1. CASE policy' = policy
    BY <2>1
  <2>2. CASE DatesPass
    <3>1. PICK S \in SUBSET Policies : policy' = [q \in Policies |-> [policy[q] EXCEPT !.due = @ \/ q \in S]]
      BY <2>2 DEF DatesPass
    <3>2. policy'[p] = [policy[p] EXCEPT !.due = policy[p].due \/ p \in S]
      BY <1>1, <3>1
    <3>3. policy[p] \in Rows
      BY <1>1 DEF TypeOK
    <3>4. QED
      BY <3>2, <3>3 DEF Rows
  <2>3. ASSUME NEW j \in Jobs, JobEnds(j)
        PROVE  policy'[p].status = "running" => policy'[p].status = policy[p].status /\ policy'[p].request = policy[p].request
    BY <1>1, <2>3 DEF JobEnds, TypeOK, Settled
  <2>4. CASE PassReconciles
    BY <1>1, <2>4 DEF PassReconciles, TypeOK, Settled
  <2>5. QED
    BY <2>1, <2>2, <2>3, <2>4 DEF PeopleAsk, JobStep, PassLoadsRun, RotateNow, AskAgent, CancelJob, StartOverdue,
       CancelOverdue, SetMaintenance, ReadMaintenance, ClaimsNone, Claim
<1>4. QED
  BY <1>2, <1>3, CarriedOn

-----------------------------------------------------------------------------
(* The theorems.                                                           *)

THEOREM InitIInv == Init => IInv
<1> SUFFICES ASSUME Init PROVE IInv
  OBVIOUS
<1>1. 0 \in Ids
  BY IdsFit
<1>2. TypeOK
  BY <1>1, RotationAssumption DEF Init, TypeOK, Rows, JobRows, Runs, NoRun, Off, Agents, Reports, Maintenances,
     Uses
<1>3. StepsFit /\ Quiet
  BY DEF Init, StepsFit, Quiet, Off, Policies
<1>4. QED
  BY <1>2, <1>3 DEF IInv

LEMMA Stutters == ASSUME IInv, UNCHANGED vars PROVE IInv'
<1>1. TypeOK'
  BY DEF IInv, TypeOK, vars
<1>2. StepsFit' /\ Quiet'
  BY DEF IInv, StepsFit, Quiet, Alone, Running, vars
<1>3. QED
  BY <1>1, <1>2 DEF IInv

THEOREM NextIInv == IInv /\ [Next]_vars => IInv'
<1> SUFFICES ASSUME IInv, [Next]_vars PROVE IInv'
  OBVIOUS
<1>1. CASE AgentStep
  BY <1>1, AgentTakesStep, AgentBeginsStep, AgentTurnsOnStep, AgentDrainsStep, AgentWorksStep, AgentEndsStep
     DEF AgentStep
<1>2. CASE PowerLoss
  BY <1>2, PowerLossStep
<1>3. CASE PeopleAsk
  BY <1>3, DatesPassStep, RotateNowStep, AskAgentStep, CancelJobStep, StartOverdueStep, CancelOverdueStep,
     SetMaintenanceStep DEF PeopleAsk
<1>4. CASE WriteRequest
  BY <1>4, WriteRequestStep
<1>5. CASE WorkerStep
  BY <1>5, PassBeginsStep, PassReconcilesStep, PassLoadsRunStep, PassHandsOverStep, PassQueuesStep,
     ReadMaintenanceStep, ClaimStep, ClaimsNoneStep DEF WorkerStep
<1>6. CASE JobStep
  BY <1>6, JobEndsStep DEF JobStep
<1>7. CASE UNCHANGED vars
  BY <1>7, Stutters
<1>8. QED
  BY <1>1, <1>2, <1>3, <1>4, <1>5, <1>6, <1>7 DEF Next

\* The rows and files fit together in every reachable state, and the agent's maintenance stops the
\* jobs but one that was claimed on an earlier reading.
THEOREM Invariance == Spec => []IInv
<1>1. Init => IInv
  BY InitIInv
<1>2. IInv /\ [Next]_vars => IInv'
  BY NextIInv
<1>3. QED
  BY <1>1, <1>2, PTL DEF Spec

\* Every row and file keeps its type, for any policies and any number of events; the ids in use never
\* use up Ids, so a new request always has one of its own (update.py, write_request).
THEOREM TypeCorrect == Spec => []TypeOK
<1>1. IInv => TypeOK
  BY DEF IInv
<1>2. QED
  BY <1>1, Invariance, PTL

\* While the agent restarts the stack under its maintenance at most one job runs, claimed on a
\* reading from before (agent script, drain; engine/runner.py, serve).
THEOREM WorksAloneAlways == Spec => []WorksAlone
<1>1. IInv => WorksAlone
  BY DEF IInv, Quiet, WorksAlone
<1>2. QED
  BY <1>1, Invariance, PTL

\* The outcome of a rotation is lost only in a power loss, by another report before the worker read it,
\* or by a request written over one that waits (rotation.py, reconcile_agent; update.py, write_request).
THEOREM LostOnlySo == Spec => OutcomeLost
<1> DEFINE Lost == \A p \in AgentKinds : Stuck(p)' /\ ~Stuck(p) =>
                       \/ used'.losses # used.losses
                       \/ report'.id # report.id
                       \/ request # Nothing /\ request' # Nothing
<1>1. IInv /\ [Next]_vars => [Lost]_vars
  <2> SUFFICES ASSUME IInv, Next, NEW p \in AgentKinds, Stuck(p)', ~Stuck(p)
               PROVE  used'.losses # used.losses \/ report'.id # report.id \/ (request # Nothing /\ request' # Nothing)
    OBVIOUS
  <2>1. TypeOK /\ p \in Policies /\ policy \in [Policies -> Rows]
    BY DEF IInv, TypeOK, Policies
  <2>2. CASE PowerLoss
    BY <2>1, <2>2 DEF PowerLoss, Event, TypeOK, Uses
  <2>3. CASE AgentStep
    BY <2>3, AgentCarries
  <2>4. CASE PeopleAsk \/ JobStep \/ PassReconciles \/ PassLoadsRun \/ ReadMaintenance \/ ClaimsNone \/ \E j \in Jobs : Claim(j)
    BY <2>4, OthersCarry
  <2>5. CASE WriteRequest
    <3>1. asked \in AgentKinds \cup Others /\ request' = Request(asked) /\ UNCHANGED <<agent, report>>
      BY <2>1, <2>5 DEF WriteRequest, TypeOK
    <3>2. \/ policy'[p] = policy[p]
          \/ policy'[p].request = FreshId
      BY <2>1, <2>5 DEF WriteRequest, Rows
    <3>3. QED
      BY <3>1, <3>2, WrittenCarries
  <2>6. CASE PassBegins
    <3>1. policy' = policy /\ UNCHANGED <<agent, report>>
      BY <2>6 DEF PassBegins
    <3>2. CASE request' = request
      BY <3>1, <3>2, CarriedOn
    <3>3. CASE request' = Request("full_backup")
      BY <3>1, <3>3, WrittenCarries DEF Others
    <3>4. QED
      BY <2>6, <3>2, <3>3 DEF PassBegins
  <2>7. CASE PassHandsOver
    <3>1. UNCHANGED <<agent, report>>
      BY <2>7 DEF PassHandsOver
    <3>2. \/ UNCHANGED <<policy, request>>
          \/ \E a \in AgentKinds : /\ request' = Request(a)
                                   /\ policy' = [policy EXCEPT ![a].status = "running", ![a].request = FreshId]
      BY <2>7, HandsOver
    <3>3. CASE UNCHANGED <<policy, request>>
      BY <3>1, <3>3, CarriedOn
    <3>4. ASSUME NEW a \in AgentKinds, request' = Request(a),
                 policy' = [policy EXCEPT ![a].status = "running", ![a].request = FreshId]
          PROVE  request # Nothing /\ request' # Nothing
      <4>1. policy'[p] = policy[p] \/ policy'[p].request = FreshId
        BY <2>1, <3>4 DEF Rows
      <4>2. QED
        BY <3>1, <3>4, <4>1, WrittenCarries
    <3>5. QED
      BY <3>2, <3>3, <3>4
  <2>8. CASE PassQueues
    <3>1. UNCHANGED <<agent, report>>
      BY <2>8 DEF PassQueues
    <3>2. PICK theirs \in SUBSET AgentKinds :
            \/ /\ policy' = [q \in Policies |-> IF q \in theirs THEN Settled("failed") ELSE policy[q]]
               /\ UNCHANGED request
            \/ \E first \in theirs :
                 /\ request' = Request(first)
                 /\ policy' = [q \in Policies |->
                                   IF q = first THEN [policy[q] EXCEPT !.status = "running", !.request = FreshId]
                                   ELSE IF q \in theirs THEN Settled("failed") ELSE policy[q]]
      BY <2>8, Queues
    <3>3. CASE /\ policy' = [q \in Policies |-> IF q \in theirs THEN Settled("failed") ELSE policy[q]]
               /\ UNCHANGED request
      BY <2>1, <3>1, <3>3, CarriedOn DEF Settled
    <3>4. ASSUME NEW first \in theirs, request' = Request(first),
                 policy' = [q \in Policies |->
                                IF q = first THEN [policy[q] EXCEPT !.status = "running", !.request = FreshId]
                                ELSE IF q \in theirs THEN Settled("failed") ELSE policy[q]]
          PROVE  request # Nothing /\ request' # Nothing
      <4>1. \/ policy'[p].status = "running" => policy'[p].status = policy[p].status /\ policy'[p].request = policy[p].request
            \/ policy'[p].request = FreshId
        BY <2>1, <3>4 DEF Rows, Settled
      <4>2. QED
        BY <3>1, <3>4, <4>1, WrittenCarries
    <3>5. QED
      BY <3>2, <3>3, <3>4
  <2>9. QED
    BY <2>2, <2>3, <2>4, <2>5, <2>6, <2>7, <2>8 DEF Next, WorkerStep
<1>2. QED
  BY <1>1, Invariance, PTL DEF Spec, OutcomeLost

-----------------------------------------------------------------------------
(***************************************************************************)
(* What the agent does for one request: the rotation of a bootstrap secret. *)
(***************************************************************************)

(* A function that is the same everywhere is known by any of its values.    *)
LEMMA AllSame ==
    ASSUME NEW v, NEW p \in Parts(kind)
    PROVE  All(v)[p] = v
BY DEF All

LEMMA PartsExist == ASSUME kind \in Kinds PROVE \E p : p \in Parts(kind)
BY DEF Kinds, Parts, CaKeys

(* A service that opens with one value opens with no other.                 *)
LEMMA OneValue ==
    ASSUME kind \in Kinds, NEW v, NEW w, All(v) = All(w)
    PROVE  v = w
BY PartsExist, AllSame

THEOREM SecretInitInv == SecretInit => SecretInv
<1>1. SUFFICES ASSUME SecretInit PROVE SecretInv
  OBVIOUS
<1>2. SecretTypeOK
  BY <1>1, AgentAssumption DEF SecretInit, SecretTypeOK, All, Ends, Forward, Back
<1>3. CutOff /\ Dated
  BY <1>1 DEF SecretInit, CutOff, Dated
<1>4. OnTheWay /\ OnTheWayBack
  <2>1. Whole
    BY <1>1 DEF SecretInit, Whole, Agree
  <2>2. QED
    BY <1>1, <2>1 DEF SecretInit, OnTheWay, OnTheWayBack, Back
<1>6. KeptCopy /\ Changed
  BY <1>1 DEF SecretInit, KeptCopy, Changed
<1>5. QED
  BY <1>2, <1>3, <1>4, <1>6 DEF SecretInv

-----------------------------------------------------------------------------
(* Types. *)

LEMMA AllTyped == ASSUME NEW v \in Nat PROVE All(v) \in [Parts(kind) -> Nat]
BY DEF All

LEMMA ReencryptTyped ==
    ASSUME SecretTypeOK, NEW keys, NEW to \in Nat
    PROVE  Reencrypt(keys, to) \in [Parts(kind) -> Nat]
BY DEF Reencrypt, SecretTypeOK

LEMMA RepassTyped ==
    ASSUME SecretTypeOK, NEW from, NEW to \in Nat
    PROVE  /\ Repass(from, to) \in [Parts(kind) -> Nat]
           /\ RepassStops(from, to) \subseteq [Parts(kind) -> Nat]
BY ReencryptTyped DEF Repass, RepassStops, SecretTypeOK

LEMMA FaultsTyped ==
    ASSUME SecretTypeOK, pc # "idle", Works \/ Fails
    PROVE  faults' \in 0 .. MaxFaults /\ fault' \in {"none"} \cup Forward \cup Back
BY AgentAssumption DEF SecretTypeOK, Works, Fails

LEMMA MadeTyped ==
    ASSUME SecretTypeOK, Made
    PROVE  up' \in BOOLEAN /\ loaded' \in Nat /\ running' \in [Parts(kind) -> Nat]
<1>1. Starts \in BOOLEAN
  BY DEF Starts
<1>2. up' \in BOOLEAN
  BY <1>1 DEF Made, SecretTypeOK
<1>3. QED
  BY <1>2 DEF Made, SecretTypeOK

LEMMA TypeStep == ASSUME SecretTypeOK, KeptCopy, SecretNext PROVE SecretTypeOK'
<1> USE DEF Ends, Forward, Back
<1>1. CASE Start
  BY <1>1, AgentAssumption DEF Start, SecretTypeOK
<1>2. CASE Maintenance
  BY <1>2, FaultsTyped DEF Maintenance, SecretTypeOK, Unchanged, UntouchedFiles, GoTo, End
<1>3. CASE RewrapKeys
  <2>1. service' \in [Parts(kind) -> Nat]
    BY <1>3, AllTyped DEF RewrapKeys, SecretTypeOK
  <2>2. QED
    BY <1>3, <2>1, FaultsTyped DEF RewrapKeys, SecretTypeOK, Unchanged, UntouchedFiles, GoTo, End
<1>4. CASE AlterRole
  <2>1. service' \in [Parts(kind) -> Nat]
    BY <1>4, AllTyped DEF AlterRole, SecretTypeOK
  <2>2. QED
    BY <1>4, <2>1, FaultsTyped DEF AlterRole, SecretTypeOK, Unchanged, UntouchedFiles, GoTo, End
<1>5. CASE RepassKeys
  <2>1. service' \in [Parts(kind) -> Nat]
    BY <1>5, RepassTyped DEF RepassKeys, SecretTypeOK
  <2>2. QED
    BY <1>5, <2>1, FaultsTyped DEF RepassKeys, SecretTypeOK, Unchanged, UntouchedFiles, GoTo, End
<1>6. CASE RepassProvisioner
  <2>1. service' \in [Parts(kind) -> Nat]
    BY <1>6, ReencryptTyped DEF RepassProvisioner, SecretTypeOK
  <2>2. QED
    BY <1>6, <2>1, FaultsTyped DEF RepassProvisioner, SecretTypeOK, Unchanged, UntouchedFiles, GoTo, GoBack
<1>7. CASE SwapFiles
  BY <1>7 DEF SwapFiles, SecretTypeOK, Unchanged, Works, GoTo
<1>8. CASE Push
  BY <1>8, FaultsTyped DEF Push, SecretTypeOK, Unchanged, GoTo, GoBack, FirstBack
<1>9. CASE Recreate
  <2>1. up' \in BOOLEAN /\ loaded' \in Nat /\ running' \in [Parts(kind) -> Nat]
    BY <1>9, MadeTyped DEF Recreate
  <2>2. Works \/ Fails
    BY <1>9 DEF Recreate, Made
  <2>3. QED
    BY <1>9, <2>1, <2>2, FaultsTyped DEF Recreate, SecretTypeOK, Unchanged, UntouchedFiles, GoTo
<1>10. CASE CheckHealth
  BY <1>10, FaultsTyped DEF CheckHealth, SecretTypeOK, Unchanged, GoBack, End, FirstBack
<1>11. CASE RewrapBack
  <2>1. service' \in [Parts(kind) -> Nat]
    BY <1>11, AllTyped DEF RewrapBack, SecretTypeOK
  <2>2. QED
    BY <1>11, <2>1, FaultsTyped DEF RewrapBack, SecretTypeOK, Unchanged, UntouchedFiles, GoTo
<1>12. CASE AlterRoleBack
  <2>1. service' \in [Parts(kind) -> Nat]
    <3>1. old \in Nat
      BY <1>12 DEF AlterRoleBack, KeptCopy, SecretTypeOK
    <3>2. QED
      BY <1>12, <3>1, AllTyped DEF AlterRoleBack, SecretTypeOK
  <2>2. QED
    BY <1>12, <2>1, FaultsTyped DEF AlterRoleBack, SecretTypeOK, Unchanged, UntouchedFiles, GoTo
<1>13. CASE RepassBack
  <2>1. service' \in [Parts(kind) -> Nat]
    <3>1. why = "unhealthy" => old \in Nat
      BY <1>13 DEF RepassBack, KeptCopy
    <3>2. QED
      BY <1>13, <3>1, RepassTyped DEF RepassBack, SecretTypeOK
  <2>2. QED
    BY <1>13, <2>1, FaultsTyped DEF RepassBack, SecretTypeOK, Unchanged, UntouchedFiles, GoTo, End
<1>14. CASE ProvisionerBack
  <2>1. service' \in [Parts(kind) -> Nat]
    BY <1>14, ReencryptTyped DEF ProvisionerBack, KeptCopy, SecretTypeOK
  <2>2. QED
    BY <1>14, <2>1, FaultsTyped DEF ProvisionerBack, SecretTypeOK, Unchanged, UntouchedFiles, GoTo
<1>15. CASE FilesBack
  BY <1>15 DEF FilesBack, KeptCopy, SecretTypeOK, Unchanged, Works, GoTo
<1>16. CASE PushBack
  BY <1>16, FaultsTyped DEF PushBack, SecretTypeOK, Unchanged, GoTo, End
<1>17. CASE RecreateBack
  <2>1. up' \in BOOLEAN /\ loaded' \in Nat /\ running' \in [Parts(kind) -> Nat]
    BY <1>17, MadeTyped DEF RecreateBack
  <2>2. Works \/ Fails
    BY <1>17 DEF RecreateBack, Made
  <2>3. QED
    BY <1>17, <2>1, <2>2, FaultsTyped DEF RecreateBack, SecretTypeOK, Unchanged, UntouchedFiles, End
<1>18. CASE PowerGoes
  <2>1. up' \in BOOLEAN
    <3>1. PICK boots : up' = (kind = "ca_password" => Opens("intermediate_ca_key", boots))
      BY <1>18 DEF PowerGoes
    <3>2. QED
      BY <3>1
  <2>2. QED
    BY <1>18, <2>1 DEF PowerGoes, SecretTypeOK
<1>19. QED
  BY <1>1, <1>2, <1>3, <1>4, <1>5, <1>6, <1>7, <1>8, <1>9, <1>10, <1>11, <1>12,
     <1>13, <1>14, <1>15, <1>16, <1>17, <1>18 DEF SecretNext

(* The .old copy, and the rotation a power loss ends. *)
LEMMA CopyStep == ASSUME SecretTypeOK, KeptCopy, CutOff, SecretNext PROVE KeptCopy' /\ CutOff'
<1> USE DEF KeptCopy, CutOff, GoTo, GoBack, End, Unchanged, UntouchedFiles, FirstBack
<1>1. CASE Start \/ Maintenance \/ SwapFiles \/ Push \/ Recreate \/ CheckHealth
  BY <1>1 DEF Start, Maintenance, SwapFiles, Push, Recreate, CheckHealth, SecretTypeOK
<1>2. CASE RewrapKeys \/ AlterRole \/ RepassKeys \/ RepassProvisioner
  BY <1>2 DEF RewrapKeys, AlterRole, RepassKeys, RepassProvisioner
<1>3. CASE RewrapBack \/ AlterRoleBack \/ RepassBack \/ ProvisionerBack
  BY <1>3 DEF RewrapBack, AlterRoleBack, RepassBack, ProvisionerBack
<1>4. CASE FilesBack \/ PushBack \/ RecreateBack
  BY <1>4 DEF FilesBack, PushBack, RecreateBack
<1>5. CASE PowerGoes
  BY <1>5 DEF PowerGoes, SecretTypeOK
<1>6. QED
  BY <1>1, <1>2, <1>3, <1>4, <1>5 DEF SecretNext

-----------------------------------------------------------------------------
(* Where the values are.  A step that leaves the rotation sound found it    *)
(* sound, and if its command failed, no other had.                          *)
LEMMA SoundBefore ==
    ASSUME SecretTypeOK, Works \/ Fails, UNCHANGED <<kind, inStore, cut>>, Sound'
    PROVE  /\ Sound
           /\ Works => faults' = faults /\ fault' = fault
           /\ Fails => faults = 0 /\ faults' = 1 /\ <<kind, pc>> \notin Unrepaired
<1>1. cut \notin Between
  BY DEF Sound, Between
<1>2. CASE Works
  <2>1. Repaired
    BY <1>2 DEF Works, Sound, Repaired
  <2>2. ~Fails
    BY <1>2 DEF Works, Fails, SecretTypeOK
  <2>3. QED
    BY <1>1, <1>2, <2>1, <2>2 DEF Sound, Works
<1>3. CASE Fails
  <2>1. faults = 0 /\ faults' = 1 /\ fault' = pc
    BY <1>3 DEF Fails, Sound, Repaired, SecretTypeOK
  <2>2. <<kind, pc>> \notin Unrepaired
    BY <2>1 DEF Sound, Repaired, Unrepaired
  <2>3. ~Works
    BY <2>1 DEF Works
  <2>4. QED
    BY <1>1, <2>1, <2>2, <2>3 DEF Sound, Repaired
<1>4. QED
  BY <1>2, <1>3

LEMMA StepStart ==
    ASSUME SecretInv, Start, Sound'
    PROVE  OnTheWay' /\ OnTheWayBack' /\ Dated'
<1>1. Sound
  BY DEF Start, Sound, Repaired, Between
<1>2. Whole /\ why = "none" /\ Dated
  BY <1>1 DEF Start, SecretInv, OnTheWay
<1>3. Whole'
  BY <1>2 DEF Start, Whole, Agree, All
<1>4. QED
  BY <1>2, <1>3 DEF Start, SecretInv, SecretTypeOK, OnTheWay, OnTheWayBack, Dated, Back

LEMMA StepMaintenance ==
    ASSUME SecretInv, Maintenance, Sound'
    PROVE  OnTheWay' /\ OnTheWayBack' /\ Dated'
<1>1. Sound
  BY SoundBefore DEF Maintenance, Unchanged, SecretInv
<1>2. Whole /\ why = "none" /\ Dated
  BY <1>1 DEF Maintenance, SecretInv, OnTheWay
<1>3. Whole'
  BY <1>2 DEF Maintenance, Unchanged, UntouchedFiles, Whole, Agree, All
<1>4. QED
  BY <1>2, <1>3 DEF Maintenance, Unchanged, UntouchedFiles, GoTo, End, SecretInv, SecretTypeOK,
     OnTheWay, OnTheWayBack, Dated, Back

LEMMA StepRewrapKeys ==
    ASSUME SecretInv, RewrapKeys, Sound'
    PROVE  OnTheWay' /\ OnTheWayBack' /\ Dated'
<1>1. Sound
  BY SoundBefore DEF RewrapKeys, Unchanged, SecretInv
<1>2. Whole /\ why = "none" /\ Dated
  BY <1>1 DEF RewrapKeys, SecretInv, OnTheWay
<1>3. CASE pc' = "swap"
  <2>1. service' = All(rotations)' /\ Serves(file)' /\ Stored(file)'
    BY <1>2, <1>3 DEF RewrapKeys, Unchanged, UntouchedFiles, GoTo, End, Whole, Agree, Serves, Stored, All
  <2>2. QED
    BY <1>2, <1>3, <2>1 DEF RewrapKeys, Unchanged, UntouchedFiles, OnTheWay, OnTheWayBack, Dated, Back
<1>4. CASE pc' # "swap"
  <2>1. End("nothingChanged") /\ UNCHANGED service
    BY <1>4 DEF RewrapKeys, GoTo
  <2>2. Whole'
    BY <1>2, <2>1 DEF RewrapKeys, Unchanged, UntouchedFiles, Whole, Agree, All
  <2>3. QED
    BY <1>2, <2>1, <2>2 DEF RewrapKeys, Unchanged, UntouchedFiles, End, OnTheWay, OnTheWayBack, Dated, Back, SecretInv, SecretTypeOK
<1>5. QED
  BY <1>3, <1>4

LEMMA StepAlterRole ==
    ASSUME SecretInv, AlterRole, Sound'
    PROVE  OnTheWay' /\ OnTheWayBack' /\ Dated'
<1>1. Sound
  BY SoundBefore DEF AlterRole, Unchanged, SecretInv
<1>2. Whole /\ why = "none" /\ Dated
  BY <1>1 DEF AlterRole, SecretInv, OnTheWay
<1>3. CASE pc' = "swap"
  <2>1. service' = All(rotations)' /\ Serves(file)' /\ Stored(file)'
    BY <1>2, <1>3 DEF AlterRole, Unchanged, UntouchedFiles, GoTo, End, Whole, Agree, Serves, Stored, All
  <2>2. QED
    BY <1>2, <1>3, <2>1 DEF AlterRole, Unchanged, UntouchedFiles, OnTheWay, OnTheWayBack, Dated, Back
<1>4. CASE pc' # "swap"
  <2>1. End("nothingChanged") /\ UNCHANGED service
    BY <1>4 DEF AlterRole, GoTo
  <2>2. Whole'
    BY <1>2, <2>1 DEF AlterRole, Unchanged, UntouchedFiles, Whole, Agree, All
  <2>3. QED
    BY <1>2, <2>1, <2>2 DEF AlterRole, Unchanged, UntouchedFiles, End, OnTheWay, OnTheWayBack, Dated, Back, SecretInv, SecretTypeOK
<1>5. QED
  BY <1>3, <1>4

LEMMA StepRepassKeys ==
    ASSUME SecretInv, RepassKeys, Sound'
    PROVE  OnTheWay' /\ OnTheWayBack' /\ Dated'
<1>1. Sound /\ ~Fails
  BY SoundBefore DEF RepassKeys, Unchanged, SecretInv, Unrepaired
<1>2. Whole /\ why = "none" /\ Dated
  BY <1>1 DEF RepassKeys, SecretInv, OnTheWay
<1>3. CaKeys \subseteq Parts(kind) /\ kind = "ca_password"
  BY DEF RepassKeys, Parts
<1>4. up /\ \A k \in CaKeys : Opens(k, loaded)
  BY <1>2, <1>3, AllSame DEF Whole, Agree, Opens
<1>5. service' = Repass(loaded, rotations) /\ GoTo("provisioner")
  BY <1>1, <1>4 DEF RepassKeys
<1>6. service' = [p \in Parts(kind) |-> IF p \in CaKeys THEN rotations ELSE file]
  BY <1>2, <1>4, <1>5 DEF Repass, Reencrypt, Whole, Agree, All
<1>7. HalfWay(rotations, file)' /\ Serves(file)' /\ Stored(file)'
  BY <1>2, <1>3, <1>6 DEF RepassKeys, Unchanged, UntouchedFiles, HalfWay, Serves, Stored, Whole, Agree, All
<1>8. QED
  BY <1>2, <1>5, <1>7 DEF RepassKeys, Unchanged, UntouchedFiles, GoTo, OnTheWay, OnTheWayBack, Dated, Back

LEMMA StepRepassProvisioner ==
    ASSUME SecretInv, RepassProvisioner, Sound'
    PROVE  OnTheWay' /\ OnTheWayBack' /\ Dated'
<1>1. Sound
  BY SoundBefore DEF RepassProvisioner, Unchanged, SecretInv
<1>2. HalfWay(rotations, file) /\ Serves(file) /\ Stored(file) /\ Dated
  BY <1>1 DEF RepassProvisioner, SecretInv, OnTheWay
<1>3. Opens("provisioner", file)
  BY <1>2 DEF HalfWay, Opens, Parts, CaKeys
<1>4. CASE Works
  <2>1. service' = Reencrypt({"provisioner"}, rotations) /\ GoTo("swap")
    BY <1>1, <1>3, <1>4, SoundBefore DEF RepassProvisioner, Works, Fails, SecretInv, SecretTypeOK
  <2>2. service' = All(rotations)
    BY <1>2, <2>1 DEF Reencrypt, HalfWay, All, Parts, CaKeys
  <2>3. service' = All(rotations)' /\ Serves(file)' /\ Stored(file)'
    BY <1>2, <2>2 DEF RepassProvisioner, Unchanged, UntouchedFiles, Serves, Stored, All
  <2>4. QED
    BY <1>2, <2>1, <2>3 DEF RepassProvisioner, Unchanged, UntouchedFiles, GoTo, OnTheWay, OnTheWayBack, Dated, Back
<1>5. CASE Fails
  <2>1. faults' = 1 /\ GoBack("changeBack", "nothingChanged") /\ UNCHANGED service
    BY <1>1, <1>3, <1>5, SoundBefore DEF RepassProvisioner, Works, Fails, Unchanged, SecretInv, SecretTypeOK
  <2>2. HalfWay(rotations, file)' /\ Serves(file)' /\ Stored(file)'
    BY <1>2, <2>1 DEF RepassProvisioner, Unchanged, UntouchedFiles, HalfWay, Serves, Stored, All
  <2>3. QED
    BY <1>2, <2>1, <2>2 DEF RepassProvisioner, Unchanged, UntouchedFiles, GoBack, OnTheWay, OnTheWayBack, Dated, Back
<1>6. QED
  BY <1>4, <1>5 DEF RepassProvisioner

LEMMA StepSwapFiles ==
    ASSUME SecretInv, SwapFiles, Sound'
    PROVE  OnTheWay' /\ OnTheWayBack' /\ Dated'
<1>1. Sound
  BY SoundBefore DEF SwapFiles, Unchanged, SecretInv
<1>2. service = All(rotations) /\ Serves(file) /\ Stored(file) /\ Dated
  BY <1>1 DEF SwapFiles, SecretInv, Changed, KeptCopy, OnTheWay
<1>3. service' = All(rotations)' /\ Serves(old)' /\ Stored(old)'
  BY <1>2 DEF SwapFiles, Unchanged, Serves, Stored, All
<1>4. QED
  BY <1>2, <1>3 DEF SwapFiles, Unchanged, GoTo, SecretInv, SecretTypeOK, OnTheWay, OnTheWayBack, Dated, Back

LEMMA StepPush ==
    ASSUME SecretInv, Push, Sound'
    PROVE  OnTheWay' /\ OnTheWayBack' /\ Dated'
<1>1. Sound
  BY SoundBefore DEF Push, Unchanged, SecretInv
<1>2. service = All(rotations) /\ file = rotations /\ old \in Nat /\ Serves(old) /\ Stored(old) /\ Dated
  BY <1>1 DEF Push, SecretInv, Changed, KeptCopy, OnTheWay
<1>3. service' = All(rotations)' /\ Serves(old)'
  BY <1>2 DEF Push, Unchanged, Serves, All
<1>4. CASE pc' = "recreate"
  <2>1. Stored(file)'
    BY <1>2, <1>4 DEF Push, Unchanged, GoBack, FirstBack, Stored
  <2>2. QED
    BY <1>2, <1>3, <1>4, <2>1 DEF Push, Unchanged, OnTheWay, OnTheWayBack, Dated, Back
<1>5. CASE pc' # "recreate"
  <2>1. Fails /\ GoBack(FirstBack, "notStored")
    BY <1>5 DEF Push, GoTo
  <2>2. faults' = 1 /\ kind # "master_key"
    BY <1>1, <2>1, SoundBefore DEF Push, Unchanged, SecretInv, Unrepaired
  <2>3. StillServes(old)'
    BY <1>3, <2>1, <2>2 DEF Push, Unchanged, GoBack, StillServes
  <2>4. QED
    BY <1>2, <1>3, <2>1, <2>2, <2>3 DEF Push, Unchanged, GoBack, FirstBack, OnTheWay, OnTheWayBack, Dated, Back
<1>6. QED
  BY <1>4, <1>5

LEMMA StepRecreate ==
    ASSUME SecretInv, Recreate, Sound'
    PROVE  OnTheWay' /\ OnTheWayBack' /\ Dated'
<1>1. Sound /\ (Fails => faults' = 1 /\ kind = "postgres_password")
  BY SoundBefore DEF Recreate, Made, Unchanged, SecretInv, SecretTypeOK, Kinds, Unrepaired
<1>2. service = All(rotations) /\ file = rotations /\ old \in Nat /\ Serves(old) /\ Stored(file) /\ Dated
  BY <1>1 DEF Recreate, SecretInv, Changed, KeptCopy, OnTheWay
<1>3. service' = All(rotations)' /\ Stored(file)'
  BY <1>2 DEF Recreate, Unchanged, UntouchedFiles, Stored, All
<1>4. Serves(file)' \/ (kind' = "postgres_password" /\ faults' = 1 /\ loaded' = old' /\ running' = All(old)')
  <2>1. CASE Works /\ loaded' = file /\ running' = service /\ up' = Starts
    <3>1. Starts
      BY <1>2 DEF Starts, Opens, All, Parts, CaKeys
    <3>2. QED
      BY <1>2, <2>1, <3>1 DEF Recreate, Unchanged, UntouchedFiles, Serves, All
  <2>2. CASE Fails /\ UNCHANGED <<loaded, running>>
    BY <1>1, <1>2, <2>2 DEF Recreate, Unchanged, UntouchedFiles, Serves, All
  <2>3. QED
    BY <2>1, <2>2 DEF Recreate, Made
<1>5. QED
  BY <1>2, <1>3, <1>4 DEF Recreate, Unchanged, UntouchedFiles, GoTo, OnTheWay, OnTheWayBack, Dated, Back

LEMMA StepCheckHealth ==
    ASSUME SecretInv, CheckHealth, Sound'
    PROVE  OnTheWay' /\ OnTheWayBack' /\ Dated'
<1>1. Sound
  BY SoundBefore DEF CheckHealth, Unchanged, SecretInv
<1>2. /\ service = All(rotations) /\ file = rotations /\ old \in Nat /\ Stored(file) /\ Dated
      /\ Serves(file) \/ (kind = "postgres_password" /\ faults = 1 /\ loaded = old /\ running = All(old))
  BY <1>1 DEF CheckHealth, SecretInv, Changed, KeptCopy, OnTheWay
<1>3. CASE Healthy /\ Works /\ End("succeeded") /\ old' = Missing
  <2>1. Serves(file)
    <3>1. CASE Serves(file)
      BY <3>1
    <3>2. CASE kind = "postgres_password" /\ faults = 1 /\ loaded = old /\ running = All(old)
      <4>1. All(rotations) = All(old)
        BY <1>2, <1>3, <3>2 DEF Healthy, Reaches
      <4>2. rotations = old
        BY <4>1, OneValue DEF SecretInv, SecretTypeOK
      <4>3. QED
        BY <1>2, <1>3, <3>2, <4>2 DEF Healthy, Reaches, Serves
    <3>3. QED
      BY <1>2, <3>1, <3>2
  <2>2. Whole'
    BY <1>2, <2>1 DEF CheckHealth, Unchanged, Whole, Agree, Serves, Stored, All
  <2>3. QED
    BY <1>2, <1>3, <2>2 DEF CheckHealth, Unchanged, End, OnTheWay, OnTheWayBack, Dated, Back
<1>4. CASE GoBack(FirstBack, "unhealthy") /\ UNCHANGED old /\ IF Healthy THEN Fails ELSE Works
  <2>1. faults' = 1
    <3>1. CASE Healthy
      BY <1>4, <3>1, SoundBefore DEF CheckHealth, Unchanged, SecretInv
    <3>2. CASE ~Healthy
      <4>1. ~Serves(file)
        <5>1. SUFFICES ASSUME Serves(file) PROVE Healthy
          BY <3>2
        <5>2. kind = "ca_password" => running["provisioner"] = loaded
          BY <5>1 DEF Serves, All, Parts
        <5>3. QED
          BY <1>2, <5>1, <5>2 DEF Healthy, Reaches, Serves
      <4>2. QED
        BY <1>2, <1>4, <3>2, <4>1 DEF Works
    <3>3. QED
      BY <3>1, <3>2
  <2>2. kind # "postgres_password" => Serves(rotations)'
    BY <1>2 DEF CheckHealth, Unchanged, Serves, All
  <2>3. StillServes(old)'
    BY <1>4, <2>2 DEF CheckHealth, Unchanged, GoBack, StillServes
  <2>4. service' = All(rotations)'
    BY <1>2 DEF CheckHealth, Unchanged, All
  <2>5. QED
    BY <1>2, <1>4, <2>1, <2>3, <2>4 DEF CheckHealth, Unchanged, GoBack, FirstBack, OnTheWay, OnTheWayBack, Dated, Back
<1>5. QED
  BY <1>3, <1>4 DEF CheckHealth

(* On the way back one command has failed already, so none of these does.   *)

LEMMA StepRewrapBack ==
    ASSUME SecretInv, RewrapBack, Sound'
    PROVE  OnTheWay' /\ OnTheWayBack' /\ Dated'
<1>1. Sound
  BY SoundBefore DEF RewrapBack, Unchanged, SecretInv
<1>2. faults = 1 /\ service = All(rotations) /\ why = "unhealthy" /\ Dated
  BY <1>1 DEF RewrapBack, SecretInv, OnTheWayBack, HalfWay, Back
<1>3. Works
  BY <1>2, SoundBefore DEF RewrapBack, Unchanged, SecretInv
<1>4. Opens("dataKeys", rotations)
  BY <1>2, AllSame DEF RewrapBack, Opens, Parts
<1>5. service' = All(file)
  BY <1>2, <1>3, <1>4 DEF RewrapBack, Works, Fails, SecretInv, SecretTypeOK
<1>6. service' = All(file)'
  BY <1>5 DEF RewrapBack, Unchanged, UntouchedFiles, All
<1>7. QED
  BY <1>2, <1>3, <1>6 DEF RewrapBack, Unchanged, UntouchedFiles, GoTo, Works, OnTheWay, OnTheWayBack, Dated, Back

LEMMA StepAlterRoleBack ==
    ASSUME SecretInv, AlterRoleBack, Sound'
    PROVE  OnTheWay' /\ OnTheWayBack' /\ Dated'
<1>1. Sound
  BY SoundBefore DEF AlterRoleBack, Unchanged, SecretInv
<1>2. faults = 1 /\ why # "nothingChanged" /\ old \in Nat /\ StillServes(old) /\ Dated
  BY <1>1 DEF AlterRoleBack, SecretInv, OnTheWayBack, Back, HalfWay
<1>3. Works
  BY <1>2, SoundBefore DEF AlterRoleBack, Unchanged, SecretInv
<1>4. service' = All(old)'
  BY <1>2, <1>3 DEF AlterRoleBack, Works, Fails, Unchanged, UntouchedFiles, All, SecretInv, SecretTypeOK
<1>5. StillServes(old)'
  BY <1>2 DEF AlterRoleBack, Unchanged, UntouchedFiles, GoTo, StillServes, Serves, All
<1>6. QED
  BY <1>2, <1>3, <1>4, <1>5 DEF AlterRoleBack, Unchanged, UntouchedFiles, GoTo, Works, OnTheWay, OnTheWayBack, Dated, Back

LEMMA StepRepassBack ==
    ASSUME SecretInv, RepassBack, Sound'
    PROVE  OnTheWay' /\ OnTheWayBack' /\ Dated'
<1>1. Sound
  BY SoundBefore DEF RepassBack, Unchanged, SecretInv
<1>2. faults = 1 /\ Dated /\ kind = "ca_password" /\ CaKeys \subseteq Parts(kind)
  BY <1>1 DEF RepassBack, SecretInv, OnTheWayBack, Back, Parts
<1>3. Works
  BY <1>2, SoundBefore DEF RepassBack, Unchanged, SecretInv
<1>4. CASE why = "nothingChanged"
  <2>1. HalfWay(rotations, file) /\ Serves(file) /\ Stored(file)
    BY <1>1, <1>4 DEF RepassBack, SecretInv, OnTheWayBack
  <2>2. \A k \in CaKeys : Opens(k, rotations)
    BY <1>2, <2>1 DEF HalfWay, Opens
  <2>3. service' = Reencrypt(CaKeys, file)
    BY <1>3, <1>4, <2>1, <2>2 DEF RepassBack, Repass, Serves, Works, Fails, SecretInv, SecretTypeOK
  <2>4. service' = All(file)
    BY <2>1, <2>3 DEF Reencrypt, HalfWay, All
  <2>5. Whole'
    BY <2>1, <2>4 DEF RepassBack, Unchanged, UntouchedFiles, Whole, Agree, Serves, Stored, All
  <2>6. QED
    BY <1>2, <1>4, <2>5 DEF RepassBack, Unchanged, UntouchedFiles, End, OnTheWay, OnTheWayBack, Dated, Back, SecretInv, SecretTypeOK
<1>5. CASE why # "nothingChanged"
  <2>1. service = All(rotations) /\ file = rotations /\ old \in Nat /\ StillServes(old)
    BY <1>1, <1>2, <1>5 DEF RepassBack, SecretInv, OnTheWayBack
  <2>2. \A k \in CaKeys : Opens(k, rotations)
    BY <1>2, <2>1, AllSame DEF Opens
  <2>3. up /\ loaded = IF why = "unhealthy" THEN rotations ELSE old
    BY <1>2, <1>5, <2>1 DEF StillServes, Serves
  <2>4. service' = Reencrypt(CaKeys, old)
    BY <1>3, <1>5, <2>2, <2>3 DEF RepassBack, Repass, Works, Fails, SecretInv, SecretTypeOK
  <2>5. HalfWay(old, file)'
    BY <1>2, <2>1, <2>4 DEF RepassBack, Unchanged, UntouchedFiles, Reencrypt, HalfWay, All
  <2>6. StillServes(old)' /\ pc' = "provisionerBack"
    BY <1>5, <2>1 DEF RepassBack, Unchanged, UntouchedFiles, GoTo, StillServes, Serves, All
  <2>7. QED
    BY <1>2, <1>3, <1>5, <2>1, <2>5, <2>6 DEF RepassBack, Unchanged, UntouchedFiles, GoTo, Works, OnTheWay, OnTheWayBack, Dated, Back
<1>6. QED
  BY <1>4, <1>5

LEMMA StepProvisionerBack ==
    ASSUME SecretInv, ProvisionerBack, Sound'
    PROVE  OnTheWay' /\ OnTheWayBack' /\ Dated'
<1>1. Sound
  BY SoundBefore DEF ProvisionerBack, Unchanged, SecretInv
<1>2. faults = 1 /\ HalfWay(old, file) /\ old \in Nat /\ StillServes(old) /\ Dated
  BY <1>1 DEF ProvisionerBack, SecretInv, OnTheWayBack, Back
<1>3. Works
  BY <1>2, SoundBefore DEF ProvisionerBack, Unchanged, SecretInv
<1>4. Opens("provisioner", file) /\ up
  BY <1>2 DEF ProvisionerBack, HalfWay, Opens, Parts, CaKeys, StillServes, Serves
<1>5. service' = Reencrypt({"provisioner"}, old)
  BY <1>3, <1>4 DEF ProvisionerBack, Works, Fails, SecretInv, SecretTypeOK
<1>6. service' = All(old)'
  BY <1>2, <1>5 DEF ProvisionerBack, Unchanged, UntouchedFiles, Reencrypt, HalfWay, All, Parts, CaKeys
<1>7. StillServes(old)'
  BY <1>2 DEF ProvisionerBack, Unchanged, UntouchedFiles, GoTo, StillServes, Serves, All
<1>8. QED
  BY <1>2, <1>3, <1>6, <1>7 DEF ProvisionerBack, Unchanged, UntouchedFiles, GoTo, Works, OnTheWay, OnTheWayBack, Dated, Back

LEMMA StepFilesBack ==
    ASSUME SecretInv, FilesBack, Sound'
    PROVE  OnTheWay' /\ OnTheWayBack' /\ Dated'
<1>1. Sound
  BY SoundBefore DEF FilesBack, Unchanged, SecretInv
<1>2. /\ service = All(IF kind = "master_key" THEN rotations ELSE old)
      /\ faults = 1 /\ old \in Nat /\ StillServes(old) /\ Dated
  BY <1>1 DEF FilesBack, SecretInv, OnTheWayBack, Back
<1>3. why \in {"notStored", "unhealthy"} /\ (why = "notStored" => kind # "master_key" /\ Serves(old))
  BY <1>2 DEF StillServes
<1>4. why = "notStored" => Serves(file)'
  BY <1>3 DEF FilesBack, Unchanged, Serves, All
<1>5. service' = IF kind = "master_key" THEN All(rotations)' ELSE All(file)'
  BY <1>2 DEF FilesBack, Unchanged, All
<1>6. QED
  BY <1>2, <1>3, <1>4, <1>5 DEF FilesBack, Unchanged, GoTo, Works, OnTheWay, OnTheWayBack, Dated, Back, SecretInv, SecretTypeOK

LEMMA StepPushBack ==
    ASSUME SecretInv, PushBack, Sound'
    PROVE  OnTheWay' /\ OnTheWayBack' /\ Dated'
<1>1. Sound
  BY SoundBefore DEF PushBack, Unchanged, SecretInv
<1>2. faults = 1 /\ service = All(file) /\ (why = "unhealthy" \/ (why = "notStored" /\ Serves(file))) /\ Dated
  BY <1>1 DEF PushBack, SecretInv, OnTheWayBack, Back
<1>3. Works
  BY <1>2, SoundBefore DEF PushBack, Unchanged, SecretInv
<1>4. service' = All(file)' /\ Stored(file)'
  BY <1>2, <1>3 DEF PushBack, Unchanged, Works, Fails, Stored, All, SecretInv, SecretTypeOK
<1>5. CASE why = "unhealthy"
  BY <1>2, <1>3, <1>4, <1>5 DEF PushBack, Unchanged, GoTo, Works, OnTheWay, OnTheWayBack, Dated, Back
<1>6. CASE why # "unhealthy"
  <2>1. Whole'
    BY <1>2, <1>4, <1>6 DEF PushBack, Unchanged, Whole, Agree, Serves, Stored, All
  <2>2. QED
    BY <1>2, <1>6, <2>1 DEF PushBack, Unchanged, End, OnTheWay, OnTheWayBack, Dated, Back, SecretInv, SecretTypeOK
<1>7. QED
  BY <1>5, <1>6

LEMMA StepRecreateBack ==
    ASSUME SecretInv, RecreateBack, Sound'
    PROVE  OnTheWay' /\ OnTheWayBack' /\ Dated'
<1>1. Sound
  BY SoundBefore DEF RecreateBack, Made, Unchanged, SecretInv
<1>2. faults = 1 /\ service = All(file) /\ Stored(file) /\ Dated
  BY <1>1 DEF RecreateBack, SecretInv, OnTheWayBack, Back
<1>3. ~Fails
  BY <1>2, SoundBefore DEF RecreateBack, Made, Unchanged, SecretInv
<1>4. Starts
  BY <1>2 DEF Starts, Opens, All, Parts, CaKeys
<1>5. Whole'
  BY <1>2, <1>3, <1>4 DEF RecreateBack, Made, Unchanged, UntouchedFiles, Whole, Agree, Stored, All
<1>6. QED
  BY <1>2, <1>5 DEF RecreateBack, Unchanged, UntouchedFiles, End, OnTheWay, OnTheWayBack, Dated, Back, SecretInv, SecretTypeOK

(* A boot outside Between finds what it reads in the service.               *)
LEMMA StepPowerLoss ==
    ASSUME SecretInv, PowerGoes, Sound'
    PROVE  OnTheWay' /\ OnTheWayBack' /\ Dated'
<1>1. Sound /\ pc \notin Between
  BY DEF PowerGoes, Sound, Repaired, Between
<1>2. /\ service = All(file) /\ Stored(file) /\ Dated
      /\ pc \notin {"provisioner", "swap", "changeBack", "provisionerBack", "filesBack"}
  <2>1. OnTheWay /\ OnTheWayBack /\ Dated
    BY <1>1 DEF SecretInv
  <2>2. pc \in {"idle", "maintenance", "change", "recreate", "health", "recreateBack"}
        \/ (pc \in {"push", "pushBack"} /\ ~inStore)
    BY <1>1 DEF Between, SecretInv, SecretTypeOK, Forward, Back
  <2>3. QED
    BY <2>1, <2>2 DEF SecretInv, Changed, OnTheWay, OnTheWayBack, Whole, Agree, Stored
<1>3. file' = file /\ loaded' = file /\ running' = service
  BY <1>2 DEF PowerGoes, Stored
<1>4. up'
  BY <1>2 DEF PowerGoes, Opens, All, Parts, CaKeys, Stored
<1>5. Whole'
  BY <1>2, <1>3, <1>4 DEF PowerGoes, Whole, Agree, Stored, All
<1>6. Dated'
  BY <1>2, <1>3 DEF PowerGoes, Dated, SecretInv, CutOff
<1>7. QED
  BY <1>5, <1>6 DEF PowerGoes, OnTheWay, OnTheWayBack, Back

-----------------------------------------------------------------------------
(* What holds however many commands fail. *)
LEMMA ChangedStep ==
    ASSUME SecretTypeOK, Changed, SecretNext
    PROVE  Changed'
<1> USE DEF Unchanged, UntouchedFiles, GoTo, GoBack, End, FirstBack
<1>1. CASE Start \/ Maintenance \/ PowerGoes
  BY <1>1 DEF Start, Maintenance, PowerGoes, Changed
<1>2. CASE RewrapKeys
  BY <1>2 DEF RewrapKeys, Changed, All
<1>3. CASE AlterRole
  BY <1>3 DEF AlterRole, Changed, All
<1>4. CASE RepassKeys
  <2>1. CASE pc' = "provisioner"
    <3>1. (\A k \in CaKeys : Opens(k, loaded)) /\ service' = Repass(loaded, rotations)
      BY <1>4, <2>1 DEF RepassKeys
    <3>2. service' = Reencrypt(CaKeys, rotations)
      BY <3>1 DEF Repass
    <3>3. CaKeys \subseteq Parts(kind)
      BY <1>4 DEF RepassKeys, Parts
    <3>4. \A k \in CaKeys : service'[k] = rotations
      BY <3>2, <3>3 DEF Reencrypt
    <3>5. QED
      BY <1>4, <2>1, <3>4 DEF RepassKeys, Changed
  <2>2. CASE pc' # "provisioner"
    BY <1>4, <2>2 DEF RepassKeys, Changed
  <2>3. QED
    BY <2>1, <2>2
<1>5. CASE RepassProvisioner
  <2>1. CASE pc' = "swap"
    <3>1. service' = Reencrypt({"provisioner"}, rotations)
      BY <1>5, <2>1 DEF RepassProvisioner
    <3>2. service' = All(rotations)'
      BY <1>5, <3>1 DEF RepassProvisioner, Changed, Reencrypt, All, Parts, CaKeys
    <3>3. QED
      BY <2>1, <3>2 DEF Changed
  <2>2. CASE pc' # "swap"
    BY <1>5, <2>2 DEF RepassProvisioner, Changed
  <2>3. QED
    BY <2>1, <2>2
<1>6. CASE SwapFiles
  BY <1>6 DEF SwapFiles, Changed, All
<1>7. CASE Push
  BY <1>7 DEF Push, Changed, Stored, All
<1>8. CASE Recreate \/ CheckHealth
  BY <1>8 DEF Recreate, CheckHealth, Changed, Stored, All
<1>9. CASE RewrapBack \/ AlterRoleBack \/ RepassBack \/ ProvisionerBack
  BY <1>9 DEF RewrapBack, AlterRoleBack, RepassBack, ProvisionerBack, Changed
<1>10. CASE FilesBack \/ PushBack \/ RecreateBack
  BY <1>10 DEF FilesBack, PushBack, RecreateBack, Changed
<1>11. QED
  BY <1>1, <1>2, <1>3, <1>4, <1>5, <1>6, <1>7, <1>8, <1>9, <1>10 DEF SecretNext

LEMMA StutterStep ==
    ASSUME SecretInv, UNCHANGED secretVars
    PROVE  SecretInv'
<1> USE DEF secretVars
<1>1. SecretTypeOK' /\ KeptCopy' /\ CutOff'
  BY DEF SecretInv, SecretTypeOK, KeptCopy, CutOff
<1>2. Changed'
  BY DEF SecretInv, Changed, Stored, All
<1>3. Sound' => Sound
  BY DEF Sound, Repaired, Between
<1>4. Sound => OnTheWay' /\ OnTheWayBack' /\ Dated'
  BY DEF SecretInv, OnTheWay, OnTheWayBack, Dated, Whole, Agree, HalfWay, Serves, Stored, StillServes, All
<1>5. QED
  BY <1>1, <1>2, <1>3, <1>4 DEF SecretInv

LEMMA SecretNextInv ==
    ASSUME SecretInv, SecretNext
    PROVE  SecretInv'
<1>1. SecretTypeOK' /\ KeptCopy' /\ CutOff' /\ Changed'
  BY TypeStep, CopyStep, ChangedStep DEF SecretInv
<1>2. ASSUME Sound' PROVE OnTheWay' /\ OnTheWayBack' /\ Dated'
  BY <1>2, StepStart, StepMaintenance, StepRewrapKeys, StepAlterRole, StepRepassKeys,
     StepRepassProvisioner, StepSwapFiles, StepPush, StepRecreate, StepCheckHealth,
     StepRewrapBack, StepAlterRoleBack, StepRepassBack, StepProvisionerBack, StepFilesBack,
     StepPushBack, StepRecreateBack, StepPowerLoss DEF SecretNext
<1>3. QED
  BY <1>1, <1>2 DEF SecretInv

-----------------------------------------------------------------------------
(* The invariant of a rotation holds in every reachable state: for every    *)
(* secret, with the files on disk or in memory, and for every number of     *)
(* rotations and of failing commands.                                       *)
THEOREM SecretInvariance == SecretSpec => []SecretInv
<1>1. SecretInv /\ [SecretNext]_secretVars => SecretInv'
  BY SecretNextInv, StutterStep
<1>2. QED
  BY SecretInitInv, <1>1, PTL DEF SecretSpec

(* The state of a rotation has its type.                                    *)
THEOREM SecretTypeCorrect == SecretSpec => []SecretTypeOK
BY SecretInvariance, PTL DEF SecretInv

(* rotate() with at most one failing command, outside the four failures it  *)
(* does not take back, ends with the secret whole: the new value if it      *)
(* reports success, the old one if not.                                     *)
THEOREM RotationsEndWhole == SecretSpec => []EndsWhole
<1>1. SecretInv => EndsWhole
  <2>1. SUFFICES ASSUME SecretInv, pc = "idle", said # "running", Repaired
                 PROVE  Whole /\ (said \in {"none", "succeeded"} <=> file = rotations)
    BY DEF EndsWhole
  <2>2. Sound
    BY <2>1 DEF SecretInv, CutOff, Sound, Between
  <2>3. QED
    BY <2>1, <2>2 DEF SecretInv, OnTheWay, Dated
<1>2. QED
  BY SecretInvariance, <1>1, PTL

(* A boot after a power loss outside the windows between the service and    *)
(* what the boot reads finds the secret whole.                              *)
THEOREM BootsComeBackWhole == SecretSpec => []BootsWhole
<1>1. SecretInv => BootsWhole
  BY DEF SecretInv, BootsWhole, Sound, OnTheWay
<1>2. QED
  BY SecretInvariance, <1>1, PTL

(* However many commands fail, success is reported only when the service,   *)
(* the file and the store have the new value.                               *)
THEOREM SuccessMeansKept == SecretSpec => SuccessIsKept
<1>1. SecretInv /\ [SecretNext]_secretVars => (said' = "succeeded" /\ said # "succeeded" => (Agree /\ file = rotations)')
  <2>1. SUFFICES ASSUME SecretInv, SecretNext, said' = "succeeded", said # "succeeded"
                 PROVE  (Agree /\ file = rotations)'
    BY DEF secretVars
  <2>2. CheckHealth
    BY <2>1 DEF SecretNext, Start, Maintenance, RewrapKeys, AlterRole, RepassKeys, RepassProvisioner,
       SwapFiles, Push, Recreate, RewrapBack, AlterRoleBack, RepassBack, ProvisionerBack,
       FilesBack, PushBack, RecreateBack, PowerGoes, GoTo, GoBack, End
  <2>3. service = All(rotations) /\ file = rotations /\ Stored(file)
    BY <2>1, <2>2 DEF SecretInv, Changed, CheckHealth
  <2>4. QED
    BY <2>2, <2>3 DEF CheckHealth, Unchanged, Agree, Stored, All
<1>2. QED
  BY SecretInvariance, <1>1, PTL DEF SecretSpec, SuccessIsKept
=============================================================================
