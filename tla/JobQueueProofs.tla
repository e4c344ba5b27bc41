--------------------------- MODULE JobQueueProofs ---------------------------
(***************************************************************************)
(* Proofs about JobQueue for every number of environments, hosts, workers, *)
(* handlers and jobs: IInv is inductive, and with it the exclusion the      *)
(* claim gives and the refinement of EnvTurns.                              *)
(***************************************************************************)
EXTENDS JobQueueTurns, FiniteSetTheorems, TLAPS

LEMMA Bounds == MaxJobs \in Nat /\ MaxCrashes \in Nat /\ MaxPauses \in Nat
BY ConstantsAssumption DEF ConstantsAssumption

LEMMA NewRowType ==
    ASSUME NEW t \in JobTypes, NEW e \in Envs \cup {NoEnv}, NEW h \in Hosts \cup {NoHost}
    PROVE  /\ NewRow(t, e, h) \in Row
           /\ NewRow(t, e, h).state = "queued" /\ ~NewRow(t, e, h).cancel
           /\ NewRow(t, e, h).type = t /\ NewRow(t, e, h).env = e /\ NewRow(t, e, h).host = h
BY DEF NewRow, Row, States

LEMMA TargetedRow ==
    ASSUME NEW t \in JobTypes, NEW e \in Envs \cup {NoEnv}, NEW h \in Hosts \cup {NoHost},
           t \in HOST_OWN_JOBS => h \in Hosts /\ e = NoEnv,
           t = MoveJob => e \in Envs
    PROVE  Targeted(NewRow(t, e, h))
BY NewRowType DEF Targeted

LEMMA NoRowType == NoRow \in Row /\ NoRow.state = "absent" /\ Targeted(NoRow)
<1>1. DeployJob \in JobTypes
  BY DEF JobTypes, EnvTypes, EngineTypes
<1>2. NewRow(DeployJob, NoEnv, NoHost) \in Row /\ NewRow(DeployJob, NoEnv, NoHost).type = DeployJob
  BY <1>1, NewRowType
<1> QED BY <1>2 DEF NoRow, Row, States, FINISHED, Targeted, HOST_OWN_JOBS, DeployJob, RebootJob, MoveJob

LEMMA InitIInv == Init => IInv
<1> SUFFICES ASSUME Init PROVE IInv
  OBVIOUS
<1>1. /\ lastId = 0 /\ stale = {} /\ crashes = 0 /\ pauses = 0 /\ paused = "off"
      /\ jobs = [j \in JobIds |-> NoRow] /\ phase = [j \in JobIds |-> "none"]
      /\ req = [r \in Requests |-> Idle]
      /\ loop = [w \in Workers |-> "idle"]
  BY DEF Init
<1>2. TypeOK
  <2>1. status \in [Envs -> Statuses] /\ hosts \in [Hosts -> HostRows]
    BY DEF Init, Statuses
  <2>2. req \in [Requests -> ReqStates] /\ phase \in [JobIds -> Phases]
    BY <1>1 DEF ReqStates, Phases
  <2>3. lastId \in 0 .. MaxJobs /\ crashes \in 0 .. MaxCrashes /\ pauses \in 0 .. MaxPauses
    BY <1>1, Bounds
  <2>4. jobs \in [JobIds -> Row] /\ loop \in [Workers -> {"down", "idle", "claim"}]
    BY <1>1, NoRowType
  <2>5. stale \in SUBSET JobIds /\ paused \in Modes
    BY <1>1 DEF Modes
  <2> QED BY <2>1, <2>2, <2>3, <2>4, <2>5 DEF TypeOK
<1>3. \A j \in JobIds : jobs[j].state = "absent" /\ phase[j] = "none" /\ Targeted(jobs[j])
  BY <1>1, NoRowType
<1>4. AbsentRows
  BY <1>1, <1>3, Bounds DEF AbsentRows, JobIds
<1>5. LiveRows /\ StaleRows /\ RebootAlone /\ RebootRows
  BY <1>1, <1>3 DEF LiveRows, Live, StaleRows, RebootAlone, RebootRows
<1>6. PendingRequests
  BY <1>1 DEF PendingRequests, PendingRequest, Idle
<1>7. OneRunningPerEnv /\ QueuedNotCancelled
  BY <1>3 DEF OneRunningPerEnv, QueuedNotCancelled, Running, Queued
<1> QED BY <1>2, <1>4, <1>5, <1>6, <1>7 DEF IInv

-----------------------------------------------------------------------------
(* Steps that leave the table, the threads and the heartbeats alone. *)
LEMMA FrameStep ==
    ASSUME IInv, UNCHANGED <<jobs, lastId, stale, phase>>, TypeOK', PendingRequests'
    PROVE  IInv'
<1> USE DEF IInv
<1>1. AbsentRows' /\ LiveRows' /\ StaleRows' /\ RebootRows'
  BY DEF AbsentRows, LiveRows, Live, LostRow, Running, StaleRows, RebootRows
<1>2. OneRunningPerEnv' /\ QueuedNotCancelled'
  BY DEF OneRunningPerEnv, Running, QueuedNotCancelled, Queued
<1>3. RebootAlone'
  BY DEF RebootAlone, Running, RunningOn
<1> QED BY <1>1, <1>2, <1>3

LEMMA BeginStep ==
    ASSUME IInv, NEW r \in Requests, NEW row \in Row, NEW s \in Statuses \cup {"keep"},
           Begin(r, row, s), row.state = "queued", ~row.cancel,
           Targeted(row)
    PROVE  IInv'
<1>1. TypeOK /\ PendingRequests
  BY DEF IInv
<1>2. [op |-> "insert", row |-> row, status |-> s] \in ReqStates
  BY DEF ReqStates
<1>3. TypeOK'
  BY <1>1, <1>2 DEF TypeOK, Begin
<1>4. PendingRequests'
  BY <1>1 DEF PendingRequests, PendingRequest, Begin, TypeOK, Queued
<1> QED BY <1>3, <1>4, FrameStep DEF Begin

LEMMA CancelReadStep ==
    ASSUME IInv, NEW r \in Requests, NEW j \in JobIds, CancelRead(r, j)
    PROVE  IInv'
<1>1. TypeOK /\ PendingRequests /\ AbsentRows
  BY DEF IInv
<1>2. jobs[j].state \in {"queued", "running"} /\ j <= lastId
  BY <1>1, Bounds DEF CancelRead, AbsentRows, TypeOK, JobIds
<1>3. [op |-> "cancel", job |-> j, saw |-> jobs[j].state] \in ReqStates
  BY <1>2 DEF ReqStates
<1>4. TypeOK'
  BY <1>1, <1>3 DEF TypeOK, CancelRead
<1>5. PendingRequests'
  BY <1>1, <1>2 DEF PendingRequests, PendingRequest, CancelRead, TypeOK, Queued
<1> QED BY <1>4, <1>5, FrameStep DEF CancelRead

LEMMA QuietSteps ==
    ASSUME IInv,
           \/ \E h \in Hosts, row \in HostRows : SetHost(h, row)
           \/ TurnOn \/ CacheEnds \/ TurnOff
           \/ \E w \in Workers : ReadMaintenance(w) \/ WorkerStarts(w)
    PROVE  IInv'
<1>1. TypeOK /\ PendingRequests
  BY DEF IInv
<1>2. UNCHANGED <<jobs, lastId, stale, phase, req, status>>
  BY DEF SetHost, TurnOn, CacheEnds, TurnOff, ReadMaintenance, WorkerStarts
<1>3. hosts' \in [Hosts -> HostRows]
  BY <1>1 DEF TypeOK, SetHost, TurnOn, CacheEnds, TurnOff, ReadMaintenance, WorkerStarts
<1>4. loop' \in [Workers -> {"down", "idle", "claim"}]
  BY <1>1 DEF TypeOK, SetHost, TurnOn, CacheEnds, TurnOff, ReadMaintenance, WorkerStarts
<1>5. paused' \in Modes /\ crashes' \in 0 .. MaxCrashes
  BY <1>1 DEF TypeOK, Modes, SetHost, TurnOn, CacheEnds, TurnOff, ReadMaintenance, WorkerStarts
<1>6. pauses' \in 0 .. MaxPauses
  BY <1>1, Bounds DEF TypeOK, SetHost, TurnOn, CacheEnds, TurnOff, ReadMaintenance, WorkerStarts
<1>7. TypeOK'
  BY <1>1, <1>2, <1>3, <1>4, <1>5, <1>6 DEF TypeOK
<1>8. PendingRequests'
  BY <1>1, <1>2 DEF PendingRequests, PendingRequest, Queued
<1> QED BY <1>2, <1>7, <1>8, FrameStep

-----------------------------------------------------------------------------
(* Steps of one thread. *)

LEMMA MoveStep ==
    ASSUME IInv, NEW j \in JobIds, NEW p \in Phases \ {"none", "wait", "down"},
           Live(j), MoveTo(j, p), stale' = stale \/ stale' = stale \ {j}
    PROVE  IInv'
<1>1. TypeOK /\ AbsentRows /\ LiveRows /\ StaleRows /\ RebootRows /\ PendingRequests
      /\ OneRunningPerEnv /\ RebootAlone /\ QueuedNotCancelled
  BY DEF IInv
<1>2. /\ UNCHANGED <<jobs, lastId, status, hosts, loop, req, paused, crashes, pauses>>
      /\ phase' = [phase EXCEPT ![j] = p] /\ phase \in [JobIds -> Phases]
  BY <1>1 DEF MoveTo, TypeOK
<1>3. TypeOK'
  BY <1>1, <1>2 DEF TypeOK
<1>4. AbsentRows' /\ LiveRows' /\ StaleRows'
  BY <1>1, <1>2 DEF AbsentRows, LiveRows, Live, LostRow, Running, StaleRows
<1>5. RebootRows' /\ RebootAlone'
  BY <1>1, <1>2 DEF RebootRows, RebootAlone, Running, RunningOn
<1>6. OneRunningPerEnv' /\ QueuedNotCancelled' /\ PendingRequests'
  BY <1>1, <1>2 DEF OneRunningPerEnv, Running, QueuedNotCancelled, Queued, PendingRequests, PendingRequest
<1> QED BY <1>3, <1>4, <1>5, <1>6 DEF IInv

LEMMA RebootGoesStep ==
    ASSUME IInv, NEW j \in JobIds, RebootGoes(j)
    PROVE  IInv'
<1>1. TypeOK /\ AbsentRows /\ LiveRows /\ StaleRows /\ RebootRows /\ PendingRequests
      /\ OneRunningPerEnv /\ RebootAlone /\ QueuedNotCancelled
  BY DEF IInv
<1>2. /\ UNCHANGED <<jobs, lastId, status, hosts, loop, req, paused, crashes, pauses, stale>>
      /\ phase' = [phase EXCEPT ![j] = "down"] /\ phase \in [JobIds -> Phases]
      /\ phase[j] = "wait" /\ RunningOn(jobs[j].host) \subseteq {j}
  BY <1>1 DEF MoveTo, TypeOK, RebootGoes
<1>3. TypeOK'
  BY <1>1, <1>2 DEF TypeOK, Phases
<1>4. AbsentRows' /\ LiveRows' /\ StaleRows'
  BY <1>1, <1>2 DEF AbsentRows, LiveRows, Live, LostRow, Running, StaleRows
<1>5. RebootRows'
  BY <1>1, <1>2 DEF RebootRows
<1>6. RebootAlone'
  BY <1>1, <1>2 DEF RebootAlone, Running, RunningOn
<1>7. OneRunningPerEnv' /\ QueuedNotCancelled' /\ PendingRequests'
  BY <1>1, <1>2 DEF OneRunningPerEnv, Running, QueuedNotCancelled, Queued, PendingRequests, PendingRequest
<1> QED BY <1>3, <1>4, <1>5, <1>6, <1>7 DEF IInv

(* Steps that end threads, and may take their rows out of running. *)
LEMMA EndStep ==
    ASSUME IInv, NEW S \in SUBSET JobIds, NEW T \in SUBSET JobIds,
           jobs' \in [JobIds -> Row],
           \A j \in JobIds : /\ jobs'[j].type = jobs[j].type /\ jobs'[j].env = jobs[j].env
                             /\ jobs'[j].host = jobs[j].host /\ jobs'[j].cancel = jobs[j].cancel,
           \A j \in JobIds \ S : jobs'[j].state = jobs[j].state,
           \A j \in S : jobs[j].state \notin {"absent", "queued"} /\ jobs'[j].state \in FINISHED,
           \A j \in S : j \in T \/ LostRow(j)',
           phase' = [j \in JobIds |-> IF j \in T THEN "none" ELSE phase[j]],
           stale' \subseteq stale \ S,
           UNCHANGED <<lastId, hosts, req, paused, pauses>>,
           status' \in [Envs -> Statuses],
           loop' \in [Workers -> {"down", "idle", "claim"}],
           crashes' \in 0 .. MaxCrashes
    PROVE  IInv'
<1>1. TypeOK /\ AbsentRows /\ LiveRows /\ StaleRows /\ RebootRows /\ PendingRequests
      /\ OneRunningPerEnv /\ RebootAlone /\ QueuedNotCancelled
  BY DEF IInv
<1>2. \A j \in JobIds : (Running(j))' => Running(j) /\ j \notin S
  BY DEF Running, FINISHED
<1>3. \A j \in JobIds : (Queued(j))' => Queued(j)
  BY DEF Queued, FINISHED
<1>4. phase \in [JobIds -> Phases] /\ "none" \in Phases
  BY <1>1 DEF TypeOK, Phases
<1>5. TypeOK'
  BY <1>1, <1>4 DEF TypeOK
<1>6. AbsentRows'
  BY <1>1 DEF AbsentRows, FINISHED
<1>7. LiveRows'
  BY <1>1 DEF LiveRows, Live, LostRow, Running
<1>8. StaleRows' /\ RebootRows'
  BY <1>1, <1>4 DEF StaleRows, RebootRows, Targeted, Running, TypeOK
<1>9. PendingRequests'
  BY <1>1, <1>3 DEF PendingRequests, PendingRequest, TypeOK, ReqStates, Idle
<1>10. OneRunningPerEnv' /\ QueuedNotCancelled'
  BY <1>1, <1>2, <1>3 DEF OneRunningPerEnv, QueuedNotCancelled
<1>11. RebootAlone'
  BY <1>1, <1>2 DEF RebootAlone, RunningOn
<1> QED BY <1>5, <1>6, <1>7, <1>8, <1>9, <1>10, <1>11 DEF IInv

-----------------------------------------------------------------------------
(* Steps that insert a row, claim one, cancel one, or let one go stale. *)

LEMMA InsertStep ==
    ASSUME IInv, NEW row \in Row, row.state = "queued", ~row.cancel,
           Targeted(row),
           lastId < MaxJobs, lastId' = lastId + 1,
           jobs' = [jobs EXCEPT ![lastId + 1] = row],
           status' \in [Envs -> Statuses],
           req' \in [Requests -> ReqStates],
           \A r \in Requests : req'[r] = req[r] \/ req'[r] = Idle,
           UNCHANGED <<hosts, stale, loop, paused, crashes, pauses>>,
           phase' = phase \/ \E j \in JobIds : Live(j) /\ phase' = [phase EXCEPT ![j] = "ok"]
    PROVE  IInv'
<1>1. TypeOK /\ AbsentRows /\ LiveRows /\ StaleRows /\ RebootRows /\ PendingRequests
      /\ OneRunningPerEnv /\ RebootAlone /\ QueuedNotCancelled
  BY DEF IInv
<1> DEFINE n == lastId + 1
<1>2. /\ n \in JobIds /\ lastId \in Nat /\ lastId' = n /\ lastId' \in 0 .. MaxJobs
      /\ phase[n] = "none" /\ jobs[n].state = "absent"
      /\ \A j \in JobIds : j > lastId <=> (j > n \/ j = n)
  BY <1>1, Bounds DEF AbsentRows, TypeOK, JobIds
<1>3. /\ jobs' \in [JobIds -> Row] /\ jobs'[n] = row
      /\ \A j \in JobIds \ {n} : jobs'[j] = jobs[j]
  BY <1>1, <1>2 DEF TypeOK
<1>4. /\ phase' \in [JobIds -> Phases] /\ phase'[n] = "none"
      /\ \A j \in JobIds : phase'[j] = phase[j] \/ (phase'[j] = "ok" /\ Live(j))
  BY <1>1, <1>2 DEF TypeOK, Phases, Live
<1> HIDE DEF n
<1>5. \A j \in JobIds : (Running(j))' <=> Running(j)
  BY <1>2, <1>3 DEF Running
<1>6. TypeOK'
  BY <1>1, <1>2, <1>3, <1>4 DEF TypeOK
<1>7. AbsentRows'
  BY <1>1, <1>2, <1>3, <1>4, Bounds DEF AbsentRows, Live, JobIds
<1>8. LiveRows' /\ StaleRows'
  BY <1>1, <1>2, <1>3, <1>4, <1>5 DEF LiveRows, StaleRows, Live, LostRow, TypeOK
<1>9. RebootRows'
  BY <1>1, <1>2, <1>3, <1>4 DEF RebootRows
<1>10. PendingRequests'
  <2> SUFFICES ASSUME NEW r \in Requests PROVE PendingRequest(r)'
    BY DEF PendingRequests
  <2>1. CASE req'[r] = Idle
    BY <2>1 DEF PendingRequest, Idle
  <2>2. CASE req'[r] = req[r] /\ req[r].op = "cancel"
    <3>1. req[r].job \in JobIds /\ req[r].job <= lastId
      BY <1>1, <2>2 DEF PendingRequests, PendingRequest, TypeOK, ReqStates, Idle
    <3> QED BY <1>1, <1>2, <1>3, <2>2, <3>1, Bounds DEF PendingRequests, PendingRequest, Queued, JobIds
  <2>3. CASE req'[r] = req[r] /\ req[r].op # "cancel"
    BY <1>1, <2>3 DEF PendingRequests, PendingRequest
  <2> QED BY <2>1, <2>2, <2>3
<1>11. OneRunningPerEnv'
  BY <1>1, <1>2, <1>3, <1>5 DEF OneRunningPerEnv, Running
<1>12. QueuedNotCancelled'
  BY <1>1, <1>3 DEF QueuedNotCancelled, Queued
<1>13. RebootAlone'
  <2> SUFFICES ASSUME NEW j \in JobIds, (phase[j] = "down" /\ Running(j))'
               PROVE  (RunningOn(jobs[j].host) = {j})'
    BY DEF RebootAlone
  <2>1. j # n /\ phase[j] = "down" /\ Running(j) /\ jobs'[j] = jobs[j]
    BY <1>2, <1>3, <1>4, <1>5
  <2>2. RunningOn(jobs[j].host) = {j}
    BY <1>1, <2>1 DEF RebootAlone
  <2>3. (RunningOn(jobs[j].host))' = RunningOn(jobs[j].host)
    BY <1>2, <1>3, <1>5, <2>1 DEF RunningOn, Running
  <2> QED BY <2>2, <2>3
<1> QED BY <1>6, <1>7, <1>8, <1>9, <1>10, <1>11, <1>12, <1>13 DEF IInv

LEMMA TakeStep ==
    ASSUME IInv, NEW w \in Workers, NEW j \in JobIds, Runnable(j), Take(w, j),
           loop' \in [Workers -> {"down", "idle", "claim"}],
           UNCHANGED <<lastId, status, hosts, stale, req, paused, crashes, pauses>>
    PROVE  IInv'
<1>1. TypeOK /\ AbsentRows /\ LiveRows /\ StaleRows /\ RebootRows /\ PendingRequests
      /\ OneRunningPerEnv /\ RebootAlone /\ QueuedNotCancelled
  BY DEF IInv
<1>2. Queued(j) /\ EnvLets(j) /\ HostLets(j, Limit(jobs[j].host))
  BY DEF Runnable
<1>3. /\ jobs' \in [JobIds -> Row]
      /\ \A i \in JobIds : /\ jobs'[i].type = jobs[i].type /\ jobs'[i].env = jobs[i].env
                           /\ jobs'[i].host = jobs[i].host /\ jobs'[i].cancel = jobs[i].cancel
                           /\ jobs'[i].state = IF i = j THEN "running" ELSE jobs[i].state
  BY <1>1 DEF TypeOK, Take, Row, States
<1>4. FirstPhase(jobs[j].type) \in Phases \ {"none", "down"}
      /\ (FirstPhase(jobs[j].type) = "wait" => jobs[j].type = RebootJob)
  BY DEF FirstPhase, Phases
<1>5. /\ phase' \in [JobIds -> Phases]
      /\ \A i \in JobIds : phase'[i] = IF i = j THEN FirstPhase(jobs[j].type) ELSE phase[i]
  BY <1>1, <1>4 DEF TypeOK, Take
<1>6. \A i \in JobIds : (Running(i))' <=> Running(i) \/ i = j
  BY <1>3 DEF Running
<1>7. TypeOK'
  BY <1>1, <1>3, <1>5 DEF TypeOK
<1>8. AbsentRows'
  BY <1>1, <1>2, <1>3, <1>4, <1>5 DEF AbsentRows, Queued
<1>9. LiveRows' /\ StaleRows'
  BY <1>1, <1>3, <1>4, <1>5, <1>6 DEF LiveRows, Live, LostRow, StaleRows, TypeOK
<1>10. RebootRows'
  BY <1>1, <1>3, <1>4, <1>5 DEF RebootRows, Targeted
<1>11. PendingRequests'
  BY <1>1, <1>3 DEF PendingRequests, PendingRequest, Queued, TypeOK, ReqStates, Idle
<1>12. QueuedNotCancelled'
  BY <1>1, <1>3 DEF QueuedNotCancelled, Queued
<1>13. OneRunningPerEnv'
  BY <1>1, <1>2, <1>3, <1>6 DEF OneRunningPerEnv, EnvLets, EnvRunning
<1>14. RebootAlone'
  <2> SUFFICES ASSUME NEW i \in JobIds, (phase[i] = "down" /\ Running(i))'
               PROVE  (RunningOn(jobs[i].host) = {i})'
    BY DEF RebootAlone
  <2>1. i # j /\ phase[i] = "down" /\ Running(i)
    BY <1>4, <1>5, <1>6
  <2>2. RunningOn(jobs[i].host) = {i} /\ jobs[i].type = RebootJob
    BY <1>1, <2>1 DEF RebootAlone, RebootRows
  <2>3. jobs[i].host # NoHost
    BY <1>1, <2>2, ConstantsAssumption DEF RebootRows, Targeted, HOST_OWN_JOBS, ConstantsAssumption
  <2>4. jobs[j].host # jobs[i].host
    BY <1>2, <2>2, <2>3 DEF HostLets, Rebooting
  <2>5. (RunningOn(jobs[i].host))' = RunningOn(jobs[i].host)
    BY <1>3, <1>6, <2>4 DEF RunningOn
  <2> QED BY <2>2, <2>5
<1> QED BY <1>7, <1>8, <1>9, <1>10, <1>11, <1>12, <1>13, <1>14 DEF IInv

LEMMA CancelCommitStep ==
    ASSUME IInv, NEW r \in Requests, CancelCommit(r)
    PROVE  IInv'
<1>1. TypeOK /\ AbsentRows /\ LiveRows /\ StaleRows /\ RebootRows /\ PendingRequests
      /\ OneRunningPerEnv /\ RebootAlone /\ QueuedNotCancelled
  BY DEF IInv
<1> DEFINE j == req[r].job
           gone == req[r].saw = "queued"
<1>2. /\ j \in JobIds /\ j <= lastId
      /\ ~gone => ~Queued(j)
  BY <1>1 DEF CancelCommit, TypeOK, ReqStates, Idle, PendingRequests, PendingRequest
<1>3. /\ jobs' = [jobs EXCEPT ![j].cancel = TRUE,
                              ![j].state = IF gone THEN "cancelled" ELSE @]
      /\ stale' = IF gone THEN stale \ {j} ELSE stale
      /\ req' = [req EXCEPT ![r] = Idle]
      /\ UNCHANGED <<lastId, status, hosts, phase, loop, paused, crashes, pauses>>
  BY DEF CancelCommit
<1> HIDE DEF j, gone
<1>4. /\ jobs' \in [JobIds -> Row]
      /\ \A i \in JobIds : /\ jobs'[i].type = jobs[i].type /\ jobs'[i].env = jobs[i].env
                           /\ jobs'[i].host = jobs[i].host
                           /\ jobs'[i].cancel = IF i = j THEN TRUE ELSE jobs[i].cancel
                           /\ jobs'[i].state = IF i = j /\ gone THEN "cancelled" ELSE jobs[i].state
  <2> DEFINE new == IF gone THEN "cancelled" ELSE jobs[j].state
  <2>1. jobs \in [JobIds -> Row] /\ jobs[j] \in Row
    BY <1>1, <1>2 DEF TypeOK
  <2>2. new \in States
    BY <2>1 DEF Row, States, FINISHED
  <2>3. jobs' = [jobs EXCEPT ![j].cancel = TRUE, ![j].state = new]
    BY <1>2, <1>3, <2>1
  <2> HIDE DEF new
  <2>4. /\ jobs' \in [JobIds -> Row]
        /\ jobs'[j].state = new
        /\ \A i \in JobIds : /\ jobs'[i].type = jobs[i].type /\ jobs'[i].env = jobs[i].env
                             /\ jobs'[i].host = jobs[i].host
                             /\ jobs'[i].cancel = IF i = j THEN TRUE ELSE jobs[i].cancel
                             /\ i # j => jobs'[i].state = jobs[i].state
    BY <1>2, <2>1, <2>2, <2>3 DEF Row
  <2> QED BY <2>4 DEF new
<1>5. req' \in [Requests -> ReqStates] /\ \A q \in Requests : req'[q] = Idle \/ req'[q] = req[q]
  BY <1>1, <1>3 DEF TypeOK, ReqStates
<1>6. \A i \in JobIds : (Running(i))' <=> Running(i) /\ ~(i = j /\ gone)
  BY <1>4 DEF Running
<1>7. \A i \in JobIds : (Queued(i))' <=> Queued(i) /\ ~(i = j /\ gone)
  BY <1>4 DEF Queued
<1>8. TypeOK'
  BY <1>1, <1>3, <1>4, <1>5 DEF TypeOK
<1>9. AbsentRows'
  BY <1>1, <1>2, <1>3, <1>4, Bounds DEF AbsentRows, TypeOK, JobIds
<1>10. LiveRows' /\ StaleRows'
  BY <1>1, <1>3, <1>4, <1>6 DEF LiveRows, Live, LostRow, StaleRows, TypeOK
<1>11. RebootRows'
  BY <1>1, <1>3, <1>4 DEF RebootRows, Targeted
<1>12. PendingRequests'
  <2> SUFFICES ASSUME NEW q \in Requests PROVE PendingRequest(q)'
    BY DEF PendingRequests
  <2>1. CASE req'[q] = Idle
    BY <2>1 DEF PendingRequest, Idle
  <2>2. CASE req'[q] = req[q]
    BY <1>1, <1>3, <1>7, <2>2 DEF PendingRequests, PendingRequest, TypeOK, ReqStates, Idle
  <2> QED BY <1>5, <2>1, <2>2
<1>13. QueuedNotCancelled'
  BY <1>1, <1>2, <1>4, <1>7 DEF QueuedNotCancelled
<1>14. OneRunningPerEnv'
  BY <1>1, <1>4, <1>6 DEF OneRunningPerEnv
<1>15. RebootAlone'
  BY <1>1, <1>3, <1>4, <1>6 DEF RebootAlone, RunningOn
<1> QED BY <1>8, <1>9, <1>10, <1>11, <1>12, <1>13, <1>14, <1>15 DEF IInv

LEMMA GoStaleStep ==
    ASSUME IInv, NEW j \in JobIds, GoStale(j)
    PROVE  IInv'
<1>1. TypeOK /\ AbsentRows /\ LiveRows /\ StaleRows /\ RebootRows /\ PendingRequests
      /\ OneRunningPerEnv /\ RebootAlone /\ QueuedNotCancelled
  BY DEF IInv
<1>2. TypeOK' /\ StaleRows'
  BY <1>1 DEF GoStale, TypeOK, StaleRows, Running
<1>3. AbsentRows' /\ LiveRows' /\ RebootRows' /\ QueuedNotCancelled' /\ OneRunningPerEnv'
  BY <1>1 DEF GoStale, AbsentRows, LiveRows, Live, LostRow, Running, RebootRows,
              QueuedNotCancelled, Queued, OneRunningPerEnv
<1>4. RebootAlone' /\ PendingRequests'
  BY <1>1 DEF GoStale, RebootAlone, RunningOn, Running, PendingRequests, PendingRequest, Queued
<1> QED BY <1>2, <1>3, <1>4 DEF IInv

-----------------------------------------------------------------------------
(* Every action preserves IInv. *)

LEMMA ApiIInv ==
    ASSUME IInv, NEW r \in Requests, ApiStep(r)
    PROVE  IInv'
<1>1. TypeOK /\ RebootRows /\ PendingRequests
  BY DEF IInv
<1>2. CASE \E e \in Envs, t \in EnvTypes, h \in Hosts \cup {NoHost} : QueueEnvJob(r, e, t, h)
  <2>1. PICK e \in Envs, t \in EnvTypes, h \in Hosts \cup {NoHost} : QueueEnvJob(r, e, t, h)
    BY <1>2
  <2>2. t \in JobTypes /\ t \notin HOST_OWN_JOBS
    BY DEF JobTypes, EnvTypes, EngineTypes, VmTypes, HOST_OWN_JOBS, ReadOnlyTypes,
           DeployJob, DestroyJob, MoveJob, RotateJob, RebootJob
  <2>3. Targeted(NewRow(t, e, h))
    BY <2>2, NewRowType DEF Targeted
  <2>4. NewRow(t, e, h) \in Row /\ Sets(t, status[e]) \in Statuses \cup {"keep"}
    BY <2>2, NewRowType DEF Sets, Statuses
  <2> QED BY <2>1, <2>2, <2>3, <2>4, NewRowType, BeginStep DEF QueueEnvJob
<1>3. CASE \E h \in Hosts, t \in HOST_OWN_JOBS : QueueHostJob(r, h, t)
  <2>1. PICK h \in Hosts, t \in HOST_OWN_JOBS : QueueHostJob(r, h, t)
    BY <1>3
  <2>2. t \in JobTypes /\ t # MoveJob
    BY DEF JobTypes, HOST_OWN_JOBS, RebootJob, MoveJob
  <2>3. Targeted(NewRow(t, NoEnv, h))
    BY <2>2, NewRowType DEF Targeted
  <2> QED BY <2>1, <2>2, <2>3, NewRowType, BeginStep DEF QueueHostJob
<1>4. CASE \E j \in JobIds : Retry(r, j) \/ CancelRead(r, j)
  <2>1. PICK j \in JobIds : Retry(r, j) \/ CancelRead(r, j)
    BY <1>4
  <2>2. jobs[j] \in Row
    BY <1>1 DEF TypeOK
  <2>3. /\ jobs[j].type \in JobTypes /\ jobs[j].env \in Envs \cup {NoEnv}
        /\ jobs[j].host \in Hosts \cup {NoHost}
        /\ jobs[j].type \in HOST_OWN_JOBS => jobs[j].host \in Hosts /\ jobs[j].env = NoEnv
        /\ jobs[j].type = MoveJob => jobs[j].env \in Envs
    BY <1>1, <2>2 DEF Row, RebootRows, Targeted
  <2>4. CASE Retry(r, j)
    <3>1. Targeted(NewRow(jobs[j].type, jobs[j].env, jobs[j].host))
      BY <2>3, TargetedRow
    <3>2. /\ NewRow(jobs[j].type, jobs[j].env, jobs[j].host) \in Row
          /\ NewRow(jobs[j].type, jobs[j].env, jobs[j].host).state = "queued"
          /\ ~NewRow(jobs[j].type, jobs[j].env, jobs[j].host).cancel
      BY <2>3, NewRowType
    <3> QED BY <2>4, <3>1, <3>2, BeginStep DEF Retry
  <2>5. CASE CancelRead(r, j)
    BY <2>5, CancelReadStep
  <2> QED BY <2>1, <2>4, <2>5
<1>5. CASE CommitInsert(r)
  <2>1. req[r] \in ReqStates /\ req[r].op = "insert"
    BY <1>1, <1>5 DEF TypeOK, CommitInsert
  <2>2. /\ req[r].row \in Row /\ req[r].status \in Statuses \cup {"keep"}
        /\ req[r].row.state = "queued" /\ ~req[r].row.cancel
        /\ Targeted(req[r].row)
    BY <1>1, <2>1 DEF ReqStates, Idle, PendingRequests, PendingRequest
  <2>3. status' \in [Envs -> Statuses]
    BY <1>1, <1>5, <2>2 DEF TypeOK, CommitInsert
  <2>4. req' \in [Requests -> ReqStates] /\ \A q \in Requests : req'[q] = req[q] \/ req'[q] = Idle
    BY <1>1, <1>5 DEF TypeOK, CommitInsert, ReqStates
  <2> QED BY <1>5, <2>2, <2>3, <2>4, InsertStep DEF CommitInsert
<1>6. CASE CancelCommit(r)
  BY <1>6, CancelCommitStep
<1> QED BY <1>2, <1>3, <1>4, <1>5, <1>6 DEF ApiStep

LEMMA WorkerIInv ==
    ASSUME IInv, NEW w \in Workers, WorkerStep(w)
    PROVE  IInv'
<1>1. TypeOK /\ StaleRows
  BY DEF IInv
<1>2. CASE ReadMaintenance(w) \/ WorkerStarts(w)
  BY <1>2, QuietSteps
<1>3. CASE Claim(w)
  <2>1. loop' \in [Workers -> {"down", "idle", "claim"}]
    BY <1>1, <1>3 DEF TypeOK, Claim
  <2>2. CASE UNCHANGED <<jobs, phase>>
    <3>1. TypeOK'
      BY <1>1, <1>3, <2>1, <2>2 DEF TypeOK, Claim
    <3>2. PendingRequests'
      BY <1>3, <2>2 DEF IInv, PendingRequests, PendingRequest, Queued, Claim
    <3> QED BY <1>3, <2>2, <3>1, <3>2, FrameStep DEF Claim
  <2>3. CASE \E j \in JobIds : Runnable(j) /\ Take(w, j)
    BY <1>3, <2>1, <2>3, TakeStep DEF Claim
  <2> QED BY <1>3, <2>2, <2>3 DEF Claim
<1>4. CASE RecoverStale(w)
  <2>1. /\ jobs' = [j \in JobIds |-> IF j \in stale THEN [jobs[j] EXCEPT !.state = "failed"]
                                     ELSE jobs[j]]
        /\ stale' = stale \ stale
        /\ UNCHANGED <<lastId, hosts, phase, loop, req, paused, crashes, pauses>>
        /\ stale \in SUBSET JobIds /\ \A j \in stale : jobs[j].state = "running"
    BY <1>1, <1>4 DEF RecoverStale, Fail, TypeOK, StaleRows, Running
  <2>2. status' \in [Envs -> Statuses]
    BY <1>1, <1>4 DEF RecoverStale, Fail, TypeOK, Statuses
  <2>3. \A j \in JobIds : [jobs[j] EXCEPT !.state = "failed"] \in Row
    BY <1>1 DEF TypeOK, Row, States, FINISHED
  <2>4. jobs' \in [JobIds -> Row]
    BY <1>1, <2>1, <2>3 DEF TypeOK
  <2>5. \A j \in JobIds : /\ jobs'[j].type = jobs[j].type /\ jobs'[j].env = jobs[j].env
                          /\ jobs'[j].host = jobs[j].host /\ jobs'[j].cancel = jobs[j].cancel
                          /\ jobs'[j].state = IF j \in stale THEN "failed" ELSE jobs[j].state
    BY <1>1, <2>1 DEF TypeOK, Row
  <2>6. phase' = [j \in JobIds |-> IF j \in {} THEN "none" ELSE phase[j]]
    BY <1>1, <2>1 DEF TypeOK
  <2>7. loop' \in [Workers -> {"down", "idle", "claim"}] /\ crashes' \in 0 .. MaxCrashes
    BY <1>1, <2>1 DEF TypeOK
  <2>8. \A j \in stale : j \in {} \/ LostRow(j)'
    BY <2>1, <2>5 DEF LostRow
  <2>9. /\ \A j \in JobIds \ stale : jobs'[j].state = jobs[j].state
        /\ \A j \in stale : jobs[j].state \notin {"absent", "queued"} /\ jobs'[j].state \in FINISHED
        /\ stale' \subseteq stale \ stale
        /\ {} \in SUBSET JobIds /\ stale \in SUBSET JobIds
    BY <2>1, <2>5 DEF FINISHED
  <2>10. UNCHANGED <<lastId, hosts, req, paused, pauses>>
    BY <2>1
  <2> QED BY ONLY IInv, <2>2, <2>4, <2>5, <2>6, <2>7, <2>8, <2>9, <2>10, EndStep
<1>5. CASE WorkerDies(w)
  <2>1. loop' \in [Workers -> {"down", "idle", "claim"}] /\ crashes' \in 0 .. MaxCrashes
    BY <1>1, <1>5, Bounds DEF TypeOK, WorkerDies
  <2>2. UNCHANGED <<jobs, lastId, status, hosts, stale, req, paused, pauses>>
        /\ phase' = [j \in JobIds |-> IF j \in Active(w) THEN "none" ELSE phase[j]]
    BY <1>5 DEF WorkerDies
  <2>3. Active(w) \in SUBSET JobIds /\ {} \in SUBSET JobIds
    BY DEF Active
  <2>4. jobs' \in [JobIds -> Row] /\ status' \in [Envs -> Statuses] /\ stale' \subseteq stale \ {}
    BY <1>1, <2>2 DEF TypeOK
  <2>5. /\ \A j \in JobIds : /\ jobs'[j].type = jobs[j].type /\ jobs'[j].env = jobs[j].env
                             /\ jobs'[j].host = jobs[j].host /\ jobs'[j].cancel = jobs[j].cancel
        /\ \A j \in JobIds \ {} : jobs'[j].state = jobs[j].state
    BY <2>2
  <2>6. /\ \A j \in {} : jobs[j].state \notin {"absent", "queued"} /\ jobs'[j].state \in FINISHED
        /\ \A j \in {} : j \in Active(w) \/ LostRow(j)'
    OBVIOUS
  <2> HIDE DEF IInv
  <2> QED BY ONLY IInv, <2>1, <2>2, <2>3, <2>4, <2>5, <2>6, EndStep
<1> QED BY <1>2, <1>3, <1>4, <1>5 DEF WorkerStep

LEMMA ThreadIInv ==
    ASSUME IInv, NEW j \in JobIds, ThreadStep(j)
    PROVE  IInv'
<1>1. TypeOK /\ AbsentRows /\ LiveRows /\ RebootRows
  BY DEF IInv
<1>2. phase[j] \in Phases /\ jobs[j] \in Row
  BY <1>1 DEF TypeOK
<1>3. CASE Prepared(j) \/ ScriptEnds(j) \/ Pulled(j) \/ WorkEnds(j) \/ RebootGivesUp(j) \/ RebootEnds(j)
  <2>1. /\ {"script", "pull", "ok", "bad"} \subseteq Phases \ {"none", "wait", "down"}
        /\ Live(j)
    BY <1>3 DEF Phases, Live, Prepared, ScriptEnds, Pulled, WorkEnds, RebootGivesUp, RebootEnds
  <2>2. \E p \in {"script", "pull", "ok", "bad"} :
           MoveTo(j, p) /\ (stale' = stale \/ stale' = stale \ {j})
    BY <1>3 DEF Prepared, ScriptEnds, Pulled, WorkEnds, RebootGivesUp, RebootEnds
  <2> QED BY <2>1, <2>2, MoveStep
<1>4. CASE Moved(j)
  <2> DEFINE e == jobs[j].env
  <2>1. Live(j) /\ jobs[j].type = MoveJob /\ jobs[j].env \in Envs \cup {NoEnv}
    BY <1>2, <1>4 DEF Moved, Live, Row
  <2>2. status' \in [Envs -> Statuses]
    BY <1>1, <1>4 DEF Moved, TypeOK, Statuses
  <2>3. HomeOf[e] \in Hosts \cup {NoHost}
    BY <1>1, <2>1, ConstantsAssumption DEF ConstantsAssumption, RebootRows, Targeted
  <2>4. /\ NewRow(DeployJob, e, HomeOf[e]) \in Row
        /\ Targeted(NewRow(DeployJob, e, HomeOf[e]))
        /\ NewRow(DeployJob, e, HomeOf[e]).state = "queued"
        /\ ~NewRow(DeployJob, e, HomeOf[e]).cancel
    BY <2>1, <2>3, NewRowType DEF JobTypes, EnvTypes, EngineTypes, HOST_OWN_JOBS,
          DeployJob, RebootJob, MoveJob, Targeted
  <2>5. req' \in [Requests -> ReqStates] /\ \A r \in Requests : req'[r] = req[r]
    BY <1>1, <1>4 DEF TypeOK, Moved
  <2>6. /\ lastId < MaxJobs /\ lastId' = lastId + 1
        /\ jobs' = [jobs EXCEPT ![lastId + 1] = NewRow(DeployJob, e, HomeOf[e])]
        /\ phase' = [phase EXCEPT ![j] = "ok"]
        /\ UNCHANGED <<hosts, stale, loop, paused, crashes, pauses>>
    BY <1>4 DEF Moved
  <2> HIDE DEF e
  <2> QED BY <2>1, <2>2, <2>4, <2>5, <2>6, InsertStep
<1>5. CASE RebootGoes(j)
  BY <1>5, RebootGoesStep
<1>6. CASE GoStale(j)
  BY <1>6, GoStaleStep
<1>7. CASE Finish(j) \/ RunnerError(j)
  <2> DEFINE S == IF jobs[j].state = "running" \/ Finish(j) THEN {j} ELSE {}
             new == IF Finish(j) THEN Outcome(j) ELSE "failed"
  <2>1. Live(j) /\ jobs[j].state \notin {"absent", "queued"}
    BY <1>1, <1>7 DEF Finish, RunnerError, Live, LiveRows, Running, LostRow
  <2>2. jobs' = [jobs EXCEPT ![j].state = IF j \in S THEN new ELSE @]
    BY <1>1, <1>7 DEF Finish, RunnerError, TypeOK
  <2>3. new \in FINISHED /\ S \in SUBSET JobIds /\ {j} \in SUBSET JobIds
    BY DEF Outcome, FINISHED
  <2>4. /\ phase' = [i \in JobIds |-> IF i \in {j} THEN "none" ELSE phase[i]]
        /\ stale' \subseteq stale \ S
        /\ UNCHANGED <<lastId, hosts, req, paused, pauses>>
        /\ loop' \in [Workers -> {"down", "idle", "claim"}] /\ crashes' \in 0 .. MaxCrashes
    BY <1>1, <1>7 DEF Finish, RunnerError, TypeOK
  <2>5. status' \in [Envs -> Statuses]
    <3>1. \A s \in Statuses : StatusAfter(j, s) \in Statuses
      BY DEF StatusAfter, Statuses
    <3> QED BY <1>1, <1>7, <3>1 DEF Finish, RunnerError, TypeOK
  <2> HIDE DEF S, new
  <2>6. /\ jobs' \in [JobIds -> Row]
        /\ \A i \in JobIds : /\ jobs'[i].type = jobs[i].type /\ jobs'[i].env = jobs[i].env
                             /\ jobs'[i].host = jobs[i].host /\ jobs'[i].cancel = jobs[i].cancel
        /\ \A i \in JobIds \ S : jobs'[i].state = jobs[i].state
        /\ \A i \in S : i = j => jobs'[i].state \in FINISHED
    BY <1>1, <2>2, <2>3 DEF TypeOK, Row, States
  <2>7. \A i \in S : i = j
    BY DEF S
  <2>8. /\ \A i \in S : jobs[i].state \notin {"absent", "queued"} /\ jobs'[i].state \in FINISHED
        /\ \A i \in S : i \in {j} \/ LostRow(i)'
    BY <2>1, <2>6, <2>7
  <2> QED BY ONLY IInv, <2>3, <2>4, <2>5, <2>6, <2>8, EndStep
<1> QED BY <1>3, <1>4, <1>5, <1>6, <1>7 DEF ThreadStep, Progress

LEMMA NextIInv == IInv /\ [Next]_vars => IInv'
<1> SUFFICES ASSUME IInv, [Next]_vars PROVE IInv'
  OBVIOUS
<1>1. CASE \E r \in Requests : ApiStep(r)
  BY <1>1, ApiIInv
<1>2. CASE AdminStep
  BY <1>2, QuietSteps DEF AdminStep
<1>3. CASE \E w \in Workers : WorkerStep(w)
  BY <1>3, WorkerIInv
<1>4. CASE \E j \in JobIds : ThreadStep(j)
  BY <1>4, ThreadIInv
<1>5. CASE UNCHANGED vars
  <2>1. TypeOK' /\ PendingRequests'
    BY <1>5 DEF vars, IInv, TypeOK, PendingRequests, PendingRequest, Queued
  <2> QED BY <1>5, <2>1, FrameStep DEF vars
<1> QED BY <1>1, <1>2, <1>3, <1>4, <1>5 DEF Next

(* IInv is an invariant of the queue, for every number of environments,     *)
(* hosts, workers and requests in flight (api/jobs.py, runner.py).          *)
THEOREM Invariance == Spec => []IInv
<1> QED BY InitIInv, NextIInv, PTL DEF Spec

(* The table, the statuses and the threads stay within their types: no      *)
(* handler writes a job state where a status belongs, or the other way.     *)
THEOREM TypeCorrect == Spec => []TypeOK
<1>1. IInv => TypeOK
  BY DEF IInv
<1> QED BY <1>1, Invariance, PTL

(* One running row per environment, whatever the API handlers inserted and  *)
(* however many workers claim: claim()'s subquery under its advisory lock.  *)
THEOREM OneRunning == Spec => []OneRunningPerEnv
<1>1. IInv => OneRunningPerEnv
  BY DEF IInv
<1> QED BY <1>1, Invariance, PTL

(* A host that goes down for a reboot whose row is running has no other     *)
(* running row: run_reboot's wait and claim's skip of a rebooting host.     *)
THEOREM RebootIsAlone == Spec => []RebootAlone
<1>1. IInv => RebootAlone
  BY DEF IInv
<1> QED BY <1>1, Invariance, PTL

(* No queued row carries a cancel request, so a cancelled job is not        *)
(* claimed later: cancel's write and claim's, in either order.              *)
THEOREM CancelledStays == Spec => []QueuedNotCancelled
<1>1. IInv => QueuedNotCancelled
  BY DEF IInv
<1> QED BY <1>1, Invariance, PTL

(* Two threads share an engine directory only when one of them lost its row *)
(* to recover_stale or to a cancel: the claim itself never lets a second    *)
(* one in.                                                                  *)
THEOREM SharedAfterLoss == Spec => []SharedOnlyAfterLoss
<1>1. IInv => SharedOnlyAfterLoss
  <2> SUFFICES ASSUME IInv, NEW i \in JobIds, NEW j \in JobIds,
                      InEngineDir(i), InEngineDir(j), i # j,
                      jobs[i].env = jobs[j].env, jobs[i].env # NoEnv
               PROVE  LostRow(i) \/ LostRow(j)
    BY DEF SharedOnlyAfterLoss
  <2>1. Live(i) /\ Live(j)
    BY DEF InEngineDir, Live
  <2>2. (Running(i) \/ LostRow(i)) /\ (Running(j) \/ LostRow(j))
    BY <2>1 DEF IInv, LiveRows
  <2>3. ~(Running(i) /\ Running(j))
    BY DEF IInv, OneRunningPerEnv
  <2> QED BY <2>2, <2>3
<1> QED BY <1>1, Invariance, PTL

-----------------------------------------------------------------------------
(* What a step may do to the running rows: claim starts one, nothing else   *)
(* starts any.                                                              *)

Starts(j) == /\ Runnable(j)
             /\ \A k \in JobIds : Runnable(k) => j <= k
             /\ \A i \in JobIds : (Running(i))' <=> Running(i) \/ i = j
             /\ \A i \in JobIds : jobs'[i].host = jobs[i].host
             /\ UNCHANGED hosts

NoneStarts == \A i \in JobIds : (Running(i))' => Running(i) /\ jobs'[i].host = jobs[i].host

LEMMA StartsByClaim ==
    ASSUME IInv, [Next]_vars
    PROVE  NoneStarts \/ \E j \in JobIds : Starts(j)
<1>1. TypeOK /\ AbsentRows /\ PendingRequests
  BY DEF IInv
<1>2. ASSUME NEW r \in Requests, ApiStep(r) PROVE NoneStarts
  <2>1. CASE UNCHANGED jobs
    BY <2>1 DEF NoneStarts, Running
  <2>2. CASE CommitInsert(r)
    <3>1. req[r].row.state = "queued" /\ lastId + 1 \in JobIds
      BY <1>1, <2>2, Bounds DEF CommitInsert, PendingRequests, PendingRequest, TypeOK, JobIds
    <3> QED BY <1>1, <2>2, <3>1 DEF CommitInsert, NoneStarts, Running, TypeOK
  <2>3. CASE CancelCommit(r)
    BY <1>1, <2>3 DEF CancelCommit, NoneStarts, Running, TypeOK, Row
  <2> QED BY <1>2, <2>1, <2>2, <2>3 DEF ApiStep, QueueEnvJob, QueueHostJob, Retry, Begin, CancelRead
<1>3. ASSUME AdminStep \/ UNCHANGED vars PROVE NoneStarts
  BY <1>3 DEF AdminStep, SetHost, TurnOn, CacheEnds, TurnOff, vars, NoneStarts, Running
<1>4. ASSUME NEW w \in Workers, WorkerStep(w) PROVE NoneStarts \/ \E j \in JobIds : Starts(j)
  <2>1. CASE UNCHANGED jobs
    BY <2>1 DEF NoneStarts, Running
  <2>2. CASE RecoverStale(w)
    BY <1>1, <2>2 DEF RecoverStale, Fail, NoneStarts, Running, TypeOK, Row
  <2>3. ASSUME Claim(w), NEW j \in JobIds, Runnable(j), \A k \in JobIds : Runnable(k) => j <= k,
               Take(w, j)
        PROVE  Starts(j)
    BY <1>1, <2>3 DEF Claim, Take, Starts, Running, TypeOK, Row
  <2> QED BY <1>4, <2>1, <2>2, <2>3 DEF WorkerStep, ReadMaintenance, WorkerDies, WorkerStarts, Claim
<1>5. ASSUME NEW j \in JobIds, ThreadStep(j) PROVE NoneStarts
  <2>1. CASE UNCHANGED jobs
    BY <2>1 DEF NoneStarts, Running
  <2>2. CASE Moved(j)
    <3>1. lastId + 1 \in JobIds /\ NewRow(DeployJob, jobs[j].env, HomeOf[jobs[j].env]).state = "queued"
      BY <1>1, <2>2, Bounds DEF Moved, TypeOK, JobIds, NewRow
    <3> QED BY <1>1, <2>2, <3>1 DEF Moved, NoneStarts, Running, TypeOK
  <2>3. CASE Finish(j) \/ RunnerError(j)
    BY <1>1, <2>3 DEF Finish, RunnerError, Outcome, NoneStarts, Running, TypeOK, Row
  <2> QED BY <1>5, <2>1, <2>2, <2>3 DEF ThreadStep, Progress, Prepared, ScriptEnds, Pulled, WorkEnds,
             RebootGoes, RebootGivesUp, RebootEnds, GoStale, MoveTo
<1> QED BY <1>2, <1>3, <1>4, <1>5 DEF Next

LEMMA RunningOnFinite == \A h : IsFiniteSet(RunningOn(h)) /\ Cardinality(RunningOn(h)) \in Nat
<1>1. IsFiniteSet(JobIds)
  BY Bounds, FS_Interval DEF JobIds
<1>2. \A h : RunningOn(h) \subseteq JobIds
  BY DEF RunningOn
<1> QED BY <1>1, <1>2, FS_Subset, FS_CardinalityType

LEMMA LimitType == ASSUME TypeOK, NEW h \in Hosts PROVE Limit(h) \in Nat
BY ConstantsAssumption DEF TypeOK, Limit, ConstantsAssumption

(* No claim takes the running rows of a host past its concurrency limit, at *)
(* whatever moment the admin changes it.                                    *)
THEOREM LimitIsKept == Spec => LimitKept
<1>1. ASSUME IInv, [Next]_vars PROVE StepKeepsLimits
  <2> SUFFICES ASSUME NEW h \in Hosts
               PROVE  \/ (RunningOn(h))' \subseteq RunningOn(h)
                      \/ Cardinality((RunningOn(h))') <= Limit(h)
    BY DEF StepKeepsLimits
  <2>1. CASE NoneStarts
    BY <2>1 DEF NoneStarts, RunningOn
  <2>2. ASSUME NEW j \in JobIds, Starts(j), jobs[j].host = h
        PROVE  Cardinality((RunningOn(h))') <= Limit(h)
    <3>1. (RunningOn(h))' = RunningOn(h) \cup {j}
      BY <2>2 DEF Starts, RunningOn
    <3>2. Cardinality(RunningOn(h)) < Limit(h)
      BY <2>2, ConstantsAssumption DEF Starts, Runnable, HostLets, ConstantsAssumption
    <3>3. Cardinality(RunningOn(h) \cup {j}) <= Cardinality(RunningOn(h)) + 1
      BY RunningOnFinite, FS_AddElement
    <3>4. Limit(h) \in Nat /\ Cardinality(RunningOn(h)) \in Nat
      BY <1>1, RunningOnFinite, LimitType DEF IInv
    <3>5. IsFiniteSet(RunningOn(h) \cup {j})
      BY RunningOnFinite, FS_AddElement
    <3>6. Cardinality(RunningOn(h) \cup {j}) \in Nat
      BY <3>5, FS_CardinalityType
    <3> QED BY <3>1, <3>2, <3>3, <3>4, <3>6
  <2>3. ASSUME NEW j \in JobIds, Starts(j), jobs[j].host # h
        PROVE  (RunningOn(h))' \subseteq RunningOn(h)
    BY <2>3 DEF Starts, RunningOn
  <2> QED BY <1>1, <2>1, <2>2, <2>3, StartsByClaim
<1> QED BY <1>1, Invariance, PTL DEF Spec, LimitKept

(* Nothing starts on a host that waits to reboot, and on a host that is not *)
(* enabled only its own jobs do.                                            *)
THEOREM OpenHosts == Spec => HostMayStart
<1>1. ASSUME IInv, [Next]_vars PROVE StepStartsOnOpenHost
  <2>1. CASE NoneStarts
    BY <2>1 DEF NoneStarts, StepStartsOnOpenHost, Running, Queued
  <2>2. CASE \E j \in JobIds : Starts(j)
    BY <2>2 DEF Starts, Runnable, HostLets, StepStartsOnOpenHost, Running, Queued
  <2> QED BY <1>1, <2>1, <2>2, StartsByClaim
<1> QED BY <1>1, Invariance, PTL DEF Spec, HostMayStart

(* Among queued jobs that wait for the same environment and host, the one   *)
(* inserted first starts first.                                             *)
THEOREM ClaimedInOrder == Spec => InOrder
<1>1. ASSUME IInv, [Next]_vars PROVE StepStartsOldest
  <2> SUFFICES ASSUME NEW i \in JobIds, NEW j \in JobIds, i < j, Queued(i), Queued(j),
                      jobs[i].env = jobs[j].env, jobs[i].env # NoEnv, jobs[i].host = jobs[j].host,
                      (Running(j))'
               PROVE  FALSE
    BY DEF StepStartsOldest
  <2>1. PICK k \in JobIds : Starts(k)
    BY <1>1, StartsByClaim DEF NoneStarts, Running, Queued
  <2>2. k = j
    BY <2>1 DEF Starts, Running, Queued
  <2>3. ~Runnable(i)
    BY <2>1, <2>2, Bounds DEF Starts, JobIds
  <2>4. jobs[j].type \notin HOST_OWN_JOBS
    <3>1. RebootRows
      BY <1>1 DEF IInv
    <3>2. Targeted(jobs[j])
      BY <3>1 DEF RebootRows
    <3> QED BY <3>2 DEF Targeted
  <2>5. Runnable(j)
    BY <2>1, <2>2 DEF Starts
  <2>6. EnvLets(i) /\ HostLets(i, Limit(jobs[i].host))
    BY <2>4, <2>5 DEF Runnable, EnvLets, HostLets
  <2> QED BY <2>3, <2>6 DEF Runnable
<1> QED BY <1>1, Invariance, PTL DEF Spec, InOrder

-----------------------------------------------------------------------------
(* The job queue implements EnvTurns. *)

LEMMA InitMaps == Init => Turns!Init
<1> SUFFICES ASSUME Init PROVE Turns!Init
  OBVIOUS
<1>1. NoRow.state = "absent" /\ NoRow.env = NoEnv
  BY DEF NoRow, NewRow
<1>2. \A j \in JobIds : jobs[j].state = "absent" /\ jobs[j].env = NoEnv
  BY <1>1 DEF Init
<1> QED BY <1>2 DEF Turns!Init, Queued, Running, FINISHED

LEMMA SubmitMaps ==
    ASSUME TypeOK, NEW n \in JobIds, NEW row \in Row,
           jobs[n].state = "absent", row.state = "queued",
           jobs' = [jobs EXCEPT ![n] = row]
    PROVE  Turns!Next
<1>1. /\ jobs' \in [JobIds -> Row] /\ jobs'[n] = row
      /\ \A j \in JobIds \ {n} : jobs'[j] = jobs[j]
  BY DEF TypeOK
<1>2. row.env \in Envs \cup {NoEnv}
  BY DEF Row
<1>3. n \notin {j \in JobIds : Queued(j)} \cup {j \in JobIds : Running(j)}
               \cup {j \in JobIds : jobs[j].state \in FINISHED}
  BY DEF Queued, Running, FINISHED
<1>4. [j \in JobIds |-> jobs'[j].env] = [[j \in JobIds |-> jobs[j].env] EXCEPT ![n] = row.env]
  BY <1>1
<1>5. {j \in JobIds : (Queued(j))'} = {j \in JobIds : Queued(j)} \cup {n}
  BY <1>1 DEF Queued
<1>6. /\ {j \in JobIds : (Running(j))'} = {j \in JobIds : Running(j)}
      /\ {j \in JobIds : jobs'[j].state \in FINISHED} = {j \in JobIds : jobs[j].state \in FINISHED}
  BY <1>1 DEF Running, FINISHED
<1>7. Turns!Submit(n, row.env)
  BY <1>3, <1>4, <1>5, <1>6 DEF Turns!Submit
<1> QED BY <1>2, <1>7 DEF Turns!Next

LEMMA StartMaps ==
    ASSUME TypeOK, NEW w \in Workers, NEW j \in JobIds, Runnable(j), Take(w, j)
    PROVE  Turns!Next
<1>1. /\ jobs'[j].state = "running"
      /\ \A k \in JobIds : jobs'[k].env = jobs[k].env /\ (k # j => jobs'[k].state = jobs[k].state)
  BY DEF TypeOK, Take, Row
<1>2. Queued(j) /\ EnvLets(j)
  BY DEF Runnable
<1>3. /\ j \in {k \in JobIds : Queued(k)}
      /\ \/ [k \in JobIds |-> jobs[k].env][j] = NoEnv
         \/ \A k \in {i \in JobIds : Running(i)} :
               [i \in JobIds |-> jobs[i].env][k] # [i \in JobIds |-> jobs[i].env][j]
  BY <1>2 DEF EnvLets, EnvRunning
<1>4. [k \in JobIds |-> jobs'[k].env] = [k \in JobIds |-> jobs[k].env]
  BY <1>1
<1>5. /\ {k \in JobIds : (Queued(k))'} = {k \in JobIds : Queued(k)} \ {j}
      /\ {k \in JobIds : (Running(k))'} = {k \in JobIds : Running(k)} \cup {j}
      /\ {k \in JobIds : jobs'[k].state \in FINISHED} = {k \in JobIds : jobs[k].state \in FINISHED}
  BY <1>1, <1>2 DEF Queued, Running, FINISHED
<1>6. Turns!Start(j)
  BY <1>3, <1>4, <1>5 DEF Turns!Start
<1> QED BY <1>6 DEF Turns!Next

LEMMA EndMaps ==
    ASSUME NEW S \in SUBSET JobIds,
           \A j \in JobIds : jobs'[j].env = jobs[j].env,
           \A j \in JobIds \ S : jobs'[j].state = jobs[j].state,
           \A j \in S : jobs[j].state # "absent" /\ jobs[j].state \in States
                        /\ jobs'[j].state \in FINISHED
    PROVE  Turns!Next
<1>0. PICK ended \in SUBSET JobIds : ended = {j \in S : Queued(j) \/ Running(j)}
  OBVIOUS
<1>1. [j \in JobIds |-> jobs'[j].env] = [j \in JobIds |-> jobs[j].env]
  OBVIOUS
<1>2. /\ {j \in JobIds : (Queued(j))'} = {j \in JobIds : Queued(j)} \ ended
      /\ {j \in JobIds : (Running(j))'} = {j \in JobIds : Running(j)} \ ended
  BY <1>0 DEF Queued, Running, FINISHED
<1>3. {j \in JobIds : jobs'[j].state \in FINISHED}
        = {j \in JobIds : jobs[j].state \in FINISHED} \cup ended
  BY <1>0 DEF Queued, Running, FINISHED, States
<1>4. ended \subseteq {j \in JobIds : Queued(j)} \cup {j \in JobIds : Running(j)}
  BY <1>0
<1>5. Turns!End(ended)
  BY <1>1, <1>2, <1>3, <1>4 DEF Turns!End
<1> QED BY <1>5 DEF Turns!Next

LEMMA StepMaps == IInv /\ [Next]_vars => [Turns!Next]_(Turns!vars)
<1> SUFFICES ASSUME IInv, [Next]_vars PROVE [Turns!Next]_(Turns!vars)
  OBVIOUS
<1>1. TypeOK /\ AbsentRows /\ LiveRows /\ StaleRows /\ PendingRequests
  BY DEF IInv
<1>2. \A j \in JobIds : jobs[j] \in Row /\ jobs[j].state \in States
  BY <1>1 DEF TypeOK, Row
<1>3. CASE UNCHANGED jobs
  BY <1>3 DEF Turns!vars, Queued, Running
<1>4. lastId < MaxJobs => lastId + 1 \in JobIds /\ jobs[lastId + 1].state = "absent"
  BY <1>1, Bounds DEF TypeOK, JobIds, AbsentRows
<1>5. ASSUME NEW r \in Requests, CommitInsert(r) PROVE Turns!Next
  <2>1. req[r].row \in Row /\ req[r].row.state = "queued"
    BY <1>1, <1>5 DEF CommitInsert, PendingRequests, PendingRequest, TypeOK, ReqStates, Idle
  <2> QED BY <1>1, <1>4, <1>5, <2>1, SubmitMaps DEF CommitInsert
<1>6. ASSUME NEW r \in Requests, CancelCommit(r) PROVE Turns!Next
  <2> DEFINE j == req[r].job
             S == IF req[r].saw = "queued" THEN {j} ELSE {}
  <2>1. j \in JobIds /\ j <= lastId
    BY <1>1, <1>6 DEF CancelCommit, PendingRequests, PendingRequest, TypeOK, ReqStates, Idle
  <2>2. jobs[j].state # "absent" /\ S \in SUBSET JobIds
    BY <1>1, <2>1, Bounds DEF AbsentRows, TypeOK, JobIds
  <2>3. /\ \A i \in JobIds : jobs'[i].env = jobs[i].env
        /\ \A i \in JobIds \ S : jobs'[i].state = jobs[i].state
        /\ \A i \in S : i = j /\ jobs'[i].state \in FINISHED
    BY <1>1, <1>6, <2>1 DEF CancelCommit, TypeOK, Row, FINISHED
  <2> HIDE DEF j, S
  <2> QED BY <1>2, <2>2, <2>3, EndMaps
<1>7. ASSUME NEW w \in Workers, Claim(w) PROVE UNCHANGED jobs \/ Turns!Next
  BY <1>1, <1>7, StartMaps DEF Claim
<1>8. ASSUME NEW w \in Workers, RecoverStale(w) PROVE Turns!Next
  <2>1. stale \in SUBSET JobIds /\ \A j \in stale : jobs[j].state = "running"
    BY <1>1 DEF TypeOK, StaleRows, Running
  <2>2. /\ \A j \in JobIds : jobs'[j].env = jobs[j].env
        /\ \A j \in JobIds \ stale : jobs'[j].state = jobs[j].state
        /\ \A j \in stale : jobs'[j].state = "failed"
    BY <1>2, <1>8, <2>1 DEF RecoverStale, Fail, Row
  <2> QED BY <1>2, <2>1, <2>2, EndMaps DEF FINISHED
<1>9. ASSUME NEW j \in JobIds, Moved(j) PROVE Turns!Next
  <2>1. jobs[j].type = MoveJob /\ jobs[j].env \in Envs
    BY <1>9 DEF Moved, IInv, RebootRows, Targeted
  <2>2. HomeOf[jobs[j].env] \in Hosts /\ DeployJob \in JobTypes
    BY <2>1, ConstantsAssumption DEF ConstantsAssumption, JobTypes, EnvTypes, EngineTypes
  <2>3. /\ NewRow(DeployJob, jobs[j].env, HomeOf[jobs[j].env]) \in Row
        /\ NewRow(DeployJob, jobs[j].env, HomeOf[jobs[j].env]).state = "queued"
    BY <2>1, <2>2, NewRowType
  <2> QED BY <1>1, <1>4, <1>9, <2>3, SubmitMaps DEF Moved
<1>10. ASSUME NEW j \in JobIds, Finish(j) \/ RunnerError(j) PROVE UNCHANGED jobs \/ Turns!Next
  <2>1. jobs[j].state # "absent" /\ {j} \in SUBSET JobIds
    BY <1>1, <1>10 DEF Finish, RunnerError, LiveRows, Live, Running, LostRow
  <2>2. \/ UNCHANGED jobs
        \/ /\ \A i \in JobIds : jobs'[i].env = jobs[i].env
           /\ \A i \in JobIds \ {j} : jobs'[i].state = jobs[i].state
           /\ jobs'[j].state \in FINISHED
    BY <1>1, <1>2, <1>10 DEF Finish, RunnerError, Outcome, FINISHED, TypeOK, Row
  <2> QED BY <1>2, <2>1, <2>2, EndMaps
<1>11. \/ UNCHANGED jobs
       \/ \E r \in Requests : CommitInsert(r) \/ CancelCommit(r)
       \/ \E w \in Workers : Claim(w) \/ RecoverStale(w)
       \/ \E j \in JobIds : Moved(j) \/ Finish(j) \/ RunnerError(j)
  <2>1. ASSUME NEW r \in Requests, ApiStep(r)
        PROVE  UNCHANGED jobs \/ CommitInsert(r) \/ CancelCommit(r)
    BY <2>1 DEF ApiStep, QueueEnvJob, QueueHostJob, Retry, Begin, CancelRead
  <2>2. ASSUME AdminStep \/ UNCHANGED vars PROVE UNCHANGED jobs
    BY <2>2 DEF AdminStep, SetHost, TurnOn, CacheEnds, TurnOff, vars
  <2>3. ASSUME NEW w \in Workers, WorkerStep(w)
        PROVE  UNCHANGED jobs \/ Claim(w) \/ RecoverStale(w)
    BY <2>3 DEF WorkerStep, ReadMaintenance, WorkerDies, WorkerStarts
  <2>4. ASSUME NEW j \in JobIds, ThreadStep(j)
        PROVE  UNCHANGED jobs \/ Moved(j) \/ Finish(j) \/ RunnerError(j)
    BY <2>4 DEF ThreadStep, Progress, Prepared, ScriptEnds, Pulled, WorkEnds, RebootGoes,
                RebootGivesUp, RebootEnds, GoStale, MoveTo
  <2> QED BY <2>1, <2>2, <2>3, <2>4 DEF Next
<1> QED BY <1>3, <1>5, <1>6, <1>7, <1>8, <1>9, <1>10, <1>11

(* A job of the LABaPe queue starts at most once and the jobs of one        *)
(* environment take turns, whoever inserts, claims, cancels, dies and       *)
(* recovers (runner.py, api/jobs.py).                                       *)
THEOREM QueueTakesTurns == Spec => TakesTurns
<1> QED BY InitMaps, StepMaps, Invariance, PTL DEF Spec, TakesTurns, Turns!Spec
=============================================================================
