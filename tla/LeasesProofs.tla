---------------------------- MODULE LeasesProofs ----------------------------
(***************************************************************************)
(* Proofs about Leases for every number of workers and handlers, every     *)
(* setting and every bound: a destroy of the lease comes after a shutdown   *)
(* of the lease, and a round acts in time unless it was overtaken.          *)
(***************************************************************************)
EXTENDS Leases, TLAPS

Jobs == [kind : Kinds, by : {"lease", "owner"}, state : {"absent", "pending", "over"}]

LEMMA Numbers == /\ GraceDays \in Nat /\ DefaultDays \in Nat /\ MaxJobs \in Nat /\ MaxAsks \in Nat
                 /\ RemindDays \subseteq Nat /\ Extensions \subseteq Nat /\ Never \notin Nat
BY LeaseAssumption DEF LeaseAssumption

LEMMA MarksType ==
    /\ Unmarked \in Marks /\ Unmarked.stopped = Never
    /\ \A m \in Marks, d \in SUBSET RemindDays : [m EXCEPT !.reminded = @ \cup d] \in Marks
    /\ \A m \in Marks, t \in Nat : [m EXCEPT !.stopped = t] \in Marks
    /\ \A m \in Marks : [m EXCEPT !.destroy = TRUE] \in Marks
BY DEF Unmarked, Marks, Dates

(* What a round's copy is, and that it is not `between`. *)
LEMMA CopyType ==
    ASSUME TypeOK, NEW w \in Workers, round[w] # Between
    PROVE  /\ round[w] \in Copy
           /\ round[w].at \in {"act", "stop", "destroy"} /\ round[w].now \in Nat
           /\ round[w].expires \in Nat /\ round[w].lease \in Marks
           /\ round[w].lease.stopped \in Dates
BY DEF TypeOK, Copy, Marks

LEMMA AtCopy ==
    ASSUME NEW w \in Workers, round[w].at \in {"act", "stop", "destroy"}
    PROVE  round[w] # Between
BY DEF Between

(* A queued job is a new row, and the rows before it stay as they were. *)
LEMMA QueueRow ==
    ASSUME TypeOK, AbsentJobs, NEW kind \in Kinds, NEW by \in {"lease", "owner"}, Queue(kind, by)
    PROVE  /\ lastId' = lastId + 1 /\ lastId' \in JobIds /\ lastId' \in 0 .. MaxJobs
           /\ jobs' \in [JobIds -> Jobs]
           /\ jobs'[lastId'] = [kind |-> kind, by |-> by, state |-> "pending"]
           /\ \A j \in JobIds : j # lastId' => jobs'[j] = jobs[j]
           /\ AbsentJobs'
<1>1. lastId \in 0 .. MaxJobs /\ lastId < MaxJobs /\ lastId' = lastId + 1 /\ MaxJobs \in Nat
  BY Numbers DEF TypeOK, Queue
<1>2. lastId + 1 \in JobIds /\ lastId' \in 0 .. MaxJobs
  BY <1>1 DEF JobIds
<1>3. jobs' = [jobs EXCEPT ![lastId + 1] = [kind |-> kind, by |-> by, state |-> "pending"]]
  BY DEF Queue
<1>4. jobs \in [JobIds -> Jobs]
  BY DEF TypeOK, Jobs
<1>5. [kind |-> kind, by |-> by, state |-> "pending"] \in Jobs
  BY DEF Jobs
<1>6. jobs' \in [JobIds -> Jobs] /\ \A j \in JobIds : j # lastId' => jobs'[j] = jobs[j]
  BY <1>1, <1>3, <1>4, <1>5
<1>7. jobs'[lastId'] = [kind |-> kind, by |-> by, state |-> "pending"]
  BY <1>1, <1>2, <1>3, <1>4
<1>8. AbsentJobs'
  <2> SUFFICES ASSUME NEW j \in JobIds PROVE jobs'[j].state = "absent" <=> j > lastId'
    BY DEF AbsentJobs
  <2>1. CASE j = lastId'
    BY <2>1, <1>7, <1>1
  <2>2. CASE j # lastId'
    <3>1. j > lastId <=> j > lastId'
      BY <2>2, <1>1 DEF JobIds
    <3> QED BY <2>2, <1>6, <3>1 DEF AbsentJobs
  <2> QED BY <2>1, <2>2
<1> QED BY <1>1, <1>2, <1>6, <1>7, <1>8

(* The lease's shutdowns, and those that are over. *)
Shutdowns == {s \in JobIds : ByLease(s, "shutdown")}
Done      == {s \in Shutdowns : jobs[s].state = "over"}

LEMMA QueueKeepsShutdowns ==
    ASSUME TypeOK, AbsentJobs, NEW kind \in Kinds, NEW by \in {"lease", "owner"}, Queue(kind, by)
    PROVE  /\ Shutdowns \subseteq Shutdowns' /\ Done \subseteq Done'
           /\ \A j \in JobIds : ByLease(j, "destroy")' =>
                 ByLease(j, "destroy") \/ (j = lastId' /\ kind = "destroy" /\ by = "lease")
<1>1. /\ lastId \in Nat /\ lastId' = lastId + 1 /\ lastId' \in JobIds
      /\ jobs'[lastId'] = [kind |-> kind, by |-> by, state |-> "pending"]
      /\ \A j \in JobIds : j # lastId' => jobs'[j] = jobs[j]
  <2>1. lastId \in Nat
    BY Numbers DEF TypeOK
  <2> QED BY <2>1, QueueRow
<1>2. \A j \in JobIds : j <= lastId => j # lastId' /\ j <= lastId' /\ jobs'[j] = jobs[j]
  BY <1>1 DEF JobIds
<1>3. \A j \in JobIds : j <= lastId' => j <= lastId \/ j = lastId'
  BY <1>1 DEF JobIds
<1>4. \A j \in JobIds, k \in Kinds : ByLease(j, k) => ByLease(j, k)'
  BY <1>2 DEF ByLease
<1>5. Shutdowns \subseteq Shutdowns'
  BY <1>4 DEF Shutdowns, Kinds
<1>6. Done \subseteq Done'
  BY <1>5, <1>2 DEF Done, Shutdowns, ByLease
<1>7. ASSUME NEW j \in JobIds, ByLease(j, "destroy")'
      PROVE  ByLease(j, "destroy") \/ (j = lastId' /\ kind = "destroy" /\ by = "lease")
  BY <1>7, <1>1, <1>2, <1>3 DEF ByLease
<1> QED BY <1>5, <1>6, <1>7

(* The statements about marks, over Shutdowns and Done. *)
MarksInSets ==
    /\ lease.stopped # Never => Shutdowns # {}
    /\ \A w \in Workers : round[w] # Between =>
          /\ round[w].lease.stopped # Never => Shutdowns # {}
          /\ round[w].at = "destroy" => Done # {}

DestroysInSets == \A d \in JobIds : ByLease(d, "destroy") => \E s \in Done : s < d

LEMMA MarksRestated == (StopMarks <=> MarksInSets) /\ (DestroyAfterShutdown <=> DestroysInSets)
<1>1. /\ (\E s \in JobIds : ByLease(s, "shutdown")) <=> Shutdowns # {}
      /\ (\E s \in JobIds : ByLease(s, "shutdown") /\ jobs[s].state = "over") <=> Done # {}
  BY DEF Shutdowns, Done
<1>2. \A d \in JobIds : (\E s \in Done : s < d) <=>
         \E s \in JobIds : s < d /\ ByLease(s, "shutdown") /\ jobs[s].state = "over"
  BY DEF Shutdowns, Done
<1> QED BY <1>1, <1>2 DEF StopMarks, DestroyAfterShutdown, MarksInSets, DestroysInSets

LEMMA MarksRestatedNext == (StopMarks' <=> MarksInSets') /\ (DestroyAfterShutdown' <=> DestroysInSets')
BY MarksRestated, PTL

LEMMA InitIInv == Init => IInv
<1> SUFFICES ASSUME Init PROVE IInv
  OBVIOUS
<1>1. /\ lastId = 0 /\ jobs = [j \in JobIds |-> NoJob] /\ lease = Unmarked /\ now = 0
      /\ round = [w \in Workers |-> Between] /\ req = [r \in Requests |-> Idle]
      /\ asks = 0
  BY DEF Init
<1>2. TypeOK
  <2>1. policy \in Policies /\ status \in Statuses /\ expires \in Dates
    BY Numbers DEF Init, Statuses, Dates
  <2>2. jobs \in [JobIds -> Jobs]
    BY <1>1 DEF NoJob, Jobs, Kinds
  <2>3. lastId \in 0 .. MaxJobs /\ asks \in 0 .. MaxAsks  /\ now \in Nat
    BY <1>1, Numbers
  <2> QED BY <1>1, <2>1, <2>2, <2>3, MarksType DEF TypeOK, Jobs
<1>3. AbsentJobs
  BY <1>1 DEF AbsentJobs, NoJob, JobIds
<1>4. StopMarks /\ RoundsDecided
  BY <1>1, MarksType DEF StopMarks, RoundsDecided
<1>5. DestroyAfterShutdown
  BY <1>1, Numbers DEF DestroyAfterShutdown, ByLease, JobIds
<1> QED BY <1>2, <1>3, <1>4, <1>5 DEF IInv

-----------------------------------------------------------------------------
(* One lemma per group of actions that disturb the same parts. *)

(* A step that leaves the jobs alone and takes its marks from where there   *)
(* were marks already keeps the statements about jobs.                      *)
LEMMA MarksKept ==
    ASSUME IInv, TypeOK', UNCHANGED <<jobs, lastId>>, now' >= now,
           \/ lease'.stopped = Never
           \/ lease'.stopped = lease.stopped
           \/ \E w \in Workers : round[w] # Between /\ lease'.stopped = round[w].lease.stopped,
           \A w \in Workers : \/ round'[w] = round[w] \/ round'[w] = Between
                              \/ /\ round'[w].lease.stopped = lease.stopped /\ round'[w].now = now
                                 /\ round'[w].at = "act"
    PROVE  IInv'
<1>1. Shutdowns' = Shutdowns /\ Done' = Done
  BY DEF Shutdowns, Done, ByLease
<1>2. AbsentJobs'
  BY DEF IInv, AbsentJobs
<1>3. lease'.stopped # Never => Shutdowns # {}
  BY MarksRestated DEF IInv, MarksInSets
<1>4. ASSUME NEW w \in Workers, round'[w] # Between
      PROVE  /\ round'[w].lease.stopped # Never => Shutdowns # {}
             /\ round'[w].at = "destroy" => Done # {}
             /\ round'[w].now <= now'
             /\ round'[w].at = "stop" => Ended(round'[w])
             /\ round'[w].at = "destroy" => GraceOver(round'[w])
  <2>0. now \in Nat /\ now' \in Nat
    BY DEF IInv, TypeOK
  <2>1. CASE round'[w] = round[w]
    <3>1. /\ round[w].lease.stopped # Never => Shutdowns # {}
          /\ round[w].at = "destroy" => Done # {}
      BY <1>4, <2>1, MarksRestated DEF IInv, MarksInSets
    <3>2. /\ round[w].now <= now
          /\ round[w].at = "stop" => Ended(round[w])
          /\ round[w].at = "destroy" => GraceOver(round[w])
      BY <1>4, <2>1 DEF IInv, RoundsDecided
    <3>3. round[w].now \in Nat
      BY <1>4, <2>1, CopyType DEF IInv
    <3>4. round[w].now <= now'
      BY <3>2, <3>3, <2>0
    <3> QED BY <2>1, <3>1, <3>2, <3>4
  <2>2. CASE round'[w].lease.stopped = lease.stopped /\ round'[w].now = now /\ round'[w].at = "act"
    <3>1. lease.stopped # Never => Shutdowns # {}
      BY MarksRestated DEF IInv, MarksInSets
    <3> QED BY <2>0, <2>2, <3>1
  <2> QED BY <1>4, <2>1, <2>2
<1>5. MarksInSets'
  BY <1>1, <1>3, <1>4 DEF MarksInSets
<1>6. StopMarks' /\ RoundsDecided'
  BY <1>4, <1>5, MarksRestatedNext DEF RoundsDecided, Ended, GraceOver
<1>7. DestroyAfterShutdown'
  BY DEF IInv, DestroyAfterShutdown, ByLease
<1> QED BY <1>2, <1>6, <1>7 DEF IInv

LEMMA EndsType == TypeOK => \A admin \in BOOLEAN : Ends(admin) \subseteq Dates
<1> SUFFICES ASSUME TypeOK, NEW admin \in BOOLEAN, NEW end \in Ends(admin) PROVE end \in Dates
  OBVIOUS
<1>1. /\ now \in Nat /\ expires \in Dates /\ Extensions \subseteq Nat
      /\ expires # Never => expires \in Nat
  BY Numbers DEF TypeOK, Dates
<1>2. CASE end = Never
  BY <1>2 DEF Dates
<1>3. CASE \E d \in Extensions : end = now + d
  BY <1>1, <1>3 DEF Dates
<1>4. CASE \E d \in Extensions : end = Extended(d)
  BY <1>1, <1>4 DEF Extended, Later, Dates
<1> QED BY <1>2, <1>3, <1>4 DEF Ends

LEMMA AskType ==
    ASSUME TypeOK, NEW r \in Requests, NEW op \in {"lease", "deploy", "destroy", "power"},
           NEW fresh \in BOOLEAN, NEW end \in Dates, Ask(r, Wants(op, fresh, end))
    PROVE  TypeOK'
<1>1. Wants(op, fresh, end) \in Asked
  BY DEF Wants, Asked, TypeOK
<1>2. req' \in [Requests -> {Idle} \cup Asked]
  BY <1>1 DEF Ask, TypeOK
<1>3. asks' \in 0 .. MaxAsks
  BY Numbers DEF Ask, TypeOK
<1> QED BY <1>2, <1>3 DEF Ask, TypeOK

LEMMA AskKeeps ==
    ASSUME IInv, NEW r \in Requests, AskLease(r) \/ AskJob(r)
    PROVE  IInv'
<1>0. TypeOK
  BY DEF IInv
<1>1. \E op \in {"lease", "deploy", "destroy", "power"}, fresh \in BOOLEAN, end \in Dates :
         Ask(r, Wants(op, fresh, end))
  <2>1. CASE AskLease(r)
    BY <2>1, <1>0, EndsType DEF AskLease
  <2>2. CASE AskJob(r)
    <3>1. DefaultExpiry \in Dates
      BY <1>0, Numbers DEF DefaultExpiry, TypeOK, Dates
    <3> QED BY <2>2, <3>1 DEF AskJob
  <2> QED BY <2>1, <2>2
<1>2. TypeOK'
  BY <1>0, <1>1, AskType
<1>3. UNCHANGED <<jobs, lastId, lease, round, now>> /\ now \in Nat
  BY <1>0, <1>1 DEF Ask, TypeOK
<1> QED BY <1>2, <1>3, MarksKept

LEMMA RenewType ==
    ASSUME TypeOK, NEW r \in Requests, req[r] # Idle, Renew(r)
    PROVE  /\ expires' \in Dates /\ lease' \in Marks
           /\ lease' = lease \/ lease' = Unmarked
BY MarksType DEF TypeOK, Renew, Asked

LEMMA CommitLeaseKeeps == ASSUME IInv, NEW r \in Requests, CommitLease(r) PROVE IInv'
<1>0. TypeOK /\ req[r] # Idle
  BY DEF IInv, CommitLease, Idle
<1>1. /\ expires' \in Dates /\ lease' \in Marks
      /\ lease' = lease \/ lease' = Unmarked
  BY <1>0, RenewType DEF CommitLease
<1>2. req' \in [Requests -> {Idle} \cup Asked]
  BY <1>0 DEF CommitLease, TypeOK
<1>3. UNCHANGED <<now, policy, status, jobs, lastId, round, asks>>
  BY DEF CommitLease
<1>4. TypeOK'
  BY <1>0, <1>1, <1>2, <1>3 DEF TypeOK
<1>5. now' >= now
  BY <1>0, <1>3 DEF TypeOK
<1> QED BY <1>1, <1>3, <1>4, <1>5, MarksKept, MarksType

LEMMA ReadLeasesKeeps == ASSUME IInv, NEW w \in Workers, ReadLeases(w) PROVE IInv'
<1> DEFINE c == [at |-> "act", now |-> now, destroy |-> policy.destroy,
                 expires |-> expires, lease |-> lease]
<1>0. TypeOK
  BY DEF IInv
<1>1. c \in Copy
  BY <1>0 DEF ReadLeases, TypeOK, Copy, Dates, Policies
<1>2. round' = [round EXCEPT ![w] = c] /\ UNCHANGED <<now, policy, status, expires, lease, jobs, lastId, req, asks>>
  BY DEF ReadLeases
<1>3. TypeOK'
  BY <1>0, <1>1, <1>2 DEF TypeOK
<1>4. \A v \in Workers : v # w => round'[v] = round[v]
  BY <1>0, <1>2 DEF TypeOK
<1>5. round'[w] = c
  BY <1>0, <1>2 DEF TypeOK
<1>6. c.lease.stopped = lease.stopped /\ c.now = now /\ c.at = "act"
  OBVIOUS
<1>7. now' >= now
  BY <1>0, <1>2 DEF TypeOK
<1> HIDE DEF c
<1> QED BY <1>2, <1>3, <1>4, <1>5, <1>6, <1>7, MarksKept

(* The marks of the step are those of the round, and the round is over. *)
LEMMA MarkType ==
    ASSUME TypeOK, NEW w \in Workers, NEW marks \in Marks, Mark(w, marks)
    PROVE  /\ lease' = marks /\ lease' \in Marks
           /\ round' \in [Workers -> {Between} \cup Copy]
           /\ round'[w] = Between /\ \A v \in Workers : v # w => round'[v] = round[v]
BY DEF Mark, TypeOK

LEMMA RemindKeeps == ASSUME IInv, NEW w \in Workers, Remind(w) PROVE IInv'
<1>0. TypeOK /\ round[w] # Between
  BY DEF IInv, Remind, Between
<1>1. round[w].lease \in Marks
  BY <1>0, CopyType
<1>2. UNCHANGED <<now, policy, status, expires, jobs, lastId, req, asks>> /\ now' >= now
  BY <1>0 DEF Remind, TypeOK
<1>3. CASE Due(round[w]) \subseteq round[w].lease.reminded
  <2>1. round' = [round EXCEPT ![w] = Between] /\ UNCHANGED lease
    BY <1>3 DEF Remind
  <2>2. TypeOK'
    BY <1>0, <1>2, <2>1 DEF TypeOK
  <2>3. \A v \in Workers : round'[v] = round[v] \/ round'[v] = Between
    BY <1>0, <2>1 DEF TypeOK
  <2> QED BY <1>2, <2>1, <2>2, <2>3, MarksKept
<1>4. CASE ~(Due(round[w]) \subseteq round[w].lease.reminded)
  <2> DEFINE marks == [round[w].lease EXCEPT !.reminded = @ \cup Due(round[w])]
  <2>1. Mark(w, marks)
    BY <1>4 DEF Remind
  <2>2. marks \in Marks /\ marks.stopped = round[w].lease.stopped
    <3>1. Due(round[w]) \in SUBSET RemindDays
      BY DEF Due
    <3> QED BY <1>1, <3>1, MarksType DEF Marks
  <2> HIDE DEF marks
  <2>3. /\ lease' = marks /\ lease' \in Marks
        /\ round' \in [Workers -> {Between} \cup Copy]
        /\ \A v \in Workers : round'[v] = round[v] \/ round'[v] = Between
    BY <1>0, <2>1, <2>2, MarkType
  <2>4. TypeOK'
    BY <1>0, <1>2, <2>3 DEF TypeOK
  <2>5. \E v \in Workers : round[v] # Between /\ lease'.stopped = round[v].lease.stopped
    BY <1>0, <2>2, <2>3
  <2> QED BY <1>2, <2>3, <2>4, <2>5, MarksKept
<1> QED BY <1>3, <1>4

LEMMA LookForJobsKeeps == ASSUME IInv, NEW w \in Workers, LookForJobs(w) PROVE IInv'
<1> DEFINE c == round[w]
<1>0. TypeOK /\ c # Between /\ Ended(c) /\ c.at = "act"
  BY DEF IInv, LookForJobs, Between
<1>1. /\ c \in Copy /\ c.now \in Nat /\ c.lease.stopped \in Dates
      /\ UNCHANGED <<now, policy, status, expires, lease, jobs, lastId, req, asks>>
  BY <1>0, CopyType DEF LookForJobs
<1>2. \/ round' = [round EXCEPT ![w] = Between]
      \/ ~Busy /\ ShutdownDue(c) /\ round' = [round EXCEPT ![w].at = "stop"]
      \/ ~Busy /\ DestroyDue(c) /\ round' = [round EXCEPT ![w].at = "destroy"]
  BY DEF LookForJobs
<1>3. \A v \in Workers : v # w => round'[v] = round[v]
  BY <1>0, <1>2 DEF TypeOK
<1>4. \/ round'[w] = Between
      \/ ~Busy /\ ShutdownDue(c) /\ round'[w] = [c EXCEPT !.at = "stop"]
      \/ ~Busy /\ DestroyDue(c) /\ round'[w] = [c EXCEPT !.at = "destroy"]
  BY <1>0, <1>2 DEF TypeOK
<1>5. \A at \in {"stop", "destroy"} : [c EXCEPT !.at = at] \in Copy
  BY <1>1 DEF Copy
<1>6. TypeOK'
  <2>1. round' \in [Workers -> {Between} \cup Copy]
    BY <1>0, <1>2, <1>5 DEF TypeOK
  <2> QED BY <1>0, <1>1, <2>1 DEF TypeOK
<1>7. AbsentJobs' /\ DestroyAfterShutdown' /\ Shutdowns' = Shutdowns /\ Done' = Done
  BY <1>1 DEF IInv, AbsentJobs, DestroyAfterShutdown, Shutdowns, Done, ByLease
<1>8. MarksInSets /\ RoundsDecided
  BY MarksRestated DEF IInv
<1>9. ASSUME ~Busy, Shutdowns # {} PROVE Done # {}
  <2>1. PICK s \in Shutdowns : TRUE
    BY <1>9
  <2>2. s \in JobIds /\ s <= lastId /\ jobs[s].state # "pending"
    BY <1>9, <2>1 DEF Shutdowns, ByLease, Busy, Pending
  <2>3. jobs[s].state # "absent"
    BY <1>0, <2>2 DEF IInv, AbsentJobs, TypeOK, JobIds
  <2>4. jobs[s].state = "over"
    BY <1>0, <2>2, <2>3 DEF TypeOK
  <2> QED BY <2>1, <2>4 DEF Done
<1>10. ASSUME round'[w] # Between
       PROVE  /\ round'[w].lease.stopped # Never => Shutdowns # {}
              /\ round'[w].at = "destroy" => Done # {}
              /\ round'[w].now <= now
              /\ round'[w].at = "stop" => Ended(round'[w])
              /\ round'[w].at = "destroy" => GraceOver(round'[w])
  <2>1. c.lease.stopped # Never => Shutdowns # {}
    BY <1>0, <1>8 DEF MarksInSets
  <2>2. c.now <= now
    BY <1>0, <1>8 DEF RoundsDecided
  <2>3. CASE ~Busy /\ ShutdownDue(c) /\ round'[w] = [c EXCEPT !.at = "stop"]
    BY <1>0, <1>1, <2>1, <2>2, <2>3 DEF Ended, Copy
  <2>4. CASE ~Busy /\ DestroyDue(c) /\ round'[w] = [c EXCEPT !.at = "destroy"]
    <3>1. Done # {} /\ GraceOver(c)
      BY <1>9, <2>1, <2>4 DEF DestroyDue
    <3> QED BY <1>1, <2>1, <2>2, <2>4, <3>1 DEF GraceOver, Copy
  <2> QED BY <1>4, <1>10, <2>3, <2>4
<1> HIDE DEF c
<1>11. MarksInSets'
  BY <1>1, <1>3, <1>7, <1>8, <1>10 DEF MarksInSets
<1>12. RoundsDecided'
  BY <1>1, <1>3, <1>8, <1>10 DEF RoundsDecided, Ended, GraceOver
<1> QED BY <1>6, <1>7, <1>11, <1>12, MarksRestatedNext DEF IInv

(* A step that queues a job: the statements about rounds and marks stay, as *)
(* shutdowns are only added, and a new destroy of the lease needs one over. *)
LEMMA QueueKeeps ==
    ASSUME IInv, TypeOK', NEW kind \in Kinds, NEW by \in {"lease", "owner"}, Queue(kind, by),
           now' = now,
           \A w \in Workers : round'[w] = round[w] \/ round'[w] = Between,
           lease'.stopped # Never => Shutdowns' # {},
           kind = "destroy" /\ by = "lease" => Done # {}
    PROVE  IInv'
<1>0. TypeOK /\ AbsentJobs /\ MarksInSets /\ RoundsDecided /\ DestroysInSets
  BY MarksRestated DEF IInv
<1>1. /\ lastId' = lastId + 1 /\ lastId \in Nat /\ AbsentJobs'
      /\ Shutdowns \subseteq Shutdowns' /\ Done \subseteq Done'
      /\ \A j \in JobIds : ByLease(j, "destroy")' =>
            ByLease(j, "destroy") \/ (j = lastId' /\ kind = "destroy" /\ by = "lease")
  <2>1. lastId \in Nat
    BY <1>0, Numbers DEF TypeOK
  <2> QED BY <1>0, <2>1, QueueRow, QueueKeepsShutdowns
<1>2. MarksInSets'
  BY <1>0, <1>1 DEF MarksInSets
<1>3. RoundsDecided'
  BY <1>0 DEF RoundsDecided, Ended, GraceOver
<1>4. ASSUME NEW d \in JobIds, ByLease(d, "destroy")' PROVE \E s \in Done' : s < d
  <2>1. CASE ByLease(d, "destroy")
    BY <1>0, <1>1, <2>1 DEF DestroysInSets
  <2>2. CASE d = lastId' /\ kind = "destroy" /\ by = "lease"
    <3>1. PICK s \in Done : TRUE
      BY <2>2
    <3>2. s <= lastId /\ s \in JobIds
      BY <3>1 DEF Done, Shutdowns, ByLease
    <3>3. s < d
      BY <1>1, <2>2, <3>2 DEF JobIds
    <3> QED BY <1>1, <3>1, <3>3
  <2> QED BY <1>1, <1>4, <2>1, <2>2
<1>5. DestroysInSets'
  BY <1>4 DEF DestroysInSets
<1> QED BY <1>1, <1>2, <1>3, <1>5, MarksRestatedNext DEF IInv

LEMMA CommitJobKeeps == ASSUME IInv, NEW r \in Requests, CommitJob(r) PROVE IInv'
<1>0. TypeOK /\ AbsentJobs /\ MarksInSets /\ req[r] # Idle
  BY MarksRestated DEF IInv, CommitJob, Idle
<1>1. /\ Queue(req[r].op, "owner") /\ req[r].op \in Kinds /\ "owner" \in {"lease", "owner"}
      /\ UNCHANGED <<now, policy, round, asks>>
  BY DEF CommitJob, Kinds
<1>2. /\ expires' \in Dates /\ lease' \in Marks
      /\ lease' = lease \/ lease' = Unmarked
  BY <1>0, RenewType DEF CommitJob
<1>3. jobs' \in [JobIds -> Jobs] /\ lastId' \in 0 .. MaxJobs /\ Shutdowns \subseteq Shutdowns'
  BY <1>0, <1>1, QueueRow, QueueKeepsShutdowns
<1>4. req' \in [Requests -> {Idle} \cup Asked]
  BY <1>0 DEF CommitJob, TypeOK
<1>5. status' \in Statuses
  BY <1>0 DEF CommitJob, TypeOK, Asked, Statuses
<1>6. TypeOK'
  BY <1>0, <1>1, <1>2, <1>3, <1>4, <1>5 DEF TypeOK, Jobs
<1>7. lease'.stopped # Never => Shutdowns' # {}
  BY <1>0, <1>2, <1>3, MarksType DEF MarksInSets
<1> QED BY <1>1, <1>6, <1>7, QueueKeeps

LEMMA ShutDownKeeps == ASSUME IInv, NEW w \in Workers, ShutDown(w) PROVE IInv'
<1> DEFINE marks == [round[w].lease EXCEPT !.stopped = round[w].now]
<1>0. TypeOK /\ AbsentJobs /\ round[w] # Between
  BY DEF IInv, ShutDown, Between
<1>1. marks \in Marks
  BY <1>0, CopyType, MarksType
<1>2. /\ Queue("shutdown", "lease") /\ "shutdown" \in Kinds /\ "lease" \in {"lease", "owner"}
      /\ Mark(w, marks) /\ UNCHANGED <<now, policy, status, expires, req, asks>>
  BY DEF ShutDown, Kinds
<1> HIDE DEF marks
<1>3. /\ lease' \in Marks /\ round' \in [Workers -> {Between} \cup Copy]
      /\ \A v \in Workers : round'[v] = round[v] \/ round'[v] = Between
  BY <1>0, <1>1, <1>2, MarkType
<1>4. /\ jobs' \in [JobIds -> Jobs] /\ lastId' \in 0 .. MaxJobs /\ lastId' \in JobIds
      /\ jobs'[lastId'] = [kind |-> "shutdown", by |-> "lease", state |-> "pending"]
  BY <1>0, <1>2, QueueRow
<1>5. TypeOK'
  BY <1>0, <1>2, <1>3, <1>4 DEF TypeOK, Jobs
<1>6. Shutdowns' # {}
  <2>1. lastId' <= lastId'
    BY <1>4 DEF JobIds
  <2> QED BY <1>4, <2>1 DEF Shutdowns, ByLease
<1> QED BY <1>2, <1>3, <1>5, <1>6, QueueKeeps

LEMMA DestroyItKeeps == ASSUME IInv, NEW w \in Workers, DestroyIt(w) PROVE IInv'
<1> DEFINE marks == [round[w].lease EXCEPT !.destroy = TRUE]
<1>0. TypeOK /\ AbsentJobs /\ round[w] # Between /\ MarksInSets
  BY MarksRestated DEF IInv, DestroyIt, Between
<1>1. marks \in Marks
  BY <1>0, CopyType, MarksType
<1>2. /\ Queue("destroy", "lease") /\ "destroy" \in Kinds /\ "lease" \in {"lease", "owner"}
      /\ Mark(w, marks) /\ status' = "destroying" /\ round[w].at = "destroy"
      /\ UNCHANGED <<now, policy, expires, req, asks>>
  BY DEF DestroyIt, Kinds
<1> HIDE DEF marks
<1>3. /\ lease' \in Marks /\ round' \in [Workers -> {Between} \cup Copy]
      /\ \A v \in Workers : round'[v] = round[v] \/ round'[v] = Between
  BY <1>0, <1>1, <1>2, MarkType
<1>4. jobs' \in [JobIds -> Jobs] /\ lastId' \in 0 .. MaxJobs
  BY <1>0, <1>2, QueueRow
<1>5. TypeOK'
  BY <1>0, <1>2, <1>3, <1>4 DEF TypeOK, Jobs, Statuses
<1>6. Done # {} /\ Done \subseteq Done' /\ Done' \subseteq Shutdowns'
  <2>1. Done # {}
    BY <1>0, <1>2 DEF MarksInSets
  <2>2. Done \subseteq Done'
    BY <1>0, <1>2, QueueKeepsShutdowns
  <2> QED BY <2>1, <2>2 DEF Done
<1> QED BY <1>2, <1>3, <1>5, <1>6, QueueKeeps

LEMMA JobEndsKeeps == ASSUME IInv, NEW j \in JobIds, NEW result \in Results, JobEnds(j, result) PROVE IInv'
<1>0. TypeOK /\ AbsentJobs /\ MarksInSets /\ RoundsDecided /\ DestroysInSets
  BY MarksRestated DEF IInv
<1>1. /\ jobs' = [jobs EXCEPT ![j].state = "over"] /\ jobs[j].state = "pending"
      /\ UNCHANGED <<now, policy, expires, lease, lastId, round, req, asks>>
  BY DEF JobEnds, Pending
<1>2. /\ jobs' \in [JobIds -> Jobs]
      /\ \A k \in JobIds : jobs'[k].kind = jobs[k].kind /\ jobs'[k].by = jobs[k].by
      /\ \A k \in JobIds : k # j => jobs'[k].state = jobs[k].state
      /\ jobs'[j].state = "over"
  BY <1>0, <1>1 DEF TypeOK, Jobs
<1>3. status' \in Statuses
  <2>1. jobs[j].kind \in Kinds /\ status \in Statuses
    BY <1>0 DEF TypeOK
  <2>2. status' = StatusAfter(jobs[j].kind, result)
    BY DEF JobEnds
  <2> QED BY <2>1, <2>2 DEF StatusAfter, Statuses
<1>4. TypeOK'
  BY <1>0, <1>1, <1>2, <1>3 DEF TypeOK, Jobs
<1>5. AbsentJobs'
  <2>1. lastId' = lastId /\ jobs[j].state = "pending"
    BY <1>1
  <2>2. ASSUME NEW k \in JobIds PROVE jobs'[k].state = "absent" <=> k > lastId
    BY <1>0, <1>2, <2>1 DEF AbsentJobs
  <2> QED BY <2>1, <2>2 DEF AbsentJobs
<1>6. Shutdowns' = Shutdowns /\ Done \subseteq Done'
  BY <1>1, <1>2 DEF Shutdowns, Done, ByLease
<1>7. MarksInSets' /\ RoundsDecided'
  BY <1>0, <1>1, <1>6 DEF MarksInSets, RoundsDecided, Ended, GraceOver
<1>8. DestroysInSets'
  BY <1>0, <1>1, <1>2, <1>6 DEF DestroysInSets, ByLease
<1> QED BY <1>4, <1>5, <1>7, <1>8, MarksRestatedNext DEF IInv

LEMMA OthersKeep == ASSUME IInv, Day \/ SetPolicy \/ UNCHANGED vars PROVE IInv'
<1>0. TypeOK /\ now \in Nat
  BY DEF IInv, TypeOK
<1>1. UNCHANGED <<jobs, lastId, lease, round>> /\ now' >= now
  BY <1>0 DEF Day, SetPolicy, vars
<1>2. TypeOK'
  BY <1>0, Numbers DEF Day, SetPolicy, vars, TypeOK
<1> QED BY <1>1, <1>2, MarksKept

-----------------------------------------------------------------------------
(* IInv holds in every reachable state: types, the rows below the newest    *)
(* id, what marks and rounds stand for, and that each destroy of the lease  *)
(* comes after a shutdown of the lease that is over.                        *)
THEOREM Invariance == Spec => []IInv
<1>1. IInv /\ [Next]_vars => IInv'
  <2> SUFFICES ASSUME IInv, [Next]_vars PROVE IInv'
    OBVIOUS
  <2>1. CASE Day \/ SetPolicy \/ UNCHANGED vars
    BY <2>1, OthersKeep
  <2>2. CASE \E r \in Requests : RequestStep(r)
    BY <2>2, AskKeeps, CommitLeaseKeeps, CommitJobKeeps DEF RequestStep
  <2>3. CASE \E w \in Workers : RoundStep(w)
    BY <2>3, ReadLeasesKeeps, RemindKeeps, LookForJobsKeeps, ShutDownKeeps, DestroyItKeeps DEF RoundStep
  <2>4. CASE \E j \in JobIds, result \in Results : JobEnds(j, result)
    BY <2>4, JobEndsKeeps
  <2> QED BY <2>1, <2>2, <2>3, <2>4 DEF Next
<1> QED BY <1>1, InitIInv, PTL DEF Spec

(* The lease's state is well typed: leases.tick and the handlers write only *)
(* dates, marks and statuses of their kind.                                 *)
THEOREM TypeCorrect == Spec => []TypeOK
<1>1. IInv => TypeOK
  BY DEF IInv
<1> QED BY <1>1, Invariance, PTL

(* No environment is destroyed by its lease that was not shut down by it:   *)
(* leases.tick asks for stopped_at before it queues the destroy.            *)
THEOREM ShutDownFirst == Spec => []DestroyAfterShutdown
<1>1. IInv => DestroyAfterShutdown
  BY DEF IInv
<1> QED BY <1>1, Invariance, PTL

(* A step in which the lease queues a job is a round's ShutDown or DestroyIt. *)
LEMMA LeaseQueuesInRounds ==
    ASSUME IInv, [Next]_vars, LeaseQueues
    PROVE  \E w \in Workers :
              \/ ShutDown(w) /\ jobs'[lastId'].kind = "shutdown"
              \/ DestroyIt(w) /\ jobs'[lastId'].kind = "destroy"
<1>0. TypeOK /\ AbsentJobs
  BY DEF IInv
<1>1. lastId' # lastId /\ jobs'[lastId'].by = "lease"
  BY DEF LeaseQueues
<1>2. ASSUME NEW r \in Requests, CommitJob(r) PROVE FALSE
  <2>1. Queue(req[r].op, "owner") /\ req[r].op \in Kinds
    BY <1>2 DEF CommitJob, Kinds
  <2>2. jobs'[lastId'] = [kind |-> req[r].op, by |-> "owner", state |-> "pending"]
    BY <1>0, <2>1, QueueRow
  <2> QED BY <1>1, <2>2
<1>3. ASSUME NEW w \in Workers, ShutDown(w) PROVE jobs'[lastId'].kind = "shutdown"
  <2>1. Queue("shutdown", "lease") /\ "shutdown" \in Kinds /\ "lease" \in {"lease", "owner"}
    BY <1>3 DEF ShutDown, Kinds
  <2>2. jobs'[lastId'] = [kind |-> "shutdown", by |-> "lease", state |-> "pending"]
    BY <1>0, <2>1, QueueRow
  <2> QED BY <2>2
<1>4. ASSUME NEW w \in Workers, DestroyIt(w) PROVE jobs'[lastId'].kind = "destroy"
  <2>1. Queue("destroy", "lease") /\ "destroy" \in Kinds /\ "lease" \in {"lease", "owner"}
    BY <1>4 DEF DestroyIt, Kinds
  <2>2. jobs'[lastId'] = [kind |-> "destroy", by |-> "lease", state |-> "pending"]
    BY <1>0, <2>1, QueueRow
  <2> QED BY <2>2
<1>5. \A r \in Requests : AskLease(r) \/ AskJob(r) \/ CommitLease(r) => lastId' = lastId
  BY DEF AskLease, AskJob, Ask, CommitLease
<1>6. \A w \in Workers : ReadLeases(w) \/ Remind(w) \/ LookForJobs(w) => lastId' = lastId
  BY DEF ReadLeases, Remind, LookForJobs
<1>7. \A j \in JobIds, result \in Results : JobEnds(j, result) => lastId' = lastId
  BY DEF JobEnds
<1>8. Day \/ SetPolicy \/ UNCHANGED vars => lastId' = lastId
  BY DEF Day, SetPolicy, vars
<1> QED BY <1>1, <1>2, <1>3, <1>4, <1>5, <1>6, <1>7, <1>8 DEF Next, RequestStep, RoundStep

(* A round queues nothing before the end, or before the end of the grace,   *)
(* of the lease as it is now, unless a request moved the end under it:      *)
(* what it decided was due at its own time, and time has only gone on.      *)
THEOREM ActsInTime == Spec => InTime
<1>1. ASSUME IInv, [Next]_vars PROVE StepInTime
  <2> SUFFICES ASSUME LeaseQueues
               PROVE  \E w \in Workers :
                 /\ round[w] # Between /\ round'[w] = Between
                 /\ \/ round[w].expires # expires
                    \/ now >= expires + (IF jobs'[lastId'].kind = "destroy" THEN GraceDays ELSE 0)
    BY DEF StepInTime
  <2>0. TypeOK /\ RoundsDecided
    BY <1>1 DEF IInv
  <2>1. PICK w \in Workers : \/ ShutDown(w) /\ jobs'[lastId'].kind = "shutdown"
                             \/ DestroyIt(w) /\ jobs'[lastId'].kind = "destroy"
    BY <1>1, LeaseQueuesInRounds
  <2>2. round[w] # Between /\ round' = [round EXCEPT ![w] = Between]
    BY <2>1 DEF ShutDown, DestroyIt, Mark, Between
  <2>3. round'[w] = Between
    BY <2>0, <2>2 DEF TypeOK
  <2>4. /\ round[w].now \in Nat /\ round[w].expires \in Nat /\ now \in Nat
        /\ round[w].now <= now /\ GraceDays \in Nat
    BY <2>0, <2>2, CopyType, Numbers DEF RoundsDecided, TypeOK
  <2>5. CASE ShutDown(w) /\ jobs'[lastId'].kind = "shutdown"
    <3>1. round[w].now >= round[w].expires
      BY <2>0, <2>2, <2>5 DEF ShutDown, RoundsDecided, Ended
    <3> QED BY <2>2, <2>3, <2>4, <2>5, <3>1
  <2>6. CASE DestroyIt(w) /\ jobs'[lastId'].kind = "destroy"
    <3>1. round[w].now >= round[w].expires + GraceDays
      BY <2>0, <2>2, <2>6 DEF DestroyIt, RoundsDecided, GraceOver
    <3> QED BY <2>2, <2>3, <2>4, <2>6, <3>1
  <2> QED BY <2>1, <2>5, <2>6
<1> QED BY <1>1, Invariance, PTL DEF Spec, InTime
=============================================================================
