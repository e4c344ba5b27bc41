--------------------------- MODULE UpdatesProofs ---------------------------
(***************************************************************************)
(* Updates and rollbacks of the stack, for any number of versions,         *)
(* layouts, updates, writes and faults: what a boot can start on, what a   *)
(* reported success means and what an automatic rollback may lose.         *)
(***************************************************************************)
EXTENDS Updates, TLAPS

USE UpdatesAssumption DEF Versions, None, Off

-----------------------------------------------------------------------------
(* The fields of the records.                                              *)

LEMMA Fields ==
    ASSUME TypeOK
    PROVE  /\ checkout \in Versions /\ image.local \in Versions /\ image.previous \in Versions \cup {None}
           /\ running \in Versions \cup {None}
           /\ \A v \in Versions : LayoutOf[v] \in Nat /\ v # None
           /\ db.layout \in Nat /\ db.data \subseteq 1..MaxWrites
           /\ agent.at \in Steps /\ agent.to \in Versions \cup {None} /\ agent.dump \in 0..MaxUpdates
           /\ agent.rev \in Nat
           /\ standby.ref \in Versions \cup {None} /\ standby.rev \in Nat /\ standby.dump \in 0..MaxUpdates
           /\ standby.file \in BOOLEAN
           /\ used.updates \in 0..MaxUpdates /\ used.writes \in 0..MaxWrites /\ used.faults \in 0..MaxFaults
<1>1. /\ checkout \in Versions /\ image.local \in Versions /\ image.previous \in Versions \cup {None}
      /\ running \in Versions \cup {None}
      /\ db.layout \in Nat /\ db.data \subseteq 1..MaxWrites
  BY DEF TypeOK, Images, Databases
<1>2. \A v \in Versions : LayoutOf[v] \in Nat /\ v # None
  OBVIOUS
<1>3. /\ agent.at \in Steps /\ agent.to \in Versions \cup {None} /\ agent.dump \in 0..MaxUpdates
      /\ agent.rev \in Nat
  BY DEF TypeOK, Agents
<1>4. /\ standby.ref \in Versions \cup {None} /\ standby.rev \in Nat /\ standby.dump \in 0..MaxUpdates
      /\ standby.file \in BOOLEAN
  BY DEF TypeOK, Records
<1>5. used.updates \in 0..MaxUpdates /\ used.writes \in 0..MaxWrites /\ used.faults \in 0..MaxFaults
  BY DEF TypeOK, Bounds
<1>6. QED
  BY <1>1, <1>2, <1>3, <1>4, <1>5

LEMMA GoesFits ==
    ASSUME TypeOK, NEW step \in Steps, Goes(step)
    PROVE  /\ agent' \in Agents /\ agent'.at = step /\ agent'.to = agent.to /\ agent'.asked = agent.asked
           /\ agent'.dump = agent.dump /\ agent'.rev = agent.rev /\ status' = status
BY DEF TypeOK, Agents, Goes

LEMMA EndsFits ==
    ASSUME NEW state, NEW step, [state |-> state, step |-> step] \in Statuses, Ends(state, step)
    PROVE  /\ agent' \in Agents /\ agent'.at = "idle" /\ agent'.asked = "none" /\ agent'.to = None
           /\ status' \in Statuses /\ status'.state = state /\ status'.step = step
BY DEF Agents, Ends, Waiting, Steps, Statuses

LEMMA BeginsFits ==
    ASSUME NEW asked \in {"update", "rollback"}, NEW v \in Versions, NEW step \in Steps, Begins(asked, v, step)
    PROVE  /\ agent' \in Agents /\ agent'.at = step /\ agent'.asked = asked /\ agent'.to = v
           /\ agent'.rev = None /\ agent'.dump = None
           /\ status' \in Statuses /\ status'.state = "running" /\ status'.step = asked
<1>1. agent' = [at |-> step, to |-> v, asked |-> asked, dump |-> 0, rev |-> 0]
  BY DEF Begins, Waiting
<1>2. agent' \in Agents
  BY <1>1 DEF Agents
<1>3. status' = [state |-> "running", step |-> asked]
  BY DEF Begins
<1>4. status' \in Statuses
  BY <1>3 DEF Statuses
<1>5. QED
  BY <1>1, <1>2, <1>3, <1>4

LEMMA BoundsFit ==
    ASSUME TypeOK, Fine \/ Unnoticed \/ Fault
    PROVE  /\ used' \in Bounds /\ used'.updates = used.updates /\ used'.writes = used.writes
           /\ Fine \/ Unnoticed => unnoticed' \in BOOLEAN
           /\ Fine => unnoticed' = unnoticed /\ used' = used
           /\ Unnoticed => unnoticed' = TRUE
<1>1. used \in Bounds /\ unnoticed \in BOOLEAN
  BY DEF TypeOK
<1>2. CASE Fine
  BY <1>1, <1>2 DEF Fine, Unnoticed
<1>3. CASE Fault
  <2>1. used' = [used EXCEPT !.faults = used.faults + 1] /\ used.faults < MaxFaults
    BY <1>3 DEF Fault
  <2>2. used.faults + 1 \in 0..MaxFaults
    BY <1>1, <2>1 DEF Bounds
  <2>3. used' \in Bounds /\ used'.updates = used.updates /\ used'.writes = used.writes
    BY <1>1, <2>1, <2>2 DEF Bounds
  <2>4. used'.faults # used.faults
    BY <1>1, <2>1 DEF Bounds
  <2>5. QED
    BY <2>3, <2>4 DEF Fine, Unnoticed
<1>4. QED
  BY <1>2, <1>3 DEF Unnoticed

LEMMA StartsOnFits ==
    ASSUME TypeOK, NEW v \in Versions, StartsOn(v)
    PROVE  /\ db' \in Databases /\ running' \in {v, None} /\ db'.data = db.data
           /\ running' # None => running' = v /\ LayoutOf[running'] = db'.layout
           /\ LayoutOf[v] >= db.layout => running' = v /\ db'.layout = LayoutOf[v]
           /\ ~(LayoutOf[v] >= db.layout) => running' = None /\ db' = db
           /\ worker' = "idle" /\ stale' = FALSE
BY DEF TypeOK, Databases, StartsOn

LEMMA ModeFits ==
    ASSUME TypeOK, TurnsOn \/ TurnsOff \/ UNCHANGED mode
    PROVE  maintenance' \in Modes /\ stale' \in BOOLEAN
BY DEF TypeOK, Modes, TurnsOn, TurnsOff, mode

THEOREM InitIInv == Init => IInv
<1> SUFFICES ASSUME Init PROVE IInv
  OBVIOUS
<1> USE DEF Init, NoStandby, NoDump, Waiting
<1>1. TypeOK
  <2>1. db \in Databases /\ image \in Images /\ standby \in Records
    <3>1. db \in Databases
      BY DEF Databases
    <3>2. image \in Images
      BY DEF Images
    <3>3. standby \in Records
      BY DEF Records
    <3>4. QED
      BY <3>1, <3>2, <3>3
  <2>2. dump \in [1..MaxUpdates -> Dumps]
    BY DEF Dumps, Modes
  <2>3. agent \in Agents /\ status \in Statuses /\ used \in Bounds
    BY DEF Agents, Steps, Statuses, Bounds
  <2>4. checkout \in Versions /\ running \in Versions \cup {None}
    OBVIOUS
  <2>5. /\ maintenance \in Modes /\ stale \in BOOLEAN /\ unnoticed \in BOOLEAN
        /\ worker = "idle" /\ slipped \subseteq 1..MaxWrites /\ agent.at = "idle"
    BY DEF Modes
  <2>6. QED
    BY <2>1, <2>2, <2>3, <2>4, <2>5 DEF TypeOK
<1>2. AgentFits
  BY DEF AgentFits, Forward, Backward, Drained
<1>3. StandsBy /\ OnTheWay /\ OnTheWayBack /\ BackupHasAll
  BY DEF StandsBy, OnTheWay, OnTheWayBack, BackupHasAll, Forward, Backward
<1>4. QED
  BY <1>1, <1>2, <1>3 DEF IInv

-----------------------------------------------------------------------------
(* The steps of an update.                                                 *)

LEMMA FailsStep ==
    ASSUME IInv, agent.at \in {"check", "maintenance", "drain", "backup", "keep"},
           NEW step \in {"checking", "maintenance", "backup"}, Fails(step),
           UNCHANGED <<code, db, kept, worker, slipped>>
    PROVE  IInv'
<1>1. TypeOK
  BY DEF IInv
<1>2. /\ agent' \in Agents /\ agent'.at = "idle" /\ agent'.asked = "none" /\ agent'.to = None
      /\ status' \in Statuses /\ status'.state = "failed" /\ status'.step = step
  <2>1. [state |-> "failed", step |-> step] \in Statuses
    BY DEF Statuses
  <2>2. QED
    BY <2>1, EndsFits DEF Fails
<1>3. /\ used' \in Bounds /\ used'.updates = used.updates /\ used'.writes = used.writes
      /\ unnoticed' \in BOOLEAN /\ (unnoticed' = FALSE => unnoticed = FALSE)
      /\ maintenance' \in Modes /\ stale' \in BOOLEAN
  BY <1>1, BoundsFit, ModeFits DEF Fails
<1>4. UNCHANGED <<checkout, image, running, db, dump, standby, worker, slipped>>
  BY DEF code, kept
<1>5. TypeOK'
  BY <1>2, <1>3, <1>4, Fields DEF IInv, TypeOK, Busy, Steps, Modes
<1>6. AgentFits'
  BY <1>2, <1>3, <1>4, Fields DEF IInv, AgentFits, Forward, Backward, Drained
<1>7. StandsBy'
  BY <1>2, <1>3, <1>4, Fields DEF IInv, TypeOK, AgentFits, StandsBy, OnTheWay, Busy, Quiet, Forward, Backward, Drained, Sound, Steps
<1>8. OnTheWay'
  BY <1>2, <1>3, <1>4, Fields DEF IInv, TypeOK, AgentFits, StandsBy, OnTheWay, OnTheWayBack, Busy, Quiet, Forward, Backward, Drained, Sound, Steps
<1>9. OnTheWayBack'
  BY <1>2 DEF OnTheWayBack, Backward
<1>10. BackupHasAll'
  BY <1>2 DEF BackupHasAll
<1>11. QED
  BY <1>5, <1>6, <1>7, <1>8, <1>9, <1>10 DEF IInv

LEMMA GoesOnStep ==
    ASSUME IInv, NEW step \in {"maintenance", "drain", "backup"}, Goes(step), Fine,
           agent.at \in {"check", "maintenance", "drain"}, step = "backup" => worker # "job",
           step = "maintenance" => agent.at = "check", step = "drain" => agent.at = "maintenance",
           step = "backup" => agent.at = "drain",
           TurnsOn \/ UNCHANGED mode, UNCHANGED <<code, db, kept, worker, slipped>>
    PROVE  IInv'
<1>1. TypeOK
  BY DEF IInv
<1>2. /\ agent' \in Agents /\ agent'.at = step /\ agent'.to = agent.to /\ agent'.asked = agent.asked
      /\ agent'.dump = agent.dump /\ agent'.rev = agent.rev /\ status' = status
  BY <1>1, GoesFits DEF Steps
<1>3. /\ used' \in Bounds /\ used'.updates = used.updates /\ used'.writes = used.writes
      /\ unnoticed' \in BOOLEAN /\ (unnoticed' = FALSE => unnoticed = FALSE)
  BY <1>1, BoundsFit
<1>4. maintenance' \in Modes /\ stale' \in BOOLEAN
  BY <1>1, ModeFits
<1>5. UNCHANGED <<checkout, image, running, db, dump, standby, worker, slipped>>
  BY DEF code, kept
<1>6. TypeOK'
  BY <1>1, <1>2, <1>3, <1>4, <1>5, Fields DEF IInv, TypeOK, Busy, Steps, Modes
<1>7. AgentFits'
  BY <1>1, <1>2, <1>3, <1>4, <1>5, Fields DEF IInv, TypeOK, AgentFits, OnTheWay, Busy, Quiet, Forward, Backward, Drained, Sound, Steps
<1>8. StandsBy'
  BY <1>1, <1>2, <1>3, <1>4, <1>5, Fields DEF IInv, TypeOK, AgentFits, StandsBy, OnTheWay, Busy, Quiet, Forward, Backward, Drained, Sound, Steps
<1>9. OnTheWay'
  BY <1>1, <1>2, <1>3, <1>4, <1>5, Fields DEF IInv, TypeOK, AgentFits, StandsBy, OnTheWay, OnTheWayBack, Busy, Quiet, Forward, Backward, Drained, Sound, Steps
<1>10. OnTheWayBack'
  BY <1>2 DEF OnTheWayBack, Backward
<1>11. BackupHasAll'
  BY <1>2 DEF BackupHasAll, Quiet
<1>12. QED
  BY <1>6, <1>7, <1>8, <1>9, <1>10, <1>11 DEF IInv

LEMMA ChecksStep == ASSUME IInv, Checks PROVE IInv'
BY FailsStep, GoesOnStep DEF Checks

LEMMA MaintenanceOnStep == ASSUME IInv, MaintenanceOn PROVE IInv'
BY FailsStep, GoesOnStep DEF MaintenanceOn

LEMMA DrainStep == ASSUME IInv, Drain PROVE IInv'
BY FailsStep, GoesOnStep DEF Drain

(* Up to the way back, the image that a boot starts can read the database.  *)
LEMMA LocalReads ==
    ASSUME IInv, Sound, agent.at \notin {"rollback"} \cup Backward, status.step # "restore"
    PROVE  LayoutOf[image.local] >= db.layout
<1>1. TypeOK
  BY DEF IInv
<1>2. /\ image.local \in Versions /\ running \in Versions \cup {None} /\ db.layout \in Nat
      /\ LayoutOf[image.local] \in Nat /\ agent.at \in Steps
  BY <1>1, Fields
<1>3. running # None => LayoutOf[running] = db.layout
  BY DEF IInv, AgentFits
<1>4. agent.at \in Quiet \cup {"build", "up", "health"}
  BY <1>2 DEF Steps, Quiet, Backward
<1>5. CASE agent.at \in Quiet
  BY <1>2, <1>3, <1>5 DEF IInv, OnTheWay
<1>6. CASE agent.at \in {"build", "health"}
  BY <1>2, <1>3, <1>6 DEF IInv, OnTheWay
<1>7. CASE agent.at = "up"
  <2>1. running # None /\ image.local > running
    BY <1>7 DEF IInv, OnTheWay, Forward
  <2>2. running \in Versions /\ LayoutOf[running] \in Nat /\ LayoutOf[running] <= LayoutOf[image.local]
    BY <1>2, <2>1
  <2>3. QED
    BY <1>2, <1>3, <2>1, <2>2
<1>8. QED
  BY <1>4, <1>5, <1>6, <1>7

LEMMA BackupTaken ==
    ASSUME IInv, agent.at = "backup", Fine,
           dump' = [dump EXCEPT ![used.updates] = [exists |-> TRUE, layout |-> db.layout, data |-> db.data,
                                                   maintenance |-> maintenance]],
           agent' = [agent EXCEPT !.at = "layout", !.dump = used.updates],
           UNCHANGED <<code, db, mode, standby, status, worker, slipped>>
    PROVE  IInv'
<1>1. TypeOK
  BY DEF IInv
<1>2. agent.asked = "update" /\ used.updates \in 1..MaxUpdates /\ used.updates \in 0..MaxUpdates
  BY <1>1, Fields DEF IInv, AgentFits, Forward
<1>3. /\ dump' \in [1..MaxUpdates -> Dumps]
      /\ dump'[used.updates].exists /\ dump'[used.updates].layout = db.layout /\ dump'[used.updates].data = db.data
      /\ \A u \in 1..MaxUpdates : u # used.updates => dump'[u] = dump[u]
  BY <1>1, <1>2, Fields DEF TypeOK, Dumps
<1>4. /\ agent' \in Agents /\ agent'.at = "layout" /\ agent'.to = agent.to /\ agent'.asked = agent.asked
      /\ agent'.dump = used.updates /\ agent'.rev = agent.rev /\ status' = status
  BY <1>1, <1>2 DEF TypeOK, Agents, Steps
<1>5. Sound /\ standby.file => standby.dump \in 1..MaxUpdates /\ dump'[standby.dump] = dump[standby.dump]
  BY Fields DEF IInv, StandsBy
<1>6. /\ used' \in Bounds /\ used'.updates = used.updates /\ used'.writes = used.writes
      /\ unnoticed' \in BOOLEAN /\ (unnoticed' = FALSE => unnoticed = FALSE)
  BY <1>1, BoundsFit
<1>7. UNCHANGED <<checkout, image, running, db, maintenance, stale, standby, worker, slipped>>
  BY DEF code, mode
<1>8. TypeOK'
  BY <1>1, <1>2, <1>3, <1>4, <1>5, <1>6, <1>7, Fields DEF IInv, TypeOK, Busy, Steps, Modes
<1>9. AgentFits'
  BY <1>1, <1>2, <1>3, <1>4, <1>5, <1>6, <1>7, Fields DEF IInv, AgentFits, Forward, Backward, Drained
<1>10. StandsBy'
  BY <1>1, <1>2, <1>3, <1>4, <1>5, <1>6, <1>7, Fields DEF IInv, StandsBy, Sound
<1>11. OnTheWay'
  BY <1>1, <1>2, <1>3, <1>4, <1>5, <1>6, <1>7, Fields DEF IInv, OnTheWay, Quiet, Forward, Sound
<1>12. OnTheWayBack'
  BY DEF OnTheWayBack, Backward
<1>13. BackupHasAll'
  BY <1>3 DEF BackupHasAll, Quiet
<1>14. QED
  BY <1>8, <1>9, <1>10, <1>11, <1>12, <1>13 DEF IInv

LEMMA BackupStep == ASSUME IInv, Backup PROVE IInv'
<1>1. CASE Fails("backup") /\ UNCHANGED dump
  BY <1>1, FailsStep DEF Backup, kept
<1>2. QED
  BY <1>1, BackupTaken DEF Backup

LEMMA ReadsLayoutStep ==
    ASSUME IInv, ReadsLayout
    PROVE  IInv'
<1>1. TypeOK
  BY DEF IInv
<1>2. /\ agent.at = "layout" /\ agent' \in Agents /\ agent'.at = "keep" /\ agent'.to = agent.to /\ agent'.asked = agent.asked
      /\ agent'.dump = agent.dump /\ status' = status /\ (unnoticed' = FALSE => agent'.rev = db.layout)
  BY <1>1, Fields, BoundsFit DEF TypeOK, Agents, Steps, ReadsLayout
<1>3. /\ used' \in Bounds /\ used'.updates = used.updates /\ used'.writes = used.writes
      /\ unnoticed' \in BOOLEAN /\ (unnoticed' = FALSE => unnoticed = FALSE)
  BY <1>1, BoundsFit DEF ReadsLayout
<1>4. UNCHANGED <<checkout, image, running, db, maintenance, stale, dump, standby, worker, slipped>>
  BY DEF ReadsLayout, code, mode, kept
<1>5. TypeOK'
  BY <1>1, <1>2, <1>3, <1>4, Fields DEF IInv, TypeOK, Busy, Steps, Modes
<1>6. AgentFits'
  BY <1>1, <1>2, <1>3, <1>4, Fields DEF IInv, AgentFits, Forward, Backward, Drained
<1>7. StandsBy'
  BY <1>2, <1>3, <1>4 DEF IInv, StandsBy, Sound
<1>8. OnTheWay'
  BY <1>2, <1>3, <1>4 DEF IInv, OnTheWay, Quiet, Forward, Sound
<1>9. OnTheWayBack'
  BY <1>2 DEF OnTheWayBack, Backward
<1>10. BackupHasAll'
  BY <1>1, <1>2, <1>3, <1>4, Fields DEF IInv, TypeOK, AgentFits, StandsBy, OnTheWay, BackupHasAll, Busy, Quiet, Forward, Backward, Drained, Sound, Steps
<1>11. QED
  BY <1>5, <1>6, <1>7, <1>8, <1>9, <1>10 DEF IInv

LEMMA ImageKept ==
    ASSUME IInv, agent.at = "keep", Goes("record"), Fine, image' = [image EXCEPT !.previous = image.local],
           UNCHANGED <<checkout, running, db, mode, kept, worker, slipped>>
    PROVE  IInv'
<1>1. TypeOK
  BY DEF IInv
<1>2. /\ agent' \in Agents /\ agent'.at = "record" /\ agent'.to = agent.to /\ agent'.asked = agent.asked
      /\ agent'.dump = agent.dump /\ agent'.rev = agent.rev /\ status' = status
  BY <1>1, GoesFits DEF Steps
<1>3. image' \in Images /\ image'.local = image.local /\ image'.previous = image.local
  BY <1>1 DEF TypeOK, Images
<1>4. /\ used' \in Bounds /\ used'.updates = used.updates /\ used'.writes = used.writes
      /\ unnoticed' \in BOOLEAN /\ (unnoticed' = FALSE => unnoticed = FALSE)
  BY <1>1, BoundsFit
<1>5. UNCHANGED <<maintenance, stale, dump, standby>>
  BY DEF mode, kept
<1>6. TypeOK'
  BY <1>1, <1>2, <1>3, <1>4, <1>5, Fields DEF IInv, TypeOK, Busy, Steps, Modes
<1>7. AgentFits'
  BY <1>1, <1>2, <1>3, <1>4, <1>5, Fields DEF IInv, TypeOK, AgentFits, OnTheWay, Busy, Quiet, Forward, Backward, Drained, Sound, Steps
<1>8. StandsBy'
  BY <1>1, <1>2, <1>3, <1>4, <1>5, Fields DEF IInv, StandsBy, Sound
<1>9. OnTheWay'
  BY <1>1, <1>2, <1>3, <1>4, <1>5, Fields DEF IInv, OnTheWay, Quiet, Forward, Sound
<1>10. OnTheWayBack'
  BY <1>2 DEF OnTheWayBack, Backward
<1>11. BackupHasAll'
  BY <1>1, <1>2, <1>3, <1>4, <1>5, Fields DEF IInv, TypeOK, AgentFits, StandsBy, OnTheWay, BackupHasAll, Busy, Quiet, Forward, Backward, Drained, Sound, Steps
<1>12. QED
  BY <1>6, <1>7, <1>8, <1>9, <1>10, <1>11 DEF IInv

LEMMA KeepsImageStep == ASSUME IInv, KeepsImage PROVE IInv'
<1>1. CASE Fails("backup") /\ UNCHANGED image
  BY <1>1, FailsStep DEF KeepsImage, code
<1>2. QED
  BY <1>1, ImageKept DEF KeepsImage

LEMMA RecordFits ==
    ASSUME IInv, Record
    PROVE  /\ standby' \in Records /\ (standby'.ref # None \/ standby'.rev # None => standby'.file /\ standby'.dump # 0)
           /\ unnoticed' = FALSE => /\ standby'.ref = checkout /\ standby'.rev = agent.rev
                                    /\ standby'.dump = agent.dump /\ standby'.file
<1>1. TypeOK /\ agent.at = "record" /\ agent.dump # 0
  BY DEF IInv, Record, AgentFits, Forward
<1>2. checkout \in Versions /\ agent.rev \in Nat /\ agent.dump \in 0..MaxUpdates
  BY <1>1, Fields DEF TypeOK
<1>3. CASE standby' = [ref |-> checkout, rev |-> agent.rev, dump |-> agent.dump, file |-> TRUE]
  BY <1>1, <1>2, <1>3 DEF Records
<1>4. CASE standby' \in {standby, Unreadable} /\ Unnoticed
  <2>1. NoStandby \in Records /\ NoStandby.ref = 0 /\ NoStandby.rev = 0
    BY DEF NoStandby, Records
  <2>2. Unreadable \in Records /\ Unreadable.ref = 0 /\ Unreadable.rev = 0
    BY <2>1 DEF Unreadable, Records
  <2>3. unnoticed' = TRUE
    BY <1>4 DEF Unnoticed
  <2>4. CASE standby' = standby
    BY <1>1, <2>3, <2>4 DEF IInv, TypeOK, AgentFits
  <2>5. CASE standby' = Unreadable
    BY <2>1, <2>2, <2>3, <2>5
  <2>6. QED
    BY <1>4, <2>4, <2>5
<1>5. QED
  BY <1>3, <1>4 DEF Record

LEMMA AtRecord ==
    ASSUME IInv, Sound, agent.at = "record"
    PROVE  /\ status.step # "restore" /\ running \in Versions /\ LayoutOf[running] = db.layout /\ agent.to > running
           /\ image.local = running /\ checkout = running /\ image.previous = running
           /\ agent.dump \in 1..used.updates /\ agent.rev = db.layout /\ dump[agent.dump].layout = db.layout
<1>1. TypeOK
  BY DEF IInv
<1>2. status.step # "restore" /\ running # None /\ agent.to > running
  BY DEF IInv, OnTheWay, Forward
<1>3. image.local = running /\ checkout = running /\ image.previous = running
  BY <1>2 DEF IInv, OnTheWay, Quiet
<1>4. agent.rev = db.layout /\ dump[agent.dump].layout = db.layout
  BY DEF IInv, OnTheWay
<1>5. LayoutOf[running] = db.layout /\ agent.dump = used.updates /\ used.updates # 0
  BY <1>2 DEF IInv, AgentFits, Forward
<1>6. QED
  BY <1>1, <1>2, <1>3, <1>4, <1>5, Fields

LEMMA RecordStep ==
    ASSUME IInv, Record
    PROVE  IInv'
<1>1. TypeOK
  BY DEF IInv
<1>2. agent.at = "record" /\ Goes("checkout")
  BY DEF Record
<1>3. /\ agent' \in Agents /\ agent'.at = "checkout" /\ agent'.to = agent.to /\ agent'.asked = agent.asked
      /\ agent'.dump = agent.dump /\ agent'.rev = agent.rev /\ status' = status
  BY <1>1, <1>2, GoesFits DEF Steps
<1>4. /\ standby' \in Records /\ (standby'.ref # None \/ standby'.rev # None => standby'.file /\ standby'.dump # 0)
      /\ standby'.file => image.previous # None
  BY <1>1, <1>2, RecordFits DEF IInv, AgentFits
<1>5. unnoticed' = FALSE => /\ standby'.ref = checkout /\ standby'.rev = agent.rev /\ standby'.dump = agent.dump /\ standby'.file
  BY <1>1, <1>2, RecordFits
<1>6. Sound => /\ status.step # "restore" /\ running \in Versions /\ LayoutOf[running] = db.layout /\ agent.to > running
               /\ image.local = running /\ checkout = running /\ image.previous = running
               /\ agent.dump \in 1..used.updates /\ agent.rev = db.layout /\ dump[agent.dump].layout = db.layout
  BY <1>2, AtRecord
<1>7. /\ used' \in Bounds /\ used'.updates = used.updates /\ used'.writes = used.writes
      /\ unnoticed' \in BOOLEAN /\ (unnoticed' = FALSE => unnoticed = FALSE)
  BY <1>1, BoundsFit DEF Record
<1>8. unnoticed' = FALSE =>
          /\ standby'.ref \in Versions /\ standby'.rev = LayoutOf[standby'.ref] /\ standby'.rev <= db.layout
          /\ standby'.dump \in 1..used.updates /\ dump[standby'.dump].layout = standby'.rev
          /\ image.previous = standby'.ref
  <2> SUFFICES ASSUME unnoticed' = FALSE
               PROVE  /\ standby'.ref \in Versions /\ standby'.rev = LayoutOf[standby'.ref] /\ standby'.rev <= db.layout
                      /\ standby'.dump \in 1..used.updates /\ dump[standby'.dump].layout = standby'.rev
                      /\ image.previous = standby'.ref
    OBVIOUS
  <2>1. Sound
    BY <1>2, <1>7 DEF Sound
  <2>2. db.layout \in Nat
    BY <1>1, Fields
  <2>3. QED
    BY <1>5, <1>6, <2>1, <2>2
<1>9. UNCHANGED <<checkout, image, running, db, maintenance, stale, dump, worker, slipped>>
  BY DEF Record, code, mode
<1>10. TypeOK'
  BY <1>1, <1>2, <1>3, <1>4, <1>5, <1>6, <1>7, <1>8, <1>9, Fields DEF IInv, TypeOK, Busy, Steps, Modes
<1>11. AgentFits'
  BY <1>1, <1>2, <1>3, <1>4, <1>5, <1>6, <1>7, <1>8, <1>9, Fields DEF IInv, AgentFits, Forward, Backward,
     Drained
<1>12. StandsBy'
  BY <1>3, <1>7, <1>8, <1>9 DEF StandsBy, Sound
<1>13. OnTheWay'
  BY <1>1, <1>2, <1>3, <1>4, <1>5, <1>6, <1>7, <1>8, <1>9, Fields DEF IInv, OnTheWay, Quiet, Sound
<1>14. OnTheWayBack'
  BY <1>3 DEF OnTheWayBack, Backward
<1>15. BackupHasAll'
  BY <1>1, <1>2, <1>3, <1>4, <1>5, <1>6, <1>7, <1>8, <1>9, Fields DEF IInv, TypeOK, AgentFits, StandsBy, OnTheWay, BackupHasAll, Busy, Quiet, Forward, Backward, Drained, Sound, Steps
<1>16. QED
  BY <1>10, <1>11, <1>12, <1>13, <1>14, <1>15 DEF IInv

LEMMA CheckoutStep ==
    ASSUME IInv, Checkout
    PROVE  IInv'
<1>1. TypeOK
  BY DEF IInv
<1>2. agent.at = "checkout" /\ agent.to \in Versions
  BY DEF Checkout, IInv, AgentFits, Forward
<1>3. \/ Goes("build") /\ checkout' = agent.to
      \/ Goes("rollback") /\ checkout' = checkout
  BY DEF Checkout
<1>4. /\ agent' \in Agents /\ agent'.to = agent.to /\ agent'.asked = agent.asked
      /\ agent'.dump = agent.dump /\ agent'.rev = agent.rev /\ status' = status
      /\ \/ agent'.at = "build" /\ checkout' = agent.to
         \/ agent'.at = "rollback" /\ checkout' = checkout
  BY <1>1, <1>3, GoesFits DEF Steps
<1>5. Sound => LayoutOf[image.local] >= db.layout
  BY <1>2, LocalReads DEF IInv, OnTheWay, Backward
<1>6. /\ used' \in Bounds /\ used'.updates = used.updates /\ used'.writes = used.writes
      /\ unnoticed' \in BOOLEAN /\ (unnoticed' = FALSE => unnoticed = FALSE)
  BY <1>1, BoundsFit DEF Checkout
<1>7. UNCHANGED <<image, running, db, maintenance, stale, dump, standby, worker, slipped>>
  BY DEF Checkout, mode, kept
<1>8. TypeOK'
  BY <1>1, <1>2, <1>3, <1>4, <1>5, <1>6, <1>7, Fields DEF IInv, TypeOK, Busy, Steps, Modes
<1>9. AgentFits'
  BY <1>1, <1>2, <1>3, <1>4, <1>5, <1>6, <1>7, Fields DEF IInv, TypeOK, AgentFits, OnTheWay, Busy, Quiet, Forward, Backward, Drained, Sound, Steps
<1>10. StandsBy'
  BY <1>1, <1>2, <1>3, <1>4, <1>5, <1>6, <1>7, Fields DEF IInv, TypeOK, AgentFits, StandsBy, OnTheWay, Busy, Quiet, Forward, Backward, Drained, Sound, Steps
<1>11. OnTheWay'
  BY <1>1, <1>2, <1>3, <1>4, <1>5, <1>6, <1>7, Fields DEF IInv, TypeOK, AgentFits, StandsBy, OnTheWay, OnTheWayBack, Busy, Quiet, Forward, Backward, Drained, Sound, Steps
<1>12. OnTheWayBack'
  BY <1>1, <1>2, <1>3, <1>4, <1>5, <1>6, <1>7, Fields DEF IInv, TypeOK, AgentFits, StandsBy, OnTheWay, OnTheWayBack, Busy, Quiet, Forward, Backward, Drained, Sound, Steps
<1>13. BackupHasAll'
  BY <1>1, <1>2, <1>3, <1>4, <1>5, <1>6, <1>7, Fields DEF IInv, TypeOK, AgentFits, StandsBy, OnTheWay, BackupHasAll, Busy, Quiet, Forward, Backward, Drained, Sound, Steps
<1>14. QED
  BY <1>8, <1>9, <1>10, <1>11, <1>12, <1>13 DEF IInv

LEMMA BuildStep ==
    ASSUME IInv, Build
    PROVE  IInv'
<1>1. TypeOK
  BY DEF IInv
<1>2. agent.at = "build" /\ agent.to \in Versions
  BY DEF Build, IInv, AgentFits, Forward
<1>3. \/ Goes("up") /\ image' = [image EXCEPT !.local = agent.to]
      \/ Goes("rollback") /\ image' = image
  BY DEF Build
<1>4. /\ agent' \in Agents /\ agent'.to = agent.to /\ agent'.asked = agent.asked
      /\ agent'.dump = agent.dump /\ agent'.rev = agent.rev /\ status' = status
      /\ \/ agent'.at = "up" /\ image'.local = agent.to
         \/ agent'.at = "rollback" /\ image' = image
  BY <1>1, <1>3, <1>2, GoesFits DEF Steps, TypeOK, Images
<1>5. Sound => LayoutOf[image.local] >= db.layout
  BY <1>2, LocalReads DEF IInv, OnTheWay, Backward
<1>6. image' \in Images /\ image'.previous = image.previous
  BY <1>1, <1>2 DEF Build, TypeOK, Images
<1>7. /\ used' \in Bounds /\ used'.updates = used.updates /\ used'.writes = used.writes
      /\ unnoticed' \in BOOLEAN /\ (unnoticed' = FALSE => unnoticed = FALSE)
  BY <1>1, BoundsFit DEF Build
<1>8. UNCHANGED <<checkout, running, db, maintenance, stale, dump, standby, worker, slipped>>
  BY DEF Build, mode, kept
<1>9. TypeOK'
  BY <1>1, <1>2, <1>3, <1>4, <1>5, <1>6, <1>7, <1>8, Fields DEF IInv, TypeOK, Busy, Steps, Modes
<1>10. AgentFits'
  BY <1>1, <1>2, <1>3, <1>4, <1>5, <1>6, <1>7, <1>8, Fields DEF IInv, TypeOK, AgentFits, OnTheWay, Busy, Quiet, Forward, Backward, Drained, Sound, Steps
<1>11. StandsBy'
  BY <1>1, <1>2, <1>3, <1>4, <1>5, <1>6, <1>7, <1>8, Fields DEF IInv, TypeOK, AgentFits, StandsBy, OnTheWay, Busy, Quiet, Forward, Backward, Drained, Sound, Steps
<1>12. OnTheWay'
  BY <1>1, <1>2, <1>3, <1>4, <1>5, <1>6, <1>7, <1>8, Fields DEF IInv, TypeOK, AgentFits, StandsBy, OnTheWay, OnTheWayBack, Busy, Quiet, Forward, Backward, Drained, Sound, Steps
<1>13. OnTheWayBack'
  BY <1>1, <1>2, <1>3, <1>4, <1>5, <1>6, <1>7, <1>8, Fields DEF IInv, AgentFits, StandsBy, OnTheWay,
     OnTheWayBack, Quiet, Backward, Sound
<1>14. BackupHasAll'
  BY <1>1, <1>2, <1>3, <1>4, <1>5, <1>6, <1>7, <1>8, Fields DEF IInv, TypeOK, AgentFits, StandsBy, OnTheWay, BackupHasAll, Busy, Quiet, Forward, Backward, Drained, Sound, Steps
<1>15. QED
  BY <1>9, <1>10, <1>11, <1>12, <1>13, <1>14 DEF IInv

LEMMA AtUp ==
    ASSUME IInv, Sound, agent.at = "up"
    PROVE  /\ status.step # "restore" /\ image.local = agent.to /\ checkout = agent.to
           /\ image.previous = standby.ref /\ standby.dump \in 1..used.updates
           /\ LayoutOf[image.local] \in Nat /\ standby.rev <= LayoutOf[image.local] /\ standby.rev <= db.layout
<1>1. TypeOK
  BY DEF IInv
<1>2. /\ status.step # "restore" /\ image.local = agent.to /\ checkout = agent.to /\ standby.file
      /\ running # None /\ agent.to > running /\ standby.ref = running
  BY DEF IInv, OnTheWay, Forward
<1>3. /\ image.previous = standby.ref /\ standby.dump \in 1..used.updates /\ standby.rev = LayoutOf[standby.ref]
      /\ standby.rev <= db.layout
  BY <1>2 DEF IInv, StandsBy
<1>4. running \in Versions /\ image.local \in Versions /\ running <= image.local
  BY <1>1, <1>2, Fields
<1>5. QED
  BY <1>2, <1>3, <1>4

LEMMA UpStep ==
    ASSUME IInv, Up
    PROVE  IInv'
<1>1. TypeOK
  BY DEF IInv
<1>2. agent.at = "up" /\ image.local \in Versions
  BY <1>1, Fields DEF Up
<1>3. /\ agent' \in Agents /\ agent'.at \in {"health", "rollback"} /\ agent'.to = agent.to /\ agent'.asked = agent.asked
      /\ agent'.dump = agent.dump /\ agent'.rev = agent.rev /\ status' = status
  BY <1>1, GoesFits DEF Up, Steps
<1>4. \/ StartsOn(image.local)
      \/ agent'.at = "rollback" /\ UNCHANGED <<running, db, stale, worker>>
  BY <1>1, GoesFits DEF Up, Steps
<1>5. /\ db' \in Databases /\ running' \in Versions \cup {None} /\ db'.data = db.data
      /\ running' # None => LayoutOf[running'] = db'.layout
      /\ worker' \in {"idle", worker} /\ stale' \in BOOLEAN
  BY <1>1, <1>2, <1>4, StartsOnFits, Fields DEF TypeOK, IInv, AgentFits
<1>6. \/ LayoutOf[image.local] >= db.layout /\ running' = image.local /\ db'.layout = LayoutOf[image.local]
      \/ db'.layout = db.layout /\ running' = None /\ ~(LayoutOf[image.local] >= db.layout)
      \/ agent'.at = "rollback" /\ running' = running /\ db' = db
  BY <1>1, <1>2, <1>4, StartsOnFits
<1>7. Sound => /\ LayoutOf[image.local] >= db.layout /\ standby.rev = LayoutOf[standby.ref] /\ standby.file
               /\ standby.rev = db.layout /\ standby.ref \in Versions
  BY <1>2, LocalReads DEF IInv, AgentFits, OnTheWay, StandsBy
<1>8. Sound => /\ status.step # "restore" /\ image.local = agent.to /\ checkout = agent.to
               /\ image.previous = standby.ref /\ standby.dump \in 1..used.updates
               /\ LayoutOf[image.local] >= db'.layout /\ standby.rev <= db'.layout
               /\ (agent'.at = "health" => running' = image.local)
  BY <1>2, <1>6, <1>7, AtUp
<1>9. /\ used' \in Bounds /\ used'.updates = used.updates /\ used'.writes = used.writes
      /\ unnoticed' \in BOOLEAN /\ (unnoticed' = FALSE => unnoticed = FALSE)
  BY <1>1, BoundsFit DEF Up
<1>10. UNCHANGED <<checkout, image, maintenance, dump, standby, slipped>>
  BY DEF Up, kept
<1>11. TypeOK'
  BY <1>1, <1>2, <1>3, <1>4, <1>5, <1>6, <1>7, <1>8, <1>9, <1>10, Fields DEF IInv, TypeOK, Busy, Steps, Modes
<1>12. AgentFits'
  BY <1>1, <1>2, <1>3, <1>4, <1>5, <1>6, <1>7, <1>8, <1>9, <1>10, Fields DEF IInv, TypeOK, AgentFits, OnTheWay, Busy, Quiet, Forward, Backward, Drained, Sound, Steps
<1>13. StandsBy'
  BY <1>1, <1>2, <1>3, <1>4, <1>5, <1>6, <1>7, <1>8, <1>9, <1>10, Fields DEF IInv, TypeOK, AgentFits, StandsBy, OnTheWay, Busy, Quiet, Forward, Backward, Drained, Sound, Steps
<1>14. OnTheWay'
  BY <1>1, <1>2, <1>3, <1>4, <1>5, <1>6, <1>7, <1>8, <1>9, <1>10, Fields DEF IInv, TypeOK, AgentFits, StandsBy, OnTheWay, OnTheWayBack, Busy, Quiet, Forward, Backward, Drained, Sound, Steps
<1>15. OnTheWayBack'
  BY <1>1, <1>2, <1>3, <1>4, <1>5, <1>6, <1>7, <1>8, <1>9, <1>10, Fields DEF IInv, TypeOK, AgentFits, StandsBy, OnTheWay, OnTheWayBack, Busy, Quiet, Forward, Backward, Drained, Sound, Steps
<1>16. BackupHasAll'
  BY <1>1, <1>2, <1>3, <1>4, <1>5, <1>6, <1>7, <1>8, <1>9, <1>10, Fields DEF IInv, TypeOK, AgentFits, StandsBy, OnTheWay, BackupHasAll, Busy, Quiet, Forward, Backward, Drained, Sound, Steps
<1>17. QED
  BY <1>11, <1>12, <1>13, <1>14, <1>15, <1>16 DEF IInv

LEMMA HealthStep ==
    ASSUME IInv, Health
    PROVE  IInv'
<1>1. TypeOK
  BY DEF IInv
<1>2. agent.at = "health" /\ agent.asked = "update"
  BY DEF Health, IInv, AgentFits, Forward
<1>3. \/ /\ agent' \in Agents /\ agent'.at = "idle" /\ agent'.asked = "none" /\ agent'.to = None
         /\ status' \in Statuses /\ status'.state = "succeeded" /\ status'.step = "done"
      \/ /\ agent' \in Agents /\ agent'.at = "rollback" /\ agent'.to = agent.to /\ agent'.asked = agent.asked
         /\ agent'.dump = agent.dump /\ agent'.rev = agent.rev /\ status' = status
  BY <1>1, GoesFits, EndsFits DEF Health, Steps, Statuses
<1>4. maintenance' \in Modes /\ stale' \in BOOLEAN
  BY <1>1, ModeFits DEF Health
<1>5. Sound => LayoutOf[image.local] >= db.layout
  BY <1>2, LocalReads DEF IInv, OnTheWay, Backward
<1>6. /\ used' \in Bounds /\ used'.updates = used.updates /\ used'.writes = used.writes
      /\ unnoticed' \in BOOLEAN /\ (unnoticed' = FALSE => unnoticed = FALSE)
  BY <1>1, BoundsFit DEF Health
<1>7. UNCHANGED <<checkout, image, running, db, dump, standby, worker, slipped>>
  BY DEF Health, code, kept
<1>8. TypeOK'
  BY <1>1, <1>2, <1>3, <1>4, <1>5, <1>6, <1>7, Fields DEF IInv, TypeOK, Busy, Steps, Modes
<1>9. AgentFits'
  BY <1>1, <1>2, <1>3, <1>4, <1>5, <1>6, <1>7, Fields DEF IInv, TypeOK, AgentFits, OnTheWay, Busy, Quiet, Forward, Backward, Drained, Sound, Steps
<1>10. StandsBy'
  BY <1>1, <1>2, <1>3, <1>4, <1>5, <1>6, <1>7, Fields DEF IInv, TypeOK, AgentFits, StandsBy, OnTheWay, Busy, Quiet, Forward, Backward, Drained, Sound, Steps
<1>11. OnTheWay'
  BY <1>1, <1>2, <1>3, <1>4, <1>5, <1>6, <1>7, Fields DEF IInv, TypeOK, AgentFits, StandsBy, OnTheWay, OnTheWayBack, Busy, Quiet, Forward, Backward, Drained, Sound, Steps
<1>12. OnTheWayBack'
  BY <1>1, <1>2, <1>3, <1>4, <1>5, <1>6, <1>7, Fields DEF IInv, TypeOK, AgentFits, StandsBy, OnTheWay, OnTheWayBack, Busy, Quiet, Forward, Backward, Drained, Sound, Steps
<1>13. BackupHasAll'
  BY <1>1, <1>2, <1>3, <1>4, <1>5, <1>6, <1>7, Fields DEF IInv, TypeOK, AgentFits, StandsBy, OnTheWay, BackupHasAll, Busy, Quiet, Forward, Backward, Drained, Sound, Steps
<1>14. QED
  BY <1>8, <1>9, <1>10, <1>11, <1>12, <1>13 DEF IInv

-----------------------------------------------------------------------------
(* The requests.                                                           *)

LEMMA StartUpdateStep ==
    ASSUME IInv, StartUpdate
    PROVE  IInv'
<1>1. TypeOK
  BY DEF IInv
<1>2. /\ agent' \in Agents /\ agent'.at = "check" /\ agent'.asked = "update" /\ agent'.to \in Versions
      /\ agent'.rev = None /\ agent'.dump = None
      /\ status' \in Statuses /\ status'.state = "running" /\ status'.step = "update" /\ agent'.to > running
  BY <1>1, BeginsFits DEF StartUpdate, Steps
<1>3. running # None /\ agent.at = "idle" /\ status.state # "running"
  BY DEF IInv, TypeOK, StartUpdate, Busy
<1>4. Sound => status.step # "restore" /\ running = image.local /\ checkout = image.local
  BY <1>3 DEF IInv, OnTheWay, Quiet
<1>5. /\ used' \in Bounds /\ used'.updates = used.updates + 1 /\ used'.updates # 0
      /\ \A u \in 1..used.updates : u \in 1..used'.updates /\ u # used'.updates
  <2>1. used \in Bounds /\ used.updates \in 0..MaxUpdates
    BY <1>1, Fields DEF TypeOK
  <2>2. used.updates < MaxUpdates
    BY DEF StartUpdate
  <2>3. used.updates + 1 \in 0..MaxUpdates /\ used.updates + 1 # 0 /\ used.updates \in Nat
    BY <2>1, <2>2
  <2>4. used' = [used EXCEPT !.updates = used.updates + 1]
    BY DEF StartUpdate
  <2>5. used' \in Bounds /\ used'.updates = used.updates + 1
    BY <2>1, <2>3, <2>4 DEF Bounds
  <2>6. \A u \in 1..used.updates : u \in 1..(used.updates + 1) /\ u # used.updates + 1
    BY <2>3
  <2>7. QED
    BY <2>3, <2>5, <2>6
<1>6. UNCHANGED <<checkout, image, running, db, maintenance, stale, dump, standby, worker, slipped, unnoticed>>
  BY DEF StartUpdate, code, mode, kept
<1>7. TypeOK'
  BY <1>1, <1>2, <1>3, <1>4, <1>5, <1>6, Fields DEF IInv, TypeOK, Busy, Steps, Modes
<1>8. AgentFits'
  BY <1>1, <1>2, <1>3, <1>4, <1>5, <1>6, Fields DEF IInv, AgentFits, Backward, Drained
<1>9. StandsBy'
  BY <1>3, <1>5, <1>6 DEF IInv, StandsBy, Busy, Sound
<1>10. OnTheWay'
  BY <1>2, <1>3, <1>4, <1>6 DEF OnTheWay, Busy, Sound
<1>11. OnTheWayBack'
  BY <1>2 DEF OnTheWayBack, Backward
<1>12. BackupHasAll'
  BY <1>2 DEF BackupHasAll, Quiet
<1>13. QED
  BY <1>7, <1>8, <1>9, <1>10, <1>11, <1>12 DEF IInv

LEMMA StartRollbackStep ==
    ASSUME IInv, StartRollback
    PROVE  IInv'
<1>1. TypeOK
  BY DEF IInv
<1>2. standby.ref \in Versions
  BY <1>1, Fields DEF StartRollback
<1>3. /\ agent' \in Agents /\ agent'.at = "rollback" /\ agent'.asked = "rollback" /\ agent'.to \in Versions
      /\ agent'.rev = None /\ agent'.dump = None
      /\ status' \in Statuses /\ status'.state = "running" /\ status'.step = "rollback"
  BY <1>1, <1>2, BeginsFits DEF StartRollback, Steps
<1>4. running # None /\ agent.at = "idle" /\ status.state # "running"
  BY DEF IInv, TypeOK, StartRollback, Busy
<1>5. Sound => status.step # "restore" /\ running = image.local /\ checkout = image.local
  BY <1>4 DEF IInv, OnTheWay, Quiet
<1>6. Sound => LayoutOf[image.local] >= db.layout
  BY <1>4, <1>5, LocalReads DEF Backward
<1>7. standby.file
  BY <1>1, Fields DEF IInv, AgentFits, StartRollback
<1>8. UNCHANGED <<checkout, image, running, db, maintenance, stale, dump, standby, worker, slipped, unnoticed, used>>
  BY DEF StartRollback, code, mode, kept
<1>9. TypeOK'
  BY <1>1, <1>2, <1>3, <1>4, <1>5, <1>6, <1>7, <1>8, Fields DEF IInv, TypeOK, Busy, Steps, Modes
<1>10. AgentFits'
  BY <1>1, <1>2, <1>3, <1>4, <1>5, <1>6, <1>7, <1>8, Fields DEF IInv, AgentFits, Forward, Backward, Drained
<1>11. StandsBy'
  BY <1>3, <1>4, <1>8 DEF IInv, StandsBy, Busy, Sound
<1>12. OnTheWay'
  BY <1>3, <1>7, <1>8 DEF OnTheWay, Quiet, Forward
<1>13. OnTheWayBack'
  BY <1>3, <1>4, <1>6, <1>8 DEF OnTheWayBack, Busy, Backward, Sound
<1>14. BackupHasAll'
  BY <1>3 DEF BackupHasAll
<1>15. QED
  BY <1>9, <1>10, <1>11, <1>12, <1>13, <1>14 DEF IInv

-----------------------------------------------------------------------------
(* The way back.                                                           *)

LEMMA NothingOnStandbyStep ==
    ASSUME IInv, NothingOnStandby
    PROVE  IInv'
<1>1. TypeOK
  BY DEF IInv
<1>2. /\ agent' \in Agents /\ agent'.at = "idle" /\ agent'.asked = "none" /\ agent'.to = None
      /\ status' \in Statuses /\ status'.state = "failed" /\ status'.step = "rollback"
  BY EndsFits DEF NothingOnStandby, Statuses
<1>3. agent.at = "rollback" /\ ~standby.file /\ ~Sound
  BY DEF NothingOnStandby, IInv, OnTheWay
<1>4. /\ used' \in Bounds /\ used'.updates = used.updates /\ used'.writes = used.writes
      /\ unnoticed' \in BOOLEAN /\ (unnoticed' = FALSE => unnoticed = FALSE)
  BY <1>1, BoundsFit DEF NothingOnStandby
<1>5. UNCHANGED <<checkout, image, running, db, maintenance, stale, dump, standby, worker, slipped>>
  BY DEF NothingOnStandby, code, mode, kept
<1>6. TypeOK'
  BY <1>1, <1>2, <1>3, <1>4, <1>5, Fields DEF IInv, TypeOK, Busy, Steps, Modes
<1>7. AgentFits'
  BY <1>1, <1>2, <1>3, <1>4, <1>5, Fields DEF IInv, AgentFits, Forward, Backward, Drained
<1>8. StandsBy'
  BY <1>3, <1>4 DEF StandsBy, Sound
<1>9. OnTheWay'
  BY <1>3, <1>4 DEF OnTheWay, Sound
<1>10. OnTheWayBack'
  BY <1>3, <1>4 DEF OnTheWayBack, Sound
<1>11. BackupHasAll'
  BY <1>2 DEF BackupHasAll
<1>12. QED
  BY <1>6, <1>7, <1>8, <1>9, <1>10, <1>11 DEF IInv

LEMMA StopsStep ==
    ASSUME IInv, Stops
    PROVE  IInv'
<1>1. TypeOK
  BY DEF IInv
<1>2. agent.at = "rollback" /\ standby.file /\ Goes("back")
  BY DEF Stops
<1>3. /\ agent' \in Agents /\ agent'.at = "back" /\ agent'.to = agent.to /\ agent'.asked = agent.asked
      /\ agent'.dump = agent.dump /\ agent'.rev = agent.rev /\ status' = status
  BY <1>1, <1>2, GoesFits DEF Steps
<1>4. /\ maintenance' \in Modes /\ stale' = FALSE /\ running' = None /\ worker' = "idle"
  BY <1>1 DEF Stops, Stopped, TypeOK, Modes
<1>5. /\ used' \in Bounds /\ used'.updates = used.updates /\ used'.writes = used.writes
      /\ unnoticed' \in BOOLEAN /\ (unnoticed' = FALSE => unnoticed = FALSE)
  BY <1>1, BoundsFit DEF Stops
<1>6. UNCHANGED <<checkout, image, db, dump, standby, slipped>>
  BY DEF Stops, kept
<1>7. TypeOK'
  BY <1>1, <1>2, <1>3, <1>4, <1>5, <1>6, Fields DEF IInv, TypeOK, Busy, Steps, Modes
<1>8. AgentFits'
  BY <1>1, <1>2, <1>3, <1>4, <1>5, <1>6, Fields DEF IInv, AgentFits, Forward
<1>9. StandsBy'
  BY <1>2, <1>3, <1>5, <1>6 DEF IInv, StandsBy, Sound
<1>10. OnTheWay'
  BY <1>2, <1>3, <1>5 DEF IInv, OnTheWay, Quiet, Forward, Sound
<1>11. OnTheWayBack'
  BY <1>2, <1>3, <1>5, <1>6 DEF IInv, OnTheWayBack, Sound
<1>12. BackupHasAll'
  BY <1>1, <1>2, <1>3, <1>4, <1>5, <1>6, Fields DEF IInv, TypeOK, AgentFits, StandsBy, OnTheWay, BackupHasAll, Busy, Quiet, Forward, Backward, Drained, Sound, Steps
<1>13. QED
  BY <1>7, <1>8, <1>9, <1>10, <1>11, <1>12 DEF IInv

LEMMA ChecksBackStep ==
    ASSUME IInv, ChecksBack
    PROVE  IInv'
<1>1. TypeOK
  BY DEF IInv
<1>2. agent.at = "back" /\ Goes("tag") /\ standby.file /\ running = None
  BY DEF ChecksBack, IInv, AgentFits, Backward
<1>3. /\ agent' \in Agents /\ agent'.at = "tag" /\ agent'.to = agent.to /\ agent'.asked = agent.asked
      /\ agent'.dump = agent.dump /\ agent'.rev = agent.rev /\ status' = status
  BY <1>1, <1>2, GoesFits DEF Steps
<1>4. /\ used' \in Bounds /\ used'.updates = used.updates /\ used'.writes = used.writes
      /\ unnoticed' \in BOOLEAN /\ (unnoticed' = FALSE => unnoticed = FALSE)
  BY <1>1, BoundsFit DEF ChecksBack
<1>5. checkout' \in Versions /\ (Sound => unnoticed' = TRUE \/ checkout' = standby.ref)
  BY <1>1, <1>2, Fields DEF ChecksBack, IInv, StandsBy, Unnoticed
<1>6. UNCHANGED <<image, running, db, maintenance, stale, dump, standby, worker, slipped>>
  BY DEF ChecksBack, mode, kept
<1>7. TypeOK'
  BY <1>1, <1>2, <1>3, <1>4, <1>5, <1>6, Fields DEF IInv, TypeOK, Busy, Steps, Modes
<1>8. AgentFits'
  BY <1>1, <1>2, <1>3, <1>4, <1>5, <1>6, Fields DEF IInv, AgentFits, Forward, Drained
<1>9. StandsBy'
  BY <1>2, <1>3, <1>4, <1>6 DEF IInv, StandsBy, Sound
<1>10. OnTheWay'
  BY <1>2, <1>3, <1>4 DEF IInv, OnTheWay, Quiet, Forward, Sound
<1>11. OnTheWayBack'
  BY <1>2, <1>3, <1>4, <1>5, <1>6 DEF IInv, OnTheWayBack, Sound
<1>12. BackupHasAll'
  BY <1>1, <1>2, <1>3, <1>4, <1>5, <1>6, Fields DEF IInv, TypeOK, AgentFits, StandsBy, OnTheWay, BackupHasAll, Busy, Quiet, Forward, Backward, Drained, Sound, Steps
<1>13. QED
  BY <1>7, <1>8, <1>9, <1>10, <1>11, <1>12 DEF IInv

LEMMA TagsBackStep ==
    ASSUME IInv, TagsBack
    PROVE  IInv'
<1>1. TypeOK
  BY DEF IInv
<1>2. agent.at = "tag" /\ Goes("restore") /\ standby.file /\ running = None /\ image.previous \in Versions
  BY <1>1, Fields DEF TagsBack, IInv, AgentFits, Backward
<1>3. /\ agent' \in Agents /\ agent'.at = "restore" /\ agent'.to = agent.to /\ agent'.asked = agent.asked
      /\ agent'.dump = agent.dump /\ agent'.rev = agent.rev /\ status' = status
  BY <1>1, <1>2, GoesFits DEF Steps
<1>4. /\ used' \in Bounds /\ used'.updates = used.updates /\ used'.writes = used.writes
      /\ unnoticed' \in BOOLEAN /\ (unnoticed' = FALSE => unnoticed = FALSE)
  BY <1>1, BoundsFit DEF TagsBack
<1>5. /\ image' \in Images /\ image'.previous = image.previous
      /\ unnoticed' = TRUE \/ image'.local = image.previous
  BY <1>1, <1>2 DEF TagsBack, TypeOK, Images, Unnoticed
<1>6. UNCHANGED <<checkout, running, db, maintenance, stale, dump, standby, worker, slipped>>
  BY DEF TagsBack, mode, kept
<1>7. TypeOK'
  BY <1>1, <1>2, <1>3, <1>4, <1>5, <1>6, Fields DEF IInv, TypeOK, Busy, Steps, Modes
<1>8. AgentFits'
  BY <1>1, <1>2, <1>3, <1>4, <1>5, <1>6, Fields DEF IInv, AgentFits, Forward, Drained
<1>9. StandsBy'
  BY <1>2, <1>3, <1>4, <1>5, <1>6 DEF IInv, StandsBy, Sound
<1>10. OnTheWay'
  BY <1>2, <1>3, <1>4 DEF IInv, OnTheWay, Quiet, Forward, Sound
<1>11. OnTheWayBack'
  BY <1>2, <1>3, <1>4, <1>5, <1>6 DEF IInv, StandsBy, OnTheWayBack, Backward, Sound
<1>12. BackupHasAll'
  BY <1>1, <1>2, <1>3, <1>4, <1>5, <1>6, Fields DEF IInv, TypeOK, AgentFits, StandsBy, OnTheWay, BackupHasAll, Busy, Quiet, Forward, Backward, Drained, Sound, Steps
<1>13. QED
  BY <1>7, <1>8, <1>9, <1>10, <1>11, <1>12 DEF IInv

LEMMA RestoreGoesOn ==
    ASSUME IInv, agent.at = "restore", Goes("start"), Fine \/ Unnoticed,
           db' \in Databases, maintenance' \in Modes,
           unnoticed' = FALSE => standby.rev = db'.layout,
           unnoticed' = FALSE /\ agent.asked = "update" => db'.data \ dump[standby.dump].data \subseteq slipped,
           UNCHANGED <<code, stale, kept, worker, slipped>>
    PROVE  IInv'
<1>1. TypeOK
  BY DEF IInv
<1>2. /\ agent' \in Agents /\ agent'.at = "start" /\ agent'.to = agent.to /\ agent'.asked = agent.asked
      /\ agent'.dump = agent.dump /\ agent'.rev = agent.rev /\ status' = status
  BY <1>1, GoesFits DEF Steps
<1>3. /\ used' \in Bounds /\ used'.updates = used.updates /\ used'.writes = used.writes
      /\ unnoticed' \in BOOLEAN /\ (unnoticed' = FALSE => unnoticed = FALSE)
  BY <1>1, BoundsFit
<1>4. standby.file /\ running = None /\ (unnoticed' = FALSE => standby.rev <= db'.layout)
  BY <1>1, Fields DEF IInv, AgentFits, Backward
<1>5. UNCHANGED <<checkout, image, running, dump, standby>>
  BY DEF code, kept
<1>6. TypeOK'
  BY <1>1, <1>2, <1>3, <1>4, <1>5, Fields DEF IInv, TypeOK, Busy, Steps, Modes
<1>7. AgentFits'
  BY <1>1, <1>2, <1>3, <1>4, <1>5, Fields DEF IInv, AgentFits, Forward, Drained
<1>8. StandsBy'
  BY <1>1, <1>2, <1>3, <1>4, <1>5, Fields DEF IInv, StandsBy, Sound
<1>9. OnTheWay'
  BY <1>1, <1>2, <1>3, <1>4, <1>5, Fields DEF IInv, OnTheWay, Quiet, Forward, Sound
<1>10. OnTheWayBack'
  BY <1>1, <1>2, <1>3, <1>4, <1>5, Fields DEF IInv, OnTheWayBack, Backward, Sound
<1>11. BackupHasAll'
  BY <1>1, <1>2, <1>3, <1>4, <1>5, Fields DEF IInv, TypeOK, AgentFits, StandsBy, OnTheWay, BackupHasAll, Busy, Quiet, Forward, Backward, Drained, Sound, Steps
<1>12. QED
  BY <1>6, <1>7, <1>8, <1>9, <1>10, <1>11 DEF IInv

LEMMA RestoreFailsStep ==
    ASSUME IInv, agent.at = "restore", Ends("failed", "restore"), Fine \/ Unnoticed,
           standby.rev = db.layout => unnoticed' = TRUE,
           UNCHANGED <<code, db, mode, kept, worker, slipped>>
    PROVE  IInv'
<1>1. TypeOK
  BY DEF IInv
<1>2. /\ agent' \in Agents /\ agent'.at = "idle" /\ agent'.asked = "none" /\ agent'.to = None
      /\ status' \in Statuses /\ status'.state = "failed" /\ status'.step = "restore"
  BY EndsFits DEF Statuses
<1>3. /\ used' \in Bounds /\ used'.updates = used.updates /\ used'.writes = used.writes
      /\ unnoticed' \in BOOLEAN /\ (unnoticed' = FALSE => unnoticed = FALSE)
  BY <1>1, BoundsFit
<1>4. standby.file /\ running = None
  BY DEF IInv, AgentFits, Backward
<1>5. unnoticed' = FALSE => LayoutOf[image.local] < db.layout
  <2> SUFFICES ASSUME unnoticed' = FALSE PROVE LayoutOf[image.local] < db.layout
    OBVIOUS
  <2>1. Sound
    BY <1>3 DEF Sound
  <2>2. image.local = standby.ref /\ standby.rev = LayoutOf[standby.ref] /\ standby.rev <= db.layout
    BY <1>4, <2>1 DEF IInv, OnTheWayBack, StandsBy
  <2>3. standby.rev \in Nat /\ db.layout \in Nat
    BY <1>1, Fields
  <2>4. QED
    BY <2>2, <2>3
<1>6. UNCHANGED <<checkout, image, running, db, maintenance, stale, dump, standby, worker, slipped>>
  BY DEF code, mode, kept
<1>7. TypeOK'
  BY <1>1, <1>2, <1>3, <1>4, <1>5, <1>6, Fields DEF IInv, TypeOK, Busy, Steps, Modes
<1>8. AgentFits'
  BY <1>1, <1>2, <1>3, <1>4, <1>5, <1>6, Fields DEF IInv, AgentFits, Forward, Drained
<1>9. StandsBy'
  BY <1>2, <1>3, <1>6 DEF IInv, StandsBy, Sound
<1>10. OnTheWay'
  BY <1>2, <1>4, <1>5, <1>6 DEF OnTheWay, Forward, Sound
<1>11. OnTheWayBack'
  BY <1>2 DEF OnTheWayBack, Backward
<1>12. BackupHasAll'
  BY <1>2 DEF BackupHasAll
<1>13. QED
  BY <1>7, <1>8, <1>9, <1>10, <1>11, <1>12 DEF IInv

LEMMA AtRestore ==
    ASSUME IInv, Sound, agent.at = "restore"
    PROVE  /\ standby.ref \in Versions /\ standby.rev = LayoutOf[standby.ref] /\ standby.rev # None
           /\ standby.dump \in 1..MaxUpdates
           /\ dump[standby.dump].exists => dump[standby.dump].layout = standby.rev
           /\ agent.asked = "update" => db.data \ dump[standby.dump].data \subseteq slipped
<1>1. standby.file
  BY DEF IInv, AgentFits, Backward
<1>2. /\ standby.ref \in Versions /\ standby.rev = LayoutOf[standby.ref]
      /\ standby.dump \in 1..used.updates
      /\ dump[standby.dump].exists => dump[standby.dump].layout = standby.rev
  BY <1>1 DEF IInv, StandsBy
<1>3. used.updates \in 0..MaxUpdates
  BY Fields DEF IInv
<1>4. agent.asked = "update" => db.data \ dump[standby.dump].data \subseteq slipped
  BY DEF IInv, BackupHasAll, Quiet
<1>5. QED
  BY <1>2, <1>3, <1>4

LEMMA RestoreStep == ASSUME IInv, Restore PROVE IInv'
<1>1. TypeOK /\ agent.at = "restore" /\ unnoticed \in BOOLEAN
  BY DEF IInv, Restore, TypeOK
<1>2. UNCHANGED <<code, stale, kept, worker, slipped>>
  BY DEF Restore, mode
<1>3. CASE standby.rev \in {None, db.layout} /\ Goes("start") /\ Fine /\ UNCHANGED <<db, mode>>
  <2>1. db' \in Databases /\ maintenance' \in Modes
    BY <1>1, <1>3 DEF TypeOK, mode
  <2>2. unnoticed' = FALSE => Sound
    BY <1>1, <1>3 DEF Sound, Fine
  <2>3. unnoticed' = FALSE => standby.rev = db'.layout
    BY <1>1, <1>3, <2>2, AtRestore
  <2>4. unnoticed' = FALSE /\ agent.asked = "update" => db'.data \ dump[standby.dump].data \subseteq slipped
    BY <1>1, <1>3, <2>2, AtRestore
  <2>5. QED
    BY <1>1, <1>2, <1>3, <2>1, <2>3, <2>4, RestoreGoesOn
<1>4. CASE /\ standby.rev # None
           /\ IF standby.rev = db.layout THEN Unnoticed ELSE Fine
           /\ dump[standby.dump].exists
           /\ db' = [layout |-> dump[standby.dump].layout, data |-> dump[standby.dump].data]
           /\ maintenance' = dump[standby.dump].maintenance
           /\ Goes("start")
  <2>1. standby.dump \in 1..MaxUpdates
    BY <1>1, <1>4, Fields DEF IInv, AgentFits
  <2>2. db' \in Databases /\ db'.layout = dump[standby.dump].layout /\ db'.data = dump[standby.dump].data
        /\ maintenance' \in Modes
    BY <1>1, <1>4, <2>1 DEF TypeOK, Dumps, Databases
  <2>3. Fine \/ Unnoticed
    BY <1>4
  <2>4. unnoticed' = FALSE => Sound
    BY <1>1, <2>3, BoundsFit DEF Sound
  <2>5. unnoticed' = FALSE => standby.rev = db'.layout
    BY <1>1, <1>4, <2>2, <2>4, AtRestore
  <2>6. db'.data \ dump[standby.dump].data \subseteq slipped
    BY <2>2
  <2>7. QED
    BY <1>1, <1>2, <1>4, <2>2, <2>3, <2>5, <2>6, RestoreGoesOn
<1>5. CASE /\ standby.rev # None
           /\ IF standby.rev = db.layout THEN Unnoticed ELSE Fine
           /\ Ends("failed", "restore") /\ UNCHANGED <<db, maintenance>>
  <2>1. standby.rev = db.layout => unnoticed' = TRUE
    BY <1>5 DEF Unnoticed
  <2>2. (Fine \/ Unnoticed) /\ UNCHANGED <<code, db, mode, kept, worker, slipped>>
    BY <1>2, <1>5 DEF mode
  <2>3. QED
    BY <1>1, <1>5, <2>1, <2>2, RestoreFailsStep
<1>6. QED
  BY <1>3, <1>4, <1>5 DEF Restore

LEMMA StartsAgainStep ==
    ASSUME IInv, StartsAgain
    PROVE  IInv'
<1>1. TypeOK
  BY DEF IInv
<1>2. agent.at = "start" /\ Goes("healthy") /\ standby.file /\ running = None /\ image.local \in Versions
  BY Fields DEF StartsAgain, IInv, AgentFits, Backward
<1>3. /\ agent' \in Agents /\ agent'.at = "healthy" /\ agent'.to = agent.to /\ agent'.asked = agent.asked
      /\ agent'.dump = agent.dump /\ agent'.rev = agent.rev /\ status' = status
  BY <1>1, <1>2, GoesFits DEF Steps
<1>4. /\ used' \in Bounds /\ used'.updates = used.updates /\ used'.writes = used.writes
      /\ unnoticed' \in BOOLEAN /\ (unnoticed' = FALSE => unnoticed = FALSE)
  BY <1>1, BoundsFit DEF StartsAgain
<1>5. /\ db' \in Databases /\ running' \in Versions \cup {None} /\ db'.data = db.data
      /\ running' # None => LayoutOf[running'] = db'.layout
      /\ worker' \in {"idle", worker} /\ stale' \in BOOLEAN
  BY <1>1, <1>2, StartsOnFits, Fields DEF StartsAgain, TypeOK
<1>6. Sound => image.local = standby.ref /\ standby.rev = LayoutOf[standby.ref] /\ standby.rev = db.layout
  BY <1>2 DEF IInv, OnTheWayBack, StandsBy
<1>7. Sound => unnoticed' = TRUE \/ (running' = image.local /\ db'.layout = db.layout)
  <2> SUFFICES ASSUME Sound, StartsOn(image.local)
               PROVE  running' = image.local /\ db'.layout = db.layout
    BY DEF StartsAgain, Unnoticed
  <2>1. db.layout \in Nat /\ LayoutOf[image.local] = db.layout
    BY <1>1, <1>6, Fields
  <2>2. LayoutOf[image.local] >= db.layout
    BY <2>1
  <2>3. QED
    BY <1>1, <1>2, <2>1, <2>2, StartsOnFits
<1>8. UNCHANGED <<checkout, image, maintenance, dump, standby, slipped>>
  BY DEF StartsAgain, kept
<1>9. TypeOK'
  BY <1>1, <1>2, <1>3, <1>4, <1>5, <1>6, <1>7, <1>8, Fields DEF IInv, TypeOK, Busy, Steps, Modes
<1>10. AgentFits'
  BY <1>1, <1>2, <1>3, <1>4, <1>5, <1>6, <1>7, <1>8, Fields DEF IInv, AgentFits, Forward, Drained
<1>11. StandsBy'
  BY <1>2, <1>3, <1>4, <1>7, <1>8 DEF IInv, StandsBy, Sound
<1>12. OnTheWay'
  BY <1>2, <1>3, <1>4 DEF IInv, OnTheWay, Quiet, Forward, Sound
<1>13. OnTheWayBack'
  BY <1>1, <1>2, <1>3, <1>4, <1>5, <1>6, <1>7, <1>8, Fields DEF IInv, TypeOK, AgentFits, StandsBy, OnTheWay, OnTheWayBack, Busy, Quiet, Forward, Backward, Drained, Sound, Steps
<1>14. BackupHasAll'
  BY <1>1, <1>2, <1>3, <1>4, <1>5, <1>6, <1>7, <1>8, Fields DEF IInv, TypeOK, AgentFits, StandsBy, OnTheWay, BackupHasAll, Busy, Quiet, Forward, Backward, Drained, Sound, Steps
<1>15. QED
  BY <1>9, <1>10, <1>11, <1>12, <1>13, <1>14 DEF IInv

LEMMA HealthyStep ==
    ASSUME IInv, Healthy
    PROVE  IInv'
<1>1. TypeOK
  BY DEF IInv
<1>2. agent.at = "healthy" /\ standby.file
  BY DEF Healthy, IInv, AgentFits, Backward
<1>3. /\ agent' \in Agents /\ agent'.at = "idle" /\ agent'.asked = "none" /\ agent'.to = None
      /\ status' \in Statuses /\ status'.state \in {"succeeded", "rolled_back", "failed"}
      /\ status'.step \in {"done", "rollback"}
  BY EndsFits DEF Healthy, Final, Statuses
<1>4. standby' = standby \/ (standby' \in Records /\ ~standby'.file /\ standby'.ref = None /\ standby'.rev = None)
  <2>1. NoStandby \in Records /\ ~NoStandby.file /\ NoStandby.ref = None /\ NoStandby.rev = None
    BY DEF NoStandby, Records
  <2>2. standby' = NoStandby \/ standby' = standby
    BY DEF Healthy
  <2>3. QED
    BY <2>1, <2>2
<1>5. maintenance' \in Modes /\ stale' \in BOOLEAN
  BY <1>1, ModeFits DEF Healthy
<1>6. Sound => running = image.local /\ checkout = image.local
  BY <1>2 DEF IInv, OnTheWayBack, Backward
<1>7. /\ used' \in Bounds /\ used'.updates = used.updates /\ used'.writes = used.writes
      /\ unnoticed' \in BOOLEAN /\ (unnoticed' = FALSE => unnoticed = FALSE)
  BY <1>1, BoundsFit DEF Healthy
<1>8. UNCHANGED <<checkout, image, running, db, dump, worker, slipped>>
  BY DEF Healthy, code
<1>9. TypeOK'
  BY <1>1, <1>2, <1>3, <1>4, <1>5, <1>6, <1>7, <1>8, Fields DEF IInv, TypeOK, Busy, Steps, Modes
<1>10. AgentFits'
  BY <1>1, <1>2, <1>3, <1>4, <1>5, <1>6, <1>7, <1>8, Fields DEF IInv, TypeOK, AgentFits, OnTheWay, Busy, Quiet, Forward, Backward, Drained, Sound, Steps
<1>11. StandsBy'
  BY <1>2, <1>3, <1>4, <1>7, <1>8 DEF IInv, StandsBy, Sound
<1>12. OnTheWay'
  BY <1>1, <1>2, <1>3, <1>4, <1>5, <1>6, <1>7, <1>8, Fields DEF IInv, TypeOK, AgentFits, StandsBy, OnTheWay, OnTheWayBack, Busy, Quiet, Forward, Backward, Drained, Sound, Steps
<1>13. OnTheWayBack'
  BY <1>3 DEF OnTheWayBack, Backward
<1>14. BackupHasAll'
  BY <1>3 DEF BackupHasAll
<1>15. QED
  BY <1>9, <1>10, <1>11, <1>12, <1>13, <1>14 DEF IInv

-----------------------------------------------------------------------------
(* Everybody else.                                                         *)

LEMMA SoundStays ==
    ASSUME TypeOK, UNCHANGED <<agent, status, unnoticed>>
    PROVE  Sound' => Sound
<1>1. unnoticed \in BOOLEAN /\ unnoticed' = unnoticed /\ agent' = agent /\ status' = status
  BY DEF TypeOK
<1>2. QED
  BY <1>1 DEF Sound, Busy

LEMMA OthersStep ==
    ASSUME IInv, UNCHANGED <<code, kept, agent, status, unnoticed>>,
           db' \in Databases, db'.layout = db.layout, maintenance' \in Modes, stale' \in BOOLEAN,
           worker' \in {"idle", "claims", "job", "late job"}, Drained => worker' # "job",
           slipped' \subseteq 1..MaxWrites, slipped \subseteq slipped', used' \in Bounds, used'.updates = used.updates,
           Drained => db'.data \ db.data \subseteq slipped'
    PROVE  IInv'
<1>1. TypeOK
  BY DEF IInv
<1>2. UNCHANGED <<checkout, image, running, dump, standby, agent, status, unnoticed>>
  BY DEF code, kept
<1>3. db'.layout = db.layout /\ used'.updates = used.updates
  OBVIOUS
<1>4. TypeOK'
  BY <1>1, <1>2, <1>3, Fields DEF IInv, TypeOK, Busy, Steps, Modes
<1>5. AgentFits'
  BY <1>1, <1>2, <1>3, Fields DEF IInv, TypeOK, AgentFits, OnTheWay, Busy, Quiet, Forward, Backward, Drained, Sound, Steps
<1>6. Sound' => Sound
  BY <1>1, <1>2, SoundStays
<1>7. StandsBy'
  BY <1>2, <1>3, <1>6 DEF IInv, StandsBy
<1>8. OnTheWay'
  BY <1>2, <1>3, <1>6 DEF IInv, OnTheWay, Quiet, Forward
<1>9. OnTheWayBack'
  BY <1>2, <1>3, <1>6 DEF IInv, OnTheWayBack, Backward
<1>10. BackupHasAll'
  <2> SUFFICES ASSUME Sound, agent.asked = "update"
               PROVE  /\ agent.at \in {"layout", "keep", "record"} => db'.data \ dump[agent.dump].data \subseteq slipped'
                      /\ agent.at \notin Quiet \/ agent.at = "checkout" =>
                            db'.data \ dump[standby.dump].data \subseteq slipped'
    BY <1>2, <1>6 DEF BackupHasAll, Quiet
  <2>1. \A saved : db.data \ saved \subseteq slipped /\ Drained => db'.data \ saved \subseteq slipped'
    OBVIOUS
  <2>2. agent.at \notin {"check", "maintenance", "drain"} => Drained
    BY DEF Drained
  <2>3. QED
    BY <2>1, <2>2 DEF IInv, BackupHasAll, Quiet
<1>11. QED
  BY <1>4, <1>5, <1>7, <1>8, <1>9, <1>10 DEF IInv

LEMMA WritesFit ==
    ASSUME TypeOK, Writes
    PROVE  /\ db' \in Databases /\ db'.layout = db.layout /\ db'.data = db.data \cup {used.writes + 1}
           /\ used' \in Bounds /\ used'.updates = used.updates /\ used.writes + 1 \in 1..MaxWrites
<1>1. used.writes \in 0..MaxWrites /\ db \in Databases /\ used \in Bounds
  BY Fields DEF TypeOK
<1>2. used.writes < MaxWrites
  BY DEF Writes
<1>3. used.writes + 1 \in 1..MaxWrites /\ used.writes + 1 \in 0..MaxWrites
  BY <1>1, <1>2
<1>4. used' = [used EXCEPT !.writes = used.writes + 1] /\ db' = [db EXCEPT !.data = db.data \cup {used.writes + 1}]
  BY DEF Writes
<1>5. used' \in Bounds /\ used'.updates = used.updates
  BY <1>1, <1>3, <1>4 DEF Bounds
<1>6. db' \in Databases /\ db'.layout = db.layout /\ db'.data = db.data \cup {used.writes + 1}
  BY <1>1, <1>3, <1>4 DEF Databases
<1>7. QED
  BY <1>3, <1>5, <1>6

LEMMA DrainedFits == ASSUME IInv, Drained PROVE worker # "job"
BY DEF IInv, AgentFits

LEMMA PersonWritesStep == ASSUME IInv, PersonWrites PROVE IInv'
<1>1. TypeOK
  BY DEF IInv
<1>2. /\ UNCHANGED <<code, kept, agent, status, unnoticed>> /\ maintenance' \in Modes /\ stale' \in BOOLEAN
      /\ worker' = worker /\ worker \in {"idle", "claims", "job", "late job"}
      /\ slipped' = IF Drained THEN slipped \cup {used.writes + 1} ELSE slipped
      /\ slipped \subseteq 1..MaxWrites
  BY <1>1 DEF PersonWrites, TypeOK, mode
<1>3. /\ db' \in Databases /\ db'.layout = db.layout /\ db'.data = db.data \cup {used.writes + 1}
      /\ used' \in Bounds /\ used'.updates = used.updates /\ used.writes + 1 \in 1..MaxWrites
  BY <1>1, WritesFit DEF PersonWrites
<1>4. QED
  BY <1>2, <1>3, DrainedFits, OthersStep

LEMMA JobWritesStep == ASSUME IInv, JobWrites PROVE IInv'
<1>1. TypeOK
  BY DEF IInv
<1>2. /\ UNCHANGED <<code, kept, agent, status, unnoticed>> /\ maintenance' \in Modes /\ stale' \in BOOLEAN
      /\ worker' = "idle" /\ worker \in {"job", "late job"}
      /\ slipped' = IF worker = "late job" THEN slipped \cup {used.writes + 1} ELSE slipped
      /\ slipped \subseteq 1..MaxWrites
  BY <1>1 DEF JobWrites, TypeOK, mode
<1>3. /\ db' \in Databases /\ db'.layout = db.layout /\ db'.data = db.data \cup {used.writes + 1}
      /\ used' \in Bounds /\ used'.updates = used.updates /\ used.writes + 1 \in 1..MaxWrites
  BY <1>1, WritesFit DEF JobWrites
<1>4. QED
  BY <1>2, <1>3, DrainedFits, OthersStep

(* Those that write nothing.                                               *)
LEMMA OnlyModeStep ==
    ASSUME IInv, CopyExpires \/ AdminTurns \/ WorkerReads \/ WorkerClaims PROVE IInv'
<1>1. TypeOK
  BY DEF IInv
<1>2. /\ UNCHANGED <<code, kept, agent, status, unnoticed, db, slipped, used>>
      /\ db \in Databases /\ slipped \subseteq 1..MaxWrites /\ used \in Bounds
  BY <1>1 DEF TypeOK, CopyExpires, AdminTurns, WorkerReads, WorkerClaims
<1>3. /\ maintenance' \in Modes /\ stale' \in BOOLEAN /\ worker' \in {"idle", "claims", "job", "late job"}
  BY <1>1 DEF TypeOK, CopyExpires, AdminTurns, WorkerReads, WorkerClaims, mode, Modes
<1>4. Drained => worker' # "job"
  BY DrainedFits DEF CopyExpires, AdminTurns, WorkerReads, WorkerClaims
<1>5. QED
  BY <1>2, <1>3, <1>4, OthersStep

LEMMA PurgeStep ==
    ASSUME IInv, Purge
    PROVE  IInv'
<1>1. TypeOK
  BY DEF IInv
<1>2. agent.at = "idle"
  BY DEF Purge
<1>3. /\ dump' \in [1..MaxUpdates -> Dumps]
      /\ \A u \in 1..MaxUpdates : dump'[u].exists => dump'[u] = dump[u]
  <2>1. PICK u \in 1..MaxUpdates : dump' = [w \in 1..MaxUpdates |-> IF w <= u THEN NoDump ELSE dump[w]]
    BY <1>1 DEF Purge, TypeOK
  <2>2. NoDump \in Dumps /\ NoDump.exists = FALSE
    BY DEF NoDump, Dumps, Modes
  <2>3. QED
    BY <1>1, <2>1, <2>2 DEF TypeOK
<1>4. Sound /\ standby.file => standby.dump \in 1..MaxUpdates
  BY <1>1, Fields DEF IInv, StandsBy
<1>5. UNCHANGED <<checkout, image, running, db, maintenance, stale, standby, agent, status, worker, slipped, unnoticed, used>>
  BY DEF Purge, code, mode
<1>6. TypeOK'
  BY <1>1, <1>2, <1>3, <1>4, <1>5, Fields DEF IInv, TypeOK, Busy, Steps, Modes
<1>7. AgentFits'
  BY <1>1, <1>2, <1>3, <1>4, <1>5, Fields DEF IInv, TypeOK, AgentFits, OnTheWay, Busy, Quiet, Forward, Backward, Drained, Sound, Steps
<1>8. StandsBy'
  BY <1>1, <1>2, <1>3, <1>4, <1>5, Fields DEF IInv, TypeOK, AgentFits, StandsBy, OnTheWay, Busy, Quiet, Forward, Backward, Drained, Sound, Steps
<1>9. OnTheWay'
  BY <1>1, <1>2, <1>3, <1>4, <1>5, Fields DEF IInv, TypeOK, AgentFits, StandsBy, OnTheWay, OnTheWayBack, Busy, Quiet, Forward, Backward, Drained, Sound, Steps
<1>10. OnTheWayBack'
  BY <1>1, <1>2, <1>3, <1>4, <1>5, Fields DEF IInv, TypeOK, AgentFits, StandsBy, OnTheWay, OnTheWayBack, Busy, Quiet, Forward, Backward, Drained, Sound, Steps
<1>11. BackupHasAll'
  BY <1>1, <1>2, <1>3, <1>4, <1>5, Fields DEF IInv, AgentFits, BackupHasAll
<1>12. QED
  BY <1>6, <1>7, <1>8, <1>9, <1>10, <1>11 DEF IInv

LEMMA PowerLossStep ==
    ASSUME IInv, PowerLoss
    PROVE  IInv'
<1>1. TypeOK
  BY DEF IInv
<1>2. /\ agent' \in Agents /\ agent'.at = "idle" /\ agent'.asked = "none" /\ agent'.to = None
  BY DEF PowerLoss, Waiting, Agents, Steps
<1>3. image.local \in Versions /\ StartsOn(image.local)
  BY <1>1, Fields DEF PowerLoss
<1>4. /\ db' \in Databases /\ running' \in Versions \cup {None} /\ db'.data = db.data
      /\ running' # None => LayoutOf[running'] = db'.layout
      /\ worker' = "idle" /\ stale' \in BOOLEAN
  BY <1>1, <1>3, StartsOnFits
<1>5. used' \in Bounds /\ used'.updates = used.updates
  BY <1>1, BoundsFit DEF PowerLoss
<1>6. Sound' => Sound /\ agent.at = "idle"
  BY <1>2 DEF PowerLoss, Sound, Busy, IInv, TypeOK
<1>7. Sound' /\ status.step # "restore" =>
          /\ running = image.local /\ checkout = image.local
          /\ running' = image.local /\ db'.layout = db.layout
  <2> SUFFICES ASSUME Sound', status.step # "restore"
               PROVE  /\ running = image.local /\ checkout = image.local
                      /\ running' = image.local /\ db'.layout = db.layout
    OBVIOUS
  <2>1. running = image.local /\ checkout = image.local
    BY <1>6 DEF IInv, OnTheWay, Quiet
  <2>2. db.layout \in Nat /\ LayoutOf[image.local] = db.layout
    BY <1>1, <2>1, Fields DEF IInv, AgentFits
  <2>3. LayoutOf[image.local] >= db.layout
    BY <2>2
  <2>4. QED
    BY <1>1, <1>3, <2>1, <2>2, <2>3, StartsOnFits
<1>8. Sound' /\ status.step = "restore" => running' = None /\ db' = db /\ LayoutOf[image.local] < db.layout
  <2> SUFFICES ASSUME Sound', status.step = "restore"
               PROVE  running' = None /\ db' = db /\ LayoutOf[image.local] < db.layout
    OBVIOUS
  <2>1. LayoutOf[image.local] < db.layout
    BY <1>6 DEF IInv, OnTheWay
  <2>2. db.layout \in Nat /\ LayoutOf[image.local] \in Nat
    BY <1>1, Fields
  <2>3. ~(LayoutOf[image.local] >= db.layout)
    BY <2>1, <2>2
  <2>4. QED
    BY <1>1, <1>3, <2>1, <2>3, StartsOnFits
<1>9. UNCHANGED <<checkout, image, maintenance, dump, standby, status, slipped, unnoticed>>
  BY DEF PowerLoss, kept
<1>10. TypeOK'
  BY <1>1, <1>2, <1>3, <1>4, <1>5, <1>6, <1>7, <1>8, <1>9, Fields DEF IInv, TypeOK, Busy, Steps, Modes
<1>11. AgentFits'
  BY <1>1, <1>2, <1>3, <1>4, <1>5, <1>6, <1>7, <1>8, <1>9, Fields DEF IInv, AgentFits, Forward, Backward
<1>12. StandsBy'
  BY <1>1, <1>2, <1>3, <1>4, <1>5, <1>6, <1>7, <1>8, <1>9, Fields DEF IInv, TypeOK, AgentFits, StandsBy, OnTheWay, Busy, Quiet, Forward, Backward, Drained, Sound, Steps
<1>13. OnTheWay'
  BY <1>1, <1>2, <1>3, <1>4, <1>5, <1>6, <1>7, <1>8, <1>9, Fields DEF IInv, TypeOK, AgentFits, StandsBy, OnTheWay, OnTheWayBack, Busy, Quiet, Forward, Backward, Drained, Sound, Steps
<1>14. OnTheWayBack'
  BY <1>2 DEF OnTheWayBack, Backward
<1>15. BackupHasAll'
  BY <1>2 DEF BackupHasAll
<1>16. QED
  BY <1>10, <1>11, <1>12, <1>13, <1>14, <1>15 DEF IInv

-----------------------------------------------------------------------------
(* The theorems.                                                           *)

THEOREM NextIInv == IInv /\ [Next]_vars => IInv'
<1> SUFFICES ASSUME IInv, [Next]_vars PROVE IInv'
  OBVIOUS
<1>1. CASE StartUpdate
  BY <1>1, StartUpdateStep
<1>2. CASE StartRollback
  BY <1>2, StartRollbackStep
<1>3. CASE Update
  BY <1>3, ChecksStep, MaintenanceOnStep, DrainStep, BackupStep, ReadsLayoutStep, KeepsImageStep, RecordStep,
     CheckoutStep, BuildStep, UpStep, HealthStep DEF Update
<1>4. CASE Rollback
  BY <1>4, NothingOnStandbyStep, StopsStep, ChecksBackStep, TagsBackStep, RestoreStep, StartsAgainStep, HealthyStep
     DEF Rollback
<1>5. CASE Others
  BY <1>5, PersonWritesStep, OnlyModeStep, JobWritesStep, PurgeStep DEF Others
<1>6. CASE PowerLoss
  BY <1>6, PowerLossStep
<1>7. CASE UNCHANGED vars
  <2>1. /\ UNCHANGED <<code, kept, agent, status, unnoticed, db, worker, slipped, used>>
        /\ maintenance' = maintenance /\ stale' = stale
    BY <1>7 DEF vars, mode
  <2>2. /\ db \in Databases /\ slipped \subseteq 1..MaxWrites /\ used \in Bounds /\ maintenance \in Modes
        /\ stale \in BOOLEAN /\ worker \in {"idle", "claims", "job", "late job"}
    BY DEF IInv, TypeOK
  <2>3. QED
    BY <2>1, <2>2, DrainedFits, OthersStep
<1>8. QED
  BY <1>1, <1>2, <1>3, <1>4, <1>5, <1>6, <1>7 DEF Next

(* What the agent, the stack and the record of the version on standby are   *)
(* at every step of an update and of the way back (labape-update.sh), for    *)
(* any number of versions, layouts, updates and faults.  AgentFits holds     *)
(* whatever fails; the other conjuncts say something only under Sound, as    *)
(* long as no power loss and no unnoticed failure came in between.           *)
THEOREM Invariance == Spec => []IInv
BY InitIInv, NextIInv, PTL DEF Spec

(* Every variable keeps its type, and an agent at work says so in its status *)
(* (write_status in labape-update.sh).                                       *)
THEOREM TypeCorrect == Spec => []TypeOK
BY Invariance, PTL DEF IInv

(* Wherever the power goes, the image a boot starts can read the database,   *)
(* but between an old image's tag and the restore of its database, and after  *)
(* a restore that failed (cmd_rollback in labape-update.sh).                  *)
THEOREM BootStartsAlways == Spec => []BootStarts
<1>1. IInv => BootStarts
  <2> SUFFICES ASSUME IInv, ~unnoticed, agent.at # "restore", status.step # "restore",
                      ~(agent.at = "idle" /\ Busy)
               PROVE  ~(LayoutOf[image.local] < db.layout)
    BY DEF BootStarts
  <2>1. Sound
    BY DEF Sound
  <2>2. TypeOK
    BY DEF IInv
  <2>3. LayoutOf[image.local] \in Nat /\ db.layout \in Nat
    BY <2>2, Fields
  <2>4. CASE agent.at \notin {"rollback"} \cup Backward
    BY <2>1, <2>3, <2>4, LocalReads
  <2>5. CASE agent.at \in {"rollback", "back", "tag"}
    BY <2>1, <2>3, <2>5 DEF IInv, OnTheWayBack
  <2>6. CASE agent.at \in {"start", "healthy"}
    <3>1. standby.file
      BY <2>6 DEF IInv, AgentFits, Backward
    <3>2. image.local = standby.ref /\ standby.rev = db.layout /\ standby.rev = LayoutOf[standby.ref]
      BY <2>1, <2>6, <3>1 DEF IInv, OnTheWayBack, StandsBy
    <3>3. QED
      BY <2>3, <3>2
  <2>7. QED
    BY <2>4, <2>5, <2>6 DEF Backward
<1>2. QED
  BY <1>1, Invariance, PTL

(* Only the two health checks report success.                              *)
LEMMA ReportsAre == ASSUME IInv, Next, Reported PROVE Health \/ Healthy
<1>1. TypeOK /\ status.state = "running"
  BY DEF Reported, IInv, TypeOK, Busy
<1>2. status' # status
  BY <1>1 DEF Reported
<1>3. agent' # agent
  BY DEF Reported
<1>4. ~StartUpdate /\ ~StartRollback /\ ~Others /\ ~PowerLoss
  BY <1>1, <1>2, <1>3 DEF StartUpdate, StartRollback, Busy, Others, PersonWrites, CopyExpires, AdminTurns, WorkerReads,
     WorkerClaims, JobWrites, Purge, PowerLoss
<1>5. Update => Health
  <2>1. \A step \in {"checking", "maintenance", "backup"} : ~Fails(step)
    BY DEF Fails, Ends, Reported
  <2>2. \A step \in Steps : ~Goes(step)
    BY <1>2 DEF Goes
  <2>3. QED
    BY <1>2, <2>1, <2>2 DEF Update, Checks, MaintenanceOn, Drain, Backup, ReadsLayout, KeepsImage, Record, Checkout,
       Build, Up, Steps
<1>6. Rollback => Healthy
  <2>1. ~Ends("failed", "rollback") /\ ~Ends("failed", "restore")
    BY DEF Ends, Reported
  <2>2. \A step \in Steps : ~Goes(step)
    BY <1>2 DEF Goes
  <2>3. QED
    BY <2>1, <2>2 DEF Rollback, NothingOnStandby, Stops, ChecksBack, TagsBack, Restore, StartsAgain, Steps
<1>7. QED
  BY <1>4, <1>5, <1>6 DEF Next

(* An update or a rollback that reports success left one version checked     *)
(* out, tagged and running, a database of its layout, and maintenance off,    *)
(* whatever version it came from (cmd_update, cmd_rollback).                  *)
THEOREM EndsWholeAlways == Spec => EndsWhole
<1>1. ASSUME IInv, [Next]_vars, Reported, ~unnoticed'
      PROVE  /\ running' = IF status'.state = "succeeded" /\ agent.asked = "update" THEN agent.to ELSE standby.ref
             /\ image'.local = running' /\ checkout' = running'
             /\ db'.layout = LayoutOf[running']
             /\ maintenance' = Off
  <2>1. TypeOK /\ agent' # agent
    BY <1>1 DEF IInv, Reported
  <2>2. Health \/ Healthy
    BY <1>1, <2>1, ReportsAre DEF vars
  <2>3. Fine /\ ~unnoticed
    BY <1>1, <2>2 DEF Health, Healthy, Fine, Unnoticed
  <2>4. Sound
    BY <1>1, <2>3 DEF Sound, Reported
  <2>5. UNCHANGED <<checkout, image, running, db>>
    BY <2>2 DEF Health, Healthy, code
  <2>6. CASE Health
    <3>1. running # None /\ TurnsOff /\ status' = [state |-> "succeeded", step |-> "done"]
      <4>1. ~Goes("rollback")
        BY <1>1, <2>1 DEF Goes, Reported, TypeOK, Busy
      <4>2. ~Unnoticed
        BY <1>1 DEF Unnoticed
      <4>3. QED
        BY <2>6, <4>1, <4>2 DEF Health, Ends
    <3>2. agent.at = "health" /\ agent.asked = "update"
      BY <1>1, <2>6 DEF Health, IInv, AgentFits, Forward
    <3>3. running = agent.to /\ image.local = agent.to /\ checkout = agent.to
      BY <1>1, <2>4, <3>2 DEF IInv, OnTheWay
    <3>4. LayoutOf[running] = db.layout
      BY <1>1, <3>1 DEF IInv, AgentFits
    <3>5. QED
      BY <2>5, <3>1, <3>2, <3>3, <3>4 DEF TurnsOff
  <2>7. CASE Healthy
    <3>1. running # None /\ TurnsOff /\ status' = [state |-> Final, step |-> "done"]
      BY <1>1, <2>7 DEF Healthy, Reported, Unnoticed, Ends
    <3>2. ~(status'.state = "succeeded" /\ agent.asked = "update")
      BY <3>1 DEF Final
    <3>3. running = standby.ref /\ image.local = standby.ref /\ checkout = standby.ref
      BY <1>1, <2>4, <2>7 DEF Healthy, IInv, OnTheWayBack, Backward
    <3>4. LayoutOf[running] = db.layout
      BY <1>1, <3>1 DEF IInv, AgentFits
    <3>5. QED
      BY <2>5, <3>1, <3>2, <3>3, <3>4 DEF TurnsOff
  <2>8. QED
    BY <2>2, <2>6, <2>7
<1>2. QED
  BY <1>1, Invariance, PTL DEF Spec, EndsWhole

(* Only a restore takes away what was written.                             *)
LEMMA OnlyRestoreLoses == ASSUME IInv, [Next]_vars, ~Restore PROVE db.data \subseteq db'.data
<1>1. TypeOK
  BY DEF IInv
<1>2. image.local \in Versions
  BY <1>1, Fields
<1>3. StartsOn(image.local) => db'.data = db.data
  BY <1>1, <1>2, StartsOnFits
<1>4. Writes => db.data \subseteq db'.data
  BY <1>1, WritesFit
<1>5. CASE StartUpdate \/ StartRollback \/ PowerLoss \/ UNCHANGED vars
  BY <1>3, <1>5 DEF StartUpdate, StartRollback, PowerLoss, vars
<1>6. CASE Update
  BY <1>3, <1>6 DEF Update, Checks, MaintenanceOn, Drain, Backup, ReadsLayout, KeepsImage, Record, Checkout, Build, Up,
     Health
<1>7. CASE Rollback
  BY <1>3, <1>7 DEF Rollback, NothingOnStandby, Stops, ChecksBack, TagsBack, StartsAgain, Healthy
<1>8. CASE Others
  BY <1>4, <1>8 DEF Others, PersonWrites, CopyExpires, AdminTurns, WorkerReads, WorkerClaims, JobWrites, Purge
<1>9. QED
  BY <1>5, <1>6, <1>7, <1>8 DEF Next

(* An update that goes back by itself loses nothing written before its drain *)
(* was over, however many versions were written to and however it fails       *)
(* (drain_jobs and cmd_rollback in labape-update.sh).                         *)
THEOREM LosesNothingAlways == Spec => LosesNothing
<1>1. ASSUME IInv, [Next]_vars, agent.asked = "update", ~unnoticed'
      PROVE  db.data \ db'.data \subseteq slipped
  <2>1. CASE ~Restore
    BY <1>1, <2>1, OnlyRestoreLoses
  <2>2. CASE Restore
    <3>1. CASE UNCHANGED db
      BY <3>1
    <3>2. CASE db' # db
      <4>1. agent.at = "restore" /\ db'.data = dump[standby.dump].data
        BY <2>2, <3>2 DEF Restore
      <4>2. (Fine \/ Unnoticed) /\ TypeOK
        BY <1>1, <2>2 DEF Restore, IInv
      <4>3. ~unnoticed
        BY <1>1, <4>2 DEF Fine, Unnoticed, TypeOK
      <4>4. Sound
        BY <4>1, <4>3 DEF Sound
      <4>5. QED
        BY <1>1, <4>1, <4>4, AtRestore
    <3>3. QED
      BY <3>1, <3>2
  <2>3. QED
    BY <2>1, <2>2
<1>2. QED
  BY <1>1, Invariance, PTL DEF Spec, LosesNothing

=============================================================================
