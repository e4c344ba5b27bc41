------------------------------ MODULE Updates ------------------------------
(***************************************************************************)
(* Updates and rollbacks of the stack by the update agent on the host      *)
(* (deploy/update-agent/labape-update.sh): the checkout, the images, the   *)
(* database with its layout, the backups, maintenance mode and the record  *)
(* of the version on standby, beside people who change things, a worker    *)
(* that starts jobs, and a host that loses power.                          *)
(*                                                                         *)
(* A version is a number, a newer version has a larger one; version 0 is   *)
(* no version.  What people and jobs wrote is a set of numbers.  The agent *)
(* does not look at what some of its commands return: a fault of one of    *)
(* those sets unnoticed.                                                   *)
(***************************************************************************)
EXTENDS Naturals

CONSTANTS
    Newest,         \* the newest version; the stack starts at version 1
    LayoutOf,       \* the database layout (its migration) of each version
    Referring,      \* the layouts that add a table with a foreign key to an older table
    MaxUpdates,     \* bound: updates
    MaxWrites,      \* bound: things written
    MaxFaults       \* bound: unnoticed failures and power losses

Versions == 1..Newest

ASSUME UpdatesAssumption ==
    /\ Newest \in Nat \ {0}
    /\ LayoutOf \in [Versions -> Nat \ {0}]
    /\ \A v, w \in Versions : v <= w => LayoutOf[v] <= LayoutOf[w]
    /\ Referring \subseteq Nat
    /\ MaxUpdates \in Nat /\ MaxWrites \in Nat /\ MaxFaults \in Nat

None == 0
Off == "off"

VARIABLES
    checkout,       \* the version checked out in the repository
    image,          \* the versions tagged labape:local and labape:previous
    running,        \* the version the API and the worker run; None: stopped or failing to start
    db,             \* the database: its layout, what was written
    maintenance,    \* who turned maintenance on, in the database
    stale,          \* the API's cached copy still says that it is off
    dump,           \* the backups, one of each update: layout, what was written, maintenance
    standby,        \* previous.json: the version, its layout, its backup
    agent,          \* the agent: its step, the version it goes to, what it was asked
    status,         \* status.json: state and step
    worker,         \* the worker: idle, has read maintenance off, has a job
    slipped,        \* what was written under an update's maintenance
    unnoticed,      \* a command failed whose result nobody looks at
    used            \* how much of each bound is used

code == <<checkout, image, running>>
mode == <<maintenance, stale>>
kept == <<dump, standby>>
vars == <<code, db, mode, kept, agent, status, worker, slipped, unnoticed, used>>

NoStandby == [ref |-> None, rev |-> None, dump |-> None, file |-> FALSE]
Unreadable == [NoStandby EXCEPT !.file = TRUE]
NoDump == [exists |-> FALSE, layout |-> None, data |-> {}, maintenance |-> Off]
Waiting == [at |-> "idle", to |-> None, asked |-> "none", dump |-> None, rev |-> None]

Init ==
    /\ checkout = 1
    /\ image = [local |-> 1, previous |-> None]
    /\ running = 1
    /\ db = [layout |-> LayoutOf[1], data |-> {}]
    /\ maintenance = Off /\ stale = FALSE
    /\ dump = [u \in 1..MaxUpdates |-> NoDump]
    /\ standby = NoStandby
    /\ agent = Waiting
    /\ status = [state |-> "idle", step |-> "none"]
    /\ worker = "idle"
    /\ slipped = {}
    /\ unnoticed = FALSE
    /\ used = [updates |-> 0, writes |-> 0, faults |-> 0]

-----------------------------------------------------------------------------
Goes(step) == agent' = [agent EXCEPT !.at = step] /\ UNCHANGED status
Ends(state, step) == agent' = Waiting /\ status' = [state |-> state, step |-> step]
Fine == UNCHANGED <<unnoticed, used>>
Fault == used.faults < MaxFaults /\ used' = [used EXCEPT !.faults = @ + 1]
Unnoticed == Fault /\ unnoticed' = TRUE

\* Maintenance, turned on and off by a command beside the API, whose copy lives five seconds more.
TurnsOn == maintenance' = "update" /\ stale' = (stale \/ maintenance = Off)
TurnsOff == maintenance' = Off /\ stale' = FALSE

\* fail: whatever maintenance was on is off; a command that does not turn it off goes unnoticed.
Fails(step) == /\ Ends("failed", step)
               /\ \/ TurnsOff /\ Fine
                  \/ UNCHANGED mode /\ Unnoticed

Stopped == running' = None /\ worker' = "idle" /\ stale' = FALSE

\* The containers start on version v: it upgrades an older layout and refuses a newer one.
StartsOn(v) ==
    /\ IF LayoutOf[v] >= db.layout
       THEN running' = v /\ db' = [db EXCEPT !.layout = LayoutOf[v]]
       ELSE running' = None /\ UNCHANGED db
    /\ worker' = "idle" /\ stale' = FALSE

-----------------------------------------------------------------------------
(* The requests.  The API refuses one while another is under way, and a    *)
(* host that lost power left its status at "running".                      *)

Busy == status.state = "running"

\* Begins variant for TypeOK: the agent does not say that it is at work.
BeginsSilently(asked, v, step) ==
    /\ agent' = [Waiting EXCEPT !.at = step, !.to = v, !.asked = asked]
    /\ UNCHANGED status

Begins(asked, v, step) ==
    /\ agent' = [Waiting EXCEPT !.at = step, !.to = v, !.asked = asked]
    /\ status' = [state |-> "running", step |-> asked]

StartUpdate ==
    /\ running # None /\ ~Busy
    /\ used.updates < MaxUpdates /\ used' = [used EXCEPT !.updates = @ + 1]
    /\ \E v \in Versions : v > running /\ Begins("update", v, "check")
    /\ UNCHANGED <<code, db, mode, kept, worker, slipped, unnoticed>>

StartRollback ==
    /\ running # None /\ ~Busy
    /\ standby.ref # None
    /\ Begins("rollback", standby.ref, "rollback")
    /\ UNCHANGED <<code, db, mode, kept, worker, slipped, unnoticed, used>>

-----------------------------------------------------------------------------
(* update                                                                  *)

\* The tag and its signature.
Checks ==
    /\ agent.at = "check"
    /\ \/ Goes("maintenance") /\ UNCHANGED mode /\ Fine
       \/ Fails("checking")
    /\ UNCHANGED <<code, db, kept, worker, slipped>>

MaintenanceOn ==
    /\ agent.at = "maintenance"
    /\ \/ TurnsOn /\ Goes("drain") /\ Fine
       \/ Fails("maintenance")
    /\ UNCHANGED <<code, db, kept, worker, slipped>>

\* Drain variant for LosesNothing: a running job is not waited for.
DrainsNot ==
    /\ agent.at = "drain"
    /\ Goes("backup") /\ Fine
    /\ UNCHANGED <<code, db, mode, kept, worker, slipped>>

\* No job is running, or none was seen to have ended when the time is up.
Drain ==
    /\ agent.at = "drain"
    /\ \/ worker # "job" /\ Goes("backup") /\ UNCHANGED mode /\ Fine
       \/ Fails("maintenance")
    /\ UNCHANGED <<code, db, kept, worker, slipped>>

Backup ==
    /\ agent.at = "backup"
    /\ \/ /\ dump' = [dump EXCEPT ![used.updates] = [exists |-> TRUE, layout |-> db.layout, data |-> db.data,
                                                     maintenance |-> maintenance]]
          /\ agent' = [agent EXCEPT !.at = "layout", !.dump = used.updates]
          /\ UNCHANGED <<mode, status>> /\ Fine
       \/ Fails("backup") /\ UNCHANGED dump
    /\ UNCHANGED <<code, db, standby, worker, slipped>>

\* What db-status printed, nothing when it failed.
ReadsLayout ==
    /\ agent.at = "layout"
    /\ \/ agent' = [agent EXCEPT !.at = "keep", !.rev = db.layout] /\ Fine
       \/ agent' = [agent EXCEPT !.at = "keep"] /\ Unnoticed
    /\ UNCHANGED <<code, db, mode, kept, status, worker, slipped>>

KeepsImage ==
    /\ agent.at = "keep"
    /\ \/ image' = [image EXCEPT !.previous = image.local] /\ Goes("record") /\ UNCHANGED mode /\ Fine
       \/ Fails("backup") /\ UNCHANGED image
    /\ UNCHANGED <<checkout, running, db, kept, worker, slipped>>

\* Nobody looks at whether previous.json was written: it may be the last update's, or cut off.
Record ==
    /\ agent.at = "record"
    /\ \/ standby' = [ref |-> checkout, rev |-> agent.rev, dump |-> agent.dump, file |-> TRUE] /\ Fine
       \/ standby' \in {standby, Unreadable} /\ Unnoticed
    /\ Goes("checkout")
    /\ UNCHANGED <<code, db, mode, dump, worker, slipped>>

Checkout ==
    /\ agent.at = "checkout"
    /\ \/ checkout' = agent.to /\ Goes("build")
       \/ UNCHANGED checkout /\ Goes("rollback")
    /\ Fine
    /\ UNCHANGED <<image, running, db, mode, kept, worker, slipped>>

Build ==
    /\ agent.at = "build"
    /\ \/ image' = [image EXCEPT !.local = agent.to] /\ Goes("up")
       \/ UNCHANGED image /\ Goes("rollback")
    /\ Fine
    /\ UNCHANGED <<checkout, running, db, mode, kept, worker, slipped>>

\* Starting fails before or after the new containers run.
Up ==
    /\ agent.at = "up"
    /\ \/ StartsOn(image.local) /\ (Goes("health") \/ Goes("rollback"))
       \/ UNCHANGED <<running, db, stale, worker>> /\ Goes("rollback")
    /\ Fine
    /\ UNCHANGED <<checkout, image, maintenance, kept, slipped>>

\* Turning maintenance off may fail unnoticed.
Health ==
    /\ agent.at = "health"
    /\ \/ running # None /\ TurnsOff /\ Ends("succeeded", "done") /\ Fine
       \/ running # None /\ UNCHANGED mode /\ Ends("succeeded", "done") /\ Unnoticed
       \/ UNCHANGED mode /\ Goes("rollback") /\ Fine
    /\ UNCHANGED <<code, db, kept, worker, slipped>>

Update == Checks \/ MaintenanceOn \/ Drain \/ Backup \/ ReadsLayout \/ KeepsImage \/ Record \/ Checkout \/ Build
          \/ Up \/ Health

-----------------------------------------------------------------------------
(* rollback                                                                *)

NothingOnStandby ==
    /\ agent.at = "rollback" /\ ~standby.file
    /\ Ends("failed", "rollback") /\ Fine
    /\ UNCHANGED <<code, db, mode, kept, worker, slipped>>

\* Maintenance on, when the API runs; then the API and the worker are stopped, with the job that runs.
Stops ==
    /\ agent.at = "rollback" /\ standby.file
    /\ maintenance' = IF running # None THEN "update" ELSE maintenance
    /\ Stopped
    /\ Goes("back") /\ Fine
    /\ UNCHANGED <<checkout, image, db, kept, slipped>>

\* The checkout goes back; an unreadable record names no version.
ChecksBack ==
    /\ agent.at = "back"
    /\ \/ standby.ref # None /\ checkout' = standby.ref /\ Fine
       \/ standby.ref = None /\ UNCHANGED checkout /\ Fine
       \/ UNCHANGED checkout /\ Unnoticed
    /\ Goes("tag")
    /\ UNCHANGED <<image, running, db, mode, kept, worker, slipped>>

\* TagsBack variant for EndsWhole: the image that runs stays.
TagsNot ==
    /\ agent.at = "tag"
    /\ Goes("restore") /\ Fine
    /\ UNCHANGED <<code, db, mode, kept, worker, slipped>>

TagsBack ==
    /\ agent.at = "tag"
    /\ \/ image' = [image EXCEPT !.local = image.previous] /\ Fine
       \/ UNCHANGED image /\ Unnoticed
    /\ Goes("restore")
    /\ UNCHANGED <<checkout, running, db, mode, kept, worker, slipped>>

\* The backup replaces what the database has in one transaction, which fails on a table of a newer
\* layout that refers to one the backup replaces.
Replaceable == ~\E l \in Referring : standby.rev < l /\ l <= db.layout

\* Restore variant for BootStarts: the old version starts on whatever layout there is.
RestoresNot ==
    /\ agent.at = "restore"
    /\ Goes("start") /\ Fine
    /\ UNCHANGED <<code, db, mode, kept, worker, slipped>>

\* The layout is read by the version that went back; one that cannot be read counts as changed.
Restore ==
    /\ agent.at = "restore"
    /\ \/ /\ standby.rev \in {None, db.layout}
          /\ Goes("start") /\ Fine
          /\ UNCHANGED <<db, mode>>
       \/ /\ standby.rev # None
          /\ IF standby.rev = db.layout THEN Unnoticed ELSE Fine
          /\ LET backup == dump[standby.dump]
             IN  IF backup.exists /\ Replaceable
                 THEN /\ db' = [layout |-> backup.layout, data |-> backup.data]
                      /\ maintenance' = backup.maintenance
                      /\ Goes("start")
                 ELSE Ends("failed", "restore") /\ UNCHANGED <<db, maintenance>>
          /\ UNCHANGED stale
    /\ UNCHANGED <<code, kept, worker, slipped>>

StartsAgain ==
    /\ agent.at = "start"
    /\ \/ StartsOn(image.local) /\ Fine
       \/ UNCHANGED <<running, db, stale, worker>> /\ Unnoticed
    /\ Goes("healthy")
    /\ UNCHANGED <<checkout, image, maintenance, kept, slipped>>

Final == IF agent.asked = "rollback" THEN "succeeded" ELSE "rolled_back"

Healthy ==
    /\ agent.at = "healthy"
    /\ \/ running # None /\ TurnsOff /\ standby' = NoStandby /\ Ends(Final, "done") /\ Fine
       \/ running # None /\ UNCHANGED mode /\ standby' = NoStandby /\ Ends(Final, "done") /\ Unnoticed
       \/ UNCHANGED <<mode, standby>> /\ Ends("failed", "rollback") /\ Fine
    /\ UNCHANGED <<code, db, dump, worker, slipped>>

Rollback == NothingOnStandby \/ Stops \/ ChecksBack \/ TagsBack \/ Restore \/ StartsAgain \/ Healthy

-----------------------------------------------------------------------------
(* Everybody else.                                                         *)

\* Under an update's maintenance, once it has waited for the jobs that ran.
Drained == agent.asked = "update" /\ agent.at \notin {"check", "maintenance", "drain"}

Writes ==
    /\ used.writes < MaxWrites /\ used' = [used EXCEPT !.writes = @ + 1]
    /\ db' = [db EXCEPT !.data = @ \cup {used.writes + 1}]

\* A person changes something: the API refuses it when its copy of maintenance says on.
PersonWrites ==
    /\ running # None /\ (maintenance = Off \/ stale)
    /\ Writes
    /\ slipped' = IF Drained THEN slipped \cup {used.writes + 1} ELSE slipped
    /\ UNCHANGED <<code, mode, kept, agent, status, worker, unnoticed>>

CopyExpires ==
    /\ stale /\ stale' = FALSE
    /\ UNCHANGED <<code, db, maintenance, kept, agent, status, worker, slipped, unnoticed, used>>

\* An admin turns maintenance on or off; the API's copy is current at once.
AdminTurns ==
    /\ running # None
    /\ maintenance' = IF maintenance = Off THEN "admin" ELSE Off
    /\ stale' = FALSE
    /\ UNCHANGED <<code, db, kept, agent, status, worker, slipped, unnoticed, used>>

\* The worker reads maintenance in one session and claims a job in another.
WorkerReads ==
    /\ worker = "idle" /\ running # None /\ maintenance = Off
    /\ worker' = "claims"
    /\ UNCHANGED <<code, db, mode, kept, agent, status, slipped, unnoticed, used>>

\* A job claimed after the drain has not been waited for.
WorkerClaims ==
    /\ worker = "claims"
    /\ worker' = IF Drained THEN "late job" ELSE "job"
    /\ UNCHANGED <<code, db, mode, kept, agent, status, slipped, unnoticed, used>>

JobWrites ==
    /\ worker \in {"job", "late job"}
    /\ Writes
    /\ worker' = "idle"
    /\ slipped' = IF worker = "late job" THEN slipped \cup {used.writes + 1} ELSE slipped
    /\ UNCHANGED <<code, mode, kept, agent, status, unnoticed>>

\* The nightly backup's purge, when the backups are older than the retention.
Purge ==
    /\ running # None /\ maintenance = Off /\ agent.at = "idle"
    /\ \E u \in DOMAIN dump : dump[u].exists /\ dump' = [w \in DOMAIN dump |-> IF w <= u THEN NoDump ELSE dump[w]]
    /\ UNCHANGED <<code, db, mode, standby, agent, status, worker, slipped, unnoticed, used>>

\* The agent is gone for good, its status stays at "running"; the boot starts the local image.
PowerLoss ==
    /\ Fault
    /\ agent' = Waiting
    /\ StartsOn(image.local)
    /\ UNCHANGED <<checkout, image, maintenance, kept, status, slipped, unnoticed>>

Others == PersonWrites \/ CopyExpires \/ AdminTurns \/ WorkerReads \/ WorkerClaims \/ JobWrites \/ Purge

Next == StartUpdate \/ StartRollback \/ Update \/ Rollback \/ Others \/ PowerLoss

Spec == Init /\ [][Next]_vars

-----------------------------------------------------------------------------
Modes    == {Off, "update", "admin"}
Databases == [layout : Nat, data : SUBSET (1..MaxWrites)]
Images   == [local : Versions, previous : Versions \cup {None}]
Dumps    == [exists : BOOLEAN, layout : Nat, data : SUBSET (1..MaxWrites), maintenance : Modes]
Records  == [ref : Versions \cup {None}, rev : Nat, dump : 0..MaxUpdates, file : BOOLEAN]
Steps    == {"idle", "check", "maintenance", "drain", "backup", "layout", "keep", "record", "checkout",
             "build", "up", "health", "rollback", "back", "tag", "restore", "start", "healthy"}
Agents   == [at : Steps, to : Versions \cup {None}, asked : {"none", "update", "rollback"},
             dump : 0..MaxUpdates, rev : Nat]
Statuses == [state : {"idle", "running", "succeeded", "rolled_back", "failed"},
             step : {"none", "update", "rollback", "checking", "maintenance", "backup", "restore", "done"}]
Bounds   == [updates : 0..MaxUpdates, writes : 0..MaxWrites, faults : 0..MaxFaults]

\* Every variable has its type; an agent at work says so in its status.
TypeOK ==
    /\ checkout \in Versions /\ image \in Images /\ running \in Versions \cup {None}
    /\ db \in Databases /\ maintenance \in Modes /\ stale \in BOOLEAN
    /\ dump \in [1..MaxUpdates -> Dumps] /\ standby \in Records
    /\ agent \in Agents /\ status \in Statuses /\ (agent.at # "idle" => Busy)
    /\ worker \in {"idle", "claims", "job", "late job"}
    /\ slipped \subseteq 1..MaxWrites /\ unnoticed \in BOOLEAN /\ used \in Bounds

\* An update or a rollback that reports success left one version everywhere (the one asked for, or
\* the one on standby), a database it can read, and maintenance off.  Commands whose failure the
\* agent does not notice are left out.
Reported == status'.state \in {"succeeded", "rolled_back"} /\ agent.at # "idle" /\ agent'.at = "idle"
EndsWhole ==
    [][ Reported /\ ~unnoticed' =>
          /\ running' = IF status'.state = "succeeded" /\ agent.asked = "update" THEN agent.to ELSE standby.ref
          /\ image'.local = running' /\ checkout' = running'
          /\ db'.layout = LayoutOf[running']
          /\ maintenance' = Off ]_vars

\* The image a boot starts can read the database, wherever the power goes; only between an old
\* image's tag and the restore of its database, and after a restore that failed, it cannot.
BootStarts ==
    LayoutOf[image.local] < db.layout =>
        \/ unnoticed
        \/ agent.at = "restore" \/ status.step = "restore"
        \/ agent.at = "idle" /\ Busy

\* An update that goes back by itself loses nothing that was written before its drain was over:
\* only what slipped in after it (a late job, the API's old copy, an admin who ended maintenance).
LosesNothing == [][ agent.asked = "update" /\ ~unnoticed' => (db.data \ db'.data) \subseteq slipped ]_vars

\* labape-update.sh: "rollback: back to the version on standby (one step only), restoring the
\* pre-update backup when the database layout changed".
RestoreWorks == ~(status.state = "failed" /\ status.step = "restore")

-----------------------------------------------------------------------------
(* Why it holds: the conjuncts of the inductive invariant.                 *)

Quiet   == {"idle", "check", "maintenance", "drain", "backup", "layout", "keep", "record", "checkout"}
Forward == {"check", "maintenance", "drain", "backup", "layout", "keep", "record", "checkout", "build", "up", "health"}
Backward == {"back", "tag", "restore", "start", "healthy"}

\* Whatever fails: what the agent knows at its steps, that nothing runs while it goes back, and that
\* what runs has brought the database to its own layout.
AgentFits ==
    /\ agent.at = "idle" => agent.asked = "none"
    /\ agent.at \in Forward => agent.asked = "update" /\ agent.to \in Versions /\ used.updates # 0
    /\ agent.at \in {"layout", "keep", "record"} => agent.dump = used.updates
    /\ agent.at \in Backward => standby.file
    /\ agent.at \in Backward \ {"healthy"} => running = None
    /\ standby.file \/ agent.at = "record" => image.previous # None
    /\ standby.ref # None \/ standby.rev # None => standby.file /\ standby.dump # 0
    /\ running # None => LayoutOf[running] = db.layout
    /\ Drained => worker # "job"

\* As long as nothing failed unnoticed and no power loss cut the agent off.
Sound == ~unnoticed /\ ~(agent.at = "idle" /\ Busy)

\* What is on standby is the version before, with the layout it was recorded with and the backup of it.
StandsBy ==
    Sound /\ standby.file =>
        /\ standby.ref \in Versions /\ standby.rev = LayoutOf[standby.ref] /\ standby.rev <= db.layout
        /\ standby.dump \in 1..used.updates
        /\ agent.at \in {"check", "maintenance", "drain", "backup"} => standby.dump # used.updates
        /\ dump[standby.dump].exists => dump[standby.dump].layout = standby.rev
        /\ agent.at # "record" => image.previous = standby.ref

\* What runs, is tagged and is checked out, on the way to a version.
OnTheWay ==
    Sound =>
        /\ status.step = "restore" => agent.at = "idle" /\ running = None /\ LayoutOf[image.local] < db.layout
        /\ agent.at \in Quiet /\ status.step # "restore" => running = image.local /\ checkout = image.local
        /\ agent.at \in Forward \ {"health"} => running # None /\ agent.to > running
        /\ agent.at \in {"layout", "keep", "record"} =>
               /\ dump[agent.dump].layout = db.layout
               /\ agent.at # "layout" => agent.rev = db.layout
        /\ agent.at = "record" => image.previous = image.local
        /\ agent.at \in {"checkout", "build", "up"} => standby.ref = running
        /\ agent.at \in {"checkout", "build", "up", "health", "rollback"} => standby.file
        /\ agent.at = "build" => image.local = running /\ checkout = agent.to
        /\ agent.at \in {"up", "health"} => image.local = agent.to /\ checkout = agent.to
        /\ agent.at = "health" => running = agent.to

\* And on the way back.
OnTheWayBack ==
    Sound =>
        /\ agent.at \in {"rollback", "back", "tag"} => LayoutOf[image.local] >= db.layout
        /\ agent.at \in Backward \ {"back"} => checkout = standby.ref
        /\ agent.at \in {"restore", "start", "healthy"} => image.local = standby.ref
        /\ agent.at \in {"start", "healthy"} => standby.rev = db.layout
        /\ agent.at = "healthy" => running = standby.ref

\* The update's backup has everything that did not slip in after the drain.
BackupHasAll ==
    Sound /\ agent.asked = "update" =>
        /\ agent.at \in {"layout", "keep", "record"} => db.data \ dump[agent.dump].data \subseteq slipped
        /\ agent.at \notin Quiet \/ agent.at = "checkout" => db.data \ dump[standby.dump].data \subseteq slipped

IInv == TypeOK /\ AgentFits /\ StandsBy /\ OnTheWay /\ OnTheWayBack /\ BackupHasAll
=============================================================================
