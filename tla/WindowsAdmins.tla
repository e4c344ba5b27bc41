--------------------------- MODULE WindowsAdmins ---------------------------
(***************************************************************************)
(* The Windows administrators of one environment.  Every member server has *)
(* a pair of local admins, Administrator ("admin") and labape-admin2       *)
(* ("admin2"), each with a password of its own; the domain has the same    *)
(* pair once.  The jobs of an environment run one at a time, and each of   *)
(* their steps can be the last one before the worker dies: a deploy gives  *)
(* each member its own password, a rotation gives an account a new one,    *)
(* and a check repairs an account that refuses what is stored.             *)
(*                                                                         *)
(* A password is a number, 0 is "none" and Bootstrap the one of the        *)
(* template; passwords of different accounts are never compared.  A fault  *)
(* is a worker that dies or is taken for dead, a machine that does not     *)
(* answer, or a change that is made and then reported as failed.           *)
(***************************************************************************)
EXTENDS Naturals, FiniteSets

CONSTANTS
    Members,        \* the Windows servers that are not domain controllers
    Domain,         \* the domain, at its first controller
    MaxFaults,      \* bound: faults
    MaxRotations    \* bound: rotations

ASSUME AdminsAssumption == Domain \notin Members /\ IsFiniteSet(Members) /\ MaxFaults \in Nat /\ MaxRotations \in Nat

Places == Members \cup {Domain}
Accounts == {"admin", "admin2"}
Bootstrap == 1
Values == 0..6

VARIABLES
    on,         \* the passwords the machines accept
    stored,     \* environment/<id>/... : the passwords LABaPe holds
    tried,      \* rotation-candidate/... : the value a rotation tries
    pending,    \* vm/<vm>/windows_admin.pending: the value a deploy is giving
    inventory,  \* the stored inventory's ansible_password, Administrator's
    marks,      \* labape-applied/: the members that took the pending value
    deployed,   \* whether the environment's status is deployed
    job,        \* the running job, its account and targets, its step
    faults,
    rotations

vars == <<on, stored, tried, pending, inventory, marks, deployed, job, faults, rotations>>

Idle == [at |-> "idle", task |-> "none", account |-> "admin", targets |-> {},
         new |-> [p \in Places |-> 0], todo |-> {}, got |-> {}, cur |-> Domain]

Init ==
    /\ on = [p \in Places |-> [a \in Accounts |-> IF a = "admin" THEN Bootstrap ELSE 0]]
    /\ stored = [p \in Places |-> [a \in Accounts |-> 0]]
    /\ tried = [p \in Places |-> [a \in Accounts |-> 0]]
    /\ pending = [m \in Members |-> 0]
    /\ inventory = [p \in Places |-> 0]
    /\ marks = {}
    /\ deployed = FALSE
    /\ job = Idle
    /\ faults = 0
    /\ rotations = 0

-----------------------------------------------------------------------------
(* What is held of an account.                                             *)

Held(p, a) == {on[p][a], stored[p][a], tried[p][a]} \cup
              (IF a = "admin" THEN {inventory[p], Bootstrap} \cup (IF p \in Members THEN {pending[p]} ELSE {})
               ELSE {})
Fresh(p, a) == CHOOSE v \in Values \ (Held(p, a) \cup {0}) : \A w \in Values \ (Held(p, a) \cup {0}) : v <= w

\* stored_password: the account's own, or Administrator's in the inventory.
StoredPassword(p, a) ==
    IF stored[p][a] # 0 THEN stored[p][a] ELSE IF a = "admin" THEN inventory[p] ELSE 0

\* What Ansible signs in with: the inventory's for Administrator.
InUse(p, a) == IF a = "admin" THEN inventory[p] ELSE stored[p][a]

Other(a) == CHOOSE b \in Accounts : b # a
Goes(step) == job' = [job EXCEPT !.at = step]
Ends == job' = Idle

\* A step that goes as it should is free; any other outcome counts as a fault.
Fault(wrong) == /\ wrong => faults < MaxFaults
                /\ faults' = IF wrong THEN faults + 1 ELSE faults

-----------------------------------------------------------------------------
(* A deploy: each member gets a password of its own.                       *)

\* Values are made where they are missing; the markers of an earlier deploy go.
DeployPrepares ==
    /\ job.at = "idle"
    /\ deployed' = FALSE
    /\ pending' = [m \in Members |-> IF stored[m]["admin"] = 0 /\ pending[m] = 0
                                     THEN Fresh(m, "admin") ELSE pending[m]]
    /\ stored' = [p \in Places |-> [stored[p] EXCEPT !["admin2"] = IF @ = 0 THEN Fresh(p, "admin2") ELSE @]]
    /\ marks' = {}
    /\ job' = [Idle EXCEPT !.at = "ansible", !.task = "deploy"]
    /\ UNCHANGED <<on, tried, inventory, faults, rotations>>

SignsInWith(p) == IF stored[p]["admin"] # 0 THEN stored[p]["admin"] ELSE Bootstrap
Given(p) == IF p \in Members /\ stored[p]["admin"] = 0 THEN pending[p] ELSE SignsInWith(p)

\* DeployRuns variant for TypeOK: every machine that was signed in to is marked.
MarksController ==
    /\ job.at = "ansible"
    /\ LET able == {p \in Places : on[p]["admin"] \in {SignsInWith(p), Given(p)}}
       IN  /\ on' = [p \in Places |-> IF p \in able
                        THEN [a \in Accounts |-> IF a = "admin" THEN Given(p) ELSE stored[p]["admin2"]]
                        ELSE on[p]]
           /\ marks' = able
           /\ job' = [job EXCEPT !.at = "promote", !.todo = able, !.got = able]
    /\ UNCHANGED <<stored, tried, pending, inventory, deployed, faults, rotations>>

\* DeployRuns variant for OnlyWhatItHas: a machine is marked although it kept its password.
MarksAll ==
    /\ job.at = "ansible"
    /\ LET able == {p \in Places : on[p]["admin"] \in {SignsInWith(p), Given(p)}}
       IN  \E done \in SUBSET able :
            /\ on' = [p \in Places |-> IF p \in done
                        THEN [a \in Accounts |-> IF a = "admin" THEN Given(p) ELSE stored[p]["admin2"]]
                        ELSE on[p]]
            /\ marks' = {m \in Members : SignsInWith(m) # Given(m)}
            /\ Fault(done # able)
            /\ job' = [job EXCEPT !.at = "promote", !.todo = marks', !.got = done]
    /\ UNCHANGED <<stored, tried, pending, inventory, deployed, rotations>>

\* A machine that already has the pending password refuses the old one and is signed in to
\* with the new one.  The machines in half changed it and stopped before they were marked.
DeployRuns ==
    /\ job.at = "ansible"
    /\ LET able == {p \in Places : on[p]["admin"] \in {SignsInWith(p), Given(p)}}
       IN  \E done \in SUBSET able : \E half \in SUBSET (able \ done) :
            /\ on' = [p \in Places |-> CASE p \in done ->
                            [a \in Accounts |-> IF a = "admin" THEN Given(p) ELSE stored[p]["admin2"]]
                        [] p \in half -> [on[p] EXCEPT !["admin"] = Given(p)]
                        [] OTHER -> on[p]]
            /\ marks' = {m \in Members \cap done : SignsInWith(m) # Given(m)}
            /\ Fault(done # able)
            /\ job' = [job EXCEPT !.at = "promote", !.todo = marks', !.got = done]
    /\ UNCHANGED <<stored, tried, pending, inventory, deployed, rotations>>

Succeeded == job.got = Places

\* A marked member's pending password is its own now.  The first commit of a deploy that
\* ended well writes the rows of the job and of its environment too.
Promote ==
    /\ job.at = "promote"
    /\ job.todo # {}
    /\ LET m == CHOOSE q \in job.todo : TRUE IN
        /\ stored' = [stored EXCEPT ![m]["admin"] = pending[m]]
        /\ pending' = [pending EXCEPT ![m] = 0]
        /\ job' = [job EXCEPT !.todo = @ \ {m}]
    /\ deployed' = Succeeded
    /\ UNCHANGED <<on, tried, inventory, marks, faults, rotations>>

\* The credentials sheet is stored, a commit of its own before the inventory's.
DeployCollects ==
    /\ job.at = "promote" /\ job.todo = {} /\ Succeeded
    /\ deployed' = TRUE
    /\ Goes("collect")
    /\ UNCHANGED <<on, stored, tried, pending, inventory, marks, faults, rotations>>

\* The inventory follows: all of it after a success, the members' after a failure that promoted some.
DeployEnds ==
    /\ \/ job.at = "collect"
       \/ job.at = "promote" /\ job.todo = {} /\ ~Succeeded
    /\ inventory' = [p \in Places |->
            IF Succeeded \/ (marks # {} /\ inventory[p] # 0 /\ stored[p]["admin"] # 0 /\ p \in Members)
            THEN SignsInWith(p) ELSE inventory[p]]
    /\ Ends
    /\ UNCHANGED <<on, stored, tried, pending, marks, deployed, faults, rotations>>

-----------------------------------------------------------------------------
(* A rotation.                                                             *)

Targets == {Members, {Domain}}

\* The machines are read from the stored inventory, which a deployed environment may not have yet.
Listed(targets) == deployed /\ \A p \in targets : inventory[p] # 0

\* StartRotation variant for OneFaultIsSurvived: the value is kept only once it is set.
StartsUnkept(a, targets) ==
    /\ job.at = "idle" /\ Listed(targets)
    /\ rotations < MaxRotations /\ rotations' = rotations + 1
    /\ job' = [Idle EXCEPT !.at = "set", !.task = "rotate", !.account = a, !.targets = targets,
                           !.new = [p \in Places |-> IF p \in targets THEN Fresh(p, a) ELSE 0]]
    /\ UNCHANGED <<on, stored, tried, pending, inventory, marks, deployed, faults>>

\* The new values are kept before anything changes.
StartRotation(a, targets) ==
    /\ job.at = "idle" /\ Listed(targets)
    /\ rotations < MaxRotations /\ rotations' = rotations + 1
    /\ job' = [Idle EXCEPT !.at = "set", !.task = "rotate", !.account = a, !.targets = targets,
                           !.new = [p \in Places |-> IF p \in targets THEN Fresh(p, a) ELSE 0]]
    /\ tried' = [p \in Places |-> IF p \in targets THEN [tried[p] EXCEPT ![a] = job'.new[p]] ELSE tried[p]]
    /\ UNCHANGED <<on, stored, pending, inventory, marks, deployed, faults>>

\* Signed in as Administrator.  Its own change says nothing of itself: signing in with the new
\* value, then with the old one, decides; where neither is seen to work it stays unknown.
SetPassword ==
    /\ job.at = "set"
    /\ LET a == job.account
           able == {p \in job.targets : on[p]["admin"] = inventory[p]}
       IN  \E took \in SUBSET able : \E seen \in SUBSET job.targets :
            LET changed == took \cap seen
                old == {p \in seen \ took : on[p][a] = StoredPassword(p, a)}
                all == changed = job.targets
            IN  /\ on' = [p \in Places |-> IF p \in took THEN [on[p] EXCEPT ![a] = job.new[p]] ELSE on[p]]
                /\ tried' = [p \in Places |->
                        IF a = "admin" /\ p \in old /\ p = Domain THEN [tried[p] EXCEPT ![a] = 0] ELSE tried[p]]
                /\ Fault(took # able \/ seen # job.targets)
                /\ IF a = "admin2" \/ Domain \in job.targets
                   THEN job' = IF ~all THEN Idle
                               ELSE [job EXCEPT !.at = IF a = "admin" THEN "inventory" ELSE "store",
                                                !.todo = changed, !.got = changed]
                   ELSE job' = [job EXCEPT !.at = "store", !.todo = changed, !.got = changed \cup old]
    /\ UNCHANGED <<stored, pending, inventory, marks, deployed, rotations>>

\* The value is stored for one target, then no longer kept as tried.
Store ==
    /\ job.at = "store"
    /\ job.todo # {}
    /\ LET p == CHOOSE q \in job.todo : TRUE IN
        /\ stored' = [stored EXCEPT ![p][job.account] = job.new[p]]
        /\ job' = [job EXCEPT !.at = "clear", !.cur = p, !.todo = @ \ {p}]
    /\ UNCHANGED <<on, tried, pending, inventory, marks, deployed, faults, rotations>>

ClearTried ==
    /\ job.at = "clear"
    /\ tried' = [tried EXCEPT ![job.cur][job.account] = 0]
    /\ Goes("store")
    /\ UNCHANGED <<on, stored, pending, inventory, marks, deployed, faults, rotations>>

\* Where a rotation or an adopted value goes once every target's value is stored.
Stored ==
    /\ job.at = "store" /\ job.todo = {}
    /\ IF job.account = "admin" /\ ~(job.task = "rotate" /\ Domain \in job.targets)
       THEN /\ tried' = [p \in Places |-> IF p \in job.got /\ on[p]["admin"] # job.new[p]
                                          THEN [tried[p] EXCEPT !["admin"] = 0] ELSE tried[p]]
            /\ Goes("inventory")
       ELSE /\ IF job.task = "check" /\ job.got # job.targets THEN Goes("pair") ELSE Ends
            /\ UNCHANGED tried
    /\ UNCHANGED <<on, stored, pending, inventory, marks, deployed, faults, rotations>>

WriteInventory ==
    /\ job.at = "inventory"
    /\ inventory' = [p \in Places |-> IF p \in job.got /\ on[p]["admin"] = job.new[p]
                                      THEN job.new[p] ELSE inventory[p]]
    /\ CASE job.task = "rotate" /\ Domain \in job.targets -> Goes("store")
         [] job.task = "check" /\ job.got # job.targets -> Goes("pair")
         [] OTHER -> Ends
    /\ UNCHANGED <<on, stored, tried, pending, marks, deployed, faults, rotations>>

-----------------------------------------------------------------------------
(* A check, and the recovery of an account that refuses what is held.       *)

\* The machines that answer and refuse; a value that a rotation tried and that signs in is adopted.
StartCheck(a, targets) ==
    /\ job.at = "idle" /\ Listed(targets)
    /\ \E up \in SUBSET targets :
        LET refused == {p \in up : on[p][a] # InUse(p, a)}
            adopted == {p \in up : tried[p][a] # 0 /\ on[p][a] = tried[p][a]}
        IN  /\ Fault(up # targets)
            /\ refused # {}
            /\ job' = [Idle EXCEPT !.at = IF adopted = {} THEN "pair" ELSE "store", !.task = "check",
                            !.account = a, !.targets = targets, !.todo = adopted, !.got = adopted,
                            !.new = [p \in Places |-> IF p \in adopted THEN tried[p][a] ELSE 0]]
    /\ UNCHANGED <<on, stored, tried, pending, inventory, marks, deployed, rotations>>

\* SetAgain variant for PairRecovers: nobody is signed in to.
SetAgainNowhere(by, a) == {}

\* The machines where account by signs in with what is held for it, and a's held password is set again.
SetAgain(by, a) == {p \in job.targets : on[p][by] = StoredPassword(p, by)}

PairResets ==
    /\ job.at = "pair"
    /\ LET a == job.account
           able == IF \A p \in job.targets : StoredPassword(p, a) # 0 THEN SetAgain(Other(a), a) ELSE {}
       IN  \E done \in SUBSET able :
            /\ on' = [p \in Places |-> IF p \in done THEN [on[p] EXCEPT ![a] = StoredPassword(p, a)] ELSE on[p]]
            /\ Fault(done # able)
            /\ IF done # job.targets /\ a = "admin" /\ job.targets = Members THEN Goes("domain") ELSE Ends
    /\ UNCHANGED <<stored, tried, pending, inventory, marks, deployed, rotations>>

\* A member's Administrator can also be set by the domain's.
DomainResets ==
    /\ job.at = "domain"
    /\ LET able == IF on[Domain]["admin"] = inventory[Domain] THEN Members ELSE {}
       IN  \E done \in SUBSET able :
            /\ on' = [p \in Places |-> IF p \in done THEN [on[p] EXCEPT !["admin"] = StoredPassword(p, "admin")]
                                       ELSE on[p]]
            /\ Fault(done # able)
    /\ Ends
    /\ UNCHANGED <<stored, tried, pending, inventory, marks, deployed, rotations>>

\* The worker dies: recovery fails the job it ran and, whatever the job was, the environment,
\* which a redeploy has to make deployed again.  A deploy past its first commit is over already.
WorkerDies ==
    /\ job.at # "idle"
    /\ Fault(TRUE)
    /\ deployed' = (deployed /\ job.task = "deploy")
    /\ Ends
    /\ UNCHANGED <<on, stored, tried, pending, inventory, marks, rotations>>

\* A rotation or a check beats for no heartbeat: one that takes long is failed with its
\* environment while it goes on.
TakenForDead ==
    /\ job.task \in {"rotate", "check"}
    /\ Fault(TRUE)
    /\ deployed' = FALSE
    /\ UNCHANGED <<on, stored, tried, pending, inventory, marks, job, rotations>>

JobStep == \/ DeployRuns \/ Promote \/ DeployCollects \/ DeployEnds \/ SetPassword \/ Store \/ ClearTried \/ Stored
           \/ WriteInventory \/ PairResets \/ DomainResets

Next ==
    \/ DeployPrepares \/ JobStep \/ WorkerDies \/ TakenForDead
    \/ \E a \in Accounts, targets \in Targets : StartRotation(a, targets) \/ StartCheck(a, targets)

Spec == Init /\ [][Next]_vars

\* A running job goes on; every account's check is queued again and again and gets its turn.
FairSpec ==
    /\ Spec
    /\ WF_vars(JobStep)
    /\ \A a \in Accounts, targets \in Targets : SF_vars(StartCheck(a, targets))

-----------------------------------------------------------------------------
Jobs ==
    [at : {"idle", "ansible", "promote", "collect", "set", "store", "clear", "inventory", "pair", "domain"},
     task : {"none", "deploy", "rotate", "check"}, account : Accounts,
     targets : SUBSET Places, new : [Places -> Values], todo : SUBSET Places,
     got : SUBSET Places, cur : Places]

\* Every variable has its type: a value, a set of machines or a step of a job.
TypeOK ==
    /\ on \in [Places -> [Accounts -> Values]]
    /\ stored \in [Places -> [Accounts -> Values]]
    /\ tried \in [Places -> [Accounts -> Values]]
    /\ pending \in [Members -> Values]
    /\ inventory \in [Places -> Values]
    /\ marks \subseteq Members
    /\ deployed \in BOOLEAN
    /\ job \in Jobs
    /\ faults \in 0..MaxFaults
    /\ rotations \in 0..MaxRotations

\* Some password that LABaPe holds for the account, or tried last, signs in.
SignsIn(p, a) == on[p][a] \in {StoredPassword(p, a), tried[p][a]} \ {0}

\* One fault, wherever it comes in a deploy, a rotation or a recovery, never leaves a machine
\* that was once deployed without an administrator LABaPe can sign in as (the reason of the
\* recovery pairs), also when the environment is failed by then.
OneFaultIsSurvived ==
    faults <= 1 => \A p \in Places : inventory[p] # 0 => \E a \in Accounts : SignsIn(p, a)

\* Nothing is stored as Administrator's password that the machine does not have: after a deploy
\* that left markers, a rotation whose outcome is per machine, and a recovery that adopts a value.
OnlyWhatItHas ==
    [][\A p \in Places : stored'[p]["admin"] # stored[p]["admin"] => stored'[p]["admin"] = on[p]["admin"]]_vars

\* What Ansible or a reset signs in with works.
Works(p, a) == on[p][a] \in {StoredPassword(p, a), InUse(p, a)} \ {0}

\* An account of a pair is set right again and again as long as the environment is deployed and
\* listed and the other account stays good: the checks find what is refused, and the recovery they
\* start repairs it whatever step failed before.  (A worker's death fails the environment, and no
\* check looks at it until a redeploy ended well.)
PairRecovers ==
    \A p \in Places, a \in Accounts :
        <>[](deployed /\ inventory[p] # 0 /\ on[p][Other(a)] = StoredPassword(p, Other(a))) => []<>Works(p, a)

-----------------------------------------------------------------------------
(* Why it holds: the conjuncts of the inductive invariant.                 *)

\* What LABaPe holds for the account signs in; Ansible signs in as Administrator.
Good(p, a) == on[p][a] = StoredPassword(p, a) /\ on[p][a] # 0
Able(p) == on[p]["admin"] = inventory[p]

\* What a deploy gives a member is not promoted yet, and is new; a listed member has its own.
Deploys ==
    /\ \A m \in Members : pending[m] # 0 => pending[m] # Bootstrap /\ stored[m]["admin"] = 0
    /\ \A m \in Members : inventory[m] # 0 => stored[m]["admin"] # 0
    /\ job.task = "deploy" <=> job.at \in {"ansible", "promote", "collect"}
    /\ job.at \notin {"idle", "ansible", "promote", "collect"} => job.task \in {"rotate", "check"}
    /\ job.at \notin {"idle", "ansible", "promote", "collect"} => \A p \in job.targets : inventory[p] # 0
    /\ job.task = "deploy" =>
           /\ \A m \in Members : stored[m]["admin"] = 0 => pending[m] # 0
           /\ \A p \in Places : stored[p]["admin2"] # 0
    /\ job.at \in {"promote", "collect"} =>
           /\ job.todo \subseteq marks
           /\ job.at = "collect" => job.todo = {} /\ Succeeded
           /\ \A m \in job.todo : pending[m] # 0 /\ on[m]["admin"] = pending[m]
           /\ Succeeded =>
                \A p \in Places : /\ on[p]["admin2"] = stored[p]["admin2"]
                                  /\ p \notin job.todo => on[p]["admin"] = SignsInWith(p)
                                  /\ p \in Members \ job.todo => stored[p]["admin"] # 0

\* What a rotation gives an account is new to it, and kept as tried.
Tried ==
    job.at = "set" =>
        /\ job.task = "rotate" /\ job.targets \in Targets
        /\ \A p \in job.targets :
              /\ job.new[p] # 0 /\ job.new[p] = tried[p][job.account]
              /\ job.account = "admin" => job.new[p] # inventory[p]

\* The targets that have the new value, or the adopted one: still tried, or stored already.
InTransit ==
    job.at \in {"store", "clear", "inventory"} =>
        /\ job.todo \subseteq job.got /\ job.got \subseteq job.targets
        /\ job.targets \in Targets
        /\ \A p \in job.todo : job.new[p] # 0 /\ on[p][job.account] = job.new[p] /\ tried[p][job.account] = job.new[p]
        /\ \A p \in job.got \ job.todo :
              on[p][job.account] = job.new[p] => job.new[p] # 0 /\ stored[p][job.account] = job.new[p]
        /\ job.at = "clear" => job.cur \notin job.todo
        /\ job.at = "inventory" => job.account = "admin"
        /\ job.account = "admin" /\ job.task = "rotate" /\ Domain \in job.targets =>
              /\ job.got = {Domain} /\ on[Domain]["admin"] = job.new[Domain]
              /\ job.at = "inventory" => job.todo = {Domain}
              /\ job.at # "inventory" => Able(Domain)
        /\ job.at = "inventory" /\ ~(job.task = "rotate" /\ Domain \in job.targets) => job.todo = {}
Changing(p, a) == /\ job.at \in {"store", "clear", "inventory"} /\ job.account = a
                  /\ p \in job.got /\ on[p][a] = job.new[p]

\* A recovery works on the targets of its check.
Recovery ==
    /\ job.at \in {"pair", "domain"} => job.task = "check" /\ job.targets \in Targets
    /\ job.at = "domain" => job.account = "admin" /\ job.targets = Members

\* A listed member that Ansible can sign in to has what is stored: the inventory follows the store.
AbleIsGood == \A m \in Members : (inventory[m] # 0 /\ Able(m)) => on[m]["admin"] = stored[m]["admin"]

\* Before the first fault both accounts of a listed machine are good.
BothGood ==
    faults = 0 =>
        \A p \in Places : inventory[p] # 0 =>
            /\ Good(p, "admin2") \/ Changing(p, "admin2")
            /\ (Good(p, "admin") /\ Able(p)) \/ Changing(p, "admin")

\* After it one of them is.
OneGood ==
    faults <= 1 =>
        \A p \in Places : inventory[p] # 0 =>
            \/ Good(p, "admin2")
            \/ Good(p, "admin") /\ Able(p)
            \/ \E a \in Accounts : Changing(p, a)

IInv == TypeOK /\ Deploys /\ Tried /\ InTransit /\ Recovery /\ AbleIsGood /\ BothGood /\ OneGood
=============================================================================
