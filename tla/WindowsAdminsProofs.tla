------------------------- MODULE WindowsAdminsProofs -------------------------
(***************************************************************************)
(* The administrators of an environment's Windows machines, for any set of *)
(* members and any number of rotations and faults: nothing is stored that  *)
(* a machine does not have, and one fault leaves a way in.                 *)
(***************************************************************************)
EXTENDS WindowsAdmins, TLAPS

USE AdminsAssumption

-----------------------------------------------------------------------------
(* A new password, and what the operators of the steps hold.               *)

LEMMA Smallest ==
    ASSUME NEW S \in SUBSET Values, S # {}
    PROVE  \E v \in S : \A w \in S : v <= w
<1>1. PICK x \in S : TRUE
  OBVIOUS
<1>2. \A w \in S : w \in 0..6
  BY DEF Values
<1>3. CASE 0 \in S
  BY <1>2, <1>3
<1>4. CASE 0 \notin S /\ 1 \in S
  BY <1>2, <1>4
<1>5. CASE 0 \notin S /\ 1 \notin S /\ 2 \in S
  BY <1>2, <1>5
<1>6. CASE 0 \notin S /\ 1 \notin S /\ 2 \notin S /\ 3 \in S
  BY <1>2, <1>6
<1>7. CASE 0 \notin S /\ 1 \notin S /\ 2 \notin S /\ 3 \notin S /\ 4 \in S
  BY <1>2, <1>7
<1>8. CASE 0 \notin S /\ 1 \notin S /\ 2 \notin S /\ 3 \notin S /\ 4 \notin S /\ 5 \in S
  BY <1>2, <1>8
<1>9. CASE 0 \notin S /\ 1 \notin S /\ 2 \notin S /\ 3 \notin S /\ 4 \notin S /\ 5 \notin S
  BY <1>1, <1>2, <1>9
<1>10. QED
  BY <1>3, <1>4, <1>5, <1>6, <1>7, <1>8, <1>9

LEMMA Fields ==
    ASSUME TypeOK
    PROVE  /\ Members \subseteq Places /\ Domain \in Places /\ Domain \notin Members
           /\ \A p \in Places : p \in Members \/ p = Domain
           /\ "admin" \in Accounts /\ "admin2" \in Accounts
           /\ \A p \in Places, a \in Accounts :
                 on[p][a] \in Values /\ stored[p][a] \in Values /\ tried[p][a] \in Values
           /\ \A p \in Places : inventory[p] \in Values /\ job.new[p] \in Values
           /\ \A m \in Members : pending[m] \in Values
           /\ 0 \in Values /\ Bootstrap \in Values /\ Bootstrap # 0
           /\ faults \in Nat /\ MaxFaults \in Nat /\ faults <= MaxFaults
           /\ job \in Jobs /\ job.account \in Accounts /\ job.todo \subseteq Places /\ job.got \subseteq Places
           /\ job.targets \subseteq Places
BY DEF TypeOK, Jobs, Places, Accounts, Values, Bootstrap

LEMMA FreshFits ==
    ASSUME TypeOK, NEW p \in Places, NEW a \in Accounts, p \in Members /\ a = "admin" => pending[p] = 0
    PROVE  Fresh(p, a) \in Values /\ Fresh(p, a) # 0 /\ Fresh(p, a) \notin Held(p, a)
<1> DEFINE S == Values \ (Held(p, a) \cup {0})
<1>1. PICK x1 \in Values, x2 \in Values, x3 \in Values, x4 \in Values :
        x1 = on[p][a] /\ x2 = stored[p][a] /\ x3 = tried[p][a] /\ x4 = inventory[p]
  BY Fields
<1>2. Held(p, a) \subseteq {x1, x2, x3, x4, 0, 1}
  BY <1>1 DEF Held, Bootstrap
<1>3. S # {}
  <2>1. ~({2, 3, 4, 5, 6} \subseteq {x1, x2, x3, x4})
    BY <1>1 DEF Values
  <2>2. PICK x \in {2, 3, 4, 5, 6} : x \notin {x1, x2, x3, x4}
    BY <2>1
  <2>3. x \in Values /\ x \notin {x1, x2, x3, x4, 0, 1}
    BY <2>2 DEF Values
  <2>4. QED
    BY <1>2, <2>3
<1>4. PICK T \in SUBSET Values : T = S
  OBVIOUS
<1>5. \E v \in T : \A w \in T : v <= w
  BY <1>3, <1>4, Smallest
<1>6. \E v \in S : \A w \in S : v <= w
  BY <1>4, <1>5
<1>7. Fresh(p, a) \in S
  BY <1>6 DEF Fresh
<1>8. QED
  BY <1>7

LEMMA IdleFits ==
    /\ Idle \in Jobs /\ Idle.at = "idle" /\ Idle.task = "none" /\ Idle.account = "admin"
    /\ Idle.targets = {} /\ Idle.todo = {} /\ Idle.got = {} /\ Idle.new \in [Places -> Values]
BY DEF Idle, Jobs, Places, Accounts, Values

LEMMA GoesFits ==
    ASSUME TypeOK, NEW step \in {"store", "clear", "inventory", "pair", "domain"}, Goes(step)
    PROVE  /\ job' \in Jobs /\ job'.at = step /\ job'.task = job.task /\ job'.account = job.account
           /\ job'.targets = job.targets /\ job'.new = job.new /\ job'.todo = job.todo /\ job'.got = job.got
           /\ job'.cur = job.cur
BY DEF TypeOK, Jobs, Goes

LEMMA OtherFits == Other("admin") = "admin2" /\ Other("admin2") = "admin"
<1>1. \A b \in Accounts : b # "admin" <=> b = "admin2"
  BY DEF Accounts
<1>2. \A b \in Accounts : b # "admin2" <=> b = "admin"
  BY DEF Accounts
<1>3. "admin" \in Accounts /\ "admin2" \in Accounts
  BY DEF Accounts
<1>4. QED
  BY <1>1, <1>2, <1>3 DEF Other

THEOREM InitIInv == Init => IInv
<1> SUFFICES ASSUME Init PROVE IInv
  OBVIOUS
<1>1. TypeOK
  <2>1. 0 \in Values /\ Bootstrap \in Values
    BY DEF Values, Bootstrap
  <2>2. on \in [Places -> [Accounts -> Values]] /\ stored \in [Places -> [Accounts -> Values]]
    BY <2>1 DEF Init
  <2>3. tried \in [Places -> [Accounts -> Values]] /\ pending \in [Members -> Values] /\ inventory \in [Places -> Values]
    BY <2>1 DEF Init
  <2>4. marks \subseteq Members /\ deployed \in BOOLEAN /\ job \in Jobs
    BY IdleFits DEF Init
  <2>5. faults \in 0..MaxFaults /\ rotations \in 0..MaxRotations
    BY DEF Init
  <2>6. QED
    BY <2>2, <2>3, <2>4, <2>5 DEF TypeOK
<1>2. Deploys /\ Tried /\ InTransit /\ Recovery
  <2>1. \A m \in Members : pending[m] = 0 /\ inventory[m] = 0
    BY DEF Init, Places
  <2>2. QED
    BY <2>1, IdleFits DEF Init, Deploys, Tried, InTransit, Recovery
<1>3. AbleIsGood /\ BothGood /\ OneGood
  <2>1. \A p \in Places : inventory[p] = 0
    BY DEF Init
  <2>2. \A m \in Members : m \in Places
    BY DEF Places
  <2>3. QED
    BY <2>1, <2>2 DEF AbleIsGood, BothGood, OneGood
<1>4. QED
  BY <1>1, <1>2, <1>3 DEF IInv

-----------------------------------------------------------------------------
(* A deploy.                                                               *)

(* A deploy changes no listed account but to what is stored for it. *)
LEMMA DeployKeeps ==
    ASSUME IInv, job.at \in {"idle", "ansible", "promote", "collect"},
           job'.at \in {"idle", "ansible", "promote", "collect"},
           faults' \in Nat, faults <= faults',
           \A p \in Places : inventory'[p] # 0 =>
               /\ inventory[p] # 0
               /\ Good(p, "admin2") => Good(p, "admin2")'
               /\ Good(p, "admin") /\ Able(p) => Good(p, "admin")' /\ Able(p)'
    PROVE  BothGood' /\ OneGood'
<1>1. \A p \in Places, a \in Accounts : ~Changing(p, a)
  BY DEF Changing
<1>2. faults \in Nat
  BY Fields DEF IInv
<1>3. BothGood'
  <2> SUFFICES ASSUME faults' = 0, NEW p \in Places, inventory'[p] # 0
               PROVE  Good(p, "admin2")' /\ Good(p, "admin")' /\ Able(p)'
    BY DEF BothGood
  <2>1. faults = 0 /\ inventory[p] # 0
    BY <1>2
  <2>2. Good(p, "admin2") /\ Good(p, "admin") /\ Able(p)
    BY <1>1, <2>1 DEF IInv, BothGood, Accounts
  <2>3. QED
    BY <2>2
<1>4. OneGood'
  <2> SUFFICES ASSUME faults' <= 1, NEW p \in Places, inventory'[p] # 0
               PROVE  Good(p, "admin2")' \/ (Good(p, "admin")' /\ Able(p)')
    BY DEF OneGood
  <2>1. faults <= 1 /\ inventory[p] # 0
    BY <1>2
  <2>2. Good(p, "admin2") \/ (Good(p, "admin") /\ Able(p))
    BY <1>1, <2>1 DEF IInv, OneGood
  <2>3. QED
    BY <2>2
<1>5. QED
  BY <1>3, <1>4

LEMMA DeployPreparesStep == ASSUME IInv, DeployPrepares PROVE IInv'
<1>1. TypeOK /\ IInv
  BY DEF IInv
<1>2. /\ job' \in Jobs /\ job'.at = "ansible" /\ job'.task = "deploy" /\ job'.todo = {} /\ job'.got = {}
      /\ deployed' = FALSE /\ marks' = {}
  BY IdleFits DEF DeployPrepares, Jobs
<1>3. on' = on /\ tried' = tried /\ inventory' = inventory /\ faults' = faults /\ rotations' = rotations
  BY DEF DeployPrepares
<1>4. /\ pending' \in [Members -> Values]
      /\ \A m \in Members : stored[m]["admin"] = 0 => pending'[m] \notin {0, Bootstrap}
      /\ \A m \in Members : stored[m]["admin"] # 0 => pending'[m] = pending[m]
  <2>1. pending' = [m \in Members |-> IF stored[m]["admin"] = 0 /\ pending[m] = 0 THEN Fresh(m, "admin") ELSE pending[m]]
    BY DEF DeployPrepares
  <2>2. ASSUME NEW m \in Members, pending[m] = 0 PROVE Fresh(m, "admin") \in Values /\ Fresh(m, "admin") \notin {0, Bootstrap}
    <3>1. m \in Places /\ "admin" \in Accounts
      BY <1>1, Fields
    <3>2. Bootstrap \in Held(m, "admin")
      BY DEF Held
    <3>3. QED
      BY <1>1, <2>2, <3>1, <3>2, FreshFits
  <2>3. \A m \in Members : pending[m] \in Values /\ (pending[m] # 0 => pending[m] # Bootstrap)
    BY <1>1, Fields DEF IInv, Deploys
  <2>4. QED
    BY <2>1, <2>2, <2>3
<1>5. /\ stored' \in [Places -> [Accounts -> Values]]
      /\ \A p \in Places : stored'[p]["admin"] = stored[p]["admin"] /\ stored'[p]["admin2"] # 0
      /\ \A p \in Places : stored[p]["admin2"] # 0 => stored'[p]["admin2"] = stored[p]["admin2"]
  <2>1. stored' = [p \in Places |-> [stored[p] EXCEPT !["admin2"] = IF stored[p]["admin2"] = 0 THEN Fresh(p, "admin2") ELSE stored[p]["admin2"]]]
    BY DEF DeployPrepares
  <2>2. \A p \in Places : Fresh(p, "admin2") \in Values /\ Fresh(p, "admin2") # 0
    BY <1>1, Fields, FreshFits
  <2>3. stored \in [Places -> [Accounts -> Values]] /\ "admin" \in Accounts /\ "admin2" \in Accounts
    BY <1>1, Fields DEF TypeOK
  <2>4. QED
    BY <2>1, <2>2, <2>3
<1>6. TypeOK'
  BY <1>1, <1>2, <1>3, <1>4, <1>5, Fields DEF IInv, TypeOK
<1>7. Deploys'
  BY <1>2, <1>3, <1>4, <1>5, Fields DEF IInv, Deploys
<1>8. Tried'
  BY <1>1, <1>2 DEF IInv, Tried
<1>9. InTransit'
  BY <1>2 DEF InTransit
<1>10. Recovery'
  BY <1>1, <1>2 DEF IInv, Recovery
<1>11. AbleIsGood'
  BY <1>1, <1>3, <1>5, Fields DEF IInv, AbleIsGood, Able
<1>12. BothGood' /\ OneGood'
  <2>1. ASSUME NEW p \in Places, Good(p, "admin2") PROVE Good(p, "admin2")'
    BY <1>3, <1>5, <2>1 DEF Good, StoredPassword
  <2>2. ASSUME NEW p \in Places, Good(p, "admin"), Able(p) PROVE Good(p, "admin")' /\ Able(p)'
    BY <1>3, <1>5, <2>2 DEF Good, Able, StoredPassword
  <2>3. job.at = "idle" /\ faults \in Nat
    BY <1>1, Fields DEF DeployPrepares
  <2>4. QED
    BY <1>2, <1>3, <2>1, <2>2, <2>3, DeployKeeps
<1>13. QED
  BY <1>6, <1>7, <1>8, <1>9, <1>10, <1>11, <1>12 DEF IInv

LEMMA DeployRunsStep == ASSUME IInv, DeployRuns PROVE IInv'
<1>1. TypeOK /\ IInv
  BY DEF IInv
<1>2. deployed' = deployed /\ job.task = "deploy" /\ job.at = "ansible"
  BY DEF DeployRuns, IInv, Deploys
<1>3. stored' = stored /\ tried' = tried /\ pending' = pending /\ inventory' = inventory /\ rotations' = rotations
  BY DEF DeployRuns
<1>4. PICK done \in SUBSET Places, half \in SUBSET Places :
        /\ on' = [p \in Places |-> CASE p \in done -> [a \in Accounts |-> IF a = "admin" THEN Given(p) ELSE stored[p]["admin2"]]
                                   [] p \in half -> [on[p] EXCEPT !["admin"] = Given(p)]
                                   [] OTHER -> on[p]]
        /\ marks' = {m \in Members \cap done : SignsInWith(m) # Given(m)}
        /\ \A p \in done \cup half : on[p]["admin"] \in {SignsInWith(p), Given(p)}
        /\ half \cap done = {} /\ faults' \in {faults, faults + 1} /\ faults' <= MaxFaults
        /\ job' = [job EXCEPT !.at = "promote", !.todo = marks', !.got = done]
  <2>1. faults \in Nat /\ MaxFaults \in Nat /\ faults <= MaxFaults
    BY <1>1, Fields
  <2>2. \A w \in BOOLEAN : Fault(w) => faults' \in {faults, faults + 1} /\ faults' <= MaxFaults
    BY <2>1 DEF Fault
  <2> DEFINE able == {p \in Places : on[p]["admin"] \in {SignsInWith(p), Given(p)}}
             Runs(done, half) ==
               /\ on' = [p \in Places |-> CASE p \in done -> [a \in Accounts |-> IF a = "admin" THEN Given(p) ELSE stored[p]["admin2"]]
                                          [] p \in half -> [on[p] EXCEPT !["admin"] = Given(p)]
                                          [] OTHER -> on[p]]
               /\ marks' = {m \in Members \cap done : SignsInWith(m) # Given(m)}
               /\ Fault(done # able)
               /\ job' = [job EXCEPT !.at = "promote", !.todo = marks', !.got = done]
  <2>3. \E done \in SUBSET able : \E half \in SUBSET (able \ done) : Runs(done, half)
    BY DEF DeployRuns
  <2>4. PICK done \in SUBSET able : \E half \in SUBSET (able \ done) : Runs(done, half)
    BY <2>3
  <2>5. PICK half \in SUBSET (able \ done) : Runs(done, half)
    BY <2>4
  <2>6. Fault(done # able)
    BY <2>5
  <2>7. (done # able) \in BOOLEAN
    OBVIOUS
  <2>8. faults' \in {faults, faults + 1} /\ faults' <= MaxFaults
    BY <2>2, <2>6, <2>7
  <2>9. /\ done \in SUBSET Places /\ half \in SUBSET Places /\ half \cap done = {}
        /\ \A p \in done \cup half : on[p]["admin"] \in {SignsInWith(p), Given(p)}
    BY <2>4, <2>5
  <2>10. QED
    BY <2>5, <2>8, <2>9
<1>5. \A p \in Places : Given(p) \in Values /\ SignsInWith(p) \in Values
  BY <1>1, Fields DEF Given, SignsInWith
<1>6. /\ on' \in [Places -> [Accounts -> Values]]
      /\ \A p \in done : on'[p]["admin"] = Given(p) /\ on'[p]["admin2"] = stored[p]["admin2"]
      /\ \A p \in half : on'[p]["admin"] = Given(p) /\ on'[p]["admin2"] = on[p]["admin2"]
      /\ \A p \in Places \ (done \cup half) : on'[p] = on[p]
  <2>1. ASSUME NEW p \in Places PROVE on'[p] \in [Accounts -> Values]
    <3>1. on[p] \in [Accounts -> Values] /\ stored[p]["admin2"] \in Values /\ Given(p) \in Values
      BY <1>1, <1>5, Fields DEF TypeOK
    <3>2. CASE p \in done
      BY <1>4, <3>1, <3>2
    <3>3. CASE p \in half
      BY <1>4, <3>1, <3>3
    <3>4. CASE p \notin done /\ p \notin half
      BY <1>4, <3>1, <3>4
    <3>5. QED
      BY <3>2, <3>3, <3>4
  <2>2. \A p \in done : on'[p] = [a \in Accounts |-> IF a = "admin" THEN Given(p) ELSE stored[p]["admin2"]]
    BY <1>4
  <2>3. "admin" \in Accounts /\ "admin2" \in Accounts
    BY DEF Accounts
  <2>4. \A p \in half : on'[p]["admin"] = Given(p) /\ on'[p]["admin2"] = on[p]["admin2"]
    <3>1. \A p \in half : p \notin done /\ on'[p] = [on[p] EXCEPT !["admin"] = Given(p)]
      BY <1>4
    <3>2. \A p \in half : on[p] \in [Accounts -> Values]
      BY <1>1 DEF TypeOK
    <3>3. QED
      BY <2>3, <3>1, <3>2
  <2>5. \A p \in Places \ (done \cup half) : on'[p] = on[p]
    BY <1>4
  <2>6. on' \in [Places -> [Accounts -> Values]]
    BY <1>4, <2>1
  <2>7. \A p \in done : on'[p]["admin"] = Given(p) /\ on'[p]["admin2"] = stored[p]["admin2"]
    BY <2>2, <2>3
  <2>8. QED
    BY <2>4, <2>5, <2>6, <2>7
<1>7. /\ job' \in Jobs /\ job'.at = "promote" /\ job'.task = "deploy" /\ job'.todo = marks' /\ job'.got = done
      /\ marks' \subseteq Members /\ marks' \subseteq done
  <2>1. marks' \subseteq Members /\ marks' \subseteq done
    BY <1>4
  <2>2. QED
    BY <1>1, <1>2, <1>4, <2>1, Fields DEF Jobs
<1>8. \A m \in Members : m \in marks' =>
          m \in done /\ stored[m]["admin"] = 0 /\ Given(m) = pending[m] /\ pending[m] # 0
  BY <1>2, <1>4 DEF IInv, Deploys, Given
<1>9. \A p \in done : p \notin marks' =>
          Given(p) = SignsInWith(p) /\ (p \in Members => stored[p]["admin"] # 0)
  <2>1. ASSUME NEW m \in Members, m \in done, m \notin marks' PROVE Given(m) = SignsInWith(m) /\ stored[m]["admin"] # 0
    <3>1. Given(m) = SignsInWith(m)
      BY <1>4, <2>1
    <3>2. stored[m]["admin"] = 0 => pending[m] # 0 /\ pending[m] # Bootstrap
      BY <1>2, <2>1 DEF IInv, Deploys
    <3>3. QED
      BY <3>1, <3>2 DEF Given, SignsInWith
  <2>2. Domain \notin Members => Given(Domain) = SignsInWith(Domain)
    BY DEF Given
  <2>3. QED
    BY <1>1, <1>4, <2>1, <2>2, Fields
<1>10. TypeOK'
  BY <1>1, <1>2, <1>3, <1>4, <1>6, <1>7 DEF TypeOK
<1>11. Deploys'
  <2>1. \A p \in Places : SignsInWith(p)' = SignsInWith(p)
    BY <1>3 DEF SignsInWith
  <2>2. job'.at = "promote" => job'.todo \subseteq marks' /\ \A m \in job'.todo : pending'[m] # 0 /\ on'[m]["admin"] = pending'[m]
    BY <1>3, <1>6, <1>7, <1>8
  <2>3. job'.got = Places =>
          \A p \in Places : /\ on'[p]["admin2"] = stored'[p]["admin2"]
                            /\ p \notin job'.todo => on'[p]["admin"] = SignsInWith(p)'
                            /\ p \in Members \ job'.todo => stored'[p]["admin"] # 0
    BY <1>3, <1>6, <1>7, <1>9, <2>1
  <2>4. QED
    BY <1>2, <1>3, <1>7, <2>2, <2>3 DEF IInv, Deploys, Succeeded
<1>12. Tried'
  BY <1>7 DEF Tried
<1>13. InTransit'
  BY <1>7 DEF InTransit
<1>14. Recovery'
  BY <1>7 DEF Recovery
<1>15. \A p \in Places : inventory[p] # 0 => on'[p]["admin"] = on[p]["admin"]
  <2>1. ASSUME NEW p \in Places, inventory[p] # 0 PROVE Given(p) = SignsInWith(p)
    <3>1. p \in Members => stored[p]["admin"] # 0
      BY <2>1 DEF IInv, Deploys
    <3>2. QED
      BY <3>1 DEF Given
  <2>2. \A p \in done \cup half : on'[p]["admin"] = Given(p) /\ on[p]["admin"] \in {SignsInWith(p), Given(p)}
    BY <1>4, <1>6
  <2>3. QED
    BY <1>6, <2>1, <2>2
<1>16. AbleIsGood'
  BY <1>1, <1>3, <1>15, Fields DEF IInv, AbleIsGood, Able
<1>17. BothGood' /\ OneGood'
  <2>1. ASSUME NEW p \in Places, Good(p, "admin2") PROVE Good(p, "admin2")'
    <3>1. on'[p]["admin2"] \in {on[p]["admin2"], stored[p]["admin2"]}
      BY <1>6
    <3>2. stored[p]["admin2"] # 0
      BY <1>2 DEF IInv, Deploys
    <3>3. QED
      BY <1>3, <2>1, <3>1, <3>2 DEF Good, StoredPassword
  <2>2. ASSUME NEW p \in Places, inventory[p] # 0, Good(p, "admin"), Able(p) PROVE Good(p, "admin")' /\ Able(p)'
    BY <1>3, <1>15, <2>2 DEF Good, Able, StoredPassword
  <2>3. faults \in Nat
    BY <1>1, Fields
  <2>4. faults' \in Nat /\ faults <= faults'
    BY <1>4, <2>3
  <2>5. QED
    BY <1>2, <1>3, <1>7, <2>1, <2>2, <2>4, DeployKeeps
<1>18. QED
  BY <1>10, <1>11, <1>12, <1>13, <1>14, <1>16, <1>17 DEF IInv

LEMMA PromoteStep == ASSUME IInv, Promote PROVE IInv'
<1>1. TypeOK /\ IInv
  BY DEF IInv
<1>2. deployed' \in BOOLEAN /\ job.task = "deploy"
  BY DEF Promote, Succeeded, IInv, Deploys
<1>3. on' = on /\ tried' = tried /\ inventory' = inventory /\ marks' = marks /\ faults' = faults /\ rotations' = rotations
  BY DEF Promote
<1>4. PICK m \in job.todo : /\ stored' = [stored EXCEPT ![m]["admin"] = pending[m]]
                            /\ pending' = [pending EXCEPT ![m] = 0]
                            /\ job' = [job EXCEPT !.todo = job.todo \ {m}]
  BY DEF Promote
<1>5. job.at = "promote" /\ m \in Members /\ m \in Places /\ pending[m] \in Values /\ pending[m] # 0 /\ on[m]["admin"] = pending[m] /\ inventory[m] = 0
  <2>1. job.at = "promote" /\ job.todo \subseteq marks /\ marks \subseteq Members
    BY DEF Promote, IInv, Deploys, TypeOK
  <2>2. m \in Members /\ pending[m] # 0 /\ on[m]["admin"] = pending[m]
    BY <1>4, <2>1 DEF IInv, Deploys
  <2>3. inventory[m] = 0
    BY <2>2 DEF IInv, Deploys
  <2>4. QED
    BY <1>1, <2>1, <2>2, <2>3, Fields
<1>6. /\ stored' \in [Places -> [Accounts -> Values]] /\ stored'[m]["admin"] = pending[m]
      /\ \A p \in Places : stored'[p]["admin2"] = stored[p]["admin2"] /\ (p # m => stored'[p]["admin"] = stored[p]["admin"])
  BY <1>1, <1>4, <1>5 DEF TypeOK, Accounts
<1>7. pending' \in [Members -> Values] /\ pending'[m] = 0 /\ \A q \in Members \ {m} : pending'[q] = pending[q]
  BY <1>1, <1>4, <1>5, Fields DEF TypeOK
<1>8. /\ job' \in Jobs /\ job'.at = job.at /\ job'.task = job.task /\ job'.got = job.got
      /\ job'.todo = job.todo \ {m}
  BY <1>1, <1>4, Fields DEF Jobs
<1>9. TypeOK'
  BY <1>2, <1>3, <1>4, <1>7, <1>8, Fields DEF IInv, TypeOK
<1>10. Deploys'
  <2>1. \A q \in Members : pending'[q] # 0 => pending'[q] # Bootstrap /\ stored'[q]["admin"] = 0
    BY <1>6, <1>7, Fields DEF IInv, Deploys
  <2>2. /\ \A q \in Members : stored'[q]["admin"] = 0 => pending'[q] # 0
        /\ \A p \in Places : stored'[p]["admin2"] # 0
    <3>1. /\ \A q \in Members : stored[q]["admin"] = 0 => pending[q] # 0
          /\ \A p \in Places : stored[p]["admin2"] # 0
      BY <1>2 DEF IInv, Deploys
    <3>2. \A q \in Members : q \in Places
      BY <1>1, Fields
    <3>3. QED
      BY <1>5, <1>6, <1>7, <3>1, <3>2
  <2>3. /\ job'.todo \subseteq marks'
        /\ \A q \in job'.todo : pending'[q] # 0 /\ on'[q]["admin"] = pending'[q]
    <3>1. job.todo \subseteq marks /\ \A q \in job.todo : pending[q] # 0 /\ on[q]["admin"] = pending[q]
      BY <1>5 DEF IInv, Deploys
    <3>2. marks \subseteq Members
      BY <1>1 DEF TypeOK
    <3>3. QED
      BY <1>3, <1>7, <1>8, <3>1, <3>2
  <2>4. ASSUME job'.got = Places, NEW p \in Places
        PROVE  /\ on'[p]["admin2"] = stored'[p]["admin2"]
               /\ p \notin job'.todo => on'[p]["admin"] = SignsInWith(p)'
               /\ p \in Members \ job'.todo => stored'[p]["admin"] # 0
    <3>1. /\ on[p]["admin2"] = stored[p]["admin2"]
          /\ p \notin job.todo => on[p]["admin"] = SignsInWith(p)
          /\ p \in Members \ job.todo => stored[p]["admin"] # 0
      BY <1>5, <1>8, <2>4 DEF IInv, Deploys, Succeeded
    <3>2. QED
      BY <1>3, <1>5, <1>6, <1>8, <3>1 DEF SignsInWith
  <2>5. \A q \in Members : inventory'[q] # 0 => stored'[q]["admin"] # 0
    <3>1. \A q \in Members : q \in Places /\ (inventory[q] # 0 => stored[q]["admin"] # 0)
      BY <1>1, Fields DEF IInv, Deploys
    <3>2. QED
      BY <1>3, <1>5, <1>6, <3>1
  <2>6. QED
    BY <1>2, <1>5, <1>8, <2>1, <2>2, <2>3, <2>4, <2>5 DEF Deploys, Succeeded
<1>11. Tried'
  BY <1>3, <1>4, <1>5 DEF Tried
<1>12. InTransit'
  BY <1>4, <1>5 DEF InTransit
<1>13. Recovery'
  BY <1>3, <1>4, <1>5 DEF Recovery
<1>14. AbleIsGood'
  BY <1>1, <1>3, <1>5, <1>6, Fields DEF IInv, AbleIsGood, Able
<1>15. BothGood' /\ OneGood'
  <2>1. ASSUME NEW p \in Places, Good(p, "admin2") PROVE Good(p, "admin2")'
    BY <1>3, <1>6, <2>1 DEF Good, StoredPassword
  <2>2. ASSUME NEW p \in Places, inventory[p] # 0, Good(p, "admin"), Able(p) PROVE Good(p, "admin")' /\ Able(p)'
    BY <1>3, <1>5, <1>6, <2>2 DEF Good, Able, StoredPassword
  <2>3. faults \in Nat
    BY <1>1, Fields
  <2>4. QED
    BY <1>3, <1>5, <1>8, <2>1, <2>2, <2>3, DeployKeeps
<1>16. QED
  BY <1>9, <1>10, <1>11, <1>12, <1>13, <1>14, <1>15 DEF IInv

LEMMA DeployCollectsStep == ASSUME IInv, DeployCollects PROVE IInv'
<1>1. TypeOK /\ IInv
  BY DEF IInv
<1>2. /\ job.at = "promote" /\ job.task = "deploy" /\ job.todo = {} /\ Succeeded
      /\ deployed' = TRUE
  BY DEF DeployCollects, IInv, Deploys
<1>3. on' = on /\ stored' = stored /\ tried' = tried /\ pending' = pending /\ inventory' = inventory /\ marks' = marks /\ faults' = faults /\ rotations' = rotations
  BY DEF DeployCollects
<1>4. job' \in Jobs /\ job'.at = "collect" /\ job'.task = "deploy" /\ job'.todo = {} /\ job'.got = job.got
  BY <1>1, <1>2, Fields DEF DeployCollects, Goes, Jobs
<1>5. TypeOK'
  BY <1>2, <1>3, <1>4 DEF IInv, TypeOK
<1>6. Deploys'
  BY <1>2, <1>3, <1>4 DEF IInv, Deploys, Succeeded, SignsInWith
<1>7. Tried' /\ InTransit' /\ Recovery'
  BY <1>4 DEF Tried, InTransit, Recovery
<1>8. AbleIsGood'
  BY <1>3 DEF IInv, AbleIsGood, Able
<1>9. BothGood' /\ OneGood'
  <2>1. \A p \in Places : (Good(p, "admin2") => Good(p, "admin2")') /\ (Good(p, "admin") => Good(p, "admin")') /\ (Able(p) => Able(p)')
    BY <1>3 DEF Good, Able, StoredPassword
  <2>2. faults \in Nat
    BY <1>1, Fields
  <2>3. QED
    BY <1>2, <1>3, <1>4, <2>1, <2>2, DeployKeeps
<1>10. QED
  BY <1>5, <1>6, <1>7, <1>8, <1>9 DEF IInv

LEMMA DeployEndsStep == ASSUME IInv, DeployEnds PROVE IInv'
<1>1. TypeOK /\ IInv
  BY DEF IInv
<1>2. job.at \in {"promote", "collect"} /\ job.task = "deploy" /\ job.todo = {}
  BY DEF DeployEnds, IInv, Deploys
<1>3. on' = on /\ stored' = stored /\ tried' = tried /\ pending' = pending /\ marks' = marks /\ deployed' = deployed /\ faults' = faults /\ rotations' = rotations
  BY DEF DeployEnds
<1>4. job' = Idle /\ job' \in Jobs /\ job'.at = "idle" /\ job'.task = "none"
  BY IdleFits DEF DeployEnds, Ends
<1>5. \A p \in Places : SignsInWith(p) \in Values /\ SignsInWith(p) # 0
  BY <1>1, Fields DEF SignsInWith
<1> DEFINE renewed(p) == Succeeded \/ (marks # {} /\ inventory[p] # 0 /\ stored[p]["admin"] # 0 /\ p \in Members)
<1>6. /\ inventory' = [p \in Places |-> IF renewed(p) THEN SignsInWith(p) ELSE inventory[p]]
      /\ inventory' \in [Places -> Values]
  <2>1. inventory' = [p \in Places |-> IF renewed(p) THEN SignsInWith(p) ELSE inventory[p]]
    BY DEF DeployEnds
  <2>2. QED
    BY <1>1, <1>5, <2>1, Fields
<1>7. Succeeded => \A p \in Places : /\ on[p]["admin2"] = stored[p]["admin2"] /\ stored[p]["admin2"] # 0
                                     /\ on[p]["admin"] = SignsInWith(p)
                                     /\ p \in Members => stored[p]["admin"] # 0
  <2>1. Succeeded =>
           \A p \in Places : /\ on[p]["admin2"] = stored[p]["admin2"]
                             /\ p \notin job.todo => on[p]["admin"] = SignsInWith(p)
                             /\ p \in Members \ job.todo => stored[p]["admin"] # 0
    BY <1>2 DEF IInv, Deploys
  <2>2. \A p \in Places : stored[p]["admin2"] # 0
    BY <1>2 DEF IInv, Deploys
  <2>3. QED
    BY <1>2, <2>1, <2>2
<1>8. \A p \in Places : renewed(p) /\ ~Succeeded =>
          inventory'[p] = stored[p]["admin"] /\ stored[p]["admin"] # 0 /\ inventory[p] # 0
  BY <1>6 DEF SignsInWith
<1>9. TypeOK'
  BY <1>3, <1>4, <1>6 DEF IInv, TypeOK
<1>10. Deploys'
  <2>1. ASSUME NEW m \in Members, inventory'[m] # 0 PROVE stored[m]["admin"] # 0
    <3>1. m \in Places /\ (inventory[m] # 0 => stored[m]["admin"] # 0)
      BY <1>1, Fields DEF IInv, Deploys
    <3>2. CASE Succeeded
      BY <1>7, <3>1, <3>2
    <3>3. CASE ~Succeeded
      BY <1>6, <2>1, <3>1, <3>3
    <3>4. QED
      BY <3>2, <3>3
  <2>2. QED
    BY <1>3, <1>4, <2>1 DEF IInv, Deploys
<1>11. Tried' /\ InTransit' /\ Recovery'
  BY <1>4 DEF Tried, InTransit, Recovery
<1>12. AbleIsGood'
  <2> SUFFICES ASSUME NEW m \in Members, inventory'[m] # 0, Able(m)' PROVE on'[m]["admin"] = stored'[m]["admin"]
    BY DEF AbleIsGood
  <2>1. m \in Places
    BY <1>1, Fields
  <2>2. CASE Succeeded
    BY <1>3, <1>7, <2>1, <2>2 DEF SignsInWith
  <2>3. CASE renewed(m) /\ ~Succeeded
    BY <1>3, <1>8, <2>1, <2>3 DEF Able
  <2>4. CASE ~renewed(m)
    <3>1. inventory'[m] = inventory[m]
      BY <1>6, <2>1, <2>4
    <3>2. QED
      BY <1>3, <3>1 DEF IInv, AbleIsGood, Able
  <2>5. QED
    BY <2>2, <2>3, <2>4
<1>13. BothGood' /\ OneGood'
  <2>1. CASE Succeeded
    <3>1. ASSUME NEW p \in Places PROVE Good(p, "admin")' /\ Able(p)' /\ Good(p, "admin2")'
      <4>1. /\ on[p]["admin2"] = stored[p]["admin2"] /\ stored[p]["admin2"] # 0
            /\ on[p]["admin"] = SignsInWith(p) /\ inventory'[p] = SignsInWith(p) /\ SignsInWith(p) # 0
        BY <1>5, <1>6, <1>7, <2>1
      <4>2. SignsInWith(p) # stored[p]["admin"] => stored[p]["admin"] = 0
        BY DEF SignsInWith
      <4>3. QED
        BY <1>3, <4>1, <4>2 DEF Good, Able, StoredPassword
    <3>2. QED
      BY <3>1 DEF BothGood, OneGood
  <2>2. CASE ~Succeeded
    <3>1. ASSUME NEW p \in Places, inventory'[p] # 0 PROVE inventory[p] # 0
      BY <1>6, <2>2, <3>1
    <3>2. ASSUME NEW p \in Places, Good(p, "admin2") PROVE Good(p, "admin2")'
      BY <1>3, <3>2 DEF Good, StoredPassword
    <3>3. ASSUME NEW p \in Places, Good(p, "admin"), Able(p) PROVE Good(p, "admin")' /\ Able(p)'
      <4>1. CASE renewed(p)
        BY <1>3, <1>8, <2>2, <3>3, <4>1 DEF Good, Able, StoredPassword
      <4>2. CASE ~renewed(p)
        <5>1. inventory'[p] = inventory[p]
          BY <1>6, <4>2
        <5>2. QED
          BY <1>3, <3>3, <5>1 DEF Good, Able, StoredPassword
      <4>3. QED
        BY <4>1, <4>2
    <3>4. faults \in Nat
      BY <1>1, Fields
    <3>5. QED
      BY <1>2, <1>3, <1>4, <3>1, <3>2, <3>3, <3>4, DeployKeeps
  <2>3. QED
    BY <2>1, <2>2
<1>14. QED
  BY <1>9, <1>10, <1>11, <1>12, <1>13 DEF IInv

-----------------------------------------------------------------------------
(* A rotation.                                                             *)

LEMMA StartRotationStep == ASSUME IInv, NEW a \in Accounts, NEW targets \in Targets, StartRotation(a, targets) PROVE IInv'
<1>1. TypeOK /\ IInv
  BY DEF IInv
<1>2. job.at = "idle" /\ \A p \in targets : inventory[p] # 0 /\ (p \in Members => pending[p] = 0)
  BY DEF StartRotation, Listed, IInv, Deploys
<1>3. on' = on /\ stored' = stored /\ pending' = pending /\ inventory' = inventory /\ marks' = marks /\ deployed' = deployed /\ faults' = faults /\ rotations' \in 0..MaxRotations
  BY <1>1 DEF StartRotation, TypeOK
<1>4. /\ job' \in Jobs /\ job'.at = "set" /\ job'.task = "rotate" /\ job'.account = a /\ job'.targets = targets /\ targets \subseteq Places
      /\ \A p \in targets : job'.new[p] = Fresh(p, a)
  <2>1. targets \subseteq Places
    BY DEF Targets, Places
  <2>2. \A p \in targets : Fresh(p, a) \in Values
    BY <1>1, <1>2, <2>1, FreshFits
  <2>3. 0 \in Values
    BY DEF Values
  <2> DEFINE new == [p \in Places |-> IF p \in targets THEN Fresh(p, a) ELSE 0]
  <2>4. new \in [Places -> Values] /\ \A p \in targets : new[p] = Fresh(p, a)
    BY <2>1, <2>2, <2>3
  <2>5. job' = [Idle EXCEPT !.at = "set", !.task = "rotate", !.account = a, !.targets = targets, !.new = new]
    BY DEF StartRotation
  <2> HIDE DEF new
  <2>6. QED
    BY <2>1, <2>4, <2>5, IdleFits DEF Jobs
<1>5. \A p \in targets : Fresh(p, a) \in Values /\ Fresh(p, a) # 0 /\ (a = "admin" => Fresh(p, a) # inventory[p])
  <2>1. \A p \in targets : Fresh(p, a) \in Values /\ Fresh(p, a) # 0 /\ Fresh(p, a) \notin Held(p, a)
    BY <1>1, <1>2, <1>4, FreshFits
  <2>2. QED
    BY <2>1 DEF Held
<1>6. /\ tried' \in [Places -> [Accounts -> Values]]
      /\ \A p \in targets : tried'[p][a] = job'.new[p]
  <2>1. tried' = [p \in Places |-> IF p \in targets THEN [tried[p] EXCEPT ![a] = job'.new[p]] ELSE tried[p]]
    BY DEF StartRotation
  <2>2. \A p \in targets : p \in Places /\ job'.new[p] \in Values
    BY <1>4, <1>5
  <2>3. \A p \in Places : tried[p] \in [Accounts -> Values]
    BY <1>1 DEF TypeOK
  <2>4. QED
    BY <2>1, <2>2, <2>3
<1>7. TypeOK'
  BY <1>3, <1>4, <1>6 DEF IInv, TypeOK
<1>8. Deploys'
  BY <1>2, <1>3, <1>4 DEF IInv, Deploys
<1>9. Tried'
  BY <1>3, <1>4, <1>5, <1>6 DEF Tried
<1>10. InTransit'
  BY <1>4 DEF InTransit
<1>11. Recovery'
  BY <1>3, <1>4 DEF Recovery
<1>12. AbleIsGood'
  BY <1>3 DEF IInv, AbleIsGood, Able
<1>13. BothGood'
  BY <1>2, <1>3 DEF IInv, BothGood, Good, Able, StoredPassword, Changing
<1>14. OneGood'
  BY <1>2, <1>3 DEF IInv, OneGood, Good, Able, StoredPassword, Changing
<1>15. QED
  BY <1>7, <1>8, <1>9, <1>10, <1>11, <1>12, <1>13, <1>14 DEF IInv

(* What one setting of a new password leaves, and which outcomes are no fault. *)
LEMMA Outcomes ==
    ASSUME IInv, SetPassword
    PROVE  \E took \in SUBSET job.targets, got \in SUBSET job.targets :
              /\ \A p \in took : Able(p)
              /\ on' = [p \in Places |-> IF p \in took THEN [on[p] EXCEPT ![job.account] = job.new[p]] ELSE on[p]]
              /\ tried' \in [Places -> [Accounts -> Values]] /\ \A p \in took : tried'[p] = tried[p]
              /\ faults' \in {faults, faults + 1} /\ faults' <= MaxFaults
              /\ faults' = faults => \A p \in job.targets : p \in took <=> Able(p)
              /\ \/ /\ job' = Idle /\ (job.account = "admin2" \/ Domain \in job.targets)
                    /\ faults' = faults => took # job.targets
                 \/ /\ job.account = "admin2" \/ Domain \in job.targets
                    /\ took = job.targets /\ got = took
                    /\ job' = [job EXCEPT !.at = IF job.account = "admin" THEN "inventory" ELSE "store",
                                          !.todo = took, !.got = took]
                 \/ /\ job.account = "admin" /\ Domain \notin job.targets
                    /\ \E changed \in SUBSET took :
                          /\ faults' = faults => changed = took
                          /\ changed \subseteq got /\ \A p \in got \ changed : p \notin took /\ on[p]["admin"] = StoredPassword(p, "admin")
                          /\ job' = [job EXCEPT !.at = "store", !.todo = changed, !.got = got]
<1>1. TypeOK /\ job.targets \subseteq Places /\ job.account \in Accounts
  BY Fields DEF IInv
<1>2. \A w \in BOOLEAN : Fault(w) => /\ faults' \in {faults, faults + 1} /\ faults' <= MaxFaults
                                     /\ faults' = faults => ~w
  BY <1>1, Fields DEF Fault
<1> DEFINE a == job.account
           able == {p \in job.targets : on[p]["admin"] = inventory[p]}
           Old(took, seen) == {p \in seen \ took : on[p][a] = StoredPassword(p, a)}
           Sets(took, seen) ==
              /\ on' = [p \in Places |-> IF p \in took THEN [on[p] EXCEPT ![a] = job.new[p]] ELSE on[p]]
              /\ tried' = [p \in Places |->
                      IF a = "admin" /\ p \in Old(took, seen) /\ p = Domain THEN [tried[p] EXCEPT ![a] = 0] ELSE tried[p]]
              /\ Fault(took # able \/ seen # job.targets)
              /\ IF a = "admin2" \/ Domain \in job.targets
                 THEN job' = IF ~((took \cap seen) = job.targets) THEN Idle
                             ELSE [job EXCEPT !.at = IF a = "admin" THEN "inventory" ELSE "store",
                                              !.todo = took \cap seen, !.got = took \cap seen]
                 ELSE job' = [job EXCEPT !.at = "store", !.todo = took \cap seen, !.got = (took \cap seen) \cup Old(took, seen)]
<1>3. \E took \in SUBSET able : \E seen \in SUBSET job.targets : Sets(took, seen)
  BY DEF SetPassword
<1>4. PICK took \in SUBSET able : \E seen \in SUBSET job.targets : Sets(took, seen)
  BY <1>3
<1>5. PICK seen \in SUBSET job.targets : Sets(took, seen)
  BY <1>4
<1> DEFINE changed == took \cap seen
           got == changed \cup (IF a = "admin2" \/ Domain \in job.targets THEN {} ELSE Old(took, seen))
<1>6. /\ took \subseteq job.targets /\ got \subseteq job.targets /\ changed \subseteq took
      /\ \A p \in took : p \notin Old(took, seen)
      /\ \A p \in Old(took, seen) : p \notin took /\ on[p][a] = StoredPassword(p, a)
  OBVIOUS
<1>7. Fault(took # able \/ seen # job.targets)
  BY <1>5
<1>8. /\ faults' \in {faults, faults + 1} /\ faults' <= MaxFaults
      /\ faults' = faults => took = able /\ seen = job.targets
  <2>1. (took # able \/ seen # job.targets) \in BOOLEAN
    OBVIOUS
  <2>2. QED
    BY <1>2, <1>7, <2>1
<1>9. \A p \in took : Able(p)
  BY DEF Able
<1>10. faults' = faults => \A p \in job.targets : p \in took <=> Able(p)
  BY <1>8 DEF Able
<1>11. faults' = faults => changed = took
  BY <1>8
<1>12. tried' \in [Places -> [Accounts -> Values]] /\ \A p \in took : tried'[p] = tried[p]
  <2>1. tried' = [p \in Places |->
            IF a = "admin" /\ p \in Old(took, seen) /\ p = Domain THEN [tried[p] EXCEPT ![a] = 0] ELSE tried[p]]
    BY <1>5
  <2>2. tried \in [Places -> [Accounts -> Values]] /\ 0 \in Values
    BY <1>1, Fields DEF TypeOK
  <2>3. \A p \in Places : tried'[p] \in [Accounts -> Values]
    BY <1>1, <2>1, <2>2
  <2>4. QED
    BY <1>1, <1>6, <2>1, <2>3
<1>13. on' = [p \in Places |-> IF p \in took THEN [on[p] EXCEPT ![a] = job.new[p]] ELSE on[p]]
  BY <1>5
<1>14. CASE (a = "admin2" \/ Domain \in job.targets) /\ changed # job.targets
  <2>1. job' = Idle
    BY <1>5, <1>14
  <2>2. faults' = faults => took # job.targets
    BY <1>11, <1>14
  <2>3. QED
    BY <1>6, <1>8, <1>9, <1>10, <1>12, <1>13, <1>14, <2>1, <2>2
<1>15. CASE (a = "admin2" \/ Domain \in job.targets) /\ changed = job.targets
  <2>1. took = job.targets /\ got = took /\ changed = took
    BY <1>6, <1>15
  <2>2. job' = [job EXCEPT !.at = IF a = "admin" THEN "inventory" ELSE "store", !.todo = took, !.got = took]
    BY <1>5, <1>15, <2>1
  <2>3. took \in SUBSET job.targets
    BY <1>6
  <2>4. a = "admin2" \/ Domain \in job.targets
    BY <1>15
  <2> HIDE DEF changed, got, able, Old, Sets
  <2>5. QED
    BY <1>8, <1>9, <1>10, <1>12, <1>13, <2>1, <2>2, <2>3, <2>4
<1>16. CASE ~(a = "admin2" \/ Domain \in job.targets)
  <2>1. a = "admin" /\ Domain \notin job.targets
    BY <1>1, <1>16 DEF Accounts
  <2>2. job' = [job EXCEPT !.at = "store", !.todo = changed, !.got = got]
    BY <1>5, <1>16
  <2>3. changed \subseteq got /\ \A p \in got \ changed : p \notin took /\ on[p]["admin"] = StoredPassword(p, "admin")
    BY <1>6, <2>1
  <2>4. changed \in SUBSET took /\ got \in SUBSET job.targets /\ took \in SUBSET job.targets
    BY <1>6
  <2> HIDE DEF changed, got, a, able, Old, Sets
  <2>5. \E c \in SUBSET took :
           /\ faults' = faults => c = took
           /\ c \subseteq got /\ \A p \in got \ c : p \notin took /\ on[p]["admin"] = StoredPassword(p, "admin")
           /\ job' = [job EXCEPT !.at = "store", !.todo = c, !.got = got]
    BY <1>11, <2>2, <2>3, <2>4
  <2>6. QED
    BY <1>8, <1>9, <1>10, <1>12, <1>13, <2>1, <2>4, <2>5 DEF a
<1>17. QED
  BY <1>14, <1>15, <1>16

LEMMA SetPasswordStep == ASSUME IInv, SetPassword PROVE IInv'
<1>1. TypeOK /\ job.account \in Accounts /\ job.targets \subseteq Places /\ faults \in Nat
  BY Fields DEF IInv
<1>2. /\ job.at = "set" /\ job.task = "rotate" /\ job.targets \in Targets
      /\ \A p \in job.targets : inventory[p] # 0
      /\ \A p \in job.targets : /\ job.new[p] # 0 /\ job.new[p] = tried[p][job.account] /\ job.new[p] \in Values
                                /\ job.account = "admin" => job.new[p] # inventory[p]
  BY Fields DEF SetPassword, IInv, Deploys, Tried
<1>3. UNCHANGED <<stored, pending, inventory, marks, deployed, rotations>>
  BY DEF SetPassword
<1>4. Domain \in job.targets => job.targets = {Domain}
  BY <1>2 DEF Targets
<1>5. PICK took \in SUBSET job.targets, got \in SUBSET job.targets :
         /\ \A p \in took : Able(p)
         /\ on' = [p \in Places |-> IF p \in took THEN [on[p] EXCEPT ![job.account] = job.new[p]] ELSE on[p]]
         /\ tried' \in [Places -> [Accounts -> Values]] /\ \A p \in took : tried'[p] = tried[p]
         /\ faults' \in {faults, faults + 1} /\ faults' <= MaxFaults
         /\ faults' = faults => \A p \in job.targets : p \in took <=> Able(p)
         /\ \/ /\ job' = Idle /\ (job.account = "admin2" \/ Domain \in job.targets)
               /\ faults' = faults => took # job.targets
            \/ /\ job.account = "admin2" \/ Domain \in job.targets
               /\ took = job.targets /\ got = took
               /\ job' = [job EXCEPT !.at = IF job.account = "admin" THEN "inventory" ELSE "store",
                                     !.todo = took, !.got = took]
            \/ /\ job.account = "admin" /\ Domain \notin job.targets
               /\ \E changed \in SUBSET took :
                     /\ faults' = faults => changed = took
                     /\ changed \subseteq got /\ \A p \in got \ changed : p \notin took /\ on[p]["admin"] = StoredPassword(p, "admin")
                     /\ job' = [job EXCEPT !.at = "store", !.todo = changed, !.got = got]
  BY Outcomes
<1>5a. /\ faults' \in {faults, faults + 1} /\ faults' <= MaxFaults /\ MaxFaults \in Nat
       /\ \A p \in took : Able(p) /\ tried'[p] = tried[p]
       /\ tried' \in [Places -> [Accounts -> Values]]
  BY <1>5
<1>6. /\ on' \in [Places -> [Accounts -> Values]]
      /\ \A p \in took : /\ on'[p][job.account] = job.new[p]
                         /\ \A b \in Accounts : b # job.account => on'[p][b] = on[p][b]
      /\ \A p \in Places : p \notin took => on'[p] = on[p]
  <2>1. \A p \in Places : on[p] \in [Accounts -> Values]
    BY <1>1 DEF TypeOK
  <2>2. \A p \in took : p \in Places /\ job.new[p] \in Values
    BY <1>1, <1>2, <1>5
  <2>3. on' = [p \in Places |-> IF p \in took THEN [on[p] EXCEPT ![job.account] = job.new[p]] ELSE on[p]]
    BY <1>5
  <2>4. QED
    BY <1>1, <2>1, <2>2, <2>3
<1>7. /\ job' \in Jobs
      /\ job'.at = "idle" => /\ job'.task = "none" /\ (job.account = "admin2" \/ Domain \in job.targets)
                             /\ faults' = faults => took # job.targets
      /\ job'.at # "idle" =>
           /\ job'.at = IF job.account = "admin" /\ Domain \in job.targets THEN "inventory" ELSE "store"
           /\ job'.task = "rotate" /\ job'.account = job.account /\ job'.targets = job.targets /\ job'.new = job.new
           /\ job'.todo \subseteq took /\ job'.todo \subseteq job'.got /\ job'.got \subseteq job.targets
           /\ \A p \in job'.got \ job'.todo :
                 p \notin took /\ on[p]["admin"] = StoredPassword(p, "admin") /\ job.account = "admin"
           /\ Domain \in job.targets => took = job.targets /\ job'.todo = took /\ job'.got = took
           /\ faults' = faults => job'.todo = took
           /\ job.account = "admin2" => job'.got = job'.todo
  <2>1. job \in Jobs /\ took \in SUBSET Places /\ got \in SUBSET Places
    BY <1>1, <1>5 DEF TypeOK
  <2>2. CASE job' = Idle /\ (job.account = "admin2" \/ Domain \in job.targets) /\ (faults' = faults => took # job.targets)
    BY <2>2, IdleFits
  <2>3. CASE /\ job.account = "admin2" \/ Domain \in job.targets
             /\ took = job.targets /\ got = took
             /\ job' = [job EXCEPT !.at = IF job.account = "admin" THEN "inventory" ELSE "store", !.todo = took, !.got = took]
    <3>1. (IF job.account = "admin" THEN "inventory" ELSE "store") =
             IF job.account = "admin" /\ Domain \in job.targets THEN "inventory" ELSE "store"
      BY <2>3
    <3>2. QED
      BY <1>2, <2>1, <2>3, <3>1 DEF Jobs
  <2>4. CASE /\ job.account = "admin" /\ Domain \notin job.targets
             /\ \E changed \in SUBSET took :
                   /\ faults' = faults => changed = took
                   /\ changed \subseteq got /\ \A p \in got \ changed : p \notin took /\ on[p]["admin"] = StoredPassword(p, "admin")
                   /\ job' = [job EXCEPT !.at = "store", !.todo = changed, !.got = got]
    <3>1. PICK changed \in SUBSET took :
             /\ faults' = faults => changed = took
             /\ changed \subseteq got /\ \A p \in got \ changed : p \notin took /\ on[p]["admin"] = StoredPassword(p, "admin")
             /\ job' = [job EXCEPT !.at = "store", !.todo = changed, !.got = got]
      BY <2>4
    <3>2. changed \in SUBSET Places
      BY <2>1
    <3>3. /\ job' \in Jobs /\ job'.at = "store" /\ job'.task = job.task /\ job'.account = job.account
          /\ job'.targets = job.targets /\ job'.new = job.new /\ job'.todo = changed /\ job'.got = got
      BY <2>1, <3>1, <3>2 DEF Jobs
    <3>4. QED
      BY <1>2, <2>4, <3>1, <3>3
  <2>5. QED
    BY <1>5, <2>2, <2>3, <2>4
<1>8. TypeOK'
  <2>1. QED
    BY <1>1, <1>3, <1>5a, <1>6, <1>7 DEF TypeOK
<1>9. Deploys'
  BY <1>2, <1>3, <1>7 DEF IInv, Deploys
<1>10. Tried' /\ Recovery'
  BY <1>7 DEF Tried, Recovery
<1>11. \A p \in job.targets : on[p]["admin"] = StoredPassword(p, "admin") /\ on[p]["admin"] = job.new[p] /\ job.account = "admin"
          => stored[p]["admin"] = job.new[p]
  BY <1>2 DEF StoredPassword
<1>12. InTransit'
  <2>1. ASSUME job'.at # "idle", NEW p \in job'.todo
        PROVE  job'.new[p] # 0 /\ on'[p][job'.account] = job'.new[p] /\ tried'[p][job'.account] = job'.new[p]
    <3>1. p \in took /\ p \in job.targets /\ job'.account = job.account /\ job'.new = job.new
      BY <1>7, <2>1
    <3>2. on'[p][job.account] = job.new[p] /\ tried'[p] = tried[p]
      BY <1>5a, <1>6, <3>1
    <3>3. job.new[p] # 0 /\ job.new[p] = tried[p][job.account]
      BY <1>2, <3>1
    <3>4. QED
      BY <3>1, <3>2, <3>3
  <2>2. ASSUME job'.at # "idle", NEW p \in job'.got \ job'.todo, on'[p][job'.account] = job'.new[p]
        PROVE  job'.new[p] # 0 /\ stored'[p][job'.account] = job'.new[p]
    <3>1. p \in job.targets /\ p \in Places /\ p \notin took /\ job.account = "admin" /\ on[p]["admin"] = StoredPassword(p, "admin")
      BY <1>1, <1>7, <2>2
    <3>2. on'[p] = on[p]
      BY <1>6, <3>1
    <3>3. on[p]["admin"] = job.new[p]
      BY <1>7, <2>2, <3>1, <3>2
    <3>4. QED
      BY <1>2, <1>3, <1>7, <1>11, <2>2, <3>3
  <2>3. ASSUME job'.at # "idle", job'.account = "admin", Domain \in job'.targets
        PROVE  /\ job'.got = {Domain} /\ on'[Domain]["admin"] = job'.new[Domain]
               /\ job'.at = "inventory" /\ job'.todo = {Domain}
    <3>1. job.targets = {Domain} /\ took = {Domain} /\ job'.todo = {Domain} /\ job'.got = {Domain} /\ job.account = "admin"
      BY <1>4, <1>7, <2>3
    <3>2. QED
      BY <1>6, <1>7, <2>3, <3>1
  <2>4. QED
    BY <1>2, <1>7, <2>1, <2>2, <2>3 DEF InTransit
<1>13. \A p \in Places : p \notin took => /\ Good(p, "admin")' <=> Good(p, "admin")
                                          /\ Good(p, "admin2")' <=> Good(p, "admin2")
                                          /\ Able(p)' <=> Able(p)
  BY <1>3, <1>6 DEF Good, Able, StoredPassword
<1>14. \A p \in took : /\ job.account = "admin" => ~Able(p)' /\ (Good(p, "admin2")' <=> Good(p, "admin2"))
                       /\ job.account = "admin2" => /\ Able(p)' /\ Able(p)
                                                    /\ Good(p, "admin")' <=> Good(p, "admin")
  <2>1. "admin" \in Accounts /\ "admin2" \in Accounts /\ "admin" # "admin2"
    BY DEF Accounts
  <2> SUFFICES ASSUME NEW p \in took
               PROVE  /\ job.account = "admin" => ~Able(p)' /\ (Good(p, "admin2")' <=> Good(p, "admin2"))
                      /\ job.account = "admin2" => /\ Able(p)' /\ Able(p)
                                                   /\ Good(p, "admin")' <=> Good(p, "admin")
    OBVIOUS
  <2>2. p \in job.targets /\ Able(p) /\ on'[p][job.account] = job.new[p]
    BY <1>5a, <1>6
  <2>3. CASE job.account = "admin"
    <3>1. on'[p]["admin2"] = on[p]["admin2"]
      BY <1>6, <2>1, <2>3
    <3>2. on'[p]["admin"] # inventory[p]
      BY <1>2, <2>2, <2>3
    <3>3. QED
      BY <1>3, <2>3, <3>1, <3>2 DEF Good, Able, StoredPassword
  <2>4. CASE job.account = "admin2"
    <3>1. on'[p]["admin"] = on[p]["admin"]
      BY <1>6, <2>1, <2>4
    <3>2. QED
      BY <1>3, <2>2, <2>4, <3>1 DEF Good, Able, StoredPassword
  <2>5. job.account \in {"admin", "admin2"}
    BY <1>1 DEF Accounts
  <2>6. QED
    BY <2>3, <2>4, <2>5
<1>15. \A p \in Places, a \in Accounts : ~Changing(p, a)
  BY <1>2 DEF Changing
<1>16. job'.at # "idle" => \A p \in job'.todo, a \in Accounts : a = job.account => Changing(p, a)'
  <2> SUFFICES ASSUME job'.at # "idle", NEW p \in job'.todo PROVE \A a \in Accounts : a = job.account => Changing(p, a)'
    OBVIOUS
  <2>1. p \in took /\ p \in job'.got /\ job'.account = job.account /\ job'.new = job.new /\ job'.at \in {"inventory", "store"}
    BY <1>7
  <2>2. on'[p][job.account] = job.new[p]
    BY <1>6, <2>1
  <2>3. QED
    BY <2>1, <2>2 DEF Changing
<1>17. job.account = "admin" \/ job.account = "admin2"
  BY <1>1 DEF Accounts
<1>18. AbleIsGood'
  <2> SUFFICES ASSUME NEW m \in Members, inventory'[m] # 0, Able(m)' PROVE on'[m]["admin"] = stored'[m]["admin"]
    BY DEF AbleIsGood
  <2>1. m \in Places
    BY <1>1, Fields
  <2>2. on'[m]["admin"] = on[m]["admin"] /\ Able(m)
    <3>1. CASE m \notin took
      BY <1>6, <1>13, <2>1, <3>1
    <3>2. CASE m \in took /\ job.account = "admin2"
      BY <1>6, <1>14, <3>2 DEF Accounts
    <3>3. QED
      BY <1>14, <1>17, <3>1, <3>2
  <2>3. QED
    BY <1>3, <2>2 DEF IInv, AbleIsGood
<1>19. ASSUME faults' = faults, NEW p \in took
       PROVE  \/ \A a \in Accounts : a = job.account => Changing(p, a)'
              \/ job'.at = "idle" /\ job.account = "admin2" /\ p \in Members
  <2>1. CASE job'.at # "idle"
    BY <1>7, <1>16, <1>19, <2>1
  <2>2. CASE job'.at = "idle"
    <3>1. took # job.targets
      BY <1>7, <1>19, <2>2
    <3>2. Domain \notin job.targets
      BY <1>4, <1>19, <3>1
    <3>3. p \in Members
      BY <1>1, <1>2, <3>2, Fields DEF Targets
    <3>4. QED
      BY <1>7, <2>2, <3>2, <3>3
  <2>3. QED
    BY <2>1, <2>2
<1>20. BothGood'
  <2> SUFFICES ASSUME faults' = 0, NEW p \in Places, inventory[p] # 0
               PROVE  /\ Good(p, "admin2")' \/ Changing(p, "admin2")'
                      /\ (Good(p, "admin")' /\ Able(p)') \/ Changing(p, "admin")'
    BY <1>3 DEF BothGood
  <2>1. faults = 0 /\ faults' = faults
    BY <1>1, <1>5a
  <2>2. \A q \in Places : inventory[q] # 0 => Good(q, "admin2") /\ Good(q, "admin") /\ Able(q)
    BY <1>15, <2>1 DEF IInv, BothGood, Accounts
  <2>3. took = job.targets
    BY <1>1, <1>2, <1>5, <2>1, <2>2
  <2>4. job'.at # "idle"
    BY <1>7, <2>1, <2>3
  <2>5. CASE p \in took
    <3>1. \A a \in Accounts : a = job.account => Changing(p, a)'
      BY <1>19, <2>1, <2>4, <2>5
    <3>2. QED
      BY <1>14, <1>17, <2>2, <2>5, <3>1 DEF Accounts
  <2>6. CASE p \notin took
    BY <1>13, <2>2, <2>6
  <2>7. QED
    BY <2>5, <2>6
<1>21. OneGood'
  <2> SUFFICES ASSUME faults' <= 1, NEW p \in Places, inventory[p] # 0
               PROVE  \/ Good(p, "admin2")'
                      \/ Good(p, "admin")' /\ Able(p)'
                      \/ \E a \in Accounts : Changing(p, a)'
    BY <1>3 DEF OneGood
  <2>1. faults <= 1 /\ (faults' = faults \/ faults = 0)
    BY <1>1, <1>5a
  <2>2. Good(p, "admin2") \/ (Good(p, "admin") /\ Able(p))
    BY <1>15, <2>1 DEF IInv, OneGood
  <2>3. faults = 0 => Good(p, "admin2") /\ Good(p, "admin") /\ Able(p)
    BY <1>15 DEF IInv, BothGood, Accounts
  <2>4. CASE p \notin took
    BY <1>13, <2>2, <2>4
  <2>5. CASE p \in took /\ faults = 0
    BY <1>14, <1>17, <2>3, <2>5
  <2>6. CASE p \in took /\ faults' = faults
    <3>1. CASE \A a \in Accounts : a = job.account => Changing(p, a)'
      BY <1>1, <3>1
    <3>2. CASE job.account = "admin2" /\ p \in Members
      <4>1. Able(p) /\ Able(p)' /\ on[p]["admin"] = stored[p]["admin"] /\ stored[p]["admin"] # 0
        BY <1>14, <2>6, <3>2 DEF IInv, AbleIsGood, Deploys
      <4>2. Good(p, "admin")
        BY <4>1 DEF Good, StoredPassword
      <4>3. QED
        BY <1>14, <2>6, <3>2, <4>1, <4>2
    <3>3. QED
      BY <1>19, <2>6, <3>1, <3>2
  <2>7. QED
    BY <2>1, <2>4, <2>5, <2>6
<1>22. QED
  BY <1>8, <1>9, <1>10, <1>12, <1>18, <1>20, <1>21 DEF IInv

(* One target's value is stored, and then no longer kept as tried.          *)
LEMMA StoreStep == ASSUME IInv, Store PROVE IInv'
<1>1. TypeOK /\ IInv
  BY DEF IInv
<1>2. PICK q \in job.todo : /\ stored' = [stored EXCEPT ![q][job.account] = job.new[q]]
                            /\ job' = [job EXCEPT !.at = "clear", !.cur = q, !.todo = job.todo \ {q}]
  BY DEF Store
<1>3. on' = on /\ tried' = tried /\ pending' = pending /\ inventory' = inventory /\ marks' = marks /\ deployed' = deployed /\ faults' = faults /\ rotations' = rotations /\ job.at = "store"
  BY DEF Store
<1>4. /\ job.task \in {"rotate", "check"} /\ \A p \in job.targets : inventory[p] # 0
      /\ job.account \in Accounts /\ job.todo \subseteq job.got /\ q \in job.targets
      /\ q \in Places /\ job.new[q] \in Values /\ job.new[q] # 0 /\ on[q][job.account] = job.new[q]
  BY <1>2, <1>3, Fields DEF IInv, Deploys, InTransit
<1>5. /\ job' \in Jobs /\ job'.at = "clear" /\ job'.task = job.task /\ job'.account = job.account
      /\ job'.targets = job.targets /\ job'.new = job.new /\ job'.todo = job.todo \ {q} /\ job'.got = job.got
      /\ job'.cur = q
  BY <1>1, <1>2, <1>4, Fields DEF Jobs
<1>6. /\ stored' \in [Places -> [Accounts -> Values]] /\ stored'[q][job.account] = job.new[q]
      /\ \A p \in Places, a \in Accounts : p # q \/ a # job.account => stored'[p][a] = stored[p][a]
  BY <1>1, <1>2, <1>4 DEF TypeOK
<1>7. \A p \in Places, a \in Accounts : Changing(p, a)' <=> Changing(p, a)
  BY <1>3, <1>5 DEF Changing
<1>8. \A p \in Places, a \in Accounts : Good(p, a) => Good(p, a)'
  <2> SUFFICES ASSUME NEW p \in Places, NEW a \in Accounts, Good(p, a) PROVE Good(p, a)'
    OBVIOUS
  <2>1. CASE p = q /\ a = job.account
    BY <1>3, <1>4, <1>6 DEF Good, StoredPassword
  <2>2. CASE ~(p = q /\ a = job.account)
    BY <1>3, <1>6, <2>2 DEF Good, StoredPassword
  <2>3. QED
    BY <2>1, <2>2
<1>9. \A p \in Places : Able(p)' <=> Able(p)
  BY <1>3 DEF Able
<1>10. TypeOK'
  BY <1>3, <1>5, <1>6 DEF IInv, TypeOK
<1>11. Deploys'
  <2>1. ASSUME NEW m \in Members
        PROVE  /\ pending'[m] # 0 => pending'[m] # Bootstrap /\ stored'[m]["admin"] = 0
               /\ inventory'[m] # 0 => stored'[m]["admin"] # 0
    <3>1. /\ m \in Places /\ "admin" \in Accounts
          /\ pending[m] # 0 => pending[m] # Bootstrap /\ stored[m]["admin"] = 0
          /\ inventory[m] # 0 => stored[m]["admin"] # 0
      BY <1>1, Fields DEF IInv, Deploys
    <3>2. CASE m = q /\ job.account = "admin"
      BY <1>3, <1>4, <1>6, <3>1, <3>2
    <3>3. CASE ~(m = q /\ job.account = "admin")
      BY <1>3, <1>6, <3>1, <3>3
    <3>4. QED
      BY <3>2, <3>3
  <2>2. QED
    BY <1>3, <1>4, <1>5, <2>1 DEF Deploys
<1>12. Tried'
  BY <1>5 DEF Tried
<1>13. InTransit'
  <2>1. \A p \in job'.todo : job'.new[p] # 0 /\ on'[p][job'.account] = job'.new[p] /\ tried'[p][job'.account] = job'.new[p]
    BY <1>1, <1>3, <1>5 DEF IInv, InTransit
  <2>2. \A p \in job'.got \ job'.todo :
           on'[p][job'.account] = job'.new[p] => job'.new[p] # 0 /\ stored'[p][job'.account] = job'.new[p]
    <3> SUFFICES ASSUME NEW p \in job'.got \ job'.todo, on'[p][job'.account] = job'.new[p]
                 PROVE  job'.new[p] # 0 /\ stored'[p][job'.account] = job'.new[p]
      OBVIOUS
    <3>1. CASE p = q
      BY <1>4, <1>5, <1>6, <3>1
    <3>2. CASE p # q
      <4>1. p \in job.got \ job.todo /\ on[p][job.account] = job.new[p] /\ p \in Places
        BY <1>1, <1>3, <1>5, <3>2, Fields
      <4>2. job.new[p] # 0 /\ stored[p][job.account] = job.new[p]
        BY <1>3, <4>1 DEF IInv, InTransit
      <4>3. QED
        BY <1>4, <1>5, <1>6, <4>1, <4>2
    <3>3. QED
      BY <3>1, <3>2
  <2>3. job.account = "admin" /\ job.task = "rotate" /\ Domain \in job.targets =>
           job.got = {Domain} /\ on[Domain]["admin"] = job.new[Domain] /\ Able(Domain)
    BY <1>3 DEF IInv, InTransit
  <2>4. job.got \subseteq job.targets /\ job.targets \in Targets
    BY <1>3 DEF IInv, InTransit
  <2>5. Able(Domain)' <=> Able(Domain)
    BY <1>1, <1>9, Fields
  <2>6. QED
    BY <1>3, <1>4, <1>5, <2>1, <2>2, <2>3, <2>4, <2>5 DEF InTransit
<1>14. Recovery'
  BY <1>5 DEF Recovery
<1>15. AbleIsGood'
  <2> SUFFICES ASSUME NEW m \in Members, inventory'[m] # 0, Able(m)' PROVE on'[m]["admin"] = stored'[m]["admin"]
    BY DEF AbleIsGood
  <2>1. m \in Places /\ "admin" \in Accounts
    BY <1>1, Fields
  <2>2. on[m]["admin"] = stored[m]["admin"]
    BY <1>3, <1>9, <2>1 DEF IInv, AbleIsGood
  <2>3. QED
    BY <1>3, <1>4, <1>6, <2>1, <2>2
<1>16. BothGood'
  BY <1>3, <1>7, <1>8, <1>9 DEF IInv, BothGood, Accounts
<1>17. OneGood'
  BY <1>3, <1>7, <1>8, <1>9 DEF IInv, OneGood, Accounts
<1>18. QED
  BY <1>10, <1>11, <1>12, <1>13, <1>14, <1>15, <1>16, <1>17 DEF IInv

LEMMA ClearTriedStep == ASSUME IInv, ClearTried PROVE IInv'
<1>1. TypeOK /\ IInv
  BY DEF IInv
<1>2. on' = on /\ stored' = stored /\ pending' = pending /\ inventory' = inventory /\ marks' = marks /\ deployed' = deployed /\ faults' = faults /\ rotations' = rotations /\ job.at = "clear"
  BY DEF ClearTried
<1>3. /\ job.task \in {"rotate", "check"} /\ job.account \in Accounts
      /\ job.cur \in Places /\ job.cur \notin job.todo
  BY <1>2, Fields DEF IInv, Deploys, InTransit, Jobs
<1>4. /\ job' \in Jobs /\ job'.at = "store" /\ job'.task = job.task /\ job'.account = job.account
      /\ job'.targets = job.targets /\ job'.new = job.new /\ job'.todo = job.todo /\ job'.got = job.got
  BY <1>1, GoesFits DEF ClearTried
<1>5. /\ tried' \in [Places -> [Accounts -> Values]] /\ \A p \in Places \ {job.cur} : tried'[p] = tried[p]
  <2>1. tried' = [tried EXCEPT ![job.cur][job.account] = 0] /\ 0 \in Values
    BY <1>1, Fields DEF ClearTried
  <2>2. QED
    BY <1>1, <1>3, <2>1 DEF TypeOK
<1>6. \A p \in Places, a \in Accounts : (Changing(p, a)' <=> Changing(p, a)) /\ (Good(p, a)' <=> Good(p, a))
  BY <1>2, <1>4 DEF Changing, Good, StoredPassword
<1>7. \A p \in Places : Able(p)' <=> Able(p)
  BY <1>2 DEF Able
<1>8. \A p \in job.todo : p \in Places /\ tried'[p] = tried[p]
  BY <1>1, <1>3, <1>5, Fields
<1>9. TypeOK'
  BY <1>1, <1>2, <1>4, <1>5 DEF TypeOK
<1>10. Deploys'
  BY <1>2, <1>4 DEF IInv, Deploys
<1>11. Tried'
  BY <1>3, <1>4, <1>5 DEF Tried
<1>12. InTransit'
  <2>1. Able(Domain)' <=> Able(Domain)
    BY <1>1, <1>7, Fields
  <2>2. QED
    BY <1>2, <1>4, <1>8, <2>1 DEF IInv, InTransit
<1>13. Recovery'
  BY <1>3, <1>4, <1>5 DEF Recovery
<1>14. AbleIsGood'
  BY <1>2 DEF IInv, AbleIsGood, Able
<1>15. BothGood'
  BY <1>2, <1>6, <1>7 DEF IInv, BothGood, Accounts
<1>16. OneGood'
  BY <1>2, <1>6, <1>7 DEF IInv, OneGood, Accounts
<1>17. QED
  BY <1>9, <1>10, <1>11, <1>12, <1>13, <1>14, <1>15, <1>16 DEF IInv

LEMMA StoredStep == ASSUME IInv, Stored PROVE IInv'
<1>1. TypeOK /\ IInv
  BY DEF IInv
<1>2. on' = on /\ stored' = stored /\ pending' = pending /\ inventory' = inventory /\ marks' = marks /\ deployed' = deployed /\ faults' = faults /\ rotations' = rotations /\ job.at = "store" /\ job.todo = {}
  BY DEF Stored
<1>3. /\ job.task \in {"rotate", "check"} /\ job.account \in Accounts /\ job.targets \in Targets /\ job.got \subseteq Places
      /\ \A p \in job.targets : inventory[p] # 0
  BY <1>2, Fields DEF IInv, Deploys, InTransit
<1>4. /\ job' \in Jobs
      /\ \/ /\ job.account = "admin" /\ ~(job.task = "rotate" /\ Domain \in job.targets)
            /\ job'.at = "inventory" /\ job'.task = job.task /\ job'.account = job.account
            /\ job'.targets = job.targets /\ job'.new = job.new /\ job'.todo = job.todo /\ job'.got = job.got
         \/ /\ ~(job.account = "admin" /\ ~(job.task = "rotate" /\ Domain \in job.targets))
            /\ job'.at \in {"idle", "pair"} /\ (job'.at = "idle" => job'.task = "none")
            /\ job'.at = "pair" => job'.task = "check" /\ job'.targets = job.targets
  <2>1. CASE job.account = "admin" /\ ~(job.task = "rotate" /\ Domain \in job.targets)
    <3>1. Goes("inventory")
      BY <2>1 DEF Stored
    <3>2. QED
      BY <1>1, <2>1, <3>1, GoesFits
  <2>2. CASE ~(job.account = "admin" /\ ~(job.task = "rotate" /\ Domain \in job.targets))
    <3>1. (Goes("pair") /\ job.task = "check") \/ Ends
      BY <2>2 DEF Stored
    <3>2. CASE Goes("pair") /\ job.task = "check"
      BY <1>1, <2>2, <3>2, GoesFits
    <3>3. CASE Ends
      BY <2>2, <3>3, IdleFits DEF Ends
    <3>4. QED
      BY <3>1, <3>2, <3>3
  <2>3. QED
    BY <2>1, <2>2
<1>5. tried' \in [Places -> [Accounts -> Values]]
  <2>1. tried' = tried \/ tried' = [p \in Places |-> IF p \in job.got /\ on[p]["admin"] # job.new[p]
                                             THEN [tried[p] EXCEPT !["admin"] = 0] ELSE tried[p]]
    BY DEF Stored
  <2>2. tried \in [Places -> [Accounts -> Values]] /\ 0 \in Values
    BY <1>1, Fields DEF TypeOK
  <2>3. QED
    BY <2>1, <2>2
<1>6. \A p \in Places, a \in Accounts : Good(p, a)' <=> Good(p, a)
  BY <1>2 DEF Good, StoredPassword
<1>7. \A p \in Places : Able(p)' <=> Able(p)
  BY <1>2 DEF Able
<1>8. \A p \in Places, a \in Accounts : Changing(p, a) =>
         \/ Changing(p, a)'
         \/ Good(p, a)' /\ (a = "admin" => Able(p)')
  <2> SUFFICES ASSUME NEW p \in Places, NEW a \in Accounts, Changing(p, a)
               PROVE  Changing(p, a)' \/ (Good(p, a)' /\ (a = "admin" => Able(p)'))
    OBVIOUS
  <2>1. p \in job.got /\ a = job.account /\ on[p][a] = job.new[p]
    BY DEF Changing
  <2>2. job.new[p] # 0 /\ stored[p][a] = job.new[p]
    BY <1>2, <2>1 DEF IInv, InTransit
  <2>3. Good(p, a)
    BY <2>1, <2>2 DEF Good, StoredPassword
  <2>4. CASE job.account = "admin" /\ ~(job.task = "rotate" /\ Domain \in job.targets)
    BY <1>2, <1>4, <2>1, <2>4 DEF Changing
  <2>5. CASE job.account = "admin" /\ job.task = "rotate" /\ Domain \in job.targets
    <3>1. job.got = {Domain} /\ Able(Domain)
      BY <1>2, <2>5 DEF IInv, InTransit
    <3>2. QED
      BY <1>6, <1>7, <2>1, <2>3, <3>1
  <2>6. CASE job.account # "admin"
    BY <1>6, <2>1, <2>3, <2>6
  <2>7. QED
    BY <2>4, <2>5, <2>6
<1>9. TypeOK'
  BY <1>1, <1>2, <1>4, <1>5 DEF TypeOK
<1>10. Deploys'
  BY <1>2, <1>3, <1>4 DEF IInv, Deploys
<1>11. Tried'
  BY <1>3, <1>4, <1>5 DEF Tried
<1>12. InTransit'
  BY <1>2, <1>4 DEF IInv, InTransit
<1>13. Recovery'
  BY <1>3, <1>4, <1>5 DEF Recovery
<1>14. AbleIsGood'
  BY <1>2 DEF IInv, AbleIsGood, Able
<1>15. BothGood'
  BY <1>2, <1>6, <1>7, <1>8 DEF IInv, BothGood, Accounts
<1>16. OneGood'
  BY <1>2, <1>6, <1>7, <1>8 DEF IInv, OneGood, Accounts
<1>17. QED
  BY <1>9, <1>10, <1>11, <1>12, <1>13, <1>14, <1>15, <1>16 DEF IInv

LEMMA WriteInventoryStep == ASSUME IInv, WriteInventory PROVE IInv'
<1>1. TypeOK /\ IInv
  BY DEF IInv
<1>2. on' = on /\ stored' = stored /\ tried' = tried /\ pending' = pending /\ marks' = marks /\ deployed' = deployed /\ faults' = faults /\ rotations' = rotations /\ job.at = "inventory"
  BY DEF WriteInventory
<1>3. /\ job.task \in {"rotate", "check"} /\ job.account = "admin" /\ job.targets \in Targets /\ job.got \subseteq job.targets /\ job.targets \subseteq Places
      /\ \A p \in job.targets : inventory[p] # 0
      /\ \A p \in job.got : on[p]["admin"] = job.new[p] /\ p \notin job.todo => job.new[p] # 0 /\ stored[p]["admin"] = job.new[p]
      /\ \A p \in job.todo : on[p]["admin"] = job.new[p] /\ job.new[p] # 0
      /\ job.task = "rotate" /\ Domain \in job.targets => job.got = {Domain} /\ job.todo = {Domain}
      /\ ~(job.task = "rotate" /\ Domain \in job.targets) => job.todo = {}
  BY <1>2, Fields DEF IInv, Deploys, InTransit
<1>4. /\ job' \in Jobs
      /\ \/ /\ job.task = "rotate" /\ Domain \in job.targets
            /\ job'.at = "store" /\ job'.task = job.task /\ job'.account = job.account
            /\ job'.targets = job.targets /\ job'.new = job.new /\ job'.todo = job.todo /\ job'.got = job.got
         \/ /\ ~(job.task = "rotate" /\ Domain \in job.targets)
            /\ job'.at \in {"idle", "pair"} /\ (job'.at = "idle" => job'.task = "none")
            /\ job'.at = "pair" => job'.task = "check" /\ job'.targets = job.targets
  <2>1. CASE job.task = "rotate" /\ Domain \in job.targets
    <3>1. Goes("store")
      BY <2>1 DEF WriteInventory
    <3>2. QED
      BY <1>1, <2>1, <3>1, GoesFits
  <2>2. CASE ~(job.task = "rotate" /\ Domain \in job.targets)
    <3>1. (Goes("pair") /\ job.task = "check") \/ Ends
      BY <2>2 DEF WriteInventory
    <3>2. CASE Goes("pair") /\ job.task = "check"
      BY <1>1, <2>2, <3>2, GoesFits
    <3>3. CASE Ends
      BY <2>2, <3>3, IdleFits DEF Ends
    <3>4. QED
      BY <3>1, <3>2, <3>3
  <2>3. QED
    BY <2>1, <2>2
<1>5. /\ inventory' \in [Places -> Values]
      /\ \A p \in Places : \/ p \in job.got /\ on[p]["admin"] = job.new[p] /\ inventory'[p] = job.new[p]
                           \/ ~(p \in job.got /\ on[p]["admin"] = job.new[p]) /\ inventory'[p] = inventory[p]
  <2>1. inventory' = [p \in Places |-> IF p \in job.got /\ on[p]["admin"] = job.new[p] THEN job.new[p] ELSE inventory[p]]
    BY DEF WriteInventory
  <2>2. \A p \in Places : job.new[p] \in Values /\ inventory[p] \in Values
    BY <1>1, Fields
  <2>3. QED
    BY <2>1, <2>2
<1>6. \A p \in Places, a \in Accounts : Good(p, a) => Good(p, a)'
  BY <1>2, <1>5 DEF Good, StoredPassword
<1>7. \A p \in Places : Able(p) => Able(p)'
  BY <1>2, <1>5 DEF Able
<1>8. \A p \in Places, a \in Accounts : Changing(p, a) =>
         \/ Changing(p, a)'
         \/ Good(p, a)' /\ Able(p)' /\ a = "admin"
  <2> SUFFICES ASSUME NEW p \in Places, NEW a \in Accounts, Changing(p, a)
               PROVE  Changing(p, a)' \/ (Good(p, a)' /\ Able(p)' /\ a = "admin")
    OBVIOUS
  <2>1. p \in job.got /\ a = job.account /\ on[p][a] = job.new[p] /\ a = "admin"
    BY <1>3 DEF Changing
  <2>2. CASE job.task = "rotate" /\ Domain \in job.targets
    BY <1>2, <1>4, <2>1, <2>2 DEF Changing
  <2>3. CASE ~(job.task = "rotate" /\ Domain \in job.targets)
    <3>1. job.new[p] # 0 /\ stored[p]["admin"] = job.new[p] /\ inventory'[p] = job.new[p]
      BY <1>3, <1>5, <2>1, <2>3
    <3>2. QED
      BY <1>2, <2>1, <3>1 DEF Good, Able, StoredPassword
  <2>4. QED
    BY <2>2, <2>3
<1>9. TypeOK'
  BY <1>1, <1>2, <1>4, <1>5 DEF TypeOK
<1>10. Deploys'
  <2>1. \A p \in Places : inventory'[p] # 0 <=> inventory[p] # 0
    BY <1>3, <1>5
  <2>2. \A m \in Members : m \in Places
    BY <1>1, Fields
  <2>3. QED
    BY <1>2, <1>3, <1>4, <2>1, <2>2 DEF IInv, Deploys
<1>11. Tried'
  BY <1>3, <1>4, <1>5 DEF Tried
<1>12. InTransit'
  <2>1. CASE job'.at \in {"store", "clear", "inventory"}
    <3>1. /\ job.task = "rotate" /\ Domain \in job.targets /\ job.got = {Domain} /\ job.todo = {Domain}
          /\ job'.at = "store" /\ job'.task = job.task /\ job'.account = job.account
          /\ job'.targets = job.targets /\ job'.new = job.new /\ job'.todo = job.todo /\ job'.got = job.got
      BY <1>3, <1>4, <2>1
    <3>2. on[Domain]["admin"] = job.new[Domain] /\ job.new[Domain] # 0 /\ tried[Domain]["admin"] = job.new[Domain]
      BY <1>2, <1>3, <3>1 DEF IInv, InTransit
    <3>3. Able(Domain)'
      BY <1>1, <1>2, <1>5, <3>1, <3>2, Fields DEF Able
    <3>4. QED
      BY <1>2, <1>3, <3>1, <3>2, <3>3 DEF InTransit
  <2>2. CASE job'.at \notin {"store", "clear", "inventory"}
    BY <2>2 DEF InTransit
  <2>3. QED
    BY <2>1, <2>2
<1>13. Recovery'
  BY <1>3, <1>4, <1>5 DEF Recovery
<1>14. AbleIsGood'
  <2> SUFFICES ASSUME NEW m \in Members, inventory'[m] # 0, Able(m)' PROVE on'[m]["admin"] = stored'[m]["admin"]
    BY DEF AbleIsGood
  <2>1. m \in Places /\ m # Domain
    BY <1>1, Fields
  <2>2. CASE m \in job.got /\ on[m]["admin"] = job.new[m]
    BY <1>2, <1>3, <2>1, <2>2
  <2>3. CASE ~(m \in job.got /\ on[m]["admin"] = job.new[m])
    <3>1. Able(m)
      BY <1>2, <1>5, <2>1, <2>3 DEF Able
    <3>2. inventory[m] # 0
      BY <1>5, <2>1, <2>3
    <3>3. QED
      BY <1>2, <3>1, <3>2 DEF IInv, AbleIsGood
  <2>4. QED
    BY <2>2, <2>3
<1>15. BothGood'
  <2>1. \A p \in Places : inventory'[p] # 0 => inventory[p] # 0
    BY <1>3, <1>5
  <2>2. QED
    BY <1>2, <1>6, <1>7, <1>8, <2>1 DEF IInv, BothGood, Accounts
<1>16. OneGood'
  <2>1. \A p \in Places : inventory'[p] # 0 => inventory[p] # 0
    BY <1>3, <1>5
  <2>2. QED
    BY <1>2, <1>6, <1>7, <1>8, <2>1 DEF IInv, OneGood, Accounts
<1>17. QED
  BY <1>9, <1>10, <1>11, <1>12, <1>13, <1>14, <1>15, <1>16 DEF IInv

-----------------------------------------------------------------------------
(* A check and what it repairs; a worker that dies or is taken for dead.   *)

LEMMA StartCheckStep == ASSUME IInv, NEW a \in Accounts, NEW targets \in Targets, StartCheck(a, targets) PROVE IInv'
<1>1. TypeOK /\ IInv
  BY DEF IInv
<1>2. on' = on /\ stored' = stored /\ tried' = tried /\ pending' = pending /\ inventory' = inventory /\ marks' = marks /\ deployed' = deployed /\ rotations' = rotations /\ job.at = "idle" /\ \A p \in targets : inventory[p] # 0
  BY DEF StartCheck, Listed
<1>3. PICK up \in SUBSET targets, adopted \in SUBSET targets :
        /\ \A p \in adopted : tried[p][a] # 0 /\ on[p][a] = tried[p][a]
        /\ Fault(up # targets)
        /\ job' = [Idle EXCEPT !.at = IF adopted = {} THEN "pair" ELSE "store", !.task = "check",
                        !.account = a, !.targets = targets, !.todo = adopted, !.got = adopted,
                        !.new = [p \in Places |-> IF p \in adopted THEN tried[p][a] ELSE 0]]
  <2>1. PICK up \in SUBSET targets :
          /\ Fault(up # targets)
          /\ job' = [Idle EXCEPT !.at = IF {p \in up : tried[p][a] # 0 /\ on[p][a] = tried[p][a]} = {} THEN "pair" ELSE "store",
                          !.task = "check", !.account = a, !.targets = targets,
                          !.todo = {p \in up : tried[p][a] # 0 /\ on[p][a] = tried[p][a]},
                          !.got = {p \in up : tried[p][a] # 0 /\ on[p][a] = tried[p][a]},
                          !.new = [p \in Places |-> IF p \in {q \in up : tried[q][a] # 0 /\ on[q][a] = tried[q][a]}
                                                    THEN tried[p][a] ELSE 0]]
    BY DEF StartCheck
  <2>2. PICK adopted \in SUBSET up : adopted = {p \in up : tried[p][a] # 0 /\ on[p][a] = tried[p][a]}
    OBVIOUS
  <2>3. \A p \in adopted : tried[p][a] # 0 /\ on[p][a] = tried[p][a]
    BY <2>2
  <2>4. QED
    BY <2>1, <2>2, <2>3
<1>4. faults' \in {faults, faults + 1} /\ faults' <= MaxFaults /\ faults \in Nat /\ MaxFaults \in Nat
  <2>1. (up # targets) \in BOOLEAN /\ Fault(up # targets)
    BY <1>3
  <2>2. \A w \in BOOLEAN : Fault(w) => faults' \in {faults, faults + 1} /\ faults' <= MaxFaults
    BY <1>1, Fields DEF Fault
  <2>3. QED
    BY <1>1, <2>1, <2>2, Fields
<1>5. targets \subseteq Places /\ adopted \subseteq targets
  <2>1. targets \subseteq Places
    BY DEF Targets, Places
  <2>2. QED
    BY <1>3, <2>1
<1>6. /\ job' \in Jobs /\ job'.at \in {"pair", "store"} /\ job'.task = "check" /\ job'.account = a /\ job'.targets = targets
      /\ job'.todo = adopted /\ job'.got = adopted /\ \A p \in adopted : job'.new[p] = tried[p][a]
  <2> DEFINE new == [p \in Places |-> IF p \in adopted THEN tried[p][a] ELSE 0]
             at == IF adopted = {} THEN "pair" ELSE "store"
  <2>1. new \in [Places -> Values] /\ \A p \in adopted : new[p] = tried[p][a]
    BY <1>1, <1>5, Fields
  <2>2. at \in {"pair", "store"}
    OBVIOUS
  <2>3. job' = [Idle EXCEPT !.at = at, !.task = "check", !.account = a, !.targets = targets, !.todo = adopted,
                            !.got = adopted, !.new = new]
    BY <1>3
  <2>4. adopted \in SUBSET Places /\ targets \in SUBSET Places
    BY <1>5
  <2> HIDE DEF new, at
  <2>5. QED
    BY <2>1, <2>2, <2>3, <2>4, IdleFits DEF Jobs
<1>7. \A p \in Places, b \in Accounts : ~Changing(p, b) /\ (Good(p, b)' <=> Good(p, b))
  BY <1>2 DEF Changing, Good, StoredPassword
<1>8. \A p \in Places : Able(p)' <=> Able(p)
  BY <1>2 DEF Able
<1>9. TypeOK'
  BY <1>1, <1>2, <1>4, <1>6 DEF TypeOK
<1>10. Deploys'
  BY <1>2, <1>6 DEF IInv, Deploys
<1>11. Tried'
  BY <1>6, <1>7 DEF IInv, Tried
<1>12. InTransit'
  <2>1. \A p \in adopted : tried[p][a] # 0 /\ on[p][a] = tried[p][a] /\ job'.new[p] = tried[p][a]
    BY <1>3, <1>6
  <2>2. QED
    BY <1>2, <1>5, <1>6, <2>1 DEF InTransit
<1>13. Recovery'
  BY <1>6, <1>7 DEF IInv, Recovery
<1>14. AbleIsGood'
  BY <1>2 DEF IInv, AbleIsGood, Able
<1>15. BothGood'
  BY <1>2, <1>4, <1>7, <1>8 DEF IInv, BothGood, Accounts
<1>16. OneGood'
  BY <1>2, <1>4, <1>7, <1>8 DEF IInv, OneGood, Accounts
<1>17. QED
  BY <1>9, <1>10, <1>11, <1>12, <1>13, <1>14, <1>15, <1>16 DEF IInv

(* A held password that is set again takes nothing away. *)
LEMMA SetAgainStep ==
    ASSUME IInv, job.at \in {"pair", "domain"}, NEW done \in SUBSET job.targets,
           \A p \in done : StoredPassword(p, job.account) # 0,
           on' = [p \in Places |-> IF p \in done THEN [on[p] EXCEPT ![job.account] = StoredPassword(p, job.account)] ELSE on[p]],
           UNCHANGED <<stored, tried, pending, inventory, marks, deployed, rotations>>,
           faults' \in {faults, faults + 1}, faults' <= MaxFaults,
           Ends \/ (Goes("domain") /\ job.account = "admin" /\ job.targets = Members)
    PROVE  IInv'
<1>1. TypeOK /\ IInv
  BY DEF IInv
<1>2. /\ job.task = "check" /\ job.targets \in Targets /\ job.targets \subseteq Places /\ job.account \in Accounts
      /\ \A p \in job.targets : inventory[p] # 0
      /\ faults \in Nat /\ MaxFaults \in Nat
  BY <1>1, Fields DEF IInv, Deploys, Recovery
<1>3. /\ job' \in Jobs /\ job'.at \in {"idle", "domain"} /\ (job'.at = "idle" => job'.task = "none")
      /\ job'.at = "domain" => job'.task = "check" /\ job'.account = "admin" /\ job'.targets = Members
  <2>1. CASE Ends
    BY <2>1, IdleFits DEF Ends
  <2>2. CASE Goes("domain") /\ job.account = "admin" /\ job.targets = Members
    BY <1>1, <1>2, <2>2, GoesFits
  <2>3. QED
    BY <2>1, <2>2
<1>4. /\ on' \in [Places -> [Accounts -> Values]]
      /\ \A p \in done : /\ on'[p][job.account] = StoredPassword(p, job.account)
                         /\ \A b \in Accounts : b # job.account => on'[p][b] = on[p][b]
      /\ \A p \in Places : p \notin done => on'[p] = on[p]
  <2>1. \A p \in Places : on[p] \in [Accounts -> Values] /\ StoredPassword(p, job.account) \in Values
    BY <1>1, <1>2, Fields DEF TypeOK, StoredPassword
  <2>2. \A p \in done : p \in Places
    BY <1>2
  <2>3. QED
    BY <1>2, <2>1, <2>2
<1>5. \A p \in Places, a \in Accounts : ~Changing(p, a)
  BY DEF Changing
<1>6. \A p \in done, a \in Accounts : a = job.account => Good(p, a)'
  BY <1>2, <1>4 DEF Good, StoredPassword
<1>7. \A p \in Places, a \in Accounts : Good(p, a) => Good(p, a)'
  <2> SUFFICES ASSUME NEW p \in Places, NEW a \in Accounts, Good(p, a) PROVE Good(p, a)'
    OBVIOUS
  <2>1. CASE p \in done /\ a = job.account
    BY <1>6, <2>1
  <2>2. CASE ~(p \in done /\ a = job.account)
    <3>1. on'[p][a] = on[p][a]
      BY <1>4, <2>2
    <3>2. QED
      BY <3>1 DEF Good, StoredPassword
  <2>3. QED
    BY <2>1, <2>2
<1>8. \A p \in Places : Good(p, "admin") /\ Able(p) => Able(p)'
  <2> SUFFICES ASSUME NEW p \in Places, Good(p, "admin"), Able(p) PROVE Able(p)'
    OBVIOUS
  <2>1. "admin" \in Accounts
    BY DEF Accounts
  <2>2. on'[p]["admin"] = on[p]["admin"]
    <3>1. CASE p \in done /\ job.account = "admin"
      BY <1>4, <3>1 DEF Good
    <3>2. CASE ~(p \in done /\ job.account = "admin")
      BY <1>4, <2>1, <3>2
    <3>3. QED
      BY <3>1, <3>2
  <2>3. QED
    BY <2>2 DEF Able
<1>9. TypeOK'
  BY <1>1, <1>3, <1>4 DEF TypeOK
<1>10. Deploys'
  <2>1. job'.at = "domain" => job'.targets = job.targets
    BY <1>1, GoesFits, IdleFits DEF Ends
  <2>2. QED
    BY <1>1, <1>2, <1>3, <2>1 DEF IInv, Deploys
<1>11. Tried'
  BY <1>3, <1>4, <1>5 DEF Tried
<1>12. InTransit'
  BY <1>3 DEF InTransit
<1>13. Recovery'
  BY <1>3 DEF Recovery, Targets
<1>14. AbleIsGood'
  <2> SUFFICES ASSUME NEW m \in Members, inventory'[m] # 0, Able(m)' PROVE on'[m]["admin"] = stored'[m]["admin"]
    BY DEF AbleIsGood
  <2>1. m \in Places /\ "admin" \in Accounts /\ stored[m]["admin"] # 0
    BY <1>1, <1>2, Fields DEF IInv, Deploys
  <2>2. CASE m \in done /\ job.account = "admin"
    BY <1>4, <2>1, <2>2 DEF StoredPassword
  <2>3. CASE ~(m \in done /\ job.account = "admin")
    <3>1. on'[m]["admin"] = on[m]["admin"]
      BY <1>4, <2>1, <2>3
    <3>2. Able(m)
      BY <3>1 DEF Able
    <3>3. QED
      BY <3>1, <3>2 DEF IInv, AbleIsGood
  <2>4. QED
    BY <2>2, <2>3
<1>15. BothGood'
  BY <1>2, <1>5, <1>7, <1>8 DEF IInv, BothGood, Accounts
<1>16. OneGood'
  BY <1>2, <1>5, <1>7, <1>8 DEF IInv, OneGood, Accounts
<1>17. QED
  BY <1>9, <1>10, <1>11, <1>12, <1>13, <1>14, <1>15, <1>16 DEF IInv

LEMMA PairResetsStep == ASSUME IInv, PairResets PROVE IInv'
<1>1. TypeOK /\ job.at = "pair" /\ UNCHANGED <<stored, tried, pending, inventory, marks, deployed, rotations>>
  BY DEF IInv, PairResets
<1> DEFINE able == IF \A p \in job.targets : StoredPassword(p, job.account) # 0
                   THEN SetAgain(Other(job.account), job.account) ELSE {}
<1>2. PICK done \in SUBSET able :
         /\ on' = [p \in Places |-> IF p \in done THEN [on[p] EXCEPT ![job.account] = StoredPassword(p, job.account)] ELSE on[p]]
         /\ Fault(done # able)
         /\ IF done # job.targets /\ job.account = "admin" /\ job.targets = Members THEN Goes("domain") ELSE Ends
  BY DEF PairResets
<1>3. done \subseteq job.targets /\ \A p \in done : StoredPassword(p, job.account) # 0
  BY <1>2 DEF SetAgain
<1>4. faults' \in {faults, faults + 1} /\ faults' <= MaxFaults
  <2>1. (done # able) \in BOOLEAN /\ Fault(done # able)
    BY <1>2
  <2>2. \A w \in BOOLEAN : Fault(w) => faults' \in {faults, faults + 1} /\ faults' <= MaxFaults
    BY <1>1, Fields DEF Fault
  <2> HIDE DEF able
  <2>3. QED
    BY <2>1, <2>2
<1>5. Ends \/ (Goes("domain") /\ job.account = "admin" /\ job.targets = Members)
  BY <1>2
<1>6. on' = [p \in Places |-> IF p \in done THEN [on[p] EXCEPT ![job.account] = StoredPassword(p, job.account)] ELSE on[p]]
  BY <1>2
<1> HIDE DEF able
<1>7. QED
  BY <1>1, <1>3, <1>4, <1>5, <1>6, SetAgainStep

LEMMA DomainResetsStep == ASSUME IInv, DomainResets PROVE IInv'
<1>1. /\ TypeOK /\ job.at = "domain" /\ UNCHANGED <<stored, tried, pending, inventory, marks, deployed, rotations>>
      /\ job.account = "admin" /\ job.targets = Members /\ Ends
      /\ \A m \in Members : stored[m]["admin"] # 0
  <2>1. job.at = "domain" /\ job.targets = Members /\ \A p \in job.targets : inventory[p] # 0
    BY DEF IInv, DomainResets, Recovery, Deploys
  <2>2. \A m \in Members : stored[m]["admin"] # 0
    BY <2>1 DEF IInv, Deploys
  <2>3. QED
    BY <2>1, <2>2 DEF IInv, DomainResets, Recovery
<1> DEFINE able == IF on[Domain]["admin"] = inventory[Domain] THEN Members ELSE {}
<1>2. PICK done \in SUBSET able :
         /\ on' = [p \in Places |-> IF p \in done THEN [on[p] EXCEPT !["admin"] = StoredPassword(p, "admin")] ELSE on[p]]
         /\ Fault(done # able)
  BY DEF DomainResets
<1>3. done \subseteq job.targets /\ \A p \in done : StoredPassword(p, job.account) # 0
  BY <1>1, <1>2 DEF StoredPassword
<1>4. faults' \in {faults, faults + 1} /\ faults' <= MaxFaults
  <2>1. (done # able) \in BOOLEAN /\ Fault(done # able)
    BY <1>2
  <2>2. \A w \in BOOLEAN : Fault(w) => faults' \in {faults, faults + 1} /\ faults' <= MaxFaults
    BY <1>1, Fields DEF Fault
  <2> HIDE DEF able
  <2>3. QED
    BY <2>1, <2>2
<1>5. on' = [p \in Places |-> IF p \in done THEN [on[p] EXCEPT ![job.account] = StoredPassword(p, job.account)] ELSE on[p]]
  BY <1>1, <1>2
<1> HIDE DEF able
<1>6. QED
  BY <1>1, <1>3, <1>4, <1>5, SetAgainStep

LEMMA WorkerDiesStep == ASSUME IInv, WorkerDies PROVE IInv'
<1>1. TypeOK /\ IInv
  BY DEF IInv
<1>2. on' = on /\ stored' = stored /\ tried' = tried /\ pending' = pending /\ inventory' = inventory /\ marks' = marks /\ deployed' \in BOOLEAN /\ rotations' = rotations /\ faults' = faults + 1 /\ faults' <= MaxFaults /\ faults \in Nat
  BY <1>1, Fields DEF WorkerDies, Fault
<1>3. job' \in Jobs /\ job'.at = "idle" /\ job'.task = "none"
  BY IdleFits DEF WorkerDies, Ends
<1>4. \A p \in Places, a \in Accounts : Good(p, a)' <=> Good(p, a)
  BY <1>2 DEF Good, StoredPassword
<1>5. \A p \in Places : Able(p)' <=> Able(p)
  BY <1>2 DEF Able
<1>6. \A p \in Places : ~(Changing(p, "admin") /\ Changing(p, "admin2"))
  BY DEF Changing
<1>7. TypeOK'
  BY <1>1, <1>2, <1>3, <1>4 DEF TypeOK
<1>8. Deploys'
  BY <1>2, <1>3 DEF IInv, Deploys
<1>9. Tried'
  BY <1>3, <1>4 DEF Tried
<1>10. InTransit'
  BY <1>3 DEF InTransit
<1>11. Recovery'
  BY <1>3, <1>4 DEF Recovery
<1>12. AbleIsGood'
  BY <1>2 DEF IInv, AbleIsGood, Able
<1>13. BothGood'
  BY <1>2 DEF BothGood
<1>14. OneGood'
  <2> SUFFICES ASSUME faults = 0, NEW p \in Places, inventory[p] # 0 PROVE Good(p, "admin2")' \/ (Good(p, "admin")' /\ Able(p)')
    BY <1>2 DEF OneGood
  <2>1. /\ Good(p, "admin2") \/ Changing(p, "admin2")
        /\ (Good(p, "admin") /\ Able(p)) \/ Changing(p, "admin")
    BY <1>1 DEF IInv, BothGood
  <2>2. QED
    BY <1>4, <1>5, <1>6, <2>1 DEF Accounts
<1>15. QED
  BY <1>7, <1>8, <1>9, <1>10, <1>11, <1>12, <1>13, <1>14 DEF IInv

LEMMA TakenForDeadStep == ASSUME IInv, TakenForDead PROVE IInv'
<1>1. TypeOK /\ IInv
  BY DEF IInv
<1>2. on' = on /\ stored' = stored /\ tried' = tried /\ pending' = pending /\ inventory' = inventory /\ marks' = marks /\ deployed' = FALSE /\ job' = job /\ rotations' = rotations /\ faults' = faults + 1 /\ faults' <= MaxFaults /\ faults \in Nat
  BY <1>1, Fields DEF TakenForDead, Fault
<1>3. \A p \in Places, a \in Accounts : (Good(p, a)' <=> Good(p, a)) /\ (Changing(p, a)' <=> Changing(p, a))
  BY <1>2 DEF Good, StoredPassword, Changing
<1>4. \A p \in Places : Able(p)' <=> Able(p)
  BY <1>2 DEF Able
<1>5. TypeOK'
  <2>1. faults' \in 0..MaxFaults
    BY <1>2
  <2>2. FALSE \in BOOLEAN
    OBVIOUS
  <2>3. QED
    BY <1>1, <1>2, <2>1, <2>2, Zenon DEF TypeOK
<1>6. Deploys'
  BY <1>2 DEF IInv, Deploys, Succeeded, SignsInWith
<1>7. Tried' /\ InTransit' /\ Recovery' /\ AbleIsGood'
  BY <1>2 DEF IInv, Tried, InTransit, Recovery, AbleIsGood, Able
<1>8. BothGood'
  BY <1>2 DEF BothGood
<1>9. OneGood'
  <2> SUFFICES ASSUME faults = 0, NEW p \in Places, inventory[p] # 0
               PROVE  Good(p, "admin2")' \/ (Good(p, "admin")' /\ Able(p)') \/ \E a \in Accounts : Changing(p, a)'
    BY <1>2 DEF OneGood
  <2>1. Good(p, "admin2") \/ Changing(p, "admin2")
    BY <1>1 DEF IInv, BothGood
  <2>2. QED
    BY <1>3, <2>1 DEF Accounts
<1>10. QED
  BY <1>5, <1>6, <1>7, <1>8, <1>9 DEF IInv

LEMMA Stutters == ASSUME IInv, UNCHANGED vars PROVE IInv'
BY DEF IInv, vars, TypeOK, Deploys, Succeeded, SignsInWith, Tried, InTransit, Recovery, AbleIsGood, Able, BothGood, OneGood,
       Good, StoredPassword, Changing

-----------------------------------------------------------------------------
(* The theorems.                                                           *)

\* Every step of a deploy, a rotation and a check, and a worker that dies or is taken for dead, keep the inductive invariant.
THEOREM NextIInv == IInv /\ [Next]_vars => IInv'
<1> SUFFICES ASSUME IInv, [Next]_vars PROVE IInv'
  OBVIOUS
<1>1. CASE DeployPrepares \/ DeployRuns \/ Promote \/ DeployCollects \/ DeployEnds
  BY <1>1, DeployPreparesStep, DeployRunsStep, PromoteStep, DeployCollectsStep, DeployEndsStep
<1>2. ASSUME NEW a \in Accounts, NEW targets \in Targets, StartRotation(a, targets) \/ StartCheck(a, targets)
      PROVE  IInv'
  BY <1>2, StartRotationStep, StartCheckStep
<1>3. CASE SetPassword \/ Store \/ ClearTried \/ Stored \/ WriteInventory
  BY <1>3, SetPasswordStep, StoreStep, ClearTriedStep, StoredStep, WriteInventoryStep
<1>4. CASE PairResets \/ DomainResets \/ WorkerDies \/ TakenForDead
  BY <1>4, PairResetsStep, DomainResetsStep, WorkerDiesStep, TakenForDeadStep
<1>5. CASE UNCHANGED vars
  BY <1>5, Stutters
<1>6. QED
  BY <1>1, <1>2, <1>3, <1>4, <1>5 DEF Next, JobStep

\* What a deploy gives, what a rotation tries and stores, what the inventory holds and which accounts
\* are good fit together in every reachable state.
THEOREM Invariance == Spec => []IInv
<1>1. Init => IInv
  BY InitIInv
<1>2. IInv /\ [Next]_vars => IInv'
  BY NextIInv
<1>3. QED
  BY <1>1, <1>2, PTL DEF Spec

\* Every variable keeps its type, for any members and any number of rotations and faults; a listed
\* member has no pending password left, so a new one always differs from all that are held of an
\* account (vm_passwords.py, vmaccess.py:216).
THEOREM TypeCorrect == Spec => []TypeOK
<1>1. IInv => TypeOK
  BY DEF IInv
<1>2. QED
  BY <1>1, Invariance, PTL

\* One fault, wherever it comes in a deploy, a rotation or a recovery, leaves every machine that was once
\* deployed an administrator that signs in with a password LABaPe holds or tried last: the reason of the pairs.
THEOREM OneFaultIsSurvivedAlways == Spec => []OneFaultIsSurvived
<1>1. IInv => OneFaultIsSurvived
  <2> SUFFICES ASSUME IInv, faults <= 1, NEW p \in Places, inventory[p] # 0 PROVE \E a \in Accounts : SignsIn(p, a)
    BY DEF OneFaultIsSurvived
  <2>1. \A a \in Accounts : Good(p, a) => SignsIn(p, a)
    BY DEF Good, SignsIn
  <2>2. ASSUME NEW a \in Accounts, Changing(p, a) PROVE SignsIn(p, a)
    <3>1. job.at \in {"store", "clear", "inventory"} /\ a = job.account /\ p \in job.got /\ on[p][a] = job.new[p]
      BY <2>2 DEF Changing
    <3>2. CASE p \in job.todo
      BY <3>1, <3>2 DEF IInv, InTransit, SignsIn
    <3>3. CASE p \notin job.todo
      <4>1. job.new[p] # 0 /\ stored[p][a] = job.new[p]
        BY <3>1, <3>3 DEF IInv, InTransit
      <4>2. QED
        BY <3>1, <4>1 DEF SignsIn, StoredPassword
    <3>4. QED
      BY <3>2, <3>3
  <2>3. Good(p, "admin2") \/ Good(p, "admin") \/ \E a \in Accounts : Changing(p, a)
    BY DEF IInv, OneGood
  <2>4. QED
    BY <2>1, <2>2, <2>3 DEF Accounts
<1>2. QED
  BY <1>1, Invariance, PTL

\* Nothing is stored as a machine's Administrator password that the machine does not have: a deploy
\* promotes what its markers say was set, a rotation and a check store what signed in.
THEOREM StoresOnlyWhatItHas == Spec => OnlyWhatItHas
<1> DEFINE Had == \A p \in Places : stored'[p]["admin"] # stored[p]["admin"] => stored'[p]["admin"] = on[p]["admin"]
<1>1. IInv /\ [Next]_vars => [Had]_vars
  <2> SUFFICES ASSUME IInv, Next PROVE Had
    OBVIOUS
  <2> SUFFICES ASSUME NEW p \in Places, stored'[p]["admin"] # stored[p]["admin"] PROVE stored'[p]["admin"] = on[p]["admin"]
    OBVIOUS
  <2>1. TypeOK /\ "admin" \in Accounts /\ "admin2" \in Accounts
    BY DEF IInv, Accounts
  <2>2. stored \in [Places -> [Accounts -> Values]]
    BY <2>1 DEF TypeOK
  <2>3. CASE DeployPrepares
    <3>1. stored' = [q \in Places |-> [stored[q] EXCEPT !["admin2"] = IF stored[q]["admin2"] = 0 THEN Fresh(q, "admin2") ELSE stored[q]["admin2"]]]
      BY <2>3 DEF DeployPrepares
    <3>2. QED
      BY <2>1, <2>2, <3>1
  <2>4. CASE Promote
    <3>1. PICK m \in job.todo : stored' = [stored EXCEPT ![m]["admin"] = pending[m]]
      BY <2>4 DEF Promote
    <3>2. job.at = "promote" /\ on[m]["admin"] = pending[m]
      BY <2>4, <3>1 DEF Promote, IInv, Deploys
    <3>3. QED
      BY <2>1, <2>2, <3>1, <3>2
  <2>5. CASE Store
    <3>1. PICK q \in job.todo : stored' = [stored EXCEPT ![q][job.account] = job.new[q]]
      BY <2>5 DEF Store
    <3>2. job.at = "store" /\ on[q][job.account] = job.new[q] /\ job.account \in Accounts
      BY <2>5, Fields DEF Store, IInv, InTransit
    <3>3. QED
      BY <2>1, <2>2, <3>1, <3>2
  <2>6. CASE stored' = stored
    BY <2>6
  <2>7. QED
    BY <2>3, <2>4, <2>5, <2>6 DEF Next, JobStep, DeployRuns, DeployCollects, DeployEnds, SetPassword, ClearTried, Stored, WriteInventory,
       PairResets, DomainResets, WorkerDies, TakenForDead, StartRotation, StartCheck
<1>2. QED
  BY <1>1, Invariance, PTL DEF Spec, OnlyWhatItHas

=============================================================================
