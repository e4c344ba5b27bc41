------------------------ MODULE PlatformSecretsProofs ------------------------
(***************************************************************************)
(* Rotations of the platform's secrets, for any list of hosts, any number  *)
(* of kept values, rotations and faults: what the stored value opens while *)
(* a rotation runs and after it failed.                                    *)
(***************************************************************************)
EXTENDS PlatformSecrets, SequenceTheorems, TLAPS

-----------------------------------------------------------------------------
(* Sequences: an element taken out, and the newest ones kept.              *)

LEMMA RemoveFirstFits ==
    ASSUME NEW S, NEW s \in Seq(S), IsInjective(s), NEW e
    PROVE  /\ RemoveFirst(s, e) \in Seq(S)
           /\ \A i \in DOMAIN RemoveFirst(s, e) : \E j \in DOMAIN s : RemoveFirst(s, e)[i] = s[j]
           /\ IsInjective(RemoveFirst(s, e))
           /\ \A i \in DOMAIN RemoveFirst(s, e) : RemoveFirst(s, e)[i] # e
<1>1. CASE ~\E i \in 1..Len(s) : s[i] = e
  BY <1>1 DEF RemoveFirst, IsInjective
<1>2. CASE \E i \in 1..Len(s) : s[i] = e
  <2> DEFINE I == {i \in 1..Len(s) : s[i] = e}
  <2>1. PICK k \in 1..Len(s) : s[k] = e
    BY <1>2
  <2>2. k \in 1..Len(s) /\ s[k] = e /\ Len(s) \in Nat /\ DOMAIN s = 1..Len(s)
    BY <2>1
  <2>3. I = {k} /\ Min(I) = k
    BY <2>2 DEF Min, IsInjective
  <2>4. RemoveFirst(s, e) = SubSeq(s, 1, k - 1) \o SubSeq(s, k + 1, Len(s))
    BY <1>2, <2>3 DEF RemoveFirst, RemoveAt, SelectInSeq
  <2>5. /\ SubSeq(s, 1, k - 1) \in Seq(S) /\ Len(SubSeq(s, 1, k - 1)) = k - 1
        /\ \A i \in 1..(k - 1) : SubSeq(s, 1, k - 1)[i] = s[i]
    BY <2>2, SubSeqProperties
  <2>6. /\ SubSeq(s, k + 1, Len(s)) \in Seq(S) /\ Len(SubSeq(s, k + 1, Len(s))) = Len(s) - k
        /\ \A i \in 1..(Len(s) - k) : SubSeq(s, k + 1, Len(s))[i] = s[k + i]
    <3>1. k + 1 \in Int /\ Len(s) \in Int /\ \A i \in (k + 1)..Len(s) : s[i] \in S
      BY <2>2
    <3>2. /\ SubSeq(s, k + 1, Len(s)) \in Seq(S)
          /\ Len(SubSeq(s, k + 1, Len(s))) = IF k + 1 <= Len(s) THEN Len(s) - (k + 1) + 1 ELSE 0
          /\ \A i \in 1..(Len(s) - (k + 1) + 1) : SubSeq(s, k + 1, Len(s))[i] = s[(k + 1) + i - 1]
      BY <3>1, SubSeqProperties
    <3>3. \A i \in 1..(Len(s) - k) : i \in 1..(Len(s) - (k + 1) + 1) /\ (k + 1) + i - 1 = k + i
      BY <2>2
    <3>4. \A i \in 1..(Len(s) - k) : SubSeq(s, k + 1, Len(s))[i] = s[k + i]
      BY <3>2, <3>3
    <3>5. Len(SubSeq(s, k + 1, Len(s))) = Len(s) - k
      <4>1. Len(s) \in Nat /\ k \in Nat /\ k <= Len(s)
        BY <2>2
      <4>2. (IF k + 1 <= Len(s) THEN Len(s) - (k + 1) + 1 ELSE 0) = Len(s) - k
        BY <4>1
      <4>3. QED
        BY <3>2, <4>2
    <3>6. QED
      BY <3>2, <3>4, <3>5
  <2> DEFINE r == RemoveFirst(s, e)
  <2>7. /\ r \in Seq(S) /\ Len(r) = (k - 1) + (Len(s) - k)
        /\ \A i \in 1..((k - 1) + (Len(s) - k)) :
              r[i] = IF i <= k - 1 THEN SubSeq(s, 1, k - 1)[i] ELSE SubSeq(s, k + 1, Len(s))[i - (k - 1)]
    <3>1. PICK u \in Seq(S) : u = SubSeq(s, 1, k - 1) /\ Len(u) = k - 1
      BY <2>5
    <3>2. PICK v \in Seq(S) : v = SubSeq(s, k + 1, Len(s)) /\ Len(v) = Len(s) - k
      BY <2>6
    <3>3. /\ u \o v \in Seq(S) /\ Len(u \o v) = Len(u) + Len(v)
          /\ \A i \in 1..(Len(u) + Len(v)) : (u \o v)[i] = IF i <= Len(u) THEN u[i] ELSE v[i - Len(u)]
      BY ConcatProperties
    <3>4. r = u \o v
      BY <2>4, <3>1, <3>2
    <3> HIDE DEF r
    <3>5. /\ r \in Seq(S) /\ Len(r) = (k - 1) + (Len(s) - k)
          /\ \A i \in 1..((k - 1) + (Len(s) - k)) : r[i] = IF i <= k - 1 THEN u[i] ELSE v[i - (k - 1)]
      BY <3>1, <3>2, <3>3, <3>4
    <3>6. QED
      BY <3>1, <3>2, <3>5
  <2>8. DOMAIN r = 1..(Len(s) - 1)
    BY <2>2, <2>7
  <2>9. \A i \in DOMAIN r : r[i] = IF i <= k - 1 THEN s[i] ELSE s[i + 1]
    <3> SUFFICES ASSUME NEW i \in DOMAIN r PROVE r[i] = IF i <= k - 1 THEN s[i] ELSE s[i + 1]
      OBVIOUS
    <3>1. i \in 1..(Len(s) - 1) /\ i \in 1..((k - 1) + (Len(s) - k))
      BY <2>2, <2>8
    <3>2. CASE i <= k - 1
      BY <2>5, <2>7, <3>1, <3>2, SMTT(30)
    <3>3. CASE ~(i <= k - 1)
      <4>1. i - (k - 1) \in 1..(Len(s) - k) /\ k + (i - (k - 1)) = i + 1
        BY <2>2, <3>1, <3>3
      <4>2. QED
        BY <2>6, <2>7, <3>1, <3>3, <4>1
    <3>4. QED
      BY <3>2, <3>3
  <2>10. \A i, j \in DOMAIN r : r[i] = r[j] => i = j
    BY <2>2, <2>8, <2>9 DEF IsInjective
  <2>11. \A i \in DOMAIN r : r[i] # e /\ \E j \in DOMAIN s : r[i] = s[j]
    BY <2>2, <2>8, <2>9 DEF IsInjective
  <2>12. QED
    BY <2>7, <2>10, <2>11 DEF IsInjective
<1>3. QED
  BY <1>1, <1>2

\* The value in use before the earlier ones, the newest n of them.
LEMMA NewestFits ==
    ASSUME NEW S, NEW e \in S, NEW s \in Seq(S), NEW n \in Nat \ {0},
           NEW t, t = SubSeq(<<e>> \o s, 1, IF Len(<<e>> \o s) < n THEN Len(<<e>> \o s) ELSE n)
    PROVE  /\ t \in Seq(S) /\ Len(t) <= n
           /\ \A i \in DOMAIN t : (i = 1 /\ t[i] = e) \/ (i - 1 \in DOMAIN s /\ t[i] = s[i - 1])
<1>1. <<e>> \in Seq(S) /\ Len(<<e>>) = 1 /\ <<e>>[1] = e
  OBVIOUS
<1>2. /\ <<e>> \o s \in Seq(S) /\ Len(<<e>> \o s) = 1 + Len(s)
      /\ \A i \in 1..(1 + Len(s)) : (<<e>> \o s)[i] = IF i <= 1 THEN e ELSE s[i - 1]
  BY <1>1, ConcatProperties
<1>3. PICK m \in Nat : m = IF Len(<<e>> \o s) < n THEN Len(<<e>> \o s) ELSE n
  BY <1>2
<1>4. m <= n /\ m <= 1 + Len(s) /\ Len(s) \in Nat
  BY <1>2, <1>3
<1>5. /\ t \in Seq(S) /\ Len(t) = m /\ \A i \in 1..m : t[i] = (<<e>> \o s)[i]
  BY <1>2, <1>3, <1>4, SubSeqProperties
<1>6. QED
  BY <1>2, <1>4, <1>5

-----------------------------------------------------------------------------
(* What the variables, and the operators of the steps, hold.               *)

LEMMA Fields ==
    ASSUME TypeOK
    PROVE  /\ stored \in Nat /\ newest \in Nat /\ MaxRotations \in Nat /\ MaxFaults \in Nat
           /\ Keep \in Nat \ {0} /\ used.faults \in Nat /\ used.rotations \in Nat
           /\ used.faults \in 0..MaxFaults /\ used.rotations \in 0..MaxRotations
           /\ Len(history) \in Nat /\ DOMAIN history = 1..Len(history)
           /\ \A i \in DOMAIN history : history[i] \in Values /\ history[i] \in Nat
           /\ job.at \in {"idle", "set", "issue", "check", "put_back", "store", "destroy", "add", "drop", "undo",
                          "history", "vault"}
           /\ job.task \in {"none", "rotate", "check"} /\ job.new \in Values /\ job.new \in Nat
           /\ job.added \subseteq Places /\ job.left \subseteq Places /\ job.next \in Nat
           /\ kind \in AllKinds
           /\ Places = (IF Keys THEN Range(Hosts) ELSE {Server})
           /\ \A p \in Places : accepts[p] \subseteq Values
           /\ DOMAIN Hosts = 1..Len(Hosts) /\ Len(Hosts) \in Nat
           /\ \A i \in DOMAIN Hosts : Hosts[i] \in Range(Hosts)
           /\ \A p \in Range(Hosts) : \E i \in DOMAIN Hosts : Hosts[i] = p
<1>1. MaxRotations \in Nat /\ MaxFaults \in Nat /\ Keep \in Nat \ {0} /\ Kinds \subseteq AllKinds
  BY PlatformAssumption
<1>2. Values \subseteq Nat
  BY <1>1 DEF Values
<1>3. /\ used.faults \in Nat /\ used.rotations \in Nat
      /\ used.faults \in 0..MaxFaults /\ used.rotations \in 0..MaxRotations
      /\ stored \in Nat /\ newest \in Nat /\ kind \in AllKinds
  BY <1>1, <1>2 DEF TypeOK, Bounds
<1>4. /\ Len(history) \in Nat /\ DOMAIN history = 1..Len(history)
      /\ \A i \in DOMAIN history : history[i] \in Values /\ history[i] \in Nat
  BY <1>2, LenProperties, ElementOfSeq DEF TypeOK
<1>5. /\ job.at \in {"idle", "set", "issue", "check", "put_back", "store", "destroy", "add", "drop", "undo",
                     "history", "vault"}
      /\ job.task \in {"none", "rotate", "check"} /\ job.new \in Values /\ job.new \in Nat
      /\ job.added \subseteq Places /\ job.left \subseteq Places /\ job.next \in Nat
  BY <1>2 DEF TypeOK, Jobs
<1>6. \A p \in Places : accepts[p] \subseteq Values
  BY DEF TypeOK
<1>7. /\ DOMAIN Hosts = 1..Len(Hosts) /\ Len(Hosts) \in Nat
      /\ \A i \in DOMAIN Hosts : Hosts[i] \in Range(Hosts)
      /\ \A p \in Range(Hosts) : \E i \in DOMAIN Hosts : Hosts[i] = p
  BY PlatformAssumption DEF Range
<1>8. QED
  BY <1>1, <1>3, <1>4, <1>5, <1>6, <1>7 DEF Places

LEMMA GoesFits ==
    ASSUME TypeOK, UNCHANGED kind, NEW step \in {"check", "put_back", "store", "drop", "undo", "history", "vault"},
           Goes(step)
    PROVE  /\ job' \in Jobs' /\ job'.at = step /\ job'.task = job.task /\ job'.new = job.new
           /\ job'.added = job.added /\ job'.left = job.left /\ job'.next = job.next
BY DEF TypeOK, Jobs, Places, Keys, Goes

LEMMA EndsFits ==
    ASSUME Ends
    PROVE  job' \in Jobs' /\ job'.at = "idle" /\ job'.task = "none" /\ job'.added = {}
<1>1. 0 \in Values
  BY PlatformAssumption DEF Values
<1>2. QED
  BY <1>1 DEF Jobs, Ends, Idle

LEMMA UsedFits ==
    ASSUME TypeOK, Fine \/ Fault \/ Refused
    PROVE  /\ used' \in Bounds /\ used'.rotations = used.rotations
           /\ used'.faults \in {used.faults, used.faults + 1}
           /\ Fine => used'.faults = used.faults
           /\ Fault => used'.faults = used.faults + 1
           /\ Refused /\ job.task = "check" => used'.faults = used.faults + 1
<1>1. used \in Bounds /\ used.faults \in 0..MaxFaults /\ MaxFaults \in Nat
  BY Fields DEF TypeOK
<1>2. CASE Fault
  <2>1. used' = [used EXCEPT !.faults = used.faults + 1] /\ used.faults + 1 \in 0..MaxFaults
    BY <1>1, <1>2 DEF Fault
  <2>2. used' \in Bounds /\ used'.rotations = used.rotations /\ used'.faults = used.faults + 1
    BY <1>1, <2>1 DEF Bounds
  <2>3. QED
    BY <1>1, <2>2 DEF Fine
<1>3. CASE Fine /\ ~Fault
  BY <1>1, <1>3 DEF Fine, Refused
<1>4. QED
  BY <1>2, <1>3 DEF Refused

LEMMA AcceptsFits ==
    ASSUME TypeOK, UNCHANGED kind, NEW p \in Places, NEW S \in SUBSET Values, Accepts(p, S)
    PROVE  /\ accepts' \in [Places -> SUBSET Values]
           /\ accepts'[p] = S /\ \A q \in Places \ {p} : accepts'[q] = accepts[q]
BY DEF TypeOK, Accepts

LEMMA PlacesStay == ASSUME UNCHANGED kind PROVE Places' = Places /\ Keys' = Keys /\ (AtServer' <=> AtServer)
BY DEF Places, Keys, AtServer

LEMMA OpenBaoWorks == ASSUME IInv, kind = "openbao_secret_id" PROVE Works /\ Server \in Places /\ stored \in accepts[Server]
BY DEF IInv, StepsFit, KeepsWorking, Works, Places, Keys

THEOREM InitIInv == Init => IInv
<1> SUFFICES ASSUME Init PROVE IInv
  OBVIOUS
<1>1. MaxRotations \in Nat /\ MaxFaults \in Nat /\ Keep \in Nat \ {0}
  BY PlatformAssumption
<1>2. 0 \in Values
  BY <1>1 DEF Values
<1>3. Idle \in Jobs /\ used \in Bounds
  BY <1>1, <1>2 DEF Idle, Jobs, Init, Bounds
<1>4. TypeOK
  BY <1>1, <1>2, <1>3 DEF Init, TypeOK
<1>5. Works
  BY DEF Init, Works
<1>6. StepsFit /\ InOrder /\ Accepted /\ Copies
  BY DEF Init, StepsFit, InOrder, Accepted, Copies, Idle, IsInjective
<1>7. Counted /\ KeepsWorking /\ NothingFailed
  BY <1>5 DEF Init, Counted, KeepsWorking, NothingFailed, Idle
<1>8. QED
  BY <1>4, <1>6, <1>7 DEF IInv

-----------------------------------------------------------------------------
(* A fault ends the job; whatever it left, the next check or rotation finds. *)

LEMMA FaultEnds ==
    ASSUME IInv, Ends, Fault, UNCHANGED <<kind, history, newest>>,
           stored' \in Values, stored' <= newest, accepts' \in [Places -> SUBSET Values], missed' = missed,
           kind = "bootstrap_ssh_key" =>
              stored' = stored /\ \A p \in Places : stored \in accepts[p] => stored \in accepts'[p],
           kind = "openbao_secret_id" => stored' \in accepts'[Server]
    PROVE  IInv'
<1>1. TypeOK
  BY DEF IInv
<1>2. Places' = Places /\ Keys' = Keys /\ (AtServer' <=> AtServer)
  BY PlacesStay
<1>3. job' \in Jobs' /\ job'.at = "idle" /\ job'.task = "none" /\ job'.added = {}
  BY EndsFits
<1>4. used' \in Bounds /\ used'.rotations = used.rotations /\ used'.faults = used.faults + 1
  BY <1>1, UsedFits
<1>5. kind = "openbao_secret_id" => Places = {Server}
  BY DEF Places, Keys
<1>6. kind' = kind /\ history' = history /\ newest' = newest
  OBVIOUS
<1>7. TypeOK'
  BY <1>1, <1>2, <1>3, <1>4 DEF TypeOK
<1>8. StepsFit'
  BY <1>3 DEF IInv, StepsFit
<1>9. InOrder'
  BY <1>3 DEF IInv, InOrder
<1>10. Counted'
  BY <1>1, <1>2, <1>3, <1>4, <1>6, Fields, SMTT(30) DEF IInv, Counted, AtServer
<1>11. Accepted'
  BY <1>3 DEF Accepted
<1>12. Copies'
  BY <1>4, Fields DEF IInv, Copies
<1>13. KeepsWorking'
  BY <1>2, <1>4, <1>5, Fields DEF IInv, KeepsWorking, Works
<1>14. NothingFailed'
  BY <1>4, Fields DEF IInv, NothingFailed
<1>15. QED
  BY <1>7, <1>8, <1>9, <1>10, <1>11, <1>12, <1>13, <1>14 DEF IInv

LEMMA BeginStep ==
    ASSUME IInv, job.at = "idle", NEW task \in {"rotate", "check"}, Begin(task),
           task = "rotate" => used.rotations < MaxRotations /\ used' = [used EXCEPT !.rotations = @ + 1],
           task = "check" => kind \in Replaced /\ ~Works /\ Fine
    PROVE  IInv'
<1>1. TypeOK
  BY DEF IInv
<1>2. Places' = Places /\ Keys' = Keys /\ (AtServer' <=> AtServer)
  BY PlacesStay DEF Begin
<1>3. /\ used' \in Bounds /\ used'.faults = used.faults /\ used'.rotations \in {used.rotations, used.rotations + 1}
      /\ task = "rotate" => used'.rotations = used.rotations + 1
  <2>1. used \in Bounds /\ used.rotations \in 0..MaxRotations /\ MaxRotations \in Nat
    BY <1>1, Fields DEF TypeOK
  <2>2. CASE task = "rotate"
    <3>1. used' = [used EXCEPT !.rotations = used.rotations + 1] /\ used.rotations + 1 \in 0..MaxRotations
      BY <2>1, <2>2
    <3>2. QED
      BY <2>1, <3>1 DEF Bounds
  <2>3. CASE task = "check"
    BY <2>1, <2>3, UsedFits, <1>1
  <2>4. QED
    BY <2>2, <2>3
<1>4. newest' = newest + 1 /\ newest + 1 <= used'.rotations + used'.faults
  <2>1. newest' = newest + 1 /\ newest <= used.rotations + used.faults
    BY DEF Begin, IInv, Counted
  <2>2. task = "check" => newest < used.rotations + used.faults
    BY DEF IInv, Counted, AtServer
  <2>3. QED
    BY <1>1, <1>3, <2>1, <2>2, Fields, SMTT(30)
<1>5. newest' \in Values
  <2>1. used'.rotations \in 0..MaxRotations /\ used'.faults \in 0..MaxFaults
    BY <1>3 DEF Bounds
  <2>2. /\ used'.rotations \in Nat /\ used'.faults \in Nat /\ MaxRotations \in Nat /\ MaxFaults \in Nat /\ newest \in Nat
        /\ used'.rotations <= MaxRotations /\ used'.faults <= MaxFaults
    BY <1>1, <2>1, Fields
  <2>3. newest + 1 \in Nat /\ newest + 1 <= MaxRotations + MaxFaults + 1
    BY <1>4, <2>2
  <2>4. QED
    BY <1>4, <2>3 DEF Values
<1>6. /\ kind' = kind /\ accepts' = accepts /\ stored' = stored /\ history' = history /\ missed' = missed
      /\ job' = [Idle EXCEPT !.at = FirstStep, !.task = task, !.new = newest']
  BY DEF Begin
<1>7. /\ FirstStep \in {"set", "issue", "history", "add"}
      /\ FirstStep = "set" => AtServer
      /\ FirstStep = "issue" => kind = "openbao_secret_id"
      /\ FirstStep = "history" => kind = "vault_password"
      /\ FirstStep = "add" => Keys
  BY <1>1, Fields DEF FirstStep, AtServer, Keys, AllKinds
<1>8. /\ job' \in Jobs' /\ job'.at = FirstStep /\ job'.task = task /\ job'.new = newest'
      /\ job'.added = {} /\ job'.next = 1
  BY <1>5, <1>6, <1>7 DEF Jobs, Idle
<1>9. Works' <=> Works
  BY <1>2, <1>6 DEF Works
<1>10. TypeOK'
  BY <1>2, <1>3, <1>5, <1>6, <1>8 DEF IInv, TypeOK
<1>11. StepsFit'
  BY <1>6, <1>7, <1>8 DEF IInv, StepsFit, AtServer, Keys
<1>12. InOrder'
  BY <1>1, <1>2, <1>3, <1>4, <1>5, <1>6, <1>7, <1>8, <1>9, Fields, SMTT(30) DEF IInv, InOrder
<1>13. Counted'
  BY <1>1, <1>2, <1>3, <1>4, <1>5, <1>6, <1>7, <1>8, <1>9, Fields, SMTT(30) DEF IInv, Counted, AtServer
<1>14. Accepted'
  <2>1. job'.at \in {"set", "issue", "history", "add"} /\ job'.added = {}
    BY <1>7, <1>8
  <2>2. \A i \in DOMAIN Hosts : ~(i < job'.next)
    BY <1>1, <1>8, Fields
  <2>3. kind' = "bootstrap_ssh_key" => job'.at # "history"
    BY <1>6, <1>7, <1>8
  <2>4. QED
    BY <2>1, <2>2, <2>3 DEF Accepted
<1>15. Copies'
  BY <1>3, <1>6, Fields DEF IInv, Copies
<1>16. KeepsWorking'
  BY <1>2, <1>3, <1>6, <1>9 DEF IInv, KeepsWorking
<1>17. NothingFailed'
  BY <1>3, <1>6, <1>7, <1>8, <1>9, Fields DEF IInv, NothingFailed
<1>18. QED
  BY <1>10, <1>11, <1>12, <1>13, <1>14, <1>15, <1>16, <1>17 DEF IInv

LEMMA RotateStep == ASSUME IInv, Rotate PROVE IInv'
BY BeginStep DEF Rotate

LEMMA RecoversByRotationStep == ASSUME IInv, RecoversByRotation PROVE IInv'
BY BeginStep DEF RecoversByRotation

-----------------------------------------------------------------------------
(* A value that a server replaces.                                         *)

LEMMA ServerTakes ==
    ASSUME IInv, job.at = "set", Accepts(Server, {job.new}), Fine,
           Goes(IF kind = "conjur_api_key" THEN "store" ELSE "check"),
           UNCHANGED <<kind, stored, history, missed, newest>>
    PROVE  IInv'
<1>1. TypeOK
  BY DEF IInv
<1>2. Places' = Places /\ Keys' = Keys /\ (AtServer' <=> AtServer)
  BY PlacesStay
<1>3. /\ job' \in Jobs' /\ job'.at = (IF kind = "conjur_api_key" THEN "store" ELSE "check") /\ job'.task = job.task /\ job'.new = job.new
      /\ job'.added = job.added /\ job'.next = job.next
  BY <1>1, GoesFits
<1>4. used' \in Bounds /\ used'.rotations = used.rotations /\ used'.faults = used.faults
  BY <1>1, UsedFits
<1>5. Server \in Places /\ Places = {Server}
  BY DEF IInv, StepsFit, AtServer, Replaced, Places, Keys
<1>6. AtServer /\ kind \notin {"openbao_secret_id", "bootstrap_ssh_key"}
  BY DEF IInv, StepsFit, AtServer, Replaced
<1>7. accepts' \in [Places -> SUBSET Values] /\ accepts'[Server] = {job.new}
  <2>1. {job.new} \in SUBSET Values
    BY <1>1, Fields
  <2>2. QED
    BY <1>1, <1>5, <2>1, AcceptsFits
<1>8. TypeOK'
  BY <1>1, <1>2, <1>3, <1>4, <1>7 DEF TypeOK
<1>9. StepsFit'
  BY <1>3 DEF IInv, StepsFit, AtServer
<1>10. InOrder'
  BY <1>3 DEF IInv, InOrder
<1>11. Counted'
  BY <1>3, <1>4 DEF IInv, Counted
<1>12. Accepted'
  BY <1>3, <1>7 DEF Accepted
<1>13. Copies'
  BY <1>6 DEF IInv, Copies
<1>14. KeepsWorking'
  BY <1>6 DEF KeepsWorking
<1>15. NothingFailed'
  BY <1>3, <1>6 DEF NothingFailed
<1>16. QED
  BY <1>8, <1>9, <1>10, <1>11, <1>12, <1>13, <1>14, <1>15 DEF IInv

LEMMA ServerRefuses ==
    ASSUME IInv, job.at \in {"set", "issue"}, Refused, Ends,
           UNCHANGED <<kind, accepts, stored, history, missed, newest>>
    PROVE  IInv'
<1>1. TypeOK
  BY DEF IInv
<1>2. Places' = Places /\ Keys' = Keys /\ (AtServer' <=> AtServer)
  BY PlacesStay
<1>3. job' \in Jobs' /\ job'.at = "idle" /\ job'.task = "none" /\ job'.added = {}
  BY EndsFits
<1>4. /\ used' \in Bounds /\ used'.rotations = used.rotations /\ used'.faults \in {used.faults, used.faults + 1}
      /\ job.task = "check" => used'.faults = used.faults + 1
  BY <1>1, UsedFits
<1>5. Works' <=> Works
  BY <1>2 DEF Works
<1>6. job.at = "set" => AtServer /\ kind # "bootstrap_ssh_key"
  BY DEF IInv, StepsFit, AtServer, Replaced
<1>7. job.at = "issue" => kind = "openbao_secret_id" /\ Works
  BY OpenBaoWorks DEF IInv, StepsFit
<1>8. kind' = kind /\ accepts' = accepts /\ stored' = stored /\ history' = history /\ missed' = missed /\ newest' = newest
  OBVIOUS
<1>9. TypeOK'
  BY <1>1, <1>2, <1>3, <1>4 DEF TypeOK
<1>10. StepsFit'
  BY <1>3 DEF IInv, StepsFit
<1>11. InOrder'
  BY <1>3 DEF IInv, InOrder
<1>12. Counted'
  <2>1. /\ newest <= used.rotations + used.faults
        /\ AtServer /\ ~Works /\ job.at = "set" /\ job.task = "rotate" => newest < used.rotations + used.faults
    BY DEF IInv, Counted
  <2>2. AtServer /\ ~Works => job.at = "set" /\ job.task \in {"rotate", "check"}
    BY <1>1, <1>7, Fields DEF IInv, StepsFit
  <2>3. used.faults \in Nat /\ used.rotations \in Nat /\ newest \in Nat
    BY <1>1, Fields
  <2>4. newest' <= used'.rotations + used'.faults
    BY <1>4, <1>8, <2>1, <2>3
  <2>5. AtServer /\ ~Works => newest' < used'.rotations + used'.faults
    BY <1>4, <1>8, <2>1, <2>2, <2>3
  <2>6. QED
    BY <1>2, <1>5, <2>4, <2>5 DEF Counted
<1>13. Accepted'
  BY <1>3 DEF Accepted
<1>14. Copies'
  BY <1>6, <1>7 DEF IInv, Copies
<1>15. KeepsWorking'
  BY <1>5, <1>6, <1>7 DEF IInv, KeepsWorking
<1>16. NothingFailed'
  BY <1>4, <1>5, <1>6, <1>7, Fields DEF IInv, NothingFailed
<1>17. QED
  BY <1>9, <1>10, <1>11, <1>12, <1>13, <1>14, <1>15, <1>16 DEF IInv

(* A lost answer: the server takes the value and the job ends.            *)
LEMMA AnswerLost ==
    ASSUME IInv, job.at \in {"set", "issue", "vault"}, Fault, Ends, NEW S \in SUBSET Values, Accepts(Server, S),
           kind = "openbao_secret_id" => stored \in S,
           UNCHANGED <<kind, stored, history, missed, newest>>
    PROVE  IInv'
<1>1. TypeOK
  BY DEF IInv
<1>2. Server \in Places /\ kind # "bootstrap_ssh_key"
  BY DEF IInv, StepsFit, AtServer, Replaced, Places, Keys
<1>3. accepts' \in [Places -> SUBSET Values] /\ accepts'[Server] = S
  BY <1>1, <1>2, AcceptsFits
<1>4. stored' = stored /\ stored \in Values /\ stored <= newest
  BY <1>1 DEF TypeOK, IInv, InOrder
<1>5. QED
  BY <1>2, <1>3, <1>4, FaultEnds

LEMMA ServerSetsStep == ASSUME IInv, ServerSets PROVE IInv'
<1>1. {job.new} \in SUBSET Values
  BY Fields DEF IInv
<1>2. kind # "openbao_secret_id"
  BY DEF ServerSets, IInv, StepsFit, AtServer, Replaced
<1>3. QED
  BY <1>1, <1>2, ServerTakes, ServerRefuses, AnswerLost DEF ServerSets

LEMMA TriesStep ==
    ASSUME IInv, Tries
    PROVE  IInv'
<1>1. TypeOK
  BY DEF IInv
<1>2. Places' = Places /\ Keys' = Keys /\ (AtServer' <=> AtServer)
  BY PlacesStay DEF Tries
<1>3. job.at = "check" /\ \E step \in {"store", "put_back"} : Goes(step)
  BY DEF Tries
<1>4. PICK step \in {"store", "put_back"} : Goes(step)
  BY <1>3
<1>5. /\ job' \in Jobs' /\ job'.at = step /\ job'.task = job.task /\ job'.new = job.new
      /\ job'.added = job.added /\ job'.next = job.next
  BY <1>1, <1>2, <1>4, GoesFits DEF Tries
<1>6. used' \in Bounds /\ used'.rotations = used.rotations /\ used'.faults \in {used.faults, used.faults + 1}
  BY <1>1, UsedFits DEF Tries
<1>7. kind' = kind /\ accepts' = accepts /\ stored' = stored /\ history' = history /\ missed' = missed /\ newest' = newest
  BY DEF Tries
<1>8. kind \in Replaced \cup {"openbao_secret_id"} /\ kind \notin {"bootstrap_ssh_key", "worker_ssh_key", "vault_password"}
  BY <1>3 DEF IInv, StepsFit, Replaced
<1>9. Works' <=> Works
  BY <1>2, <1>7 DEF Works
<1>10. /\ AtServer => accepts[Server] = {job.new}
       /\ ~AtServer => kind = "openbao_secret_id" /\ job.new \in accepts[Server]
  BY <1>3, <1>8 DEF IInv, Accepted, AtServer
<1>11. TypeOK'
  BY <1>1, <1>2, <1>5, <1>6, <1>7 DEF TypeOK
<1>12. StepsFit'
  BY <1>3, <1>5, <1>7 DEF IInv, StepsFit
<1>13. InOrder'
  BY <1>3, <1>5, <1>7 DEF IInv, InOrder
<1>14. Counted'
  BY <1>1, <1>2, <1>3, <1>4, <1>5, <1>6, <1>7, <1>8, <1>10, Fields, SMTT(30) DEF IInv, Counted, AtServer
<1>15. Accepted'
  BY <1>2, <1>5, <1>7, <1>8, <1>10 DEF Accepted
<1>16. Copies'
  BY <1>7, <1>8 DEF Copies
<1>17. KeepsWorking'
  BY <1>7, <1>8, <1>9 DEF IInv, KeepsWorking
<1>18. NothingFailed'
  BY <1>5, <1>7, <1>8 DEF NothingFailed
<1>19. QED
  BY <1>11, <1>12, <1>13, <1>14, <1>15, <1>16, <1>17, <1>18 DEF IInv

LEMMA PutsBack ==
    ASSUME IInv, job.at = "put_back", Fine, Ends,
           Accepts(Server, IF kind = "openbao_secret_id" THEN accepts[Server] \ {job.new} ELSE {stored}),
           UNCHANGED <<kind, stored, history, missed, newest>>
    PROVE  IInv'
<1>1. TypeOK
  BY DEF IInv
<1>2. Places' = Places /\ Keys' = Keys /\ (AtServer' <=> AtServer)
  BY PlacesStay
<1>3. job' \in Jobs' /\ job'.at = "idle" /\ job'.task = "none" /\ job'.added = {}
  BY EndsFits
<1>4. used' \in Bounds /\ used'.rotations = used.rotations /\ used'.faults = used.faults
  BY <1>1, UsedFits
<1>5. Server \in Places /\ Places = {Server}
  BY DEF IInv, StepsFit, Replaced, Places, Keys
<1>6. accepts' \in [Places -> SUBSET Values] /\ accepts'[Server] = (IF kind = "openbao_secret_id" THEN accepts[Server] \ {job.new} ELSE {stored})
  <2>1. (IF kind = "openbao_secret_id" THEN accepts[Server] \ {job.new} ELSE {stored}) \in SUBSET Values
    BY <1>1, <1>5, Fields DEF TypeOK
  <2>2. QED
    BY <1>1, <1>5, <2>1, AcceptsFits
<1>7. stored \in accepts'[Server]
  <2>1. job.new = newest /\ stored < newest
    BY DEF IInv, InOrder
  <2>2. QED
    BY <1>1, <1>6, <2>1, OpenBaoWorks, Fields
<1>8. TypeOK'
  BY <1>1, <1>2, <1>3, <1>4, <1>6 DEF TypeOK
<1>9. StepsFit'
  BY <1>3 DEF IInv, StepsFit
<1>10. InOrder'
  BY <1>3 DEF IInv, InOrder
<1>11. Counted'
  BY <1>2, <1>3, <1>4, <1>5, <1>7 DEF IInv, Counted, Works
<1>12. Accepted'
  BY <1>3 DEF Accepted
<1>13. Copies'
  BY <1>4, Fields DEF IInv, Copies
<1>14. KeepsWorking'
  BY <1>2, <1>5, <1>7 DEF KeepsWorking, Works
<1>15. NothingFailed'
  BY <1>2, <1>3, <1>4, <1>5, <1>7 DEF IInv, NothingFailed, Works
<1>16. QED
  BY <1>8, <1>9, <1>10, <1>11, <1>12, <1>13, <1>14, <1>15 DEF IInv

LEMMA PutBackStep == ASSUME IInv, PutBack PROVE IInv'
<1>1. CASE Fault /\ UNCHANGED accepts
  <2>1. TypeOK /\ kind # "bootstrap_ssh_key" /\ stored <= newest
    BY DEF IInv, PutBack, StepsFit, Replaced, InOrder
  <2>2. stored' \in Values /\ stored' <= newest /\ accepts' \in [Places -> SUBSET Values]
    BY <1>1, <2>1 DEF PutBack, TypeOK
  <2>3. QED
    BY <1>1, <2>2, FaultEnds, OpenBaoWorks DEF PutBack
<1>2. QED
  BY <1>1, PutsBack DEF PutBack

LEMMA StoresStep ==
    ASSUME IInv, Stores
    PROVE  IInv'
<1>1. TypeOK
  BY DEF IInv
<1>2. Places' = Places /\ Keys' = Keys /\ (AtServer' <=> AtServer)
  BY PlacesStay DEF Stores
<1>3. job.at = "store" /\ kind # "bootstrap_ssh_key"
  BY DEF Stores
<1>4. stored' = job.new /\ job.new = newest /\ stored < newest /\ newest \in Values
  BY DEF Stores, IInv, InOrder, TypeOK
<1>5. /\ job' \in Jobs'
      /\ kind = "openbao_secret_id" => job'.at = "destroy" /\ job'.task = job.task /\ job'.new = job.new /\ job'.next = stored
      /\ kind # "openbao_secret_id" => job'.at = "idle"
  <2>1. CASE kind = "openbao_secret_id"
    <3>1. job' = [job EXCEPT !.at = "destroy", !.next = stored] /\ job \in Jobs /\ stored \in Nat /\ Jobs' = Jobs
      BY <1>1, <1>2, <2>1, Fields DEF Stores, TypeOK, Jobs
    <3>2. QED
      BY <2>1, <3>1 DEF Jobs
  <2>2. CASE kind # "openbao_secret_id"
    BY <2>2, EndsFits DEF Stores
  <2>3. QED
    BY <2>1, <2>2
<1>6. used' \in Bounds /\ used'.rotations = used.rotations /\ used'.faults = used.faults
  BY <1>1, UsedFits DEF Stores
<1>7. kind' = kind /\ accepts' = accepts /\ history' = history /\ missed' = missed /\ newest' = newest
  BY DEF Stores
<1>8. \A p \in Places : job.new \in accepts[p]
  <2>1. CASE kind = "worker_ssh_key"
    BY <1>3, <2>1 DEF IInv, Accepted
  <2>2. CASE kind # "worker_ssh_key"
    <3>1. Places = {Server}
      BY <1>3, <2>2 DEF Places, Keys
    <3>2. AtServer \/ kind \in {"vault_password", "openbao_secret_id"}
      BY <1>1, <1>3, <2>2, Fields DEF AtServer, AllKinds
    <3>3. QED
      BY <1>3, <3>1, <3>2 DEF IInv, Accepted
  <2>3. QED
    BY <2>1, <2>2
<1>9. Works'
  BY <1>2, <1>4, <1>7, <1>8 DEF Works
<1>10. TypeOK'
  BY <1>2, <1>4, <1>5, <1>6, <1>7 DEF IInv, TypeOK
<1>11. StepsFit'
  BY <1>3, <1>5, <1>7 DEF IInv, StepsFit
<1>12. InOrder'
  BY <1>3, <1>4, <1>5, <1>7, Fields DEF IInv, InOrder
<1>13. Counted'
  BY <1>6, <1>7, <1>9 DEF IInv, Counted
<1>14. Accepted'
  BY <1>4, <1>5, Fields DEF IInv, Accepted
<1>15. Copies'
  BY <1>3, <1>7 DEF IInv, Copies
<1>16. KeepsWorking'
  BY <1>9 DEF KeepsWorking, Works
<1>17. NothingFailed'
  BY <1>5, <1>6, <1>7, <1>9 DEF IInv, NothingFailed
<1>18. QED
  BY <1>10, <1>11, <1>12, <1>13, <1>14, <1>15, <1>16, <1>17 DEF IInv

-----------------------------------------------------------------------------
(* OpenBao's secret ID.                                                    *)

LEMMA Issued ==
    ASSUME IInv, job.at = "issue", Accepts(Server, accepts[Server] \cup {job.new}), Goes("check"), Fine,
           UNCHANGED <<kind, stored, history, missed, newest>>
    PROVE  IInv'
<1>1. TypeOK
  BY DEF IInv
<1>2. Places' = Places /\ Keys' = Keys /\ (AtServer' <=> AtServer)
  BY PlacesStay
<1>3. /\ job' \in Jobs' /\ job'.at = "check" /\ job'.task = job.task /\ job'.new = job.new
      /\ job'.added = job.added /\ job'.next = job.next
  BY <1>1, GoesFits
<1>4. used' \in Bounds /\ used'.rotations = used.rotations /\ used'.faults = used.faults
  BY <1>1, UsedFits
<1>5. Server \in Places /\ Places = {Server}
  BY DEF IInv, StepsFit, Places, Keys
<1>6. accepts' \in [Places -> SUBSET Values] /\ accepts'[Server] = accepts[Server] \cup {job.new}
  <2>1. accepts[Server] \cup {job.new} \in SUBSET Values
    BY <1>1, <1>5, Fields
  <2>2. QED
    BY <1>1, <1>5, <2>1, AcceptsFits
<1>7. kind = "openbao_secret_id" /\ stored \in accepts[Server]
  BY OpenBaoWorks DEF IInv, StepsFit
<1>8. TypeOK'
  BY <1>1, <1>2, <1>3, <1>4, <1>6 DEF TypeOK
<1>9. StepsFit'
  BY <1>3 DEF IInv, StepsFit
<1>10. InOrder'
  BY <1>3 DEF IInv, InOrder
<1>11. Counted'
  BY <1>3, <1>4 DEF IInv, Counted
<1>12. Accepted'
  BY <1>3, <1>6, <1>7 DEF Accepted, AtServer, Replaced
<1>13. Copies'
  BY <1>7 DEF Copies
<1>14. KeepsWorking'
  BY <1>2, <1>4, <1>5, <1>6 DEF IInv, KeepsWorking, Works
<1>15. NothingFailed'
  BY <1>3, <1>7 DEF NothingFailed
<1>16. QED
  BY <1>8, <1>9, <1>10, <1>11, <1>12, <1>13, <1>14, <1>15 DEF IInv

LEMMA IssuesStep == ASSUME IInv, Issues PROVE IInv'
<1>1. kind = "openbao_secret_id" /\ stored \in accepts[Server] /\ Server \in Places
  BY OpenBaoWorks DEF Issues, IInv, StepsFit
<1>2. accepts[Server] \cup {job.new} \in SUBSET Values /\ stored \in accepts[Server] \cup {job.new}
  BY <1>1, Fields DEF IInv
<1>3. QED
  BY <1>2, Issued, ServerRefuses, AnswerLost DEF Issues

LEMMA Destroyed ==
    ASSUME IInv, job.at = "destroy", Accepts(Server, accepts[Server] \ {job.next}), Ends, Fine,
           UNCHANGED <<kind, stored, history, missed, newest>>
    PROVE  IInv'
<1>1. TypeOK
  BY DEF IInv
<1>2. Places' = Places /\ Keys' = Keys /\ (AtServer' <=> AtServer)
  BY PlacesStay
<1>3. job' \in Jobs' /\ job'.at = "idle" /\ job'.task = "none" /\ job'.added = {}
  BY EndsFits
<1>4. used' \in Bounds /\ used'.rotations = used.rotations /\ used'.faults = used.faults
  BY <1>1, UsedFits
<1>5. Server \in Places /\ Places = {Server}
  BY DEF IInv, StepsFit, Places, Keys
<1>6. accepts' \in [Places -> SUBSET Values] /\ accepts'[Server] = accepts[Server] \ {job.next}
  <2>1. accepts[Server] \ {job.next} \in SUBSET Values
    BY <1>1, <1>5, Fields
  <2>2. QED
    BY <1>1, <1>5, <2>1, AcceptsFits
<1>7. kind = "openbao_secret_id" /\ stored \in accepts'[Server]
  <2>1. kind = "openbao_secret_id" /\ stored \in accepts[Server]
    BY OpenBaoWorks DEF IInv, StepsFit
  <2>2. job.next # stored
    BY <2>1 DEF IInv, Accepted
  <2>3. QED
    BY <1>6, <2>1, <2>2
<1>8. TypeOK'
  BY <1>1, <1>2, <1>3, <1>4, <1>6 DEF TypeOK
<1>9. StepsFit'
  BY <1>3 DEF IInv, StepsFit
<1>10. InOrder'
  BY <1>3 DEF IInv, InOrder
<1>11. Counted'
  BY <1>2, <1>4, <1>5, <1>7 DEF IInv, Counted, Works
<1>12. Accepted'
  BY <1>3 DEF Accepted
<1>13. Copies'
  BY <1>7 DEF Copies
<1>14. KeepsWorking'
  BY <1>2, <1>5, <1>7 DEF KeepsWorking, Works
<1>15. NothingFailed'
  BY <1>2, <1>5, <1>7 DEF NothingFailed, Works
<1>16. QED
  BY <1>8, <1>9, <1>10, <1>11, <1>12, <1>13, <1>14, <1>15 DEF IInv

LEMMA FaultAtServer ==
    ASSUME IInv, kind # "bootstrap_ssh_key", Fault, Ends, UNCHANGED <<kind, accepts, stored, history, missed, newest>>
    PROVE  IInv'
<1>1. /\ stored' \in Values /\ stored' <= newest /\ accepts' \in [Places -> SUBSET Values]
  BY DEF IInv, InOrder, TypeOK
<1>2. QED
  BY <1>1, FaultEnds, OpenBaoWorks

LEMMA DestroysStep == ASSUME IInv, Destroys PROVE IInv'
<1>1. kind # "bootstrap_ssh_key"
  BY DEF Destroys, IInv, StepsFit
<1>2. QED
  BY <1>1, Destroyed, FaultAtServer DEF Destroys

LEMMA OidcStoreFails ==
    ASSUME IInv, job.at = "store", kind = "oidc_client_secret", Fault, Goes("put_back"),
           UNCHANGED <<kind, accepts, stored, history, missed, newest>>
    PROVE  IInv'
<1>1. TypeOK
  BY DEF IInv
<1>2. Places' = Places /\ Keys' = Keys /\ (AtServer' <=> AtServer)
  BY PlacesStay
<1>3. /\ job' \in Jobs' /\ job'.at = "put_back" /\ job'.task = job.task /\ job'.new = job.new
      /\ job'.added = job.added /\ job'.next = job.next
  BY <1>1, GoesFits
<1>4. used' \in Bounds /\ used'.rotations = used.rotations /\ used'.faults = used.faults + 1
  BY <1>1, UsedFits
<1>5. kind \in Replaced
  BY DEF Replaced
<1>6. kind' = kind /\ accepts' = accepts /\ stored' = stored /\ history' = history /\ missed' = missed /\ newest' = newest
  OBVIOUS
<1>7. TypeOK'
  BY <1>1, <1>2, <1>3, <1>4 DEF TypeOK
<1>8. StepsFit'
  BY <1>3, <1>5 DEF IInv, StepsFit
<1>9. InOrder'
  BY <1>3 DEF IInv, InOrder
<1>10. Counted'
  BY <1>1, <1>4, <1>6, Fields, SMTT(30) DEF IInv, Counted, AtServer
<1>11. Accepted'
  BY <1>3 DEF Accepted
<1>12. Copies'
  BY DEF Copies
<1>13. KeepsWorking'
  BY DEF KeepsWorking
<1>14. NothingFailed'
  BY <1>3 DEF NothingFailed
<1>15. QED
  BY <1>7, <1>8, <1>9, <1>10, <1>11, <1>12, <1>13, <1>14 DEF IInv

LEMMA StoreFailsStep == ASSUME IInv, StoreFails PROVE IInv'
<1>1. kind # "bootstrap_ssh_key"
  BY DEF StoreFails, Replaced
<1>2. QED
  BY <1>1, OidcStoreFails, FaultAtServer DEF StoreFails

-----------------------------------------------------------------------------
(* The ssh keys.                                                           *)

LEMMA KeyAdded ==
    ASSUME IInv, job.at = "add", More, Fine, job' = Visited, Accepts(Host, (accepts[Host] \ Expired) \cup {job.new}),
           UNCHANGED <<kind, stored, history, missed, newest>>
    PROVE  IInv'
<1>1. TypeOK
  BY DEF IInv
<1>2. Places' = Places /\ Keys' = Keys /\ (AtServer' <=> AtServer)
  BY PlacesStay
<1>3. More /\ job.next \in DOMAIN Hosts /\ Host \in Places /\ Host = Hosts[job.next]
  <2>1. job.next \in Nat /\ job.next # 0 /\ Keys /\ job.next <= Len(Hosts)
    BY Fields DEF IInv, StepsFit, More
  <2>2. QED
    BY <1>1, <2>1, Fields DEF Host
<1>4. /\ job' \in Jobs' /\ job'.at = "add" /\ job'.task = job.task /\ job'.new = job.new
      /\ job'.added = job.added \cup {Host} /\ job'.left = job.left /\ job'.next = job.next + 1
  <2>1. job \in Jobs /\ Jobs' = Jobs /\ job.at = "add" /\ job.added \cup {Host} \in SUBSET Places /\ job.next + 1 \in Nat
    BY <1>1, <1>2, <1>3 DEF TypeOK, Jobs
  <2>2. job' = [job EXCEPT !.next = job.next + 1, !.added = job.added \cup {Host}]
    BY DEF Visited
  <2>3. QED
    BY <2>1, <2>2 DEF Jobs
<1>5. used' \in Bounds /\ used'.rotations = used.rotations /\ used'.faults = used.faults
  BY <1>1, UsedFits
<1>6. /\ accepts' \in [Places -> SUBSET Values] /\ accepts'[Host] = (accepts[Host] \ Expired) \cup {job.new}
      /\ \A p \in Places \ {Host} : accepts'[p] = accepts[p]
  <2>1. (accepts[Host] \ Expired) \cup {job.new} \in SUBSET Values
    BY <1>1, <1>3, Fields
  <2>2. QED
    BY <1>1, <1>3, <2>1, AcceptsFits
<1>7. kind # "bootstrap_ssh_key" => Expired = {}
  BY DEF Expired
<1>8. kind = "bootstrap_ssh_key" /\ stored \in Expired => used.faults >= Keep
  <2> SUFFICES ASSUME kind = "bootstrap_ssh_key", stored \in Expired PROVE used.faults >= Keep
    OBVIOUS
  <2>1. Len(history) = Keep /\ history[Keep] = stored
    BY DEF Expired
  <2>2. QED
    BY <2>1, Fields DEF IInv, Copies
<1>9. \A i \in DOMAIN Hosts : i < job.next + 1 => i < job.next \/ Hosts[i] = Host
  BY <1>1, <1>3, Fields
<1>10. \A p \in Places : stored \in accepts[p] /\ (kind = "bootstrap_ssh_key" => used.faults < Keep) => stored \in accepts'[p]
  BY <1>1, <1>3, <1>6, <1>7, <1>8, Fields
<1>11. TypeOK'
  BY <1>1, <1>2, <1>4, <1>5, <1>6 DEF TypeOK
<1>12. StepsFit'
  BY <1>2, <1>4, Fields DEF IInv, StepsFit
<1>13. InOrder'
  BY <1>4 DEF IInv, InOrder
<1>14. Counted'
  BY <1>4, <1>5 DEF IInv, Counted
<1>15. Accepted'
  <2>1. ASSUME kind = "worker_ssh_key", NEW i \in DOMAIN Hosts, i < job.next + 1 PROVE job.new \in accepts'[Hosts[i]]
    <3>1. Hosts[i] \in Places
      BY <1>1, <2>1, Fields DEF Places, Keys
    <3>2. i < job.next => job.new \in accepts[Hosts[i]]
      BY <2>1 DEF IInv, Accepted
    <3>3. QED
      BY <1>6, <1>9, <2>1, <3>1, <3>2
  <2>2. ASSUME kind = "bootstrap_ssh_key", NEW p \in job.added \cup {Host} PROVE job.new \in accepts'[p]
    <3>1. p # Host => job.new \in accepts[p]
      BY <2>2 DEF IInv, Accepted
    <3>2. QED
      BY <1>1, <1>6, <3>1, Fields
  <2>3. ASSUME kind = "bootstrap_ssh_key", NEW i \in DOMAIN Hosts, i < job.next + 1
        PROVE  Hosts[i] \in (job.added \cup {Host}) \cup job.left
    BY <1>9, <2>3 DEF IInv, Accepted
  <2>4. QED
    BY <1>4, <2>1, <2>2, <2>3 DEF Accepted
<1>16. Copies'
  BY <1>5, Fields DEF IInv, Copies
<1>17. KeepsWorking'
  BY <1>2, <1>5, <1>10 DEF IInv, KeepsWorking, Works
<1>18. NothingFailed'
  BY <1>2, <1>4, <1>5, <1>9, <1>10, Fields DEF IInv, NothingFailed, Works
<1>19. QED
  BY <1>11, <1>12, <1>13, <1>14, <1>15, <1>16, <1>17, <1>18 DEF IInv

LEMMA EndsAsItWas ==
    ASSUME IInv, job.at \in {"add", "history"}, Ends, Fine,
           UNCHANGED <<kind, accepts, stored, history, missed, newest>>
    PROVE  IInv'
<1>1. TypeOK
  BY DEF IInv
<1>2. Places' = Places /\ Keys' = Keys /\ (AtServer' <=> AtServer)
  BY PlacesStay
<1>3. job' \in Jobs' /\ job'.at = "idle" /\ job'.task = "none" /\ job'.added = {}
  BY EndsFits
<1>4. used' \in Bounds /\ used'.rotations = used.rotations /\ used'.faults = used.faults
  BY <1>1, UsedFits
<1>5. kind' = kind /\ accepts' = accepts /\ stored' = stored /\ history' = history /\ missed' = missed /\ newest' = newest
  OBVIOUS
<1>6. Works' <=> Works
  BY <1>2, <1>5 DEF Works
<1>7. ~AtServer
  BY DEF IInv, StepsFit, AtServer, Replaced, Keys
<1>8. used.faults = 0 => Works
  BY DEF IInv, NothingFailed
<1>9. TypeOK'
  BY <1>1, <1>2, <1>3, <1>4 DEF TypeOK
<1>10. StepsFit'
  BY <1>3 DEF IInv, StepsFit
<1>11. InOrder'
  BY <1>3 DEF IInv, InOrder
<1>12. Counted'
  BY <1>4, <1>7 DEF IInv, Counted, AtServer
<1>13. Accepted'
  BY <1>3 DEF Accepted
<1>14. Copies'
  BY <1>4, <1>8, Fields DEF IInv, Copies
<1>15. KeepsWorking'
  BY <1>2, <1>4 DEF IInv, KeepsWorking, Works
<1>16. NothingFailed'
  BY <1>3, <1>4, <1>6 DEF IInv, NothingFailed
<1>17. QED
  BY <1>9, <1>10, <1>11, <1>12, <1>13, <1>14, <1>15, <1>16 DEF IInv

LEMMA ToUndo ==
    ASSUME IInv, kind = "worker_ssh_key", job.at \in {"add", "drop"}, Fine \/ Fault, job.at = "drop" => Fault,
           Goes("undo") \/ job' = [job EXCEPT !.at = "undo", !.added = @ \cup {Host}], Host \in Places,
           accepts' \in [Places -> SUBSET Values], \A p \in Places : accepts[p] \subseteq accepts'[p],
           UNCHANGED <<kind, stored, history, missed, newest>>
    PROVE  IInv'
<1>1. TypeOK
  BY DEF IInv
<1>2. Places' = Places /\ Keys' = Keys /\ (AtServer' <=> AtServer)
  BY PlacesStay
<1>3. used' \in Bounds /\ used'.rotations = used.rotations /\ used'.faults \in {used.faults, used.faults + 1}
  BY <1>1, UsedFits
<1>4. job' \in Jobs' /\ job'.at = "undo" /\ job'.task = job.task /\ job'.new = job.new
  <2>1. job \in Jobs /\ Jobs' = Jobs /\ job.added \cup {Host} \in SUBSET Places
    BY <1>1, <1>2, Fields DEF TypeOK, Jobs
  <2>2. CASE Goes("undo")
    BY <1>1, <2>2, GoesFits
  <2>3. CASE job' = [job EXCEPT !.at = "undo", !.added = job.added \cup {Host}]
    BY <2>1, <2>3 DEF Jobs
  <2>4. QED
    BY <2>2, <2>3
<1>5. kind' = kind /\ stored' = stored /\ history' = history /\ missed' = missed /\ newest' = newest
  OBVIOUS
<1>6. ~AtServer
  BY DEF AtServer, Replaced
<1>7. Works => Works'
  BY <1>2, <1>5 DEF Works
<1>8. job.at = "drop" => used'.faults = used.faults + 1
  BY <1>1, UsedFits
<1>9. TypeOK'
  BY <1>1, <1>2, <1>3, <1>4 DEF TypeOK
<1>10. StepsFit'
  BY <1>4 DEF IInv, StepsFit
<1>11. InOrder'
  BY <1>4 DEF IInv, InOrder
<1>12. Counted'
  BY <1>1, <1>2, <1>3, <1>4, <1>5, <1>7, <1>8, Fields, SMTT(30) DEF IInv, Counted
<1>13. Accepted'
  BY <1>4 DEF Accepted
<1>14. Copies'
  BY DEF Copies
<1>15. KeepsWorking'
  BY DEF KeepsWorking
<1>16. NothingFailed'
  BY <1>1, <1>2, <1>3, <1>4, <1>5, <1>6, <1>7, <1>8, Fields DEF IInv, NothingFailed
<1>17. QED
  BY <1>9, <1>10, <1>11, <1>12, <1>13, <1>14, <1>15, <1>16 DEF IInv

LEMMA VmSkipped ==
    ASSUME IInv, kind = "bootstrap_ssh_key", job.at = "add", More, PassesOver, Fine \/ Fault,
           UNCHANGED <<kind, accepts, stored, history, missed, newest>>
    PROVE  IInv'
<1>1. TypeOK
  BY DEF IInv
<1>2. Places' = Places /\ Keys' = Keys /\ (AtServer' <=> AtServer)
  BY PlacesStay
<1>3. More /\ job.next \in DOMAIN Hosts /\ Host \in Places /\ Host = Hosts[job.next]
  <2>1. job.next \in Nat /\ job.next # 0 /\ Keys /\ job.next <= Len(Hosts)
    BY Fields DEF IInv, StepsFit, More
  <2>2. QED
    BY <1>1, <2>1, Fields DEF Host
<1>4. used' \in Bounds /\ used'.rotations = used.rotations /\ used'.faults \in {used.faults, used.faults + 1}
  BY <1>1, UsedFits
<1>5. /\ job' \in Jobs' /\ job'.at = "add" /\ job'.task = job.task /\ job'.new = job.new
      /\ job'.added = job.added /\ job'.left = job.left \cup {Host} /\ job'.next = job.next + 1
  <2>1. job \in Jobs /\ Jobs' = Jobs /\ job.next + 1 \in Nat /\ job.left \cup {Host} \in SUBSET Places
    BY <1>1, <1>2, <1>3, Fields DEF TypeOK, Jobs
  <2>2. job' = [job EXCEPT !.next = job.next + 1, !.left = job.left \cup {Host}]
    BY DEF PassesOver
  <2>3. QED
    BY <2>1, <2>2 DEF Jobs
<1>6. kind' = kind /\ accepts' = accepts /\ stored' = stored /\ history' = history /\ missed' = missed /\ newest' = newest
  OBVIOUS
<1>7. Works' <=> Works
  BY <1>2, <1>6 DEF Works
<1>8. ~AtServer /\ Keys
  BY DEF AtServer, Replaced, Keys
<1>9. \A i \in DOMAIN Hosts : i < job.next + 1 => i < job.next \/ Hosts[i] = Host
  BY <1>1, <1>3, Fields
<1>10. TypeOK'
  BY <1>1, <1>2, <1>4, <1>5, <1>6 DEF TypeOK
<1>11. StepsFit'
  BY <1>2, <1>5, <1>6, <1>8, Fields DEF IInv, StepsFit
<1>12. InOrder'
  BY <1>5, <1>6 DEF IInv, InOrder
<1>13. Counted'
  BY <1>1, <1>2, <1>4, <1>6, <1>8, Fields, SMTT(30) DEF IInv, Counted
<1>14. Accepted'
  <2>1. \A i \in DOMAIN Hosts : i < job.next + 1 => Hosts[i] \in job.added \cup (job.left \cup {Host})
    BY <1>9 DEF IInv, Accepted
  <2>2. \A p \in job.added : job.new \in accepts[p]
    BY DEF IInv, Accepted
  <2>3. QED
    BY <1>2, <1>5, <1>6, <1>8, <2>1, <2>2 DEF Accepted, AtServer, Replaced
<1>15. Copies'
  BY <1>1, <1>4, <1>5, <1>6, Fields, SMTT(30) DEF IInv, Copies
<1>16. KeepsWorking'
  BY <1>1, <1>4, <1>6, <1>7, Fields DEF IInv, KeepsWorking
<1>17. NothingFailed'
  BY <1>1, <1>4, <1>5, <1>6, <1>7, Fields DEF IInv, NothingFailed
<1>18. QED
  BY <1>10, <1>11, <1>12, <1>13, <1>14, <1>15, <1>16, <1>17 DEF IInv

LEMMA AddsKeyStep == ASSUME IInv, AddsKey PROVE IInv'
<1>1. TypeOK /\ kind \in {"worker_ssh_key", "bootstrap_ssh_key"} /\ job.at = "add" /\ More
  BY DEF IInv, StepsFit, Keys, AddsKey
<1>2. job.next \in Nat /\ job.next # 0 /\ job.next <= Len(Hosts)
  BY <1>1, Fields DEF IInv, StepsFit, More
<1>3. Host \in Places
  BY <1>1, <1>2, Fields DEF Host, Keys
<1>4. UNCHANGED <<kind, stored, history, missed, newest>>
  BY DEF AddsKey
<1>5. CASE Fine /\ job' = Visited /\ Accepts(Host, (accepts[Host] \ Expired) \cup {job.new})
  BY <1>1, <1>4, <1>5, KeyAdded
<1>6. CASE Fine /\ UNCHANGED accepts /\ IF kind = "worker_ssh_key" THEN Goes("undo") ELSE Ends
  <2>1. CASE kind = "worker_ssh_key"
    <3>1. accepts' \in [Places -> SUBSET Values] /\ \A p \in Places : accepts[p] \subseteq accepts'[p]
      BY <1>1, <1>6 DEF TypeOK
    <3>2. QED
      BY <1>1, <1>3, <1>4, <1>6, <2>1, <3>1, ToUndo
  <2>2. CASE kind # "worker_ssh_key"
    BY <1>1, <1>4, <1>6, <2>2, EndsAsItWas
  <2>3. QED
    BY <2>1, <2>2
<1>7. CASE /\ Fault /\ Accepts(Host, accepts[Host] \cup {job.new})
           /\ IF kind = "worker_ssh_key" THEN job' = [job EXCEPT !.at = "undo", !.added = @ \cup {Host}] ELSE Ends
  <2>1. accepts[Host] \cup {job.new} \in SUBSET Values
    BY <1>1, <1>3, Fields
  <2>2. accepts' \in [Places -> SUBSET Values] /\ \A p \in Places : accepts[p] \subseteq accepts'[p]
    BY <1>1, <1>3, <1>4, <1>7, <2>1, AcceptsFits
  <2>3. CASE kind = "worker_ssh_key"
    BY <1>1, <1>3, <1>4, <1>7, <2>2, <2>3, ToUndo
  <2>4. CASE kind # "worker_ssh_key"
    <3>1. stored' \in Values /\ stored' <= newest
      BY <1>1, <1>4 DEF TypeOK, IInv, InOrder
    <3>2. QED
      BY <1>1, <1>4, <1>7, <2>2, <2>4, <3>1, FaultEnds
  <2>5. QED
    BY <2>3, <2>4
<1>8. QED
  BY <1>5, <1>6, <1>7 DEF AddsKey

LEMMA SkipsStep == ASSUME IInv, Skips PROVE IInv'
BY VmSkipped DEF Skips

(* A machine that is off, and one that refuses every key that is kept.      *)
LEMMA OffAtAddStep == ASSUME IInv, OffAtAdd \/ Refuses PROVE IInv'
<1>1. TypeOK /\ kind \in {"worker_ssh_key", "bootstrap_ssh_key"} /\ job.at = "add" /\ More
  BY DEF IInv, StepsFit, Keys, OffAtAdd, Refuses
<1>2. job.next \in Nat /\ job.next # 0 /\ job.next <= Len(Hosts)
  BY <1>1, Fields DEF IInv, StepsFit, More
<1>3. Host \in Places
  BY <1>1, <1>2, Fields DEF Host, Keys
<1>4. /\ UNCHANGED <<kind, accepts, stored, history, missed, newest>>
      /\ Fine \/ Fault
      /\ IF kind = "worker_ssh_key" THEN Goes("undo") ELSE PassesOver
  BY DEF OffAtAdd, Refuses
<1>5. accepts' \in [Places -> SUBSET Values] /\ \A p \in Places : accepts[p] \subseteq accepts'[p]
  BY <1>1, <1>4 DEF TypeOK
<1>6. CASE kind = "worker_ssh_key"
  BY <1>1, <1>3, <1>4, <1>5, <1>6, ToUndo
<1>7. CASE kind = "bootstrap_ssh_key"
  BY <1>1, <1>4, <1>7, VmSkipped
<1>8. QED
  BY <1>1, <1>6, <1>7

LEMMA AllAddedStep ==
    ASSUME IInv, AllAdded
    PROVE  IInv'
<1>1. TypeOK
  BY DEF IInv
<1>2. Places' = Places /\ Keys' = Keys /\ (AtServer' <=> AtServer)
  BY PlacesStay DEF AllAdded
<1>3. job.at = "add" /\ ~More /\ kind \in {"worker_ssh_key", "bootstrap_ssh_key"}
  BY DEF AllAdded, IInv, StepsFit, Keys
<1>4. /\ job' \in Jobs' /\ job'.task = job.task /\ job'.new = job.new /\ job'.added = job.added /\ job'.left = job.left
      /\ kind = "worker_ssh_key" => job'.at = "drop" /\ job'.next = 1
      /\ kind = "bootstrap_ssh_key" => job'.at = "history"
  <2>1. job \in Jobs /\ Jobs' = Jobs
    BY <1>1, <1>2 DEF TypeOK, Jobs
  <2>2. CASE kind = "worker_ssh_key"
    <3>1. job' = [job EXCEPT !.at = "drop", !.next = 1]
      BY <2>2 DEF AllAdded
    <3>2. QED
      BY <2>1, <2>2, <3>1 DEF Jobs
  <2>3. CASE kind = "bootstrap_ssh_key"
    BY <1>1, <2>3, GoesFits DEF AllAdded
  <2>4. QED
    BY <1>3, <2>2, <2>3
<1>5. used' \in Bounds /\ used'.rotations = used.rotations /\ used'.faults = used.faults
  BY <1>1, UsedFits DEF AllAdded
<1>6. kind' = kind /\ accepts' = accepts /\ stored' = stored /\ history' = history /\ missed' = missed /\ newest' = newest
  BY DEF AllAdded
<1>7. \A i \in DOMAIN Hosts : i < job.next
  BY <1>1, <1>3, Fields DEF More
<1>8. \A p \in Places : \E i \in DOMAIN Hosts : Hosts[i] = p
  BY <1>1, <1>3, Fields DEF Places, Keys
<1>9. Works' <=> Works
  BY <1>2, <1>6 DEF Works
<1>10. ~AtServer
  BY <1>3 DEF AtServer, Replaced
<1>11. TypeOK'
  BY <1>1, <1>2, <1>4, <1>5, <1>6 DEF TypeOK
<1>12. StepsFit'
  BY <1>3, <1>4, <1>6 DEF IInv, StepsFit
<1>13. InOrder'
  BY <1>3, <1>4, <1>6 DEF IInv, InOrder
<1>14. Counted'
  BY <1>5, <1>6, <1>10 DEF IInv, Counted, AtServer
<1>15. Accepted'
  <2>1. kind = "bootstrap_ssh_key" => Places = job.added \cup job.left /\ \A p \in job.added : job.new \in accepts[p]
    <3>1. job.added \subseteq Places /\ job.left \subseteq Places
      BY <1>1, Fields
    <3>2. kind = "bootstrap_ssh_key" => \A i \in DOMAIN Hosts : Hosts[i] \in job.added \cup job.left
      BY <1>3, <1>7 DEF IInv, Accepted
    <3>3. kind = "bootstrap_ssh_key" => \A p \in Places : p \in job.added \cup job.left
      BY <1>8, <3>2
    <3>4. kind = "bootstrap_ssh_key" => \A p \in job.added : job.new \in accepts[p]
      BY <1>3 DEF IInv, Accepted
    <3>5. QED
      BY <3>1, <3>3, <3>4
  <2>2. kind = "worker_ssh_key" => \A p \in Places : job.new \in accepts[p]
    BY <1>3, <1>7, <1>8 DEF IInv, Accepted
  <2>3. QED
    BY <1>2, <1>3, <1>4, <1>6, <1>10, <2>1, <2>2 DEF Accepted
<1>16. Copies'
  BY <1>3, <1>5, <1>6, Fields DEF IInv, Copies
<1>17. KeepsWorking'
  BY <1>2, <1>5, <1>6 DEF IInv, KeepsWorking, Works
<1>18. NothingFailed'
  BY <1>3, <1>4, <1>5, <1>6, <1>9 DEF IInv, NothingFailed
<1>19. QED
  BY <1>11, <1>12, <1>13, <1>14, <1>15, <1>16, <1>17, <1>18 DEF IInv

LEMMA OldDropped ==
    ASSUME IInv, job.at = "drop", More, job' = [job EXCEPT !.next = @ + 1],
           \/ Fine /\ Accepts(Host, accepts[Host] \ {stored})
           \/ Fault /\ UNCHANGED accepts,
           UNCHANGED <<kind, stored, history, missed, newest>>
    PROVE  IInv'
<1>1. TypeOK
  BY DEF IInv
<1>2. Places' = Places /\ Keys' = Keys /\ (AtServer' <=> AtServer)
  BY PlacesStay
<1>3. More /\ job.next \in DOMAIN Hosts /\ Host \in Places /\ Host = Hosts[job.next]
  <2>1. job.next \in Nat /\ job.next # 0 /\ Keys /\ job.next <= Len(Hosts)
    BY Fields DEF IInv, StepsFit, More, Keys
  <2>2. QED
    BY <1>1, <2>1, Fields DEF Host
<1>4. used' \in Bounds /\ used'.rotations = used.rotations /\ used'.faults \in {used.faults, used.faults + 1}
  BY <1>1, UsedFits
<1>5. /\ job' \in Jobs' /\ job'.at = "drop" /\ job'.task = job.task /\ job'.new = job.new
      /\ job'.added = job.added /\ job'.next = job.next + 1
  <2>1. job \in Jobs /\ Jobs' = Jobs /\ job.next + 1 \in Nat
    BY <1>1, <1>2, Fields DEF TypeOK, Jobs
  <2>2. job' = [job EXCEPT !.next = job.next + 1]
    OBVIOUS
  <2>3. QED
    BY <2>1, <2>2 DEF Jobs
<1>6. kind' = kind /\ stored' = stored /\ history' = history /\ missed' = missed /\ newest' = newest
  OBVIOUS
<1>7. kind = "worker_ssh_key" /\ ~AtServer
  BY DEF IInv, StepsFit, AtServer, Replaced
<1>8. job.new # stored /\ \A p \in Places : job.new \in accepts[p]
  <2>1. stored < newest /\ job.new = newest
    BY DEF IInv, InOrder
  <2>2. job.new # stored
    BY <1>1, <2>1, Fields
  <2>3. QED
    BY <1>7, <2>2 DEF IInv, Accepted
<1>9. accepts' \in [Places -> SUBSET Values] /\ \A p \in Places : job.new \in accepts'[p]
  <2>1. CASE Accepts(Host, accepts[Host] \ {stored})
    <3>1. accepts[Host] \ {stored} \in SUBSET Values
      BY <1>1, <1>3, Fields
    <3>2. /\ accepts' \in [Places -> SUBSET Values] /\ accepts'[Host] = accepts[Host] \ {stored}
          /\ \A q \in Places \ {Host} : accepts'[q] = accepts[q]
      BY <1>1, <1>3, <2>1, <3>1, AcceptsFits
    <3>3. QED
      BY <1>3, <1>8, <3>2
  <2>2. CASE UNCHANGED accepts
    BY <1>1, <1>8, <2>2 DEF TypeOK
  <2>3. QED
    BY <2>1, <2>2
<1>10. TypeOK'
  BY <1>1, <1>2, <1>4, <1>5, <1>9 DEF TypeOK
<1>11. StepsFit'
  BY <1>8, <1>9, Fields DEF IInv, StepsFit, AtServer
<1>12. InOrder'
  BY DEF IInv, InOrder
<1>13. Counted'
  BY <1>1, <1>2, <1>3, <1>4, <1>5, <1>6, <1>7, <1>8, <1>9, Fields, SMTT(30) DEF IInv, Counted, AtServer, Works
<1>14. Accepted'
  BY <1>2, <1>9 DEF Accepted
<1>15. Copies'
  BY <1>7 DEF Copies
<1>16. KeepsWorking'
  BY <1>7 DEF KeepsWorking
<1>17. NothingFailed'
  BY <1>7 DEF NothingFailed
<1>18. QED
  BY <1>10, <1>11, <1>12, <1>13, <1>14, <1>15, <1>16, <1>17 DEF IInv

LEMMA AllDropped ==
    ASSUME IInv, job.at = "drop", Fine, Goes("store"),
           UNCHANGED <<kind, accepts, stored, history, missed, newest>>
    PROVE  IInv'
<1>1. TypeOK
  BY DEF IInv
<1>2. Places' = Places /\ Keys' = Keys /\ (AtServer' <=> AtServer)
  BY PlacesStay
<1>3. /\ job' \in Jobs' /\ job'.at = "store" /\ job'.task = job.task /\ job'.new = job.new
      /\ job'.added = job.added /\ job'.next = job.next
  BY <1>1, GoesFits
<1>4. used' \in Bounds /\ used'.rotations = used.rotations /\ used'.faults = used.faults
  BY <1>1, UsedFits
<1>5. kind = "worker_ssh_key" /\ ~AtServer
  BY DEF IInv, StepsFit, AtServer, Replaced
<1>6. TypeOK'
  BY <1>1, <1>2, <1>3, <1>4 DEF TypeOK
<1>7. StepsFit'
  BY <1>3 DEF IInv, StepsFit
<1>8. InOrder'
  BY <1>3 DEF IInv, InOrder
<1>9. Counted'
  BY <1>3, <1>4 DEF IInv, Counted
<1>10. Accepted'
  BY <1>2, <1>3, <1>5 DEF IInv, Accepted
<1>11. Copies'
  BY <1>5 DEF Copies
<1>12. KeepsWorking'
  BY <1>5 DEF KeepsWorking
<1>13. NothingFailed'
  BY <1>3, <1>5 DEF NothingFailed
<1>14. QED
  BY <1>6, <1>7, <1>8, <1>9, <1>10, <1>11, <1>12, <1>13 DEF IInv

LEMMA DropsOldStep == ASSUME IInv, DropsOld PROVE IInv'
<1>1. TypeOK /\ kind = "worker_ssh_key" /\ job.at = "drop"
  BY DEF IInv, StepsFit, DropsOld
<1>2. job.next \in Nat /\ job.next # 0
  BY <1>1, Fields DEF IInv, StepsFit
<1>3. More => Host \in Places
  BY <1>1, <1>2, Fields DEF More, Host, Keys
<1>4. accepts' = accepts => accepts' \in [Places -> SUBSET Values] /\ \A p \in Places : accepts[p] \subseteq accepts'[p]
  BY <1>1 DEF TypeOK
<1>5. QED
  BY <1>1, <1>3, <1>4, OldDropped, AllDropped, ToUndo DEF DropsOld

LEMMA UndoesStep ==
    ASSUME IInv, Undoes
    PROVE  IInv'
<1>1. TypeOK
  BY DEF IInv
<1>2. Places' = Places /\ Keys' = Keys /\ (AtServer' <=> AtServer)
  BY PlacesStay DEF Undoes
<1>3. job.at = "undo" /\ kind = "worker_ssh_key" /\ ~AtServer
  BY DEF Undoes, IInv, StepsFit, AtServer, Replaced
<1>4. job' \in Jobs' /\ job'.at = "idle" /\ job'.task = "none" /\ job'.added = {}
  BY EndsFits DEF Undoes
<1>5. used' \in Bounds /\ used'.rotations = used.rotations /\ used'.faults = used.faults
  BY <1>1, UsedFits DEF Undoes
<1>6. kind' = kind /\ stored' = stored /\ history' = history /\ missed' = missed /\ newest' = newest
  BY DEF Undoes
<1>7. accepts' \in [Places -> SUBSET Values] /\ \A p \in Places : accepts[p] \ {job.new} \subseteq accepts'[p]
  <2>1. accepts' = [p \in Places |-> IF p \in job.added THEN accepts[p] \ {job.new} ELSE accepts[p]]
    BY DEF Undoes
  <2>2. \A p \in Places : accepts[p] \subseteq Values
    BY <1>1, Fields
  <2>3. QED
    BY <2>1, <2>2
<1>8. Works => Works'
  <2>1. stored # job.new
    BY <1>1, <1>3, Fields DEF IInv, InOrder
  <2>2. QED
    BY <1>2, <1>6, <1>7, <2>1 DEF Works
<1>9. TypeOK'
  BY <1>1, <1>2, <1>4, <1>5, <1>6, <1>7 DEF TypeOK
<1>10. StepsFit'
  BY <1>4, <1>6 DEF IInv, StepsFit
<1>11. InOrder'
  BY <1>4, <1>6 DEF IInv, InOrder
<1>12. Counted'
  BY <1>3, <1>5, <1>6 DEF IInv, Counted, AtServer
<1>13. Accepted'
  BY <1>4 DEF Accepted
<1>14. Copies'
  BY <1>3, <1>6 DEF Copies
<1>15. KeepsWorking'
  BY <1>3, <1>6 DEF KeepsWorking
<1>16. NothingFailed'
  BY <1>3, <1>5, <1>6, <1>8 DEF IInv, NothingFailed
<1>17. QED
  BY <1>9, <1>10, <1>11, <1>12, <1>13, <1>14, <1>15, <1>16 DEF IInv

(* The value in use becomes the newest of the earlier ones.                 *)
LEMMA EarlierFits ==
    ASSUME IInv, KeepsEarlier
    PROVE  /\ history' \in Seq(Values) /\ Len(history') <= Keep
           /\ \A i \in DOMAIN history' : i \in Nat /\ (history'[i] = stored \/ \E j \in DOMAIN history : history'[i] = history[j])
           /\ kind = "vault_password" => IsInjective(history')
           /\ kind = "bootstrap_ssh_key" =>
                 \A i \in DOMAIN history' : i = 1 \/ (i - 1 \in DOMAIN history /\ history'[i] = history[i - 1])
<1>1. TypeOK /\ stored \in Values /\ Keep \in Nat \ {0} /\ kind \in {"vault_password", "bootstrap_ssh_key"}
  BY Fields DEF TypeOK, IInv, StepsFit, KeepsEarlier
<1>2. PICK s \in Seq(Values) : s = history
  BY <1>1 DEF TypeOK
<1>3. PICK e \in Values : e = stored
  BY <1>1
<1>4. kind = "vault_password" => IsInjective(s)
  BY <1>2 DEF IInv, Copies
<1>5. kind = "vault_password" =>
         /\ RemoveFirst(s, e) \in Seq(Values)
         /\ \A i \in DOMAIN RemoveFirst(s, e) : \E j \in DOMAIN s : RemoveFirst(s, e)[i] = s[j]
         /\ IsInjective(RemoveFirst(s, e))
         /\ \A i \in DOMAIN RemoveFirst(s, e) : RemoveFirst(s, e)[i] # e
  BY <1>4, RemoveFirstFits
<1>6. Earlier \in Seq(Values)
  BY <1>1, <1>2, <1>3, <1>5 DEF Earlier
<1>7. PICK r \in Seq(Values) : r = Earlier
  BY <1>6
<1>8. PICK t : t = SubSeq(<<e>> \o r, 1, IF Len(<<e>> \o r) < Keep THEN Len(<<e>> \o r) ELSE Keep)
  OBVIOUS
<1>9. history' = t
  BY <1>3, <1>7, <1>8 DEF KeepsEarlier
<1>10. /\ t \in Seq(Values) /\ Len(t) <= Keep
       /\ \A i \in DOMAIN t : (i = 1 /\ t[i] = e) \/ (i - 1 \in DOMAIN r /\ t[i] = r[i - 1])
  BY <1>1, <1>8, NewestFits
<1>11. /\ DOMAIN t = 1..Len(t) /\ Len(t) \in Nat /\ DOMAIN r = 1..Len(r) /\ Len(r) \in Nat
  BY <1>10, LenProperties
<1>12. /\ \A i \in DOMAIN r : \E j \in DOMAIN history : r[i] = history[j]
       /\ kind = "vault_password" => IsInjective(r) /\ \A i \in DOMAIN r : r[i] # e
       /\ kind = "bootstrap_ssh_key" => r = history
  BY <1>2, <1>3, <1>5, <1>7 DEF Earlier
<1>13. kind = "vault_password" => IsInjective(t)
  <2> SUFFICES ASSUME kind = "vault_password", NEW i \in DOMAIN t, NEW j \in DOMAIN t, t[i] = t[j] PROVE i = j
    BY DEF IsInjective
  <2>1. i \in Nat /\ j \in Nat
    BY <1>11
  <2>2. CASE i = 1 \/ j = 1
    BY <1>10, <1>12, <2>2
  <2>3. CASE i # 1 /\ j # 1
    <3>1. i - 1 \in DOMAIN r /\ j - 1 \in DOMAIN r /\ r[i - 1] = r[j - 1]
      BY <1>10, <2>3
    <3>2. i - 1 = j - 1
      BY <1>12, <3>1 DEF IsInjective
    <3>3. QED
      BY <2>1, <3>2
  <2>4. QED
    BY <2>2, <2>3
<1>14. \A i \in DOMAIN t : i \in Nat /\ (t[i] = stored \/ \E j \in DOMAIN history : t[i] = history[j])
  BY <1>3, <1>10, <1>11, <1>12
<1>15. QED
  BY <1>9, <1>10, <1>12, <1>13, <1>14

LEMMA KeepsEarlierStep ==
    ASSUME IInv, KeepsEarlier
    PROVE  IInv'
<1>1. TypeOK
  BY DEF IInv
<1>2. Places' = Places /\ Keys' = Keys /\ (AtServer' <=> AtServer)
  BY PlacesStay DEF KeepsEarlier
<1>3. job.at = "history" /\ kind \in {"bootstrap_ssh_key", "vault_password"} /\ ~AtServer
  BY DEF KeepsEarlier, IInv, StepsFit, AtServer, Replaced
<1>4. /\ job' \in Jobs' /\ job'.at = (IF kind = "vault_password" THEN "vault" ELSE "store") /\ job'.task = job.task
      /\ job'.new = job.new /\ job'.added = job.added /\ job'.left = job.left /\ job'.next = job.next
  BY <1>1, <1>3, GoesFits DEF KeepsEarlier
<1>5. used' \in Bounds /\ used'.rotations = used.rotations /\ used'.faults = used.faults
  BY <1>1, UsedFits DEF KeepsEarlier
<1>6. kind' = kind /\ accepts' = accepts /\ stored' = stored /\ missed' = missed /\ newest' = newest
  BY DEF KeepsEarlier
<1>7. Works' <=> Works
  BY <1>2, <1>6 DEF Works
<1>8. history' \in Seq(Values) /\ Len(history') <= Keep
  BY EarlierFits
<1>9. stored < newest /\ job.new = newest /\ \A i \in DOMAIN history' : history'[i] < newest
  <2>1. stored < newest /\ job.new = newest /\ \A i \in DOMAIN history : history[i] < newest
    BY <1>3 DEF IInv, InOrder
  <2>2. QED
    BY <2>1, EarlierFits
<1>10. stored \in Nat /\ newest \in Nat /\ used.faults \in Nat
  BY <1>1, Fields
<1>11. TypeOK'
  BY <1>1, <1>2, <1>4, <1>5, <1>6, <1>8 DEF TypeOK
<1>12. StepsFit'
  BY <1>3, <1>4, <1>6 DEF IInv, StepsFit
<1>13. InOrder'
  <2>1. \A i \in DOMAIN history' : history'[i] <= newest
    <3>1. history' \in Seq(Values) /\ Values \subseteq Nat
      BY <1>1, <1>8, Fields DEF Values
    <3>2. \A i \in DOMAIN history' : history'[i] \in Nat
      BY <3>1, ElementOfSeq, LenProperties
    <3>3. QED
      BY <1>9, <1>10, <3>2
  <2>2. QED
    BY <1>4, <1>6, <1>9, <1>10, <2>1 DEF InOrder
<1>14. Counted'
  BY <1>4, <1>5, <1>6 DEF IInv, Counted
<1>15. Accepted'
  BY <1>2, <1>3, <1>4, <1>6 DEF IInv, Accepted, AtServer
<1>16. Copies'
  <2>1. ASSUME kind = "bootstrap_ssh_key", NEW i \in DOMAIN history', history'[i] = stored PROVE i <= used.faults + 1
    <3>1. i = 1 \/ (i - 1 \in DOMAIN history /\ history[i - 1] = stored)
      BY <2>1, EarlierFits
    <3>2. \A j \in DOMAIN history : history[j] = stored => j <= used.faults
      BY <1>3, <2>1, <1>10 DEF IInv, Copies
    <3>3. i \in Nat
      BY EarlierFits
    <3>4. i - 1 \in DOMAIN history /\ history[i - 1] = stored => i - 1 <= used.faults
      BY <3>2
    <3>5. QED
      BY <1>10, <3>1, <3>3, <3>4
  <2>2. kind = "vault_password" => IsInjective(history')
    BY EarlierFits
  <2>3. kind = "bootstrap_ssh_key" => job'.at = "store"
    BY <1>4
  <2>4. QED
    BY <1>5, <1>6, <2>1, <2>2, <2>3 DEF Copies
<1>17. KeepsWorking'
  BY <1>2, <1>5, <1>6 DEF IInv, KeepsWorking, Works
<1>18. NothingFailed'
  BY <1>3, <1>4, <1>5, <1>6, <1>7 DEF IInv, NothingFailed
<1>19. QED
  BY <1>11, <1>12, <1>13, <1>14, <1>15, <1>16, <1>17, <1>18 DEF IInv

LEMMA StoresKeyStep ==
    ASSUME IInv, StoresKey
    PROVE  IInv'
<1>1. TypeOK
  BY DEF IInv
<1>2. Places' = Places /\ Keys' = Keys /\ (AtServer' <=> AtServer)
  BY PlacesStay DEF StoresKey
<1>3. job.at = "store" /\ kind = "bootstrap_ssh_key" /\ ~AtServer
  BY DEF StoresKey, AtServer, Replaced
<1>4. job' \in Jobs' /\ job'.at = "idle" /\ job'.task = "none" /\ job'.added = {}
  BY EndsFits DEF StoresKey
<1>5. used' \in Bounds /\ used'.rotations = used.rotations /\ used'.faults = used.faults
  BY <1>1, UsedFits DEF StoresKey
<1>6. kind' = kind /\ accepts' = accepts /\ history' = history /\ newest' = newest /\ stored' = job.new /\ missed' = job.left
  BY DEF StoresKey
<1>7. job.new = newest /\ job.new \in Values /\ newest \in Nat /\ \A i \in DOMAIN history : history[i] \in Nat /\ history[i] < newest
  BY <1>1, <1>3, Fields DEF IInv, InOrder
<1>8. \A p \in Places \ missed' : stored' \in accepts'[p]
  <2>1. Places = job.added \cup job.left /\ \A p \in job.added : job.new \in accepts[p]
    BY <1>3 DEF IInv, Accepted
  <2>2. QED
    BY <1>6, <2>1
<1>9. Works'
  BY <1>2, <1>8 DEF Works
<1>10. TypeOK'
  BY <1>1, <1>2, <1>4, <1>5, <1>6, Fields DEF TypeOK
<1>11. StepsFit'
  BY <1>3, <1>4, <1>6 DEF StepsFit
<1>12. InOrder'
  BY <1>4, <1>6, <1>7 DEF InOrder
<1>13. Counted'
  BY <1>3, <1>5, <1>6 DEF IInv, Counted, AtServer
<1>14. Accepted'
  BY <1>4 DEF Accepted
<1>15. Copies'
  BY <1>6, <1>7 DEF IInv, Copies
<1>16. KeepsWorking'
  BY <1>9 DEF KeepsWorking, Works
<1>17. NothingFailed'
  BY <1>9 DEF NothingFailed, Works
<1>18. QED
  BY <1>10, <1>11, <1>12, <1>13, <1>14, <1>15, <1>16, <1>17 DEF IInv

LEMMA RekeyFailsStep == ASSUME IInv, RekeyFails PROVE IInv'
BY EndsAsItWas DEF RekeyFails

-----------------------------------------------------------------------------
(* The vault and its password.                                             *)

LEMMA VaultStored ==
    ASSUME IInv, job.at = "vault", Fine, Accepts(Server, {job.new}), Goes("store"),
           UNCHANGED <<kind, stored, history, missed, newest>>
    PROVE  IInv'
<1>1. TypeOK
  BY DEF IInv
<1>2. Places' = Places /\ Keys' = Keys /\ (AtServer' <=> AtServer)
  BY PlacesStay
<1>3. /\ job' \in Jobs' /\ job'.at = "store" /\ job'.task = job.task /\ job'.new = job.new
      /\ job'.added = job.added /\ job'.next = job.next
  BY <1>1, GoesFits
<1>4. used' \in Bounds /\ used'.rotations = used.rotations /\ used'.faults = used.faults
  BY <1>1, UsedFits
<1>5. kind = "vault_password" /\ ~AtServer
  BY DEF IInv, StepsFit, AtServer, Replaced
<1>6. Server \in Places /\ Places = {Server}
  BY <1>5 DEF Places, Keys
<1>7. accepts' \in [Places -> SUBSET Values] /\ accepts'[Server] = {job.new}
  <2>1. {job.new} \in SUBSET Values
    BY <1>1, Fields
  <2>2. QED
    BY <1>1, <1>6, <2>1, AcceptsFits
<1>8. TypeOK'
  BY <1>1, <1>2, <1>3, <1>4, <1>7 DEF TypeOK
<1>9. StepsFit'
  BY <1>3 DEF IInv, StepsFit
<1>10. InOrder'
  BY <1>3 DEF IInv, InOrder
<1>11. Counted'
  BY <1>4, <1>5 DEF IInv, Counted, AtServer
<1>12. Accepted'
  BY <1>3, <1>5, <1>7 DEF Accepted
<1>13. Copies'
  BY <1>5 DEF IInv, Copies
<1>14. KeepsWorking'
  BY <1>5 DEF KeepsWorking
<1>15. NothingFailed'
  BY <1>3, <1>5 DEF NothingFailed
<1>16. QED
  BY <1>8, <1>9, <1>10, <1>11, <1>12, <1>13, <1>14, <1>15 DEF IInv

LEMMA StoresVaultStep == ASSUME IInv, StoresVault PROVE IInv'
<1>1. /\ TypeOK /\ kind = "vault_password" /\ job.at = "vault"
      /\ UNCHANGED <<kind, stored, history, missed, newest>>
  BY DEF IInv, StepsFit, StoresVault
<1>2. Server \in Places /\ {job.new} \in SUBSET Values
  BY <1>1, Fields DEF Places, Keys
<1>3. stored' \in Values /\ stored' <= newest
  BY <1>1 DEF TypeOK, IInv, InOrder
<1>4. Accepts(Server, {job.new}) => accepts' \in [Places -> SUBSET Values]
  BY <1>1, <1>2, AcceptsFits
<1>5. CASE Fault /\ Accepts(Server, {job.new}) /\ Ends
  BY <1>1, <1>3, <1>4, <1>5, FaultEnds
<1>6. CASE Fault /\ UNCHANGED accepts /\ Ends
  BY <1>1, <1>6, FaultAtServer
<1>7. CASE Fine /\ Accepts(Server, {job.new}) /\ Goes("store")
  BY <1>1, <1>7, VaultStored
<1>8. QED
  BY <1>5, <1>6, <1>7 DEF StoresVault

LEMMA VaultPutFailsStep == ASSUME IInv, VaultPutFails PROVE IInv'
<1>1. /\ TypeOK /\ kind = "vault_password" /\ job.at = "store" /\ Fault /\ Ends
      /\ UNCHANGED <<kind, history, missed, newest>>
  BY DEF IInv, VaultPutFails
<1>2. Server \in Places /\ {stored} \in SUBSET Values
  BY <1>1 DEF Places, Keys, TypeOK
<1>3. Accepts(Server, {stored}) => accepts' \in [Places -> SUBSET Values]
  BY <1>1, <1>2, AcceptsFits
<1>4. accepts' = accepts => accepts' \in [Places -> SUBSET Values]
  BY <1>1 DEF TypeOK
<1>5. stored' \in {stored, job.new} /\ accepts' \in [Places -> SUBSET Values]
  BY <1>3, <1>4 DEF VaultPutFails
<1>6. stored <= newest /\ job.new = newest /\ newest \in Nat /\ job.new \in Values /\ stored \in Values
  BY <1>1, Fields DEF IInv, InOrder, TypeOK
<1>7. stored' \in Values /\ stored' <= newest
  BY <1>1, <1>5, <1>6 DEF TypeOK
<1>8. QED
  BY <1>1, <1>5, <1>7, FaultEnds

-----------------------------------------------------------------------------
(* The checks.                                                             *)

LEMMA AgentRecoversStep ==
    ASSUME IInv, AgentRecovers
    PROVE  IInv'
<1>1. TypeOK
  BY DEF IInv
<1>2. Places' = Places /\ Keys' = Keys /\ (AtServer' <=> AtServer)
  BY PlacesStay DEF AgentRecovers
<1>3. job.at = "idle" /\ kind = "conjur_api_key" /\ ~Works /\ AtServer /\ Fine /\ UNCHANGED <<kind, history, missed, job>>
  BY OpenBaoWorks DEF AgentRecovers, AtServer
<1>4. Server \in Places /\ Places = {Server}
  BY <1>3 DEF Places, Keys
<1>5. used' \in Bounds /\ used'.rotations = used.rotations /\ used'.faults = used.faults
  BY <1>1, <1>3, UsedFits
<1>6. newest' = newest + 1 /\ stored' = newest + 1 /\ newest + 1 <= used.rotations + used.faults /\ newest + 1 \in Values /\ newest \in Nat
  <2>1. newest < used.rotations + used.faults
    BY <1>3 DEF IInv, Counted
  <2>2. newest \in Nat /\ used.rotations \in Nat /\ used.faults \in Nat
    BY <1>1, Fields
  <2>3. used.rotations <= MaxRotations /\ used.faults <= MaxFaults /\ MaxRotations \in Nat /\ MaxFaults \in Nat
    BY <1>1, Fields
  <2>4. newest + 1 \in 0..(MaxRotations + MaxFaults + 1) /\ newest + 1 <= used.rotations + used.faults
    BY <2>1, <2>2, <2>3
  <2>5. newest' = newest + 1 /\ stored' = newest + 1
    BY DEF AgentRecovers
  <2>6. QED
    BY <2>2, <2>4, <2>5 DEF Values
<1>7. accepts' \in [Places -> SUBSET Values] /\ accepts'[Server] = {newest + 1}
  <2>1. {newest + 1} \in SUBSET Values
    BY <1>6
  <2>2. Accepts(Server, {newest + 1})
    BY <1>6 DEF AgentRecovers
  <2>3. QED
    BY <1>1, <1>3, <1>4, <2>1, <2>2, AcceptsFits
<1>8. Works'
  BY <1>2, <1>4, <1>6, <1>7 DEF Works
<1>9. job' \in Jobs'
  BY <1>1, <1>2, <1>3 DEF TypeOK, Jobs
<1>10. \A i \in DOMAIN history : history[i] \in Nat /\ history[i] <= newest
  BY <1>1, Fields DEF IInv, InOrder
<1>11. TypeOK'
  BY <1>1, <1>2, <1>3, <1>5, <1>6, <1>7, <1>9 DEF TypeOK
<1>12. StepsFit'
  BY <1>3 DEF IInv, StepsFit
<1>13. InOrder'
  BY <1>1, <1>2, <1>3, <1>4, <1>5, <1>6, <1>7, <1>8, <1>9, <1>10 DEF InOrder
<1>14. Counted'
  BY <1>5, <1>6, <1>8 DEF Counted
<1>15. Accepted'
  BY <1>3 DEF Accepted
<1>16. Copies'
  BY <1>3 DEF Copies
<1>17. KeepsWorking'
  BY <1>8 DEF KeepsWorking, Works
<1>18. NothingFailed'
  BY <1>3, <1>8 DEF NothingFailed
<1>19. QED
  BY <1>11, <1>12, <1>13, <1>14, <1>15, <1>16, <1>17, <1>18 DEF IInv

LEMMA RecoversKeyStep ==
    ASSUME IInv, RecoversKey
    PROVE  IInv'
<1>1. TypeOK
  BY DEF IInv
<1>2. Places' = Places /\ Keys' = Keys /\ (AtServer' <=> AtServer)
  BY PlacesStay DEF RecoversKey
<1>3. job.at = "idle" /\ kind = "worker_ssh_key" /\ ~AtServer /\ Fine /\ UNCHANGED <<kind, stored, history, missed, newest, job>>
  BY DEF RecoversKey, AtServer, Replaced
<1>4. used' \in Bounds /\ used'.rotations = used.rotations /\ used'.faults = used.faults
  BY <1>1, <1>3, UsedFits
<1>5. accepts' \in [Places -> SUBSET Values] /\ \A p \in Places : stored \in accepts'[p]
  <2>1. accepts' = [p \in Places |-> accepts[p] \cup {stored}]
    BY DEF RecoversKey
  <2>2. stored \in Values /\ \A p \in Places : accepts[p] \subseteq Values
    BY <1>1, Fields DEF TypeOK
  <2>3. QED
    BY <2>1, <2>2
<1>6. Works'
  BY <1>2, <1>3, <1>5 DEF Works
<1>7. job' \in Jobs'
  BY <1>1, <1>2, <1>3 DEF TypeOK, Jobs
<1>8. TypeOK'
  BY <1>2, <1>3, <1>4, <1>5, <1>7 DEF IInv, TypeOK
<1>9. StepsFit'
  BY <1>3 DEF IInv, StepsFit
<1>10. InOrder'
  BY <1>3 DEF IInv, InOrder
<1>11. Counted'
  BY <1>3, <1>4, <1>6 DEF IInv, Counted
<1>12. Accepted'
  BY <1>3 DEF Accepted
<1>13. Copies'
  BY <1>3 DEF Copies
<1>14. KeepsWorking'
  BY <1>6 DEF KeepsWorking, Works
<1>15. NothingFailed'
  BY <1>3, <1>6 DEF NothingFailed
<1>16. QED
  BY <1>8, <1>9, <1>10, <1>11, <1>12, <1>13, <1>14, <1>15 DEF IInv

LEMMA RecoversVaultStep ==
    ASSUME IInv, RecoversVault
    PROVE  IInv'
<1>1. TypeOK
  BY DEF IInv
<1>2. Places' = Places /\ Keys' = Keys /\ (AtServer' <=> AtServer)
  BY PlacesStay DEF RecoversVault
<1>3. job.at = "idle" /\ kind = "vault_password" /\ ~Works /\ ~AtServer /\ Fine /\ UNCHANGED <<kind, accepts, history, missed, newest, job>>
  BY DEF RecoversVault, AtServer, Replaced
<1>4. Server \in Places /\ Places = {Server}
  BY <1>3 DEF Places, Keys
<1>5. used' \in Bounds /\ used'.rotations = used.rotations /\ used'.faults = used.faults
  BY <1>1, <1>3, UsedFits
<1>6. stored' \in accepts[Server] /\ \E i \in DOMAIN history : stored' = history[i]
  BY DEF RecoversVault, Range
<1>7. stored' \in Values /\ stored' <= newest
  BY <1>1, <1>6, Fields DEF IInv, InOrder
<1>8. Works'
  BY <1>2, <1>3, <1>4, <1>6 DEF Works
<1>9. job' \in Jobs'
  BY <1>1, <1>2, <1>3 DEF TypeOK, Jobs
<1>10. TypeOK'
  BY <1>2, <1>3, <1>5, <1>7, <1>9 DEF IInv, TypeOK
<1>11. StepsFit'
  BY <1>1, <1>2, <1>3, <1>4 DEF IInv, StepsFit
<1>12. InOrder'
  BY <1>3, <1>7 DEF IInv, InOrder
<1>13. Counted'
  BY <1>2, <1>3, <1>5 DEF IInv, Counted
<1>14. Accepted'
  BY <1>3 DEF Accepted
<1>15. Copies'
  BY <1>3 DEF IInv, Copies
<1>16. KeepsWorking'
  BY <1>8 DEF KeepsWorking, Works
<1>17. NothingFailed'
  BY <1>3, <1>8 DEF NothingFailed
<1>18. QED
  BY <1>10, <1>11, <1>12, <1>13, <1>14, <1>15, <1>16, <1>17 DEF IInv

LEMMA WorkerDiesStep == ASSUME IInv, WorkerDies PROVE IInv'
<1>1. /\ stored' \in Values /\ stored' <= newest /\ accepts' \in [Places -> SUBSET Values]
      /\ Fault /\ Ends /\ UNCHANGED <<kind, accepts, stored, history, missed, newest>>
  BY DEF WorkerDies, IInv, InOrder, TypeOK
<1>2. QED
  BY <1>1, FaultEnds, OpenBaoWorks

LEMMA Stutters == ASSUME IInv, UNCHANGED vars PROVE IInv'
BY DEF IInv, vars, TypeOK, Jobs, Places, Keys, StepsFit, AtServer, InOrder, Counted, Works, Accepted, Copies,
   KeepsWorking, NothingFailed

-----------------------------------------------------------------------------
(* The theorems.                                                           *)

\* Every step of a rotation, of a check and of a worker that dies keeps the inductive invariant.
THEOREM NextIInv == IInv /\ [Next]_vars => IInv'
<1> SUFFICES ASSUME IInv, [Next]_vars PROVE IInv'
  OBVIOUS
<1>1. CASE Rotate
  BY <1>1, RotateStep
<1>2. CASE ServerSets \/ Tries \/ PutBack \/ Stores
  BY <1>2, ServerSetsStep, TriesStep, PutBackStep, StoresStep
<1>3. CASE Issues \/ Destroys \/ StoreFails
  BY <1>3, IssuesStep, DestroysStep, StoreFailsStep
<1>4. CASE AddsKey \/ Skips \/ OffAtAdd \/ Refuses \/ AllAdded
  BY <1>4, AddsKeyStep, SkipsStep, OffAtAddStep, AllAddedStep
<1>5. CASE DropsOld \/ Undoes \/ KeepsEarlier \/ StoresKey
  BY <1>5, DropsOldStep, UndoesStep, KeepsEarlierStep, StoresKeyStep
<1>6. CASE RekeyFails \/ StoresVault \/ VaultPutFails
  BY <1>6, RekeyFailsStep, StoresVaultStep, VaultPutFailsStep
<1>7. CASE RecoversByRotation \/ AgentRecovers \/ RecoversKey \/ RecoversVault
  BY <1>7, RecoversByRotationStep, AgentRecoversStep, RecoversKeyStep, RecoversVaultStep
<1>8. CASE WorkerDies
  BY <1>8, WorkerDiesStep
<1>9. CASE UNCHANGED vars
  BY <1>9, Stutters
<1>10. QED
  BY <1>1, <1>2, <1>3, <1>4, <1>5, <1>6, <1>7, <1>8, <1>9 DEF Next, JobStep, Check

\* The steps of each kind's rotation, the order values are made in, where the new value is accepted
\* and what is kept of the earlier ones fit together in every reachable state.
THEOREM Invariance == Spec => []IInv
<1>1. Init => IInv
  BY InitIInv
<1>2. IInv /\ [Next]_vars => IInv'
  BY NextIInv
<1>3. QED
  BY <1>1, <1>2, PTL DEF Spec

\* Every variable keeps its type, however many rotations and faults there are: rotations and recoveries
\* make no more values than were counted, and no more than Keep earlier ones are ever kept
\* (engine_secrets.py:166-168, 215-217).
THEOREM TypeCorrect == Spec => []TypeOK
<1>1. IInv => TypeOK
  BY DEF IInv
<1>2. QED
  BY <1>1, Invariance, PTL

\* While jobs run beside the rotation: OpenBao accepts the stored secret ID in every state
\* (the new one is issued beside it and stored before it is destroyed), and, as long as fewer than Keep
\* rotations broke off, every VM accepts the stored key that the rotation which stored it did not pass
\* over (vmaccess.py:115-147): one that was off, refused every kept key, is on a remote host, or belongs
\* to an environment that was not deployed is passed over.
THEOREM KeepsWorkingAlways == Spec => []KeepsWorking
<1>1. IInv => KeepsWorking
  BY DEF IInv
<1>2. QED
  BY <1>1, Invariance, PTL

\* A rotation that a server refuses, that finds its new value does not work, or that goes through,
\* leaves a stored value that is accepted everywhere (by every VM that the rotation which stored it did
\* not pass over), for every kind of secret and any list of hosts, while no fault happened.
THEOREM OldStaysAlways == Spec => []OldStays
<1>1. IInv => OldStays
  BY DEF IInv, NothingFailed, OldStays
<1>2. QED
  BY <1>1, Invariance, PTL

=============================================================================
