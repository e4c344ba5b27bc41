--------------------------- MODULE TemplatesProofs ---------------------------
(***************************************************************************)
(* Proofs about Templates for any hosts, environments, months and bounds:   *)
(* no image goes from under a VM that the delete job could know of, and     *)
(* retention leaves a whole version of the line.                            *)
(***************************************************************************)
EXTENDS Templates, FiniteSetTheorems, WellFoundedInduction, TLAPS

LEMMA Constants ==
    /\ Primary \in Hosts /\ Hosts \cap Envs = {} /\ Sync \notin Hosts \cup Envs /\ None \notin Copiers
    /\ None \notin Images /\ None \notin Listings /\ None \notin Deploys
    /\ None \notin Refreshes /\ None \notin Copies /\ None \notin Versions
    /\ Specs \subseteq [home : Hosts, uses : [Hosts -> Versions \cup {None}]]
    /\ Keep \in Nat /\ Keep >= 1 /\ LastMonth \in Nat /\ MaxEvents \in Nat
    /\ 1 \in Versions /\ Versions \subseteq Nat
BY TemplatesAssumption DEF TemplatesAssumption, Versions

\* What the variables hold at one place.
LEMMA Typed ==
    ASSUME TypeOK
    PROVE  /\ month \in Versions /\ month \in Nat /\ asked \in Nat /\ asked <= month
           /\ \A h \in Hosts, v \in Versions : image[h][v] \in Images \cup {None}
           /\ \A h \in Hosts : row[h] \subseteq 1..month
           /\ 1..month \subseteq Versions
           /\ \A e \in Envs : deploy[e] \in Deploys \cup {None}
           /\ \A h \in Hosts : refresh[h] \in Refreshes \cup {None}
           /\ \A h \in Hosts : throwaway[h] \subseteq Versions
           /\ \A h \in Hosts, v \in Versions : delete[h][v] \in {"none", "queued", "checked", "looked"}
           /\ \A c \in Copiers : copy[c] \in Copies \cup {None}
           /\ \A e \in Envs, h \in Hosts : env[e].uses[h] \in Versions \cup {None}
           /\ \A e \in Envs : env[e].home \in Hosts
<1>1. month \in Nat /\ asked \in Nat /\ asked <= month /\ 1..month \subseteq Versions
  BY Constants DEF TypeOK, Versions
<1>2. QED
  BY <1>1 DEF TypeOK

LEMMA InitIInv == Init => IInv
<1> SUFFICES ASSUME Init PROVE IInv
  OBVIOUS
<1>1. PICK H \in SUBSET Hosts :
        /\ Primary \in H
        /\ image = [h \in Hosts |-> [v \in Versions |->
                       IF v = 1 /\ h \in H THEN [by |-> Primary, whole |-> TRUE] ELSE None]]
        /\ row = [h \in Hosts |-> IF h \in H THEN {1} ELSE {}]
  BY DEF Init
<1>2. /\ month = 1 /\ asked = 1 /\ registered = {1} /\ listing = None
      /\ refresh = [h \in Hosts |-> None] /\ throwaway = [h \in Hosts |-> {}]
      /\ delete = [h \in Hosts |-> [v \in Versions |-> "none"]]
      /\ copy = [c \in Copiers |-> None] /\ hurt = {}
  BY DEF Init
<1>3. TypeOK
  <2>1. [by |-> Primary, whole |-> TRUE] \in Images
    BY Constants DEF Images
  <2>2. image \in [Hosts -> [Versions -> Images \cup {None}]]
    BY <1>1, <2>1
  <2>3. 1 \in 1..1
    OBVIOUS
  <2>4. row \in [Hosts -> SUBSET (1..1)]
    BY <1>1, <2>3
  <2>5. env \in [Envs -> [status : {"none", "recorded", "destroyed"}, home : Hosts,
                          uses : [Hosts -> Versions \cup {None}]]]
    BY Constants DEF Init, Unrecorded
  <2>6. /\ vm \in [Envs -> [Hosts -> {"none", "disk", "defined"}]]
        /\ deploy \in [Envs -> Deploys \cup {None}]
        /\ late \subseteq Envs \X Hosts /\ events \in 0..MaxEvents
    BY Constants DEF Init
  <2>7. QED
    BY <1>2, <2>2, <2>3, <2>4, <2>5, <2>6, Constants DEF TypeOK
<1>4. ImagesMade /\ CopiesFit /\ NamedIsWhole
  BY <1>1, <1>2, Constants DEF ImagesMade, CopiesFit, NamedIsWhole
<1>5. RefreshesFit /\ DeletesFit
  BY <1>2 DEF RefreshesFit, DeletesFit, RefreshAt
<1>6. DeploysFit /\ Seen
  BY <1>2 DEF Init, DeploysFit, Seen, Recorded, Unrecorded, UnderVm
<1>7. OneKept
  <2> SUFFICES ASSUME NEW h \in Hosts
               PROVE  ~RefreshAt(h, "copying") /\ (Bare(h) \/ \E x \in Versions : Newest(h, x))
    BY DEF OneKept
  <2>1. ~RefreshAt(h, "copying")
    BY <1>2 DEF RefreshAt
  <2>2. CASE h \in H
    <3>1. image[h][1] # None
      <4>1. image[h][1] = [by |-> Primary, whole |-> TRUE]
        BY <2>2, <1>1, Constants
      <4>2. image[h][1] \in Images
        BY <4>1, Constants DEF Images
      <4>3. QED
        BY <4>2, Constants
    <3>2. \A v \in Versions : (Known(h, v) => v <= 1) /\ delete[h][v] = "none"
      BY <2>2, <1>1, <1>2, Constants DEF Known
    <3>3. QED
      BY <2>1, <3>1, <3>2, Constants DEF Newest
  <2>3. CASE h \notin H
    BY <2>1, <2>3, <1>1, <1>2 DEF Bare, Known
  <2>4. QED
    BY <2>2, <2>3
<1>8. QED
  BY <1>3, <1>4, <1>5, <1>6, <1>7 DEF IInv

-----------------------------------------------------------------------------
(* Copies.                                                                  *)

\* A copy that begins.
LEMMA StartsCopyFits ==
    ASSUME TypeOK, NEW c \in Copiers, NEW from \in Hosts, NEW to \in Hosts, NEW v \in Versions,
           image[from][v] # None, StartsCopy(c, from, to, v)
    PROVE  /\ copy' \in [Copiers -> Copies \cup {None}]
           /\ copy'[c] # None /\ copy'[c].version = v /\ copy'[c].to = to /\ ~copy'[c].named
           /\ \A d \in Copiers \ {c} : copy'[d] = copy[d]
<1>1. image[from][v] \in Images
  BY Typed
<1>2. [to |-> to, version |-> v, by |-> image[from][v].by, whole |-> image[from][v].whole, named |-> FALSE] \in Copies
  BY <1>1 DEF Images, Copies
<1>3. copy \in [Copiers -> Copies \cup {None}]
  BY DEF TypeOK
<1>4. QED
  BY <1>2, <1>3, Constants DEF StartsCopy

-----------------------------------------------------------------------------
(* The sync of the libraries and the month.                                 *)

LEMMA NextMonthKeeps == IInv /\ NextMonth => IInv'
<1> SUFFICES ASSUME IInv, NextMonth PROVE IInv'
  OBVIOUS
<1>1. /\ month' = month + 1 /\ month' \in Versions /\ month \in Nat /\ \A h \in Hosts : refresh[h] = None
      /\ UNCHANGED <<asked, image, row, registered, listing, env, vm, deploy, refresh, delete, throwaway, copy, late, hurt, events>>
  BY Typed, Constants DEF NextMonth, IInv, Versions, rows, jobs, marks, history
<1>2. 1..month \subseteq 1..month'
  BY <1>1
<1>3. TypeOK'
  BY <1>1, <1>2, Typed DEF IInv, TypeOK
<1>4. ImagesMade' /\ CopiesFit' /\ RefreshesFit' /\ DeletesFit'
  <2>1. \A v \in Versions : v <= month \/ v < month => v <= month' /\ v < month'
    BY <1>1, Constants
  <2>2. \A c \in Copiers : copy[c] # None => copy[c].version \in Versions
    BY Typed DEF IInv, Copies
  <2>3. ImagesMade'
    BY <1>1, <2>1, <2>2 DEF IInv, ImagesMade
  <2>4. CopiesFit'
    <3>1. copy' = copy /\ deploy' = deploy /\ refresh' = refresh /\ hurt' = hurt
      BY <1>1
    <3>2. QED
      BY <3>1 DEF IInv, CopiesFit, At, RefreshAt
  <2>5. \A h \in Hosts : throwaway[h] \subseteq Versions
    BY Typed DEF IInv
  <2>6. RefreshesFit'
    <3>1. \A h \in Hosts : refresh'[h] = None /\ throwaway'[h] = throwaway[h]
      BY <1>1
    <3>2. \A h \in Hosts : \A w \in throwaway[h] : w < month'
      BY <2>1, <2>5 DEF IInv, RefreshesFit
    <3>3. QED
      BY <3>1, <3>2 DEF RefreshesFit, RefreshAt
  <2>7. DeletesFit'
    <3>1. delete' = delete
      BY <1>1
    <3>2. QED
      BY <2>1, <3>1 DEF IInv, DeletesFit
  <2>8. QED
    BY <2>3, <2>4, <2>6, <2>7
<1>5. NamedIsWhole'
  BY <1>1 DEF IInv, NamedIsWhole, RefreshAt
<1>6. DeploysFit' /\ Seen'
  BY <1>1 DEF IInv, DeploysFit, Seen, Recorded, UnderVm
<1>7. OneKept'
  BY <1>1 DEF IInv, OneKept, Holds, Bare, Newest, Known, RefreshAt
<1>8. QED
  BY <1>3, <1>4, <1>5, <1>6, <1>7 DEF IInv

LEMMA SyncListsKeeps == ASSUME IInv, NEW g \in Hosts, SyncLists(g) PROVE IInv'
<1>1. /\ listing' = [host |-> g, has |-> {v \in Versions : image[g][v] # None}]
      /\ UNCHANGED <<month, asked, image, row, registered, env, vm, deploy, refresh, delete, throwaway, copy, late, hurt, events>>
  BY DEF SyncLists, rows, jobs, marks, history
<1>2. listing'.host = g /\ \A v \in Versions : v \in listing'.has <=> image[g][v] # None
  BY <1>1
<1>3. listing' \in Listings /\ listing'.has \subseteq 1..month
  BY <1>1, Typed DEF Listings, IInv, ImagesMade, Versions
<1>4. TypeOK'
  BY <1>1, <1>3 DEF IInv, TypeOK
<1>5. ImagesMade' /\ CopiesFit' /\ RefreshesFit' /\ DeletesFit' /\ NamedIsWhole'
  BY <1>1 DEF IInv, ImagesMade, CopiesFit, RefreshesFit, DeletesFit, NamedIsWhole, At, RefreshAt, Holds
<1>6. DeploysFit' /\ Seen'
  BY <1>1 DEF IInv, DeploysFit, Seen, Recorded, UnderVm
<1>7. \A h \in Hosts, v \in Versions : Known(h, v)' => Known(h, v)
  BY <1>1, <1>2 DEF Known
<1>8. OneKept'
  BY <1>1, <1>7 DEF IInv, OneKept, Holds, Bare, Newest, RefreshAt
<1>9. QED
  BY <1>4, <1>5, <1>6, <1>8 DEF IInv

LEMMA SyncWritesKeeps == IInv /\ SyncWrites => IInv'
<1> SUFFICES ASSUME IInv, SyncWrites PROVE IInv'
  OBVIOUS
<1>1. /\ listing # None /\ listing' = None /\ row' = [row EXCEPT ![listing.host] = listing.has]
      /\ registered' = IF listing.host = Primary THEN registered \cup listing.has ELSE registered
      /\ UNCHANGED <<month, asked, image, env, vm, deploy, refresh, delete, throwaway, copy, late, hurt, events>>
  BY DEF SyncWrites, jobs, marks, history
<1>2. listing.host \in Hosts /\ listing.has \subseteq 1..month
  BY <1>1 DEF IInv, TypeOK, Listings
<1>3. TypeOK'
  BY <1>1, <1>2 DEF IInv, TypeOK
<1>4. ImagesMade' /\ CopiesFit' /\ RefreshesFit' /\ DeletesFit' /\ NamedIsWhole'
  BY <1>1 DEF IInv, ImagesMade, CopiesFit, RefreshesFit, DeletesFit, NamedIsWhole, At, RefreshAt, Holds
<1>5. DeploysFit' /\ Seen'
  BY <1>1 DEF IInv, DeploysFit, Seen, Recorded, UnderVm
<1>6. \A h \in Hosts, v \in Versions : Known(h, v)' => Known(h, v)
  BY <1>1, <1>2 DEF IInv, TypeOK, Known
<1>7. OneKept'
  BY <1>1, <1>6 DEF IInv, OneKept, Holds, Bare, Newest, RefreshAt
<1>8. QED
  BY <1>3, <1>4, <1>5, <1>7 DEF IInv

LEMMA SyncTemplateKeeps == ASSUME IInv, NEW g \in Hosts, NEW u \in Versions, SyncTemplate(g, u) PROVE IInv'
<1>1. /\ copy[Sync] = None /\ u \in row[Primary] /\ image[Primary][u] # None
      /\ \/ Same(g, u, image[Primary][u]) /\ row' = [row EXCEPT ![g] = @ \cup {u}] /\ UNCHANGED copy
         \/ StartsCopy(Sync, Primary, g, u) /\ UNCHANGED row
      /\ UNCHANGED <<month, asked, image, registered, listing, env, vm, deploy, refresh, delete, throwaway, late, hurt, events>>
  BY DEF SyncTemplate, jobs, marks, history
<1>2. u \in 1..month /\ u <= month
  BY <1>1, Typed, Constants DEF IInv
<1>3. RefreshesFit' /\ DeletesFit' /\ NamedIsWhole' /\ DeploysFit' /\ Seen'
  BY <1>1 DEF IInv, RefreshesFit, DeletesFit, NamedIsWhole, DeploysFit, Seen, RefreshAt, Holds, Recorded, UnderVm
<1>4. TypeOK' /\ ImagesMade' /\ CopiesFit' /\ \A h \in Hosts, v \in Versions : Known(h, v)' => Known(h, v)
  <2>1. CASE Same(g, u, image[Primary][u]) /\ row' = [row EXCEPT ![g] = @ \cup {u}] /\ UNCHANGED copy
    <3>1. \A h \in Hosts, v \in Versions : v \in row'[h] => v \in row[h] \/ (h = g /\ v = u)
      BY <2>1 DEF IInv, TypeOK
    <3>2. \A h \in Hosts, v \in Versions : Known(h, v)' => Known(h, v)
      BY <1>1, <2>1, <3>1 DEF Known, Same
    <3>3. TypeOK'
      BY <1>1, <1>2, <2>1 DEF IInv, TypeOK
    <3>4. QED
      BY <1>1, <2>1, <3>2, <3>3 DEF IInv, ImagesMade, CopiesFit, At, RefreshAt
  <2>2. CASE StartsCopy(Sync, Primary, g, u) /\ UNCHANGED row
    <3>1. Sync \in Copiers /\ Sync \notin Envs /\ Sync \notin Hosts /\ Primary \in Hosts
      BY Constants DEF Copiers
    <3>2. /\ copy' \in [Copiers -> Copies \cup {None}]
          /\ copy'[Sync].version = u /\ ~copy'[Sync].named
          /\ \A d \in Copiers \ {Sync} : copy'[d] = copy[d]
      BY <1>1, <2>2, <3>1, StartsCopyFits DEF IInv
    <3>3. TypeOK'
      BY <1>1, <2>2, <3>2 DEF IInv, TypeOK
    <3>4. ImagesMade'
      BY <1>1, <1>2, <3>2 DEF IInv, ImagesMade
    <3>5. CopiesFit'
      BY <1>1, <3>1, <3>2 DEF IInv, CopiesFit, At, RefreshAt
    <3>6. QED
      BY <1>1, <2>2, <3>3, <3>4, <3>5 DEF Known
  <2>3. QED
    BY <1>1, <2>1, <2>2
<1>5. OneKept'
  BY <1>1, <1>4 DEF IInv, OneKept, Holds, Bare, Newest, RefreshAt
<1>6. QED
  BY <1>3, <1>4, <1>5 DEF IInv

-----------------------------------------------------------------------------
(* Environments.                                                            *)

LEMMA QueueDeployKeeps ==
    ASSUME IInv, NEW d \in Envs, NEW s, s.home \in Hosts, s.uses \in [Hosts -> Versions \cup {None}],
           Recorded(d) => s.home = env[d].home /\ s.uses = env[d].uses, QueueDeploy(d, s)
    PROVE  IInv'
<1>1. /\ events' \in 0..MaxEvents /\ deploy[d] = None
      /\ env' = [env EXCEPT ![d] = [status |-> "recorded", home |-> s.home, uses |-> s.uses]]
      /\ deploy' = [deploy EXCEPT ![d] =
            [host |-> s.home, at |-> "files", left |-> {h \in Hosts \ {s.home} : s.uses[h] # None}]]
      /\ late' = IF Recorded(d) THEN late ELSE late \cup {<<d, h>> : h \in {g \in Hosts : Past(g, s.uses[g])}}
      /\ UNCHANGED <<month, asked, image, row, registered, listing, vm, refresh, delete, throwaway, copy, hurt>>
  BY Constants DEF QueueDeploy, Event, rows, IInv, TypeOK
<1>2. TypeOK'
  <2>1. [host |-> s.home, at |-> "files", left |-> {h \in Hosts \ {s.home} : s.uses[h] # None}] \in Deploys
    BY DEF Deploys
  <2>2. late' \subseteq Envs \X Hosts
    BY <1>1 DEF IInv, TypeOK
  <2>3. QED
    BY <1>1, <2>1, <2>2 DEF IInv, TypeOK
<1>3. \A e \in Envs \ {d} : env'[e] = env[e] /\ deploy'[e] = deploy[e]
  BY <1>1 DEF IInv, TypeOK
<1>4. env'[d] = [status |-> "recorded", home |-> s.home, uses |-> s.uses]
  BY <1>1 DEF IInv, TypeOK
<1>5. CopiesFit'
  <2>1. copy' = copy /\ refresh' = refresh /\ hurt' = hurt
    BY <1>1
  <2>2. \A e \in Envs : At(e, "copy") => At(e, "copy")'
    BY <1>1, <1>3 DEF At
  <2>3. QED
    BY <2>1, <2>2 DEF IInv, CopiesFit, RefreshAt
<1>6. ImagesMade' /\ RefreshesFit' /\ DeletesFit' /\ NamedIsWhole'
  BY <1>1 DEF IInv, ImagesMade, RefreshesFit, DeletesFit, NamedIsWhole, RefreshAt, Holds
<1>7. DeploysFit'
  <2>1. \A e \in Envs : Recorded(e) => Recorded(e)'
    BY <1>3, <1>4 DEF Recorded
  <2>2. Recorded(d)' /\ vm' = vm
    BY <1>1, <1>4 DEF Recorded
  <2>3. QED
    BY <1>3, <2>1, <2>2 DEF IInv, DeploysFit
<1>8. Seen'
  <2> SUFFICES ASSUME NEW e \in Envs, NEW h \in Hosts, NEW v \in Versions, <<e, h>> \notin late'
               PROVE  /\ Recorded(e)' /\ env'[e].home = h /\ env'[e].uses[h] = v =>
                            delete[h][v] \notin {"checked", "looked"}
                      /\ UnderVm(e, h, v)' => delete[h][v] # "looked"
    BY <1>1 DEF Seen
  <2>1. <<e, h>> \notin late
    BY <1>1
  <2>2. CASE e # d
    <3>1. env'[e] = env[e] /\ vm' = vm
      BY <1>1, <1>3, <2>2
    <3>2. QED
      BY <2>1, <3>1 DEF IInv, Seen, Recorded, UnderVm
  <2>3. CASE e = d /\ Recorded(d)
    <3>1. env'[e].home = env[e].home /\ env'[e].uses = env[e].uses /\ vm' = vm
      BY <1>1, <1>4, <2>3
    <3>2. QED
      BY <2>1, <2>3, <3>1 DEF IInv, Seen, UnderVm
  <2>4. CASE e = d /\ ~Recorded(d)
    <3>1. vm'[e][h] = "none"
      BY <1>1, <2>4 DEF IInv, DeploysFit
    <3>2. ~Past(h, s.uses[h])
      BY <1>1, <2>4
    <3>3. QED
      BY <1>4, <2>4, <3>1, <3>2, Constants DEF Past, UnderVm
  <2>5. QED
    BY <2>2, <2>3, <2>4
<1>9. OneKept'
  BY <1>1 DEF IInv, OneKept, Holds, Bare, Newest, Known, RefreshAt
<1>10. QED
  BY <1>2, <1>5, <1>6, <1>7, <1>8, <1>9 DEF IInv

LEMMA CreateKeeps == ASSUME IInv, NEW d \in Envs, NEW s \in Specs, Create(d, s) PROVE IInv'
<1>1. s.home \in Hosts /\ s.uses \in [Hosts -> Versions \cup {None}]
  BY Constants
<1>2. QED
  BY <1>1, QueueDeployKeeps DEF Create, Recorded

LEMMA RedeployKeeps == ASSUME IInv, NEW d \in Envs, Redeploy(d) PROVE IInv'
<1>1. env[d].home \in Hosts /\ env[d].uses \in [Hosts -> Versions \cup {None}]
  BY DEF IInv, TypeOK
<1>2. QED
  BY <1>1, QueueDeployKeeps DEF Redeploy

\* A deploy's next part, and its end.
LEMMA NextPartFits ==
    ASSUME TypeOK, NEW d \in Envs, deploy[d] # None,
           \/ NextPart(d) \/ Stops(d)
           \/ \E step \in {"files", "copy", "clone", "define"} : Part(d, step)
    PROVE  deploy' \in [Envs -> Deploys \cup {None}] /\ \A e \in Envs \ {d} : deploy'[e] = deploy[e]
<1>1. deploy \in [Envs -> Deploys \cup {None}] /\ deploy[d] \in Deploys
  BY DEF TypeOK
<1>2. CASE NextPart(d)
  <2>1. \A h \in deploy[d].left : [host |-> h, at |-> "files", left |-> deploy[d].left \ {h}] \in Deploys
    BY <1>1 DEF Deploys
  <2>2. QED
    BY <1>1, <1>2, <2>1 DEF NextPart
<1>3. CASE Stops(d)
  BY <1>1, <1>3 DEF Stops
<1>4. ASSUME NEW step \in {"files", "copy", "clone", "define"}, Part(d, step)
      PROVE  deploy' \in [Envs -> Deploys \cup {None}] /\ \A e \in Envs \ {d} : deploy'[e] = deploy[e]
  <2>1. [deploy[d] EXCEPT !.at = step] \in Deploys
    BY <1>1 DEF Deploys
  <2>2. QED
    BY <1>1, <1>4, <2>1 DEF Part
<1>5. QED
  BY <1>2, <1>3, <1>4

\* What a deploy does to its own place does not touch the library.
LEMMA DeployStepKeeps ==
    ASSUME IInv, NEW d \in Envs, deploy[d] # None, ~At(d, "copy"),
           \/ NextPart(d) \/ Stops(d)
           \/ \E step \in {"files", "copy", "clone", "define"} : Part(d, step),
           vm' \in [Envs -> [Hosts -> {"none", "disk", "defined"}]],
           \A e \in Envs \ {d} : vm'[e] = vm[e],
           late' \in SUBSET (Envs \X Hosts), late \subseteq late',
           \A h \in Hosts, v \in Versions : <<d, h>> \notin late' /\ UnderVm(d, h, v)' => delete[h][v] # "looked",
           UNCHANGED <<month, asked, image, row, registered, listing, env, refresh, delete, throwaway, copy, hurt, events>>
    PROVE  IInv'
<1>1. deploy' \in [Envs -> Deploys \cup {None}] /\ \A e \in Envs \ {d} : deploy'[e] = deploy[e]
  BY NextPartFits DEF IInv
<1>2. TypeOK'
  BY <1>1 DEF IInv, TypeOK
<1>3. CopiesFit'
  <2>1. \A e \in Envs : At(e, "copy") => At(e, "copy")'
    BY <1>1 DEF At
  <2>2. copy' = copy /\ refresh' = refresh /\ hurt' = hurt
    OBVIOUS
  <2>3. QED
    BY <2>1, <2>2 DEF IInv, CopiesFit, RefreshAt
<1>4. ImagesMade' /\ RefreshesFit' /\ DeletesFit' /\ NamedIsWhole'
  BY DEF IInv, ImagesMade, RefreshesFit, DeletesFit, NamedIsWhole, RefreshAt, Holds
<1>5. DeploysFit'
  <2>1. env' = env /\ Recorded(d)
    BY DEF IInv, DeploysFit
  <2>2. QED
    BY <1>1, <2>1 DEF IInv, DeploysFit, Recorded
<1>6. Seen'
  <2> SUFFICES ASSUME NEW e \in Envs, NEW h \in Hosts, NEW v \in Versions, <<e, h>> \notin late'
               PROVE  /\ Recorded(e)' /\ env'[e].home = h /\ env'[e].uses[h] = v =>
                            delete'[h][v] \notin {"checked", "looked"}
                      /\ UnderVm(e, h, v)' => delete'[h][v] # "looked"
    BY DEF Seen
  <2>1. <<e, h>> \notin late /\ env' = env /\ delete' = delete
    OBVIOUS
  <2>2. Recorded(e)' /\ env'[e].home = h /\ env'[e].uses[h] = v => delete'[h][v] \notin {"checked", "looked"}
    BY <2>1 DEF IInv, Seen, Recorded
  <2>3. CASE e # d
    BY <2>1, <2>2, <2>3 DEF IInv, Seen, UnderVm
  <2>4. QED
    BY <2>1, <2>2, <2>3
<1>7. OneKept'
  BY DEF IInv, OneKept, Holds, Bare, Newest, Known, RefreshAt
<1>8. QED
  BY <1>2, <1>3, <1>4, <1>5, <1>6, <1>7 DEF IInv

LEMMA DistributeKeeps == ASSUME IInv, NEW d \in Envs, Distribute(d) PROVE IInv'
<1> DEFINE g == deploy[d].host
           u == Wants(d)
<1>1. /\ deploy[d] # None /\ At(d, "files") /\ ~At(d, "copy") /\ g \in Hosts /\ u \in Versions \cup {None}
      /\ UNCHANGED <<month, asked, image, registered, listing, env, vm, refresh, delete, throwaway, late, hurt, events>>
  BY Typed DEF IInv, Distribute, At, Wants, Deploys, marks, history
<1>2. CASE /\ UNCHANGED <<row, copy>>
           /\ NextPart(d) \/ Stops(d) \/ \E step \in {"files", "copy", "clone", "define"} : Part(d, step)
  <2>1. late' \in SUBSET (Envs \X Hosts) /\ late \subseteq late' /\ vm' \in [Envs -> [Hosts -> {"none", "disk", "defined"}]]
    BY <1>1 DEF IInv, TypeOK
  <2>2. \A h \in Hosts, v \in Versions : <<d, h>> \notin late' /\ UnderVm(d, h, v)' => delete[h][v] # "looked"
    BY <1>1 DEF IInv, Seen, UnderVm
  <2>3. QED
    BY <1>1, <1>2, <2>1, <2>2, DeployStepKeeps
<1>3. CASE /\ row' = [row EXCEPT ![g] = @ \cup {u}] /\ Part(d, "clone") /\ UNCHANGED copy
           /\ u \in registered /\ (g = Primary \/ Same(g, u, image[Primary][u]))
  <2>1. u \in 1..month /\ u \in Versions
    BY <1>3, Typed DEF IInv, TypeOK
  <2>2. deploy' \in [Envs -> Deploys \cup {None}] /\ \A e \in Envs \ {d} : deploy'[e] = deploy[e]
    BY <1>1, <1>3, NextPartFits DEF IInv
  <2>3. \A h \in Hosts, v \in Versions : v \in row'[h] => v \in row[h] \/ (h = g /\ v = u)
    BY <1>3 DEF IInv, TypeOK
  <2>4. TypeOK'
    BY <1>1, <1>3, <2>1, <2>2 DEF IInv, TypeOK
  <2>5. CopiesFit' /\ DeploysFit'
    <3>1. \A e \in Envs : At(e, "copy") => At(e, "copy")'
      BY <1>1, <2>2 DEF At
    <3>2. Recorded(d)
      BY <1>1 DEF IInv, DeploysFit
    <3>3. copy' = copy /\ refresh' = refresh /\ hurt' = hurt /\ env' = env /\ vm' = vm
      BY <1>1, <1>3
    <3>4. CopiesFit'
      BY <3>1, <3>3 DEF IInv, CopiesFit, RefreshAt
    <3>5. DeploysFit'
      BY <2>2, <3>2, <3>3 DEF IInv, DeploysFit, Recorded
    <3>6. QED
      BY <3>4, <3>5
  <2>6. ImagesMade' /\ RefreshesFit' /\ DeletesFit' /\ NamedIsWhole' /\ Seen'
    BY <1>1, <1>3 DEF IInv, ImagesMade, RefreshesFit, DeletesFit, NamedIsWhole, Seen, RefreshAt, Holds, Recorded, UnderVm
  <2>7. \A h \in Hosts, v \in Versions : Known(h, v)' => Known(h, v)
    BY <1>1, <1>3, <2>3 DEF Known, Same
  <2>8. OneKept'
    BY <1>1, <2>7 DEF IInv, OneKept, Holds, Bare, Newest, RefreshAt
  <2>9. QED
    BY <2>4, <2>5, <2>6, <2>8 DEF IInv
<1>4. CASE /\ UNCHANGED row /\ StartsCopy(d, Primary, g, u) /\ Part(d, "copy")
           /\ u \in registered /\ image[Primary][u] # None
  <2>1. u \in 1..month /\ u \in Versions /\ u <= month
    <3>1. registered \subseteq 1..month /\ 1..month \subseteq Versions /\ month \in Nat
      BY Typed DEF IInv, TypeOK
    <3> HIDE DEF u
    <3>2. QED
      BY <1>4, <3>1
  <2>2. deploy' \in [Envs -> Deploys \cup {None}] /\ \A e \in Envs \ {d} : deploy'[e] = deploy[e]
    BY <1>1, <1>4, NextPartFits DEF IInv
  <2>3. d \in Copiers /\ d \notin Hosts
    BY Constants DEF Copiers
  <2>4. /\ copy' \in [Copiers -> Copies \cup {None}]
        /\ copy'[d].version = u /\ ~copy'[d].named
        /\ \A c \in Copiers \ {d} : copy'[c] = copy[c]
    BY <1>1, <1>4, <2>1, <2>3, Constants, StartsCopyFits DEF IInv
  <2>5. TypeOK'
    BY <1>1, <1>4, <2>2, <2>4 DEF IInv, TypeOK
  <2>6. ImagesMade'
    BY <1>1, <2>1, <2>4 DEF IInv, ImagesMade
  <2>7. CopiesFit'
    <3>1. At(d, "copy")'
      <4>1. [deploy[d] EXCEPT !.at = "copy"] \in Deploys /\ [deploy[d] EXCEPT !.at = "copy"].at = "copy"
        BY <1>1, Typed DEF IInv, Deploys
      <4>2. deploy'[d] = [deploy[d] EXCEPT !.at = "copy"]
        BY <1>4 DEF Part, IInv, TypeOK
      <4>3. QED
        BY <4>1, <4>2, Constants DEF At
    <3>2. \A e \in Envs : At(e, "copy") => At(e, "copy")'
      BY <1>1, <2>2 DEF At
    <3>3. refresh' = refresh /\ hurt' = hurt
      BY <1>1
    <3>4. QED
      BY <2>3, <2>4, <3>1, <3>2, <3>3 DEF IInv, CopiesFit, RefreshAt
  <2>8. DeploysFit'
    <3>1. Recorded(d) /\ env' = env /\ vm' = vm
      BY <1>1 DEF IInv, DeploysFit
    <3>2. QED
      BY <2>2, <3>1 DEF IInv, DeploysFit, Recorded
  <2>9. RefreshesFit' /\ DeletesFit' /\ NamedIsWhole' /\ Seen'
    BY <1>1 DEF IInv, RefreshesFit, DeletesFit, NamedIsWhole, Seen, RefreshAt, Holds, Recorded, UnderVm
  <2>10. OneKept'
    BY <1>1, <1>4 DEF IInv, OneKept, Holds, Bare, Newest, Known, RefreshAt
  <2>11. QED
    BY <2>5, <2>6, <2>7, <2>8, <2>9, <2>10 DEF IInv
<1>5. QED
  BY <1>1, <1>2, <1>3, <1>4 DEF Distribute

LEMMA VmAt ==
    ASSUME TypeOK, NEW d \in Envs, NEW g \in Hosts, NEW s \in {"none", "disk", "defined"},
           vm' = [vm EXCEPT ![d][g] = s]
    PROVE  /\ vm' \in [Envs -> [Hosts -> {"none", "disk", "defined"}]] /\ \A e \in Envs \ {d} : vm'[e] = vm[e]
           /\ vm'[d][g] = s /\ \A h \in Hosts \ {g} : vm'[d][h] = vm[d][h]
<1>1. vm \in [Envs -> [Hosts -> {"none", "disk", "defined"}]] /\ vm[d] \in [Hosts -> {"none", "disk", "defined"}]
  BY DEF TypeOK
<1>2. vm'[d] = [vm[d] EXCEPT ![g] = s] /\ \A e \in Envs \ {d} : vm'[e] = vm[e]
  BY <1>1
<1>3. QED
  BY <1>1, <1>2

LEMMA CloneKeeps == ASSUME IInv, NEW d \in Envs, Clone(d) PROVE IInv'
<1> DEFINE g == deploy[d].host
<1>1. /\ deploy[d] # None /\ ~At(d, "copy") /\ g \in Hosts
      /\ NextPart(d) \/ Stops(d) \/ Part(d, "define")
      /\ vm' = vm \/ vm' = [vm EXCEPT ![d][g] = "disk"]
      /\ UNCHANGED <<month, asked, image, row, registered, listing, env, refresh, delete, throwaway, copy, late, hurt, events>>
  BY Typed DEF IInv, Clone, At, Deploys, rows, marks, history
<1>2. /\ vm' \in [Envs -> [Hosts -> {"none", "disk", "defined"}]] /\ \A e \in Envs \ {d} : vm'[e] = vm[e]
      /\ \A h \in Hosts : vm'[d][h] = "defined" => vm[d][h] = "defined"
  <2>1. CASE vm' = vm
    BY <2>1 DEF IInv, TypeOK
  <2>2. CASE vm' = [vm EXCEPT ![d][g] = "disk"]
    <3>1. /\ vm' \in [Envs -> [Hosts -> {"none", "disk", "defined"}]] /\ \A e \in Envs \ {d} : vm'[e] = vm[e]
          /\ vm'[d][g] = "disk" /\ \A h \in Hosts \ {g} : vm'[d][h] = vm[d][h]
      BY <1>1, <2>2, VmAt DEF IInv
    <3>2. QED
      BY <3>1
  <2>3. QED
    BY <1>1, <2>1, <2>2
<1>3. late' \in SUBSET (Envs \X Hosts) /\ late \subseteq late'
  BY <1>1 DEF IInv, TypeOK
<1>4. \A h \in Hosts, v \in Versions : <<d, h>> \notin late' /\ UnderVm(d, h, v)' => delete[h][v] # "looked"
  BY <1>1, <1>2 DEF IInv, Seen, UnderVm
<1>5. QED
  BY <1>1, <1>2, <1>3, <1>4, DeployStepKeeps

LEMMA DefineKeeps == ASSUME IInv, NEW d \in Envs, Define(d) PROVE IInv'
<1> DEFINE g == deploy[d].host
<1>1. /\ deploy[d] # None /\ ~At(d, "copy") /\ g \in Hosts
      /\ NextPart(d) \/ Stops(d)
      /\ \/ vm' = [vm EXCEPT ![d][g] = "none"] /\ UNCHANGED late
         \/ /\ vm' = [vm EXCEPT ![d][g] = "defined"]
            /\ late' = IF g # env[d].home /\ delete[g][Wants(d)] = "looked" THEN late \cup {<<d, g>>} ELSE late
      /\ UNCHANGED <<month, asked, image, row, registered, listing, env, refresh, delete, throwaway, copy, hurt, events>>
  BY Typed DEF IInv, Define, At, Deploys, rows
<1>2. /\ vm' \in [Envs -> [Hosts -> {"none", "disk", "defined"}]] /\ \A e \in Envs \ {d} : vm'[e] = vm[e]
      /\ \A h \in Hosts \ {g} : vm'[d][h] = vm[d][h]
  BY <1>1, VmAt DEF IInv
<1>3. late' \in SUBSET (Envs \X Hosts) /\ late \subseteq late'
  BY <1>1 DEF IInv, TypeOK
<1>4. ASSUME NEW h \in Hosts, NEW v \in Versions, <<d, h>> \notin late', UnderVm(d, h, v)'
      PROVE  delete[h][v] # "looked"
  <2>1. env[d].uses[h] = v /\ <<d, h>> \notin late
    BY <1>1, <1>3, <1>4 DEF UnderVm
  <2>2. CASE h # g
    BY <1>2, <1>4, <2>1, <2>2 DEF IInv, Seen, UnderVm
  <2>3. CASE h = g
    <3>1. vm'[d][g] = "defined"
      BY <1>4, <2>3 DEF UnderVm
    <3>2. late' = IF g # env[d].home /\ delete[g][Wants(d)] = "looked" THEN late \cup {<<d, g>>} ELSE late
      BY <1>1, <3>1 DEF IInv, TypeOK
    <3>3. g # env[d].home => delete[g][v] # "looked"
      BY <1>4, <2>1, <2>3, <3>2 DEF Wants
    <3>4. g = env[d].home => delete[g][v] # "looked"
      BY <1>1, <2>1, <2>3 DEF IInv, DeploysFit, Seen
    <3>5. QED
      BY <2>3, <3>3, <3>4
  <2>4. QED
    BY <2>2, <2>3
<1>5. QED
  BY <1>1, <1>2, <1>3, <1>4, DeployStepKeeps

LEMMA DestroyEnvKeeps == ASSUME IInv, NEW d \in Envs, DestroyEnv(d) PROVE IInv'
<1>1. /\ events' \in 0..MaxEvents /\ deploy[d] = None
      /\ env' = [env EXCEPT ![d].status = "destroyed"] /\ vm' = [vm EXCEPT ![d] = [h \in Hosts |-> "none"]]
      /\ UNCHANGED <<month, asked, image, row, registered, listing, deploy, refresh, delete, throwaway, copy, late, hurt>>
  BY Constants DEF IInv, TypeOK, DestroyEnv, Event, rows, jobs, marks
<1>2. /\ \A e \in Envs \ {d} : env'[e] = env[e] /\ vm'[e] = vm[e]
      /\ ~Recorded(d)' /\ \A h \in Hosts : vm'[d][h] = "none"
  BY <1>1 DEF IInv, TypeOK, Recorded
<1>3. TypeOK'
  <2>1. env' \in [Envs -> [status : {"none", "recorded", "destroyed"}, home : Hosts,
                          uses : [Hosts -> Versions \cup {None}]]]
    <3> DEFINE E == [status : {"none", "recorded", "destroyed"}, home : Hosts, uses : [Hosts -> Versions \cup {None}]]
    <3>1. env \in [Envs -> E]
      BY DEF IInv, TypeOK
    <3>2. [env[d] EXCEPT !.status = "destroyed"] \in E
      BY <3>1
    <3> HIDE DEF E
    <3>3. env' \in [Envs -> E]
      BY <1>1, <3>1, <3>2
    <3>4. QED
      BY <3>3 DEF E
  <2>2. vm' \in [Envs -> [Hosts -> {"none", "disk", "defined"}]]
    BY <1>1 DEF IInv, TypeOK
  <2>3. QED
    BY <1>1, <2>1, <2>2 DEF IInv, TypeOK
<1>4. ImagesMade' /\ CopiesFit' /\ RefreshesFit' /\ DeletesFit' /\ NamedIsWhole'
  BY <1>1 DEF IInv, ImagesMade, CopiesFit, RefreshesFit, DeletesFit, NamedIsWhole, At, RefreshAt, Holds
<1>5. DeploysFit'
  BY <1>1, <1>2 DEF IInv, DeploysFit, Recorded
<1>6. Seen'
  <2>1. late' = late /\ delete' = delete
    BY <1>1
  <2>2. \A e \in Envs, h \in Hosts, v \in Versions :
           (Recorded(e)' => Recorded(e) /\ env'[e] = env[e]) /\ (UnderVm(e, h, v)' => UnderVm(e, h, v))
    BY <1>2 DEF Recorded, UnderVm
  <2>3. QED
    BY <2>1, <2>2 DEF IInv, Seen
<1>7. OneKept'
  BY <1>1 DEF IInv, OneKept, Holds, Bare, Newest, Known, RefreshAt
<1>8. QED
  BY <1>3, <1>4, <1>5, <1>6, <1>7 DEF IInv

-----------------------------------------------------------------------------
(* Refreshes.                                                               *)

LEMMA Greatest ==
    ASSUME NEW n \in Nat, NEW S \in SUBSET (1..n), S # {}
    PROVE  \E x \in S : \A y \in S : y <= x
<1> DEFINE T == {n - x : x \in S}
<1>1. T \in SUBSET Nat /\ T # {}
  <2>1. \A x \in S : x \in Nat /\ x <= n /\ n - x \in Nat
    OBVIOUS
  <2>2. QED
    BY <2>1
<1>2. PICK t \in T : \A u \in T : ~(<<u, t>> \in OpToRel(<, Nat))
  BY <1>1, WFMin, NatLessThanWellFounded
<1>3. \A u \in T : ~(u < t)
  BY <1>1, <1>2 DEF OpToRel
<1>4. PICK x \in S : t = n - x
  OBVIOUS
<1>5. ASSUME NEW y \in S PROVE y <= x
  <2>1. x \in Nat /\ y \in Nat
    OBVIOUS
  <2>2. n - y \in T
    OBVIOUS
  <2>3. ~(n - y < n - x)
    BY <1>3, <1>4, <2>2
  <2>4. QED
    BY <2>1, <2>3
<1>6. QED
  BY <1>5

LEMMA NewestInRow ==
    ASSUME TypeOK, NEW h \in Hosts, row[h] # {}
    PROVE  (CHOOSE v \in row[h] : Newer(h, v) = {}) \in row[h]
<1>1. row[h] \in SUBSET (1..month) /\ month \in Nat
  BY Typed
<1>2. PICK x \in row[h] : \A y \in row[h] : y <= x
  BY <1>1, Greatest
<1>3. Newer(h, x) = {}
  BY <1>1, <1>2 DEF Newer
<1>4. QED
  BY <1>3

\* Refreshes are queued where there are none.
LEMMA QueuedKeeps ==
    ASSUME IInv, refresh' \in [Hosts -> Refreshes \cup {None}],
           \A h \in Hosts : \/ refresh'[h] = refresh[h]
                            \/ /\ refresh[h] = None /\ refresh'[h] # None
                               /\ refresh'[h].at = "queued" /\ refresh'[h].from < month,
           asked' \in 1..month, events' \in 0..MaxEvents,
           UNCHANGED <<month, image, row, registered, listing, env, vm, deploy, delete, throwaway, copy, late, hurt>>
    PROVE  IInv'
<1>1. TypeOK'
  BY DEF IInv, TypeOK
<1>2. \A h \in Hosts : /\ RefreshAt(h, "copying")' <=> RefreshAt(h, "copying")
                       /\ RefreshAt(h, "pushing")' <=> RefreshAt(h, "pushing")
                       /\ RefreshAt(h, "cloned")' <=> RefreshAt(h, "cloned")
                       /\ RefreshAt(h, "cloned") \/ RefreshAt(h, "copying") => refresh'[h] = refresh[h]
  BY DEF RefreshAt
<1>3. CopiesFit'
  BY <1>2 DEF IInv, CopiesFit, At
<1>4. RefreshesFit'
  <2>1. \A h \in Hosts : refresh'[h] # None => refresh'[h].from < month
    BY DEF IInv, RefreshesFit
  <2>2. \A h \in Hosts, w \in Versions \cup {None} : Holds(h, w)' <=> Holds(h, w)
    BY DEF Holds
  <2>3. \A h \in Hosts : refresh[h] # None => refresh[h].from \in Versions
    BY Typed DEF IInv, Refreshes
  <2>4. QED
    BY <1>2, <2>1, <2>2, <2>3 DEF IInv, RefreshesFit, RefreshAt
<1>5. ImagesMade' /\ DeletesFit' /\ NamedIsWhole' /\ DeploysFit' /\ Seen'
  BY <1>2 DEF IInv, ImagesMade, DeletesFit, NamedIsWhole, DeploysFit, Seen, Recorded, UnderVm
<1>6. OneKept'
  BY <1>2 DEF IInv, OneKept, Holds, Bare, Newest, Known
<1>7. QED
  BY <1>1, <1>3, <1>4, <1>5, <1>6 DEF IInv

LEMMA ScheduleRefreshKeeps == IInv /\ ScheduleRefresh => IInv'
<1> SUFFICES ASSUME IInv, ScheduleRefresh PROVE IInv'
  OBVIOUS
<1> DEFINE due(h) == refresh[h] = None /\ row[h] # {} /\ month \notin row[h]
           newest(h) == CHOOSE v \in row[h] : Newer(h, v) = {}
<1>1. /\ asked' = month
      /\ refresh' = [h \in Hosts |-> IF due(h) THEN [from |-> newest(h), at |-> "queued"] ELSE refresh[h]]
      /\ UNCHANGED <<month, image, rows, listing, env, vm, deploy, delete, throwaway, copy, history>>
  BY DEF ScheduleRefresh
<1>2. ASSUME NEW h \in Hosts, due(h)
      PROVE  /\ newest(h) \in Versions /\ newest(h) < month
             /\ [from |-> newest(h), at |-> "queued"] \in Refreshes
  <2>1. newest(h) \in row[h]
    BY <1>2, NewestInRow DEF IInv
  <2> HIDE DEF newest
  <2>2. newest(h) \in 1..month /\ newest(h) # month /\ month \in Nat /\ 1..month \subseteq Versions
    BY <1>2, <2>1, Typed DEF IInv
  <2>3. QED
    BY <2>2 DEF Refreshes
<1> HIDE DEF newest
<1>3. refresh' \in [Hosts -> Refreshes \cup {None}]
  BY <1>1, <1>2, Typed DEF IInv
<1>4. ASSUME NEW h \in Hosts
      PROVE  \/ refresh'[h] = refresh[h]
             \/ /\ refresh[h] = None /\ refresh'[h] # None
                /\ refresh'[h].at = "queued" /\ refresh'[h].from < month
  <2>1. CASE due(h)
    <3>1. refresh'[h] = [from |-> newest(h), at |-> "queued"]
      BY <1>1, <2>1
    <3>2. refresh'[h] # None
      BY <1>2, <2>1, <3>1, Constants
    <3>3. QED
      BY <1>2, <2>1, <3>1, <3>2
  <2>2. CASE ~due(h)
    BY <1>1, <2>2
  <2>3. QED
    BY <2>1, <2>2
<1>5. asked' \in 1..month /\ events' \in 0..MaxEvents
  BY <1>1, Typed, Constants DEF IInv, TypeOK, history, Versions
<1>6. QED
  BY <1>1, <1>3, <1>4, <1>5, QueuedKeeps DEF rows, history, marks

LEMMA AskRefreshKeeps == ASSUME IInv, NEW g \in Hosts, NEW u \in Versions, AskRefresh(g, u) PROVE IInv'
<1>1. /\ events' \in 0..MaxEvents /\ u \in row[g] /\ month \notin row[g] /\ refresh[g] = None
      /\ refresh' = [refresh EXCEPT ![g] = [from |-> u, at |-> "queued"]]
      /\ UNCHANGED <<month, asked, image, row, registered, listing, env, vm, deploy, delete, throwaway, copy, late, hurt>>
  BY Constants DEF IInv, TypeOK, AskRefresh, Queue, Event, rows, marks
<1>2. u < month /\ [from |-> u, at |-> "queued"] \in Refreshes
  <2>1. u \in 1..month /\ u # month /\ month \in Nat
    BY <1>1, Typed DEF IInv
  <2>2. QED
    BY <2>1 DEF Refreshes
<1>3. refresh' \in [Hosts -> Refreshes \cup {None}] /\ refresh'[g] = [from |-> u, at |-> "queued"]
      /\ \A h \in Hosts \ {g} : refresh'[h] = refresh[h]
  BY <1>1, <1>2 DEF IInv, TypeOK
<1>4. refresh'[g] # None /\ refresh'[g].at = "queued" /\ refresh'[g].from < month
  BY <1>2, <1>3, Constants
<1>5. asked' \in 1..month
  BY <1>1 DEF IInv, TypeOK
<1>6. QED
  BY <1>1, <1>3, <1>4, <1>5, QueuedKeeps

LEMMA StepFits ==
    ASSUME TypeOK, NEW g \in Hosts, refresh[g] # None, NEW step \in {"cloned", "copying", "push", "pushing"},
           Step(g, step)
    PROVE  /\ refresh' \in [Hosts -> Refreshes \cup {None}] /\ refresh[g] \in Refreshes
           /\ refresh'[g] # None /\ refresh'[g].from = refresh[g].from /\ refresh'[g].at = step
           /\ \A h \in Hosts \ {g} : refresh'[h] = refresh[h]
<1>1. refresh \in [Hosts -> Refreshes \cup {None}] /\ refresh[g] \in Refreshes
  BY DEF TypeOK
<1>2. [refresh[g] EXCEPT !.at = step] \in Refreshes
  BY <1>1 DEF Refreshes
<1>3. refresh'[g] = [refresh[g] EXCEPT !.at = step]
  BY <1>1 DEF Step
<1>4. refresh'[g].from = refresh[g].from /\ refresh'[g].at = step
  BY <1>1, <1>3 DEF Refreshes
<1>5. refresh'[g] # None
  BY <1>2, <1>3, Constants
<1>6. QED
  BY <1>1, <1>2, <1>4, <1>5 DEF Step

LEMMA OverFits ==
    ASSUME TypeOK, NEW g \in Hosts, Over(g)
    PROVE  /\ refresh' \in [Hosts -> Refreshes \cup {None}]
           /\ refresh'[g] = None /\ \A h \in Hosts \ {g} : refresh'[h] = refresh[h]
BY DEF TypeOK, Over

\* A copy of one host's refresh is not on its way while that refresh is at another step.
LEMMA OtherCopies ==
    ASSUME IInv, NEW g \in Hosts, ~RefreshAt(g, "pushing"),
           \A h \in Hosts \ {g} : refresh'[h] = refresh[h], copy' = copy, deploy' = deploy, hurt \subseteq hurt'
    PROVE  CopiesFit'
<1>1. g \in Copiers /\ copy[g] = None
  BY DEF IInv, CopiesFit, Copiers
<1>2. \A c \in Hosts \ {g} : RefreshAt(c, "pushing") => RefreshAt(c, "pushing")'
  BY DEF RefreshAt
<1>3. QED
  BY <1>1, <1>2 DEF IInv, CopiesFit, At

LEMMA RefreshClonesKeeps == ASSUME IInv, NEW g \in Hosts, RefreshClones(g) PROVE IInv'
<1>0. PICK u \in Versions : u = refresh[g].from
  BY Typed DEF IInv, RefreshClones, RefreshAt, Refreshes
<1>1. /\ RefreshAt(g, "queued") /\ image[g][u] # None /\ Step(g, "cloned")
      /\ throwaway' = [throwaway EXCEPT ![g] = @ \cup {u}]
      /\ hurt' = IF delete[g][u] = "looked" THEN hurt \cup {g} ELSE hurt
      /\ UNCHANGED <<month, asked, image, row, registered, listing, env, vm, deploy, delete, copy, late, events>>
  BY <1>0 DEF RefreshClones, rows
<1>2. /\ refresh' \in [Hosts -> Refreshes \cup {None}] /\ refresh[g] \in Refreshes
      /\ refresh'[g] # None /\ refresh'[g].from = u /\ refresh'[g].at = "cloned"
      /\ \A h \in Hosts \ {g} : refresh'[h] = refresh[h]
  BY <1>0, <1>1, StepFits DEF RefreshAt, IInv
<1>3. u < month /\ ~RefreshAt(g, "copying") /\ ~RefreshAt(g, "pushing")
  BY <1>0, <1>1, <1>2 DEF RefreshAt, IInv, RefreshesFit
<1>4. /\ throwaway' \in [Hosts -> SUBSET Versions] /\ throwaway'[g] = throwaway[g] \cup {u}
      /\ \A h \in Hosts \ {g} : throwaway'[h] = throwaway[h]
  BY <1>1, <1>3 DEF IInv, TypeOK
<1>5. hurt \subseteq hurt' /\ hurt' \subseteq Hosts
  BY <1>1 DEF IInv, TypeOK
<1>6. TypeOK'
  BY <1>1, <1>2, <1>4, <1>5 DEF IInv, TypeOK
<1>7. CopiesFit'
  BY <1>1, <1>2, <1>3, <1>5, OtherCopies
<1>8. g \in hurt' \/ Holds(g, u)'
  BY <1>1, <1>4 DEF Holds
<1>9. \A h \in Hosts, w \in Versions : Holds(h, w) => Holds(h, w)'
  BY <1>1, <1>4 DEF Holds
<1>10. \A h \in Hosts \ {g} : /\ RefreshAt(h, "copying")' <=> RefreshAt(h, "copying")
                              /\ RefreshAt(h, "cloned")' <=> RefreshAt(h, "cloned")
  BY <1>2 DEF RefreshAt
<1>11. ~RefreshAt(g, "copying")'
  BY <1>2 DEF RefreshAt
<1>12. RefreshesFit'
  <2>1. \A h \in Hosts : \A w \in throwaway'[h] : w < month
    BY <1>3, <1>4 DEF IInv, RefreshesFit
  <2>2. \A h \in Hosts : refresh'[h] # None => refresh'[h].from < month
    BY <1>2, <1>3 DEF IInv, RefreshesFit
  <2>3. \A h \in Hosts : RefreshAt(h, "copying")' => image[h][month] # None
    BY <1>10, <1>11 DEF IInv, RefreshesFit
  <2>4. ASSUME NEW h \in Hosts, RefreshAt(h, "cloned")' \/ RefreshAt(h, "copying")'
        PROVE  h \in hurt' \/ Holds(h, refresh[h].from)'
    <3>1. CASE h = g
      BY <1>2, <1>8, <3>1 DEF Holds
    <3>2. CASE h # g
      <4>1. refresh'[h] = refresh[h] /\ (RefreshAt(h, "cloned") \/ RefreshAt(h, "copying"))
        BY <1>2, <1>10, <2>4, <3>2
      <4>2. refresh[h].from \in Versions
        BY <4>1, Typed DEF IInv, RefreshAt, Refreshes
      <4>3. h \in hurt \/ Holds(h, refresh[h].from)
        BY <4>1 DEF IInv, RefreshesFit
      <4>4. QED
        BY <1>1, <1>4, <1>5, <3>2, <4>1, <4>3 DEF Holds
    <3>3. QED
      BY <3>1, <3>2
  <2>5. QED
    BY <1>1, <2>1, <2>2, <2>3, <2>4 DEF RefreshesFit
<1>13. ImagesMade' /\ DeletesFit' /\ DeploysFit' /\ Seen'
  BY <1>1 DEF IInv, ImagesMade, DeletesFit, DeploysFit, Seen, Recorded, UnderVm
<1>14. NamedIsWhole'
  BY <1>1, <1>3, <1>5, <1>10, <1>11 DEF IInv, NamedIsWhole
<1>15. OneKept'
  <2>1. \A h \in Hosts : (Bare(h) => Bare(h)') /\ \A x \in Versions : Newest(h, x) => Newest(h, x)'
    BY <1>1 DEF Bare, Newest, Known
  <2>2. QED
    BY <1>3, <1>5, <1>8, <1>9, <1>10, <1>11, <2>1 DEF IInv, OneKept
<1>16. QED
  BY <1>6, <1>7, <1>12, <1>13, <1>14, <1>15 DEF IInv

\* The image of this month on one host is another one, or gone.
LEMMA ThisMonthAt ==
    ASSUME TypeOK, NEW g \in Hosts, NEW i \in Images \cup {None}, image' = [image EXCEPT ![g][month] = i]
    PROVE  /\ image' \in [Hosts -> [Versions -> Images \cup {None}]] /\ image'[g][month] = i
           /\ \A h \in Hosts, v \in Versions : h # g \/ v # month => image'[h][v] = image[h][v]
<1>1. image \in [Hosts -> [Versions -> Images \cup {None}]] /\ month \in Versions
  BY DEF TypeOK
<1>2. image'[g] = [image[g] EXCEPT ![month] = i] /\ \A h \in Hosts \ {g} : image'[h] = image[h]
  BY <1>1
<1>3. QED
  BY <1>1, <1>2

LEMMA RefreshCopiesKeeps == ASSUME IInv, NEW g \in Hosts, RefreshCopies(g) PROVE IInv'
<1>0. PICK i \in Images : i = [by |-> g, whole |-> FALSE]
  BY DEF Images
<1>1. /\ RefreshAt(g, "cloned") /\ Step(g, "copying") /\ image' = [image EXCEPT ![g][month] = i]
      /\ UNCHANGED <<month, asked, row, registered, listing, env, vm, deploy, delete, throwaway, copy, late, hurt, events>>
  BY <1>0 DEF RefreshCopies, rows, history, marks
<1>2. /\ refresh' \in [Hosts -> Refreshes \cup {None}] /\ refresh[g] \in Refreshes
      /\ refresh'[g] # None /\ refresh'[g].from = refresh[g].from /\ refresh'[g].at = "copying"
      /\ \A h \in Hosts \ {g} : refresh'[h] = refresh[h]
  BY <1>1, StepFits DEF RefreshAt, IInv
<1>3. /\ image' \in [Hosts -> [Versions -> Images \cup {None}]] /\ image'[g][month] = i
      /\ \A h \in Hosts, v \in Versions : h # g \/ v # month => image'[h][v] = image[h][v]
  BY <1>1, ThisMonthAt DEF IInv
<1>4. i # None /\ i.by = g /\ image'[g][month] # None /\ month \in Versions /\ month \in Nat
  <2>1. i.by = g
    BY <1>0
  <2>2. month \in Versions /\ month \in Nat
    BY Typed DEF IInv
  <2>3. QED
    BY <1>3, <2>1, <2>2, Constants
<1>5. \A h \in Hosts, v \in Versions : image[h][v] # None => image'[h][v] # None
  BY <1>3, <1>4
<1>6. \A h \in Hosts, w \in Versions : Holds(h, w) => Holds(h, w)'
  BY <1>1, <1>5 DEF Holds
<1>7. \A h \in Hosts \ {g} : /\ RefreshAt(h, "copying")' <=> RefreshAt(h, "copying")
                             /\ RefreshAt(h, "cloned")' <=> RefreshAt(h, "cloned")
  BY <1>2 DEF RefreshAt
<1>8. /\ RefreshAt(g, "copying")' /\ ~RefreshAt(g, "copying") /\ ~RefreshAt(g, "pushing")
      /\ refresh[g].from \in Versions
  BY <1>1, <1>2 DEF RefreshAt, Refreshes
<1>9. TypeOK'
  BY <1>1, <1>2, <1>3 DEF IInv, TypeOK
<1>10. ImagesMade'
  <2>1. \A h \in Hosts, v \in Versions : image'[h][v] # None => image[h][v] # None \/ v = month
    BY <1>3
  <2>2. month <= month
    BY <1>4
  <2>3. QED
    BY <1>1, <2>1, <2>2 DEF IInv, ImagesMade
<1>11. CopiesFit'
  BY <1>1, <1>2, <1>8, OtherCopies
<1>12. RefreshesFit'
  <2>1. \A h \in Hosts : refresh'[h] # None => refresh'[h].from = refresh[h].from /\ refresh[h] # None
    BY <1>1, <1>2 DEF RefreshAt
  <2>2. \A h \in Hosts : RefreshAt(h, "copying")' => image'[h][month] # None
    BY <1>4, <1>5, <1>7 DEF IInv, RefreshesFit
  <2>3. ASSUME NEW h \in Hosts, RefreshAt(h, "cloned")' \/ RefreshAt(h, "copying")'
        PROVE  h \in hurt \/ Holds(h, refresh[h].from)'
    <3>1. refresh'[h].from = refresh[h].from /\ refresh[h].from \in Versions
      BY <1>2, <2>1, <2>3, Typed DEF IInv, RefreshAt, Refreshes
    <3>2. h \in hurt \/ Holds(h, refresh[h].from)
      BY <1>1, <1>7, <2>3 DEF IInv, RefreshesFit
    <3>3. QED
      BY <1>1, <1>5, <3>1, <3>2 DEF Holds
  <2>4. QED
    BY <1>1, <2>1, <2>2, <2>3 DEF IInv, RefreshesFit
<1>13. DeletesFit' /\ DeploysFit' /\ Seen'
  BY <1>1 DEF IInv, DeletesFit, DeploysFit, Seen, Recorded, UnderVm
<1>14. NamedIsWhole'
  <2> SUFFICES ASSUME NEW h \in Hosts \ hurt, NEW v \in Versions, image'[h][v] # None
               PROVE  image'[h][v].whole \/ (RefreshAt(h, "copying")' /\ v = month /\ image'[h][v].by = h)
    BY <1>1 DEF NamedIsWhole
  <2>1. CASE h = g /\ v = month
    BY <1>3, <1>4, <1>8, <2>1
  <2>2. CASE ~(h = g /\ v = month)
    BY <1>3, <1>7, <1>8, <2>2 DEF IInv, NamedIsWhole
  <2>3. QED
    BY <2>1, <2>2
<1>15. OneKept'
  <2> SUFFICES ASSUME NEW h \in Hosts \ hurt
               PROVE  \/ \E w \in Versions : Holds(h, w)'
                      \/ ~RefreshAt(h, "copying")' /\ (Bare(h)' \/ \E x \in Versions : Newest(h, x)')
    BY <1>1 DEF OneKept
  <2>1. CASE h = g
    BY <1>1, <1>6, <1>8, <2>1 DEF IInv, RefreshesFit
  <2>2. CASE h # g
    <3>1. (Bare(h) => Bare(h)') /\ \A x \in Versions : Newest(h, x) => Newest(h, x)'
      BY <1>1, <1>3, <2>2 DEF Bare, Newest, Known
    <3>2. QED
      BY <1>6, <1>7, <2>2, <3>1 DEF IInv, OneKept
  <2>3. QED
    BY <2>1, <2>2
<1>16. QED
  BY <1>9, <1>10, <1>11, <1>12, <1>13, <1>14, <1>15 DEF IInv

LEMMA RefreshPromotesKeeps == ASSUME IInv, NEW g \in Hosts, RefreshPromotes(g) PROVE IInv'
<1>1. /\ RefreshAt(g, "copying")
      /\ image' = IF Own(g) THEN [image EXCEPT ![g][month].whole = TRUE] ELSE image
      /\ throwaway' = [throwaway EXCEPT ![g] = @ \ {refresh[g].from}]
      /\ Over(g) \/ Step(g, "push")
      /\ UNCHANGED <<month, asked, row, registered, listing, env, vm, deploy, delete, copy, late, hurt, events>>
  BY DEF RefreshPromotes, rows, history, marks
<1>2. /\ refresh' \in [Hosts -> Refreshes \cup {None}]
      /\ refresh'[g] # None => refresh'[g].from = refresh[g].from /\ refresh'[g].at = "push"
      /\ \A h \in Hosts \ {g} : refresh'[h] = refresh[h]
  BY <1>1, StepFits, OverFits DEF RefreshAt, IInv
<1>3. /\ image' \in [Hosts -> [Versions -> Images \cup {None}]] /\ image'[g][month] # None
      /\ g \notin hurt => image'[g][month].whole
      /\ \A h \in Hosts, v \in Versions : h # g \/ v # month => image'[h][v] = image[h][v]
  <2>1. image[g][month] # None /\ image[g][month] \in Images /\ month \in Versions
    BY <1>1, Typed DEF IInv, RefreshesFit
  <2>2. CASE Own(g)
    <3>1. PICK i \in Images : i = [image[g][month] EXCEPT !.whole = TRUE]
      BY <2>1 DEF Images
    <3>2. image' = [image EXCEPT ![g][month] = i] /\ i.whole /\ i # None
      BY <1>1, <2>1, <2>2, <3>1, Constants DEF Images
    <3>3. QED
      BY <3>2, ThisMonthAt DEF IInv
  <2>3. CASE ~Own(g)
    <3>1. image' = image /\ image[g][month].by # g
      BY <1>1, <2>1, <2>3 DEF Own
    <3>2. QED
      BY <2>1, <3>1 DEF IInv, NamedIsWhole, TypeOK
  <2>4. QED
    BY <2>2, <2>3
<1>4. \A h \in Hosts, v \in Versions : image'[h][v] # None <=> image[h][v] # None
  BY <1>1, <1>3 DEF IInv, RefreshesFit
<1>5. \A h \in Hosts \ {g} : throwaway'[h] = throwaway[h] /\ \A w \in Versions : Holds(h, w) => Holds(h, w)'
  BY <1>1, <1>3 DEF Holds, IInv, TypeOK
<1>6. throwaway' \in [Hosts -> SUBSET Versions] /\ throwaway'[g] \subseteq throwaway[g]
  BY <1>1 DEF IInv, TypeOK
<1>7. \A h \in Hosts \ {g} : /\ RefreshAt(h, "copying")' <=> RefreshAt(h, "copying")
                             /\ RefreshAt(h, "cloned")' <=> RefreshAt(h, "cloned")
  BY <1>2 DEF RefreshAt
<1>8. ~RefreshAt(g, "pushing") /\ ~RefreshAt(g, "copying")' /\ ~RefreshAt(g, "cloned")'
  BY <1>1, <1>2 DEF RefreshAt
<1>9. TypeOK'
  BY <1>1, <1>2, <1>3, <1>6 DEF IInv, TypeOK
<1>10. ImagesMade'
  BY <1>1, <1>4 DEF IInv, ImagesMade
<1>11. CopiesFit'
  BY <1>1, <1>2, <1>8, OtherCopies
<1>12. RefreshesFit'
  <2>1. \A h \in Hosts : refresh'[h] # None => refresh'[h].from = refresh[h].from /\ refresh[h] # None
    BY <1>1, <1>2 DEF RefreshAt
  <2>2. \A h \in Hosts : RefreshAt(h, "copying")' => image'[h][month] # None
    BY <1>4, <1>7, <1>8, Typed DEF IInv, RefreshesFit
  <2>3. ASSUME NEW h \in Hosts, RefreshAt(h, "cloned")' \/ RefreshAt(h, "copying")'
        PROVE  h \in hurt \/ Holds(h, refresh[h].from)'
    <3>1. h # g /\ refresh'[h] = refresh[h] /\ (RefreshAt(h, "cloned") \/ RefreshAt(h, "copying"))
      BY <1>2, <1>7, <1>8, <2>3
    <3>2. h \in hurt \/ Holds(h, refresh[h].from)
      BY <3>1 DEF IInv, RefreshesFit
    <3>3. refresh[h].from \in Versions
      BY <3>1, Typed DEF IInv, RefreshAt, Refreshes
    <3>4. QED
      BY <1>1, <1>4, <1>5, <3>1, <3>2, <3>3 DEF Holds
  <2>4. \A h \in Hosts : throwaway'[h] \subseteq throwaway[h]
    BY <1>5, <1>6
  <2>5. QED
    BY <1>1, <2>1, <2>2, <2>3, <2>4 DEF IInv, RefreshesFit
<1>13. DeletesFit' /\ DeploysFit' /\ Seen'
  BY <1>1 DEF IInv, DeletesFit, DeploysFit, Seen, Recorded, UnderVm
<1>14. NamedIsWhole'
  <2> SUFFICES ASSUME NEW h \in Hosts \ hurt, NEW v \in Versions, image'[h][v] # None
               PROVE  image'[h][v].whole \/ (RefreshAt(h, "copying")' /\ v = month /\ image'[h][v].by = h)
    BY <1>1 DEF NamedIsWhole
  <2>1. CASE h = g /\ v = month
    BY <1>3, <2>1
  <2>2. CASE ~(h = g /\ v = month)
    BY <1>3, <1>7, <2>2 DEF IInv, NamedIsWhole
  <2>3. QED
    BY <2>1, <2>2
<1>15. OneKept'
  <2> SUFFICES ASSUME NEW h \in Hosts \ hurt
               PROVE  \/ \E w \in Versions : Holds(h, w)'
                      \/ ~RefreshAt(h, "copying")' /\ (Bare(h)' \/ \E x \in Versions : Newest(h, x)')
    BY <1>1 DEF OneKept
  <2>1. CASE h = g
    <3>1. PICK x \in Versions : x = month
      BY Typed DEF IInv
    <3>2. \A v \in Versions : Known(g, v)' => v <= x
      BY <1>1, <1>10, <3>1, Typed DEF IInv, TypeOK, ImagesMade, Known
    <3>3. \A v \in Versions : v >= x => delete'[g][v] = "none"
      BY <1>1, <3>1, Constants, Typed DEF IInv, DeletesFit
    <3>4. Newest(g, x)'
      BY <1>3, <3>1, <3>2, <3>3 DEF Newest
    <3>5. QED
      BY <1>8, <2>1, <3>4
  <2>2. CASE h # g
    <3>1. (Bare(h) => Bare(h)') /\ \A x \in Versions : Newest(h, x) => Newest(h, x)'
      BY <1>1, <1>3, <2>2 DEF Bare, Newest, Known
    <3>2. QED
      BY <1>5, <1>7, <2>2, <3>1 DEF IInv, OneKept
  <2>3. QED
    BY <2>1, <2>2
<1>16. QED
  BY <1>9, <1>10, <1>11, <1>12, <1>13, <1>14, <1>15 DEF IInv

LEMMA RefreshFailsKeeps == ASSUME IInv, NEW g \in Hosts, RefreshFails(g) PROVE IInv'
<1>1. /\ events' \in 0..MaxEvents /\ refresh[g] # None /\ refresh[g].at \in {"queued", "cloned", "copying"} /\ Over(g)
      /\ \/ image' = IF RefreshAt(g, "copying") THEN [image EXCEPT ![g][month] = None] ELSE image
         \/ RefreshAt(g, "copying") /\ image' = IF Own(g) THEN [image EXCEPT ![g][month].whole = TRUE] ELSE image
      /\ UNCHANGED <<month, asked, row, registered, listing, env, vm, deploy, delete, throwaway, copy, late, hurt>>
  BY Constants DEF RefreshFails, Event, IInv, TypeOK, rows, marks
<1>2. /\ refresh' \in [Hosts -> Refreshes \cup {None}]
      /\ refresh'[g] = None /\ \A h \in Hosts \ {g} : refresh'[h] = refresh[h]
  BY <1>1, OverFits DEF IInv
<1>3. /\ image' \in [Hosts -> [Versions -> Images \cup {None}]]
      /\ \A h \in Hosts, v \in Versions : h # g \/ v # month => image'[h][v] = image[h][v]
      /\ ~RefreshAt(g, "copying") => image' = image
      /\ RefreshAt(g, "copying") /\ image'[g][month] # None => image[g][month] # None /\ (g \in hurt \/ image'[g][month].whole)
  <2>1. CASE image' = image
    <3>1. ASSUME RefreshAt(g, "copying"), image[g][month] # None
          PROVE  g \in hurt \/ image[g][month].whole
      <4>1. ~Own(g) \/ image[g][month].whole
        <5>1. image' = image /\ Own(g) => image[g][month].whole
          <6>1. CASE image' = [image EXCEPT ![g][month] = None]
            <7>1. image'[g][month] = None
              BY <6>1, Constants, ThisMonthAt DEF IInv
            <7>2. QED
              BY <2>1, <3>1, <7>1
          <6>2. CASE Own(g) /\ image' = [image EXCEPT ![g][month].whole = TRUE]
            <7>1. image'[g][month] = [image[g][month] EXCEPT !.whole = TRUE] /\ image[g][month] \in Images
              BY <3>1, <6>2, Typed DEF IInv, TypeOK
            <7>2. QED
              BY <2>1, <7>1 DEF Images
          <6>3. QED
            BY <1>1, <3>1, <6>1, <6>2
        <5>2. QED
          BY <2>1, <5>1
      <4>2. month \in Versions
        BY Typed DEF IInv
      <4>3. QED
        BY <3>1, <4>1, <4>2 DEF Own, IInv, NamedIsWhole
    <3>2. QED
      BY <2>1, <3>1 DEF IInv, TypeOK
  <2>2. CASE RefreshAt(g, "copying") /\ image' = [image EXCEPT ![g][month] = None]
    BY <2>2, Constants, ThisMonthAt DEF IInv
  <2>3. CASE RefreshAt(g, "copying") /\ Own(g) /\ image' = [image EXCEPT ![g][month].whole = TRUE]
    <3>1. image[g][month] \in Images /\ image[g][month] # None
      BY <2>3, Typed DEF IInv, Own
    <3>2. PICK i \in Images : i = [image[g][month] EXCEPT !.whole = TRUE]
      BY <3>1 DEF Images
    <3>3. image' = [image EXCEPT ![g][month] = i] /\ i.whole
      BY <2>3, <3>1, <3>2 DEF Images
    <3>4. QED
      BY <2>3, <3>1, <3>3, ThisMonthAt DEF IInv
  <2>4. QED
    BY <1>1, <2>1, <2>2, <2>3
<1>4. \A h \in Hosts, v \in Versions : image'[h][v] # None => image[h][v] # None
  BY <1>3
<1>5. \A h \in Hosts, w \in Versions : Holds(h, w) => Holds(h, w)'
  <2> SUFFICES ASSUME NEW h \in Hosts, NEW w \in Versions, Holds(h, w) PROVE Holds(h, w)'
    OBVIOUS
  <2>1. w # month
    BY Typed DEF IInv, RefreshesFit, Holds
  <2>2. QED
    BY <1>1, <1>3, <2>1 DEF Holds
<1>6. \A h \in Hosts \ {g} : /\ RefreshAt(h, "copying")' <=> RefreshAt(h, "copying")
                             /\ RefreshAt(h, "cloned")' <=> RefreshAt(h, "cloned")
  BY <1>2 DEF RefreshAt
<1>7. ~RefreshAt(g, "pushing") /\ ~RefreshAt(g, "copying")' /\ ~RefreshAt(g, "cloned")'
  BY <1>1, <1>2 DEF RefreshAt
<1>8. TypeOK'
  BY <1>1, <1>2, <1>3 DEF IInv, TypeOK
<1>9. ImagesMade'
  BY <1>1, <1>4 DEF IInv, ImagesMade
<1>10. CopiesFit'
  BY <1>1, <1>2, <1>7, OtherCopies
<1>11. RefreshesFit'
  <2>1. \A h \in Hosts : refresh'[h] # None => refresh'[h] = refresh[h]
    BY <1>2
  <2>2. \A h \in Hosts : RefreshAt(h, "copying")' => image'[h][month] # None
    BY <1>3, <1>6, <1>7, Typed DEF IInv, RefreshesFit
  <2>3. ASSUME NEW h \in Hosts, RefreshAt(h, "cloned")' \/ RefreshAt(h, "copying")'
        PROVE  h \in hurt \/ Holds(h, refresh[h].from)'
    <3>1. h # g /\ refresh'[h] = refresh[h] /\ (RefreshAt(h, "cloned") \/ RefreshAt(h, "copying"))
      BY <1>2, <1>6, <1>7, <2>3
    <3>2. h \in hurt \/ Holds(h, refresh[h].from)
      BY <3>1 DEF IInv, RefreshesFit
    <3>3. refresh[h].from \in Versions
      BY <3>1, Typed DEF IInv, RefreshAt, Refreshes
    <3>4. QED
      BY <1>1, <1>3, <3>1, <3>2, <3>3 DEF Holds
  <2>4. QED
    BY <1>1, <2>1, <2>2, <2>3 DEF IInv, RefreshesFit
<1>12. DeletesFit' /\ DeploysFit' /\ Seen'
  BY <1>1 DEF IInv, DeletesFit, DeploysFit, Seen, Recorded, UnderVm
<1>13. NamedIsWhole'
  <2> SUFFICES ASSUME NEW h \in Hosts \ hurt, NEW v \in Versions, image'[h][v] # None
               PROVE  image'[h][v].whole \/ (RefreshAt(h, "copying")' /\ v = month /\ image'[h][v].by = h)
    BY <1>1 DEF NamedIsWhole
  <2>1. CASE h = g /\ v = month
    BY <1>3, <2>1 DEF IInv, NamedIsWhole
  <2>2. CASE ~(h = g /\ v = month)
    BY <1>3, <1>6, <2>2 DEF IInv, NamedIsWhole
  <2>3. QED
    BY <2>1, <2>2
<1>14. OneKept'
  <2> SUFFICES ASSUME NEW h \in Hosts \ hurt
               PROVE  \/ \E w \in Versions : Holds(h, w)'
                      \/ ~RefreshAt(h, "copying")' /\ (Bare(h)' \/ \E x \in Versions : Newest(h, x)')
    BY <1>1 DEF OneKept
  <2>1. CASE h = g /\ RefreshAt(g, "copying")
    BY <1>5, <2>1 DEF IInv, OneKept
  <2>2. CASE ~(h = g /\ RefreshAt(g, "copying"))
    <3>1. \A v \in Versions : image'[h][v] = image[h][v]
      BY <1>3, <2>2
    <3>2. (Bare(h) => Bare(h)') /\ \A x \in Versions : Newest(h, x) => Newest(h, x)'
      BY <1>1, <3>1 DEF Bare, Newest, Known
    <3>3. QED
      BY <1>5, <1>6, <1>7, <2>2, <3>2 DEF IInv, OneKept
  <2>3. QED
    BY <2>1, <2>2
<1>15. QED
  BY <1>8, <1>9, <1>10, <1>11, <1>12, <1>13, <1>14 DEF IInv

LEMMA PushKeeps == ASSUME IInv, NEW g \in Hosts, Push(g) PROVE IInv'
<1>1. /\ RefreshAt(g, "push") /\ (Over(g) \/ Step(g, "pushing"))
      /\ UNCHANGED <<month, asked, image, row, registered, listing, env, vm, deploy, delete, throwaway, late, hurt, events>>
  BY DEF Push, rows, history, marks
<1>2. /\ refresh' \in [Hosts -> Refreshes \cup {None}]
      /\ refresh'[g] # None => refresh'[g].from = refresh[g].from /\ refresh'[g].at = "pushing"
      /\ \A h \in Hosts \ {g} : refresh'[h] = refresh[h]
  BY <1>1, StepFits, OverFits DEF RefreshAt, IInv
<1>3. \A h \in Hosts : /\ RefreshAt(h, "copying")' <=> RefreshAt(h, "copying")
                       /\ RefreshAt(h, "cloned")' <=> RefreshAt(h, "cloned")
                       /\ RefreshAt(h, "cloned") \/ RefreshAt(h, "copying") => refresh'[h] = refresh[h]
  BY <1>1, <1>2 DEF RefreshAt
<1>4. copy' \in [Copiers -> Copies \cup {None}] /\ ImagesMade' /\ CopiesFit'
  <2>1. CASE Over(g) /\ UNCHANGED copy
    <3>1. ~RefreshAt(g, "pushing")
      BY <1>1 DEF RefreshAt
    <3>2. CopiesFit'
      BY <1>1, <1>2, <2>1, <3>1, OtherCopies
    <3>3. QED
      BY <1>1, <2>1, <3>2 DEF IInv, TypeOK, ImagesMade
  <2>2. CASE image[g][month] # None /\ Step(g, "pushing") /\ StartsCopy(g, g, Primary, month)
    <3>1. g \in Copiers /\ g \notin Envs /\ month \in Versions /\ month <= month
      BY Constants, Typed DEF IInv, Copiers
    <3>2. /\ copy' \in [Copiers -> Copies \cup {None}]
          /\ copy'[g].version = month /\ ~copy'[g].named
          /\ \A d \in Copiers \ {g} : copy'[d] = copy[d]
      BY <2>2, <3>1, Constants, StartsCopyFits DEF IInv
    <3>3. RefreshAt(g, "pushing")'
      BY <1>1, <2>2, StepFits DEF IInv, RefreshAt
    <3>4. ImagesMade'
      BY <1>1, <3>1, <3>2 DEF IInv, ImagesMade
    <3>5. \A c \in Hosts \ {g} : RefreshAt(c, "pushing") => RefreshAt(c, "pushing")'
      BY <1>2 DEF RefreshAt
    <3>6. deploy' = deploy /\ hurt' = hurt
      BY <1>1
    <3>7. CopiesFit'
      BY <3>1, <3>2, <3>3, <3>5, <3>6 DEF IInv, CopiesFit, At
    <3>8. QED
      BY <3>2, <3>4, <3>7
  <2>3. QED
    BY <2>1, <2>2 DEF Push
<1>5. TypeOK'
  BY <1>1, <1>2, <1>4 DEF IInv, TypeOK
<1>6. RefreshesFit'
  <2>1. \A h \in Hosts : refresh'[h] # None => refresh'[h].from = refresh[h].from /\ refresh[h] # None
    BY <1>1, <1>2 DEF RefreshAt
  <2>2. ASSUME NEW h \in Hosts, RefreshAt(h, "cloned")' \/ RefreshAt(h, "copying")'
        PROVE  h \in hurt \/ Holds(h, refresh[h].from)'
    BY <1>1, <1>3, <2>2 DEF IInv, RefreshesFit, Holds
  <2>3. QED
    BY <1>1, <1>3, <2>1, <2>2 DEF IInv, RefreshesFit
<1>7. DeletesFit' /\ NamedIsWhole' /\ DeploysFit' /\ Seen'
  BY <1>1, <1>3 DEF IInv, DeletesFit, NamedIsWhole, DeploysFit, Seen, Recorded, UnderVm
<1>8. OneKept'
  BY <1>1, <1>3 DEF IInv, OneKept, Holds, Bare, Newest, Known
<1>9. QED
  BY <1>4, <1>5, <1>6, <1>7, <1>8 DEF IInv

-----------------------------------------------------------------------------
(* Retention and the delete jobs.                                           *)

\* What is due is not the newest in the rows.
LEMMA DueIsOlder ==
    ASSUME TypeOK, NEW h \in Hosts, NEW v \in Due(h)
    PROVE  /\ v \in row[h] /\ v < month /\ delete[h][v] = "none"
           /\ \E w \in row[h] : w \in Versions /\ w > v
<1>1. v \in row[h] /\ Cardinality(Newer(h, v)) >= Keep /\ delete[h][v] = "none"
  BY DEF Due
<1>2. Newer(h, v) # {}
  BY <1>1, FS_EmptySet, Constants
<1>3. PICK w \in row[h] : w > v
  BY <1>2 DEF Newer
<1>4. row[h] \subseteq 1..month /\ 1..month \subseteq Versions /\ month \in Nat
  BY Typed
<1>5. QED
  BY <1>1, <1>3, <1>4

LEMMA RetentionKeeps == IInv /\ Retention => IInv'
<1> SUFFICES ASSUME IInv, Retention PROVE IInv'
  OBVIOUS
<1>1. /\ delete' = [h \in Hosts |-> [v \in Versions |-> IF v \in Due(h) THEN "queued" ELSE delete[h][v]]]
      /\ UNCHANGED <<month, asked, image, row, registered, listing, env, vm, deploy, refresh, throwaway, copy, late, hurt, events>>
  BY DEF Retention, rows, history, marks
<1>2. \A h \in Hosts, v \in Versions : /\ v \in Due(h) => delete'[h][v] = "queued"
                                       /\ v \notin Due(h) => delete'[h][v] = delete[h][v]
  BY <1>1
<1>3. TypeOK'
  BY <1>1, Typed DEF IInv, TypeOK
<1>4. ImagesMade' /\ CopiesFit' /\ NamedIsWhole' /\ DeploysFit'
  BY <1>1 DEF IInv, ImagesMade, CopiesFit, NamedIsWhole, DeploysFit, At, RefreshAt, Recorded
<1>5. \A h \in Hosts, w \in Versions : Holds(h, w) => Holds(h, w)'
  BY <1>1, <1>2 DEF Holds
<1>6. RefreshesFit'
  <2>1. \A h \in Hosts : refresh[h] # None => refresh[h].from \in Versions
    BY Typed DEF IInv, Refreshes
  <2>2. ASSUME NEW h \in Hosts, RefreshAt(h, "cloned") \/ RefreshAt(h, "copying")
        PROVE  h \in hurt \/ Holds(h, refresh[h].from)'
    <3>1. refresh[h].from \in Versions /\ (h \in hurt \/ Holds(h, refresh[h].from))
      BY <2>1, <2>2 DEF IInv, RefreshesFit, RefreshAt
    <3>2. QED
      BY <1>1, <1>2, <3>1 DEF Holds
  <2>3. QED
    BY <1>1, <2>2 DEF IInv, RefreshesFit, RefreshAt
<1>7. DeletesFit'
  BY <1>1, <1>2, DueIsOlder DEF IInv, DeletesFit
<1>8. Seen'
  <2>1. \A h \in Hosts, v \in Versions : /\ delete'[h][v] \in {"checked", "looked"} => delete[h][v] \in {"checked", "looked"}
                                         /\ delete'[h][v] = "looked" => delete[h][v] = "looked"
    BY <1>2
  <2>2. env' = env /\ vm' = vm /\ late' = late
    BY <1>1
  <2>3. QED
    BY <2>1, <2>2 DEF IInv, Seen, Recorded, UnderVm
<1>9. OneKept'
  <2>1. ASSUME NEW h \in Hosts, NEW x \in Versions, Newest(h, x)
        PROVE  Newest(h, x)'
    <3>1. ASSUME NEW v \in Due(h), NEW u \in Versions, u = v PROVE ~(v >= x)
      <4>1. PICK w \in row[h] : w \in Versions /\ w > v
        BY DueIsOlder DEF IInv
      <4>2. w <= x
        BY <2>1, <4>1 DEF Newest, Known
      <4>3. QED
        BY <3>1, <4>1, <4>2, Constants
    <3>2. \A v \in Versions : v >= x => delete'[h][v] = "none"
      BY <1>2, <2>1, <3>1 DEF Newest
    <3>3. QED
      BY <1>1, <2>1, <3>2 DEF Newest, Known
  <2>2. ASSUME NEW h \in Hosts, Bare(h) PROVE Bare(h)'
    <3>1. \A v \in Versions : v \notin Due(h)
      BY <2>2, DueIsOlder DEF IInv, Bare, Known
    <3>2. QED
      BY <1>1, <1>2, <2>2, <3>1 DEF Bare, Known
  <2>3. hurt' = hurt /\ refresh' = refresh
    BY <1>1
  <2>4. QED
    BY <1>5, <2>1, <2>2, <2>3 DEF IInv, OneKept, RefreshAt
<1>10. QED
  BY <1>3, <1>4, <1>6, <1>7, <1>8, <1>9 DEF IInv

\* A delete job goes on from one version, whose image and row may go.
LEMMA DeleteStepKeeps ==
    ASSUME IInv, NEW g \in Hosts, NEW u \in Versions, delete[g][u] # "none",
           NEW step \in {"none", "checked", "looked"}, Deletes(g, u, step),
           step = "checked" => ~EnvUses(g, u),
           step = "looked" => delete[g][u] = "checked" /\ ~UnderDisk(g, u),
           image' = image \/ (delete[g][u] = "looked" /\ image' = [image EXCEPT ![g][u] = None]),
           row' = row \/ row' = [row EXCEPT ![g] = @ \ {u}],
           UNCHANGED <<month, asked, registered, listing, env, vm, deploy, refresh, throwaway, copy, late, hurt, events>>
    PROVE  IInv'
<1>1. /\ delete' \in [Hosts -> [Versions -> {"none", "queued", "checked", "looked"}]] /\ delete'[g][u] = step
      /\ \A h \in Hosts, v \in Versions : h # g \/ v # u => delete'[h][v] = delete[h][v]
  <2>1. delete \in [Hosts -> [Versions -> {"none", "queued", "checked", "looked"}]]
    BY DEF IInv, TypeOK
  <2>2. delete'[g] = [delete[g] EXCEPT ![u] = step] /\ \A h \in Hosts \ {g} : delete'[h] = delete[h]
    BY <2>1 DEF Deletes
  <2>3. delete'[g] \in [Versions -> {"none", "queued", "checked", "looked"}]
    BY <2>1, <2>2
  <2>4. QED
    BY <2>1, <2>2, <2>3 DEF Deletes
<1>2. /\ image' \in [Hosts -> [Versions -> Images \cup {None}]]
      /\ \A h \in Hosts, v \in Versions : \/ image'[h][v] = image[h][v]
                                          \/ h = g /\ v = u /\ image'[h][v] = None /\ delete[g][u] = "looked"
  <2>1. image \in [Hosts -> [Versions -> Images \cup {None}]]
    BY DEF IInv, TypeOK
  <2>2. CASE image' = [image EXCEPT ![g][u] = None] /\ delete[g][u] = "looked"
    <3>1. image'[g] = [image[g] EXCEPT ![u] = None] /\ \A h \in Hosts \ {g} : image'[h] = image[h]
      BY <2>1, <2>2
    <3>2. QED
      BY <2>1, <2>2, <3>1
  <2>3. QED
    BY <2>1, <2>2
<1>3. row' \in [Hosts -> SUBSET (1..month)] /\ \A h \in Hosts : row'[h] \subseteq row[h]
  <2>1. row \in [Hosts -> SUBSET (1..month)]
    BY DEF IInv, TypeOK
  <2>2. row[g] \ {u} \in SUBSET (1..month)
    BY <2>1
  <2>3. CASE row' = [row EXCEPT ![g] = @ \ {u}]
    <3>1. row'[g] = row[g] \ {u} /\ \A h \in Hosts \ {g} : row'[h] = row[h]
      BY <2>1, <2>3
    <3>2. QED
      BY <2>1, <2>2, <2>3, <3>1
  <2>4. QED
    BY <2>1, <2>3
<1>4. u < month
  BY DEF IInv, DeletesFit
<1>5. TypeOK'
  BY <1>1, <1>2, <1>3 DEF IInv, TypeOK
<1>6. ImagesMade' /\ CopiesFit' /\ DeploysFit'
  BY <1>2 DEF IInv, ImagesMade, CopiesFit, DeploysFit, At, RefreshAt, Recorded
<1>7. \A h \in Hosts, w \in Versions : Holds(h, w) => Holds(h, w)'
  BY <1>1, <1>2 DEF Holds, UnderDisk
<1>8. RefreshesFit'
  <2>1. \A h \in Hosts : RefreshAt(h, "copying") => image'[h][month] # None
    BY <1>2, <1>4, Typed DEF IInv, RefreshesFit
  <2>2. ASSUME NEW h \in Hosts, RefreshAt(h, "cloned") \/ RefreshAt(h, "copying")
        PROVE  h \in hurt \/ Holds(h, refresh[h].from)'
    <3>1. PICK w \in Versions : w = refresh[h].from
      BY <2>2, Typed DEF IInv, RefreshAt, Refreshes
    <3>2. h \in hurt \/ Holds(h, w)
      BY <2>2, <3>1 DEF IInv, RefreshesFit
    <3>3. w = refresh'[h].from
      BY <3>1
    <3>4. QED
      BY <1>7, <3>2, <3>1, <3>3 DEF Holds
  <2>3. QED
    BY <2>1, <2>2 DEF IInv, RefreshesFit, RefreshAt
<1>9. DeletesFit'
  BY <1>1, <1>4 DEF IInv, DeletesFit
<1>10. NamedIsWhole'
  BY <1>2 DEF IInv, NamedIsWhole, RefreshAt
<1>11. Seen'
  <2> SUFFICES ASSUME NEW e \in Envs, NEW h \in Hosts, NEW v \in Versions, <<e, h>> \notin late
               PROVE  /\ Recorded(e) /\ env[e].home = h /\ env[e].uses[h] = v => delete'[h][v] \notin {"checked", "looked"}
                      /\ UnderVm(e, h, v) => delete'[h][v] # "looked"
    BY DEF Seen, Recorded, UnderVm
  <2>1. CASE h = g /\ v = u
    <3>1. Recorded(e) /\ env[e].home = h /\ env[e].uses[h] = v => EnvUses(g, u)
      BY <2>1 DEF EnvUses
    <3>2. UnderVm(e, h, v) => UnderDisk(g, u)
      BY <2>1 DEF UnderDisk
    <3>3. Recorded(e) /\ env[e].home = h /\ env[e].uses[h] = v => delete[h][v] \notin {"checked", "looked"}
      BY DEF IInv, Seen
    <3>4. QED
      BY <1>1, <2>1, <3>1, <3>2, <3>3
  <2>2. CASE h # g \/ v # u
    <3>1. delete'[h][v] = delete[h][v]
      BY <1>1, <2>2
    <3>2. QED
      BY <3>1 DEF IInv, Seen
  <2>3. QED
    BY <2>1, <2>2
<1>12. OneKept'
  <2>1. \A h \in Hosts, v \in Versions : Known(h, v)' => Known(h, v)
    BY <1>2, <1>3 DEF Known
  <2>2. ASSUME NEW h \in Hosts, NEW x \in Versions, Newest(h, x)
        PROVE  Newest(h, x)'
    <3>1. h = g => ~(u >= x)
      BY <2>2 DEF Newest
    <3>2. x # u \/ h # g
      BY <3>1, Constants
    <3>3. image'[h][x] # None
      BY <1>2, <2>2, <3>2 DEF Newest
    <3>4. \A v \in Versions : v >= x => delete'[h][v] = "none"
      BY <1>1, <2>2, <3>1 DEF Newest
    <3>5. QED
      BY <2>1, <2>2, <3>3, <3>4 DEF Newest
  <2>3. ASSUME NEW h \in Hosts, Bare(h) PROVE Bare(h)'
    BY <1>1, <2>1, <2>3 DEF Bare
  <2>4. QED
    BY <1>7, <2>2, <2>3 DEF IInv, OneKept, RefreshAt
<1>13. QED
  BY <1>5, <1>6, <1>8, <1>9, <1>10, <1>11, <1>12 DEF IInv

LEMMA DeleteChecksKeeps == ASSUME IInv, NEW g \in Hosts, NEW u \in Versions, DeleteChecks(g, u) PROVE IInv'
<1>1. PICK step \in {"none", "checked", "looked"} : step = IF InUse(g, u) THEN "none" ELSE "checked"
  OBVIOUS
<1>2. /\ delete[g][u] = "queued" /\ Deletes(g, u, step) /\ step # "looked" /\ (step = "checked" => ~EnvUses(g, u))
      /\ UNCHANGED <<month, asked, image, row, registered, listing, env, vm, deploy, refresh, throwaway, copy, late, hurt, events>>
  BY <1>1 DEF DeleteChecks, InUse, rows, history, marks
<1>3. QED
  BY <1>2, DeleteStepKeeps

LEMMA DeleteLooksKeeps == ASSUME IInv, NEW g \in Hosts, NEW u \in Versions, DeleteLooks(g, u) PROVE IInv'
<1>1. PICK step \in {"none", "checked", "looked"} :
        /\ Deletes(g, u, step) /\ step # "checked" /\ (step = "looked" => ~UnderDisk(g, u))
        /\ row' = row \/ row' = [row EXCEPT ![g] = @ \ {u}]
  BY DEF DeleteLooks
<1>2. /\ delete[g][u] = "checked"
      /\ UNCHANGED <<month, asked, image, registered, listing, env, vm, deploy, refresh, throwaway, copy, late, hurt, events>>
  BY DEF DeleteLooks, history, marks
<1>3. QED
  BY <1>1, <1>2, DeleteStepKeeps

LEMMA DeleteRemovesKeeps == ASSUME IInv, NEW g \in Hosts, NEW u \in Versions, DeleteRemoves(g, u) PROVE IInv'
<1>1. /\ delete[g][u] = "looked" /\ Deletes(g, u, "none")
      /\ image' = [image EXCEPT ![g][u] = None] /\ row' = [row EXCEPT ![g] = @ \ {u}]
      /\ UNCHANGED <<month, asked, registered, listing, env, vm, deploy, refresh, throwaway, copy, late, hurt, events>>
  BY DEF DeleteRemoves, history, marks
<1>2. QED
  BY <1>1, DeleteStepKeeps

-----------------------------------------------------------------------------
(* The ends of copies.                                                      *)

\* A copy to one host ends, whatever becomes of the file; what is not hurt is all there.
LEMMA CopyStepKeeps ==
    ASSUME IInv, NEW c \in Copiers, NEW t \in Hosts, NEW u \in Versions, NEW good \in BOOLEAN,
           copy[c] # None, t = copy[c].to, u = copy[c].version, Goes(c, good),
           image' \in [Hosts -> [Versions -> Images \cup {None}]],
           \A h \in Hosts, v \in Versions : h # t \/ v # u => image'[h][v] = image[h][v],
           image[t][u] # None => image'[t][u] # None,
           t \notin hurt' => image'[t][u] = image[t][u] \/ image'[t][u].whole,
           good => image'[t][u] # None,
           copy' \in [Copiers -> Copies \cup {None}], copy'[c] = None,
           \A d \in Copiers \ {c} : copy'[d] # None =>
               /\ copy[d] # None /\ copy'[d].version = copy[d].version
               /\ copy'[d].named => copy'[d].to \in hurt',
           hurt \subseteq hurt', hurt' \subseteq Hosts, events' \in 0..MaxEvents,
           UNCHANGED <<month, asked, registered, listing, env, vm, delete, throwaway, late>>
    PROVE  IInv'
<1>1. u <= month /\ u \in 1..month /\ month \in Nat
  <2>1. u <= month /\ month \in Nat
    BY Typed DEF IInv, ImagesMade
  <2>2. QED
    BY <2>1 DEF Versions
<1>2. /\ deploy' \in [Envs -> Deploys \cup {None}] /\ \A e \in Envs \ {c} : deploy'[e] = deploy[e]
      /\ \A e \in Envs : deploy[e] = None => deploy'[e] = None
  <2>1. deploy \in [Envs -> Deploys \cup {None}]
    BY DEF IInv, TypeOK
  <2>2. CASE c \in Envs
    <3>1. deploy[c] # None /\ deploy[c] \in Deploys
      BY <2>1, <2>2 DEF IInv, CopiesFit, At
    <3>2. [deploy[c] EXCEPT !.at = "clone"] \in Deploys
      BY <3>1 DEF Deploys
    <3>3. deploy' = [deploy EXCEPT ![c] = IF good THEN [@ EXCEPT !.at = "clone"] ELSE None]
      BY <2>2 DEF Goes
    <3>4. QED
      BY <2>1, <2>2, <3>1, <3>2, <3>3
  <2>3. CASE c \notin Envs
    BY <2>1, <2>3 DEF Goes
  <2>4. QED
    BY <2>2, <2>3
<1>3. /\ refresh' \in [Hosts -> Refreshes \cup {None}]
      /\ \A h \in Hosts : refresh'[h] = refresh[h] \/ (h = c /\ RefreshAt(h, "pushing") /\ refresh'[h] = None)
  <2>1. refresh \in [Hosts -> Refreshes \cup {None}]
    BY DEF IInv, TypeOK
  <2>2. c \in Hosts => RefreshAt(c, "pushing")
    BY DEF IInv, CopiesFit
  <2>3. QED
    BY <2>1, <2>2 DEF Goes
<1>4. /\ row' \in [Hosts -> SUBSET (1..month)]
      /\ \A h \in Hosts, v \in Versions : v \in row'[h] => v \in row[h] \/ (h = t /\ v = u /\ image'[t][u] # None)
  <2>1. row \in [Hosts -> SUBSET (1..month)]
    BY DEF IInv, TypeOK
  <2>2. CASE good /\ row' = [row EXCEPT ![t] = @ \cup {u}]
    BY <1>1, <2>1, <2>2
  <2>3. CASE row' = row
    BY <2>1, <2>3
  <2>4. QED
    BY <2>2, <2>3 DEF Goes
<1>5. TypeOK'
  BY <1>2, <1>3, <1>4 DEF IInv, TypeOK
<1>6. ImagesMade'
  <2>1. \A h \in Hosts, v \in Versions : image'[h][v] # None => image[h][v] # None \/ v = u
    OBVIOUS
  <2>2. QED
    BY <1>1, <2>1 DEF IInv, ImagesMade
<1>7. CopiesFit'
  <2> SUFFICES ASSUME NEW d \in Copiers, copy'[d] # None
               PROVE  /\ d \in Envs => At(d, "copy")'
                      /\ d \in Hosts => RefreshAt(d, "pushing")'
                      /\ copy'[d].named => copy'[d].to \in hurt'
    BY DEF CopiesFit
  <2>1. d # c /\ copy[d] # None
    OBVIOUS
  <2>2. d \in Envs => At(d, "copy")'
    BY <1>2, <2>1 DEF IInv, CopiesFit, At
  <2>3. d \in Hosts => RefreshAt(d, "pushing")'
    BY <1>3, <2>1 DEF IInv, CopiesFit, RefreshAt
  <2>4. QED
    BY <2>1, <2>2, <2>3
<1>8. \A h \in Hosts, w \in Versions : Holds(h, w) => Holds(h, w)'
  BY DEF Holds
<1>9. \A h \in Hosts : /\ RefreshAt(h, "copying")' <=> RefreshAt(h, "copying")
                       /\ RefreshAt(h, "cloned")' <=> RefreshAt(h, "cloned")
                       /\ refresh'[h] # None => refresh'[h] = refresh[h]
  BY <1>3 DEF RefreshAt
<1>10. RefreshesFit'
  <2>1. \A h \in Hosts : RefreshAt(h, "copying")' => image'[h][month] # None
    BY <1>9, Typed DEF IInv, RefreshesFit
  <2>2. ASSUME NEW h \in Hosts, RefreshAt(h, "cloned")' \/ RefreshAt(h, "copying")'
        PROVE  h \in hurt' \/ Holds(h, refresh[h].from)'
    <3>1. refresh'[h] = refresh[h] /\ (RefreshAt(h, "cloned") \/ RefreshAt(h, "copying"))
      BY <1>9, <2>2 DEF RefreshAt
    <3>2. PICK w \in Versions : w = refresh[h].from
      BY <3>1, Typed DEF IInv, RefreshAt, Refreshes
    <3>3. h \in hurt \/ Holds(h, w)
      BY <3>1, <3>2 DEF IInv, RefreshesFit
    <3>4. w = refresh'[h].from
      BY <3>1, <3>2
    <3>5. QED
      BY <1>8, <3>3, <3>4 DEF Holds
  <2>3. QED
    BY <1>9, <2>1, <2>2 DEF IInv, RefreshesFit
<1>11. DeletesFit'
  BY DEF IInv, DeletesFit
<1>12. NamedIsWhole'
  <2> SUFFICES ASSUME NEW h \in Hosts \ hurt', NEW v \in Versions, image'[h][v] # None
               PROVE  image'[h][v].whole \/ (RefreshAt(h, "copying")' /\ v = month /\ image'[h][v].by = h)
    BY DEF NamedIsWhole
  <2>1. CASE image'[h][v] = image[h][v]
    BY <1>9, <2>1 DEF IInv, NamedIsWhole
  <2>2. CASE h = t /\ v = u /\ image'[h][v].whole
    BY <2>2
  <2>3. QED
    BY <2>1, <2>2
<1>13. DeploysFit'
  BY <1>2 DEF IInv, DeploysFit, Recorded
<1>14. Seen'
  BY DEF IInv, Seen, Recorded, UnderVm
<1>15. OneKept'
  <2> SUFFICES ASSUME NEW h \in Hosts \ hurt'
               PROVE  \/ \E w \in Versions : Holds(h, w)'
                      \/ ~RefreshAt(h, "copying")' /\ (Bare(h)' \/ \E x \in Versions : Newest(h, x)')
    BY DEF OneKept
  <2>1. \A v \in Versions : Known(h, v)' => Known(h, v) \/ (h = t /\ v = u /\ image'[t][u] # None)
    BY <1>4 DEF Known
  <2>2. CASE \E w \in Versions : Holds(h, w)
    BY <1>8, <2>2
  <2>3. CASE ~RefreshAt(h, "copying") /\ Bare(h)
    <3>1. CASE h = t /\ image'[t][u] # None
      <4>1. \A v \in Versions : (Known(h, v)' => v <= u) /\ (v >= u => delete'[h][v] = "none")
        BY <1>1, <2>1, <2>3 DEF Bare, Versions
      <4>2. QED
        BY <1>9, <2>3, <3>1, <4>1 DEF Newest
    <3>2. CASE h # t \/ image'[t][u] = None
      BY <1>9, <2>1, <2>3, <3>2 DEF Bare
    <3>3. QED
      BY <3>1, <3>2
  <2>4. ASSUME ~RefreshAt(h, "copying"), NEW x \in Versions, Newest(h, x)
        PROVE  ~RefreshAt(h, "copying")' /\ \E y \in Versions : Newest(h, y)'
    <3>1. CASE h = t /\ image'[t][u] # None /\ x <= u
      <4>1. \A v \in Versions : (Known(h, v)' => v <= u) /\ (v >= u => delete'[h][v] = "none")
        BY <2>1, <2>4, <3>1, Constants DEF Newest
      <4>2. QED
        BY <1>9, <2>4, <3>1, <4>1 DEF Newest
    <3>2. CASE h # t \/ image'[t][u] = None \/ u <= x
      <4>1. \A v \in Versions : Known(h, v)' => v <= x
        BY <2>1, <2>4, <3>2 DEF Newest
      <4>2. image'[h][x] # None
        BY <2>4 DEF Newest
      <4>3. QED
        BY <1>9, <2>4, <4>1, <4>2 DEF Newest
    <3>3. x <= u \/ u <= x
      BY Constants
    <3>4. QED
      BY <3>1, <3>2, <3>3
  <2>5. QED
    BY <2>2, <2>3, <2>4 DEF IInv, OneKept
<1>16. QED
  BY <1>5, <1>6, <1>7, <1>10, <1>11, <1>12, <1>13, <1>14, <1>15 DEF IInv

\* What a copy is, and what is left on its way when its file gets its name.
LEMMA CopyAt ==
    ASSUME TypeOK, NEW c \in Copiers, copy[c] # None
    PROVE  copy[c] \in Copies /\ copy[c].to \in Hosts /\ copy[c].version \in Versions /\ copy[c].by \in Hosts
           /\ copy[c].whole \in BOOLEAN /\ copy[c].named \in BOOLEAN
BY DEF TypeOK, Copies

LEMMA NamesFits ==
    ASSUME IInv, NEW c \in Copiers, copy[c] # None, NEW whole \in BOOLEAN, whole => Others(c) = {}, Names(c, whole),
           NEW t \in Hosts, NEW u \in Versions, t = copy[c].to, u = copy[c].version
    PROVE  /\ image' \in [Hosts -> [Versions -> Images \cup {None}]] /\ image'[t][u] # None
           /\ image'[t][u].whole = whole
           /\ \A h \in Hosts, v \in Versions : h # t \/ v # u => image'[h][v] = image[h][v]
           /\ copy' \in [Copiers -> Copies \cup {None}] /\ copy'[c] = None
           /\ \A d \in Copiers \ {c} : copy'[d] # None =>
                  /\ copy[d] # None /\ copy'[d].version = copy[d].version
                  /\ copy'[d].named => copy'[d].to \in hurt'
           /\ hurt \subseteq hurt' /\ hurt' \subseteq Hosts /\ (t \notin hurt' => whole)
<1>1. PICK i \in Images : i = [by |-> copy[c].by, whole |-> whole]
  BY CopyAt DEF IInv, Images
<1>2. image \in [Hosts -> [Versions -> Images \cup {None}]] /\ image' = [image EXCEPT ![t][u] = i]
  BY <1>1 DEF IInv, TypeOK, Names
<1>3. image'[t] = [image[t] EXCEPT ![u] = i] /\ \A h \in Hosts \ {t} : image'[h] = image[h]
  BY <1>2
<1>4. /\ image' \in [Hosts -> [Versions -> Images \cup {None}]] /\ image'[t][u] = i
      /\ \A h \in Hosts, v \in Versions : h # t \/ v # u => image'[h][v] = image[h][v]
  BY <1>2, <1>3
<1>5. i # None /\ i.whole = whole
  BY <1>1, Constants
<1>6. /\ copy' = [d \in Copiers |-> IF d = c THEN None
                                  ELSE IF d \in Others(c) THEN [copy[d] EXCEPT !.named = TRUE] ELSE copy[d]]
      /\ hurt' = IF whole THEN hurt ELSE hurt \cup {t}
  BY DEF Names
<1>7. \A d \in Copiers : copy[d] \in Copies \cup {None}
  BY Typed DEF IInv
<1>8. ASSUME NEW d \in Others(c)
      PROVE  /\ d \in Copiers \ {c} /\ copy[d] # None /\ [copy[d] EXCEPT !.named = TRUE] \in Copies
             /\ [copy[d] EXCEPT !.named = TRUE].version = copy[d].version
             /\ [copy[d] EXCEPT !.named = TRUE].to = t
  BY <1>7, <1>8 DEF Others, Copies
<1>9. copy' \in [Copiers -> Copies \cup {None}] /\ copy'[c] = None
  BY <1>6, <1>7, <1>8
<1>10. hurt \subseteq hurt' /\ hurt' \subseteq Hosts /\ (t \notin hurt' => whole)
  BY <1>6 DEF IInv, TypeOK
<1>11. ASSUME NEW d \in Copiers \ {c}, copy'[d] # None
       PROVE  /\ copy[d] # None /\ copy'[d].version = copy[d].version
              /\ copy'[d].named => copy'[d].to \in hurt'
  <2>1. CASE d \in Others(c)
    <3>1. ~whole
      BY <2>1
    <3>2. copy'[d] = [copy[d] EXCEPT !.named = TRUE]
      BY <1>6, <2>1
    <3>3. copy'[d].to = t /\ copy'[d].version = copy[d].version /\ copy[d] # None
      BY <1>8, <2>1, <3>2
    <3>4. t \in hurt'
      BY <1>6, <3>1
    <3>5. QED
      BY <3>3, <3>4
  <2>2. CASE d \notin Others(c)
    BY <1>6, <1>10, <1>11, <2>2 DEF IInv, CopiesFit
  <2>3. QED
    BY <2>1, <2>2
<1>12. QED
  BY <1>4, <1>5, <1>9, <1>10, <1>11

LEMMA CopyEndsKeeps == ASSUME IInv, NEW c \in Copiers, CopyEnds(c) PROVE IInv'
<1>1. PICK good \in BOOLEAN : Goes(c, good)
  BY DEF CopyEnds
<1>2. PICK whole \in BOOLEAN : whole = (copy[c].whole /\ Others(c) = {})
  BY CopyAt DEF CopyEnds, IInv
<1>3. /\ copy[c] # None /\ Names(c, whole) /\ (whole => Others(c) = {})
      /\ UNCHANGED <<month, asked, registered, listing, env, vm, delete, throwaway, late, events>>
  BY <1>2 DEF CopyEnds
<1>4. PICK t \in Hosts, u \in Versions : t = copy[c].to /\ u = copy[c].version
  BY <1>3, CopyAt DEF IInv
<1>5. /\ image' \in [Hosts -> [Versions -> Images \cup {None}]] /\ image'[t][u] # None
      /\ image'[t][u].whole = whole
      /\ \A h \in Hosts, v \in Versions : h # t \/ v # u => image'[h][v] = image[h][v]
      /\ copy' \in [Copiers -> Copies \cup {None}] /\ copy'[c] = None
      /\ \A d \in Copiers \ {c} : copy'[d] # None =>
             /\ copy[d] # None /\ copy'[d].version = copy[d].version
             /\ copy'[d].named => copy'[d].to \in hurt'
      /\ hurt \subseteq hurt' /\ hurt' \subseteq Hosts /\ (t \notin hurt' => whole)
  BY <1>3, <1>4, NamesFits
<1>6. events' \in 0..MaxEvents
  BY <1>3 DEF IInv, TypeOK
<1>7. QED
  BY <1>1, <1>3, <1>4, <1>5, <1>6, CopyStepKeeps

\* A copy that leaves the others as they are.
LEMMA CopyGone ==
    ASSUME IInv, NEW c \in Copiers, copy' = [copy EXCEPT ![c] = None]
    PROVE  /\ copy' \in [Copiers -> Copies \cup {None}] /\ copy'[c] = None
           /\ \A d \in Copiers \ {c} : copy'[d] # None =>
                  /\ copy[d] # None /\ copy'[d].version = copy[d].version
                  /\ copy'[d].named => copy'[d].to \in hurt
BY DEF IInv, TypeOK, CopiesFit

LEMMA LastWriterEndsKeeps == ASSUME IInv, NEW c \in Copiers, LastWriterEnds(c) PROVE IInv'
<1>1. /\ copy[c] # None /\ copy[c].named /\ copy' = [copy EXCEPT ![c] = None] /\ Goes(c, FALSE)
      /\ UNCHANGED <<month, asked, registered, listing, env, vm, delete, throwaway, late, hurt, events>>
  BY DEF LastWriterEnds, history, marks
<1>2. PICK t \in Hosts, u \in Versions : t = copy[c].to /\ u = copy[c].version
  BY <1>1, CopyAt DEF IInv
<1>3. t \in hurt
  BY <1>1, <1>2 DEF IInv, CopiesFit
<1>4. /\ image' \in [Hosts -> [Versions -> Images \cup {None}]]
      /\ \A h \in Hosts, v \in Versions : h # t \/ v # u => image'[h][v] = image[h][v]
      /\ image[t][u] # None => image'[t][u] # None
  <2>1. image \in [Hosts -> [Versions -> Images \cup {None}]]
    BY DEF IInv, TypeOK
  <2>2. CASE image' = image
    BY <2>1, <2>2
  <2>3. CASE image[t][u] # None /\ image' = [image EXCEPT ![t][u].whole = copy[c].whole]
    <3>1. image[t][u] \in Images
      BY <2>1, <2>3
    <3>2. PICK i \in Images : i = [image[t][u] EXCEPT !.whole = copy[c].whole]
      BY <1>1, <3>1, CopyAt DEF IInv, Images
    <3>3. image'[t] = [image[t] EXCEPT ![u] = i] /\ \A h \in Hosts \ {t} : image'[h] = image[h]
      BY <2>1, <2>3, <3>2
    <3>4. QED
      BY <2>1, <2>3, <3>2, <3>3, Constants
  <2>4. QED
    BY <1>2, <2>2, <2>3 DEF LastWriterEnds
<1>5. events' \in 0..MaxEvents /\ hurt' \subseteq Hosts
  BY <1>1 DEF IInv, TypeOK
<1>6. /\ copy' \in [Copiers -> Copies \cup {None}] /\ copy'[c] = None
      /\ \A d \in Copiers \ {c} : copy'[d] # None =>
             /\ copy[d] # None /\ copy'[d].version = copy[d].version
             /\ copy'[d].named => copy'[d].to \in hurt'
  BY <1>1, CopyGone
<1>7. hurt \subseteq hurt' /\ t \in hurt'
  BY <1>1, <1>3
<1>8. /\ copy[c] # None /\ Goes(c, FALSE)
      /\ UNCHANGED <<month, asked, registered, listing, env, vm, delete, throwaway, late>>
  BY <1>1
<1>9. QED
  BY <1>2, <1>4, <1>5, <1>6, <1>7, <1>8, CopyStepKeeps

LEMMA CopyCutKeeps == ASSUME IInv, NEW c \in Copiers, CopyCut(c) PROVE IInv'
<1>1. /\ copy[c] # None /\ Goes(c, FALSE) /\ events' \in 0..MaxEvents
      /\ Names(c, FALSE) \/ (copy' = [copy EXCEPT ![c] = None] /\ UNCHANGED <<image, hurt>>)
      /\ UNCHANGED <<month, asked, registered, listing, env, vm, delete, throwaway, late>>
  <2>1. events' \in 0..MaxEvents
    BY Constants DEF CopyCut, Event, IInv, TypeOK
  <2>2. QED
    BY <2>1 DEF CopyCut
<1>2. PICK t \in Hosts, u \in Versions : t = copy[c].to /\ u = copy[c].version
  BY <1>1, CopyAt DEF IInv
<1>3. CASE Names(c, FALSE)
  <2>1. /\ image' \in [Hosts -> [Versions -> Images \cup {None}]] /\ image'[t][u] # None
        /\ \A h \in Hosts, v \in Versions : h # t \/ v # u => image'[h][v] = image[h][v]
        /\ copy' \in [Copiers -> Copies \cup {None}] /\ copy'[c] = None
        /\ \A d \in Copiers \ {c} : copy'[d] # None =>
               /\ copy[d] # None /\ copy'[d].version = copy[d].version
               /\ copy'[d].named => copy'[d].to \in hurt'
        /\ hurt \subseteq hurt' /\ hurt' \subseteq Hosts /\ t \in hurt'
    <3>1. PICK whole \in BOOLEAN : whole = FALSE
      OBVIOUS
    <3>2. Names(c, whole) /\ (whole => Others(c) = {})
      BY <1>3, <3>1
    <3>3. /\ image' \in [Hosts -> [Versions -> Images \cup {None}]] /\ image'[t][u] # None
          /\ \A h \in Hosts, v \in Versions : h # t \/ v # u => image'[h][v] = image[h][v]
          /\ copy' \in [Copiers -> Copies \cup {None}] /\ copy'[c] = None
          /\ \A d \in Copiers \ {c} : copy'[d] # None =>
                 /\ copy[d] # None /\ copy'[d].version = copy[d].version
                 /\ copy'[d].named => copy'[d].to \in hurt'
          /\ hurt \subseteq hurt' /\ hurt' \subseteq Hosts /\ (t \notin hurt' => whole)
      BY <1>1, <1>2, <3>2, NamesFits
    <3>4. QED
      BY <3>1, <3>3
  <2>2. QED
    BY <1>1, <1>2, <2>1, CopyStepKeeps
<1>4. CASE copy' = [copy EXCEPT ![c] = None] /\ UNCHANGED <<image, hurt>>
  <2>1. image' \in [Hosts -> [Versions -> Images \cup {None}]] /\ hurt' \subseteq Hosts
    BY <1>4 DEF IInv, TypeOK
  <2>2. QED
    BY <1>1, <1>2, <1>4, <2>1, CopyGone, CopyStepKeeps
<1>5. QED
  BY <1>1, <1>3, <1>4

-----------------------------------------------------------------------------
(* The invariant, and what follows from it.                                 *)

LEMMA NextIInv == IInv /\ [Next]_vars => IInv'
<1> SUFFICES ASSUME IInv, [Next]_vars PROVE IInv'
  OBVIOUS
<1>1. CASE UNCHANGED vars
  <2>1. UNCHANGED <<month, asked, image, row, registered, listing, env, vm, deploy, refresh, delete, throwaway, copy, late, hurt, events>>
    BY <1>1 DEF vars, rows, jobs, marks, history
  <2>2. TypeOK'
    BY <2>1 DEF IInv, TypeOK
  <2>3. ImagesMade' /\ CopiesFit' /\ RefreshesFit' /\ DeletesFit' /\ NamedIsWhole'
    BY <2>1 DEF IInv, ImagesMade, CopiesFit, RefreshesFit, DeletesFit, NamedIsWhole, At, RefreshAt, Holds
  <2>4. DeploysFit' /\ Seen'
    BY <2>1 DEF IInv, DeploysFit, Seen, Recorded, UnderVm
  <2>5. OneKept'
    BY <2>1 DEF IInv, OneKept, Holds, Bare, Newest, Known, RefreshAt
  <2>6. QED
    BY <2>2, <2>3, <2>4, <2>5 DEF IInv
<1>2. CASE NextMonth \/ SyncWrites \/ ScheduleRefresh \/ Retention
  BY <1>2, NextMonthKeeps, SyncWritesKeeps, ScheduleRefreshKeeps, RetentionKeeps
<1>3. ASSUME NEW h \in Hosts, HostStep(h) PROVE IInv'
  <2>1. CASE SyncLists(h)
    BY <2>1, SyncListsKeeps
  <2>2. CASE RefreshClones(h)
    BY <2>2, RefreshClonesKeeps
  <2>3. CASE RefreshCopies(h)
    BY <2>3, RefreshCopiesKeeps
  <2>4. CASE RefreshPromotes(h)
    BY <2>4, RefreshPromotesKeeps
  <2>5. CASE RefreshFails(h)
    BY <2>5, RefreshFailsKeeps
  <2>6. CASE Push(h)
    BY <2>6, PushKeeps
  <2>7. ASSUME NEW v \in Versions, SyncTemplate(h, v) PROVE IInv'
    BY <2>7, SyncTemplateKeeps
  <2>8. ASSUME NEW v \in Versions, AskRefresh(h, v) PROVE IInv'
    BY <2>8, AskRefreshKeeps
  <2>9. ASSUME NEW v \in Versions, DeleteChecks(h, v) \/ DeleteLooks(h, v) \/ DeleteRemoves(h, v) PROVE IInv'
    BY <2>9, DeleteChecksKeeps, DeleteLooksKeeps, DeleteRemovesKeeps
  <2>10. QED
    BY <1>3, <2>1, <2>2, <2>3, <2>4, <2>5, <2>6, <2>7, <2>8, <2>9 DEF HostStep
<1>4. ASSUME NEW e \in Envs, EnvStep(e) PROVE IInv'
  <2>1. ASSUME NEW s \in Specs, Create(e, s) PROVE IInv'
    BY <2>1, CreateKeeps
  <2>2. CASE Redeploy(e)
    BY <2>2, RedeployKeeps
  <2>3. CASE Distribute(e)
    BY <2>3, DistributeKeeps
  <2>4. CASE Clone(e)
    BY <2>4, CloneKeeps
  <2>5. CASE Define(e)
    BY <2>5, DefineKeeps
  <2>6. CASE DestroyEnv(e)
    BY <2>6, DestroyEnvKeeps
  <2>7. QED
    BY <1>4, <2>1, <2>2, <2>3, <2>4, <2>5, <2>6 DEF EnvStep
<1>5. ASSUME NEW c \in Copiers, CopyEnds(c) \/ LastWriterEnds(c) \/ CopyCut(c) PROVE IInv'
  BY <1>5, CopyEndsKeeps, LastWriterEndsKeeps, CopyCutKeeps
<1>6. QED
  BY <1>1, <1>2, <1>3, <1>4, <1>5 DEF Next

\* The inductive invariant holds of every behaviour of the library.
THEOREM Invariance == Spec => []IInv
<1>1. Init => IInv
  BY InitIInv
<1>2. IInv /\ [Next]_vars => IInv'
  BY NextIInv
<1>3. QED
  BY <1>1, <1>2, PTL DEF Spec

\* The variables keep their types: nothing refers to a month to come, to a host that is not one of
\* them, or to a deploy, refresh or copy that is not under way.
THEOREM TypeCorrect == Spec => []TypeOK
<1>1. IInv => TypeOK
  BY DEF IInv
<1>2. QED
  BY <1>1, Invariance, PTL

\* Only two steps take an image away: a delete job's, and a refresh that fails while libvirt fills one.
LEMMA ImageGoes ==
    ASSUME IInv, [Next]_vars, NEW h \in Hosts, NEW v \in Versions, image[h][v] # None, image'[h][v] = None
    PROVE  DeleteRemoves(h, v) \/ (v = month /\ RefreshAt(h, "copying") /\ RefreshFails(h))
<1>1. CASE \/ UNCHANGED vars \/ NextMonth \/ SyncWrites \/ ScheduleRefresh \/ Retention
           \/ \E e \in Envs : EnvStep(e)
  <2>1. image' = image
    BY <1>1 DEF vars, NextMonth, SyncWrites, ScheduleRefresh, Retention, EnvStep, Create, Redeploy, QueueDeploy,
                Distribute, Clone, Define, DestroyEnv
  <2>2. QED
    BY <2>1
<1>2. ASSUME NEW g \in Hosts, HostStep(g)
      PROVE  DeleteRemoves(h, v) \/ (v = month /\ RefreshAt(h, "copying") /\ RefreshFails(h))
  <2>1. CASE \/ SyncLists(g) \/ RefreshClones(g) \/ Push(g)
             \/ \E u \in Versions : SyncTemplate(g, u) \/ AskRefresh(g, u) \/ DeleteChecks(g, u) \/ DeleteLooks(g, u)
    <3>1. image' = image
      BY <2>1 DEF SyncLists, RefreshClones, Push, SyncTemplate, AskRefresh, DeleteChecks, DeleteLooks
    <3>2. QED
      BY <3>1
  <2>2. image \in [Hosts -> [Versions -> Images \cup {None}]] /\ month \in Versions
    BY DEF IInv, TypeOK
  <2>3. CASE RefreshCopies(g)
    <3>1. PICK i \in Images : i = [by |-> g, whole |-> FALSE]
      BY DEF Images
    <3>2. image' = [image EXCEPT ![g][month] = i] /\ i # None
      BY <2>3, <3>1, Constants DEF RefreshCopies
    <3>3. QED
      BY <3>2, ThisMonthAt DEF IInv
  <2>4. CASE /\ RefreshPromotes(g) \/ (RefreshFails(g) /\ RefreshAt(g, "copying"))
             /\ image' = IF Own(g) THEN [image EXCEPT ![g][month].whole = TRUE] ELSE image
    <3>1. CASE ~Own(g)
      BY <2>4, <3>1
    <3>2. CASE Own(g)
      <4>1. image[g][month] \in Images
        BY <2>2, <3>2 DEF Own
      <4>2. PICK i \in Images : i = [image[g][month] EXCEPT !.whole = TRUE]
        BY <4>1 DEF Images
      <4>3. image' = [image EXCEPT ![g][month] = i] /\ i # None
        BY <2>2, <2>4, <3>2, <4>2, Constants
      <4>4. QED
        BY <4>3, ThisMonthAt DEF IInv
    <3>3. QED
      BY <3>1, <3>2
  <2>5. CASE RefreshFails(g) /\ image' = IF RefreshAt(g, "copying") THEN [image EXCEPT ![g][month] = None] ELSE image
    <3>1. CASE RefreshAt(g, "copying")
      <4>1. \A k \in Hosts, w \in Versions : k # g \/ w # month => image'[k][w] = image[k][w]
        BY <2>5, <3>1, ThisMonthAt DEF IInv
      <4>2. QED
        BY <2>5, <3>1, <4>1
    <3>2. CASE ~RefreshAt(g, "copying")
      BY <2>5, <3>2
    <3>3. QED
      BY <3>1, <3>2
  <2>6. ASSUME NEW u \in Versions, DeleteRemoves(g, u) PROVE DeleteRemoves(h, v)
    <3>1. image'[g] = [image[g] EXCEPT ![u] = None] /\ \A k \in Hosts \ {g} : image'[k] = image[k]
      BY <2>2, <2>6 DEF DeleteRemoves
    <3>2. h = g /\ v = u
      BY <2>2, <3>1
    <3>3. QED
      BY <2>6, <3>2
  <2>7. QED
    BY <1>2, <2>1, <2>3, <2>4, <2>5, <2>6 DEF HostStep, RefreshPromotes, RefreshFails
<1>3. ASSUME NEW c \in Copiers, CopyEnds(c) \/ LastWriterEnds(c) \/ CopyCut(c)
      PROVE  FALSE
  <2>1. copy[c] # None
    BY <1>3 DEF CopyEnds, LastWriterEnds, CopyCut
  <2>2. PICK t \in Hosts, u \in Versions : t = copy[c].to /\ u = copy[c].version
    BY <2>1, CopyAt DEF IInv
  <2>3. image \in [Hosts -> [Versions -> Images \cup {None}]]
    BY DEF IInv, TypeOK
  <2>4. ASSUME NEW i \in Images, image' = [image EXCEPT ![t][u] = i] PROVE FALSE
    <3>1. image'[t] = [image[t] EXCEPT ![u] = i] /\ \A k \in Hosts \ {t} : image'[k] = image[k]
      BY <2>3, <2>4
    <3>2. QED
      BY <2>3, <3>1, Constants
  <2>5. ASSUME NEW whole \in BOOLEAN, Names(c, whole) PROVE FALSE
    <3>1. PICK i \in Images : i = [by |-> copy[c].by, whole |-> whole]
      BY <2>1, CopyAt DEF IInv, Images
    <3>2. QED
      BY <2>2, <2>4, <2>5, <3>1 DEF Names
  <2>6. CASE CopyEnds(c)
    <3>1. PICK whole \in BOOLEAN : whole = (copy[c].whole /\ Others(c) = {})
      BY <2>1, CopyAt DEF IInv
    <3>2. QED
      BY <2>5, <2>6, <3>1 DEF CopyEnds
  <2>7. CASE LastWriterEnds(c)
    <3>1. image[t][u] # None /\ image' = [image EXCEPT ![t][u].whole = copy[c].whole]
      BY <2>2, <2>7 DEF LastWriterEnds
    <3>2. PICK i \in Images : i = [image[t][u] EXCEPT !.whole = copy[c].whole]
      BY <2>1, <2>3, <3>1, CopyAt DEF IInv, Images
    <3>3. QED
      BY <2>3, <2>4, <3>1, <3>2
  <2>8. CASE CopyCut(c)
    BY <2>5, <2>8 DEF CopyCut
  <2>9. QED
    BY <1>3, <2>6, <2>7, <2>8
<1>4. QED
  BY <1>1, <1>2, <1>3 DEF Next

\* No image goes from under a VM that a delete job could have known of (template_versions.py: DELETE).
THEOREM DisksKeepTheirImage == Spec => ImageStays
<1>1. ASSUME IInv, [Next]_vars, NEW e \in Envs, NEW h \in Hosts, NEW v \in Versions,
             UnderVm(e, h, v), image[h][v] # None, image'[h][v] = None
      PROVE  <<e, h>> \in late \/ (RefreshAt(h, "copying") /\ v = month)
  <2>1. DeleteRemoves(h, v) => <<e, h>> \in late
    BY <1>1 DEF DeleteRemoves, IInv, Seen
  <2>2. QED
    BY <1>1, <2>1, ImageGoes
<1>2. IInv /\ [Next]_vars =>
        (\A e \in Envs, h \in Hosts, v \in Versions :
            UnderVm(e, h, v) /\ UnderVm(e, h, v)' /\ image[h][v] # None /\ image'[h][v] = None =>
                <<e, h>> \in late \/ (RefreshAt(h, "copying") /\ v = month))
  BY <1>1
<1>3. QED
  BY <1>2, Invariance, PTL DEF Spec, ImageStays

\* Retention leaves a whole version of the line on every host (template_versions.py: schedule_retention).
THEOREM OneVersionLeft == Spec => RetentionLeavesOne
<1>1. ASSUME IInv, [Next]_vars, NEW h \in Hosts, NEW v \in Versions,
             delete[h][v] = "looked", image[h][v] # None, image'[h][v] = None, h \notin hurt
      PROVE  \E w \in Versions : IsWhole(image'[h][w])
  <2>1. v < month /\ month \in Nat
    BY <1>1, Typed DEF IInv, DeletesFit
  <2>2. DeleteRemoves(h, v)
    BY <1>1, <2>1, ImageGoes
  <2>3. \A w \in Versions \ {v} : image'[h][w] = image[h][w]
    BY <2>2, <1>1 DEF DeleteRemoves, IInv, TypeOK
  <2>4. CASE \E w \in Versions : Holds(h, w)
    <3>1. PICK w \in Versions : Holds(h, w)
      BY <2>4
    <3>2. w # v /\ w < month /\ image[h][w] # None
      BY <1>1, <3>1 DEF Holds, IInv, RefreshesFit
    <3>3. image[h][w].whole
      BY <1>1, <2>1, <3>2 DEF IInv, NamedIsWhole
    <3>4. QED
      BY <2>3, <3>2, <3>3 DEF IsWhole
  <2>5. CASE ~RefreshAt(h, "copying") /\ \E x \in Versions : Newest(h, x)
    <3>1. PICK x \in Versions : Newest(h, x)
      BY <2>5
    <3>2. x # v /\ image[h][x] # None
      BY <1>1, <3>1, Constants DEF Newest
    <3>3. image[h][x].whole
      BY <1>1, <2>5, <3>2 DEF IInv, NamedIsWhole
    <3>4. QED
      BY <2>3, <3>2, <3>3 DEF IsWhole
  <2>6. ~Bare(h)
    BY <1>1 DEF Bare, Known
  <2>7. QED
    BY <1>1, <2>4, <2>5, <2>6 DEF IInv, OneKept
<1>2. IInv /\ [Next]_vars =>
        (\A h \in Hosts, v \in Versions :
            delete[h][v] = "looked" /\ image[h][v] # None /\ image'[h][v] = None =>
                h \in hurt \/ \E w \in Versions : IsWhole(image'[h][w]))
  BY <1>1
<1>3. QED
  BY <1>2, Invariance, PTL DEF Spec, RetentionLeavesOne
=============================================================================
