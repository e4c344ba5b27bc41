------------------------------ MODULE Templates ------------------------------
(***************************************************************************)
(* One line of dated templates ("rocky9-base-2026.10") in the libraries of *)
(* the KVM hosts: the images, the rows that the worker's sync writes, the  *)
(* monthly refresh that makes the next version out of an older one, the    *)
(* copies between the primary file host and the others, retention and the  *)
(* delete jobs, and environments whose VMs' disks have an image under them *)
(* (engine/template_versions.py, templates.py, filedist.py).               *)
(*                                                                         *)
(* A version is the month it is made for.  Two images differ when two      *)
(* hosts made them, and then also in size.                                 *)
(***************************************************************************)
EXTENDS Naturals, FiniteSets

CONSTANTS
    Hosts,          \* the enabled KVM hosts
    Primary,        \* the one that is the primary file host
    Envs,           \* environments
    Specs,          \* what people write in one: its home, and the version its part on each host is cloned from
    Keep,           \* Settings > Templates: keep_versions
    LastMonth,      \* bound: months
    MaxEvents,      \* bound: what people ask for, refreshes that fail, copies whose reader or worker dies
    Sync, None

Versions == 1..LastMonth
Copiers  == Envs \cup Hosts \cup {Sync}    \* a deploy, a refresh on its way to the primary, files.sync_templates

\* What the variables hold where it is not None.
Images    == [by : Hosts, whole : BOOLEAN]
Listings  == [host : Hosts, has : SUBSET Versions]
Deploys   == [host : Hosts, at : {"files", "copy", "clone", "define"}, left : SUBSET Hosts]
Refreshes == [from : Versions, at : {"queued", "cloned", "copying", "push", "pushing"}]
Copies    == [to : Hosts, version : Versions, by : Hosts, whole : BOOLEAN, named : BOOLEAN]

ASSUME TemplatesAssumption ==
    /\ Primary \in Hosts /\ IsFiniteSet(Hosts)
    /\ Specs \subseteq [home : Hosts, uses : [Hosts -> Versions \cup {None}]]
    /\ Hosts \cap Envs = {} /\ Sync \notin Hosts \cup Envs /\ None \notin Copiers
    /\ None \notin Nat \cup Images \cup Listings \cup Deploys \cup Refreshes \cup Copies
    /\ Keep \in Nat \ {0} /\ LastMonth \in Nat \ {0} /\ MaxEvents \in Nat

VARIABLES
    month, asked,   \* the month, and the last one whose refreshes were queued
    image,          \* each host's image of each version: who made it, whether all of it is there
    row,            \* each host's versions that have a row with present
    registered,     \* the versions of which the primary has a row at all
    listing,        \* what the sync saw on a host and has not written yet
    env,            \* environments: recorded or not, their home, the version of their part on each host
    vm,             \* each environment's VM on each host: none, its disk made over the image, or defined
    deploy,         \* deploy jobs: the part they are at and the parts that follow
    refresh,        \* refresh jobs: the version they clone and their step
    throwaway,      \* the versions under the VMs of refreshes
    delete,         \* delete jobs and their steps
    copy,           \* copies on their way
    late,           \* the parts a delete job could not know of
    hurt,           \* the hosts on which a part of an image got its name, or two wrote one, or on which a
                    \* refresh cloned what a delete job was about to remove
    events

rows    == <<row, registered>>
jobs    == <<deploy, refresh, delete>>
marks   == <<late, hurt>>
history == <<marks, events>>
vars    == <<month, asked, image, rows, listing, env, vm, jobs, throwaway, copy, history>>

Event == events < MaxEvents /\ events' = events + 1

Unrecorded == [status |-> "none", home |-> Primary, uses |-> [h \in Hosts |-> None]]

\* The first version came from the primary; another host may have it or not.
Init ==
    /\ month = 1 /\ asked = 1
    /\ \E H \in SUBSET Hosts :
          /\ Primary \in H
          /\ image = [h \in Hosts |-> [v \in Versions |->
                         IF v = 1 /\ h \in H THEN [by |-> Primary, whole |-> TRUE] ELSE None]]
          /\ row = [h \in Hosts |-> IF h \in H THEN {1} ELSE {}]
    /\ registered = {1} /\ listing = None
    /\ env = [e \in Envs |-> Unrecorded]
    /\ vm = [e \in Envs |-> [h \in Hosts |-> "none"]]
    /\ deploy = [e \in Envs |-> None]
    /\ refresh = [h \in Hosts |-> None]
    /\ throwaway = [h \in Hosts |-> {}]
    /\ delete = [h \in Hosts |-> [v \in Versions |-> "none"]]
    /\ copy = [c \in Copiers |-> None]
    /\ late = {} /\ hurt = {} /\ events = 0

TypeOK ==
    LET Maybe(S) == S \cup {None}
        OnHosts(S) == [Hosts -> S]
    IN  /\ month \in Versions /\ asked \in 1..month
        /\ image \in OnHosts([Versions -> Maybe(Images)])
        /\ row \in OnHosts(SUBSET (1..month)) /\ registered \subseteq 1..month
        /\ listing \in Maybe(Listings) /\ (listing # None => listing.has \subseteq 1..month)
        /\ env \in [Envs -> [status : {"none", "recorded", "destroyed"}, home : Hosts,
                             uses : OnHosts(Maybe(Versions))]]
        /\ vm \in [Envs -> OnHosts({"none", "disk", "defined"})]
        /\ deploy \in [Envs -> Maybe(Deploys)]
        /\ refresh \in OnHosts(Maybe(Refreshes))
        /\ throwaway \in OnHosts(SUBSET Versions)
        /\ delete \in OnHosts([Versions -> {"none", "queued", "checked", "looked"}])
        /\ copy \in [Copiers -> Maybe(Copies)]
        /\ late \subseteq Envs \X Hosts
        /\ hurt \subseteq Hosts /\ events \in 0..MaxEvents

-----------------------------------------------------------------------------
(* What a template is used by (users() and the DELETE script). *)

Recorded(e) == env[e].status = "recorded"

\* Environments by their home and not by the hosts of their parts.
EnvUses(h, v) == \E e \in Envs : Recorded(e) /\ env[e].home = h /\ \E g \in Hosts : env[e].uses[g] = v
RefreshUses(h, v) == refresh[h] # None /\ v \in {refresh[h].from, month}
InUse(h, v) == EnvUses(h, v) \/ RefreshUses(h, v)

\* The disks of the VMs that libvirt lists; the variant for ImageStays believes the rows.
UnderVm(e, h, v) == vm[e][h] = "defined" /\ env[e].uses[h] = v
UnderRow(h, v)  == v \in throwaway[h] \/ EnvUses(h, v)
UnderDisk(h, v) == v \in throwaway[h] \/ \E e \in Envs : UnderVm(e, h, v)

IsWhole(i) == i # None /\ i.whole
Newer(h, v) == {w \in row[h] : w > v}

-----------------------------------------------------------------------------
(* Copies: ensure(), ensure_template(), to_primary(), copy(). *)

Same(h, v, i) == image[h][v] # None /\ image[h][v].by = i.by /\ image[h][v].whole = i.whole

StartsCopy(c, from, to, v) ==
    copy' = [copy EXCEPT ![c] = [to |-> to, version |-> v, by |-> image[from][v].by,
                                 whole |-> image[from][v].whole, named |-> FALSE]]

\* Those that write the same file: the .part, or the one a writer gave its name already.
Others(c) == {d \in Copiers \ {c} : /\ copy[d] # None /\ copy[d].to = copy[c].to
                                    /\ copy[d].version = copy[c].version /\ copy[d].named = copy[c].named}

\* The file gets its name, also under the writers that go on in it.
Names(c, whole) ==
    /\ image' = [image EXCEPT ![copy[c].to][copy[c].version] = [by |-> copy[c].by, whole |-> whole]]
    /\ copy' = [d \in Copiers |-> IF d = c THEN None
                                  ELSE IF d \in Others(c) THEN [copy[d] EXCEPT !.named = TRUE] ELSE copy[d]]
    /\ hurt' = IF whole THEN hurt ELSE hurt \cup {copy[c].to}

\* What the job of a copy does next: a deploy goes on or fails, a refresh is over, the sync takes the next.
Goes(c, good) ==
    /\ deploy' = IF c \in Envs THEN [deploy EXCEPT ![c] = IF good THEN [@ EXCEPT !.at = "clone"] ELSE None]
                 ELSE deploy
    /\ refresh' = IF c \in Hosts THEN [refresh EXCEPT ![c] = None] ELSE refresh
    /\ row' = IF good /\ c \notin Hosts THEN [row EXCEPT ![copy[c].to] = @ \cup {copy[c].version}] ELSE row

CopyEnds(c) ==
    /\ copy[c] # None /\ ~copy[c].named
    /\ Names(c, copy[c].whole /\ Others(c) = {})
    /\ \E good \in BOOLEAN : (copy[c].whole => good) /\ Goes(c, good)    \* the size may have grown meanwhile
    /\ UNCHANGED <<month, asked, registered, listing, env, vm, delete, throwaway, late, events>>

\* The second of two writers: its bytes are there, its mv finds no .part.  Two hosts' images
\* mixed are neither.
LastWriterEnds(c) ==
    LET k == copy[c]
        i == image[k.to][k.version]
    IN  /\ k # None /\ k.named
        /\ image' = IF i # None /\ i.by = k.by /\ Others(c) = {}
                    THEN [image EXCEPT ![k.to][k.version].whole = k.whole] ELSE image
        /\ copy' = [copy EXCEPT ![c] = None]
        /\ Goes(c, FALSE)
        /\ UNCHANGED <<month, asked, registered, listing, env, vm, delete, throwaway, history>>

\* The reader or the worker dies: what came so far is named as if it were all, or not named.
CopyCut(c) ==
    /\ copy[c] # None /\ Event
    /\ \/ ~copy[c].named /\ Names(c, FALSE)
       \/ copy' = [copy EXCEPT ![c] = None] /\ UNCHANGED <<image, hurt>>
    /\ Goes(c, FALSE)
    /\ UNCHANGED <<month, asked, registered, listing, env, vm, delete, throwaway, late>>

\* files.sync_templates: what the primary's rows have and a host's rows have not.
SyncTemplate(h, v) ==
    /\ copy[Sync] = None /\ h # Primary
    /\ v \in row[Primary] \ row[h] /\ image[Primary][v] # None
    /\ \/ Same(h, v, image[Primary][v]) /\ row' = [row EXCEPT ![h] = @ \cup {v}] /\ UNCHANGED copy
       \/ ~Same(h, v, image[Primary][v]) /\ StartsCopy(Sync, Primary, h, v) /\ UNCHANGED row
    /\ UNCHANGED <<month, asked, image, registered, listing, env, vm, jobs, throwaway, history>>

-----------------------------------------------------------------------------
(* The worker's sync of the libraries with their rows, every minute: one host *)
(* after the other, and then what the same thread schedules.                  *)

SyncLists(h) ==
    /\ listing = None
    /\ listing' = [host |-> h, has |-> {v \in Versions : image[h][v] # None}]
    /\ UNCHANGED <<month, asked, image, rows, env, vm, jobs, throwaway, copy, history>>

SyncWrites ==
    /\ listing # None
    /\ row' = [row EXCEPT ![listing.host] = listing.has] /\ listing' = None
    /\ registered' = IF listing.host = Primary THEN registered \cup listing.has ELSE registered
    /\ UNCHANGED <<month, asked, image, env, vm, jobs, throwaway, copy, history>>

-----------------------------------------------------------------------------
(* Environments: created, deployed part by part, destroyed, deployed again. *)

\* A template is one of the host's or of the primary's; a library without rows is not looked at.
Offered(h) == LET known == row[h] \cup row[Primary] IN IF known = {} THEN 1..month ELSE known

\* The delete jobs that have looked at the environments already.
Past(h, v) == v # None /\ delete[h][v] \in {"checked", "looked"}

\* The deploy is queued; it begins at home, and goes on with the other hosts that have a part.
QueueDeploy(e, s) ==
    /\ Event /\ deploy[e] = None
    /\ env' = [env EXCEPT ![e] = [status |-> "recorded", home |-> s.home, uses |-> s.uses]]
    /\ deploy' = [deploy EXCEPT ![e] =
          [host |-> s.home, at |-> "files", left |-> {h \in Hosts \ {s.home} : s.uses[h] # None}]]
    /\ late' = IF Recorded(e) THEN late ELSE late \cup {<<e, h>> : h \in {g \in Hosts : Past(g, s.uses[g])}}
    /\ UNCHANGED <<month, asked, image, rows, listing, vm, refresh, delete, throwaway, copy, hurt>>

Create(e, s) ==
    /\ env[e].status = "none" /\ \A h \in Hosts : s.uses[h] # None => s.uses[h] \in Offered(h)
    /\ QueueDeploy(e, s)

\* Also of one that was destroyed, whose templates are not looked at again.
Redeploy(e) == env[e].status # "none" /\ QueueDeploy(e, env[e])

At(e, step) == deploy[e] # None /\ deploy[e].at = step
Wants(e) == env[e].uses[deploy[e].host]

Part(e, step) == deploy' = [deploy EXCEPT ![e].at = step]
NextPart(e) ==
    \/ deploy[e].left = {} /\ deploy' = [deploy EXCEPT ![e] = None]
    \/ \E h \in deploy[e].left :
          deploy' = [deploy EXCEPT ![e] = [host |-> h, at |-> "files", left |-> @.left \ {h}]]
Stops(e) == deploy' = [deploy EXCEPT ![e] = None]

\* _distribute(): a host whose row says that it has the template is believed; the primary is when
\* it ever had one.
Distribute(e) ==
    LET h == deploy[e].host
        v == Wants(e)
    IN  /\ At(e, "files")
        /\ \/ v = None /\ NextPart(e) /\ UNCHANGED <<row, copy>>
           \/ v # None /\ v \in row[h] /\ Part(e, "clone") /\ UNCHANGED <<row, copy>>
           \/ v # None /\ v \notin row[h] \cup registered /\ Stops(e) /\ UNCHANGED <<row, copy>>
           \/ /\ v \in registered \ row[h] /\ h = Primary
              /\ row' = [row EXCEPT ![h] = @ \cup {v}] /\ Part(e, "clone") /\ UNCHANGED copy
           \/ /\ v \in registered \ row[h] /\ h # Primary
              /\ \/ image[Primary][v] = None /\ Stops(e) /\ UNCHANGED <<row, copy>>
                 \/ /\ image[Primary][v] # None /\ Same(h, v, image[Primary][v])
                    /\ row' = [row EXCEPT ![h] = @ \cup {v}] /\ Part(e, "clone") /\ UNCHANGED copy
                 \/ /\ image[Primary][v] # None /\ ~Same(h, v, image[Primary][v])
                    /\ StartsCopy(e, Primary, h, v) /\ Part(e, "copy") /\ UNCHANGED row
        /\ UNCHANGED <<month, asked, image, registered, listing, env, vm, refresh, delete, throwaway, history>>

\* create-from-template.sh: a VM that is there stays; the disk is made over an image that is there.
Clone(e) ==
    LET h == deploy[e].host
    IN  /\ At(e, "clone")
        /\ \/ vm[e][h] = "defined" /\ NextPart(e) /\ UNCHANGED vm
           \/ /\ vm[e][h] # "defined"
              /\ \/ image[h][Wants(e)] = None /\ Stops(e) /\ UNCHANGED vm
                 \/ image[h][Wants(e)] # None /\ Part(e, "define") /\ vm' = [vm EXCEPT ![e][h] = "disk"]
        /\ UNCHANGED <<month, asked, image, rows, listing, env, refresh, delete, throwaway, copy, history>>

\* virt-install defines and starts the VM, which fails when the image has gone.
Define(e) ==
    LET h == deploy[e].host
    IN  /\ At(e, "define")
        /\ \/ /\ image[h][Wants(e)] = None /\ Stops(e)
              /\ vm' = [vm EXCEPT ![e][h] = "none"] /\ UNCHANGED late
           \/ /\ image[h][Wants(e)] # None /\ NextPart(e)
              /\ vm' = [vm EXCEPT ![e][h] = "defined"]
              /\ late' = IF h # env[e].home /\ delete[h][Wants(e)] = "looked" THEN late \cup {<<e, h>>} ELSE late
        /\ UNCHANGED <<month, asked, image, rows, listing, env, refresh, delete, throwaway, copy, hurt, events>>

DestroyEnv(e) ==
    /\ Event /\ Recorded(e) /\ deploy[e] = None
    /\ env' = [env EXCEPT ![e].status = "destroyed"]
    /\ vm' = [vm EXCEPT ![e] = [h \in Hosts |-> "none"]]
    /\ UNCHANGED <<month, asked, image, rows, listing, jobs, throwaway, copy, marks>>

-----------------------------------------------------------------------------
(* Refreshes: once a month for every host, or when somebody asks for one. *)

Queue(h, v) == refresh' = [refresh EXCEPT ![h] = [from |-> v, at |-> "queued"]]

\* A refresh takes less than a month.
NextMonth ==
    /\ month < LastMonth /\ \A h \in Hosts : refresh[h] = None
    /\ month' = month + 1
    /\ UNCHANGED <<asked, image, rows, listing, env, vm, jobs, throwaway, copy, history>>

\* schedule_refresh(): every host whose newest version is an older one.
ScheduleRefresh ==
    LET due(h) == refresh[h] = None /\ row[h] # {} /\ month \notin row[h]
        newest(h) == CHOOSE v \in row[h] : Newer(h, v) = {}
    IN  /\ listing = None /\ asked < month /\ asked' = month
        /\ refresh' = [h \in Hosts |-> IF due(h) THEN [from |-> newest(h), at |-> "queued"] ELSE refresh[h]]
        /\ UNCHANGED <<month, image, rows, listing, env, vm, deploy, delete, throwaway, copy, history>>

\* refresh_template(): the new name is free on this host, and no job makes it anywhere.
AskRefresh(h, v) ==
    /\ Event /\ v \in row[h] /\ month \notin row[h]
    /\ \A g \in Hosts : refresh[g] = None /\ delete[g][month] = "none"
    /\ Queue(h, v)
    /\ UNCHANGED <<month, asked, image, rows, listing, env, vm, deploy, delete, throwaway, copy, marks>>

RefreshAt(h, step) == refresh[h] # None /\ refresh[h].at = step
Step(h, step) == refresh' = [refresh EXCEPT ![h].at = step]
MarkedOver(h) == refresh' = [refresh EXCEPT ![h].at = "over"]    \* variant for TypeOK: nothing ends a refresh
Over(h) == refresh' = [refresh EXCEPT ![h] = None]

\* refresh-template.sh: the image is there, the new name is free; the VM to be updated is made,
\* be it while a delete job that has looked at the VMs is about to remove the image.
RefreshClones(h) ==
    /\ RefreshAt(h, "queued")
    /\ image[h][refresh[h].from] # None /\ image[h][month] = None
    /\ Step(h, "cloned")
    /\ throwaway' = [throwaway EXCEPT ![h] = @ \cup {refresh[h].from}]
    /\ hurt' = IF delete[h][refresh[h].from] = "looked" THEN hurt \cup {h} ELSE hurt
    /\ UNCHANGED <<month, asked, image, rows, listing, env, vm, deploy, delete, copy, late, events>>

\* promote-to-template.sh: libvirt fills the image under its name.
RefreshCopies(h) ==
    /\ RefreshAt(h, "cloned") /\ image[h][month] = None
    /\ Step(h, "copying")
    /\ image' = [image EXCEPT ![h][month] = [by |-> h, whole |-> FALSE]]
    /\ UNCHANGED <<month, asked, rows, listing, env, vm, deploy, delete, throwaway, copy, history>>

Own(h) == image[h][month] # None /\ image[h][month].by = h

\* The image is whole, the VM goes, and what another host made goes to the primary.
RefreshPromotes(h) ==
    /\ RefreshAt(h, "copying")
    /\ image' = IF Own(h) THEN [image EXCEPT ![h][month].whole = TRUE] ELSE image
    /\ throwaway' = [throwaway EXCEPT ![h] = @ \ {refresh[h].from}]
    /\ IF h = Primary THEN Over(h) ELSE Step(h, "push")
    /\ UNCHANGED <<month, asked, rows, listing, env, vm, deploy, delete, copy, history>>

\* Any step fails: the VM is left for inspection.  libvirt drops what it was filling, by its
\* name, and an image that is whole stays when it is the VM that cannot be removed.
RefreshFails(h) ==
    LET filling == RefreshAt(h, "copying")
    IN  /\ Event /\ refresh[h] # None /\ refresh[h].at \in {"queued", "cloned", "copying"}
        /\ Over(h)
        /\ \/ image' = IF filling THEN [image EXCEPT ![h][month] = None] ELSE image
           \/ filling /\ image' = IF Own(h) THEN [image EXCEPT ![h][month].whole = TRUE] ELSE image
        /\ UNCHANGED <<month, asked, rows, listing, env, vm, deploy, delete, throwaway, copy, marks>>

\* to_primary(): what the primary has in the same size is not copied.
Push(h) ==
    /\ RefreshAt(h, "push")
    /\ LET i == image[h][month]
           goes == i # None /\ ~Same(Primary, month, i)
       IN  \/ ~goes /\ Over(h) /\ UNCHANGED copy
           \/ goes /\ Step(h, "pushing") /\ StartsCopy(h, h, Primary, month)
    /\ UNCHANGED <<month, asked, image, rows, listing, env, vm, deploy, delete, throwaway, history>>

-----------------------------------------------------------------------------
(* Retention: versions to delete, and the delete jobs. *)

Deletes(h, v, step) == delete' = [delete EXCEPT ![h][v] = step]
\* schedule_retention(): the versions beyond the newest that are kept, and that nothing uses.
\* The variant, for RetentionLeavesOne, counts the version itself as one that is kept.
DueAtKeep(h) == {v \in row[h] : Cardinality(Newer(h, v)) + 1 >= Keep /\ ~InUse(h, v) /\ delete[h][v] = "none"}
Due(h) == {v \in row[h] : Cardinality(Newer(h, v)) >= Keep /\ ~InUse(h, v) /\ delete[h][v] = "none"}
Retention ==
    /\ listing = None /\ \E h \in Hosts : Due(h) # {}
    /\ delete' = [h \in Hosts |-> [v \in Versions |-> IF v \in Due(h) THEN "queued" ELSE delete[h][v]]]
    /\ UNCHANGED <<month, asked, image, rows, listing, env, vm, deploy, refresh, throwaway, copy, history>>

\* run_delete() looks once more at the rows of environments and jobs...
DeleteChecks(h, v) ==
    /\ delete[h][v] = "queued"
    /\ Deletes(h, v, IF InUse(h, v) THEN "none" ELSE "checked")
    /\ UNCHANGED <<month, asked, image, rows, listing, env, vm, deploy, refresh, throwaway, copy, history>>

\* ... then the script on the host at the disks of every VM...
DeleteLooks(h, v) ==
    /\ delete[h][v] = "checked"
    /\ \/ image[h][v] = None /\ Deletes(h, v, "none") /\ row' = [row EXCEPT ![h] = @ \ {v}]
       \/ /\ image[h][v] # None /\ UNCHANGED row
          /\ Deletes(h, v, IF UnderDisk(h, v) THEN "none" ELSE "looked")
    /\ UNCHANGED <<month, asked, image, registered, listing, env, vm, deploy, refresh, throwaway, copy, history>>

\* ... and removes the image; the row follows.
DeleteRemoves(h, v) ==
    /\ delete[h][v] = "looked"
    /\ image' = [image EXCEPT ![h][v] = None]
    /\ row' = [row EXCEPT ![h] = @ \ {v}]
    /\ Deletes(h, v, "none")
    /\ UNCHANGED <<month, asked, registered, listing, env, vm, deploy, refresh, throwaway, copy, history>>

-----------------------------------------------------------------------------
HostStep(h) ==
    \/ SyncLists(h)
    \/ RefreshClones(h) \/ RefreshCopies(h) \/ RefreshPromotes(h) \/ RefreshFails(h) \/ Push(h)
    \/ \E v \in Versions : \/ SyncTemplate(h, v) \/ AskRefresh(h, v)
                           \/ DeleteChecks(h, v) \/ DeleteLooks(h, v) \/ DeleteRemoves(h, v)

EnvStep(e) ==
    \/ \E s \in Specs : Create(e, s)
    \/ Redeploy(e) \/ Distribute(e) \/ Clone(e) \/ Define(e) \/ DestroyEnv(e)

Next ==
    \/ NextMonth \/ SyncWrites \/ ScheduleRefresh \/ Retention
    \/ \E h \in Hosts : HostStep(h)
    \/ \E e \in Envs : EnvStep(e)
    \/ \E c \in Copiers : CopyEnds(c) \/ LastWriterEnds(c) \/ CopyCut(c)

Spec == Init /\ [][Next]_vars

-----------------------------------------------------------------------------
\* No image goes from under the disk of a VM, unless the VM's part was recorded after the
\* delete job had looked at the environments, or away from its home, was made after it had
\* looked at the VMs, or the image has the name that a refresh is still filling
\* (engine/template_versions.py: "An older one is deleted ... once nothing references it",
\* "refuses while any VM's disk has the image in its backing chain").
ImageStays ==
    [][\A e \in Envs, h \in Hosts, v \in Versions :
        UnderVm(e, h, v) /\ UnderVm(e, h, v)' /\ image[h][v] # None /\ image'[h][v] = None =>
            <<e, h>> \in late \/ (RefreshAt(h, "copying") /\ v = month)]_vars

\* Retention leaves a whole version of the line on a host, whatever refreshes, syncs and copies
\* do meanwhile, unless it got a part of an image for one: of a copy that was cut or that two
\* wrote, or of an image that the primary's libvirt was still filling; or a refresh cloned an
\* older version after that one's delete job had looked at the VMs
\* (schedule_retention: "Queue deletes for versions beyond each line's newest").
RetentionLeavesOne ==
    [][\A h \in Hosts, v \in Versions :
        delete[h][v] = "looked" /\ image[h][v] # None /\ image'[h][v] = None =>
            h \in hurt \/ \E w \in Versions : IsWhole(image'[h][w])]_vars

\* "Templates are never overwritten" (User_Docs/Web-Interface-Guide.md:219, refresh-template.sh).
NeverOverwritten ==
    [][\A h \in Hosts, v \in Versions : image[h][v] # None /\ image'[h][v] # None =>
        image'[h][v].by = image[h][v].by]_vars

-----------------------------------------------------------------------------
(* Why it holds: the conjuncts of the inductive invariant.                  *)

\* No image and no copy is of a month to come.
ImagesMade ==
    /\ \A h \in Hosts, v \in Versions : image[h][v] # None => v <= month
    /\ \A c \in Copiers : copy[c] # None => copy[c].version <= month

\* A copy belongs to a job that waits for it, and writes on under a name only where that is known.
CopiesFit ==
    \A c \in Copiers : copy[c] # None =>
        /\ c \in Envs => At(c, "copy")
        /\ c \in Hosts => RefreshAt(c, "pushing")
        /\ copy[c].named => copy[c].to \in hurt

\* A refresh makes a newer version than the one it clones, and that one stays under its VM.
Holds(h, w) == w \in throwaway[h] /\ image[h][w] # None /\ delete[h][w] # "looked"
RefreshesFit ==
    \A h \in Hosts :
        /\ \A w \in throwaway[h] : w < month
        /\ refresh[h] # None => refresh[h].from < month
        /\ RefreshAt(h, "copying") => image[h][month] # None
        /\ RefreshAt(h, "cloned") \/ RefreshAt(h, "copying") => h \in hurt \/ Holds(h, refresh[h].from)

\* The newest version is not deleted.
DeletesFit == \A h \in Hosts, v \in Versions : delete[h][v] # "none" => v < month

\* What has a name is all there, but for what libvirt is filling.
NamedIsWhole ==
    \A h \in Hosts \ hurt, v \in Versions : image[h][v] # None =>
        image[h][v].whole \/ (RefreshAt(h, "copying") /\ v = month /\ image[h][v].by = h)

\* Only a recorded environment has VMs and deploys.
DeploysFit == \A e \in Envs : ~Recorded(e) => deploy[e] = None /\ \A h \in Hosts : vm[e][h] = "none"

\* A delete job that went on had seen the parts at home, and then the VMs.
Seen ==
    \A e \in Envs, h \in Hosts, v \in Versions : <<e, h>> \notin late =>
        /\ Recorded(e) /\ env[e].home = h /\ env[e].uses[h] = v => delete[h][v] \notin {"checked", "looked"}
        /\ UnderVm(e, h, v) => delete[h][v] # "looked"

\* A host has no version of the line, or a refresh's VM holds one, or the newest it could know of is there.
Known(h, v) == \/ v \in row[h] \/ image[h][v] # None
               \/ listing # None /\ listing.host = h /\ v \in listing.has
               \/ h = Primary /\ v \in registered
Newest(h, x) == /\ image[h][x] # None
                /\ \A v \in Versions : (Known(h, v) => v <= x) /\ (v >= x => delete[h][v] = "none")
Bare(h) == \A v \in Versions : ~Known(h, v) /\ delete[h][v] = "none"
OneKept ==
    \A h \in Hosts \ hurt :
        \/ \E w \in Versions : Holds(h, w)
        \/ ~RefreshAt(h, "copying") /\ (Bare(h) \/ \E x \in Versions : Newest(h, x))

IInv ==
    /\ TypeOK /\ ImagesMade /\ CopiesFit /\ RefreshesFit /\ DeletesFit /\ NamedIsWhole /\ DeploysFit /\ Seen /\ OneKept
=============================================================================
