# LABaPe in TLA+

LABaPe builds lab environments of virtual machines on KVM hosts. A FastAPI
service (`app/labape/api`) answers the web interface and writes rows into
PostgreSQL; one or more worker processes (`app/labape/engine/runner.py`,
`serve()`) claim jobs from the `jobs` table and run them in threads; the jobs
call OpenTofu, Ansible, Packer and virsh through scripts and over SSH; an agent
on the stack's own host (`deploy/update-agent`) restarts the containers for
updates and for secrets that they mount. Nothing connects these but the database,
a few files and the hosts, so everything that makes the system correct (one job
per environment, a host that reboots alone, a password that still signs in after
a rotation, a template that stays under its VMs) is a protocol on rows and files.
Those protocols are what these modules describe.

## Parts of the system

| Part | State | Operations | Talks to |
|---|---|---|---|
| Job queue (`engine/runner.py`, `api/jobs.py`) | `jobs` rows: type, environment, host, state, cancel flag, worker, heartbeat | queue, retry, cancel, claim, beat, recover, finish | API handlers, worker loops, job threads |
| Job execution (`engine/runner.py`, `hostio.py`) | the thread, its engine directory, the script process | prepare, copy files, run the parts, pull results | host over SSH, `data/engine/env-<id>` |
| Environments (`api/environments.py`, `netpolicy.py`, `spread.py`, `engine/envdelete.py`) | `Environment` rows, addresses, parts on hosts | create, draft, deploy, redeploy, move, destroy, delete | job queue, leases, OpenTofu on the hosts |
| OpenTofu on the hosts (`scripts/deploy.sh`, `destroy.sh`, `tofu/modules/vm/libvirt/scripts`) | workspaces, VMs and their tags | make, keep, replace, remove VMs | libvirt |
| Host jobs (`engine/hostpower.py`, `api/hosts.py`) | `KvmHost` rows, host status | update, reboot, install, change limit, enable | job queue |
| Maintenance mode (`maintenance_mode.py`, `main.py`) | one settings row, a copy of it per API process | turn on, off, schedule, start when due | API middleware, worker loop, rotation, update agent |
| Leases (`leases.py`) | `expires_at`, `lease_state` | remind, shut down, destroy, extend | job queue |
| Rotation schedule (`engine/rotation.py`, `rotate_overdue.py`, `update.py`) | policies, the overdue row, `request.json`, `status.json` | rotate now, run the overdue ones, hand over to the agent, reconcile | job queue, maintenance mode, update agent |
| Platform secrets (`engine/rotation.py`, `rotation_stores.py`, `engine_secrets.py`, `secret_health.py`) | the secret where it is stored and where it is accepted | rotate, put back, check, recover | servers, hosts, VMs |
| VM administrators (`engine/vmaccess.py`, `vm_passwords.py`) | the passwords on the machines, those stored, tried, pending and in the inventory | deploy, rotate, check, recover | Ansible, domain controllers |
| Update agent (`deploy/update-agent`) | the checkout, images, database and backups; each bootstrap secret in the file, the store and the service | update, roll back, rotate | containers, CA, stores, maintenance mode |
| Templates (`engine/templates.py`, `template_versions.py`, `filedist.py`, `scripts/refresh-template.sh`) | images on hosts, rows about them, copies on their way | sync, refresh, copy, retain, delete, clone | job execution, libvirt |
| Files (`engine/downloads.py`, `files_sync.py`, `api/files.py`) | file records, upload sessions | download, upload, hash, move the store | job execution |
| Secret stores (`stores/`) | secrets in OpenBao, Conjur or the database | read, write, move between stores | rotation, engine |
| Monitoring (`engine/stackmon.py`, `hoststats.py`) | alerts and their repeats | open, repeat, close, acknowledge | mail |
| Sessions (`remote.py`, `console_sessions.py`, `links.py`, `tokens.py`, `auth/`) | sessions, one-time codes, tokens | open, use, end | API |

The behaviours that are hard in this system come from a handful of decisions in
the code:

* The database runs READ COMMITTED and the handlers take no locks, so a handler
  that reads, decides and writes (`_queue`, `cancel`, `retry`) is separated from
  itself by everybody else's commits. Only `claim()` takes an advisory lock.
* A worker's liveness is judged from `heartbeat_at` alone, which some steps of a
  job refresh and some do not.
* `_finish()` and `cancel()` write a row by its id, whatever it says by then.
* Containers are killed and restarted with the same name; a thread's row
  survives its thread, and after a recovery a thread can survive its row.
* Maintenance is read in one transaction (or from a five-second-old copy) and
  acted on in another.
* What a row says of a host (a VM, an image, a password) was true when it was
  written. A job writes the host first and the row later, or the other way round,
  and may die in between.
* The agent talks to the API through one request file and one status file, and
  does not look at what some of its commands return.

What each part has to keep:

* **Job queue**: one running row per environment; oldest first; a cancelled job
  is not started; a host's limit, its enabled flag and a waiting reboot are
  respected at every claim; each job starts at most once; a running row ends.
* **Job execution**: two threads never work in one engine directory; a live
  thread's row is left alone.
* **Environments**: a VM has the address that its environment holds, and nobody
  else holds it; a destroyed environment has no VM left; no job touches another
  environment's VM. (Three things the code does break this at a host and name; see
  `Environments` below.)
* **Maintenance**: no job starts on a reading of it that says on; a restart of the stack
  finds no job running but one that was claimed on an earlier reading; whoever turned it
  on turns it off.
* **Leases**: nothing is shut down before its end, nothing is destroyed before
  the grace period and without having been shut down, an extension counts.
* **Rotation schedule**: what was asked of the agent is recorded on the policy that
  asked; a run of the overdue secrets ends.
* **Secrets**: what is stored is accepted where it is used; a rotation that fails
  leaves the old one working; after any fault something that is held still signs in,
  and the checks repair the rest.
* **Update agent**: when it is idle the stack is one version with a database it reads,
  and a bootstrap secret has one value everywhere; a boot comes up after a power loss
  at any command; nothing is lost by an update that goes back.
* **Templates**: an image stays as long as a VM's disk is made over it; retention leaves
  one that works; an image is never overwritten.
* **Files**: one primary copy; a copy is complete before it is used.

## Modules

| Module | What it is |
|---|---|
| `JobQueue` | the job table, the handlers that insert and cancel rows, the worker loops, the job threads, hosts and maintenance |
| `EnvTurns` | abstract: jobs are submitted, start at most once, take turns on their environment, end |
| `JobQueueTurns` | the refinement mapping from `JobQueue` to `EnvTurns` |
| `MCJobQueue` | definitions for the TLC instances of the queue |
| `JobQueueProofs` | the inductive invariant, the safety theorems and the refinement of the queue |
| `Leases`, `LeasesProofs` | the lease of one environment: the worker's rounds, the requests that extend it or queue jobs, what the jobs leave; its invariant and theorems |
| `AgentSecrets` | a rotation of the master key, the database password or the CA password by the update agent, with failing commands and power loss; its theorems are the last part of `RotationProofs` |
| `Rotation`, `MCRotation`, `RotationProofs` | the schedule of rotations, the run of the overdue ones, the agent's request and status files, and who has maintenance on; its invariant and theorems |
| `PlatformSecrets`, `MCPlatformSecrets`, `PlatformSecretsProofs` | what a rotation job does to one of eight kinds of platform secret, and what the checks repair; its invariant and theorems |
| `WindowsAdmins`, `WindowsAdminsProofs` | the administrator pairs of an environment's Windows machines: deploy, rotation, check, recovery; its invariant and theorems |
| `Environments`, `MCEnvironments`, `EnvironmentsProofs` | records, addresses, OpenTofu's workspaces and the VMs of environments spread over hosts; its invariant and theorems |
| `Updates`, `MCUpdates`, `UpdatesProofs` | an update or rollback of the stack by the agent, with its backup, images and standby record; its invariant and theorems |
| `Templates`, `MCTemplates`, `TemplatesProofs` | one line of dated templates in the libraries of the hosts: refreshes, sync, copies, retention, and the VMs over them; its invariant and theorems |

Each module is one protocol with its own state. They meet in three places: jobs in
`JobQueue` stand for what `Environments`, `PlatformSecrets`, `WindowsAdmins` and
`Templates` model in detail; the agent of `Rotation` is the outside of what
`AgentSecrets` and `Updates` do inside; and the lease queues jobs as the queue takes
them. What one module assumes of another (jobs of an environment run one at a
time, a pending job ends) is what that other's properties state.

### JobQueue

State and code:

| Variable | Code |
|---|---|
| `jobs`, `lastId` | the `jobs` table (`models.py` `Job`); a row per id, `absent` until it is inserted |
| `status` | `Environment.status` |
| `hosts` | `KvmHost.concurrency_limit`, `enabled` |
| `stale` | the running rows whose `heartbeat_at` is older than `STALE_AFTER` (two minutes) |
| `phase` | where the thread of a job is in `run()`, `_execute()`, `run_reboot()` |
| `loop` | `serve()`: between rounds, or past its read of the maintenance row |
| `req` | a handler between its reads and its commit |
| `paused` | maintenance: off, on but not yet seen by the API's cached copy, on |
| `crashes`, `pauses` | counters that bound the model |

Actions: each handler of the API is two actions, its reads and checks
(`QueueEnvJob`, `QueueHostJob`, `Retry`, `CancelRead`) and its commit
(`CommitInsert`, `CancelCommit`). A commit happens even if maintenance began in
between, as the middleware looks once, when a request comes in. The worker is
`ReadMaintenance` and `Claim` (two transactions), `RecoverStale`, and being
killed and restarted. A thread of an engine job goes `prepare` (the working
directory, the inventory and the copies of files to the host: no heartbeat),
`script` (the poll loop beats), `pull` (results, no heartbeat), then `ok` or `bad`
until `_finish()` writes row and status. A job that the worker runs itself
`work`s; a reboot `wait`s for its host and is `down`. `RunnerError` is the
exception path (`_run_safely`), which fails the row and leaves the status.

A finished thread may write over a row that recovery has failed, and a cancel
may write over a row that was claimed after the cancel read it: the code writes
by id, so the model does.

Time is not counted. `GoStale` may happen to any running row that nobody is
beating at the moment; a row that is beaten every few seconds cannot go stale.
That is the code's own distinction: `STALE_AFTER` is 120 s and the poll loop
beats every `HEARTBEAT_EVERY` seconds.

### EnvTurns and JobQueueTurns

`EnvTurns` is the promise a caller of the queue relies on: four sets of jobs and
three actions. `JobQueueTurns` maps a row to waiting, active or over by its
state and states `TakesTurns == Turns!Spec`. It excludes what would be easy to
introduce (a recovery that puts rows back into the queue, a cancel that reopens
a row) and nothing in it mentions workers, hosts or heartbeats.

### Leases

| Variable | Code |
|---|---|
| `now` | the clock, in days |
| `policy` | `LeaseSettings`: enabled, and whether the grace ends in a destroy |
| `status`, `expires`, `lease` | `Environment.status`, `expires_at`, `lease_state` (the reminders sent, `stopped_at`, `destroy_job`) |
| `jobs`, `lastId` | the environment's jobs: pending, then over, and who queued them |
| `round` | for each worker, the time and the copy of the row that `tick()` works on |
| `req` | a handler between its reads and its commit: what it saw and what it will write |
| `asks` | a counter that bounds the model |

A round of `tick()` is `ReadLeases` (every leased environment is read at once, with
the time), then either `Remind` or `LookForJobs` and, in a further step, `ShutDown`
or `DestroyIt`: between the read and the commit of one environment the round
queries, sends mail and commits other environments. `AskLease` and `CommitLease`
are `set_lease`, for an owner (up to the longest lease) and an admin (any end, or none).
`AskJob` and `CommitJob` are the handlers that queue a deploy, destroy or power job;
the deploy of a new or destroyed environment starts a new lease. SQLAlchemy
writes the columns whose value differs from the one that was read, and no other:
`Renew` and `CommitJob` follow it, so an extension that finds no mark does not
clear a mark that a round writes in between.

`JobEnds` abstracts the queue: an environment's jobs end in turn, with success, a
failure, a failure by recovery, or a cancel before they start, and leave the status
that `_finish()`, `recover_stale()` and `cancel()` leave. Environments share nothing in
a lease, so one is enough. The emails are left out.

### AgentSecrets

| Variable | Code |
|---|---|
| `kind` | which secret is rotated |
| `inStore` | `IN_STORE`: the files are a memory-only copy of what the platform store holds |
| `pc`, `why` | the command of `rotate()` that comes next, and the failure it goes back for |
| `said` | `status.json`: running, or how the last rotation ended |
| `file`, `old` | the secret's file in `$S` and its `.old` copy |
| `store` | the value in OpenBao or Conjur |
| `service` | what each part of the service opens with: the data keys, the database role, the CA's root and intermediate key and its provisioner |
| `loaded`, `running` | the file that the containers mounted, and the CA's keys as it read them, when they were made |
| `up` | whether the containers the agent works in are up |
| `faults`, `fault`, `cut` | history: failed commands, the first of them, and where the power went |

Values are numbers: rotation `n` makes value `n`. The three kinds share one path
(`Maintenance`, the change of the service, `SwapFiles`, `Push`, `Recreate`,
`CheckHealth`) and have their own change and their own way back, in the order of
the script's branches: the master key puts its file back first, the others
their service. A replaced file keeps its old mount, so `loaded` changes only when the
containers are made again or the host boots: what the CA is asked to open with
`/run/secrets/ca_password` is the old value where the agent's own `/hs` folder has the
new one.

Each command can fail although nothing was wrong (`Fails`, bounded by `MaxFaults`), and
fails by itself when it cannot work: the data keys do not open with the file, the
API cannot log in, the CA is down. `repass.sh` can stop after the root's key; a push
can have written the file before it fails; containers that are not made again
stay or are gone. Going back, no command is checked. `PowerGoes` can come between any two
commands: the boot pulls the files from the store, starts the containers, and the
agent does not go on, so `said` stays running and the API takes no other request.

`Unrepaired` names the failures of one command that the agent does not take back:
the push of a master key (its way back reads a file that it has moved away), the
re-encryption of the CA's keys when it stops half-way ("nothing changed", but the
root's key has a new password that is then deleted), and a `recreate` that fails for the
master key (the health check reads no secret of the built-in store) or for the CA
(the CA goes on with the old file, and its way back opens the keys with that). `Between` names the commands before which a power loss separates the service
from what a boot reads.

File operations on the host (`cp`, `mv`, `rm`) do not fail. The three files of the
database password are one value. Turning maintenance on and off and counting
running jobs are one command here; `Rotation` has them.

### Rotation

| Variable | Code |
|---|---|
| `policy` | `RotationPolicy` rows: status, whether `next_run` passed, `request_id` |
| `job` | the `secret.rotate` jobs; a finished row is kept only as long as the overdue run reads it |
| `request`, `report` | `request.json` and `status.json` in the agent's folder |
| `agent` | the agent's process and the request it moved to `processing.json` |
| `maint` | the `maintenance.state` row: on, by whom, or scheduled |
| `overdue`, `held` | the `rotation_queue` row and the copy of it that `advance()` works on and writes back; its ids, always in the order of `_order`, are a set taken in that `Order` |
| `asked` | an API request between `update.busy()` and `write_request()` |
| `pass` | where the worker is in its pass of every minute, or between its reading of maintenance and its claim |

The worker's pass is the order of `serve()`: a maintenance that came due, the daily
backup, `reconcile_agent`, `rotate_overdue.advance` (two actions, as it copies the row
and writes it back later), then `schedule`. After it, `ReadMaintenance` and `Claim` are the two
sessions of the loop (`runner.py:1108`, `:1112`): what was read may have changed by the claim, and a
claim, or `ClaimsNone`, ends the reading. There is one worker process; with more, each can bring one job
through. The agent is `AgentTakes`, `AgentBegins`
(status running), `AgentTurnsOn`, `AgentDrains`, `AgentWorks`, `AgentEnds`; updates,
rollbacks and backups go through the same two files and overwrite the same status.
The work itself is what `AgentSecrets` and `Updates` model. Request ids are only
compared, so `FreshId` takes any number nothing refers to. Times are "passed" or "ahead",
and the window is open or closed at each pass. The API may write for as long as its
copy of maintenance is older than the agent's switch (`MayWrite`).

### PlatformSecrets

| Variable | Code |
|---|---|
| `kind` | the secret a behaviour is about |
| `accepts` | what the server, each host, each VM, or the vault file accepts |
| `stored` | the value LABaPe holds (the secret store, or the worker's key file) |
| `history` | the earlier VM keys or vault passwords that are kept, at most `Keep` |
| `missed` | the VMs that the rotation which stored the key passed over |
| `job` | the rotation: step, new value, the hosts that have it, the VMs it passed over |

Eight kinds in four shapes. A *replaced* value (directory token, Authentik's admin
password, OIDC client secret, Conjur's API key) is set on the server, tried, stored, or put back
(`ServerSets`, `Tries`, `PutBack`, `Stores`). OpenBao's secret ID is *issued* beside
the old one and the old one destroyed afterwards. A *key* on hosts (the worker's)
or on VMs (bootstrap) is added everywhere, tried, stored and only then dropped
(`AddsKey` … `DropsOld`, `Undoes`). The VM key's rotation passes over a VM that is off or refuses
every kept key (`OffAtAdd`, `Refuses`), and one whose environment is not deployed at that moment or is on
a remote KVM host (`Skips`). The *vault password* is kept in the history,
the vault re-encrypted and stored, then the password stored. What goes into the history before
it is cut to `Keep` differs (`Earlier`): the vault's takes the value in use out of the
earlier ones first, the VM key's does not, so a key may be in it twice. Every step has its
refusal, its lost answer, and the worker that dies after it. The checks
(`RecoversByRotation`, `AgentRecovers`, `RecoversKey`, `RecoversVault`) are what
`secret_health.py` does about a value that does not work.

### WindowsAdmins

| Variable | Code |
|---|---|
| `on` | the passwords the machines accept, for Administrator and `labape-admin2` |
| `stored`, `tried` | `environment/<id>/…` and `rotation-candidate/…` in the secret store |
| `pending`, `marks` | `windows_admin.pending` of a VM, and the markers in `labape-applied/` that a deploy brings back |
| `inventory` | the stored inventory's `ansible_password` |
| `deployed`, `job` | the environment's status, and the one job that runs with its targets and step |

A deploy is `DeployPrepares` (values where there are none, markers gone), `DeployRuns`
(each machine has it, has it and is unmarked, or has not), `Promote` for each mark, `DeployCollects`
after a success, and `DeployEnds` with the inventory. Each is a commit of its own, and the first one of a
deploy that ended well already has the environment deployed, since `_finish()` set its status before
(`runner.py:957`). A rotation or check needs a deployed environment whose inventory lists its
machines (`Listed`). A rotation keeps the new value as tried, sets it, signs in with new and
old to learn what happened, stores and clears each target, and writes the inventory
(for the domain before, for members after the store). A check adopts a tried value that
signs in; otherwise the pair's other account, or the domain's administrator, sets the stored
password again. `WorkerDies` can follow any step: recovery then fails the environment whatever
the job was, and only a redeploy makes it deployed again. A rotation or a check beats for no heartbeat, so a long
one can be failed in the same way while it goes on (`TakenForDead`).

### Environments

| Variable | Code |
|---|---|
| `status`, `spec` | `Environment.status` and the host of each group in `Environment.spec` |
| `holds` | `ip_allocations` |
| `workspace` | OpenTofu's state of an environment on a host: for each VM name unlisted, sound, or tainted (its create script failed) |
| `domain` | libvirt on a host: the VM of each name, whose it is, its tag and address |
| `job` | the environment's queued or running job and the parts it has done |
| `astray` | history: the hosts and names where an entry and its VM may have parted |

A group is one VM, all environments share their home, a request is one step (the
races between requests are `JobQueue`'s). A deploy runs at home first and then on the other
hosts, a destroy the other way round. An OpenTofu run is one step that gives each VM of the host
one of its `Outcomes`. A removal goes by name, but a tainted entry is dropped without it (`Rest`: OpenTofu
runs no destroy-time provisioner for it). A create keeps, replaces or refuses what has the name, by its tag
(`Creates`), and one that fails may leave nothing, what was there, or its own VM running (`Fails`). Either
may not be come to, and the run may be killed between the VM and its entry. The job's result is its first exit code that is not 0.
A move is `Migrate`, `MoveEnds` (tag, new host and the deploy it queues), or
`MoveStops` anywhere.

Three things make an entry and its VM part, and the code repairs none of them by itself: a move, a run that is
killed between the two, and the drop of a tainted entry whose VM runs on. They put the place, a host
and a name, into `astray` (a move the name on every host). The properties are about all other places,
in every environment and whatever happens beside them (`InStep`): an install that takes too long is in them as
long as its entry is tainted, and so is the redeploy that replaces it.

### Updates

| Variable | Code |
|---|---|
| `checkout`, `image`, `running` | the repository, the tags `labape:local` and `labape:previous`, and the version the containers run |
| `db` | the database's migration and what people and jobs wrote |
| `maintenance`, `stale` | the row, and an API copy that still says off |
| `dump`, `standby` | the backups of the updates, and `previous.json` |
| `agent`, `status` | the step of `labape-update.sh`, and `status.json` |
| `worker` | the worker between its read of maintenance and its claim, or with a job |
| `slipped`, `unnoticed` | history: what was written after the drain, and whether a command failed that nobody looks at |

An update is `Checks`, `MaintenanceOn`, `Drain`, `Backup`, `ReadsLayout`, `KeepsImage`, `Record`,
`Checkout`, `Build`, `Up`, `Health`; from `Checkout` on a failure goes to the rollback,
which is also a request: `Stops`, `ChecksBack`, `TagsBack`, `Restore`, `StartsAgain`,
`Healthy`. Where the script looks at a result, the failure is an ordinary branch; where
it does not, it counts as `Unnoticed`. A container upgrades an older layout and refuses a newer one.

### Templates

| Variable | Code |
|---|---|
| `image` | the `.qcow2` files of each host: which host made them, whether they are whole |
| `row`, `registered`, `listing` | `Template.present`; the versions of which the primary has a row at all, present or not, which is all `ensure_template` asks for; what `sync_remote` saw and has not written |
| `env`, `vm`, `deploy` | environments and the version of each part; their VMs; the deploy's part and step |
| `refresh`, `throwaway` | `template.refresh` jobs, and the versions under their own VMs |
| `delete` | `template.delete` jobs: queued, past the look at rows, past the look at VMs |
| `copy` | copies in `filedist.copy()`: their `.part`, or the file they already gave its name |
| `late`, `hurt` | history: parts a delete job could not know of; hosts on which a part of an image got its name, or a refresh cloned what a delete job was about to remove |

A version is the month it is made for. The worker's thread syncs one host after the other
(`SyncLists`, `SyncWrites`) and then schedules refreshes and retention, so neither falls
between the two steps of a sync. A refresh is the script's: clone, `vol-create-from` under the
final name, done, the copy to the primary. A deploy's part looks at the row, copies from
the primary when there is none, makes the disk and defines the VM. A copy writes a
`.part` and renames it: two writers of one name share that file, and a reader that dies
ends the writer's input like the end of the file would.

Two of its properties name what they leave out. `ImageStays` leaves out the parts in
`late`: those recorded (at home) or defined (away from home) after the delete job had
taken its last look, which no look can see; and the image with the name that a refresh is
still filling when it fails. `RetentionLeavesOne` leaves out a host in `hurt`: its newest
"version" is a part of an image, or a refresh cloned a version whose delete job had already
looked. These exceptions are real and are in the list below.
A refresh takes less than a month.

## Runs

| Run | Instance | Question |
|---|---|---|
| `queue_rows` | 1 environment, 2 workers, 2 handlers, 2 rows, 1 crash; deploys, moves, rotations | the races on the rows of one environment, and `EnvTurns` |
| `queue_hosts` | fair; 1 environment and the host's own jobs, 1 worker with 2 slots, 2 rows, 1 crash, maintenance once; an admin changes limit and enabled | the races on a host, and does everything end |
| `lease_rounds` | fair; 2 workers' rounds, 1 handler, 1 request, 4 jobs, 3 days | the order of the steps and their time, and does a lease that ends shut down |
| `agent_rotations` | 2 rotations of each secret, with and without the store, 2 failing commands, 1 power loss | where is each value when the agent is idle, and after a boot |
| `rotation_runs` | fair; 1 policy of the worker's and 1 of the agent's, 2 jobs, dates pass once, 2 requests, backups or power losses | is every outcome recorded, does an overdue run end, does more than one job come under the agent's restart |
| `platform_rotations` | fair; 8 kinds, 3 hosts, 4 rotations, 3 faults | is the stored value accepted, during and after |
| `admin_pairs` | fair; 2 members and a domain, 3 rotations, 2 faults | does something held always sign in, do the checks repair the rest |
| `environment_records` | 2 environments, 2 hosts, 2 VM names, 3 addresses, 3 jobs of which 1 moves | do records, addresses, workspaces and VMs stay in step where none of the three things happened |
| `stack_updates` | 4 versions in 3 layouts, 2 updates, 2 writes, 1 fault | is the stack one version, does a boot start, is anything lost |
| `template_versions` | 2 hosts, 1 environment over both, 2 versions of which 1 is kept, 2 events | do images stay under VMs, does retention leave one |
| `restore_fails`, `overwritten` | a small instance that shows the disagreement | one sentence of the documentation each |

Bounds of the queue. `MaxJobs` bounds the rows ever inserted: two jobs are what every
pairwise property of the queue needs. `MaxCrashes = 1`
lets a worker die at any step and another (or the same one, restarted) recover
its rows. Two handlers in flight are enough for every check-then-act pair; two
workers for every pair of claims. `Slots = 1` in `queue_rows` still has two threads
on one environment because there are two workers. Workers and handlers
are symmetric: no definition distinguishes them. Symmetry is not used in a run with
liveness.

Bounds of the lease. A default of one day, a grace of one and a clock that stops at three
let a lease end, its grace pass and a day remain; an extension moves the end
past that. Four jobs are a shutdown, a destroy, a request's job and one that a
second worker queues too; `LeaseEnds` does not ask for a fifth.

Bounds of the agent. The second rotation starts from whatever the first left, and a
second failing command can hit the way back from the first; `EndsWhole` and `BootsWhole`
speak of one failure, `SuccessIsKept` of any number. The three secrets and both places of
the files are initial states of one run. The second update of `stack_updates` meets the
first one's backup, image and record; its fault can hit either, or the rollback between them.

Bounds of the secrets. A rotation, its recovery (which is a rotation too) and one more
meet every state another leaves; with `Keep = 3` the fourth pushes the first key out of the
history, and up to two rotations may break off before. Three hosts are one before, one at and one after the failure. Two
members make a target of which a part succeeds.

Bounds of the environments. Two hosts and two names give an environment with a part
away from home and one whose names the other has too; three addresses are one fewer than two
environments of two VMs want. Three jobs are a deploy and a destroy of one environment, or a deploy that fails or is
killed and its redeploy, and a deploy of the other between any of their steps. The properties and `IInv` were
checked with four jobs too (2.0 million states); the proof has no bounds.

Bounds of the templates. Two versions with one kept is the smallest that retention acts on; the
two hosts are the primary and one that is not. Each event is a person's request, a failing
refresh, or a cut copy. The parts that matter to the image are of the first version, the one
retention deletes. The inductive invariant was checked on this instance (2.4 million states) and,
before the proof, on one host with 4 months of which 1 version is kept (0.7 million) and 5 of which 2
are (1.6 million): three months are what it takes for a refresh to clone a version that is
being deleted. The proof has no bounds.

`CHECK_DEADLOCK FALSE` stands where the system really stops once the bounds are used
up: everything is finished and nobody may ask for more. `admin_pairs` and the template
runs never stop (deploys and syncs go on) and do check for deadlock.

Fairness of the queue (`JobQueue!FairSpec`). The worker loop runs every second, so `ReadMaintenance`
and `Claim` are weakly fair; `RecoverStale` runs only between the other steps of the
same loop, which makes it strongly fair: it is enabled again and again while the
loop also claims. A killed container is restarted (`restart: always`). A
thread's own steps are weakly fair. That a script ends is an assumption: `_execute()` waits for it without a limit
of its own (`runner.py:752`), and what it runs has some but not everywhere. A waiting reboot gives up
after twelve hours. A handler that has read commits.
Two minutes pass for a row whose thread is gone. Nobody is obliged to queue,
cancel, change a host or end maintenance, and errors and crashes are never
obliged to happen.

Fairness of the lease (`Leases!FairSpec`). The worker loop calls `tick()` again and
again and each call ends, so each worker's round is weakly fair. A handler that has
read commits. A pending job ends, which is what `RunningEnds` and `QueuedStarts` say of
the queue. Days need not pass, since the property speaks of leases whose end has come.
Nobody has to ask for anything.

Fairness of the schedule (`Rotation!FairSpec`). The agent's path unit starts it for a
request that is there and each of its waits has a deadline; the worker's pass goes on; a
handler that looked goes on to write; a job that may be claimed is, and it ends. Power
losses, requests and the passing of dates are not obliged to happen.

Fairness of the secrets (`PlatformSecrets!FairSpec`, `WindowsAdmins!FairSpec`). A running
job goes on (weak). A check is queued again and again while a value is refused, but
only runs when no other job of the environment does, and of an administrator only while the environment is
deployed and listed, so it is strongly fair. Faults
are bounded: what is promised is a repair once they stop.

## Where the model and the documentation part

Two are runs whose property TLC refutes; `PROJECT.json` quotes the sentences.

* `restore_fails`: the backup is restored by `pg_restore --clean` in one transaction,
  which PostgreSQL refuses when a newer layout added a table with a foreign key to one
  that the backup replaces. The rollback to the version on standby then ends in
  "restoring failed" with the stack stopped.
* `overwritten`: a line that two hosts have is refreshed on both in the same night
  under one name. The other host's image replaces the primary's of that name, which
  VMs may already stand on.

The others are in the models and follow from what the code does. Each is either excluded from a
property by name or the reason that no property is stated.

Queue and execution:

* Two simultaneous requests queue two jobs for one environment, which "the API
  refuses" (`runner.py`); `claim()` still runs them one after the other.
* Two threads in one engine directory: a deploy that copies a large ISO for two minutes
  is failed by recovery, a retry is queued and claimed, and the first thread is still
  there. `SharedOnlyAfterLoss` says that this is the only way.
* A preview whose worker dies leaves its deployed environment `failed`, although a plan
  "changes nothing": recovery does not look at the type.
* Cancelling a queued deploy leaves the environment `deploying` with no job, and the
  page then offers no Destroy.
* A late thread's `_finish()` turns a row that recovery has failed into `succeeded`
  after the log stream announced the end (`runner.py:935`), and a cancel writes over a row
  that was claimed after it was read (`api/jobs.py:113`).
* A job can start just after maintenance began (`ReadMaintenance`, `Claim`), although the reading is
  meant to prevent it ("a stale "off" would start a job during maintenance", `runner.py:1109`). In `Updates`
  this is the late job whose writes a rollback loses, in `Rotation` the one job under the agent's restart.
* A reboot row that recovery fails while its thread goes on lets jobs start on a host that goes down.
* A move that is cut off after the migration leaves the VM on a host where the environment has no
  part (`engine/migrate.py:143`); a destroy then ends well without it, which
  `envdelete.py:29` ("destroy it first, so no VM is left behind") excludes. The deploy that
  such a move queues removes VMs by name on the hosts where the environment has no part any more, also
  one that another environment made there in the meantime.
* An ISO install that takes too long leaves its VM running "for inspection" and a tainted entry
  (`create-iso-direct.sh:86`). A destroy drops the entry without the provisioner that would remove the VM
  (`main.tf:237`), ends well, and the VM stays while its address is given to others. A redeploy replaces the
  entry and takes the VM for its own again.
* A run that is killed leaves a VM that no entry names, or an entry whose VM is gone (`existing-domain.sh:7`
  knows the first). A redeploy takes the running VM for its own, with the address it has; a destroy
  does not see it. Where the VM is gone, another environment can make one of that name, which the first
  one's next run removes by name.

These three, and the move that is cut off, are what `astray` leaves out of the properties of `Environments`.

Leases:

* The mark `destroy_job` stays when the destroy failed: once the environment is deployed
  again it is past its grace for ever and never destroyed.
* A round that read the row before an extension writes its marks after it. The extended
  lease counts as shut down already: at its end nothing is shut down, and after its grace the
  environment is destroyed.
* The grace counts from the end and not from the shutdown (`leases.py:154`): when the
  shutdown comes late, the destroy follows in the next round.

Agent, maintenance and schedule:

* When the new master key cannot be written to the store, the agent moves
  `secret_key.old` over `secret_key` and then re-wraps the data keys from
  `secret_key.old`, which is gone (`labape-update.sh:180`). They stay wrapped by the new key,
  which was overwritten, while the agent reports that the old one is back. The other
  failures in `Unrepaired`, and the windows in `Between`, are of the same kind.
* A power loss leaves `status.json` at running: the API then refuses every further
  request, and the policy that asked stays running.
* `busy()` and `write_request()` are apart: a second request replaces the first one's file
  and its outcome is lost. So is one whose report another request's replaces before the
  worker's next pass.
* The end of the agent's work, and `fail`, turn maintenance off whoever turned it on; an
  admin can end the agent's in the same way, and jobs then start under its restart. `WorksAlone` is about
  the maintenance that the agent still has.
* The API's copy of maintenance lives five seconds: what it accepts after an update's
  backup goes with an automatic rollback.
* The nightly purge can remove the backup that `previous.json` names.

Secrets:

* `_start` looks at one unfinished rotation only (`api/secrets.py:162`): two jobs can
  rotate one secret.
* A second rotation of an administrator overwrites the value that the first one tried. If the
  first one's worker died after the change, only the pair's other account is left.
* `rotate_ssh_key` puts the key in use into the history before the new one is stored
  (`engine_secrets.py:217`, `:218`). A rotation that breaks off between leaves it there twice,
  and after `KEEP` of them in a row it is also the oldest one, which the next rotation drops from
  the VMs (`vmaccess.py:111`) before it has a new key stored. `KeepsWorking` promises the VM key
  for fewer than `Keep` faults; TLC shows the loss at `Keep` faults.
* A rotation of the VM key leaves out environments that are not deployed at the moment, without a word
  (`vmaccess.py:115`), and reports but does not reach those on remote KVM hosts (`:120`). Their VMs keep the
  earlier keys, and after `KEEP` rotations refuse every kept one. `KeepsWorking` and `OldStays` are about the VMs
  that were not passed over.
* Recovery fails the environment of any job (`runner.py:129`). A worker that dies in a rotation or a check
  after a machine took its new password leaves an environment that checks and rotations refuse
  (`secret_health.py:355`, `rotation.py:354`), and a redeploy signs in with the password that is stored, which is the
  old one. `PairRecovers` is about environments that stay deployed.
* A worker that dies between the first commit of a deploy's end and the inventory leaves a
  deployed environment: after its first deploy the checks find no machines, after a later one Ansible goes
  on with what the inventory has.
* The vault and its password are stored one after the other (`engine_secrets.py:168`): a
  worker that dies between leaves a vault that no kept password opens.
  `secret_health.py:442` can only try the kept ones.

Templates and copies:

* `copy()` says that a file "appears under its name only once complete". A reader that fails
  ends the writer's input, `mv` names what came, and only then is the reader's result looked at
  (`filedist.py:158`, `:164`).
* Two copies of one template to one host share the `.part` file.
* The sync registers an image that a refresh is still filling; it is then deployed from, copied on and
  counted as the newest by retention. A refresh that fails takes it away.
* `users()` looks at an environment's home only; a part elsewhere is protected by its
  VM's backing chain alone, and by nothing before the VM is defined.
* A clone that is made between the delete job's look and its removal loses its image. When it is a
  refresh's, the refresh fails with it, and takes the new version's name away that the sync had
  counted as the newest: retention may by then have deleted every other one.
* `files.sync_templates` copies again what retention deleted on a host, as long as the primary has it.
* A monthly refresh that fails is not queued again before the next month.

## Proofs

`JobQueueProofs` proves, for all sets of environments, hosts, workers and
handlers and all bounds that satisfy `ConstantsAssumption` (the bounds are
naturals, the nulls are not members of their sets, every environment has a home):
`TypeOK`, `OneRunningPerEnv`, `RebootAlone`, `QueuedNotCancelled` and
`SharedOnlyAfterLoss` as invariants, and `LimitKept`, `HostMayStart` and `InOrder` as
properties of every step.

None of the invariants is inductive alone. `QueuedNotCancelled` needs to know what a
handler in flight will write: a request that saw its row `running` must not be
about a row that is queued now (`PendingRequest`). `RebootAlone` needs that only
a reboot waits or goes down, and that it names a host (`RebootRows`).
`SharedOnlyAfterLoss` needs that every live thread has a running row or one it
lost (`LiveRows`), and then follows from `OneRunningPerEnv`. That ids above the
newest have neither row nor thread (`AbsentRows`), and that stale rows are running
(`StaleRows`), is what lets an insertion and a recovery keep the others. `IInv` is
their conjunction; `Invariance` proves that it holds initially and that each action
keeps it, one step per action.

The step properties follow from one lemma, `StartsByClaim`: a row that goes from
queued to running does so in a claim, and everything else about the step is
then what `Runnable` says.

It also proves the refinement: initial states map to initial
states and every step maps to a `Submit`, a `Start`, an `End` of a set of jobs or a
stutter (`StepMaps`), under `IInv`.

`LeasesProofs` proves, for all sets of workers, handlers, reminders and extensions and
all numbers of days, requests and jobs that satisfy `LeaseAssumption`: `TypeOK` and
`DestroyAfterShutdown` as invariants and `InTime` of every step. `DestroyAfterShutdown` is not
inductive: what a round does was decided on its copy of the row, which may be days
old and describe a lease that was begun again since. So `StopMarks` says of the row and
of every copy that a stop mark stands for a shutdown job, and that a round on its way to
a destroy saw that job over; jobs are never removed, so both outlive any request. `AbsentJobs`
keeps the ids apart. `RoundsDecided` says that what a round decided was due at the
time it took, and that this time is not in the future: that gives `InTime`, through
`LeaseQueuesInRounds` (only a round's own steps queue a job of the lease).

`EnvironmentsProofs` proves, for any environments, hosts, VM names and finite set of
addresses and any number of jobs (`Home` is a host, `None` is none of the values it stands
beside): `TypeOK`, `AddressesAreHeld` and `DestroyedIsGone` as invariants and `OwnVmsOnly` of
every step. What has to be added is the agreement of four things that different programs
write, at every place that is not in `astray`: a VM is on the host its tag names and its workspace there lists it, a
sound entry has its VM, and what is listed the record has there (`ListedIsOurs`); a job's record has VMs and a move's VM is one of them (`JobsFit`); a
deploy, and what it made, has an address for each VM (`AddressesGiven`); and the parts a
destroy has done are gone while it goes well (`DestroyedParts`). An OpenTofu run is proved about once for
a deploy and a destroy: `OutcomeFits` takes one VM through each outcome that does not put its place
into `astray`, and `RunFits` the host's VMs together. The attempt corrected the model: the
properties had left out *environments* that moved, which is false beyond the bounds of the run, because
the deploy after a move that was cut off removes by name; they leave out places now.

`UpdatesProofs` proves, for any number of versions with layouts that do not go back, and any
updates, writes and faults: `TypeOK` and `BootStarts` as invariants, `EndsWhole` and `LosesNothing` of
every step. `IInv` has a part that holds whatever fails, power losses included (`AgentFits`: which step belongs to which
request, that nothing runs while the agent goes back, and that what runs has brought
the database to its layout) and a part that says nothing any more once a command failed unnoticed or a power loss
cut the agent off (`Sound`): what is on standby and what its backup holds (`StandsBy`), what is
running, tagged and checked out forward and back (`OnTheWay`, `OnTheWayBack`), and that the backup
lacks only what slipped in after the drain (`BackupHasAll`).

`PlatformSecretsProofs` proves, for any of the kinds, any list of different hosts and any `Keep`,
rotations and faults: `TypeOK`, `KeepsWorking` and `OldStays` as invariants. For the VM key both are about
the VMs that the rotation which stored it did not pass over (`missed`), whatever it passed them over for. Values are made in order
and the job's is newer than all others until it is stored (`InOrder`): what is removed or
undone is then never the stored one. No more values are made than rotations began and faults happened
(`Counted`), which bounds the values: a check only rotates a value that a fault left refused.
`Accepted` says where the new value is accepted before it is stored, per kind; `NothingFailed`
carries `OldStays` through the steps. The attempt corrected the model twice. The VM key's history
does not take the key in use out, as the model had it for both histories; and then `KeepsWorking` is
false after `Keep` rotations that break off (see the secrets above). `Copies` gives the bound: each
copy of the key in use stands at most as far down the history as rotations have failed. Two lemmas about
sequences (`RemoveFirstFits`, `NewestFits`) say what a history keeps.

`WindowsAdminsProofs` proves, for any finite set of members that the domain is not one of, and any
number of faults and rotations: `TypeOK` and `OneFaultIsSurvived` as invariants and `OnlyWhatItHas` of
every step. `Deploys` says what a deploy is giving while it gives it, that a listed member has
its own password, and what is true of each machine between the commits of a deploy's end; `Tried` and `InTransit` where the new value is between `StartRotation` and the last
store: on the target, as the job's, and still tried or stored already. `OneFaultIsSurvived` then is a count:
before the first fault both accounts are good (`BothGood`), after it one is (`OneGood`), and the one
in the middle of a change (`Changing`) counts as good, since the tried value is kept for it.
An account is good when what LABaPe holds signs in, and Administrator only together with the
inventory (`AbleIsGood`), because Ansible is what sets the other one's password. The values are the
smallest ones not held of the account; `Smallest` and `FreshFits` show that one is always left, which needs the
invariant: without it a member could hold one more (its pending one).

`RotationProofs` proves, for any two lists of different policies (`Nothing` is no request) and any
bounds: `TypeOK` and `WorksAlone` as invariants and `OutcomeLost` of every step. `TypeOK` needs that a request
finds an id nobody uses (`FreshFits`, a counting argument over the ids: only the agent's policies have one,
`StepsFit`), and the row a handover writes back to be one (`HandsOver`). `WorksAlone` is not
inductive, since maintenance outlives the request that turned it on: `Quiet` says of the agent's
maintenance at any time that at most one job runs, and none while the worker still has a reading to claim on, except while the agent waits for
them, after it gave up waiting, or in a rollback: a claim needs a reading, and a reading from after the switch says on. `OutcomeLost` goes through who carries a
request: the agent only hands it on (`AgentCarries`), people and the settling steps leave it alone
(`OthersCarry`), and what is written carries its own policy (`WrittenCarries`), so only a
request that was waiting can be the one that is lost.

Of `AgentSecrets`, the same module proves, for any number of rotations and failing commands: `SecretTypeOK`,
`EndsWhole` and `BootsWhole` as invariants and `SuccessIsKept` of every step. `SecretInv` says
where every value is at each command. Its first part holds whatever fails: going
forward the service has been changed (`Changed`), the `.old` copy is there until the files
are back (`KeptCopy`), and the agent that the power stopped never says that it ended
(`CutOff`). `SuccessIsKept` follows from `Changed`. Its second part holds as long as
at most one command failed and the failure or the power loss is not one of those
named (`Sound`): `OnTheWay` says what is old and what is new at each command forward,
`OnTheWayBack` the same on the way back, for each secret's own order, and `Dated` that
a value which is not the new one is older than it, which tells "the old one is back" from
success.

`TemplatesProofs` proves, for any hosts, environments, months and events and any number of versions kept:
`TypeOK` as an invariant, `ImageStays` and `RetentionLeavesOne` of every step. Each delete job decides on
what it saw, so the invariant says what stays true of it. `Seen` is for `ImageStays`: past the look at rows
no part at home that counts uses the version, past the look at the VMs no disk is over it. `OneKept` is for
`RetentionLeavesOne`: on a host that is not hurt, either a refresh's VM holds a version (`Holds`), or there is
nothing of the line at all (`Bare`), or the newest version the host's row, disk or pending listing knows of is
there and neither it nor a newer one is being deleted (`Newest`). `NamedIsWhole` makes that version a whole one;
`RefreshesFit` says that the version a refresh clones is older than the one it makes and held by its VM;
`CopiesFit`, `DeletesFit`, `DeploysFit` and `ImagesMade` tie copies, delete jobs, deploys and images to the jobs and
the month they belong to. The attempt corrected the model and one property. `RetentionLeavesOne` was false
with three months, one more than the run has: a refresh clones an old version after that one's delete job has
looked, the sync registers what it fills, retention deletes the version between, and the refresh fails. What a failing refresh
drops goes by name, also when another host's copy has that name meanwhile; two hosts' images mixed in one `.part` are
not whole; and `ensure_template` takes a version from the primary only when the primary has a row of it.

Only model-checked: everything that rests on fairness (`RunningEnds`, `QueuedStarts`,
`LeaseEnds`, `RotationEnds`, `RunEnds`, `Recovers`, `PairRecovers`), which is out of the provers' reach.
Every invariant and step property of the passing runs has a theorem.
`OneRunningPerEnv` is in no run and follows from `TakesTurns`, which
one checks; the modules' `IInv`, `QueuedNotCancelled`, `HostMayStart` and `InOrder` of the queue
are steps of the argument or conjuncts of `Runnable`.

## Not modelled

* Editing the spec of a deployed environment, address pools with reservations, capacity
  and quotas; environments with different homes in one model.
* `labape-rollback.sh`, which an admin runs by hand on the host, and the archive of the
  full stack backup.
* Of the secrets: a job of the environment that is claimed while `_finish()` still stores a deploy's passwords, after
  its first commit ended the job (`runner.py:957`); a redeploy beside a rotation that was taken for dead; VMs that
  a deploy makes with the earlier key while a rotation stores the new one. The VM key's private and public
  half are stored one after the other (`engine_secrets.py:218`) and are one step here.
* Linux administrators' passwords; certificates, mail and directory integrations; moving
  secrets from one store to another.
* Building templates with Packer, promoting a VM by hand, metadata files; templates and files
  of linked stacks.
* Downloads, uploads, hashes and moving the file store: their state is bytes on disks, and
  what of it is a protocol (copies, the primary) is in `Templates`.
* Users and permissions: every request of the models is one that is permitted.
* What scripts print, render or install: an external program succeeds, fails, or stops after
  any of its effects.
* Anything marked `not_modelled` in `PROJECT.json`, with its reason.
