# A formal model of VLM — Virtual Labs Management

TLA+ modules, TLC configurations and TLAPS proofs for the central server and
the vm-agent of VLM. Source paths below are relative to the repository root.

## 1. The system

VLM manages containerlab topologies ("labs") on a fleet of VMs. A **central**
server (FastAPI, one event loop, a few background threads) keeps users,
reservations and flags in JSON and SQLite files and calls, over HTTP, a
**vm-agent** on every VM. An agent serves each request in a thread of its own,
runs containerlab and talks to routers over SSH.

| Component | State | Operations | Interacts with |
|---|---|---|---|
| Reservation store, `central/src/services/reservations.py` | one JSON file, `vm::lab` -> entries, under one lock | reserve, update, cancel, extend, release, attach (prunes) | the reservation handlers; read by every lab handler, jump access and DNS |
| Reservation and sandbox handlers, `central/src/api/reservations_routes.py`, `lab_yaml_routes.py` | what a suspended handler remembers across its `await` | release with reset, sandbox apply, ... | store, sandbox flags, locks, agent |
| Sandbox flags and lab locks, `services/sandbox_labs.py`, `lab_locks.py` | two JSON files | toggle, mark modified | handlers |
| Agent calls, `services/collector.py` | none; httpx timeouts of 30 to 900 s | one function per agent route | every handler that needs an agent |
| Sandbox operations, `vm-agent/src/config_management_service.py` | topology file, baseline file, annotations, one lock per lab | apply, reset, admin update | `management/controller.py` (containerlab) |
| Background jobs, same file | three dictionaries of jobs and of cancel events, one thread per job | start, cancel, evict, run | routers, the directory of default configurations |
| Configuration dialogues, same file | none; router candidates | apply, clean up, merge, replace, retry, fall back | routers, over SSH |
| Users and groups, `services/auth.py` | one JSON file under one lock, reset links in memory | create, update, delete, passwords, membership | Linux accounts, every authorisation check |
| Linux accounts, `services/linux_accounts.py` | `/etc/passwd`, admin group, limits file | useradd, chpasswd, gpasswd, userdel | user handlers |
| State snapshot, `services/state_snapshot.py` | last snapshot, refresh flag, streaks per VM | refresh (coalesced), record transitions | agents, audit, jump access, DNS |
| Jump access, `services/jump_access.py` | the nft table | reconcile every 20 s and after reservations | snapshot, reservations, users, DNS |
| Local DNS, `services/local_dns.py` | a hosts file | reconcile | snapshot, reservations |
| VM registry, `api/routes.py` | `config.yaml`, the netplan file, applied routes | create, update, delete a VM | everything that looks an agent up |
| Provisioning, `services/provisioning.py` | 50 jobs in memory | start, run a deployment script | VM registry |
| Config-diff jobs, `api/routes.py`, `lab_runtime_routes.py` | 100 jobs in memory | start, poll (records an audit event once) | agents, audit |
| Lab requests, documentation, audit, metrics, capacity estimate, topology builder | JSON, PDF, SQLite or nothing | submit, approve, edit, append, compute | users, admins |

What is hard, and what would make each part correct:

* **Reservations.** Any order of bookings, moves, cancellations and extensions
  has to keep a lab exclusive to one user and a user within two labs at a time;
  start, end and rounded hours are changed together; boundaries are inclusive in
  one place and exclusive in another. A reservation can end by its owner's
  release or by running out, and only the first does anything about the lab.
* **Handlers.** Two of them wait for an agent for up to fifteen minutes and
  then act on what they checked before. Answers arrive after other handlers
  ran; calls time out while the agent goes on.
* **Sandbox operations.** Eight steps with a failure path each, under a lock that
  the admin's update, start and stop do not take, on files that a crash can tear.
  A deployment that fails may leave any part of the lab running. A baseline that
  once held a user's edit would make every later reset wrong.
* **Jobs.** Cancel, eviction and the end of a job cross under three locks; a
  set-default unlinks the old configurations before it writes the new ones.
* **Accounts.** Two stores without a transaction: any of five Linux commands
  can fail between two changes. Admins act on each other, and a request is let
  through in a worker thread before its handler runs, so that its actor may have
  lost the role by then.
* **Gateway** (snapshot, jump access, DNS). Snapshots are read before locks are
  taken; the nft table is deleted before it is loaded again.
* **VM registry.** Netplan file, kernel routes and `config.yaml` change one
  after the other, each with a rollback of its own.
* **Snapshot.** The background thread runs an event loop of its own; it and the
  handlers agree on who refreshes through a flag under a lock, and wait for
  each other with a limit on how long.
* **Following a job.** The central polls a dictionary of another machine, which
  evicts and restarts, and writes what it sees into the audit log.
* **Provisioning.** The script is a process; the thread that started it, and the
  dictionary that knows of it, can be gone before it ends; the vm can be given
  another id or address meanwhile.
* **Dialogues.** Routers refuse lines and commits and drop connections; the code
  retries, drops to another way of loading, does not always read the answer, and
  where it does its expressions miss some refusals.

`PROJECT.json` lists every hazard at its line with the properties that cover it.

## 2. Modules

| Module | Models |
|---|---|
| `Reservations` | the store; one action per public function, each a single step because it runs under `_RESERVATIONS_LOCK` and writes the file once |
| `OverlapSweep` | the event sweep that counts a user's simultaneous entries: the sort, and the loop with its two counters |
| `LabSession` | the handlers, on top of `Reservations`: flags, locks, suspended calls, the agent's operations and their answers |
| `SandboxAgent` | one lab on an agent: apply and reset step by step in request threads, the admin's update, start, stop, crash |
| `AtomicLab` | what the sandbox operations of one lab promise to those who call them; `SandboxAgent` implements it |
| `JobStore` | what a dictionary of jobs promises to whoever holds a job id |
| `AgentJobs` | the three job stores of the agent and the job threads on one lab; implements `JobStore` |
| `LabRuntime` | the central's handlers that start, poll and cancel jobs, its own dictionary of config-diff jobs and the audit log; composed with two instances of `JobStore` |
| `ConfigPush` | the dialogue with one router, by family: what goes to a candidate, what counts at once, which answers are read, what is tried after a failure |
| `StateSnapshot` | the refreshes of the snapshot by the background thread and by handlers, streaks and online state |
| `VmRegistry` | create, update and delete of a vm: netplan file, kernel routes and `config.yaml`, write by write |
| `Provisioning` | the central's provisioning jobs, their threads and their scripts; implements `JobStore` |
| `Gateway` | the nft table and the hosts file, the two loops and the handlers that reconcile them, on top of `Reservations` |
| `Accounts` | users, groups and Linux accounts |
| `ReservationsProofs` (with `OverlapSweep`), `LabSessionProofs`, `GatewayProofs`, `SandboxAgentProofs`, `StateSnapshotProofs` | theorems about the module of that name |
| `AgentJobsProofs` | theorems about `AgentJobs` and `ConfigPush`, what runs in a job's thread |
| `CentralJobsProofs` | theorems about `LabRuntime` and `Provisioning`, the jobs the central keeps or follows |
| `AdminProofs` | theorems about `Accounts` and `VmRegistry`, what admins change |
| `MC...` | constants and symmetry sets for TLC |

How code becomes actions:

* A function that runs under a lock from its first read to its last write is
  one action; its early returns and raised errors are the guards, and a call
  that raises changes nothing unless the model says otherwise.
* A handler of the central runs alone up to its `await`. `ReleaseWithReset`
  and `ApplySandbox` are the parts before it, `ResumeRelease` and
  `ResumeApply` those after, `Timeout` the httpx exception; in `LabRuntime`
  `AgentStart`, `AgentAnswerPoll` and `AgentCancel` are what the agent does for
  the call, `ResumeStart`, `ResumePoll` and `ResumeCancel` what the handler does
  with the answer.
* `th[t].pc` in `SandboxAgent`, `run[j].pc` in `AgentJobs` and `act[a].pc` in
  `StateSnapshot` are program counters of threads. A containerlab command or a
  dialogue with a router is one step with an outcome; `ConfigPush` opens the
  dialogue up.
* The handlers of the registry await nothing and cannot interleave. They are
  split at each write all the same (`op.pc` in `VmRegistry`), because each write
  can fail or be the last.
* `task[a].pc` in `Gateway` says where the loop of jump access, the event loop
  or the loop of local DNS is in a reconcile; reading the snapshot, reading the
  reservations, deleting the table, loading it and writing the hosts file are
  steps of their own. The handlers call it on the event loop, so `BookOrRelease`
  is enabled only when no other handler is in a reconcile.

How the modules fit together. `LabSession` and `Gateway` extend `Reservations`;
`LabSession` sees an agent operation as one step, and `SandboxAgent` says why it
may: it implements `AtomicLab`, in which an operation changes the lab at its
answer or not at all; a failed operation puts the topology file back
(`FailedEditWithdrawn`), whatever its deployments left running, and a reset that
answers ok leaves none of the users' edits (`ResetRemovesEdits`).
`LabRuntime` knows of the agent's jobs only what `JobStore` says, and `AgentJobs`
and `Provisioning` are shown to implement it. `Gateway` reads a snapshot that
`StateSnapshot` publishes; `StateSnapshot` reads the set of vms that
`VmRegistry` keeps.

An operator whose name ends in `Mutant` is a plausible bug in the definition
that follows it. `PROJECT.json` pairs each property with one; TLC finds the
property violated when the mutant takes the definition's place.

## 3. Runs

Passing:

| Run | Instance | What it shows |
|---|---|---|
| `reservations` | 2 users, 3 labs, 3 ids, bookings of 2 ticks, extensions to 4, hours rounded to 2 ticks, clock to 3; labs, users and ids symmetric | labs exclusive but for extensions, at most 2 labs at a time but for extensions, begun reservations kept, bookings displace only the owner's own, and the sweep finds the peak on every reachable set of entries |
| `session` | a user and an admin, 1 lab, 1 id, clock to 2, sandbox mode and lock toggled, calls time out while their operation goes on, rollbacks fail | an edited lab that the central has not lost track of carries the modified flag whenever nothing is in flight; a release that leaves nobody at work leaves the original; every suspended handler answers |
| `sandbox_agent` | 2 threads, 2 edits, 2 admin topologies, crashes, deployments that break and leave any part of the lab running | the baseline is never an edit and exists wherever one is; failed edits are withdrawn; resets remove edits; operations are atomic (`AtomicLab`); the lock is let go unless docker never answers |
| `agent_jobs` | 2 jobs of any kind, 2 routers, a store of 1, archives named by the second, crashes | the stores implement `JobStore`, cancels stop jobs, default configurations stay recoverable while no two archives have one name, jobs end |
| `lab_runtime` | 1 user with 2 handlers at a time, 2 jobs of any kind, dictionaries of 1, look-up of 2 events, logs of 3; diffs in which all, some or none of the routers are read | the end of a job that the audit log reports is what happened, and it is reported once |
| `config_push` | 2 jobs on a router of any family, 1 default line, 2 lines of users of which 1 in a submode, 1 line whose refusal the code does not recognise, 2 attempts | where the code searches the answers, ok means that the defaults are there and the users' lines gone, but for the unrecognised refusals; every push ends |
| `snapshot` | 1 vm that comes and goes, 2 handlers and the thread, thresholds 3 and 2, 1 failing refresh | refreshes exclude each other, transitions are earned, no empty answer without an excuse, handlers answer, the snapshot follows the registry |
| `vm_admin` | `VmRegistry` with 3 vms, subnets of which one contains another, a route of the host and 3 failures or restarts; or `Provisioning` with 4 jobs, 2 ids, 1 machine, a dictionary of 2, renames and restarts, jobs symmetric | subnets and routes never overlap; outside the subnets of operations that were cut short, netplan and kernel follow the registry; two scripts meet on one machine only under two ids, or if the dictionary lost or gave up a job of theirs; the dictionary implements `JobStore` |
| `gateway` | 2 users, 1 lab on 1 vm, 1 id, clock to 2, agents fall silent at any time, nft refuses loads, the hosts file cannot be written, 1 restart | no reconcile outlives a booking or a release; who is let in without a reservation is shut out once nft accepts loads and the agent answers; no handler is stuck on the lock; the hosts file follows a snapshot that stays once it can be written |
| `accounts` | the bootstrap admin and 2 names, 2 groups, 1 request at a time that was let through before its actor changed; at most 2 of groups, such requests and users out of step at a time | an active admin remains, groups are disjoint, drift from Linux is reported |

Violated, where the code disagrees with what the repository says of it:

| Run | Property | What TLC finds |
|---|---|---|
| `stale_release` | `ReleaseRemovesOwn` | u1 releases an edited lab; while the reset runs u1's reservation ends and u2's begins; the handler resumes and removes u2's |
| `expired_sandbox` | `ExpiryResets` | u1 edits a lab and its reservation runs out; the entry is pruned, the edit and its flag stay for as long as nobody books the lab |

**Why the bounds are enough.** Three labs and a limit of two is the smallest
instance where the simultaneity rule refuses something; three ids let two
entries meet on one lab while a third is elsewhere; a clock of 3 with bookings
of 2 contains touching, overlapping and nested slots, and an extension into the
next booking. `Grain` is the unit the code rounds extended hours to (four
decimals of an hour); with 2 ticks an extension of one is rounded either way. In
the other two instances of the store nothing depends on durations, and it is 1.
One lab is enough for the handlers, whose state is per lab, and
two users for one to act while the other waits; a clock of 2 lets a reservation
expire over an edit and another be released later. For the gateway one lab is
guarded, granted or left out; a clock of 2 lets a reservation expire, its end
being inclusive; a second restart would find the same files as the first. Two
threads give a holder of the lock and one that waits; two edits let one edit
replace another, two admin topologies let an admin's change differ from the
first. One place in the job store makes the second job evict the first.

In `lab_runtime` two handlers let one user poll twice at a time; the look-up
(`AuditLimit`, 200 in the code) is 2 and the log (`MaxEvents`) one longer, so that
an event can fall out of it. In `config_push` the second job stands for all others
that share a candidate; one default line is either there or not, and of the users'
lines one is reached by a delete of its parent and one is not. Which lines can be
refused without the code noticing (`unseen`) is fixed from the start, and
`OneUnseen` makes it one line, the default's or a user's: what a push leaves is
the union of what each line leaves. Two attempts are a first and a last one. In
`snapshot` the vms do not influence each other but through the sets they are in;
the thresholds (4 and 2 unless the environment sets others) differ, so that a swap
shows, and `MaxFailures` bounds the refreshes that raise. `vm_admin` runs two
modules that share nothing at this level; a behaviour has steps of one of them
only (`side`), which loses nothing because no property looks at both. In the
registry three vms can own a subnet, one inside it and one apart; three faults let
an apply fail, its rollback fail, and the central restart on what is left. The
provisioning dictionary has two places for four jobs: a job can be pushed out
while it runs, and its vm be given another. No guard asks for the machine behind
an id, so one machine is the instance in which most scripts can meet.

`MaxDrift` bounds how many users a failing command may leave out of step *at the
same time*, not how often commands fail, and `MaxLate` how many requests have been
let through and not handled at a time. One such request is enough for two admins
to act on each other: the other's request is handled at once. In `MCAccounts` the
constraint `Few` bounds both together with the groups: two late things, or two
groups, or one of each. `MaxAbandoned` bounds the operations that outlive their
callers at the same time; with one of them an edit can land after any later step.
All counters (`Horizon`, `MaxRestarts`, `MaxFailures`, `MaxFaults`, `MaxEvents`,
the finite id sets, `MaxDrift`, `MaxLate`) are bounds in guards; a bounded clock
only stops ticking.

**Deadlock.** `config_push` stops when every push is over, and says
`CHECK_DEADLOCK FALSE`. The others never stop.

**Fairness.** `FairSessionSpec`: an awaited call ends by the agent's answer or by
the httpx timeout every call carries, and the event loop resumes handlers that are
ready. `FairAgentSpec`: the thread that holds the sandbox lock goes on, because
every containerlab command carries a timeout (120 s, 600 s for a deployment).
Between `stop_lab` and the next deployment the code also runs `docker ps` and
`docker rm` under the lock, without a timeout
(`config_management_service.py:2612`, `:2653`). `LockIsFreed` has as its
hypothesis that docker does not keep the thread there (`InDocker`); without it the
lock can be held for ever. Nothing is assumed of threads that wait, of users or of
admins. `JobsSpec`: a job thread goes on, because each SSH dialogue has timeouts.
`FairPushSpec`: every wait for a prompt has a timeout. (Sending a line and copying
a file over SFTP have none of their own; that the connection's keeps them from
hanging is assumed.) `FairSnapSpec`: every await of a refresh has a timeout, the
thread wakes every three seconds, and a handler that waits gets to look at the
flag (strong fairness: it looks every 50 ms, and the thread leaves the flag down
for three seconds between two refreshes). `FairGatewaySpec`: the loops wake every
20 s, the steps of a reconcile end, a central without a snapshot gets one
(`collect_all` always returns), and a thread that asks for the jump lock again and
again gets it (strong fairness: the loop leaves the lock free for 20 s). `nft` and
the reload of the resolver are subprocesses without a timeout; that they end is
assumed. Loads and writes of the hosts file may fail for ever; what a property
needs of them is its hypothesis. No fairness is assumed of clocks, crashes,
restarts, cancels, failures, users or admins.

**Refinements.** Three runs check an abstract specification as a property:
`sandbox_agent` the lab behind the request threads (`LabIsAtomic`), `agent_jobs`
(`StoreSpec`) and `vm_admin` (`ProvisionStore`) the dictionary behind the threads.
All three are also proved, and so are two more: what the gateway's handlers,
reconciles and timer do to the reservations is a behaviour of `Reservations`
(`GatewayImplementsStore`), and what handlers, threads and restarts of
`LabRuntime` do to each of its two dictionaries is one of `JobStore`
(`RuntimeUsesStores`): the promise `AgentJobs` keeps is the one the central builds
on.

The mapping of `LabIsAtomic`: while the holder of the lock replaces the topology
(`Replacing`), the lab still has the one the thread would restore (`Settled`);
the file itself is visible only to what does not take the lock, a start or a
crash, and `Leftovers` says what these can find. An admin's update that lands
meanwhile counts when the operation succeeds, and is lost when the operation
fails or writes after it. What runs is promised only of an operation that
succeeds or reports its rollback as done; after another failure it may be any
part of what the operation met.

## 4. Proofs

Every safety property that a passing run checks is also a theorem, for all
values of the constants that satisfy the module's assumption. Some theorems
state what no run repeats: conjuncts of the inductive invariants
(`DurationsBounded`, `UniqueIds`, `LockInv`), and `HoldersLetIn`.

**`ReservationsProofs`**: `TypeCorrect`, `IdsStayUnique`,
`DurationsStayBounded`, `LabExclusiveButForExtension`, `BegunReservationsAreKept`,
`BookingsDisplaceOnlyOwn`. The inductive invariant joins the properties with
`ExtendedHaveBegun`: without it, moving a scheduled entry could carry an
extension, with its licence to overlap, elsewhere. `DurationsBounded` speaks of
the end and the hours of an entry: they agree until it is extended, and then may
differ by what rounding took off or added. `RemovalKeepsInv` covers all
steps that only drop entries, `AdditionKeepsInv` those that add or replace one.

`LimitHolds` is the limit of two labs at a time. The code counts entries, the
property labs; `LabsOfEntries` says that the labs of the entries of a user at an
instant are at most as many as the entries. `LimitInv` states the limit at every
instant of `Nat` (what the next booking can look at lies in the future) and needs
that the store is finite. `AdditionKeepsLimit` serves bookings and moves: the new
entry adds to the count inside its slot only, where `RoomForOneMore` has left a
place. Extended entries are left out, so `ExtendKeepsLimit` only has to see
one entry leave the count.

`SweepIsRight` and `SweepDecides` are about the loop that computes this count.
`RoomForOneMore` specifies what the loop is for; `SweepDecides` says that the loop
admits a booking exactly when it does, for every set of entries of a reachable
store and every slot, so that what is proved of `Reservations` is true of the
code with its loop. Induction over numbers is available without an operator
parameter as "a set of numbers has a least one" (`LeastNumber`), from which
`ReachesAll` is derived and used for whatever grows by one: the list that
`SetToSeq` makes of the events, and the counters of the loop (`LoopRuns`: the
recursive function exists). `SortedIsSorted` shows that the places Python's stable
sort gives to the events are a permutation (`PlacesDiffer`). After p events the
loop's counter is the number of entries whose start is among them and whose end
is not (`Open`, `LoopCounts`). Just after the last event that is not later than t
these are the entries in force at t (`OpenAt`), and wherever the counter reaches
its highest value there is such a t (`OpenIsInForce`); this is where it matters
that an end sorts before a start of the same time. `LoopFindsPeak` puts the two
together.

**`LabSessionProofs`**: `SessionKeepsLabsExclusive`, from the lemma
`SessionRunsStore`: each step of a handler is one of the store or leaves it alone.

`FlagsCoverEdits`: an edited lab of which the central has not lost track carries
its flag. That holds only when nothing is in flight, and is far from inductive.
`SessionInv` adds `Waiting` (an accepted operation, and an answer not yet handled,
belongs to the one handler that waits for it, or its caller gave up and the lab is
in `lost`) and `EditsRemembered`: an edit that is deployed has its flag *due*.
`Due(s, m)` is the flag a lab will have once the answers `s` are handled in their
order, from flag `m`; `DueAppend` and `DueTail` say what the agent's next answer
and the resumption of a handler do to it. An apply that fails sets no flag; what
it leaves deployed was remembered already or puts the lab into `lost`
(`AgentFails`). With no answer left the flag due is the flag there is
(`DueNothing`).

`ReleasesLeaveOriginal` rests on the same invariant and on `HowEntriesLeave`:
the entry of an active reservation leaves the store, none joining it, only by a
release without a reset or when a handler resumes after a reset that worked; no
booking, move, cancellation, extension or prune does it. The theorem says nothing
of a reservation that runs out: that one resets nothing (`ExpiryResets`).

**`GatewayProofs`**: `TableStaysCurrent`, `LockHolderIsInside`,
`GatewayImplementsStore`, `HoldersAreLetIn`. A load makes the
table what a thread computed earlier, so `TableIsCurrent` needs that the rules
about to be loaded are current too (`RulesCurrent`), or that the handler which
made them old waits for the lock behind them. `PruneKeepsHolders`,
`CancelKeepsHolders`, `MoveKeepsHolders` and `ExtensionKeepsHolders` say which
operations of the store may do without a reconcile: those that leave the holder
of every lab. `ReadInThePast` keeps an old table from being taken for a current
one when the clock moves, `NothingLoaded` covers a handler that finds no
snapshot and skips its reconcile. `HoldersAreLetIn` joins this with the store's
exclusivity: the table has one user per lab, and of those who hold the lab it
shuts out only one whose reservation was extended into the next or ends now.

**`SandboxAgentProofs`**: `AgentTypeCorrect`, `BaselineStaysClean`,
`EditsCanBeReset`, `FailedEditsWithdrawn`, `ResetsRemoveEdits`,
`OperationsAreAtomic`. "The baseline is no edit" is not inductive: copying the
file to the baseline is harmless only because a file that holds an edit implies
that a baseline exists (`EditsHaveBaseline`), and that needs what each thread
knows at each program counter (`LocalInv`): past `_ensure_sandbox_baseline` there
is a baseline, beyond the queue a thread holds the lock, what a reset is about to
write is no edit, and at the rollback the failed edit is out of the file.
`HolderKeepsInv` reduces a step of the lock's holder to its own part of the
invariant, and `OthersWait` says why the other threads' parts are untouched. What
runs is used of answers `ok` and `restored` only: any deployment that fails may
leave any part of what was there (`Broken`). The action properties follow from
`HowAnswered`, the list of ways an operation answers. For `OperationsAreAtomic`,
`FileInv` says what the file can hold while a thread replaces it: before the write
what the thread has read, afterwards what it was asked for, or what an admin has
saved since. Each action has a lemma that names the step of `AtomicLab` it is;
most are none (`QuietStep`), or change only what runs (`StaysUp`, `BrokenIsUp`).

**`AgentJobsProofs`**: `JobsInvHolds`, `JobsImplementStore`, `FinalAnswersStay`,
`CancelStops`, `DefaultsKept`. That a job keeps its final status needs
`OpenWhileRunning` (a thread that goes on has an open job, so it ends the job
once) and that an ended job is asked for a cancel at most. That only a cancel
makes a job cancelled needs `CancelRecorded`: an event that is set belongs to a
job whose record says so, although record and event are written under two
locks. `CancelStops` needs more: that an id has one place in one dictionary
(`OnePlace`), and that a thread reads the same event the cancel sets as long as
the job is there (`EventKept`). `DefaultsKept` is about steps: a complete set,
in place with nobody about to unlink it or in an archive, stays so. Archives
are named by the second and opened for writing, so the property excuses a lab of
which two archives got one name ("lost"). `ArchivesInv` says that a job archives
once, `StepAndArchives` what each step does to the files and the archives.
`FinalAnswersStay` is a consequence of the abstract module, stated of the
detailed one.

Of `ConfigPush`: `OkIsEarned` and `CleanupsClean`. `Target` is where the lines
that a push types go, the candidate or the running configuration, and `Left` the
users' lines that a clean-up may leave: submodes on IOS, and lines of `unseen`,
whose refusal the code's expressions do not recognise. `OkMeansApplied` promises
the lines of the defaults outside `unseen`, `CleanupRemovesExtras` that no line
outside `Left` stays. `PushSound` says of each point of a push which users' lines
are left in the target and what its commit will bring. A candidate is shared, so a
commit brings what others loaded and discards what they deleted; `OkMeansApplied`
therefore speaks of pushes that are alone, replace the whole configuration or type
into the running one. `CleanupRemovesExtras` does not have to: pushes load lines
of the defaults only, no users' line is in a candidate without being in force (the
second conjunct of `PushInv`), and so nobody brings back what a clean-up removed.

**`CentralJobsProofs`**, of `LabRuntime`: `AuditTellsTheTruth`, `AuditEndsOnce`,
`RuntimeUsesStores`. `RuntimeInv` follows a job from its thread to the log:
`JobSound` ties the record in the dictionary to the thread and what it achieved,
`CallSound` the answer that a handler holds to the job, `EndSound` each end in the
log to the job it names. The last two stay true while others act because the
kind of a job and what it achieved do not change once known (`Lasting`).
`EndRecordedOnce` is inductive with that: the handler reads the newest
`AuditLimit` events and records its own without an await in between, so two
equal ends have that many events between them (`LogGrows`).

Of `Provisioning`: `OneDeploy`, `ProvisioningImplementsStore`. Two active jobs of
the dictionary were asked for under different ids (`Apart`), which says nothing
about their machines, and a script that runs belongs to a job that runs, failed or
is lost (`ScriptStates`).

**`StateSnapshotProofs`**: `RefreshesAreExclusive`, `EmptyAnswersExcused`,
`TransitionsEarned`. The flag alone says that refreshes exclude each other. An
empty answer is excused because of `Awaited`: whoever waits for a first snapshot
without an excuse waits for a refresh that can still publish. For the
transitions, `Streaks` ties each counter to the answers it counts: the newest
answers of a vm, as many as its streak, are all equal, for every vm and through
its removal; `Longer` says that one more equal answer makes it longer.

**`AdminProofs`**, of `Accounts`: `AnAdminRemains`, `GroupsStayApart`,
`DriftGetsReported`. `AccountsInv`, the type invariant with the three properties,
is inductive. `AnAdminRemains` rests on one thing alone: `update_user` and
`delete_user` look for another active admin in the store they are about to
write. The actor is of no help, for a request that waited (`late`) may be that of
a user who is no admin any more, or deleted. `MovedToKeepsGroups` says that a user
is taken out of every group before entering one.

Of `VmRegistry`: `SubnetsStayApart`, `RoutesFollow`. An operation carries
the netplan it found and the one it means to write. `Plan` says what these two
are worth, `Progress` which of them the file holds at each point of the
operation or its rollback, `Settled` that subnets nobody touches have their
routes all along. `Begins`, `Advance`, `Ends`, `ToUndo` and `LeftBehind` are the
five ways a step can change an operation; each action is one of them.
`OwnerDecides` is why disjoint subnets matter: the route of a subnet is a
function of the registry only when one vm owns it.

**Assumptions.** `LimitsAssumption`, `SessionAssumption`, `GatewayAssumption`,
`AgentAssumption`, `JobsAssumption`, `PushAssumption`, `RuntimeAssumption`,
`ProvisionAssumption`, `SnapshotAssumption`, `AccountsAssumption` and
`RegistryAssumption`, each in its module and evaluated by TLC. They are about
types and distinct model values, except: the longest total reservation is a
multiple of the unit durations are rounded to (`LimitsAssumption`: hours with four
decimals); routers are numbers, of which a finite set has a least one
(`JobsAssumption`: the inventory is a list); a vm that was reachable is not
declared offline by a single failed poll (`OfflineAfter` is at least 2, as the
code's `max(2, ...)`); and subnets overlap themselves and symmetrically
(`RegistryAssumption`).

The type invariants are conjuncts of the proved invariants and are not run
separately.

**Only model-checked.** The liveness properties (`EveryCallReturns`,
`ExpiryIsEnforced`, `HandlersReturn`, `HostsFollowSnapshot`, `LockIsFreed`,
`JobsFinish`, `RequestsReturn`, `SnapshotCatchesUp`, `PushesEnd`): fairness and
ENABLED are out of the prover's reach. `ReleaseRemovesOwn` and `ExpiryResets` are
violated.

## 5. Findings and limits of what the passing runs say

`stale_release` and `expired_sandbox` are disagreements with the repository's own
words. `ReleaseRemovesOwn` leaves out the case of several active entries; see the
plan. `ExpiryResets` is what `README.md:18` (and, for the nodes, `:12`) says of the
end of a reservation; only a release resets a lab, so that an edit outlives a
reservation that runs out.

Two more places where the code does less than the words say, without a run:

* `README.md:15` says that only users who reserved a lab get access. The table
  accepts established connections, so a session opened before the end of a
  reservation goes on after it. `Gateway` models new connections, and
  `ExpiryIsEnforced` says when those are refused.
* The docstring of `extend_reservation` limits the total duration. The limit is
  compared with the stored hours, which each extension rounds to four decimals,
  while the end moves by the exact amount: extensions of less than half a unit
  leave the hours as they were. `DurationsBounded` therefore bounds the end by the
  hours only until the first extension.

Behaviours of the code that the models have and that shape the properties:

* An extension looks at no other entry. It can run into the next reservation of
  another user or bring its owner to three labs. `OverlapOnlyByExtension` and
  `SimultaneousLimitUnlessExtended` say that nothing else does.
* The sweep counts entries, so two entries of one lab that overlap after an
  extension count twice; this refuses bookings that the rule allows and admits
  none that it forbids.
* A reservation that runs out is pruned and its edit stays deployed until the
  next release of the lab; its flag stays too (`FlagCoversEdits`), so the next
  release resets it, whoever's it is.
* The central loses track of a lab's edit in three ways: it stops waiting for an
  apply, which is deployed later without its flag; the admin turns sandbox mode
  off, which drops the flag of an edited lab and leaves that of an apply under
  way without a reader; and an apply fails on a lab that was original and its
  rollback fails too ("rollback incomplet"), so that the edit may run although the
  answer set no flag. Such labs are in the history variable `lost`, until a reset
  that no other edit can follow. `FlagCoversEdits` and `ReleaseLeavesOriginal` say
  that there is no fourth way.
* `SandboxAgent` lets a command fail or time out at every step, a deployment leave
  any part of the lab running, and a crash cut any write short; other than by a
  crash, and but for the annotations, a write of a file does not fail. An update
  of an admin that lands during an apply or a reset is overwritten, or replaces
  the edit that is then reported as applied (`AtomicLab`, `Succeed`). An admin's
  update whose annotations fail writes back the text it read before; that a
  request replaced the file in between is not modelled.
* The baseline is taken once. An admin's later topology is overwritten by it at
  the next reset; `BaselineNeverEdit` says only that it is no user's edit.
* In `SandboxAgent` an exception from the annotations leaves the lab destroyed
  (the topology is written back, nothing is redeployed), and a torn baseline is
  deployed by every later reset.
* A set-default job has its final status before its `ok`. A poll in between reads
  a completed job that is not ok, and the audit log gets an error for a job that
  did its work; `OutcomesAreTrue` names this case.
* A configuration diff is ok as soon as it has one report, and a router that could
  not be read has one too. `OutcomesAreTrue` says of an ok diff only that it has
  reports; what the reports say the audit log does not tell.
* Dictionaries evict running jobs. Evicted jobs go on, cannot be cancelled, and
  answer "absent"; `EndRecordedOnce` and `OneDeployPerVm` say what is left.
  `JobsFinish` also excuses threads that die in their set-up: nothing reports them.
* `start_provision_job` compares ids. A vm renamed while its script runs, or
  registered twice with one address, can get a second script on the same machine;
  `OneDeployPerVm` names this case.
* A clean-up that fails with an exception is followed by a merge, which reports ok
  with the users' lines still there. SR OS, SR Linux, IOS-XR and Junos merges do
  not read every answer and can report ok for a part; `OkMeansApplied` leaves them
  out. Where answers are searched, the expressions miss some: in a Junos clean-up
  `\berror:\b` matches no message in which a space follows the colon, nor does it
  "syntax error"; for IOS and EOS some "% ..." answers are not in the list.
  `unseen` is any set of lines whose refusals look like that. Two jobs share the
  candidate of a Junos router, and each commits what the other loaded.
* `admin_delete_vm` has no rollback. `RoutesFollowRegistry` leaves out the subnets
  of an operation that failed half-way (`suspect`) until one on them succeeds,
  and everything after a file was truncated by a failing write. The id of a
  deleted vm is given to the next, with its reservations, flags and streaks.
* `fetch_agent_state` reports an agent that does not answer with no labs, and the
  nft table guards the routers of the snapshot only: an agent silent for one
  poll opens its routers to every user. `TableIsCurrent` speaks of the labs in the
  table; it says nothing of the window between deleting and loading the table,
  of a table that nft refused, nor of the up to 20 s after an expiry. For all
  four `ExpiryIsEnforced` says that whoever is let in without a reservation is
  refused in the end, provided nft accepts loads and the agent answers from some
  time on.
* A hosts file that could not be written is written by the next pass, which
  compares its text. If the write worked and the reload of the resolver failed,
  later passes find nothing to do and the resolver keeps the old names;
  `HostsFollowSnapshot` is about the file.
* In `Gateway` a scheduled reservation is not moved to the present microsecond:
  the code would admit it (`requested_start < now` is refused) and would begin
  the reservation without a reconcile, up to 20 s before the loop's.
* The Linux account of a user is deleted before `delete_user` decides. A refused
  deletion leaves a user without one; `DriftIsReported` says that the request
  answers an error.
* The first account, the bootstrap admin's, is never given a Linux account;
  `DriftIsReported` starts with it as a known difference. The property is kept per
  user and per aspect (role, password): a later success settles an aspect, not the
  user.
* Two set-default jobs that open their archives in one second write to one file
  and the first archive is gone. `DefaultsRecoverable` holds until that happens.
* Reservations are inclusive at their end and overlap is strict:
  `OverlapOnlyByExtension` does not count the instant at which one reservation
  ends and the next begins, at which both users are active.

## 6. Not modelled

`PROJECT.json` gives a reason for each component. In short: login, sessions and
lab requests (one step on one record each); reset links (`Accounts` lets anybody
hold a link for any user instead); validation of topologies (a refusal in
`SandboxAgent`), configuration diffs and text normalisation (outcomes); the
capacity estimate (either answer in `LabSession`); metrics, statistics and
documentation (append-only or single writes); what a deployment script does on a
vm; the web interface.

## 7. Plan

1. The order of the entry list in `Reservations`, to sharpen
   `ReleaseRemovesOwn` where several entries are active.
2. The agent part of `LabSession` as an implementation of `AtomicLab`; that needs
   operations with an identity that survives the timeout of their caller.
3. `Gateway` over `StateSnapshot`: its `Refresh` as the publication of a snapshot.
4. Proofs of the refinements of items 2 and 3, once they are stated.
5. The password reset links of `Accounts`, and what a new user with an old name
   inherits.
6. Established connections in `Gateway`, to state what `README.md:15` says of
   sessions, and the reload of the resolver as a step of its own.
