# TLA+ models of nix-packages' tools

This directory holds TLA+ models of the programs under `src/tools/`, the TLC
configurations that check them on small instances, and proofs for TLAPS.
`PROJECT.json` names, for each definition, the source lines it stands for.

The repository packages software with Nix and ships its own tools. Most of the
core logic, and nearly all of the concurrent and persistent state, is in
`tools/nix-deploy` (the program `nixfleet`, also installed as `deploy`,
`runners` and `k8s-node-power`): it deploys and reboots a fleet of machines from
any of several controllers. That is where the models start.

## Inventory

| Component | State it keeps | Operations and interactions |
| --- | --- | --- |
| **Shared reservations** (`coordination.go`, `reservations.go`) | one directory per host on the operator host (the authority), with an owner token and metadata | a run acquires every member of a group in one script, updates, releases or retains; an operator lists and releases after inspecting the controller and the members over ssh |
| **Deploy run and serial rollout** (`deploy.go`, `fleet.go`, `serial.go`, `activate.go`, `build.go`, `preflight.go`) | the phase of one run, each target's report, its position in a group | preflight, evaluation, plan, build, switches (at once, asking, in turn), gates, Home Manager, exit |
| **Failed-activation record** (`state.go`, `build.go`) | a JSON file of unfinished activations on each controller, its lock, one lock per target | `plan` reads it, `begin` adds before an activation, `finish` removes after |
| **Fleet reboot** (`reboot.go`, `power.go`, `bootcheck`) | groups and turns, node marks, boot IDs | stops runners, reboots, waits, verifies; this machine last |
| **Runner stop records** (`runner_resume.go`) | `/run/nixfleet-reboot-runners` on the host, the host's flock | stop script, start script, `runners resume` |
| **Runner restarts** (`runners.go`, `status.go`) | the restart unit of each host and its record | reads hosts, plans, starts the unit or joins a start, group members in turn |
| **Kubernetes node maintenance** (`k8snode/`) | cordon, fence agent, rebuild limit, volumes | preflight, cordon, drain, power action, return, uncordon |
| **Capacity and placement** (`k8snode/capacity.go`, `placement.go`) | none | an estimate over API objects |
| **Run record, prune, triage** (`runrecord.go`, `triage*.go`) | run directories with a lock each | written by runs, read by triage, pruned by later runs |
| **gh-app** (`token.go`, `register.go`) | token cache file and its flock; one registration callback | mint, list, register |
| **credential-approval** and **deck consent** | a spool of request, response and rejected files | a waiting command and a web page that answers |
| **deck** (`deck.go`, `summary.go`, `backlog*.go`) | published facts and groupings, a queue of summaries and one of verdicts, a call budget, a cache file | loops, jobs and requests behind mutexes |
| **revkit** (`store.go`, `file.go`, `remember.go`, `reporeview.go`, `resume.go`) | a store of findings, run directories, locks | reviews, matching, resuming, filing findings as issues |
| **sopsstore, forgejo-deploy-key** | an encrypted file, a registration, the forge's keys | provision, register, with callbacks and a timeout |
| **forge-mirror** | a repository at two forges, a checkout's remotes | create, convert, recreate, mirror, sync, pull |
| **devlog** | daily and weekly files in a git checkout | daily, catch-up, weekly |
| **desk** | a remote host's displays | a session over ssh with several routes; off |
| **wcap** | a state file, a sink, a recorder, a loopback | start, stop, monitor |
| **forgejo-runner-orphan-check** | none | two listings of containers, two lookups of tasks |
| **workspace-sync, zfs-auto-unlock, guards, CI scripts, packages, inventory parsing, gh-app routing** | little or none | sequential commands around other programs |

What is hard in each, and what makes it correct:

- *Reservations*: acquisition by two controllers at once, acknowledgements lost
  or late, controllers that die while the commands they started go on,
  releases decided on what an earlier probe saw. Correct when activation work is
  always covered by its own run's complete reservation, and when a reservation
  left behind can be given back.
- *Rollout and deploy run*: a rollout follows another that ended badly; steps of a
  run fail one by one. Correct when a group never loses a second member, when a run
  that says it succeeded left nothing undone, and when what the next plan skips
  needs nothing.
- *Failed activations*: concurrent runs, and an end of the run, an interrupt or
  a power loss between any two steps. Correct when a host whose activation was
  not carried through is never called unchanged.
- *Runner stop records*: ssh connections that drop while scripts go on, reboot
  commands of unknown outcome, hosts that go down at any time, two reboot
  runs and a resume on one host. Correct when no stopped runner is forgotten,
  and none is started just before a reboot.
- *Node maintenance*: gates that look and then act, patches that take effect and
  are reported failed, an interrupt at any step, an agent whose last heartbeat is
  old. Correct when a node is taken down only while the others can carry its work, and
  when what was switched off for it is switched on again or named.
- *Fleet reboot*: groups side by side, marks that outlive a killed run, hosts the
  inventory does not list. Correct when no two nodes are down at once.
- *Run record*: runs that prune what others write and triage reads. Correct when a
  prune spares the newest and the running, and triage compares with what was deployed.
- *Capacity*: a bounded search whose failure to find is not a proof. Correct when
  both of its answers are.
- *Approval spool*: an answer racing the deadline, two processes writing one
  directory, a sweep of what a killed process left.
- *Token cache, summary and verdict queues, thread summaries*: a cached value read
  before a lock and written after it, a budget shared by concurrent jobs, a request
  made while a job is at work. Correct when nothing moves back and no request is dropped.
- *revkit*: a lost response to a request that created something, a review resumed
  beside another. Correct when a problem is one finding and one issue.
- *forge-mirror, devlog, desk, wcap*: one of several steps fails, or the command
  dies between two. Correct when no commit, entry or recording is lost and the
  person is told what was left.
- *Orphan check*: the world changes between its readings. Correct when what it names
  is an orphan and what it clears is not.

`PROJECT.json` lists these hazards one by one, each at its line.

## Modules

| Module | What it is |
| --- | --- |
| `ActivationLock` | what the reservations promise, abstractly |
| `Reservations` | reservations and serial rollouts, in detail; implements `ActivationLock` |
| `FailedActivations` | the record of unfinished activations and the runs that use it |
| `RunnerStops` | runner stop records around a reboot, and `runners resume` |
| `NodeMaintenance` | reboot, power off and power on of a Kubernetes node behind its gates |
| `FleetReboot` | a fleet reboot: decisions, marks, groups, turns |
| `RunnerRestart` | `runners restart` |
| `DeployRun` | a deploy run from preflight to exit, and the step triage names |
| `RunRecord` | the run record, its pruning, triage's choice of a baseline |
| `Capacity` | whether the Pods of a drain fit elsewhere |
| `ApprovalSpool`, `TokenCache`, `KeyProvisioning` | the credential tools |
| `SummaryQueue`, `ThreadSummary`, `VerdictQueue` | deck |
| `FindingsFiling`, `ReviewRun` | revkit |
| `ForgeMirror`, `Devlog`, `OrphanCheck`, `DeskSession`, `Recording` | one tool each |
| `MC...` | the instances TLC checks |
| `...Proofs` | theorems |

In each module the parameters are CONSTANTS, with a named ASSUME where a proof
needs one, and each operation of the code is one action. In `Reservations`,
`FailedActivations` and `RunnerStops`, `Faults` selects what may go wrong: a
configuration names the faults it admits, and a theorem the faults it excludes.
An operator under a comment that begins with "Mutant" is a plausible wrong
version of the definition after it. No specification uses it; it serves to see
that a property would notice.

`MCFleetOperations` and `MCTools` check several modules in one run. `which` says
whose behaviour it is; the other modules' variables stay at 0, or are shared (in
`MCTools` each module's variables are `v1`, `v2`, ... in the order of its `vars`).
A property of the run is the conjunction of the modules' properties, each under
its `which`. The modules do not interact, so nothing is lost.

### Reservations

`held` and `meta` are the reservation directories on the authority. `ctl[i].pc`
follows run `i` through `switchGroup` and `switchHost`: reserve, precheck,
begin, start (the metadata says "started" before any work), activate, result,
gate, finish. `front[i]` is the rebuild frontend on the controller (a process in
a group of its own), `target[i]` the activation on the target, which may outlive
the command behind it. `late` holds authority calls whose caller gave up: they
may still take effect, at any time. `op` is an operator's `reservations release`:
list, controller state, probes of members and controller, removal with the
owner rechecked under the authority's flock.

Every authority call is one script under one flock, so it is one action, with
its acknowledgement received or lost. The exception is an acquisition whose
shell dies: `TornAcquire` leaves any prefix of the directories, the last perhaps
without an owner. Inspections are not atomic: each host probed is a step.
A confirmation (`--confirm-stopped`) is the operator's own knowledge, and is
assumed to be true when it is given.

`ActivationLock` is the promise: a run works only while it owns its whole
group, hosts are taken when free, and given up when their owner is idle.

### FailedActivations

A job is one activation of one target in one run: plan (`ReadLinks`, then the
record), `Hold` (the target's lock), `begin` (read under the record's lock,
save, sync), the activation on the host, `finish` (read, save, sync), and the
unlocking. `record` is the file other processes read, `disk` what a power loss
leaves of it: the rename changes `record`, the directory sync copies it to `disk`.
`link` is the generation the host's links name, `whole` whether its activation
was carried through. `Kill` ends a run at any point; the kernel drops its locks.

A job that has ended may start again as a later run's (`NewRun`), so sequences of
runs of any length are covered by a fixed number of jobs.

### RunnerStops

`script` holds the stop and start scripts sent to the host: waiting for the
flock, running under it, and what is left for the caller to read. A script may go
on without its client. `record` is the stop record, `unit` what systemd says,
`stopped` the units a stop script stopped in this boot that were not started
again: a ghost variable, kept for the properties. `run[i].pc` follows
`hostReboot.run` and `rebootPlain`; `cmd[i]` is the reboot command, sent, or
already running on the host. `GoesDown` ends every script, lock and record of the
boot, since `/run` is a tmpfs. `res` is a `runners resume` command, which reserves
the host through the shared reservations, here reduced to `reserved`.

A unit that is `Failed` is one that the report shows neither active nor plainly stopped:
it failed, is about to be restarted, or a gate holds it back. One such unit bars the start
of all that are recorded with it (`Barred`, runner_resume.go:171-183), and one that the loop comes
to ends the script (189-194). A stop may end so, and a start; only a person (`Mended`, or
whoever starts the unit) or a new boot changes it.

Not in this model: a reboot through `rebootNode` (Kubernetes) and of the
controller's own host, the ready gates, and the reads of `verify`. An inspection
by `runners resume` either sees the controller's work or does not exist; one
that is inconclusive refuses, like one that is busy. A reboot command or a
script that did not reach the host is gone with its ssh client. A release with
`--confirm-stopped` is left to `Reservations`.

### NodeMaintenance

`op[o].at` follows one `Operation`: preflight, cordon, fence agent, rebuild limit,
drain, detach, power action, return, and the restoring in reverse. The cluster is
which nodes are up and cordoned, where Pods, volumes and the database primary are,
which agents run and when they last published. A gate passes only if its condition
holds, and may give up at any time, which stands for its deadline, a failed read
and what is not modelled. A command may take effect and be reported failed. An
interrupt makes the step in progress fail.

Assumed: one command per node at a time, and one node-taking command at a time (the
fleet's node lock is a lock within one process); no outage between the last recheck
and the drop of the host; an operator starts an agent by hand only when told to.
`Silent` admits what finding 5 needs. Left out: `--needed`, `--check-only`.
`MaxTime` bounds the API server's clock, which only moves where a baseline was
taken in this second.

### FleetReboot

One run reads every host (`Readings`), decides (`Decide`), marks the waiting nodes,
runs its groups side by side and each group's members in turn, and this machine last.
A run may be interrupted or killed and another one follow it; an accepted shutdown
happens before the next run plans. A node's own gates are `NodeMaintenance`'s and
appear as one: every other node is up and about to stay so. Stop records are
`RunnerStops`'s. A leftover mark has to be named in a warning of a later run.

### RunRecord

Runs make a directory, lock it, copy the lock file, note the lock their evaluation
used, write a report and prune; triage chooses, tests the lock, reads, finds a
baseline, compares. A start is three steps, its directory (`Start`), `run.lock` (`OpenLock`) and
the flock (`TakeLock`), and a removal two, the look at `run.lock` (`Prune`) and the removal
(`Remove`); other runs and triage may come between any of them. Assumed: the flake is not
edited between evaluation and note. One target stands for all. The git fallback for a baseline and
the choice of warnings are left out.

### Capacity

`Inputs` are small clusters. The actions are the code's two phases: spread as the
scheduler does, then `pack`, the search with its budget. The order of ties and of the
search are open, so all of them are checked. Left out: LimitRange defaults, Pod-level
requests, overhead, `displacedPodsToPlace`, the ready floor, the PDB and slot checks,
which are formulas over one object.

### RunnerRestart

One command over hosts whose restart units other starts and deaths move on their
own. `Readings` and `Plan` are what `status` saw; `Start`, `Return` and `Judge` are
one host's restart. `--dry-run` is left out, whether a host needs a restart is an
input, and pairs of outcomes that are handled alike are merged.

### DeployRun

`opt` is what the run was asked, `at` its phase, `st[t]` each target: its world
(the host's generation), its marks, and the report the run's record holds. Runs
follow each other over one flake. At most `MaxTrouble` steps fail; an interrupt is
a run whose later steps fail; the record takes every write. A switch on a terminal
is one step. Left out: disk capacity, remote garbage collection, build profiles,
deployed roots, `--json`, and sudo's details. Reservations and the record of failed
activations are their own modules and appear by their outcome.

### The tools

Each module's head says what it stands for. What is left out or assumed:
- `ApprovalSpool`: times are whole ticks; signatures are valid or not.
- `TokenCache`: a listing is never tried twice at one instant.
- `KeyProvisioning`: what the forge holds is one key.
- `SummaryQueue`: whether a thread needs a summary is open. `ThreadSummary`: when a
  job starts is open; settlements, and the order of the cache file's writes, are left out.
  `VerdictQueue`: the budget is open, which issue is due is open.
- `FindingsFiling`: a request without a response takes effect before the next
  command lists, or never; people open and close issues, and do nothing else.
- `ReviewRun`: one lens, at most one finding per reviewer, unchanged prompts; a later
  run of the same commit starts when the earlier one has verified; an interrupt after that acts as
  a failed job; "partly" and "rejected" are handled as "confirmed" is. Known problems are
  ordered by the number of the review that saw them last, where `remember.go:66-68` sorts by the time
  it did; no property depends on it.
- `ForgeMirror`: one repository stands for all, one operator command at a time; denied
  repositories are left out. `mirror-github` takes in pull mirrors, as it does without names, and
  Forgejo is taken to set a push mirror on them. What that push mirror takes away at GitHub is
  in `overwritten`. That operators do not run two commands at once is assumed, for no lock sees to it.
- `Devlog`: one run at a time in a checkout; `MaxFaults` bounds kills and failed
  writes; a summary edited elsewhere keeps its marks.
- `OrphanCheck`: one container per task; a page request and a listing are atomic;
  tasks get their identifiers in the order of creation.
- `DeskSession`: one client; no session begins while an earlier `on` is at work.
- `Recording`: one `start` at a time, not killed; `monitor` when no start is at work.

## Runs

| Run | Shows | Instance |
| --- | --- | --- |
| `reservations` | work is covered by a complete reservation (`Protected`), overlapping groups never work together (`NoOverlap`), work can be recovered (`StartedIsRecorded`), no second member of a group is out of its quorum (`QuorumKept`), and the refinement (`LockSpec`) | 3 hosts, a fleet run and a single-host run, one operator, readiness commands, all faults but `dropMidInspection` |
| `reservations_released` | every run ends with its reservations released (`Released`) | the same, no faults, fairness |
| `reservations_mid_inspection` | finding 1: `Protected` fails | the same, with `dropMidInspection` |
| `failed_activations` | `HalfIsRecorded`, `InFlightIsRecorded`, `OneAtATime`, `OnlySuccessClears`, `UnchangedIsWhole` | 3 jobs, two of them on one target, 2 generations, interrupts, unusable files, power losses |
| `failed_activations_orphan` | finding 2: `InFlightIsRecorded` fails | 2 jobs on one target, orphaned work |
| `failed_activations_unsynced` | finding 3: `HalfIsRecorded` fails | 2 jobs on one target, a run that ends before its sync |
| `runner_stops` | `StoppedIsRecorded`, `CommandOwnsRecord`, `ResumeIsReserved`, `NoStartBeforeReboot`, and that every stopped unit comes back unless a recorded one failed (`Recovered`) | 2 reboot runs on two controllers, one operator, 2 units, all faults, `Budget` 1 |
| `runner_stops_empty_plan` | finding 4: `NotBehindResume` fails | the same, the second run's plan is empty |
| `node_maintenance` | a node goes down only while the others can carry its work (`TakenDownSafely`), a stopped agent's node stays cordoned (`StoppedStaysCordoned`), the rebuild limit is put back or somebody is told (`LimitIsOwed`), so is a stopped agent (`StoppedAgentReported`), and an agent counts as returned only on a heartbeat after its stop (`ReturnedAgentIsFresh`) | 3 nodes, two commands of a run and one by hand, one outage, several options each |
| `node_maintenance_unreported` | finding 5: `StoppedAgentReported` fails | the same, with `Silent` |
| `fleet_operations` | `FleetReboot` (one node down at a time, in turn, marks accounted for), `RunnerRestart` (a group's restarts in turn, success is a restart), `DeployRun` (a group in turn, success is complete, unchanged is sound, triage names the step), `RunRecord` (a prune keeps the newest and what has a lock, a baseline was deployed), `Capacity` (both answers are right) | 5 hosts and 2 reboots; 2 hosts of a group and 2 restarts; 4 hosts, 2 deploys, 2 failing steps; 3 runs, at most two at once; 2744 clusters of two nodes and three Pods, a search budget of 3 |
| `tools` | answers (`NoAnswerLost`), keys, containers and displays (`TellsTheTruth`), requests (`RequestsAreKept`), summaries (`SummariesAreSound`), findings (`FiledOnce`), commits but for those a pull mirror's push mirror overwrites, entries and recordings (`NothingIsLost`), tokens and lists (`CacheMovesForward`) | thirteen modules, two processes each where processes meet |

Why the instances are large enough. Two runs are the smallest number that
overlap, and every conflict in the code is between two. Two members make a group
with a first and a second; a third host is a controller outside the group, while
the other run's controller is a member. A crashed run, an operator and a new run
together give the chain "left behind, released, taken again". In
`FailedActivations` jobs start again without bound; the third job is there because
the record is shared between targets while the locks are not. In `RunnerStops` two
units make a start that succeeds for one and fails for the other; `Budget` bounds
dropped connections and failures (interrupts, kills and hang-ups are not counted),
and a run of Budget 2 without the liveness property passes as well.
In `NodeMaintenance` the third node is the one that keeps the quorum; the first command's node is
the database primary and has Pods. `InOrder` has the run reach its first node first, as a
run does. In `FleetReboot` there is one host of each kind: two nodes, a plain host in a
group with one of them, a node the inventory does not list, this machine; the second
run starts on what a killed or interrupted first one left. In `DeployRun` a gated group of three has a member
before and one after the one that fails, and the second run plans on what the first left.
In `RunRecord` three runs and `Keep` 1 are what it takes to prune one of two. In `Capacity`
the kinds of Pods are chosen so that the spreading fails where a placement exists, the
search exhausts its budget in some clusters and its candidates in others.
In the tools, `MaxRequests`, `MaxChanges`, `MaxFaults`, `MaxCommands`, `MaxTime`
and the like bound counters; each is the smallest that lets every action of the
module happen, and after it something that could go wrong.
Six modules have a constraint in `Bounded`, which TLC uses to leave out combinations,
never one of the disturbances by itself. `FleetReboot`: the second run starts only where the
first left a host marked, down, due to reboot or without its runners, and is not interrupted.
`RunRecord`: two runs are at work at once, one beside triage, and triage or one run after a
fault. `ForgeMirror`: two processes are at work at once on the first commit, one after a
fault. `Devlog`: on the last day a fault and a person's edit exclude each other. `ReviewRun`: the second run is not
interrupted, and where it resumes nothing no run was and no other commit is reviewed; another
commit is reviewed only beside runs that were not interrupted. `ThreadSummary`: a thread that
left T3 meets a probe pass or a job, not both. What the two runs show is limited accordingly.
Symmetry is used in `tools` only, over interchangeable model values, and no property there
is a liveness property.

CHECK_DEADLOCK is off in every configuration because the programs end: a state
in which every run is over has no successor. That they are not stuck earlier is
what `Released` and `Recovered` show.

Fairness. `Reservations`: a controller that is alive takes its next step and
activation work ends; every command of the code has a timeout (`ssh`, `flock -w`,
`process.Run`). Nothing is assumed of operators, crashes or late calls.
`RunnerStops`: scripts, runs and the reboot command go on, the host that goes down
comes back, stop jobs end (their unit timeout), and an operator keeps resuming.
The last is an assumption about people: the record only promises that a resume is
possible and works. Nobody is assumed to mend a failed unit, so `Recovered` promises
nothing while a recorded one is `Failed`; once none is, the stopped units come back. It is weak fairness throughout.

## Findings

Five runs end in a violation. Each quotes what the code or its ADR says.

1. `reservations_mid_inspection`: members are probed before the controller. A
   frontend of a dead controller can start work on a member already seen idle, and
   be gone before its own host is probed; the operator's release then uncovers
   that work. Probing the controller first would close the gap.
2. `failed_activations_orphan`: the target's lock goes with the run, but not the
   run's command. Another run of the target may succeed, and clear the entries,
   while the orphaned activation is in flight.
3. `failed_activations_unsynced`: an entry found in the record is taken for
   durable, though the run that wrote it may have died before the directory sync.
4. `runner_stops_empty_plan`: a plan without active runners only checks for a stop
   record, under a flock it drops before the reboot command is sent.
5. `node_maintenance_unreported`: a stop of the fence agent that is interrupted, or
   a host whose drop is misread, ends a maintenance with the agent stopped and
   nobody told.

Smaller disagreements, met while modelling and kept out of the models by an
assumption or a weaker property:

- `rebootNode` (`reboot.go:2028-2049`) starts the runner units again when the reboot
  failed and the old boot answers, even if the command's outcome is unknown;
  `docs/adr/0010-fleet-reboot-policies.md:53-56` says they remain stopped. The deferred `clearMarks`
  runs after `runSelf`, so this machine's own reboot can cut its last retry.
- A deny that was not read yet can be overwritten by a later approval
  (`credential-approval/main.go:128`, "first deny").
- deck: a summary job that stops without a summary publishes its observation without
  a regroup; the verdict shown is old for up to a minute.
- devlog: an entry written but not committed by a run that died stays untracked, and
  later runs skip it; the comment at `devlog/main.go:489-491` hopes otherwise.
- deploy: `finish` (`fleet.go:383-384`) does not name a host whose system switched,
  whose gate failed and whose Home Manager then failed.
- A runner restart that follows a start it found at work starts the unit again if that
  start has ended meanwhile, beside another of the group it also follows.
- wcap takes no lock: two starts at once overwrite each other's state.
- forge-mirror: "A pull mirror is read-only and never the source of truth" (`main.go:508`), but
  `mirror-github` (855, 919-947) does not ask whether a repository is one, and without names (353) takes
  all of them: the push mirror of a pull mirror overwrites what GitHub got since the last pull.
  TLC reaches such a loss; `NothingIsLost` says that it is the only one.
- deploy: a run directory without a lock "is the newest run then, which a prune keeps"
  (`runrecord.go:137-138`). The code does not see to that: once `Keep` runs that started later have made
  their directories, a prune of one of them may remove it, before the lock or, where it looked before, after; and triage's shared lock,
  held for a moment, makes a run that starts go without a record. `PruneKeeps` says what is left:
  the `Keep` newest stay, and a run that keeps a record loses its directory only to a prune
  that looked before the run had `run.lock`. With the default of 30 kept runs this takes 30 runs that
  start within that moment.
- gh-app: the comment at `token.go:181-182` has a cached token that is not fresh be the older one. In its last
  `minRemaining` it may be the newer, and be replaced by what `tokenFor` read before it waited;
  this matters only when minting then fails.

## Proofs

The proof modules follow the same course: typing of the initial state and of
each action, one lemma per part of the inductive invariant and action where
needed, then the temporal theorems.

`ReservationsProofs` (assumption: `ReservationsAssumption`)
- `TypeCorrect`: the type invariant, under all faults.
- `Inductive`: `IInv`, when `"dropMidInspection"` is not among the faults, for any
  hosts, runs, groups and operators. `Protected` alone is not inductive: that a
  release uncovers nothing depends on what the releasing party has established.
  `Owns` says a run in its rollout owns its group; `WorkPhases` in which phases
  work may be going on, and what an inspection under way has ruled out;
  `LateStopped` that a late release belongs to an owner that has stopped for good;
  `OperatorKnows` the same for an operator between a probe and the removal.
- `AlwaysProtected`, `NeverOverlap`: consequences of it.
- `WorkIsRecorded`: with `RecordedInv`, which follows a run's metadata from the
  authority's acknowledgement through every directory of its groups.
- `QuorumAlwaysKept`: with `QuorumInv`, if groups are equal or disjoint (`OneGroup`:
  the inventory's parser refuses a host of two groups, inventory.go:247-254).
- `Implements`: `Spec => LockSpec`, each step mapped to a step of `ActivationLock`
  or to a stutter, with the same invariant.

`FailedActivationsProofs` (assumption: `FailedActivationsAssumption`)
- `TypeCorrect`: under all faults.
- `Inductive`: `IInv`, when neither `"orphan"` nor `"unsynced"` is among the faults,
  for any jobs, targets and generations. `HalfIsRecorded` needs to be strengthened
  to the disk (`HalfIsDurable`), which needs to know that at most one change
  waits for a sync and whose it is (`Durable`), what each job has made durable
  before it activates (`Progress`), and that changes are made to what the lock's
  holder has read (`Locks`).
- `HalfRecorded`, `NeverUnchangedHalf`: consequences of it; the second with one step per
  action that can end a plan.
- `InFlightRecorded`, `AlwaysOneAtATime`: with `"orphan"` alone excluded, from the locks and
  `Flying`: work goes on only where its job waits for it, and is recorded from the rename on.
- `EntriesSurvive`: under all faults, from the locks alone (`Locks`): every change is made
  under the record's lock to what was read under it.

`RunnersProofs`, about `RunnerStops` and `RunnerRestart`

Of `RunnerStops` (assumptions: `RunnerStopsAssumption`, `NoneAssumption`):
- `TypeCorrect`, `StoppedRecorded`, `CommandOwns`, `ResumeReserved`: under all
  faults, for any runs, resumes, units, plans and budget.
- `NoStartIntoReboot`: as long as every run's plan has a runner to stop. Finding 4's
  run has a run with an empty plan, which publishes no record and so keeps nobody away.
- `RecordInv` makes `StoppedIsRecorded` inductive: the flock keeps the scripts apart
  (`LockHeld`), a stop works on units of its own run's record (`StopPhase`), and what a
  start has yet to start includes all that is stopped (`StartPhase`), so that the
  record may go when that is empty.
- `CommandInv` adds what connects the runs to the host: a start script is of a run
  that sends no command any more (`StartOwners`), and a run between its stop and its
  command's end owns the record as long as the host is in the boot it stopped
  (`StoppedOwns`).
- `BootInv` adds that nothing of a run outlives its boot (`ThisBoot`) and that with the
  shutdown queued no start is past its checks (`Halting`).
- `ReservedInv` stands alone: a resume past its reservation holds it.

Of `RunnerRestart` (assumption: `Settings`, groups are disjoint, inventory.go:247-254; TLC
evaluates it on the instance of `fleet_operations`), for any hosts, groups and runs:
- `RestartTypeCorrect`.
- `RestartsGoInTurn`: a unit's runs are numbered, and `Tracked` says which of them count: the
  run that `systemctl start` follows is no older than the plan, and a zero exit came after its
  end. `Started`: a unit that the command started goes on while the command has no word of its
  end, which is so after a timeout or a lost connection as well. `Turns`: a failure gives every
  other member of the group an outcome, and whoever had a turn has an outcome once the next
  has one. So at the start of a host each earlier member succeeded, its unit is not
  the command's any more, and the later ones had no turn; and one that was joined has ended the
  run that was found.

`NodeMaintenanceProofs` (assumption: `NodeMaintenanceAssumption`), for any nodes,
commands, targets, options and bounds
- `TypeCorrect`: needs `Sound`, what a command may remember at each place: only
  because a power-on never reaches the power action is every order a reboot or a power off.
- `StoppedNodesAreOutOfService`, `DropsAreSafe`: from `SafeInv`. What each gate has seen
  is a clause of `Passed`, from the place where it is first known to the last where it
  must still hold: no host is about to go down from the look at the agents on, the cordon
  from the drain on, no volume, the survivors' replicas, all hosts up. Commands that take
  nodes down exclude one another (`Apart`), so nobody else can take one of these away,
  and `ReadyToDrop` keeps them between the power action and the drop, when its command may
  have ended. Where the cordon is lifted, the node's agent runs (`Releases`).
- `ReturnsAreFresh`: from `FreshInv`. Between the stop and the return a heartbeat later
  than the baseline is of a later boot (`FreshAfter`): the stopped agent writes none, and
  runs again only in a boot after it.
- `LimitIsNeverForgotten`, `StoppedAgentsAreReported`: from `LimitInv` and `ToldInv`, the second
  unless `Silent`, which is finding 5 and a host's misread drop.

`FleetRebootProofs` (assumption: `Inventory`, what the parser of the inventory leaves, above
all that a host is in one serial group at most, inventory.go:247-254; TLC evaluates it on the
instance of `fleet_operations`), for any hosts, groups, command lines, readings and runs
- `TypeCorrect`: with an outcome being final (`Typed`).
- `NodesGoDownOneAtATime`: `OneDown` counts a node that accepted a reboot as leaving, so that
  the node lock (`turn`), which a failed or killed run gives back while such a node is still
  up, need not cover it: the next node's gates see it. It needs `InStep`, a host stays up on the
  boot whose ID was read until it obeys a command of this run, and `Decided`, no reboot
  at work is of a host that the plan skips or fails.
- `HostsRebootInTurn`: from `InOrder`. The members' ranks differ and one is reached after
  those before it (`OneByOne`); that `Ranks` describes a function at all is a lemma by
  counting, in place of an induction over the group. No member failed while another is at
  work (`NoneFailed`), a gate's others stay up (`GateKept`), this machine goes last
  (`SelfLast`).
- `MarksAreAccountedFor`: from `Tracked`, what is marked is tracked or was named, in each of
  the run's phases.

`ToolsProofs`, about eight modules of the other tools, each a specification of its own (assumption:
the `Parameters` of each, which say of what kind the constants are, that one request files finitely
many findings, and that deck has finitely many threads and issues; TLC evaluates them on the
instances of `tools`), for any commands, windows, timeouts, invocations, callbacks, processes,
commits, findings, revisions, threads, issues, roles and faults

Of `ApprovalSpool`:
- `TypeCorrect`: with whom a window answers (`Typed`).
- `AnswersAreNotLost`: `NoAnswerLost` says where the last answer is; that it stays there needs
  two more facts. `Fresh`: nobody answers a request before it is published, so that publishing
  over what a dead process of the same name left removes no answer. `Kept`: a request stays
  under its own expiry while its command may count an answer, so that a sweep, which began
  before now, finds it live. `Held` says where the answer goes: a claim and an answer that was
  taken belong to the step the command is at, and the window that wrote `latest` is over.

Of `TokenCache`:
- `TokenTypeCorrect`.
- `CacheGoesForward`: an action property, from three facts. `LockHeld`: who mints or lists has
  the flock, so that one writes at a time. `Times`: no list is newer than its try, no try than
  the last one. `TokenRead`: an entry that was read without the lock is the cache's or of an
  earlier try, and two entries of one try hold one list. So what is merged under the lock with
  an entry that was read before it (`Newer`) has the cache's list, and a write that follows a
  new try is the newest. That the interval between tries is kept needs the same: it is measured
  from the entry in hand, which under the lock has the cache's try. That no fresh token is
  replaced needs `TokenKept`: who mints found none under the lock, and who lists has the cache's
  token if it was fresh then; none becomes fresh while another holds the lock.

Of `KeyProvisioning`:
- `KeyTypeCorrect`.
- `CommandsTellTheTruth`: from `KeyLocked`, who is at work has the mutex; `Once`, who goes on
  has refused every other callback before; `Answered`, a callback that used the code has sent
  its result by the time it gives the mutex back, so that `register`, which waits for the mutex
  before it reads the result for the last time, cannot miss it; and `Owned`, the file is of the
  command that created it, and no other writes to it.

Of `ForgeMirror`:
- `MirrorTypeCorrect`.
- `NothingIsLostByAnyCommand`: from `AtHome`, the forge a repository belongs to has every commit that
  was acknowledged and not overwritten by the push mirror of a pull mirror, and what is GitHub-primary
  has no push mirror. What a command may rely
  on of what it read before is `Knows`: of a repository it is about to delete, that Forgejo has
  only a mirror. The timers' commands change none of that, and an operator runs one command at a
  time (`Alone`): this is assumed of the operator, for the program takes no lock.

Of `FindingsFiling`:
- `FilingTypeCorrect`: with that a command's list and its own issues are issues there are.
- `FiledAtMostOnce`: from the filing lock (`FilingAlone`) and what a command knows at each step.
  `Sees`: every open issue of revkit's is on its list or its own; people open issues of their own
  and close any, so the list stays complete. `Files`: the findings of one request differ, and it
  made no issue for one it has still to file. So no issue is there that the next would double
  (`Doubles`), and a command that lost a response, and cannot tell, ends.

Of `ThreadSummary`:
- `ThreadTypeCorrect`.
- `ThreadChangesAreSeen`: from `Observed`. An observation is of an updatedAt no newer than the
  revision it started from, and reads one no older (`ThreadRead`); of the two that may be open at
  once the model says which started last, and whether what started later was published (`Ordered`,
  `Placed`): so the one that is published late, and dropped, is the older one.
- `SummariesShownTogether`: from `ThreadLocked`, who has the refresh lock, and `Grouped`: what the loop
  or the pass is about to show has the cache's summary unless a job that has put a newer one
  waits to regroup, and that job's own regroup comes after theirs.

Of `SummaryQueue` and `VerdictQueue`, whose queues hold nothing twice: `OrderIs`, `ConcatIs`,
`InFrontIs` and `TailIs` say what is in a queue that is ordered anew, joined, put in front of or
taken from, and that it still holds nothing twice. What the code filters, and the model defines
by the order that is left (`Left`, `ToFront`), needs no induction over the queue then.
- `QueueTypeCorrect`, `VerdictTypeCorrect`.
- `SummariesAreServed`: from `QueueSingle`, a thread in the queue has no job, and `Served`: what is
  owed is with its job, and then not asked for again, or still asked for with its role, and in
  the queue or waiting for the job that runs to end.
- `VerdictsAreServed`: from `ByHand`, the queue holds exactly what was asked for; `BasisGrows`: what
  Refresh now found is of the inventory or older, and no inventory that is read later is older;
  and `VerdictServed`. So a judgement that takes the head is on a basis that is no older than what
  was asked for, and one that nobody asked for starts only when nothing is owed.

`RunRecordProofs` (assumption: `Settings`), for any number of runs, versions of the lock and
failed writes, and any positive `Keep`
- `TypeCorrect`: a `run.lock` has one holder at most (`Typed`).
- `PrunesKeepTheNewest`: from `Lives` and `Kept`. What is on any prune's list has `Keep` newer
  directories at every moment: a removal leaves those newer than the removed one, which was
  itself on a list, and only `Start` makes directories. `Lives` says that a run with a record
  holds its lock, and that a prune which found `run.lock` holds it until the directory is gone: so
  what such a prune removes is of no run with a record, and one that found no `run.lock` (`blind`)
  looked before its run had one. Nothing is assumed of the order of starts.
- `BaselinesWereDeployed`: from `Locks` and `Based`. A record holds the lock the run started
  with up to the evaluation, and from its note on the one it evaluated, or half a file, which
  triage does not read; only a run that was reported has "deployed" in its report, and by then
  its lock is the evaluated one; nothing but a removal changes such a record.

`DeployRunProofs` (assumption: `Settings`, what `deploy` accepts and what the inventory's parser
leaves: groups are disjoint, inventory.go:247-254; TLC evaluates it on the instance of
`fleet_operations`), for any hosts, groups, Home Manager users, command lines, failures and runs
- `TypeCorrect`: of the whole state (`Typed`), which also bounds the group at work.
- `TriageNamesTheStep`, `UnchangedTargetsAreSound`: from `Reports`. `Failure` says for each step
  that may fail which of a target's logs, seconds and gate it leaves; triage's choice among them is
  then a matter of cases. That a target calls itself unchanged only where nothing is left open
  needs that a faulty activation is always marked.
- `NothingUnbuiltIsTouched`: from `Early` and `Late`, what a run has of its targets up to the
  build and after it; a fleet goes on without the targets that failed, a single host does not.
- `SuccessesAreComplete`: from `Verdict`. Every failure sets `failed`; a member skipped for its
  group does so when the group is released; and `Left` says that by the time of the Home Managers no
  system waits any more.
- `GroupsSwitchInTurn`: from `Turns`, with `Rollout`, what is true of the member at work at each step
  of its group. That the ready command has seen the others has to hold from the gate (or the
  pre-check) through the next member's begin to its end; at most one member is ever half switched;
  and groups that have not had their turn were not touched, which is where the groups' being
  disjoint is used.

The two findings about the record of activations are exactly the two faults excluded here, as
`dropMidInspection` is for the reservations.

Every invariant above was checked by TLC on the instance of its module's run before
it was proved. A proof that failed has changed the model: in `DeployRun` a single host's Home Manager
could be switched before its serial group was released, which `activateHost` (deploy.go:92-105)
does one after the other; `Plain` now waits for the release.

Only model-checked:
- liveness (`Released`, `Recovered`): the prover cannot treat ENABLED, and so not fairness;
- `Capacity`: its reference definition and its search are over every placement, and what they
  compute for any number of Pods needs induction over data;
- `Devlog`, `ReviewRun`, `OrphanCheck`, `DeskSession` and `Recording`: no obstacle is known, they come
  after the above in what is lost when they go wrong.

## Not modelled

Listed in `PROJECT.json` with reasons. In short: argument and inventory parsing,
printing, reports and the text of triage's context; gh-app's routing (a pure choice of a
credential); deck's pages; packages, CI and update scripts (sequential shell around a forge);
`workspace-sync` and `zfs-auto-unlock`, sequential tools without a state of
their own (a killed `git clone` leaves a directory that later runs of
`workspace-sync` take for a repository). The authority itself is assumed to keep its
directories: a power loss of the operator host is not modelled.

## Plan

Done: `Reservations`, `FailedActivations`, `RunnerStops`, `RunnerRestart`, `NodeMaintenance`,
`FleetReboot`, the credential tools, `ForgeMirror`, `FindingsFiling`, deck's modules, `RunRecord`,
`DeployRun` and their proofs; `Capacity` and the other tools, model-checked.

Left, in this order:
1. Theorems: `Devlog` and `ReviewRun`.
2. `NodeMaintenance` with two commands for one node, which no lock keeps apart.
3. Liveness of the queues of deck, under the fairness of its loops.
