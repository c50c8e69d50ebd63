# A TLA+ model of backup-tower

backup-tower keeps containers up to date and takes snapshots of them first, so
that there is a way back. This directory models the parts of it that change
state, checks them with TLC on small instances, and proves what matters most with
TLAPS. Line numbers are those of the Go sources under `src/`.

## 1. The system

Everything backup-tower knows lives outside its processes: the containers and
images in the engine, the data in volumes, the snapshots in a directory, the
locks in the kernel. Several processes work on that at once: the daemon with two
loops (update passes, `cli/daemon.go:135`, and the minute loop for scheduled
backups, `cli/daemon.go:238`), and any number of commands.

| Component | State it keeps | Operations | Talks to | What is hard |
|---|---|---|---|---|
| Snapshot store (`snapshot/store`) | a directory per snapshot, `.pending-*` while it is written | Begin, Create, Commit, Abort, Snapshots, Remove | file system | crashes between steps, power loss, RemoveAll half done |
| Taker (`snapshot/snapshot.go`) | the pending snapshot; a stopped container | Take | store, engine, pins | a failed step after the container was stopped, the pin before the manifest |
| Pruner (`snapshot/prune.go`) | none; image pins in the engine | Prune, PruneAll, OrphanedPins, ReleasePins | store, pins | no lock: decides on listings that grow old |
| Restorer (`snapshot/restore.go`) | none; the volume while it is refilled | PlanRestore, Restore | store, engine | half done when it fails, verified data read again |
| Updater (`update/update.go`, `strategy.go`) | the result of the run | Update, rollbackIfPossible, leaveRunning | checker, taker, restorer, engine, compose | every call may fail, cancellation, undoing |
| Replace (`runtime/replace.go`) | a container parked under another name | Rename, Recreate, Remove, undo | engine | killed or refused between two calls |
| Health gate (`update/health.go`) | baseline restart count, clock | checkHealth | engine | what happens between two inspections |
| Scheduler (`schedule/schedule.go`) | none: reads the store | Check | store | its memory can be pruned; restarts |
| Locks (`lock/lock.go`) | flock on a file per container name | TryAcquire, Acquire, release | kernel | waiting, dying, two names for one container |
| Daemon and commands (`cli/`) | the pass in progress | daemonPass, scheduledBackups, runUpdates, runRestore | all of the above | what is read before the lock is used after it |
| Update check, registry (`update/check.go`, `runtime/registry.go`) | credentials, loaded lazily and kept for the life of the process | CheckAll, Check, Attempts, LoadFallback | registries, komodo | concurrent checks share a lazy source |
| Order (`update/order.go`) | none | Order | compose labels | cycles, scaled services, services without a name |
| Discovery (`discover/`) | none | Select, evaluate | labels, rule file, environment | precedence of settings, values nobody can read |
| Archives (`snapshot/archive`, `source`) | the list of inodes seen | Create, Extract, Archive, Restore | volumes, helper containers | the volume changes under the walk; partial output |
| Helper containers (`runtime/helper.go`) | two goroutines, a container | RunHelper | engine | exit, output, input and cancellation arrive in any order |

What makes each correct:

* store: a snapshot is visible whole or not at all, goes only when the policy has
  given it up, and what is left is whole and has its image;
* Replace, Update, Restore: there is always a container, the service is up again
  after one failing call, one bad release or one cancellation (a kill counts for
  more), a rollback that reports success is complete, and no version runs on data
  written by a newer one;
* health gate: judges by the right method, is not fooled by a crash loop, and
  comes to an end;
* scheduler: each fire time is served at most once and none is forgotten;
* locks: one run per container, snapshots of one state, no endless waiting;
* daemon pass: updates who is enabled and nobody else, dependencies first, nobody
  forgotten, comes to an end, and once something was updated prunes everyone;
* credentials: Komodo is asked once and only when needed, and nobody is told
  "denied" while there was something left to try;
* archives: a success is a whole archive that gives back what nobody touched, and
  a call by way of a helper returns.

`PROJECT.json` lists the components again with their status, and under `hazards`
each place where this code is hard to test, with the properties that watch it.

## 2. The modules

| Module | Models | Notes |
|---|---|---|
| `SnapshotStore` | `store/fs.go`, `prune.go`, `pin.go` and Take's writing | the state of the disk, pins, one Take, several pruners, one collector |
| `SnapshotLedger` | nothing: an abstract specification | what the store promises; `SnapshotStore!Ledger` is the refinement mapping |
| `RestoreBesidePrune` | `snapshot/restore.go`, `source/restore.go`, `cli/restore.go` | extends `SnapshotStore`: Restore beside everything that goes on in the store |
| `ContainerUpdate` | `update.go`, `strategy.go`, `replace.go`, `snapshot/restore.go`, Take's stopping | one engine call per action |
| `HealthGate` | `health.go` | the loop and the container side by side |
| `Schedule` | `schedule.go`, the minute loop of `daemon.go` | next to everything else that locks, snapshots, prunes |
| `ContainerRuns` | `lock.go`, the passes and commands | what ContainerUpdate does in detail is a beginning and an end here |
| `ContainerMutex` | nothing: an abstract specification | what the lock files promise; `ContainerRuns!Mutex` is the refinement mapping |
| `UpdateChecks` | `check.go`, `registry.go`, `cli/auth.go` | CheckAll's goroutines with the credentials they share |
| `Iteration` | the loops of `UpdateOrder`, `PolicyLayers` and `ArchiveWalk` | one operator, in place of recursion |
| `UpdateOrder` | `order.go` | operators: the depth-first visit, and what an order promises |
| `PolicyLayers` | `policy.go`, `rules.go`, `labels.go`, `select.go` | operators: the layers of a policy |
| `DaemonPass` | `daemonPass` in `cli/daemon.go` | composes the three before it: pass after pass over several containers |
| `ArchiveWalk` | `tarzst.go` | Create entry by entry beside a container that uses the volume, Extract as a loop over the entries |
| `HelperRun` | `helper.go`, `source.go`, `cli/helper.go` | extends `ArchiveWalk`: the caller, its goroutines and the helper |
| `MC*` | | instances for TLC |
| `SnapshotStoreProofs`, `ContainerUpdateProofs`, `ContainerRunsProofs`, `HealthGateProofs`, `ScheduleProofs`, `HelperRunProofs`, `DaemonPassProofs` | | theorems; the first is also about `RestoreBesidePrune`, the last about `UpdateOrder`, `UpdateChecks` and `PolicyLayers` |
| `IterationProofs` | | lemmas on induction and loops for the last three |

### SnapshotStore, RestoreBesidePrune and the code

A snapshot id is a second (`manifest.go:177`), so snapshots are `1..MaxClock` and
the order of ids is the order of creation. `dir[s]` is the name a directory goes
by (`.pending-<id>` or `<id>`), `files[s]` what is in it: `spec.json`,
`manifest.json`, and all archives as the one file "data". `synced[s]` is the part
known to be on the disk; a loss of power leaves that and any part of the rest, since
the system may have written a file back or not. A Take is the sequence Begin,
WriteSpec, WriteData, PinImage, WriteManifest, Commit of `snapshot.go:155-226`, with
the deferred Abort. There is at most one
Take per container because its callers hold the container's lock. A Prune lists,
loads manifest after manifest, decides (`Expired`), and deletes newest first, file
by file, then the directory, then the pin. OrphanedPins and ReleasePins are the
`Collect` actions. `published` is history.

In `RestoreBesidePrune` a restore is confirmed before the lock (the snapshot may be
gone by then), plans, verifies, stops, and then opens, empties and refills volume
after volume, reads the spec and creates and starts the container. The order of
"open, then empty" is that of `restore.go:264-290`. Each of these may find that a
pruner has been there. Verifying reads the manifest and the archives (`reader.go:86-97`)
and not the spec, which is read when the data is back; `torn` is history: the
published snapshots that a loss of power has cost their spec. `volume[m]` says whether a volume has its live data, nothing
or the snapshot's. A behaviour ends with the restore.

### ContainerUpdate and the code

Versions are numbers: the container starts out on 0, the n-th run finds version
n, and a version that starts brings the volume up to itself. `box` holds the
engine's containers by the name they go by: the service's own ("app"), the parked
name with the snapshot's suffix ("aside"), or one of compose's. `run.pc` is the
place in the code: pull, hook, stop, save, restart (`update.go:124-220`,
`snapshot.go:72-226`), compose or park, create, unpark, remove, start
(`strategy.go`, `replace.go`), health, undo, leave (`update.go:239-350`), and
plan, halt, data (`restore.go`), after which a restore goes through park..start
too. A run is an update or a backup (the daemon's, of a container that may be
stopped). A call made with the run's context fails once that is cancelled; the
rollback and the undoing of a step use a detached one (`Detached`, `StartAgain`).
`trouble` counts what goes wrong: one for a failing call, a bad release or a
cancellation, two for what the code has no answer to (a kill, a Stop that fails
and happens, a last-resort start that fails), so that "after one mishap" can be
said. `orderly` remembers whether every run so far was to stop the container for
its snapshot, and no rollback by hand was broken off after its data (`BrokenOff`).
An archive that was unpacked in part counts as the data of one
version or the other (`HalfRestored`).

### HealthGate, Schedule, ContainerRuns

`HealthGate` counts time in inspections; `Late` saturates it beyond both limits.
`Schedule` takes a cron expression to be a period and gives the rest of the
system the actions OtherLocks, OtherReleases, OtherPrunes. `ContainerRuns` counts
the container in incarnations (`age`), because its id changes with each
replacement: a run remembers the one it listed (`seen`) and the registry's answer
(`due`), both read before the lock. `KeyOf` is the name of the lock file, which is
what the user typed: "snapshotById" is the kind of run that typed the id.

### UpdateChecks, UpdateOrder, PolicyLayers, DaemonPass

A check waits for a slot of the semaphore, inspects its image, reads the attempts
there are (`Attempts`: anonymous, then each credential), asks the registry, and, if
refused, goes to the Once of the lazy fallback. One check gets in and fetches
Komodo's accounts, then adds them one by one, under the eyes of the others
(`Attempts` may be read halfway); the rest wait, in the Once, with their slots.
Only the one that loaded them asks again. A registry is the set of credentials it
takes for an image. `auth` lives as long as the daemon.

`UpdateOrder!Order` is the code's algorithm on records of compose labels;
`DependsOn`, `DependenciesFirstIn` and `ServesEachService` are the reference it is
checked against. A loop is an `Iterate` over what each turn does, and the recursion
of `visit` a function of how far down it may still go: `Visits` starts with as many
levels as there are containers, of which the visit needs no more than there are
services (`Enough` in the proofs), so that its bottom is never reached.
`PolicyLayers!Evaluate` applies the layers of a policy: built-in defaults, the rule
file's defaults, matching rules, labels. A rule that does not match is an empty
layer. Three settings stand for the rest.

In `DaemonPass` the policies' layers and the compose labels are chosen when
something first depends on them and forgotten when nothing does any more (the code
reads them at the beginning of the pass; nothing depends on them earlier, and this
keeps the number of states down). An update comes to an outcome and maybe a
snapshot. The result "nothing" of a check stands for up to date, skipped and
failed alike. `touched` and `spoilt` are history.

### ArchiveWalk, HelperRun

Names in a volume are numbered in the order of `WalkDir`. A name refers to an
inode, an inode has contents, and the container rewrites, makes, links, unlinks
and renames, while inodes freed are used again. The walk visits the smallest name
it has listed and not visited: a directory is written and then listed (`List`; if it
has vanished in between, `WalkDir` reports that and the archive fails), a file gets
its header (`VisitOther`) and later its contents (`Read`, `copyExactly`), or is a
link to a name stored before (`Known`, the map `seenInodes` keyed by inode and link
count). `archive` is the sequence of entries with the end mark. A version of a file
is told apart by who wrote it, not by its length.

`HelperRun` has the caller's place in the code (`run.pc`), the helper's process,
the goroutine that copies its output (`Copy`; the report travels on the same
connection, `report`) and the one that copies its input (`Feed`). `Room` is what
the pipes hold. The three `Select` actions are the branches of the select
(`helper.go:132-150`); which of several ready ones is taken is open, as in Go.
Cancelling makes `SelectError` possible too, since the wait was made with the same
context.

## 3. What the runs show

Bounds are in the `.cfg` files. TLC finishes each in about two minutes or
less, `runs_meet`, `update_any` and `helper_streams` being the longest.

| Run | Expected | Shows | Bounds, and why they do |
|---|---|---|---|
| `store_retention` | pass | `NewestSurvive`, `PinHeld`, refinement of the ledger (`LedgerSpec`) | three seconds, Keep 1, two symmetric pruners: the third snapshot expires the second while a pruner still works on a listing with only the first |
| `restore_beside` | pass | `LostOnlyIfGivenUp`, `VolumesWhole`, `OnlyLatePinsLost` | two seconds, two volumes, one pruner, the collector, every kind of trouble; `rollback`, `restore --skip-verify` and `restore --data=false --config` |
| `store_race` | violation | `PinHeld` fails beside a collector | finding 1 |
| `store_unsynced` | violation | `DataBeforeRename` fails when power is lost | finding 2 |
| `update_any` | pass | `NeverWithoutContainer`, `ServiceUp`, `RolledBackWhole`, `NoDowngrade`, `NoSilentOutage`, `BackupLeavesAsFound` | three runs under every policy, three things going wrong: a kill in the first run and what the second makes of it, or a failed update with a failed rollback. The third run, with at most two troubles so far (`CalmThirdRun`), is for a sequence that two hide: back to an old snapshot, forward again to a newer one, broken off, and an update after that. Six containers, enough for three updates or two with their rollbacks |
| `schedule_exact` | pass | `ServedOnce`, `NoneSkipped` | three fire times, restarts at any step, retention of one |
| `schedule_skip` | violation | `NoneSkipped` fails when updates count for retention | finding 3 |
| `gate_verdicts` | pass | `JudgedByItsKind`, `NoCrashLoopPasses`, `GateDecides` | settle 3, timeout 4 inspections, three restarts, pauses of any length |
| `runs_meet` | pass | refinement of the mutex (`MutexSpec`), `SnapshotOfOneState`, `HonestUpdate`, `TurnsCome` | the two loops and two commands, each once; two replacements, two releases |
| `daemon_pass` | pass | `FallbackSparing`, `DeniedForCause`, `DependenciesFirst`, `NoneForgotten`, `OptInOnly`, `PrunedAfterUpdates`, `PassEnds` | three containers on two domains with two slots, so that one waits for a slot while one waits in the Once; two passes with three checks, so that the second meets credentials the first has loaded and snapshots its failed updates have left; every dependency of three services, cycles too, with scaled and unnamed ones; stacks of layers that contradict each other |
| `helper_streams` | pass | `SuccessIsWhole`, `VanishedFilesAreNormal`, `RunEnds` | a file, a directory with a file in it and a symlink, each there or not, the files perhaps hard links of each other; two changes by the container, enough to free an inode and use it again; a pipe with room for one; the caller is cancelled or the engine dies, not both |
| `helper_jams` | violation | `ComesBackUp` fails | finding 4 |

Each run of a module checks its `TypeOK`. `CHECK_DEADLOCK FALSE` stands where a
system really stops: the gate has decided, the call has returned, all runs have
ended, or the bound on runs or passes is reached.

The bounds leave things out where a property would not hold, and say so:
`ServiceUp` is about `trouble <= 1`; `NoDowngrade` is about runs that were to stop
the container (with hot snapshots, or none, an old container that could not be
removed may still run on the volume), and up to a rollback by hand that was broken
off between its data and its container (without this TLC finds a counterexample
with three runs, see section 4). `schedule_exact` has no update passes
(finding 3). `OnlyLatePinsLost` states exactly what is left of `PinHeld` once there
is a collector (finding 1). `runs_meet` has snapshots on: with them off, an update
that waited for the lock may report a replacement that another run made, since
nothing asks for the listed id before compose is called and the comparison at
`update.go:242` is with that id. `NoneForgotten` counts services, not containers
(see section 4). `SuccessIsWhole` is about what the container left alone, and does
not hold when the engine dies after the report and before the tail. `PrunedAfterUpdates`
is about passes that update something, and `LostOnlyIfGivenUp` has one exception for
the spec, which is not verified (both in section 4). `RunEnds`
excepts the jam of finding 4.

### Fairness

* `HealthGate!FairSpec`: weak fairness of "inspect or pause". The loop is plain
  sequential code that blocks in two places only: a one-second timer, and an
  inspection, a local call to the engine that is taken to return (the client puts
  no timeout on it). Nothing is assumed of the container, and nobody is made to
  cancel.
* `ContainerRuns!FairSpec`: weak fairness of each run's own progress. A command
  polls the lock every 200 ms (`lock.go:82-102`), and its turn comes because every
  other run ends its work; no fairness of Crash, GiveUp or NewRelease. With a
  bounded number of runs this is weak fairness enough; against an endless stream
  of other runs polling gives no guarantee, and the code promises none.
* `DaemonPass!Fairness`: weak fairness of the pass as a whole, "some check or the
  loop takes a step if one can". Registries and Komodo are asked with the pass's
  context and answer or fail. No check is singled out: that none is starved
  follows from the queue being finite.
* `HelperRun!FairSpec`: weak fairness of the caller, the helper and each goroutine.
  All are sequential; what they wait for (room, data, an exit) is in their guards.
  Nobody has to cancel, no container has to change anything, no engine to die.

## 4. Findings

Those with a run:

1. `store_race` - `prune`'s tail can release the pin of a snapshot published while
   it runs, against "survives exactly as long as the snapshot does"
   (`DESIGN.md:110-111`).
2. `store_unsynced` - Commit flushes the directory only, against "so the rename
   cannot outrun the data on a crash" (`fs.go:182`).
3. `schedule_skip` - retention may delete the scheduler's memory: a backup is
   skipped (or repeated) after a restart, against `schedule.go:5-7`.
4. `helper_jams` - when the archive cannot be written (a full disk) the helper
   blocks on its output, the caller waits for its exit and does not look at the
   reader (`helper.go:132-150`): the container that was stopped for the snapshot
   stays down, against "must come back up whatever happens" (`snapshot.go:142-144`).

Seen while modelling, without a run:

* Locks: `snapshot <id>` locks the id as typed and does not exclude the daemon,
  which locks the name (`cli/snapshot.go:50`, `lock.go:9-12`).
* Update and restore: a Stop that times out and happens later leaves a backed-up
  service down (`snapshot.go:136`), and a restart after a backup that fails is only
  logged; a failed update snapshot starts a container that was not running
  (`update.go:218`); after an update that could not remove the replaced container,
  a rollback and every restore by hand are refused the parked name
  (`update.go:325`, `replace.go:39`); a rollback by hand that goes forward again to
  a newer snapshot and fails between its data and its container leaves newer data
  under the older container (`restore.go:205-231`), which nothing records: the next
  update takes a snapshot of this pair and starts it; the comment of `ResolveImage`
  (`pin.go:89-91`) describes an order that `restore.go:152-165` does not use;
  with Settle above Timeout the gate fails sound containers (`health.go:158`).
* Restore: verification covers the manifest and the archives (`restore.go:242-263`,
  `reader.go:86-97`), and `spec.json` is read for the first time at `restore.go:333`.
  After a power loss that cost only the spec (finding 2), a restore stops the container,
  replaces its data and then fails, for a snapshot that retention keeps; without
  recreation (`restore --data`) it goes through.
* Passes: retention is skipped when a pass updated nothing (`daemon.go:205`), though
  the user is told that it "also runs automatically after each scheduled backup and
  each update pass" (`README.md:429-430`): an update that fails in pass after pass
  leaves a snapshot in each, without a bound, until some pass updates something; `Order` drops replicas of a scaled service
  (`order.go:48`), though "dropping containers" is what it promises not to do
  (`order.go:53-54`); `report.Released` counts pins that could not be released
  (`prune.go:165`); the comment at `schedule.go:73-74` describes a branch the code
  does not take.
* Credentials: `LoadFallback` tells only the check that ran the Once that
  credentials were added (`registry.go:90`): one that waited is reported as denied,
  until the next pass; a Komodo that was down when first asked is not asked again
  in the daemon's lifetime, while the comment speaks of "the length of a run"
  (`registry.go:82`).
* Archives: a hot snapshot is not of one moment: a file renamed during the walk from
  a name still to be visited to one already visited is missing altogether, while the
  documentation calls a hot snapshot "crash-consistent" (`README.md:327`); a
  directory or symlink that vanishes fails the archive, though for a file that is
  "normal" (`tarzst.go:132`); a file with several names, the first of which goes
  between header and contents, is zeros under all of them; a new file that gets the
  inode and link count of one seen is taken for it (`tarzst.go:175`); modes pass
  through the umask and symlinks do not get their owner back ("reproduces the
  original tree", `tarzst.go:56-57`); an engine that dies between the report and the
  tail makes a truncated archive a success (`helper.go:155`); a cancelled run may
  take the branch of the failed wait and go on until the helper ends by itself.

## 5. What is proved

All theorems hold for every value of the constants that the named assumptions of
the modules allow, in particular for any number of pruners, runs, volumes,
containers and slots and any clock bound.

`SnapshotStoreProofs`:

* `TypeCorrect`: `Spec => []TypeOK`, no further assumption.
* `RetentionIsSafe`: `Spec => []NewestSurvive`, if `Keep > 0` and no power is
  lost. `NewestSurvive` is not inductive: a pruner acts on a decision taken long
  ago. `StoreInv` adds that what a pruner has doomed has expired (`PruneInv`), and
  the argument is that `Expired` only grows: publishing a newer snapshot and the
  passing of time never bring an expired one back (`ExpiredGrows`). That needs
  every new id to be newer than all published ones, which `TakeInv` provides
  together with the fact that nobody else touches the directory of a Take in
  progress. With `Keep = 0` a snapshot can be deleted and published again within
  one tick of the clock, and the ids no longer grow; the model has that
  behaviour and the theorem does not cover it. `Days > 0` is covered by the
  theorem and by no run.
* `PinsAreHeld`: `Spec => []PinHeld`, if moreover nobody runs the collector.
  `PinInv` follows the pin of the Take in progress and of the pruner that is about
  to release one.
* `OnlyLatePins`: `Spec => OnlyLatePinsLost`, if `Keep > 0`, with the collector and
  with losses of power. `StoreInv` does not survive the latter; `ListingInv` is the
  part of it about directories, which does. `UnpinInv`: a pruner comes to a pin when the
  directory is gone; `CollectInv`: of what it has listed and read the collector knows
  the pins, since no manifest changes once it is published.
* `ImplementsLedger`: `Spec => LedgerSpec` under the assumptions of
  `RetentionIsSafe`. The one step with content is the removal of a file: the
  ledger asks for `Keep` distinct newer snapshots, and the proof produces them
  from the cardinality in `Expired` (`ExpiredIsGivenUp`).

`SnapshotStoreProofs` again, about `BesideSpec` of `RestoreBesidePrune`, in which the
store moves as it likes:

* `RestoreTypeCorrect`: `[]RestoreTypeOK`.
* `RestoreFindsWhatIsKept`: `[]LostOnlyIfGivenUp`, if `Keep > 0` and no power is
  lost, and that without such a loss neither an archive nor the spec of a snapshot that
  the policy keeps is ever missed: a restore that does not find a file or the image is
  one of a snapshot that the policy had given up, or whose pin the collector took. What
  losses of power do to this is checked by TLC only. `RestoreInv` carries
  what was readable when it was planned with, on top of the store's `StoreInv`
  (each step of this system is a step of the store or leaves it alone).
* `OnlyLatePinsBeside`: `OnlyLatePinsLost`, from the store's theorem.
* `VolumesStayWhole`: `[]VolumesWhole`, unconditionally, from `VolumeInv`: which
  volumes are behind the restore and which are still to come.

`ContainerRunsProofs`, under `ByName` where it says so (no run locks by id), all from
the invariant `IInv`, which needs no assumption:

* `TypeCorrect`, without assumption.
* `RunsAreExclusive` (`ByName`): `Spec => []Exclusive`. `Exclusive` says nothing
  about who may enter; `LockInv` does: who works is the only holder of its key's
  file, and every holder works.
* `SnapshotsAreOfOneState` (`ByName`): `Spec => SnapshotOfOneState`. Beside
  `LockInv` it needs `SameIncarnation`: while a run that locked the name works, the
  container is the one the work began on.
* `ReportedUpdatesHappened`: `Spec => HonestUpdate`, if `SnapshotFirst` (section 3 says
  what happens otherwise). `SeenInv`: the incarnation an update works on is the one it
  was chosen for, because Take asks for the listed id; with `SameIncarnation` it is
  still that one when the result is judged.
* `ImplementsMutex` (`ByName`): `Spec => MutexSpec`. Entering maps to `Enter`,
  every way out, a death included, to `Exit`, with the replacement as the last
  thing a turn does; everything else stutters.

`ContainerUpdateProofs`, without further assumption: all the properties of the two
runs, for any number of runs, containers and failures and under every policy.

* `TypeCorrect` and `AlwaysAContainer`: `Spec => []NeverWithoutContainer`, with every
  kind of trouble. Two actions take a container away, Remove and what compose does
  from outside; compose puts another in its place in the same step, Remove does not.
  `IInv` says why it is harmless: where the code is about to remove, the replacement
  exists and is not the container to be removed (`Standby`), which holds because what
  Create used was free while the old one was not (`Parked`). The actions that a run
  has left to do with a container are covered by `Chosen` and `Replaced`.
* The other five rest on `WholeInv`, one invariant in layers, each proved with the
  help of those before it and of one lemma per action that says what it does to the
  run and to one container (`ParkDoes`, `StartDoes`, ...).
* `BackupLeavesIt`: `Spec => []BackupLeavesAsFound`. `NameInv`: one container at most
  has the service's name, and which one at each place of the code; `KindInv`: which
  kinds of run get there; `BackupInv`: a backup that found its container down has
  nothing of its own to start.
* `RollbackWhole`: `Spec => []RolledBackWhole`. `PairInv`: from the data to the start,
  what is in the volume and then in the new container is what the snapshot has; it
  needs that nothing the engine is still stopping is a replacement (`StoppingInv`).
* `ReportsHold`: `Spec => []NoSilentOutage`. `OutageInv`: only a Stop that nobody
  waited for, which counts as two mishaps, brings an updated container down.
* `NeverOnNewerData`: `Spec => []NoDowngrade`. `OrderInv`: whatever is up has the
  name (`UpInv`) and can run on the data (`FitInv`), but for the time between the data
  and the container of a Restore, and what a failed update may go back to can run on
  the data that was recorded and on the data there is (`UndoInv`). `FitInv` is not
  inductive when a rollback by hand may be broken off in that time; this is how the
  case in section 4 was found, and TLC then gave the behaviour.
* `ServiceStaysUp`: `Spec => []ServiceUp`. `MishapInv` follows what one mishap leaves:
  without any nothing is cancelled and no release is bad (`CalmInv`); where the
  name is missing the old container is aside and will have it back (`NamelessInv`);
  what was up at the beginning is up or can be started again (`RevivalInv`), because
  its version has run before (`AliveInv`); and a run that has no snapshot, or no wish,
  to go back to undoes nothing (`PolicyInv`).

`HealthGateProofs`:

* `TypeCorrect`.
* `VerdictFitsTheKind`: `Spec => []JudgedByItsKind`, if Settle is not above
  Timeout (`SettlesInTime`; the defaults in `health.go:52-57`, see section 4 for
  what happens otherwise). `HealthInv`: only a declared check has a state.
* `CrashLoopsAreSeen`: `Spec => NoCrashLoopPasses`. `BaselineInv`: once the first
  inspection is over, the remembered count is below the engine's whenever
  the container has restarted since, so every later inspection sees it.

`ScheduleProofs`, for every period, clock bound and retention:

* `TypeCorrect`, without assumption. A latest scheduled snapshot always exists where
  there is one at all (`FromTyped`).
* `NothingIsServedTwice` (`[]ServedOnce`) and `NothingIsSkipped` (`[]NoneSkipped`), under
  `Remembers`: retention keeps at least one snapshot and only scheduled or manual ones
  are taken; `schedule_skip` shows what happens otherwise. `MemoryInv` says that the newest scheduled snapshot in the store
  is the last backup that was served; it survives retention because an expired
  scheduled snapshot has a newer one beside it (`Kept`). `PassInv` says that a pass
  that has found a backup due serves a fire time behind all that was served, also
  when it has slept over the lock. The arithmetic of fire times is in four lemmas.

`IterationProofs`: the library's induction theorems cannot be instantiated with a
predicate, but its theorems about well-founded relations take a set, so a statement
about numbers or finite sets is proved for the set of those that have it
(`SmallestNumber`, `MinimalSet`). From this come what holds after a loop
(`LoopInvariant`) and that a loop goes on from where it would have ended (`LoopNext`).

`DaemonPassProofs`, for any containers, registries, labels, layers, numbers of slots
and of passes:

* `OrderArranged`, for any compose labels: `Order` serves each service and puts what a
  container depends on before it, unless that depends on it in turn. `Sound` is the
  invariant of the depth-first walk: the containers in order, those that the walk is
  still at (`B`), and the services seen are the same, and whatever is in order has what
  it depends on before it or leads back to it by way of `B`. `Correct` says that a visit
  keeps it, by induction over the levels left; `Enough`, that the levels do not run out.
* `KomodoIsAskedSparingly` (`[]FallbackSparing`) and `DenialsHaveACause`
  (`[]DeniedForCause`) of `ChecksSpec`, from `ChecksInv`: the state of the Once, that
  one check at most is loading (`OneLoader`), and what a check that was refused has
  tried (`CheckInv`). They are about CheckAll after CheckAll with one RegistryAuth;
  a daemon's passes are such CheckAlls (`PassesAreChecks`, a lemma: nothing else in a
  pass touches the credentials), so that both hold of them (`ChecksOfPassesHold`).
* `TypeCorrect`: `[]TypeOK`, with `Phases`, which says when the queue and `touched` are
  empty.
* `DependenciesComeFirst` (`[]DependenciesFirst`) and `NobodyIsForgotten`
  (`[]NoneForgotten`), from `OrderArranged`.
* `UpdatesAreWanted`: `[]OptInOnly`. `LastWord` says what comes of the layers:
  what the last one that mentions a setting says, labels that cannot be read aside;
  `Opted`, that a policy that was read is not read again within the pass.
* `UpdatesArePruned`: `[]PrunedAfterUpdates`, which with the types is inductive: all
  that were enabled are pruned in turn, and nobody takes a snapshot meanwhile.

`HelperRunProofs`, for any volume, any number of changes, pieces and room in the pipes:

* `TypeCorrect`: with it, no archive names anything twice.
* `FilesSpoilNothing`: `Spec => []VanishedFilesAreNormal`. `OrderInv`: what is written
  comes before what is still to be visited, and what is being read lies between.
  `FoundInv`: unless the container has taken one away, every directory and symlink
  that the walk has heard of is still there.
* `SuccessGivesBack`: `Spec => []SuccessIsWhole`. That all has arrived: `StreamInv`,
  the reader is through only when the helper is and all it wrote has arrived, unless the
  connection is gone; `CallerInv`, how far a caller to whom nothing has happened must
  have waited. That the archive gives back what was left alone is `GivingInv`, about what
  the archive would give back if it ended here (`Tree`; `ExtractedNext` says what one
  more entry does to it). `CoverInv`: what is steady is in the archive, or being read,
  or it or a directory above it is still to be visited or listed; it needs that below
  each directory there is a next one on the way to a name (`Descent`). `TreeInv`: what
  is in the archive and was not touched is there as it is, under its first name if it
  has several. `SeenInv`: what is remembered of an untouched inode is true and
  remembered once, so there is one first name. The container's steps keep all this
  because they show (`UntouchedStay`): an inode that it has not touched has the names
  and the contents it had.

The strengthened invariants were also checked with TLC on the instances of
section 3.

Only model-checked: liveness (`GateDecides`, `TurnsCome`, `PassEnds`, `RunEnds`), which
is beyond the prover. Every other property of a passing run is stated by a theorem.

## 6. What is not modelled

Decoding, encoding, flags, tables, messages and most of the engine's own API
(`runtime/client.go` and its neighbours) are left out: they keep no state. So are
which rule matches a container, the HTTP request to Komodo and the format of
credentials, modes and owners in archives, bind mounts (which behave as volumes),
restoring under another name, and `--no-health-check`. Several containers in one
store are not modelled: each has its own directory. The engine, the registry, cron,
the page cache, the file system and the kernel's locks are the environment,
modelled from how the code uses them and marked external in the map.

Details of modelled parts that are left out, since no property depends on them or
the same state is reached in another way: a compose run that fails after it has
stopped the old container and before it has removed it (in `ContainerUpdate` a
failing compose has done nothing, or removed the old container and created the new
one without starting it; only a Stop fails and takes effect on the old one); a
failed restore that has replaced the container already (`ContainerRuns!EndRestore`
reaches that state as a success); the tar trailer that `tw.Close` writes after a walk
that failed (`ArchiveWalk` then has no end mark); the helper's 64 KiB of messages, past
which its report may be cut short (`helper.go:113`). The two keys of one container's
lock are in `ContainerRuns` ("snapshotById"), but `runs_meet` has no such run, as
the mutual exclusion it checks would fail (section 4).

## 7. Plan

Done, in this order of importance: the store and its retention, the update of one
container, the locks, the schedule, the health gate, Restore beside the store,
passes over several containers with their checks, order and policies, archives and
helper containers; proofs for all of these. To come:

1. `RuleMatching`: which rules match, with the reference "the last that matches".
2. The composition of `ContainerUpdate` with `SnapshotStore`: a Take whose stopping
   and whose files fail together.

The number of runs is kept small; a new module's run replaces or joins one that
asks the same question.
