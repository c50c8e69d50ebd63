--------------------------- MODULE ContainerRuns ---------------------------
(***************************************************************************)
(* The runs that meet on one container: passes of the daemon, which list   *)
(* the containers, ask the registries and then try each lock once          *)
(* (cli/daemon.go), and commands, which wait for it (cli/update.go,        *)
(* cli/snapshot.go, cli/restore.go), over the file locks of lock/lock.go.  *)
(*                                                                         *)
(* What a run does under the lock is a beginning and an end here;          *)
(* ContainerUpdate has the detail.  The container is counted in            *)
(* incarnations: replacing it makes the next one, with an id of its own.   *)
(***************************************************************************)
EXTENDS Naturals, FiniteSets

CONSTANTS
  Runs,          \* the runs
  KindOf,        \* KindOf[r]: what r is
  SnapshotFirst, \* whether updates take a snapshot before anything else
  MaxAge,        \* bound on the incarnations of the container
  MaxRelease     \* bound on the releases in the registry

Kind == {"updatePass", "backupPass", "update", "restore", "snapshot", "snapshotById"}

ASSUME RunsAssumption == KindOf \in [Runs -> Kind]
ASSUME OptionsAssumption == SnapshotFirst \in BOOLEAN
ASSUME BoundsAssumption == MaxAge \in Nat /\ MaxRelease \in Nat

VARIABLES
  age,       \* the incarnation the container is in
  image,     \* the release it runs
  newest,    \* the release its tag stands for in the registry
  holders,   \* holders[k]: the runs with an flock on lock file k
  run        \* run[r]: where r is

vars == <<age, image, newest, holders, run>>

\* The key is the name of the container as it was typed: it may be its id.
Key == {"name", "id"}
\* Mutant: backups and updates have lock files of their own.
KeyOfKind(r) == IF KindOf[r] \in {"backupPass", "snapshot"} THEN "id" ELSE "name"

KeyOf(r) == IF KindOf[r] = "snapshotById" THEN "id" ELSE "name"

Commands == {r \in Runs : KindOf[r] \in {"update", "restore", "snapshot", "snapshotById"}}
Updates == {r \in Runs : KindOf[r] \in {"updatePass", "update"}}
Restores == {r \in Runs : KindOf[r] = "restore"}
Backups == {r \in Runs : KindOf[r] \in {"backupPass", "snapshot", "snapshotById"}}

Age == 0 .. MaxAge
Release == 0 .. MaxRelease

Unstarted == [pc |-> "start", seen |-> 0, due |-> FALSE, began |-> 0, outcome |-> "none"]
RunState ==
  [pc : {"start", "lock", "begin", "end", "done"},
   seen : Age,       \* the incarnation that was listed
   due : BOOLEAN,    \* what the registry check said
   began : Age,      \* the incarnation the work began on
   outcome : {"none", "skipped", "uptodate", "ok", "nochange", "failed"}]

TypeOK ==
  /\ age \in Age /\ image \in Release /\ newest \in Release
  /\ holders \in [Key -> SUBSET Runs]
  /\ run \in [Runs -> RunState]

Init ==
  /\ age = 0 /\ image = 0 /\ newest = 0
  /\ holders = [k \in Key |-> {}]
  /\ run = [r \in Runs |-> Unstarted]

-----------------------------------------------------------------------------

NewRelease ==
  /\ newest < MaxRelease
  /\ newest' = newest + 1
  /\ UNCHANGED <<age, image, holders, run>>

\* Select lists the container and CheckAll asks for its digest, before any lock.
Choose(r) ==
  /\ run[r].pc = "start"
  /\ run' = [run EXCEPT ![r].pc = "lock", ![r].seen = age, ![r].due = (image # newest)]
  /\ UNCHANGED <<age, image, newest, holders>>

\* Mutant: the lock file is opened but not locked.
AcquireAnyway(r) ==
  /\ run[r].pc = "lock"
  /\ holders' = [holders EXCEPT ![KeyOf(r)] = @ \cup {r}]
  /\ run' = [run EXCEPT ![r].pc = "begin"]
  /\ UNCHANGED <<age, image, newest>>

\* Mutant: locks belong to the process, as those of fcntl do, and closing the
\* file once more drops the lock of the other loop.
AcquirePosix(r) ==
  /\ run[r].pc = "lock"
  /\ IF holders[KeyOf(r)] = {}
       THEN /\ holders' = [holders EXCEPT ![KeyOf(r)] = {r}]
            /\ run' = [run EXCEPT ![r].pc = "begin"]
       ELSE /\ r \notin Commands
            /\ run' = [run EXCEPT ![r].pc = "done", ![r].outcome = "skipped"]
            /\ holders' = [holders EXCEPT ![KeyOf(r)] = {q \in @ : q \in Commands}]
  /\ UNCHANGED <<age, image, newest>>

\* flock with LOCK_NB: a pass is turned away at once, a command asks again.
Acquire(r) ==
  /\ run[r].pc = "lock"
  /\ IF holders[KeyOf(r)] = {}
       THEN /\ holders' = [holders EXCEPT ![KeyOf(r)] = {r}]
            /\ run' = [run EXCEPT ![r].pc = "begin"]
       ELSE /\ r \notin Commands
            /\ run' = [run EXCEPT ![r].pc = "done", ![r].outcome = "skipped"]
            /\ UNCHANGED holders
  /\ UNCHANGED <<age, image, newest>>

\* A command that waits may be interrupted.
GiveUp(r) ==
  /\ run[r].pc = "lock" /\ r \in Commands
  /\ run' = [run EXCEPT ![r].pc = "done", ![r].outcome = "skipped"]
  /\ UNCHANGED <<age, image, newest, holders>>

\* Mutant: the lock file outlives a run that fails.
LeaveLocked(r, outcome) ==
  /\ run' = [run EXCEPT ![r].pc = "done", ![r].outcome = outcome]
  /\ holders' = [holders EXCEPT ![KeyOf(r)] = IF outcome = "failed" THEN @ ELSE @ \ {r}]

Leave(r, outcome) ==
  /\ run' = [run EXCEPT ![r].pc = "done", ![r].outcome = outcome]
  /\ holders' = [holders EXCEPT ![KeyOf(r)] = @ \ {r}]

\* Mutant: every run looks the container up by its name.
StaleIdNever(r) == FALSE

\* The id that was listed is the one Take and Detail ask for; commands that
\* restore or snapshot look the container up under the lock.
StaleId(r) ==
  /\ run[r].seen # age
  /\ (r \in Updates /\ SnapshotFirst) \/ KindOf[r] = "backupPass"

\* Mutant: the work is counted to the incarnation it will lead to.
BeginAhead(r) ==
  /\ run[r].pc = "begin"
  /\ run' = [run EXCEPT ![r].pc = "end", ![r].began = age + 1]
  /\ UNCHANGED <<age, image, newest, holders>>

Begin(r) ==
  /\ run[r].pc = "begin"
  /\ IF r \in Updates /\ ~run[r].due THEN Leave(r, "uptodate")
     ELSE IF StaleId(r) THEN Leave(r, "failed")
     ELSE /\ run' = [run EXCEPT ![r].pc = "end", ![r].began = age]
          /\ UNCHANGED holders
  /\ UNCHANGED <<age, image, newest>>

Replace(release) ==
  /\ age < MaxAge
  /\ age' = age + 1
  /\ image' = release

\* An update replaces the container.  Compose finds nothing to do when the
\* release is already running; whether the container was replaced is then
\* judged by the id that was listed.  A failed one may have replaced it, too.
EndUpdate(r) ==
  /\ r \in Updates /\ run[r].pc = "end"
  /\ \/ Replace(newest) /\ Leave(r, "ok")
     \/ /\ image = newest
        /\ Leave(r, IF run[r].seen # age THEN "ok" ELSE "nochange")
        /\ UNCHANGED <<age, image>>
     \/ Leave(r, "failed") /\ (UNCHANGED <<age, image>> \/ \E release \in {image, newest} : Replace(release))
  /\ UNCHANGED newest

\* A restore goes back to some earlier release.
EndRestore(r) ==
  /\ r \in Restores /\ run[r].pc = "end"
  /\ \/ (\E release \in 0 .. image : Replace(release)) /\ Leave(r, "ok")
     \/ Leave(r, "failed") /\ UNCHANGED <<age, image>>
  /\ UNCHANGED newest

EndBackup(r) ==
  /\ r \in Backups /\ run[r].pc = "end"
  /\ \E outcome \in {"ok", "failed"} : Leave(r, outcome)
  /\ UNCHANGED <<age, image, newest>>

\* A process dies; the kernel closes its lock file.
Crash(r) ==
  /\ run[r].pc \in {"lock", "begin", "end"}
  /\ Leave(r, "failed")
  /\ UNCHANGED <<age, image, newest>>

Proceed(r) == Choose(r) \/ Acquire(r) \/ Begin(r) \/ EndUpdate(r) \/ EndRestore(r) \/ EndBackup(r)

Next == NewRelease \/ \E r \in Runs : Proceed(r) \/ GiveUp(r) \/ Crash(r)

Spec == Init /\ [][Next]_vars

\* Every run that can go on does; nobody is made to give up or to crash.
FairSpec == Spec /\ \A r \in Runs : WF_vars(Proceed(r))

-----------------------------------------------------------------------------
(* Properties *)

\* "the one thing that must never happen concurrently - two runs touching the
\* same container - still cannot" (daemon.go:77-79).
Working(r) == run[r].pc \in {"begin", "end"}
Exclusive == \A q, r \in Runs : Working(q) /\ Working(r) => q = r

\* The inductive invariant behind it: who works holds the file of its key, and
\* alone.
LockInv ==
  /\ \A r \in Runs : Working(r) => holders[KeyOf(r)] = {r}
  /\ \A k \in Key : \A r \in holders[k] : Working(r) /\ KeyOf(r) = k

\* The one behind SnapshotOfOneState: while a run that has locked the name works,
\* nothing replaces the container but that run.
SameIncarnation ==
  \A r \in Runs : KeyOf(r) = "name" /\ run[r].pc = "end" => run[r].began = age

\* A snapshot that is published shows one incarnation of the container: never
\* "a state that never existed" (lock.go:9-12).
SnapshotOfOneState ==
  [][\A r \in Backups : run[r].outcome = "none" /\ run'[r].outcome = "ok" => run[r].began = age]_vars

\* "A strategy that hands back the same container did not replace anything"
\* (update.go:239-242): an update that is reported has replaced the container.
HonestUpdate ==
  [][\A r \in Updates : run[r].outcome = "none" /\ run'[r].outcome = "ok" => age' # age]_vars

\* What the runs are to the container is what ContainerMutex allows: they take
\* turns, and between two turns nothing replaces it.
Owners == {r \in Runs : Working(r)}
Mutex == INSTANCE ContainerMutex WITH owners <- Owners
MutexSpec == Mutex!Spec

\* Nobody waits for ever: every command typed gets its turn or is refused.
TurnsCome == \A r \in Runs : run[r].pc = "lock" ~> run[r].pc = "done"
=============================================================================
