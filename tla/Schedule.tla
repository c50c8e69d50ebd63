------------------------------ MODULE Schedule ------------------------------
(***************************************************************************)
(* Scheduled backups of one container: the daemon's minute loop            *)
(* (cli/daemon.go, scheduledBackups) and schedule.Checker, which keeps no  *)
(* state of its own but reads the last scheduled run back from the store,  *)
(* next to everything else that changes the store or holds the container's *)
(* lock.  Time is counted in steps of the clock; the cron expression fires *)
(* at the multiples of Period.                                             *)
(***************************************************************************)
EXTENDS Integers, FiniteSets

CONSTANTS
  Period,        \* the distance between two fire times
  MaxTime,       \* bound on the clock
  Keep, Days,    \* the retention of the container; manual snapshots are protected
  Updates,       \* whether update passes take snapshots of the container too
  Backdated      \* whether a daemon may find scheduled snapshots older than itself

ASSUME PeriodAssumption == Period \in Nat \ {0} /\ MaxTime \in Nat \ {0}
ASSUME RetentionAssumption == Keep \in Nat /\ Days \in Nat /\ (Keep > 0 \/ Days > 0)
ASSUME EnvAssumption == Updates \in BOOLEAN /\ Backdated \in BOOLEAN

VARIABLES
  now,      \* the time
  daemon,   \* [up, since]: whether it runs, and since when
  pass,     \* the pass in progress
  lock,     \* who holds the container's lock
  snaps,    \* the snapshots in the store
  served    \* history: <<fire time, time>> for each scheduled backup published

vars == <<now, daemon, pass, lock, snaps, served>>

Time == 0 .. MaxTime
Trigger == {"schedule", "update", "manual"}
Snapshot == [at : Time, trigger : Trigger]

NoPass == [pc |-> "idle", at |-> 0, for |-> 0]

TypeOK ==
  /\ now \in Time
  /\ daemon \in [up : BOOLEAN, since : Time]
  /\ pass \in [pc : {"idle", "due", "take", "prune"}, at : Time, for : 0 .. MaxTime + Period]
  /\ lock \in {"free", "daemon", "other"}
  /\ snaps \subseteq Snapshot
  /\ served \subseteq (0 .. MaxTime + Period) \X Time

Init ==
  /\ now = 1
  /\ daemon = [up |-> FALSE, since |-> 0]
  /\ pass = NoPass
  /\ lock = "free"
  /\ snaps \in {{}} \cup (IF Backdated THEN {{[at |-> 0, trigger |-> "schedule"]}} ELSE {})
  /\ served = {<<s.at, s.at>> : s \in snaps}

-----------------------------------------------------------------------------
(* schedule.Checker *)

\* cron.Schedule.Next: the first fire time after t.
NextFire(t) == (t \div Period + 1) * Period

Scheduled == {s.at : s \in {x \in snaps : x.trigger = "schedule"}}

\* Mutant: a run before the daemon's start does not count.
FromStart ==
  IF \A t \in Scheduled : t < daemon.since THEN daemon.since
  ELSE CHOOSE t \in Scheduled : \A u \in Scheduled : u <= t

\* Mutant: the first scheduled snapshot in the store is taken for the last.
FromOldest ==
  IF Scheduled = {} THEN daemon.since
  ELSE CHOOSE t \in Scheduled : \A u \in Scheduled : t <= u

\* Counting starts from the last scheduled snapshot in the store, or, where
\* there is none, from the start of the daemon.
From ==
  IF Scheduled = {} THEN daemon.since
  ELSE CHOOSE t \in Scheduled : \A u \in Scheduled : u <= t

Due == NextFire(From) <= now

-----------------------------------------------------------------------------
(* scheduledBackups *)

Tick == now < MaxTime /\ now' = now + 1 /\ UNCHANGED <<daemon, pass, lock, snaps, served>>

\* Mutant: counting starts with the first tick rather than with the daemon.
StartDaemonLate ==
  /\ ~daemon.up
  /\ daemon' = [up |-> TRUE, since |-> now + 1]
  /\ UNCHANGED <<now, pass, lock, snaps, served>>

StartDaemon ==
  /\ ~daemon.up
  /\ daemon' = [up |-> TRUE, since |-> now]
  /\ UNCHANGED <<now, pass, lock, snaps, served>>

\* It is stopped or dies; the kernel drops its lock, and a snapshot in
\* progress never becomes visible.
StopDaemon ==
  /\ daemon.up
  /\ daemon' = [daemon EXCEPT !.up = FALSE]
  /\ pass' = NoPass
  /\ lock' = IF lock = "daemon" THEN "free" ELSE lock
  /\ UNCHANGED <<now, snaps, served>>

Check ==
  /\ daemon.up /\ pass.pc = "idle"
  /\ Due
  /\ pass' = [NoPass EXCEPT !.pc = "due", !.for = NextFire(From)]
  /\ UNCHANGED <<now, daemon, lock, snaps, served>>

\* TryAcquire: a container that is busy is left for the next tick.
Lock ==
  /\ pass.pc = "due"
  /\ IF lock = "free"
       THEN pass' = [pass EXCEPT !.pc = "take", !.at = now] /\ lock' = "daemon"
       ELSE pass' = NoPass /\ UNCHANGED lock
  /\ UNCHANGED <<now, daemon, snaps, served>>

\* The snapshot carries the time its Take started.  One that fails is due
\* again on the next tick.
Backup ==
  /\ pass.pc = "take"
  /\ lock' = "free"
  /\ \/ pass' = NoPass /\ UNCHANGED <<snaps, served>>
     \/ /\ \A s \in snaps : s.at # pass.at
        /\ snaps' = snaps \cup {[at |-> pass.at, trigger |-> "schedule"]}
        /\ served' = served \cup {<<pass.for, pass.at>>}
        /\ pass' = [pass EXCEPT !.pc = "prune"]
  /\ UNCHANGED <<now, daemon>>

\* The Keep most recent and those younger than Days stay, and all manual ones.
Kept ==
  LET routine == {s \in snaps : s.trigger # "manual"} IN
  {s \in snaps : \/ s.trigger = "manual"
                 \/ Cardinality({t \in routine : t.at > s.at}) < Keep
                 \/ Days > 0 /\ s.at > now - Days}

Prune ==
  /\ pass.pc = "prune"
  /\ pass' = NoPass
  /\ snaps' = Kept
  /\ UNCHANGED <<now, daemon, lock, served>>

-----------------------------------------------------------------------------
(* Update passes, commands, and their retention *)

OtherLocks == lock = "free" /\ lock' = "other" /\ UNCHANGED <<now, daemon, pass, snaps, served>>

OtherReleases ==
  /\ lock = "other"
  /\ lock' = "free"
  /\ \/ UNCHANGED snaps
     \/ /\ \A s \in snaps : s.at # now
        /\ \E trigger \in {"manual"} \cup (IF Updates THEN {"update"} ELSE {}) :
             snaps' = snaps \cup {[at |-> now, trigger |-> trigger]}
  /\ UNCHANGED <<now, daemon, pass, served>>

OtherPrunes == snaps' = Kept /\ UNCHANGED <<now, daemon, pass, lock, served>>

Next == Tick \/ StartDaemon \/ StopDaemon \/ Check \/ Lock \/ Backup \/ Prune
        \/ OtherLocks \/ OtherReleases \/ OtherPrunes

Spec == Init /\ [][Next]_vars

-----------------------------------------------------------------------------
(* Properties *)

\* "a restarted daemon neither repeats a backup it already took"
\* (schedule.go:5-7): no fire time is served twice, and none after a later one.
ServedOnce == \A a, b \in served : a[2] < b[2] => a[1] < b[1] /\ a[2] < b[1]

\* "nor silently skips one it owes": what a pass finds not to be due has been
\* backed up since it last fired, unless the container never was backed up on
\* schedule and nothing has fired since the daemon started.
LastFire == (now \div Period) * Period
NoneSkipped ==
  daemon.up /\ ~Due =>
    \/ \E e \in served : e[2] >= LastFire
    \/ served = {} /\ daemon.since >= LastFire
=============================================================================
