--------------------------- MODULE ScheduleProofs ---------------------------
(***************************************************************************)
(* For every period, clock and retention that keeps at least one snapshot: *)
(* where only scheduled backups count for retention, the store is a memory *)
(* to rely on, and no fire time is served twice or skipped.                *)
(***************************************************************************)
EXTENDS Schedule, IterationProofs

\* Update passes take no snapshots of the container, and Keep is above zero;
\* otherwise retention may delete the last scheduled snapshot (prune.go:89).
Remembers == Keep > 0 /\ ~Updates

IsScheduled(s) == s \in snaps /\ s.trigger = "schedule"

\* The last backup that was served is the newest scheduled snapshot, and what
\* was served once is over before the next.
MemoryInv ==
  /\ \A s \in snaps : s.at <= now /\ s.trigger # "update"
  /\ \A s \in snaps : IsScheduled(s) => \E e \in served : e[2] = s.at
  /\ served # {} => \E s \in snaps : /\ IsScheduled(s)
                                     /\ \A t \in snaps : IsScheduled(t) => t.at <= s.at
                                     /\ \A e \in served : e[2] <= s.at
  /\ \A e \in served : e[1] <= e[2]

\* A pass serves a fire time that lies behind all that has been served.
PassInv ==
  /\ pass.pc \in {"due", "take"} => pass.for <= now /\ \A e \in served : e[2] < pass.for
  /\ pass.pc = "take" => pass.for <= pass.at /\ pass.at <= now
  /\ daemon.since <= now

IInv == TypeOK /\ MemoryInv /\ PassInv /\ ServedOnce

-----------------------------------------------------------------------------
(* The clock *)

LEMMA NextFireIsAhead ==
  ASSUME NEW t \in Nat
  PROVE  NextFire(t) \in Nat /\ NextFire(t) > t
  BY PeriodAssumption, SMTT(30) DEF NextFire

LEMMA Rounds ==
  ASSUME NEW t \in Nat
  PROVE  t \div Period \in Nat /\ (t \div Period) * Period <= t
  BY PeriodAssumption, SMTT(30)

LEMMA TimesGrows ==
  ASSUME NEW i \in Nat, NEW j \in Nat, i <= j
  PROVE  i * Period <= j * Period
  BY PeriodAssumption, SMTT(30)

LEMMA NextFireIsNext ==
  ASSUME NEW t \in Nat, NEW n \in Nat, NextFire(t) > n
  PROVE  t >= (n \div Period) * Period
  <1> DEFINE q == t \div Period  m == n \div Period
  <1>1. q \in Nat /\ m \in Nat /\ q * Period <= t /\ m * Period <= n
    BY Rounds
  <1>2. (q + 1) * Period > n
    BY DEF NextFire
  <1> HIDE DEF q, m
  <1>3. q * Period \in Nat /\ m * Period \in Nat /\ (q + 1) * Period \in Nat
    BY <1>1, PeriodAssumption
  <1>4. m <= q
    <2>1. SUFFICES ASSUME q + 1 <= m PROVE FALSE
      BY <1>1
    <2>2. (q + 1) * Period <= m * Period
      BY <1>1, <2>1, TimesGrows
    <2>3. QED
      BY <1>1, <1>2, <1>3, <2>2
  <1>5. m * Period <= q * Period
    BY <1>1, <1>4, TimesGrows
  <1>6. m * Period <= t
    BY <1>1, <1>3, <1>5
  <1>7. QED
    BY <1>6 DEF m

-----------------------------------------------------------------------------
(* What the store remembers *)

LEMMA Typed ==
  ASSUME TypeOK
  PROVE  /\ now \in Nat /\ now <= MaxTime /\ daemon.up \in BOOLEAN /\ daemon.since \in Nat
         /\ pass.at \in Nat /\ pass.at <= MaxTime /\ pass.for \in Nat
         /\ \A s \in snaps : s.at \in Nat /\ s \in Snapshot
         /\ \A e \in served : e[1] \in Nat /\ e[2] \in Nat
  BY PeriodAssumption DEF TypeOK, Time, Snapshot

\* Counting starts where the last backup was served, or with the daemon.
LEMMA FromIsLast ==
  ASSUME TypeOK, MemoryInv
  PROVE  /\ From \in Nat /\ \A e \in served : e[2] <= From
         /\ \/ \E e \in served : e[2] = From
            \/ served = {} /\ From = daemon.since
  <1>1. CASE Scheduled = {}
    <2>1. \A s \in snaps : ~IsScheduled(s)
      BY <1>1 DEF Scheduled, IsScheduled
    <2>2. served = {}
      BY <2>1 DEF MemoryInv
    <2>3. QED
      BY <1>1, <2>2, Typed DEF From
  <1>2. CASE Scheduled # {}
    <2>1. PICK x \in snaps : IsScheduled(x)
      BY <1>2 DEF Scheduled, IsScheduled
    <2>2. PICK s \in snaps : /\ IsScheduled(s)
                             /\ \A t \in snaps : IsScheduled(t) => t.at <= s.at
                             /\ \A e \in served : e[2] <= s.at
      BY <2>1 DEF MemoryInv
    <2>3. s.at \in Scheduled /\ \A u \in Scheduled : u <= s.at
      BY <2>2 DEF Scheduled, IsScheduled
    <2>4. From \in Scheduled /\ \A u \in Scheduled : u <= From
      <3>1. From = CHOOSE t \in Scheduled : \A u \in Scheduled : u <= t
        BY <1>2 DEF From
      <3>2. QED
        BY <2>3, <3>1
    <2>5. PICK t \in snaps : IsScheduled(t) /\ From = t.at
      BY <2>4 DEF Scheduled, IsScheduled
    <2>6. From \in Nat /\ s.at \in Nat /\ \A e \in served : e[2] \in Nat
      BY <2>2, <2>5, Typed
    <2>7. \E e \in served : e[2] = From
      BY <2>5 DEF MemoryInv
    <2>8. s.at <= From
      BY <2>3, <2>4
    <2>9. \A e \in served : e[2] <= From
      BY <2>2, <2>6, <2>8
    <2>10. QED
      BY <2>6, <2>7, <2>9
  <1>3. QED
    BY <1>1, <1>2

\* Retention keeps the newest scheduled snapshot: none that counts is newer.
LEMMA KeptRemembers ==
  ASSUME Remembers, TypeOK, MemoryInv, snaps' = Kept, UNCHANGED <<now, served>>
  PROVE  snaps' \subseteq snaps /\ MemoryInv'
  <1>1. Kept \subseteq snaps
    BY DEF Kept
  <1>2. ASSUME NEW s \in snaps, IsScheduled(s),
               \A t \in snaps : IsScheduled(t) => t.at <= s.at
        PROVE  s \in Kept
    <2>1. {t \in {x \in snaps : x.trigger # "manual"} : t.at > s.at} = {}
      <3>1. ASSUME NEW t \in snaps, t.trigger # "manual" PROVE ~(t.at > s.at)
        <4>1. IsScheduled(t)
          BY <3>1 DEF MemoryInv, TypeOK, Snapshot, Trigger, IsScheduled
        <4>2. t.at <= s.at /\ t.at \in Nat /\ s.at \in Nat
          BY <1>2, <4>1, Typed
        <4>3. QED
          BY <4>2
      <3>2. QED
        BY <3>1
    <2>2. Cardinality({t \in {x \in snaps : x.trigger # "manual"} : t.at > s.at}) = 0
      BY <2>1, FS_EmptySet
    <2>3. 0 < Keep
      BY RetentionAssumption DEF Remembers
    <2>4. QED
      BY <2>2, <2>3 DEF Kept
  <1>3. \A s \in snaps' : IsScheduled(s)' <=> IsScheduled(s)
    BY <1>1 DEF IsScheduled
  <1>4. ASSUME served # {}
        PROVE  \E s \in snaps' : /\ IsScheduled(s)'
                                 /\ \A t \in snaps' : IsScheduled(t)' => t.at <= s.at
                                 /\ \A e \in served : e[2] <= s.at
    <2>1. PICK s \in snaps : /\ IsScheduled(s)
                             /\ \A t \in snaps : IsScheduled(t) => t.at <= s.at
                             /\ \A e \in served : e[2] <= s.at
      BY <1>4 DEF MemoryInv
    <2>2. s \in snaps'
      BY <1>2, <2>1
    <2>3. QED
      BY <1>1, <1>3, <2>1, <2>2
  <1>5. QED
    BY <1>1, <1>3, <1>4 DEF MemoryInv

\* A step that leaves the served backups alone, and adds no snapshot but manual
\* ones of now.
LEMMA QuietStep ==
  ASSUME TypeOK, MemoryInv, UNCHANGED served, now <= now', now' \in Nat,
         \/ UNCHANGED snaps
         \/ snaps' = snaps \cup {[at |-> now, trigger |-> "manual"]}
  PROVE  MemoryInv'
  <1>1. /\ snaps \subseteq snaps'
        /\ \A s \in snaps' : s \in snaps \/ (s.trigger = "manual" /\ s.at = now)
    OBVIOUS
  <1>2. \A s \in snaps' : IsScheduled(s)' <=> s \in snaps /\ IsScheduled(s)
    BY <1>1 DEF IsScheduled
  <1>3. \A s \in snaps' : s.at <= now' /\ s.trigger # "update"
    <2>1. \A s \in snaps : s.at <= now /\ s.at \in Nat /\ s.trigger # "update"
      BY Typed DEF MemoryInv
    <2>2. now \in Nat
      BY Typed
    <2>3. QED
      BY <1>1, <2>1, <2>2
  <1>4. QED
    BY <1>1, <1>2, <1>3 DEF MemoryInv

-----------------------------------------------------------------------------
(* The inductive invariant *)

LEMMA IInvInit == Init => IInv
  <1>1. SUFFICES ASSUME Init PROVE IInv
    OBVIOUS
  <1>2. 0 \in Time /\ 1 \in Time /\ 0 \in 0 .. MaxTime + Period
    BY PeriodAssumption DEF Time
  <1>3. \/ snaps = {} /\ served = {}
        \/ snaps = {[at |-> 0, trigger |-> "schedule"]} /\ served = {<<0, 0>>}
    BY <1>1 DEF Init
  <1>4. snaps \subseteq Snapshot /\ served \subseteq (0 .. MaxTime + Period) \X Time
    BY <1>2, <1>3 DEF Snapshot, Trigger
  <1>5. TypeOK
    <2>1. /\ now = 1 /\ daemon = [up |-> FALSE, since |-> 0] /\ lock = "free"
          /\ pass = [pc |-> "idle", at |-> 0, for |-> 0]
      BY <1>1 DEF Init, NoPass
    <2>2. pass \in [pc : {"idle", "due", "take", "prune"}, at : Time, for : 0 .. MaxTime + Period]
      BY <1>2, <2>1
    <2>3. now \in Time /\ daemon \in [up : BOOLEAN, since : Time]
          /\ lock \in {"free", "daemon", "other"}
      BY <1>2, <2>1
    <2>4. QED
      BY <1>4, <2>2, <2>3 DEF TypeOK
  <1>6. MemoryInv
    <2>1. now = 1
      BY <1>1 DEF Init
    <2>2. CASE snaps = {} /\ served = {}
      BY <2>2 DEF MemoryInv
    <2>3. CASE snaps = {[at |-> 0, trigger |-> "schedule"]} /\ served = {<<0, 0>>}
      <3>1. \A s \in snaps : s.at = 0 /\ s.trigger = "schedule" /\ IsScheduled(s)
        BY <2>3 DEF IsScheduled
      <3>2. \A e \in served : e[1] = 0 /\ e[2] = 0
        BY <2>3
      <3>3. (\E s \in snaps : TRUE) /\ \E e \in served : TRUE
        BY <2>3
      <3>4. QED
        BY <2>1, <3>1, <3>2, <3>3 DEF MemoryInv
    <2>4. QED
      BY <1>3, <2>2, <2>3
  <1>7. PassInv
    BY <1>1 DEF Init, PassInv, NoPass
  <1>8. ServedOnce
    BY <1>3 DEF ServedOnce
  <1>9. QED
    BY <1>5, <1>6, <1>7, <1>8 DEF IInv

\* Some scheduled snapshot is the last, whatever else is in the store.
LEMMA FromTyped ==
  ASSUME TypeOK
  PROVE  From \in Nat
  <1>1. CASE Scheduled = {}
    BY <1>1, Typed DEF From
  <1>2. CASE Scheduled # {}
    <2> DEFINE bounds == {n \in Nat : \A t \in Scheduled : t <= n}
    <2>1. \A t \in Scheduled : t \in Nat /\ t <= MaxTime
      BY DEF TypeOK, Scheduled, Snapshot, Time
    <2>2. MaxTime \in bounds
      BY <2>1, PeriodAssumption
    <2> HIDE DEF bounds
    <2>3. PICK n \in bounds : \A m \in bounds : n <= m
      <3>1. bounds \in SUBSET Nat
        BY DEF bounds
      <3>2. QED
        BY <2>2, <3>1, SmallestNumber
    <2>4. n \in Nat /\ \A t \in Scheduled : t <= n
      BY DEF bounds
    <2>5. n \in Scheduled
      <3>1. SUFFICES ASSUME n \notin Scheduled
                     PROVE  FALSE
        OBVIOUS
      <3>2. PICK t \in Scheduled : TRUE
        BY <1>2
      <3>3. n - 1 \in Nat /\ \A u \in Scheduled : u <= n - 1
        BY <2>1, <2>4, <3>1, <3>2
      <3>4. n - 1 \in bounds
        BY <3>3 DEF bounds
      <3>5. QED
        BY <2>3, <2>4, <3>4
    <2>6. From \in Scheduled
      <3>1. From = CHOOSE t \in Scheduled : \A u \in Scheduled : u <= t
        BY <1>2 DEF From
      <3>2. QED
        BY <2>4, <2>5, <3>1
    <2>7. QED
      BY <2>1, <2>6
  <1>3. QED
    BY <1>1, <1>2

LEMMA NextTyped ==
  ASSUME TypeOK, [Next]_vars
  PROVE  TypeOK'
  <1>0. /\ From \in Nat /\ NextFire(From) \in Nat
        /\ \A t \in Nat : t <= now => t \in 0 .. MaxTime + Period
    BY FromTyped, NextFireIsAhead, Typed, PeriodAssumption
  <1>1. /\ now \in Time /\ daemon \in [up : BOOLEAN, since : Time]
        /\ pass \in [pc : {"idle", "due", "take", "prune"}, at : Time, for : 0 .. MaxTime + Period]
        /\ lock \in {"free", "daemon", "other"} /\ snaps \subseteq Snapshot
        /\ served \subseteq (0 .. MaxTime + Period) \X Time
        /\ NoPass \in [pc : {"idle", "due", "take", "prune"}, at : Time, for : 0 .. MaxTime + Period]
    BY PeriodAssumption DEF TypeOK, NoPass, Time
  <1>2. CASE Tick
    <2>1. now' \in Time
      BY <1>1, <1>2, PeriodAssumption DEF Tick, Time
    <2>2. QED
      BY <1>1, <1>2, <2>1 DEF Tick, TypeOK
  <1>3. CASE StartDaemon \/ StopDaemon
    <2>1. /\ \/ daemon' = [up |-> TRUE, since |-> now]
             \/ daemon' = [daemon EXCEPT !.up = FALSE]
          /\ pass' = pass \/ pass' = NoPass
          /\ lock' = lock \/ lock' = "free"
          /\ UNCHANGED <<now, snaps, served>>
      BY <1>3 DEF StartDaemon, StopDaemon
    <2>2. daemon' \in [up : BOOLEAN, since : Time]
      <3>1. TRUE \in BOOLEAN /\ FALSE \in BOOLEAN
        OBVIOUS
      <3>2. CASE daemon' = [up |-> TRUE, since |-> now]
        BY <1>1, <3>1, <3>2
      <3>3. CASE daemon' = [daemon EXCEPT !.up = FALSE]
        BY <1>1, <3>1, <3>3
      <3>4. QED
        BY <2>1, <3>2, <3>3
    <2>3. QED
      BY <1>1, <2>1, <2>2 DEF TypeOK
  <1>4. CASE Check
    <2>1. NextFire(From) \in 0 .. MaxTime + Period
      BY <1>0, <1>4 DEF Check, Due
    <2>2. pass' = [NoPass EXCEPT !.pc = "due", !.for = NextFire(From)]
      BY <1>4 DEF Check
    <2>3. QED
      BY <1>1, <1>4, <2>1, <2>2 DEF Check, TypeOK
  <1>5. CASE Lock
    BY <1>1, <1>5 DEF Lock, TypeOK
  <1>6. CASE Backup
    <2>1. [at |-> pass.at, trigger |-> "schedule"] \in Snapshot
          /\ <<pass.for, pass.at>> \in (0 .. MaxTime + Period) \X Time
      BY <1>1 DEF Snapshot, Trigger
    <2>2. QED
      BY <1>1, <1>6, <2>1 DEF Backup, TypeOK
  <1>7. CASE Prune \/ OtherPrunes
    <2>1. Kept \subseteq snaps
      BY DEF Kept
    <2>2. QED
      BY <1>1, <1>7, <2>1 DEF Prune, OtherPrunes, TypeOK
  <1>8. CASE OtherLocks
    BY <1>1, <1>8 DEF OtherLocks, TypeOK
  <1>9. CASE OtherReleases
    <2>1. \A trigger \in {"manual", "update"} : [at |-> now, trigger |-> trigger] \in Snapshot
      BY <1>1 DEF Snapshot, Trigger
    <2>2. snaps' \subseteq Snapshot
      BY <1>1, <1>9, <2>1 DEF OtherReleases
    <2>3. QED
      BY <1>1, <1>9, <2>2 DEF OtherReleases, TypeOK
  <1>10. CASE UNCHANGED vars
    BY <1>1, <1>10 DEF vars, TypeOK
  <1>11. QED
    BY <1>2, <1>3, <1>4, <1>5, <1>6, <1>7, <1>8, <1>9, <1>10 DEF Next

\* The one step that serves a fire time: it lies behind all served before, and
\* its snapshot is the newest from now on.
LEMMA BackupServes ==
  ASSUME IInv, Backup, UNCHANGED <<now, daemon>>,
         snaps' = snaps \cup {[at |-> pass.at, trigger |-> "schedule"]},
         served' = served \cup {<<pass.for, pass.at>>}
  PROVE  MemoryInv' /\ ServedOnce'
  <1>1. /\ pass.for <= pass.at /\ pass.at <= now /\ \A e \in served : e[2] < pass.for
        /\ MemoryInv /\ ServedOnce /\ TypeOK
    BY DEF IInv, PassInv, Backup
  <1>2. /\ pass.for \in Nat /\ pass.at \in Nat /\ now \in Nat
        /\ \A e \in served : e[1] \in Nat /\ e[2] \in Nat /\ e[1] <= e[2]
        /\ \A s \in snaps : s.at \in Nat
    BY <1>1, Typed DEF MemoryInv
  <1>a. PICK s0 : s0 = [at |-> pass.at, trigger |-> "schedule"]
    OBVIOUS
  <1>b. PICK e0 : e0 = <<pass.for, pass.at>>
    OBVIOUS
  <1>3. s0 \in snaps' /\ s0.at = pass.at /\ s0.trigger = "schedule"
        /\ e0 \in served' /\ e0[1] = pass.for /\ e0[2] = pass.at
    BY <1>a, <1>b
  <1>4. \A s \in snaps' : s = s0 \/ (s \in snaps /\ (IsScheduled(s)' <=> IsScheduled(s)))
    BY <1>a DEF IsScheduled
  <1>5. \A e \in served' : e = e0 \/ e \in served
    BY <1>b
  <1>6. \A t \in snaps' : IsScheduled(t)' => t.at <= s0.at
    <2>1. SUFFICES ASSUME NEW t \in snaps, IsScheduled(t) PROVE t.at <= pass.at
      BY <1>2, <1>3, <1>4
    <2>2. PICK e \in served : e[2] = t.at
      BY <1>1, <2>1 DEF MemoryInv
    <2>3. QED
      BY <1>1, <1>2, <2>2
  <1>7. \A e \in served' : e[2] <= s0.at /\ e[1] <= e[2]
    BY <1>1, <1>2, <1>3, <1>5
  <1>8. \A s \in snaps' : /\ s.at <= now' /\ s.trigger # "update"
                          /\ IsScheduled(s)' => \E e \in served' : e[2] = s.at
    <2>1. TAKE s \in snaps'
    <2>2. CASE s = s0
      BY <1>1, <1>3, <2>2
    <2>3. CASE s \in snaps /\ (IsScheduled(s)' <=> IsScheduled(s))
      BY <1>1, <2>3 DEF MemoryInv
    <2>4. QED
      BY <1>4, <2>2, <2>3
  <1>9. MemoryInv'
    <2>1. IsScheduled(s0)'
      BY <1>3 DEF IsScheduled
    <2>2. QED
      BY <1>3, <1>6, <1>7, <1>8, <2>1 DEF MemoryInv
  <1>10. ServedOnce'
    <2>1. SUFFICES ASSUME NEW a \in served', NEW b \in served', a[2] < b[2]
                   PROVE  a[1] < b[1] /\ a[2] < b[1]
      BY DEF ServedOnce
    <2>2. CASE a \in served /\ b \in served
      BY <1>1, <2>1, <2>2 DEF ServedOnce
    <2>3. CASE a \in served /\ b = e0
      BY <1>1, <1>2, <1>3, <2>3
    <2>4. CASE a = e0
      BY <1>1, <1>2, <1>3, <1>5, <2>1, <2>4
    <2>5. QED
      BY <1>5, <2>2, <2>3, <2>4
  <1>11. QED
    BY <1>9, <1>10

LEMMA IInvStep ==
  ASSUME Remembers, IInv, [Next]_vars
  PROVE  IInv'
  <1>0. /\ TypeOK /\ MemoryInv /\ PassInv /\ ServedOnce /\ TypeOK'
        /\ now \in Nat /\ daemon.since \in Nat /\ pass.for \in Nat /\ pass.at \in Nat
        /\ \A e \in served : e[2] \in Nat
    BY NextTyped, Typed DEF IInv
  <1>1. CASE Tick \/ StartDaemon \/ StopDaemon \/ OtherLocks \/ UNCHANGED vars
    <2>1. UNCHANGED <<snaps, served>> /\ now <= now' /\ now' \in Nat
      BY <1>0, <1>1 DEF Tick, StartDaemon, StopDaemon, OtherLocks, vars
    <2>2. daemon'.since <= now'
      BY <1>0, <1>1 DEF Tick, StartDaemon, StopDaemon, OtherLocks, vars, PassInv, TypeOK
    <2>3. pass' = pass \/ pass'.pc = "idle"
      BY <1>1 DEF Tick, StartDaemon, StopDaemon, OtherLocks, vars, NoPass
    <2>4. MemoryInv'
      BY <1>0, <2>1, QuietStep
    <2>5. PassInv'
      BY <1>0, <2>1, <2>2, <2>3 DEF PassInv
    <2>6. QED
      BY <1>0, <2>1, <2>4, <2>5 DEF IInv, ServedOnce
  <1>2. CASE Check
    <2>1. /\ pass'.pc = "due" /\ pass'.for = NextFire(From) /\ NextFire(From) <= now
          /\ UNCHANGED <<now, daemon, lock, snaps, served>>
      BY <1>2 DEF Check, Due, NoPass
    <2>2. \A e \in served : e[2] < NextFire(From)
      BY <1>0, FromIsLast, NextFireIsAhead
    <2>3. MemoryInv'
      BY <1>0, <2>1, QuietStep
    <2>4. PassInv'
      BY <1>0, <2>1, <2>2 DEF PassInv
    <2>5. QED
      BY <1>0, <2>1, <2>3, <2>4 DEF IInv, ServedOnce
  <1>3. CASE Lock
    <2>1. /\ UNCHANGED <<now, daemon, snaps, served>> /\ pass.pc = "due"
          /\ \/ pass'.pc = "take" /\ pass'.at = now /\ pass'.for = pass.for
             \/ pass'.pc = "idle"
      <3>1. /\ UNCHANGED <<now, daemon, snaps, served>> /\ pass.pc = "due"
            /\ pass' = [pass EXCEPT !.pc = "take", !.at = now] \/ pass' = NoPass
        BY <1>3 DEF Lock
      <3>2. pass \in [pc : {"idle", "due", "take", "prune"}, at : Time, for : 0 .. MaxTime + Period]
        BY <1>0 DEF TypeOK
      <3>3. CASE pass' = [pass EXCEPT !.pc = "take", !.at = now]
        BY <3>1, <3>2, <3>3
      <3>4. CASE pass' = NoPass
        BY <3>1, <3>4 DEF NoPass
      <3>5. QED
        BY <3>1, <3>3, <3>4
    <2>2. MemoryInv'
      BY <1>0, <2>1, QuietStep
    <2>3. PassInv'
      BY <1>0, <2>1 DEF PassInv
    <2>4. QED
      BY <1>0, <2>1, <2>2, <2>3 DEF IInv, ServedOnce
  <1>4. CASE Backup
    <2>1. UNCHANGED <<now, daemon>> /\ pass'.pc \in {"idle", "prune"}
      BY <1>0, <1>4 DEF Backup, NoPass, TypeOK
    <2>2. PassInv'
      BY <1>0, <2>1 DEF PassInv
    <2>3. CASE UNCHANGED <<snaps, served>>
      <3>1. MemoryInv'
        BY <1>0, <2>1, <2>3, QuietStep
      <3>2. QED
        BY <1>0, <2>2, <2>3, <3>1 DEF IInv, ServedOnce
    <2>4. CASE /\ snaps' = snaps \cup {[at |-> pass.at, trigger |-> "schedule"]}
               /\ served' = served \cup {<<pass.for, pass.at>>}
      BY <1>0, <1>4, <2>1, <2>2, <2>4, BackupServes DEF IInv
    <2>5. QED
      BY <1>4, <2>3, <2>4 DEF Backup
  <1>5. CASE Prune \/ OtherPrunes
    <2>1. UNCHANGED <<now, daemon, served>> /\ snaps' = Kept
          /\ (pass' = pass \/ pass'.pc = "idle")
      BY <1>5 DEF Prune, OtherPrunes, NoPass
    <2>2. MemoryInv'
      BY <1>0, <2>1, KeptRemembers
    <2>3. PassInv'
      BY <1>0, <2>1 DEF PassInv
    <2>4. QED
      BY <1>0, <2>1, <2>2, <2>3 DEF IInv, ServedOnce
  <1>6. CASE OtherReleases
    <2>1. UNCHANGED <<now, daemon, pass, served>>
          /\ (UNCHANGED snaps \/ snaps' = snaps \cup {[at |-> now, trigger |-> "manual"]})
      BY <1>6 DEF OtherReleases, Remembers
    <2>2. MemoryInv'
      BY <1>0, <2>1, QuietStep
    <2>3. PassInv'
      BY <1>0, <2>1 DEF PassInv
    <2>4. QED
      BY <1>0, <2>1, <2>2, <2>3 DEF IInv, ServedOnce
  <1>7. QED
    BY <1>1, <1>2, <1>3, <1>4, <1>5, <1>6 DEF Next

-----------------------------------------------------------------------------

\* The daemon, its pass, the lock and the snapshots keep to their ranges, also
\* where retention forgets when a backup was taken (scheduledBackups in
\* cli/daemon.go): the time a pass is for is never further off than the next
\* after the clock's bound.
THEOREM TypeCorrect == Spec => []TypeOK
  <1>1. Init => TypeOK
    BY IInvInit DEF IInv
  <1>2. TypeOK /\ [Next]_vars => TypeOK'
    BY NextTyped
  <1>3. QED
    BY <1>1, <1>2, PTL DEF Spec

\* No fire time is served twice, and each serves one that lies behind all that
\* was served (schedule.go:5-7), through any restarts of the daemon.
THEOREM NothingIsServedTwice == ASSUME Remembers PROVE Spec => []ServedOnce
  <1>1. IInv /\ [Next]_vars => IInv'
    BY IInvStep
  <1>2. IInv => ServedOnce
    BY DEF IInv
  <1>3. QED
    BY <1>1, <1>2, IInvInit, PTL DEF Spec

\* What is not due has been served since it last fired, or never and the daemon
\* is younger than that (schedule.go:71-85).
THEOREM NothingIsSkipped == ASSUME Remembers PROVE Spec => []NoneSkipped
  <1>1. IInv /\ [Next]_vars => IInv'
    BY IInvStep
  <1>2. IInv => NoneSkipped
    <2>1. SUFFICES ASSUME IInv, ~Due
                   PROVE  \/ \E e \in served : e[2] >= LastFire
                          \/ served = {} /\ daemon.since >= LastFire
      BY DEF NoneSkipped
    <2>2. now \in Nat /\ From \in Nat /\ NextFire(From) \in Nat
      BY <2>1, Typed, FromIsLast, NextFireIsAhead DEF IInv
    <2>3. From >= LastFire
      BY <2>1, <2>2, NextFireIsNext DEF Due, LastFire
    <2>4. QED
      BY <2>1, <2>3, FromIsLast DEF IInv
  <1>3. QED
    BY <1>1, <1>2, IInvInit, PTL DEF Spec
=============================================================================
