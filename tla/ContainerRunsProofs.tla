------------------------ MODULE ContainerRunsProofs ------------------------
(***************************************************************************)
(* For any number of runs: as long as every command names the container by *)
(* its name, no two work on it at once, and a snapshot never mixes two     *)
(* incarnations of it.                                                     *)
(***************************************************************************)
EXTENDS ContainerRuns, TLAPS

\* Nobody types an id where a name is meant (cli/snapshot.go:50 takes either).
ByName == \A r \in Runs : KindOf[r] # "snapshotById"

IInv == TypeOK /\ LockInv /\ SameIncarnation

LEMMA OneKey == ASSUME ByName, NEW r \in Runs PROVE KeyOf(r) = "name"
  BY DEF ByName, KeyOf

\* What a step makes of one run, the others staying as they are.
LEMMA RunUpdates ==
  ASSUME run \in [Runs -> RunState], NEW r \in Runs, NEW st \in RunState,
         run' = [run EXCEPT ![r] = st]
  PROVE  /\ run' \in [Runs -> RunState] /\ run'[r] = st
         /\ \A q \in Runs : q # r => run'[q] = run[q]
  OBVIOUS

\* A run that leaves, for whatever reason, gives its lock back.
LEMMA LeaveUpdates ==
  ASSUME TypeOK, LockInv, NEW r \in Runs,
         NEW outcome \in {"uptodate", "ok", "nochange", "failed"}, Leave(r, outcome)
  PROVE  /\ holders' \in [Key -> SUBSET Runs]
         /\ run' \in [Runs -> RunState]
         /\ run'[r].pc = "done"
         /\ \A q \in Runs : q # r => run'[q] = run[q]
         /\ LockInv'
  <1>1. KeyOf(r) \in Key
    BY DEF KeyOf, Key
  <1>2. /\ run' = [run EXCEPT ![r].pc = "done", ![r].outcome = outcome]
        /\ holders' = [holders EXCEPT ![KeyOf(r)] = @ \ {r}]
    BY DEF Leave
  <1>3. /\ holders' \in [Key -> SUBSET Runs]
        /\ run' \in [Runs -> RunState]
        /\ run'[r].pc = "done"
        /\ \A q \in Runs : q # r => run'[q] = run[q]
    <2>1. run \in [Runs -> RunState] /\ holders \in [Key -> SUBSET Runs]
      BY DEF TypeOK
    <2>2. run' = [run EXCEPT ![r] = [run[r] EXCEPT !.pc = "done", !.outcome = outcome]]
      BY <1>2
    <2>3. /\ [run[r] EXCEPT !.pc = "done", !.outcome = outcome] \in RunState
          /\ [run[r] EXCEPT !.pc = "done", !.outcome = outcome].pc = "done"
      BY <2>1 DEF RunState
    <2>4. /\ run' \in [Runs -> RunState] /\ run'[r].pc = "done"
          /\ \A q \in Runs : q # r => run'[q] = run[q]
      BY <2>1, <2>2, <2>3, RunUpdates
    <2>5. holders' \in [Key -> SUBSET Runs]
      BY <1>1, <1>2, <2>1
    <2>6. QED
      BY <2>4, <2>5
  <1>4. \A q \in Runs : Working(q)' => q # r /\ Working(q)
    BY <1>3 DEF Working
  <1>5. ASSUME NEW q \in Runs, Working(q)'
        PROVE  holders'[KeyOf(q)] = {q}
    <2>1. holders[KeyOf(q)] = {q} /\ q # r /\ KeyOf(q) \in Key
      BY <1>4, <1>5 DEF LockInv, KeyOf, Key
    <2>2. QED
      BY <1>1, <1>2, <2>1 DEF TypeOK
  <1>6. ASSUME NEW k \in Key, NEW q \in holders'[k]
        PROVE  Working(q)' /\ KeyOf(q) = k
    <2>1. q \in Runs /\ q \in holders[k] /\ (k = KeyOf(r) => q # r)
      BY <1>1, <1>2, <1>6 DEF TypeOK
    <2>2. Working(q) /\ KeyOf(q) = k
      BY <2>1 DEF LockInv
    <2>3. q # r
      BY <2>1, <2>2
    <2>4. QED
      BY <1>3, <2>1, <2>2, <2>3 DEF Working
  <1>7. QED
    BY <1>3, <1>5, <1>6 DEF LockInv

\* A run that goes on from one step to the next without touching a lock.
LEMMA StepKeepsLocks ==
  ASSUME TypeOK, LockInv, NEW r \in Runs, UNCHANGED holders,
         \A q \in Runs : q # r => run'[q] = run[q],
         Working(r)' <=> Working(r)
  PROVE  LockInv'
  <1>1. \A q \in Runs : Working(q)' <=> Working(q)
    BY DEF Working
  <1>2. \A k \in Key : \A q \in holders[k] : Working(q)' /\ KeyOf(q) = k
    <2>1. TAKE k \in Key
    <2>2. TAKE q \in holders[k]
    <2>3. q \in Runs
      BY DEF TypeOK
    <2>4. QED
      BY <1>1, <2>3 DEF LockInv
  <1>3. QED
    BY <1>1, <1>2 DEF LockInv

LEMMA InitIInv == Init => IInv
  BY RunsAssumption, BoundsAssumption
     DEF Init, IInv, TypeOK, LockInv, SameIncarnation, Working, Unstarted, RunState, Age, Release

\* Of the runs that lock the same file one works at most.
LEMMA KeyExclusion ==
  ASSUME LockInv, NEW q \in Runs, NEW r \in Runs, Working(q), Working(r), KeyOf(q) = KeyOf(r)
  PROVE  q = r
  <1>1. holders[KeyOf(q)] = {q} /\ holders[KeyOf(r)] = {r}
    BY DEF LockInv
  <1>2. QED
    BY <1>1

LEMMA Exclusion == ASSUME LockInv, ByName PROVE Exclusive
  BY KeyExclusion, OneKey DEF Exclusive

LEMMA StepIInv == ASSUME IInv, [Next]_vars PROVE IInv'
  <1>0. TypeOK /\ LockInv /\ SameIncarnation
    BY DEF IInv
  <1>1. CASE UNCHANGED vars
    BY <1>0, <1>1 DEF vars, IInv, TypeOK, LockInv, SameIncarnation, Working
  <1>2. CASE NewRelease
    <2>1. UNCHANGED <<age, image, holders, run>>
      BY <1>2 DEF NewRelease
    <2>2. newest' \in Release
      BY <1>0, <1>2, BoundsAssumption DEF NewRelease, TypeOK, Release
    <2>3. TypeOK'
      BY <1>0, <2>1, <2>2 DEF TypeOK
    <2>4. LockInv'
      BY <1>0, <2>1 DEF LockInv, Working
    <2>5. QED
      BY <1>0, <2>1, <2>3, <2>4 DEF IInv, SameIncarnation
  <1>3. ASSUME NEW r \in Runs, Choose(r) PROVE IInv'
    <2>1. /\ run' \in [Runs -> RunState] /\ run[r].pc = "start" /\ run'[r].pc = "lock"
          /\ \A q \in Runs : q # r => run'[q] = run[q]
      <3>1. PICK due \in BOOLEAN :
              run' = [run EXCEPT ![r].pc = "lock", ![r].seen = age, ![r].due = due]
        BY <1>3, Zenon DEF Choose
      <3>2. run[r].pc = "start"
        BY <1>3 DEF Choose
      <3>3. run' \in [Runs -> RunState]
        <4>1. age \in Age /\ run \in [Runs -> RunState]
          BY <1>0 DEF TypeOK
        <4>2. run' = [run EXCEPT ![r] = [run[r] EXCEPT !.pc = "lock", !.seen = age, !.due = due]]
          BY <3>1
        <4>3. [run[r] EXCEPT !.pc = "lock", !.seen = age, !.due = due] \in RunState
          BY <4>1 DEF RunState
        <4>4. QED
          BY <4>1, <4>2, <4>3, RunUpdates
      <3>4. run'[r].pc = "lock" /\ \A q \in Runs : q # r => run'[q] = run[q]
        BY <1>0, <3>1 DEF TypeOK, RunState
      <3>5. QED
        BY <3>2, <3>3, <3>4
    <2>2. UNCHANGED <<age, image, newest, holders>>
      BY <1>3 DEF Choose
    <2>3. LockInv'
      <3>1. ~Working(r) /\ ~Working(r)'
        BY <2>1 DEF Working
      <3>2. QED
        BY <1>0, <2>1, <2>2, <3>1, StepKeepsLocks
    <2>4. QED
      BY <1>0, <2>1, <2>2, <2>3 DEF IInv, TypeOK, SameIncarnation
  <1>4. ASSUME NEW r \in Runs, Acquire(r) PROVE IInv'
    <2>1. KeyOf(r) \in Key
      BY DEF KeyOf, Key
    <2>2. /\ run' \in [Runs -> RunState] /\ run[r].pc = "lock" /\ run'[r].pc \in {"begin", "done"}
          /\ \A q \in Runs : q # r => run'[q] = run[q]
      BY <1>0, <1>4 DEF Acquire, TypeOK, RunState
    <2>3. UNCHANGED <<age, image, newest>>
      BY <1>4 DEF Acquire
    <2>4. TypeOK' /\ SameIncarnation'
      BY <1>0, <1>4, <2>1, <2>2, <2>3 DEF Acquire, TypeOK, SameIncarnation
    <2>5. CASE holders[KeyOf(r)] = {}
      <3>0. /\ holders' = [holders EXCEPT ![KeyOf(r)] = {r}]
            /\ run' = [run EXCEPT ![r].pc = "begin"]
        BY <1>4, <2>5 DEF Acquire
      <3>1. /\ holders' = [holders EXCEPT ![KeyOf(r)] = {r}]
            /\ Working(r)' /\ ~Working(r)
        <4>1. run'[r].pc = "begin"
          BY <1>0, <3>0 DEF TypeOK, RunState
        <4>2. QED
          BY <2>2, <3>0, <4>1 DEF Working
      <3>2. \A q \in Runs : q # r => (Working(q)' <=> Working(q))
        BY <2>2 DEF Working
      <3>3. \A q \in Runs : Working(q) => KeyOf(q) # KeyOf(r)
        BY <1>0, <2>5 DEF LockInv
      <3>4. \A q \in Runs : Working(q)' => holders'[KeyOf(q)] = {q}
        BY <1>0, <2>1, <3>1, <3>2, <3>3 DEF LockInv, TypeOK, KeyOf, Key
      <3>5. ASSUME NEW k \in Key, NEW q \in holders'[k] PROVE Working(q)' /\ KeyOf(q) = k
        BY <1>0, <2>1, <3>1, <3>2, <3>5 DEF LockInv, TypeOK
      <3>6. LockInv'
        BY <3>4, <3>5 DEF LockInv
      <3>7. QED
        BY <2>4, <3>6 DEF IInv
    <2>6. CASE holders[KeyOf(r)] # {}
      <3>0. /\ UNCHANGED holders
            /\ run' = [run EXCEPT ![r].pc = "done", ![r].outcome = "skipped"]
        BY <1>4, <2>6 DEF Acquire
      <3>1. UNCHANGED holders /\ ~Working(r)' /\ ~Working(r)
        <4>1. run'[r].pc = "done"
          BY <1>0, <3>0 DEF TypeOK, RunState
        <4>2. QED
          BY <2>2, <3>0, <4>1 DEF Working
      <3>2. LockInv'
        BY <1>0, <2>2, <3>1, StepKeepsLocks
      <3>3. QED
        BY <2>4, <3>2 DEF IInv
    <2>7. QED
      BY <2>5, <2>6
  <1>5. ASSUME NEW r \in Runs, GiveUp(r) PROVE IInv'
    <2>1. /\ run' \in [Runs -> RunState] /\ run[r].pc = "lock" /\ run'[r].pc = "done"
          /\ \A q \in Runs : q # r => run'[q] = run[q]
      <3>1. run \in [Runs -> RunState] /\ run[r].pc = "lock"
        BY <1>0, <1>5 DEF GiveUp, TypeOK
      <3>2. PICK outcome \in {"none", "skipped", "uptodate", "ok", "nochange", "failed"} :
              run' = [run EXCEPT ![r] = [run[r] EXCEPT !.pc = "done", !.outcome = outcome]]
        BY <1>5 DEF GiveUp
      <3>3. /\ [run[r] EXCEPT !.pc = "done", !.outcome = outcome] \in RunState
            /\ [run[r] EXCEPT !.pc = "done", !.outcome = outcome].pc = "done"
        BY <3>1 DEF RunState
      <3>4. QED
        BY <3>1, <3>2, <3>3, RunUpdates
    <2>2. UNCHANGED <<age, image, newest, holders>>
      BY <1>5 DEF GiveUp
    <2>3. LockInv'
      BY <1>0, <2>1, <2>2, StepKeepsLocks DEF Working
    <2>4. QED
      BY <1>0, <2>1, <2>2, <2>3 DEF IInv, TypeOK, SameIncarnation
  <1>6. ASSUME NEW r \in Runs, Begin(r) PROVE IInv'
    <2>1. UNCHANGED <<age, image, newest>>
      BY <1>6 DEF Begin
    <2>2. CASE \E outcome \in {"uptodate", "failed"} : Leave(r, outcome)
      BY <1>0, <2>1, <2>2, LeaveUpdates DEF IInv, TypeOK, SameIncarnation
    <2>3. CASE run' = [run EXCEPT ![r].pc = "end", ![r].began = age] /\ UNCHANGED holders
      <3>1. /\ run' \in [Runs -> RunState] /\ run[r].pc = "begin"
            /\ run'[r].pc = "end" /\ run'[r].began = age
            /\ \A q \in Runs : q # r => run'[q] = run[q]
        <4>1. run \in [Runs -> RunState] /\ age \in Age /\ run[r].pc = "begin"
          BY <1>0, <1>6 DEF Begin, TypeOK
        <4>2. run' = [run EXCEPT ![r] = [run[r] EXCEPT !.pc = "end", !.began = age]]
          BY <2>3
        <4>3. /\ [run[r] EXCEPT !.pc = "end", !.began = age] \in RunState
              /\ [run[r] EXCEPT !.pc = "end", !.began = age].pc = "end"
              /\ [run[r] EXCEPT !.pc = "end", !.began = age].began = age
          BY <4>1 DEF RunState
        <4>4. QED
          BY <4>1, <4>2, <4>3, RunUpdates
      <3>2. LockInv'
        BY <1>0, <2>3, <3>1, StepKeepsLocks DEF Working
      <3>3. QED
        BY <1>0, <2>1, <2>3, <3>1, <3>2 DEF IInv, TypeOK, SameIncarnation
    <2>4. QED
      BY <1>6, <2>2, <2>3 DEF Begin
  <1>7. ASSUME NEW r \in Runs, EndUpdate(r) \/ EndRestore(r) PROVE IInv'
    <2>1. /\ run[r].pc = "end" /\ UNCHANGED newest /\ age' \in Age /\ image' \in Release
          /\ \E outcome \in {"ok", "nochange", "failed"} : Leave(r, outcome)
      BY <1>0, <1>7, BoundsAssumption
         DEF EndUpdate, EndRestore, Replace, TypeOK, Age, Release
    <2>2. /\ TypeOK' /\ LockInv' /\ run'[r].pc = "done"
          /\ \A q \in Runs : q # r => run'[q] = run[q]
      BY <1>0, <2>1, LeaveUpdates DEF TypeOK
    <2>3. KeyOf(r) = "name" /\ Working(r)
      BY <1>7, <2>1 DEF EndUpdate, EndRestore, Updates, Restores, KeyOf, Working
    <2>4. ASSUME NEW q \in Runs, KeyOf(q) = "name", run'[q].pc = "end"
          PROVE  FALSE
      <3>1. q # r /\ Working(q)
        BY <2>2, <2>4 DEF Working
      <3>2. QED
        BY <1>0, <2>3, <2>4, <3>1, KeyExclusion
    <2>5. QED
      BY <2>2, <2>4 DEF IInv, SameIncarnation
  <1>8. ASSUME NEW r \in Runs, EndBackup(r) \/ Crash(r) PROVE IInv'
    <2>1. UNCHANGED <<age, image, newest>> /\ \E outcome \in {"ok", "failed"} : Leave(r, outcome)
      BY <1>8 DEF EndBackup, Crash
    <2>2. QED
      BY <1>0, <2>1, LeaveUpdates DEF IInv, TypeOK, SameIncarnation
  <1>9. QED
    BY <1>1, <1>2, <1>3, <1>4, <1>5, <1>6, <1>7, <1>8 DEF Next, Proceed

\* Every run stays in its states and every lock is held by runs, whoever waits,
\* gives up or dies (lock.go:67-103).
THEOREM TypeCorrect == Spec => []TypeOK
  <1>1. IInv => TypeOK
    BY DEF IInv
  <1>2. QED
    BY <1>1, InitIInv, StepIInv, PTL DEF Spec

\* No two runs ever touch the container at once (daemon.go:77-79), however
\* many there are and whatever becomes of them.
THEOREM RunsAreExclusive == ASSUME ByName PROVE Spec => []Exclusive
  <1>1. IInv => Exclusive
    BY Exclusion DEF IInv
  <1>2. QED
    BY <1>1, InitIInv, StepIInv, PTL DEF Spec

\* A snapshot that succeeds ends on the incarnation of the container it began
\* with: nobody replaced it meanwhile (lock.go:9-12).
THEOREM SnapshotsAreOfOneState == ASSUME ByName PROVE Spec => SnapshotOfOneState
  <1>1. ASSUME IInv, [Next]_vars
        PROVE  [\A r \in Backups : run[r].outcome = "none" /\ run'[r].outcome = "ok"
                  => run[r].began = age]_vars
    <2>1. SUFFICES ASSUME Next, NEW r \in Backups,
                          run[r].outcome = "none", run'[r].outcome = "ok"
                   PROVE  run[r].began = age
      BY <1>1 DEF vars
    <2>2. /\ r \in Runs /\ run \in [Runs -> RunState]
          /\ r \notin Updates /\ r \notin Restores
      BY <1>1 DEF IInv, TypeOK, Backups, Updates, Restores
    <2>3. PICK q \in Runs : Proceed(q) \/ GiveUp(q) \/ Crash(q)
      <3>1. ~NewRelease
        BY <2>1 DEF NewRelease
      <3>2. QED
        BY <2>1, <3>1 DEF Next
    <2>4. q = r /\ EndBackup(r)
      <3>1. ASSUME NEW s, \/ s = [run EXCEPT ![q].pc = "lock", ![q].seen = age, ![q].due = (image # newest)]
                         \/ s = [run EXCEPT ![q].pc = "begin"]
                         \/ s = [run EXCEPT ![q].pc = "end", ![q].began = age]
            PROVE  s[r].outcome = run[r].outcome
        BY <2>2, <3>1 DEF RunState
      <3>2. ASSUME NEW outcome, run' = [run EXCEPT ![q].pc = "done", ![q].outcome = outcome]
            PROVE  q = r /\ outcome = "ok"
        BY <2>1, <2>2, <3>2 DEF RunState
      <3>3. ~Choose(q)
        BY <2>1, <3>1 DEF Choose
      <3>4. ~Acquire(q) /\ ~GiveUp(q)
        BY <2>1, <3>1, <3>2 DEF Acquire, GiveUp
      <3>5. ~Crash(q) /\ ~Begin(q)
        BY <2>1, <3>1, <3>2 DEF Crash, Begin, Leave
      <3>6. ~EndUpdate(q) /\ ~EndRestore(q)
        <4>1. CASE q \in Updates \cup Restores
          <5>1. q # r
            BY <2>2, <4>1
          <5>2. \A outcome : ~Leave(q, outcome)
            BY <3>2, <5>1 DEF Leave
          <5>3. QED
            BY <5>2 DEF EndUpdate, EndRestore
        <4>2. QED
          BY <4>1 DEF EndUpdate, EndRestore
      <3>7. EndBackup(q)
        BY <2>3, <3>3, <3>4, <3>5, <3>6 DEF Proceed
      <3>8. QED
        BY <3>2, <3>7 DEF EndBackup, Leave
    <2>5. QED
      BY <1>1, <2>2, <2>4, OneKey DEF EndBackup, IInv, SameIncarnation
  <1>2. QED
    BY <1>1, InitIInv, StepIInv, PTL DEF Spec, SnapshotOfOneState

-----------------------------------------------------------------------------
(* What an update reports *)

\* With snapshots on, what an update works on is what it was chosen for.
SeenInv == SnapshotFirst => \A r \in Updates : run[r].pc = "end" => run[r].seen = run[r].began

LEMMA SeenInit == Init => SeenInv
  BY DEF Init, Unstarted, SeenInv, Updates

\* Only Begin brings a run to its work.
LEMMA WorkBegins ==
  ASSUME TypeOK, [Next]_vars, NEW r \in Runs, run'[r].pc = "end"
  PROVE  \/ run'[r] = run[r]
         \/ ~StaleId(r) /\ run'[r].seen = run[r].seen /\ run'[r].began = age
  <1>0. run \in [Runs -> RunState]
    BY DEF TypeOK
  <1>1. ASSUME NEW q \in Runs, NEW pc \in {"lock", "begin", "done"}, NEW st,
               st.pc = pc, run' = [run EXCEPT ![q] = st]
        PROVE  run'[r] = run[r]
    <2>1. q # r
      BY <1>0, <1>1
    <2>2. QED
      BY <1>0, <1>1, <2>1
  <1>2. ASSUME NEW q \in Runs, NEW outcome, Leave(q, outcome)
        PROVE  run'[r] = run[r]
    <2>1. run' = [run EXCEPT ![q] = [run[q] EXCEPT !.pc = "done", !.outcome = outcome]]
      BY <1>2 DEF Leave
    <2>2. [run[q] EXCEPT !.pc = "done", !.outcome = outcome].pc = "done"
      BY <1>0 DEF RunState
    <2>3. QED
      BY <1>1, <2>1, <2>2
  <1>3. CASE NewRelease \/ UNCHANGED vars
    BY <1>3 DEF NewRelease, vars
  <1>4. ASSUME NEW q \in Runs, Proceed(q) \/ GiveUp(q) \/ Crash(q)
        PROVE  \/ run'[r] = run[r]
               \/ ~StaleId(r) /\ run'[r].seen = run[r].seen /\ run'[r].began = age
    <2>1. CASE Choose(q)
      <3>1. run' = [run EXCEPT ![q] = [run[q] EXCEPT !.pc = "lock", !.seen = age, !.due = (image # newest)]]
        BY <2>1 DEF Choose
      <3>2. [run[q] EXCEPT !.pc = "lock", !.seen = age, !.due = (image # newest)].pc = "lock"
        BY <1>0 DEF RunState
      <3>3. QED
        BY <1>1, <3>1, <3>2
    <2>2. CASE Acquire(q) \/ GiveUp(q)
      <3>1. \/ run' = [run EXCEPT ![q] = [run[q] EXCEPT !.pc = "begin"]]
            \/ run' = [run EXCEPT ![q] = [run[q] EXCEPT !.pc = "done", !.outcome = "skipped"]]
        BY <2>2 DEF Acquire, GiveUp
      <3>2. /\ [run[q] EXCEPT !.pc = "begin"].pc = "begin"
            /\ [run[q] EXCEPT !.pc = "done", !.outcome = "skipped"].pc = "done"
        BY <1>0 DEF RunState
      <3>3. QED
        BY <1>1, <3>1, <3>2
    <2>3. CASE Begin(q)
      <3>1. CASE \E outcome : Leave(q, outcome)
        BY <1>2, <3>1
      <3>2. CASE ~StaleId(q) /\ run' = [run EXCEPT ![q].pc = "end", ![q].began = age]
        BY <1>0, <3>2 DEF RunState
      <3>3. QED
        BY <2>3, <3>1, <3>2 DEF Begin
    <2>4. CASE EndUpdate(q) \/ EndRestore(q) \/ EndBackup(q) \/ Crash(q)
      <3>1. \E outcome : Leave(q, outcome)
        BY <2>4 DEF EndUpdate, EndRestore, EndBackup, Crash
      <3>2. QED
        BY <1>2, <3>1
    <2>5. QED
      BY <1>4, <2>1, <2>2, <2>3, <2>4 DEF Proceed
  <1>5. QED
    BY <1>3, <1>4 DEF Next

LEMMA SeenStep == ASSUME TypeOK, SeenInv, [Next]_vars PROVE SeenInv'
  <1>1. SUFFICES ASSUME SnapshotFirst, NEW r \in Updates, run'[r].pc = "end"
                 PROVE  run'[r].seen = run'[r].began
    BY DEF SeenInv, Updates
  <1>2. r \in Runs
    BY DEF Updates
  <1>3. StaleId(r) <=> run[r].seen # age
    BY <1>1 DEF StaleId
  <1>4. QED
    BY <1>1, <1>2, <1>3, WorkBegins DEF SeenInv

\* An update that is reported has replaced the container (update.go:239-242), as
\* long as updates take a snapshot first: Take asks for the id that was listed, and
\* from there on the lock keeps everybody else away (snapshot.go:72-84).
THEOREM ReportedUpdatesHappened == ASSUME SnapshotFirst PROVE Spec => HonestUpdate
  <1>1. ASSUME IInv, SeenInv, [Next]_vars
        PROVE  [\A r \in Updates : run[r].outcome = "none" /\ run'[r].outcome = "ok"
                  => age' # age]_vars
    <2>1. SUFFICES ASSUME Next, NEW r \in Updates,
                          run[r].outcome = "none", run'[r].outcome = "ok"
                   PROVE  age' # age
      BY <1>1 DEF vars
    <2>2. /\ r \in Runs /\ run \in [Runs -> RunState] /\ age \in Nat
          /\ r \notin Backups /\ r \notin Restores /\ KeyOf(r) = "name"
      BY <1>1, BoundsAssumption DEF IInv, TypeOK, Age, Backups, Updates, Restores, KeyOf
    <2>3. PICK q \in Runs : Proceed(q) \/ GiveUp(q) \/ Crash(q)
      <3>1. ~NewRelease
        BY <2>1 DEF NewRelease
      <3>2. QED
        BY <2>1, <3>1 DEF Next
    <2>4. q = r /\ EndUpdate(r)
      <3>1. ASSUME NEW s, \/ s = [run EXCEPT ![q].pc = "lock", ![q].seen = age, ![q].due = (image # newest)]
                         \/ s = [run EXCEPT ![q].pc = "begin"]
                         \/ s = [run EXCEPT ![q].pc = "end", ![q].began = age]
            PROVE  s[r].outcome = run[r].outcome
        BY <2>2, <3>1 DEF RunState
      <3>2. ASSUME NEW outcome, run' = [run EXCEPT ![q].pc = "done", ![q].outcome = outcome]
            PROVE  q = r /\ outcome = "ok"
        BY <2>1, <2>2, <3>2 DEF RunState
      <3>3. ~Choose(q)
        BY <2>1, <3>1 DEF Choose
      <3>4. ~Acquire(q) /\ ~GiveUp(q)
        BY <2>1, <3>1, <3>2 DEF Acquire, GiveUp
      <3>5. ~Crash(q) /\ ~Begin(q)
        <4>1. \A outcome : Leave(q, outcome) => outcome = "ok"
          BY <3>2 DEF Leave
        <4>2. run' # [run EXCEPT ![q].pc = "end", ![q].began = age]
          BY <2>1, <3>1
        <4>3. QED
          BY <4>1, <4>2 DEF Crash, Begin
      <3>6. ~EndBackup(q) /\ ~EndRestore(q)
        <4>1. CASE q \in Backups \cup Restores
          <5>1. q # r
            BY <2>2, <4>1
          <5>2. \A outcome : ~Leave(q, outcome)
            BY <3>2, <5>1 DEF Leave
          <5>3. QED
            BY <5>2 DEF EndBackup, EndRestore
        <4>2. QED
          BY <4>1 DEF EndBackup, EndRestore
      <3>7. EndUpdate(q)
        BY <2>3, <3>3, <3>4, <3>5, <3>6 DEF Proceed
      <3>8. (\E outcome : Leave(q, outcome)) => q = r
        BY <3>2 DEF Leave
      <3>9. QED
        BY <3>7, <3>8 DEF EndUpdate
    <2>5. run[r].pc = "end" /\ run[r].seen = age
      BY <1>1, <2>2, <2>4 DEF EndUpdate, IInv, SameIncarnation, SeenInv
    <2>6. ~Leave(r, "nochange") /\ ~Leave(r, "failed")
      BY <2>1, <2>2 DEF Leave, RunState
    <2>7. Replace(newest)
      BY <2>4, <2>5, <2>6 DEF EndUpdate
    <2>8. QED
      BY <2>2, <2>7 DEF Replace
  <1>2. IInv => TypeOK
    BY DEF IInv
  <1>3. QED
    BY <1>1, <1>2, InitIInv, StepIInv, SeenInit, SeenStep, PTL DEF Spec, HonestUpdate

-----------------------------------------------------------------------------
(* Taking turns *)

\* The runs take turns with the container, and only the one whose turn it is
\* replaces it, with the last thing it does (lock.go:1-12).
THEOREM ImplementsMutex == ASSUME ByName PROVE Spec => MutexSpec
  <1>1. Init => Mutex!Init
    BY DEF Init, Mutex!Init, Owners, Working, Unstarted
  <1>2. ASSUME IInv, [Next]_vars PROVE [Mutex!Next]_<<Owners, age>>
    <2>0. TypeOK /\ LockInv /\ Exclusive
      BY <1>2, Exclusion DEF IInv
    <2>1. ASSUME NEW r \in Runs, UNCHANGED age, Working(r)' <=> Working(r),
                 \A q \in Runs : q # r => run'[q] = run[q]
          PROVE  UNCHANGED <<Owners, age>>
      BY <2>1 DEF Owners, Working
    <2>2. ASSUME NEW r \in Runs, NEW outcome \in {"uptodate", "ok", "nochange", "failed"},
                 Leave(r, outcome), Working(r), age' \in {age, age + 1}
          PROVE  Mutex!Next
      <3>1. /\ run'[r].pc = "done"
            /\ \A q \in Runs : q # r => run'[q] = run[q]
        BY <2>0, <2>2, LeaveUpdates
      <3>2. Owners = {r}
        BY <2>0, <2>2 DEF Owners, Exclusive
      <3>3. Owners' = {}
        BY <3>1, <3>2 DEF Owners, Working
      <3>4. QED
        BY <2>2, <3>2, <3>3 DEF Mutex!Next, Mutex!Exit
    <2>3. CASE UNCHANGED vars \/ NewRelease
      BY <2>3 DEF vars, NewRelease, Owners, Working
    <2>4. ASSUME NEW r \in Runs, Choose(r) \/ GiveUp(r)
          PROVE  UNCHANGED <<Owners, age>>
      <3>1. run[r].pc \in {"start", "lock"} /\ UNCHANGED age
        BY <2>4 DEF Choose, GiveUp
      <3>2. CASE Choose(r)
        <4>1. PICK due \in BOOLEAN :
                run' = [run EXCEPT ![r].pc = "lock", ![r].seen = age, ![r].due = due]
          BY <3>2, Zenon DEF Choose
        <4>2. /\ run'[r].pc = "lock"
              /\ \A q \in Runs : q # r => run'[q] = run[q]
          BY <2>0, <4>1 DEF TypeOK, RunState
        <4>3. QED
          BY <2>1, <3>1, <4>2 DEF Working
      <3>3. CASE GiveUp(r)
        <4>1. /\ run'[r].pc = "done"
              /\ \A q \in Runs : q # r => run'[q] = run[q]
          BY <2>0, <3>3 DEF GiveUp, TypeOK, RunState
        <4>2. QED
          BY <2>1, <3>1, <4>1 DEF Working
      <3>4. QED
        BY <2>4, <3>2, <3>3
    <2>5. ASSUME NEW r \in Runs, Acquire(r)
          PROVE  Mutex!Next \/ UNCHANGED <<Owners, age>>
      <3>0. /\ UNCHANGED age /\ ~Working(r)
            /\ \A q \in Runs : q # r => run'[q] = run[q]
        BY <2>0, <2>5 DEF Acquire, TypeOK, Working
      <3>1. CASE holders[KeyOf(r)] = {}
        <4>1. run'[r].pc = "begin"
          BY <2>0, <2>5, <3>1 DEF Acquire, TypeOK, RunState
        <4>2. Owners = {}
          BY <2>0, <3>1, OneKey DEF Owners, LockInv
        <4>3. Owners' = {r}
          BY <3>0, <4>1, <4>2 DEF Owners, Working
        <4>4. QED
          BY <3>0, <4>2, <4>3 DEF Mutex!Next, Mutex!Enter
      <3>2. CASE holders[KeyOf(r)] # {}
        <4>1. run'[r].pc = "done"
          BY <2>0, <2>5, <3>2 DEF Acquire, TypeOK, RunState
        <4>2. QED
          BY <2>1, <3>0, <4>1 DEF Working
      <3>3. QED
        BY <3>1, <3>2
    <2>6. ASSUME NEW r \in Runs, Begin(r)
          PROVE  Mutex!Next \/ UNCHANGED <<Owners, age>>
      <3>1. run[r].pc = "begin" /\ UNCHANGED age
        BY <2>6 DEF Begin
      <3>2. CASE \E outcome \in {"uptodate", "failed"} : Leave(r, outcome)
        BY <2>2, <3>1, <3>2 DEF Working
      <3>3. CASE run' = [run EXCEPT ![r].pc = "end", ![r].began = age]
        <4>1. /\ run'[r].pc = "end"
              /\ \A q \in Runs : q # r => run'[q] = run[q]
          BY <2>0, <3>3 DEF TypeOK, RunState
        <4>2. QED
          BY <2>1, <3>1, <4>1 DEF Working
      <3>4. QED
        BY <2>6, <3>2, <3>3 DEF Begin
    <2>7. ASSUME NEW r \in Runs, EndUpdate(r) \/ EndRestore(r) \/ EndBackup(r)
          PROVE  Mutex!Next
      <3>1. /\ run[r].pc = "end" /\ age' \in {age, age + 1}
            /\ \E outcome \in {"ok", "nochange", "failed"} : Leave(r, outcome)
        BY <2>7 DEF EndUpdate, EndRestore, EndBackup, Replace
      <3>2. QED
        BY <2>2, <3>1 DEF Working
    <2>8. ASSUME NEW r \in Runs, Crash(r)
          PROVE  Mutex!Next \/ UNCHANGED <<Owners, age>>
      <3>1. Leave(r, "failed") /\ UNCHANGED age
        BY <2>8 DEF Crash
      <3>2. CASE Working(r)
        BY <2>2, <3>1, <3>2
      <3>3. CASE ~Working(r)
        <4>1. /\ run'[r].pc = "done"
              /\ \A q \in Runs : q # r => run'[q] = run[q]
          BY <2>0, <3>1, LeaveUpdates
        <4>2. QED
          BY <2>1, <3>1, <3>3, <4>1 DEF Working
      <3>4. QED
        BY <3>2, <3>3
    <2>9. QED
      BY <1>2, <2>3, <2>4, <2>5, <2>6, <2>7, <2>8 DEF Next, Proceed
  <1>3. QED
    BY <1>1, <1>2, InitIInv, StepIInv, PTL DEF Spec, MutexSpec, Mutex!Spec
=============================================================================
