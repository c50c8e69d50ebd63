------------------------ MODULE SnapshotStoreProofs ------------------------
(***************************************************************************)
(* Theorems about SnapshotStore, for any number of pruners, any bound on   *)
(* the clock and any retention numbers, and about RestoreBesidePrune, the  *)
(* restore beside that store.                                              *)
(***************************************************************************)
EXTENDS RestoreBesidePrune, FiniteSetTheorems, TLAPS

\* The updates the steps of Prune make to a pruner's record keep its type.
LEMMA PruneUpdates ==
  ASSUME NEW r \in PruneState,
         NEW A \in SUBSET Snap, NEW B \in SUBSET Snap
  PROVE  /\ [r EXCEPT !.todo = A, !.seen = B] \in PruneState
         /\ [r EXCEPT !.pc = "remove", !.doomed = A] \in PruneState
         /\ [r EXCEPT !.doomed = A] \in PruneState
         /\ [r EXCEPT !.pc = "unpin"] \in PruneState
  BY DEF PruneState

LEMMA PruneMap ==
  ASSUME NEW p \in Pruners, NEW r \in PruneState, TypeOK
  PROVE  [prune EXCEPT ![p] = r] \in [Pruners -> PruneState]
  BY DEF TypeOK

LEMMA OneFileLess ==
  ASSUME files \in [Snap -> SUBSET File], synced \in [Snap -> SUBSET File], NEW s \in Snap,
         \E f \in files[s] : /\ files' = [files EXCEPT ![s] = @ \ {f}]
                            /\ synced' = [synced EXCEPT ![s] = @ \ {f}]
  PROVE  files' \in [Snap -> SUBSET File] /\ synced' \in [Snap -> SUBSET File]
  OBVIOUS

LEMMA TypeInit == Init => TypeOK
  BY BoundAssumption DEF Init, TypeOK, Snap, File, Manifest, NoTake, NoPrune, NoCollect,
                            TakeState, PruneState, CollectState

LEMMA TypeStep == TypeOK /\ [Next]_vars => TypeOK'
<1> SUFFICES ASSUME TypeOK, [Next]_vars
             PROVE  TypeOK'
  OBVIOUS
<1> USE BoundAssumption DEF TypeOK, diskVars
<1>1. CASE Tick
  BY <1>1 DEF Tick, Snap
<1>2. CASE TakeNext
  <2>1. CASE TakeStart
    BY <2>1 DEF TakeStart, Snap, TakeState
  <2>2. CASE Begin
    <3>1. take.id \in Snap /\ take' \in TakeState /\ (take'.pc # "idle" => take'.id \in Snap)
      <4>1. take.id \in Snap /\ take'.id \in {0, take.id}
        BY <2>2 DEF Begin, NoTake, TakeState
      <4>2. NoTake \in TakeState /\ [take EXCEPT !.pc = "spec"] \in TakeState
        BY DEF NoTake, TakeState
      <4>3. QED
        BY <2>2, <4>1, <4>2 DEF Begin, NoTake, TakeState
    <3>2. /\ dir' \in [Snap -> {"none", "pending", "final"}]
          /\ files' \in [Snap -> SUBSET File]
          /\ synced' \in [Snap -> SUBSET File]
          /\ manifest' = manifest
      BY <2>2, <3>1 DEF Begin
    <3>3. QED
      BY <2>2, <3>1, <3>2 DEF Begin
  <2>3. CASE WriteSpec \/ WriteData
    BY <2>3 DEF WriteSpec, WriteData, Write, File, TakeState
  <2>4. CASE PinImage
    BY <2>4 DEF PinImage, TakeState
  <2>5. CASE WriteManifest
    BY <2>5 DEF WriteManifest, Write, File, Manifest, TakeState
  <2>6. CASE Commit
    <3>1. take.id \in Snap /\ take' \in TakeState /\ take'.pc = "idle"
      BY <2>6 DEF Commit, NoTake, TakeState
    <3>2. QED
      BY <2>6, <3>1 DEF Commit
  <2>7. CASE Abort
    BY <2>7 DEF Abort, NoTake, TakeState
  <2>8. CASE TakeCrash
    BY <2>8 DEF TakeCrash, NoTake, TakeState
  <2>9. QED
    BY <1>2, <2>1, <2>2, <2>3, <2>4, <2>5, <2>6, <2>7, <2>8 DEF TakeNext
<1>3. CASE \E p \in Pruners : PruneNext(p)
  <2> SUFFICES ASSUME NEW p \in Pruners, PruneNext(p)
               PROVE  TypeOK'
    BY <1>3
  <2>0. /\ prune[p] \in PruneState
        /\ prune[p].todo \in SUBSET Snap /\ prune[p].seen \in SUBSET Snap
        /\ prune[p].doomed \in SUBSET Snap
    BY DEF PruneState
  <2>1. CASE PruneList(p)
    BY <2>1 DEF PruneList, NoPrune, Listed, PruneState
  <2>2. CASE PruneLoad(p)
    <3>1. PICK s \in prune[p].todo :
            prune' = [prune EXCEPT ![p] = [prune[p] EXCEPT !.todo = @ \ {s},
                        !.seen = IF Readable(s) THEN @ \cup {s} ELSE @]]
      BY <2>2 DEF PruneLoad
    <3> DEFINE rest == prune[p].todo \ {s}
               more == IF Readable(s) THEN prune[p].seen \cup {s} ELSE prune[p].seen
    <3>2. rest \in SUBSET Snap /\ more \in SUBSET Snap
      BY <2>0
    <3>3. [prune[p] EXCEPT !.todo = rest, !.seen = more] \in PruneState
      <4> HIDE DEF rest, more
      <4>1. QED
        BY <2>0, <3>2, PruneUpdates
    <3>4. prune' \in [Pruners -> PruneState]
      BY <3>1, <3>3, PruneMap, Zenon
    <3>5. QED
      BY <2>2, <3>4 DEF PruneLoad
  <2>3. CASE PruneDecide(p)
    <3>1. Expired(prune[p].seen, clock) \in SUBSET Snap
      BY <2>0 DEF Expired, Counted
    <3>2. [prune[p] EXCEPT !.pc = "remove", !.doomed = Expired(prune[p].seen, clock)]
            \in PruneState
      BY <2>0, <3>1, PruneUpdates
    <3>3. QED
      BY <2>3, <3>2 DEF PruneDecide
  <2>4. CASE RemoveFile(p)
    <3>1. PICK s \in prune[p].doomed :
            \E f \in files[s] : /\ files' = [files EXCEPT ![s] = @ \ {f}]
                               /\ synced' = [synced EXCEPT ![s] = @ \ {f}]
      BY <2>4, Zenon DEF RemoveFile
    <3>2. files' \in [Snap -> SUBSET File] /\ synced' \in [Snap -> SUBSET File]
      BY <2>0, <3>1, OneFileLess
    <3>3. UNCHANGED <<clock, dir, manifest, pins, take, prune, collect, published>>
      BY <2>4, Zenon DEF RemoveFile
    <3>4. QED
      BY <3>2, <3>3
  <2>5. CASE RemoveDir(p)
    <3>1. PICK s \in prune[p].doomed :
            /\ dir' = [dir EXCEPT ![s] = "none"]
            /\ prune' = IF manifest[s].pinned
                          THEN [prune EXCEPT ![p] = [prune[p] EXCEPT !.pc = "unpin"]]
                          ELSE [prune EXCEPT ![p] = [prune[p] EXCEPT !.doomed = @ \ {s}]]
      BY <2>5 DEF RemoveDir
    <3> DEFINE rest == prune[p].doomed \ {s}
    <3>2. /\ [prune[p] EXCEPT !.pc = "unpin"] \in PruneState
          /\ [prune[p] EXCEPT !.doomed = rest] \in PruneState
      <4>1. rest \in SUBSET Snap
        BY <2>0
      <4> HIDE DEF rest
      <4>2. QED
        BY <2>0, <4>1, PruneUpdates
    <3>3. prune' \in [Pruners -> PruneState]
      BY <3>1, <3>2, PruneMap, Zenon
    <3>4. QED
      BY <2>5, <3>1, <3>3 DEF RemoveDir
  <2>6. CASE RemoveFails(p)
    <3>1. PICK s \in prune[p].doomed :
            prune' = [prune EXCEPT ![p] = [prune[p] EXCEPT !.doomed = @ \ {s}]]
      BY <2>6 DEF RemoveFails
    <3> DEFINE rest == prune[p].doomed \ {s}
    <3>2. [prune[p] EXCEPT !.doomed = rest] \in PruneState
      <4>1. rest \in SUBSET Snap
        BY <2>0
      <4> HIDE DEF rest
      <4>2. QED
        BY <2>0, <4>1, PruneUpdates
    <3>3. prune' \in [Pruners -> PruneState]
      BY <3>1, <3>2, PruneMap, Zenon
    <3>4. QED
      BY <2>6, <3>3 DEF RemoveFails
  <2>7. CASE UnpinImage(p)
    <3>1. PICK s \in prune[p].doomed :
            /\ prune' = [prune EXCEPT ![p] = [prune[p] EXCEPT !.pc = "remove", !.doomed = @ \ {s}]]
            /\ pins' \subseteq pins
      BY <2>7 DEF UnpinImage
    <3>2. [prune[p] EXCEPT !.pc = "remove", !.doomed = @ \ {s}] \in PruneState
      <4> DEFINE D == prune[p].doomed \ {s}
      <4>1. D \in SUBSET Snap
        BY <2>0
      <4> HIDE DEF D
      <4>2. [prune[p] EXCEPT !.pc = "remove", !.doomed = D] \in PruneState
        BY <2>0, <4>1, PruneUpdates
      <4>3. QED
        BY <4>2 DEF D
    <3>3. prune' \in [Pruners -> PruneState]
      BY <3>1, <3>2, PruneMap, Zenon
    <3>4. QED
      BY <2>7, <3>1, <3>3 DEF UnpinImage
  <2>8. CASE PruneDone(p)
    BY <2>8 DEF PruneDone, NoPrune, PruneState
  <2>9. CASE PruneCrash(p)
    BY <2>9 DEF PruneCrash, NoPrune, PruneState
  <2>10. QED
    BY <2>1, <2>2, <2>3, <2>4, <2>5, <2>6, <2>7, <2>8, <2>9 DEF PruneNext
<1>4. CASE CollectNext
  <2> USE DEF CollectState
  <2>1. CASE CollectStart
    BY <2>1 DEF CollectStart, NoCollect, Listed
  <2>2. CASE CollectLoad
    <3>1. PICK s \in collect.todo :
            collect' = IF Readable(s)
                         THEN [collect EXCEPT !.todo = @ \ {s},
                                 !.referenced = IF manifest[s].pinned THEN @ \cup {s} ELSE @]
                         ELSE NoCollect
      BY <2>2 DEF CollectLoad
    <3>2. (IF manifest[s].pinned THEN collect.referenced \cup {s} ELSE collect.referenced)
            \in SUBSET Snap
      OBVIOUS
    <3>3. collect' \in CollectState
      BY <3>1, <3>2 DEF NoCollect
    <3>4. QED
      BY <2>2, <3>3 DEF CollectLoad
  <2>3. CASE ListPins
    BY <2>3 DEF ListPins
  <2>4. CASE ReleasePin
    BY <2>4 DEF ReleasePin
  <2>5. CASE CollectDone
    BY <2>5 DEF CollectDone, NoCollect
  <2>6. QED
    BY <1>4, <2>1, <2>2, <2>3, <2>4, <2>5 DEF CollectNext
<1>5. CASE PowerLoss
  BY <1>5 DEF PowerLoss, NoTake, NoPrune, NoCollect, TakeState, PruneState, CollectState
<1>6. CASE UNCHANGED vars
  BY <1>6 DEF vars
<1>7. QED
  BY <1>1, <1>2, <1>3, <1>4, <1>5, <1>6 DEF Next, StoreNext

\* The values of the variables keep their types, whatever the environment does
\* (the state that snapshot.go, fs.go and prune.go keep between two calls).
THEOREM TypeCorrect == Spec => []TypeOK
  BY TypeInit, TypeStep, PTL DEF Spec

-----------------------------------------------------------------------------
(* A snapshot that has expired stays expired: more snapshots and more time   *)
(* only add to what the policy gives up.                                     *)

LEMMA SnapFinite ==
  ASSUME NEW S \in SUBSET Snap
  PROVE  IsFiniteSet(S)
<1>1. IsFiniteSet(Snap)
  BY BoundAssumption, FS_Interval DEF Snap
<1>2. QED
  BY <1>1, FS_Subset

LEMMA ExpiredGrows ==
  ASSUME NEW P \in SUBSET Snap, NEW Q \in SUBSET Snap, P \subseteq Q,
         NEW n \in Int, NEW m \in Int, n <= m
  PROVE  Expired(P, n) \subseteq Expired(Q, m)
<1> SUFFICES ASSUME NEW s \in Expired(P, n)
             PROVE  s \in Expired(Q, m)
  OBVIOUS
<1> DEFINE A == {t \in Counted(P) : t > s}
           B == {t \in Counted(Q) : t > s}
<1>1. A \subseteq B /\ B \in SUBSET Snap /\ s \in Counted(P) /\ s \in Counted(Q)
  BY DEF Expired, Counted
<1>2. IsFiniteSet(B) /\ A \in SUBSET B
  BY <1>1, SnapFinite
<1>3. Cardinality(A) <= Cardinality(B) /\ Cardinality(A) \in Nat /\ Cardinality(B) \in Nat
  BY <1>2, FS_Subset, FS_CardinalityType
<1>4. Cardinality(A) >= Keep
  BY DEF Expired
<1>5. Keep \in Nat /\ Days \in Nat /\ s \in Int
  BY <1>1, RetentionAssumption, BoundAssumption DEF Valid, Snap, Counted
<1>6. Cardinality(B) >= Keep
  BY <1>3, <1>4, <1>5
<1>7. Days > 0 => s <= m - Days
  BY <1>5 DEF Expired
<1>8. QED
  BY <1>1, <1>6, <1>7 DEF Expired

\* With Keep > 0 the newest snapshot of all has not expired.
LEMMA NewestKept ==
  ASSUME Keep > 0, NEW P \in SUBSET Snap, NEW s \in P, \A t \in P : t <= s, NEW n
  PROVE  s \notin Expired(P, n)
<1> DEFINE A == {t \in Counted(P) : t > s}
<1>1. P \subseteq Int /\ s \in Int
  BY BoundAssumption DEF Snap
<1>2. A = {}
  <2>1. SUFFICES ASSUME NEW t \in A
                 PROVE  FALSE
    OBVIOUS
  <2>2. t \in P /\ t > s
    BY DEF Counted
  <2>3. t <= s
    BY <2>2
  <2>4. QED
    BY <1>1, <2>2, <2>3
<1>3. Cardinality(A) = 0
  BY <1>2, FS_EmptySet
<1>4. ~(Cardinality(A) >= Keep)
  BY <1>3, RetentionAssumption DEF Valid
<1>5. QED
  BY <1>4 DEF Expired

-----------------------------------------------------------------------------
(* StoreInv is inductive                                                     *)

LEMMA StoreInvInit == Init => StoreInv
  BY BoundAssumption
  DEF Init, StoreInv, TypeOK, TakeInv, PruneInv, NewestSurvive, Listed, Snap, File, Manifest,
      NoTake, NoPrune, NoCollect, TakeState, PruneState, CollectState

\* The part of the invariant about expiry survives a step that publishes
\* nothing and rewrites no published manifest.
LEMMA SameExpiry ==
  ASSUME StoreInv, TypeOK', published' = published, clock' = clock,
         \A s \in published : manifest'[s] = manifest[s]
  PROVE  Expired(published, clock)' = Expired(published, clock)
  BY DEF StoreInv, TypeOK, Expired, Counted

LEMMA TakeKeepsStoreInv ==
  ASSUME Keep > 0, StoreInv, TypeOK', TakeNext
  PROVE  StoreInv'
<1> USE DEF StoreInv, diskVars
<1>0. /\ clock \in Int /\ clock' = clock /\ published \in SUBSET Snap
      /\ published' \in SUBSET Snap
  BY BoundAssumption DEF TypeOK, TakeNext, TakeStart, Begin, WriteSpec, WriteData, Write, PinImage,
       WriteManifest, Commit, Abort, TakeCrash
<1>1. CASE TakeStart
  <2>1. Expired(published, clock)' = Expired(published, clock)
    BY <1>1, SameExpiry DEF TakeStart
  <2>2. NewestSurvive'
    BY <1>1, <2>1 DEF TakeStart, NewestSurvive, Intact
  <2>3. PruneInv'
    BY <1>1, <2>1 DEF TakeStart, PruneInv
  <2>4. TakeInv'
    BY <1>0, <1>1, BoundAssumption DEF TakeStart, TakeInv, TypeOK
  <2>5. QED
    BY <1>1, <2>2, <2>3, <2>4 DEF TakeStart, Listed
<1>2. CASE Begin
  <2>1. Expired(published, clock)' = Expired(published, clock)
    BY <1>2, SameExpiry DEF Begin
  <2>2. CASE dir[take.id] = "final"
    <3>1. UNCHANGED <<clock, diskVars, prune, published>> /\ take'.pc = "idle"
      BY <1>2, <2>2 DEF Begin, NoTake
    <3>2. QED
      BY <2>1, <3>1 DEF TakeInv, PruneInv, NewestSurvive, Intact, Listed
  <2>3. CASE dir[take.id] # "final"
    <3>1. take.pc = "begin" /\ take.id \in Snap /\ \A s \in published : s <= take.id
      BY <1>2 DEF Begin, TakeInv, TypeOK
    <3>2. take.id \notin published
      <4>1. SUFFICES ASSUME take.id \in published
                     PROVE  FALSE
        OBVIOUS
      <4>2. take.id \notin Expired(published, clock)
        BY <1>0, <3>1, <4>1, NewestKept
      <4>3. QED
        BY <2>3, <4>1, <4>2 DEF NewestSurvive, Intact
    <3>3. \A s \in Snap : s # take.id => dir'[s] = dir[s] /\ files'[s] = files[s]
      BY <1>2, <2>3 DEF Begin, TypeOK
    <3>4. dir'[take.id] = "pending" /\ take'.id = take.id /\ take'.pc = "spec"
      BY <1>2, <2>3, <3>1 DEF Begin, TypeOK, TakeState
    <3>5. published' = published /\ prune' = prune
      BY <1>2 DEF Begin
    <3>6. NewestSurvive'
      BY <1>0, <2>1, <3>2, <3>3, <3>5 DEF NewestSurvive, Intact
    <3>7. Listed' \subseteq published'
      BY <3>3, <3>4, <3>5 DEF Listed
    <3>8. TakeInv'
      BY <1>0, <1>2, <3>1, <3>2, <3>4, <3>5 DEF TakeInv
    <3>9. PruneInv'
      BY <2>1, <3>5 DEF PruneInv
    <3>10. QED
      BY <1>0, <3>5, <3>6, <3>7, <3>8, <3>9
  <2>4. QED
    BY <2>2, <2>3
<1>3. CASE WriteSpec \/ WriteData \/ PinImage \/ WriteManifest
  <2>1. /\ take.id \in Snap /\ take.id \notin published /\ dir[take.id] = "pending"
        /\ take.pc \in {"spec", "data", "pin", "manifest"}
    BY <1>3 DEF WriteSpec, WriteData, WriteManifest, Write, PinImage, TakeInv, TypeOK
  <2>2. /\ published' = published /\ prune' = prune /\ dir' = dir
        /\ \A s \in Snap : s # take.id => manifest'[s] = manifest[s] /\ files'[s] = files[s]
    BY <1>3 DEF WriteSpec, WriteData, WriteManifest, Write, PinImage, TypeOK
  <2>3. Expired(published, clock)' = Expired(published, clock)
    BY <1>0, <2>1, <2>2, SameExpiry
  <2>4. NewestSurvive'
    BY <1>0, <2>1, <2>2, <2>3 DEF NewestSurvive, Intact
  <2>5. PruneInv'
    BY <2>2, <2>3 DEF PruneInv
  <2>6. TakeInv'
    <3>1. /\ take'.id = take.id
          /\ take'.pc = CASE take.pc = "spec" -> "data"
                          [] take.pc = "data" -> "pin"
                          [] take.pc = "pin" -> "manifest"
                          [] take.pc = "manifest" -> "commit"
      BY <1>3 DEF WriteSpec, WriteData, WriteManifest, Write, PinImage, TypeOK, TakeState
    <3>2. files[take.id] \subseteq files'[take.id]
      BY <1>3, <2>1 DEF WriteSpec, WriteData, WriteManifest, Write, PinImage, TypeOK
    <3>3. /\ take.pc = "spec" => "spec" \in files'[take.id]
          /\ take.pc = "data" => "data" \in files'[take.id]
          /\ take.pc = "manifest" => "manifest" \in files'[take.id]
      BY <1>3, <2>1 DEF WriteSpec, WriteData, WriteManifest, Write, PinImage, TypeOK
    <3>4. QED
      BY <1>0, <2>1, <2>2, <3>1, <3>2, <3>3 DEF TakeInv
  <2>7. QED
    BY <1>0, <2>2, <2>4, <2>5, <2>6 DEF Listed
<1>4. CASE Commit
  <2>1. /\ take.id \in Snap /\ take.id \notin published
        /\ files[take.id] = File /\ take.id \in 1 .. clock
    BY <1>4 DEF Commit, TakeInv, TypeOK, File
  <2>2. /\ published' = published \cup {take.id} /\ prune' = prune /\ files' = files
        /\ manifest' = manifest /\ take'.pc = "idle" /\ dir'[take.id] = "final"
        /\ \A s \in Snap : s # take.id => dir'[s] = dir[s]
    BY <1>4, <2>1 DEF Commit, NoTake, TypeOK
  <2>3. Expired(published, clock) \subseteq Expired(published', clock)
    BY <1>0, <2>2, ExpiredGrows
  <2>4. Expired(published, clock)' = Expired(published', clock)
    BY <1>0, <2>2 DEF Expired, Counted
  <2>5. NewestSurvive'
    BY <1>0, <2>1, <2>2, <2>3, <2>4 DEF NewestSurvive, Intact
  <2>6. PruneInv'
    BY <2>2, <2>3, <2>4 DEF PruneInv
  <2>7. TakeInv'
    BY <2>2 DEF TakeInv
  <2>8. QED
    BY <1>0, <2>1, <2>2, <2>5, <2>6, <2>7 DEF Listed
<1>5. CASE Abort
  <2>1. take.id \in Snap /\ take.id \notin published
    BY <1>5 DEF Abort, TakeInv, TypeOK
  <2>2. /\ published' = published /\ prune' = prune /\ manifest' = manifest
        /\ take'.pc = "idle" /\ dir'[take.id] = "none"
        /\ \A s \in Snap : s # take.id => dir'[s] = dir[s] /\ files'[s] = files[s]
    BY <1>5, <2>1 DEF Abort, NoTake, TypeOK
  <2>3. Expired(published, clock)' = Expired(published, clock)
    BY <1>0, <2>2, SameExpiry
  <2>4. NewestSurvive'
    BY <1>0, <2>1, <2>2, <2>3 DEF NewestSurvive, Intact
  <2>5. QED
    BY <1>0, <2>1, <2>2, <2>3, <2>4 DEF PruneInv, TakeInv, Listed
<1>6. CASE TakeCrash
  <2>1. Expired(published, clock)' = Expired(published, clock)
    BY <1>6, SameExpiry DEF TakeCrash
  <2>2. QED
    BY <1>0, <1>6, <2>1 DEF TakeCrash, NoTake, TakeInv, PruneInv, NewestSurvive, Intact, Listed
<1>7. QED
  BY <1>1, <1>2, <1>3, <1>4, <1>5, <1>6 DEF TakeNext

\* What no step of pruner p touches.
LEMMA PruneFrame ==
  ASSUME TypeOK, NEW p \in Pruners, PruneNext(p)
  PROVE  /\ UNCHANGED <<clock, manifest, take, collect, published>>
         /\ \A q \in Pruners : q # p => prune'[q] = prune[q]
<1> USE DEF diskVars, TypeOK
<1>1. CASE PruneList(p)
  BY <1>1 DEF PruneList
<1>2. CASE PruneLoad(p)
  BY <1>2 DEF PruneLoad
<1>3. CASE PruneDecide(p)
  BY <1>3 DEF PruneDecide
<1>4. CASE RemoveFile(p)
  BY <1>4 DEF RemoveFile
<1>5. CASE RemoveDir(p)
  BY <1>5 DEF RemoveDir
<1>6. CASE RemoveFails(p)
  BY <1>6 DEF RemoveFails
<1>7. CASE UnpinImage(p)
  BY <1>7 DEF UnpinImage
<1>8. CASE PruneDone(p) \/ PruneCrash(p)
  BY <1>8 DEF PruneDone, PruneCrash
<1>9. QED
  BY <1>1, <1>2, <1>3, <1>4, <1>5, <1>6, <1>7, <1>8 DEF PruneNext

LEMMA PruneKeepsStoreInv ==
  ASSUME StoreInv, TypeOK', NEW p \in Pruners, PruneNext(p)
  PROVE  StoreInv'
<1> USE DEF StoreInv, diskVars
<1>1. /\ clock' = clock /\ manifest' = manifest /\ take' = take /\ published' = published
      /\ clock \in Int /\ published \in SUBSET Snap
  BY PruneFrame, BoundAssumption DEF TypeOK
<1>2. Expired(published, clock)' = Expired(published, clock)
  BY <1>1, SameExpiry
\* A step that deletes nothing has only the pruner's own sets to answer for.
<1>3. ASSUME dir' = dir, files' = files,
             \A q \in Pruners : q # p => prune'[q] = prune[q],
             prune'[p].todo \subseteq published, prune'[p].seen \subseteq published,
             prune'[p].doomed \subseteq Expired(published, clock)
      PROVE  StoreInv'
  BY <1>1, <1>2, <1>3 DEF TakeInv, PruneInv, NewestSurvive, Intact, Listed
<1>4. CASE PruneList(p)
  BY <1>3, <1>4 DEF PruneList, NoPrune, TypeOK
<1>5. CASE PruneLoad(p)
  <2>1. PICK s \in prune[p].todo :
          prune' = [prune EXCEPT ![p] = [prune[p] EXCEPT !.todo = @ \ {s},
                      !.seen = IF Readable(s) THEN @ \cup {s} ELSE @]]
    BY <1>5 DEF PruneLoad
  <2>2. /\ prune'[p].todo = prune[p].todo \ {s}
        /\ prune'[p].seen \subseteq prune[p].seen \cup {s}
        /\ prune'[p].doomed = prune[p].doomed
        /\ \A q \in Pruners : q # p => prune'[q] = prune[q]
    BY <2>1 DEF TypeOK, PruneState
  <2>3. dir' = dir /\ files' = files
    BY <1>5 DEF PruneLoad
  <2>4. QED
    BY <1>3, <2>2, <2>3 DEF PruneInv
<1>6. CASE PruneDecide(p)
  <2>1. Expired(prune[p].seen, clock) \subseteq Expired(published, clock)
    <3>1. prune[p].seen \in SUBSET published
      BY DEF PruneInv
    <3>2. QED
      BY <1>1, <3>1, ExpiredGrows
  <2>2. /\ prune'[p].todo = prune[p].todo
        /\ prune'[p].seen = prune[p].seen
        /\ prune'[p].doomed = Expired(prune[p].seen, clock)
        /\ \A q \in Pruners : q # p => prune'[q] = prune[q]
    BY <1>6 DEF PruneDecide, TypeOK, PruneState
  <2>3. dir' = dir /\ files' = files
    BY <1>6 DEF PruneDecide
  <2>4. QED
    BY <1>3, <2>1, <2>2, <2>3 DEF PruneInv
<1>7. CASE RemoveFile(p)
  <2>1. PICK s \in prune[p].doomed :
          /\ dir[s] = "final"
          /\ \A t \in Snap : t # s => files'[t] = files[t]
    BY <1>7 DEF RemoveFile, TypeOK
  <2>2. s \in Expired(published, clock)
    BY <2>1 DEF PruneInv
  <2>3. NewestSurvive'
    BY <1>1, <1>2, <1>7, <2>1, <2>2 DEF RemoveFile, NewestSurvive, Intact
  <2>4. TakeInv'
    <3>1. take.pc \notin {"idle", "begin"} => take.id # s /\ take.id \in Snap
      BY <2>1 DEF TakeInv, TypeOK
    <3>2. QED
      BY <1>1, <1>7, <2>1, <3>1 DEF RemoveFile, TakeInv
  <2>5. QED
    BY <1>1, <1>2, <1>7, <2>3, <2>4 DEF RemoveFile, PruneInv, Listed
<1>8. CASE RemoveDir(p)
  <2>1. PICK s \in prune[p].doomed :
          /\ dir' = [dir EXCEPT ![s] = "none"]
          /\ prune' = IF manifest[s].pinned
                        THEN [prune EXCEPT ![p] = [prune[p] EXCEPT !.pc = "unpin"]]
                        ELSE [prune EXCEPT ![p] = [prune[p] EXCEPT !.doomed = @ \ {s}]]
    BY <1>8 DEF RemoveDir
  <2>2. s \in Expired(published, clock) /\ s \in published
    BY <2>1 DEF PruneInv, Expired, Counted
  <2>3. /\ prune'[p].todo = prune[p].todo
        /\ prune'[p].seen = prune[p].seen
        /\ prune'[p].doomed \subseteq prune[p].doomed
        /\ \A q \in Pruners : q # p => prune'[q] = prune[q]
    BY <2>1 DEF TypeOK, PruneState
  <2>4. PruneInv'
    BY <1>1, <1>2, <2>3 DEF PruneInv
  <2>5. NewestSurvive'
    BY <1>1, <1>2, <1>8, <2>1, <2>2 DEF RemoveDir, NewestSurvive, Intact, TypeOK
  <2>6. TakeInv'
    BY <1>1, <1>8, <2>1, <2>2 DEF RemoveDir, TakeInv, TypeOK
  <2>7. Listed' \subseteq published'
    BY <1>1, <2>1 DEF Listed, TypeOK
  <2>8. QED
    BY <1>1, <2>4, <2>5, <2>6, <2>7
<1>9. CASE RemoveFails(p)
  <2>1. PICK s \in prune[p].doomed :
          prune' = [prune EXCEPT ![p] = [prune[p] EXCEPT !.doomed = @ \ {s}]]
    BY <1>9 DEF RemoveFails
  <2>2. /\ prune'[p].todo = prune[p].todo
        /\ prune'[p].seen = prune[p].seen
        /\ prune'[p].doomed \subseteq prune[p].doomed
        /\ \A q \in Pruners : q # p => prune'[q] = prune[q]
    BY <2>1 DEF TypeOK, PruneState
  <2>3. QED
    BY <1>3, <1>9, <2>2 DEF RemoveFails, PruneInv
<1>10. CASE UnpinImage(p)
  <2>1. PICK s \in prune[p].doomed :
          prune' = [prune EXCEPT ![p] = [prune[p] EXCEPT !.pc = "remove", !.doomed = @ \ {s}]]
    BY <1>10 DEF UnpinImage
  <2>2. /\ prune'[p].todo = prune[p].todo
        /\ prune'[p].seen = prune[p].seen
        /\ prune'[p].doomed \subseteq prune[p].doomed
        /\ \A q \in Pruners : q # p => prune'[q] = prune[q]
    BY <2>1 DEF TypeOK, PruneState
  <2>3. QED
    BY <1>3, <1>10, <2>2 DEF UnpinImage, PruneInv
<1>11. CASE PruneDone(p) \/ PruneCrash(p)
  <2>1. prune' = [prune EXCEPT ![p] = NoPrune] /\ dir' = dir /\ files' = files
    BY <1>11 DEF PruneDone, PruneCrash
  <2>2. /\ prune'[p].todo = {} /\ prune'[p].seen = {} /\ prune'[p].doomed = {}
        /\ \A q \in Pruners : q # p => prune'[q] = prune[q]
    BY <2>1 DEF TypeOK, NoPrune
  <2>3. QED
    BY <1>3, <2>1, <2>2
<1>12. QED
  BY <1>4, <1>5, <1>6, <1>7, <1>8, <1>9, <1>10, <1>11 DEF PruneNext

LEMMA StoreInvStep ==
  ASSUME Keep > 0, "power" \notin Env, StoreInv, TypeOK', [Next]_vars
  PROVE  StoreInv'
<1> USE DEF diskVars
<1>1. CASE Tick
  <2>1. clock \in Int /\ clock' = clock + 1 /\ published \in SUBSET Snap
    BY <1>1, BoundAssumption DEF Tick, StoreInv, TypeOK
  <2>2. Expired(published, clock) \subseteq Expired(published, clock + 1)
    BY <2>1, ExpiredGrows
  <2>3. Expired(published, clock)' = Expired(published, clock + 1)
    BY <1>1, <2>1 DEF Tick, Expired, Counted
  <2>4. TakeInv'
    BY <1>1, <2>1 DEF Tick, StoreInv, TakeInv
  <2>5. published' \subseteq 1 .. clock'
    BY <1>1, <2>1 DEF Tick, StoreInv
  <2>6. QED
    BY <1>1, <2>2, <2>3, <2>4, <2>5
    DEF Tick, StoreInv, PruneInv, NewestSurvive, Intact, Listed
<1>2. CASE TakeNext
  BY <1>2, TakeKeepsStoreInv
<1>3. CASE \E p \in Pruners : PruneNext(p)
  BY <1>3, PruneKeepsStoreInv
<1>4. ASSUME UNCHANGED <<clock, dir, files, manifest, take, prune, published>>
      PROVE  StoreInv'
  <2>1. Expired(published, clock)' = Expired(published, clock)
    BY <1>4, SameExpiry
  <2>2. QED
    BY <1>4, <2>1 DEF StoreInv, TakeInv, PruneInv, NewestSurvive, Intact, Listed
<1>5. CASE CollectNext
  BY <1>4, <1>5 DEF CollectNext, CollectStart, CollectLoad, ListPins, ReleasePin, CollectDone
<1>6. CASE PowerLoss
  BY <1>6 DEF PowerLoss
<1>7. CASE UNCHANGED vars
  BY <1>4, <1>7 DEF vars
<1>8. QED
  BY <1>1, <1>2, <1>3, <1>5, <1>6, <1>7 DEF Next, StoreNext

\* No pruner, however many run at once and however stale their listings are,
\* and no failure or crash ever costs the store a snapshot the retention policy
\* keeps (prune.go:84-173 against snapshot.go:72-226); power loss excepted,
\* since what Commit renames is not flushed.
THEOREM RetentionIsSafe ==
  ASSUME Keep > 0, "power" \notin Env
  PROVE  Spec => []NewestSurvive
<1>1. Init => StoreInv
  BY StoreInvInit
<1>2. StoreInv /\ TypeOK' /\ [Next]_vars => StoreInv'
  BY StoreInvStep
<1>3. StoreInv => NewestSurvive
  BY DEF StoreInv
<1>4. QED
  BY <1>1, <1>2, <1>3, TypeCorrect, PTL DEF Spec

-----------------------------------------------------------------------------
(* Pins                                                                      *)

LEMMA PinInvStep ==
  ASSUME "collect" \notin Env, "power" \notin Env, collect.pc = "idle",
         Keep > 0, StoreInv, TypeOK', PinInv, [Next]_vars
  PROVE  PinInv' /\ collect'.pc = "idle"
<1> USE DEF PinInv, PinHeld, Readable, diskVars
<1>0. TypeOK
  BY DEF StoreInv
<1>1. CASE Tick
  BY <1>1 DEF Tick
<1>2. CASE TakeStart \/ TakeCrash
  BY <1>2 DEF TakeStart, TakeCrash, NoTake
<1>3. CASE Begin
  <2>1. CASE dir[take.id] = "final"
    BY <1>3, <2>1 DEF Begin, NoTake
  <2>2. CASE dir[take.id] # "final"
    <3>1. /\ take.id \in Snap /\ take'.pc = "spec" /\ prune' = prune /\ pins' = pins
          /\ take.pc = "begin" /\ take'.pinned = take.pinned
          /\ manifest' = manifest /\ collect' = collect /\ dir'[take.id] = "pending"
          /\ \A s \in Snap : s # take.id => dir'[s] = dir[s] /\ files'[s] = files[s]
      BY <1>0, <1>3, <2>2 DEF Begin, TypeOK, TakeState
    <3>2. \A p \in Pruners : prune[p].doomed \subseteq Snap
      BY <1>0 DEF TypeOK, PruneState
    <3>3. QED
      BY <3>1, <3>2
  <2>3. QED
    BY <2>1, <2>2
<1>4. CASE WriteSpec \/ WriteData \/ WriteManifest
  <2>1. /\ take.id \in Snap /\ dir[take.id] = "pending" /\ prune' = prune /\ pins' = pins
        /\ dir' = dir /\ collect' = collect /\ take'.id = take.id
        /\ \A s \in Snap : s # take.id => manifest'[s] = manifest[s] /\ files'[s] = files[s]
    BY <1>0, <1>4
    DEF WriteSpec, WriteData, WriteManifest, Write, TypeOK, TakeState, StoreInv, TakeInv
  <2>2. /\ take'.pc \in {"data", "pin", "commit"}
        /\ take'.pc = "data" => take.pc = "spec" /\ take'.pinned = take.pinned
        /\ take'.pc = "pin" => take.pc = "data" /\ take'.pinned = take.pinned
        /\ take'.pc = "commit" => take.pc = "manifest" /\ manifest'[take.id].pinned = take.pinned
    BY <1>0, <1>4 DEF WriteSpec, WriteData, WriteManifest, Write, TypeOK, TakeState
  <2>3. QED
    BY <2>1, <2>2
<1>5. CASE PinImage
  <2>1. /\ take.id \in Snap /\ prune' = prune /\ pins \subseteq pins' /\ UNCHANGED diskVars
        /\ collect' = collect /\ take'.id = take.id /\ take'.pc = "manifest"
    BY <1>0, <1>5 DEF PinImage, TypeOK, TakeState
  <2>2. take'.pinned => take.id \in pins'
    <3>1. take.pinned = FALSE \/ take.pinned = TRUE
      BY <1>0 DEF TypeOK, TakeState
    <3>2. take.pc = "pin" => ~take.pinned
      BY <1>0, <1>5, <3>1 DEF PinImage
    <3>3. QED
      BY <1>0, <1>5, <3>2 DEF PinImage, TypeOK, TakeState
  <2>3. QED
    BY <2>1, <2>2
<1>6. CASE Commit
  <2>1. /\ take.pc = "commit" /\ take.id \in Snap /\ take.id \notin published
        /\ prune' = prune /\ pins' = pins /\ files' = files /\ manifest' = manifest
        /\ collect' = collect /\ take'.pc = "idle"
        /\ \A s \in Snap : s # take.id => dir'[s] = dir[s]
    BY <1>0, <1>6 DEF Commit, NoTake, TypeOK, StoreInv, TakeInv
  <2>2. \A p \in Pruners : take.id \notin prune[p].doomed
    BY <2>1 DEF StoreInv, PruneInv, Expired, Counted
  <2>3. \A p \in Pruners : prune[p].doomed \subseteq Snap
    BY <1>0 DEF TypeOK, PruneState
  <2>4. QED
    BY <2>1, <2>2, <2>3
<1>7. CASE Abort
  <2>1. /\ take.id \in Snap /\ take'.pc = "idle" /\ prune' = prune /\ pins' = pins
        /\ manifest' = manifest /\ collect' = collect /\ dir'[take.id] = "none"
        /\ \A s \in Snap : s # take.id => dir'[s] = dir[s] /\ files'[s] = files[s]
    BY <1>0, <1>7 DEF Abort, NoTake, TypeOK
  <2>2. \A p \in Pruners : prune[p].doomed \subseteq Snap
    BY <1>0 DEF TypeOK, PruneState
  <2>3. QED
    BY <2>1, <2>2
<1>8. ASSUME NEW p \in Pruners, PruneNext(p)
      PROVE  PinInv' /\ collect'.pc = "idle"
  <2>1. /\ take' = take /\ manifest' = manifest /\ collect' = collect
        /\ \A q \in Pruners : q # p => prune'[q] = prune[q]
        /\ prune[p].doomed \subseteq Snap
    <3>1. prune[p] \in PruneState
      BY <1>0 DEF TypeOK
    <3>2. QED
      BY <1>0, <1>8, <3>1, PruneFrame DEF PruneState
  <2>2. CASE RemoveFile(p)
    <3>1. /\ dir' = dir /\ prune' = prune /\ pins' = pins
          /\ \A s \in Snap : files'[s] \subseteq files[s]
      BY <1>0, <2>2 DEF RemoveFile, TypeOK
    <3>2. QED
      BY <2>1, <3>1
  <2>3. CASE RemoveDir(p)
    <3>1. PICK s \in prune[p].doomed :
            /\ Newest(s, prune[p].doomed)
            /\ dir' = [dir EXCEPT ![s] = "none"]
            /\ prune' = IF manifest[s].pinned
                          THEN [prune EXCEPT ![p] = [prune[p] EXCEPT !.pc = "unpin"]]
                          ELSE [prune EXCEPT ![p] = [prune[p] EXCEPT !.doomed = @ \ {s}]]
      BY <2>3 DEF RemoveDir
    <3>2. prune[p].pc = "remove" /\ files' = files /\ pins' = pins
      BY <2>3 DEF RemoveDir
    <3>3. \A t \in Snap : dir'[t] = "final" => dir[t] = "final"
      BY <1>0, <3>1 DEF TypeOK
    <3>4. dir'[s] = "none"
      BY <1>0, <2>1, <3>1 DEF TypeOK
    <3>5. prune'[p].pc = "unpin" => prune'[p].doomed = prune[p].doomed
      BY <1>0, <3>1, <3>2 DEF TypeOK, PruneState
    <3>6. \A t \in prune[p].doomed : Newest(t, prune[p].doomed) => t = s
      BY <2>1, <3>1, BoundAssumption DEF Newest, Snap
    <3>7. \A q \in Pruners : prune[q].doomed \subseteq Snap
      BY <1>0 DEF TypeOK, PruneState
    <3>8. ASSUME NEW q \in Pruners, prune'[q].pc = "unpin",
                 NEW t \in prune'[q].doomed, Newest(t, prune'[q].doomed)
          PROVE  dir'[t] # "final"
      <4>1. CASE q = p
        BY <3>4, <3>5, <3>6, <3>8, <4>1
      <4>2. CASE q # p
        BY <2>1, <3>3, <3>7, <3>8, <4>2
      <4>3. QED
        BY <4>1, <4>2
    <3>9. /\ \A t \in Snap : (dir'[t] = "final" /\ "manifest" \in files'[t]) /\ manifest'[t].pinned
                              => t \in pins'
          /\ take'.pc = "manifest" /\ take'.pinned => take'.id \in pins'
          /\ take'.pc = "commit" /\ manifest'[take'.id].pinned => take'.id \in pins'
      BY <2>1, <3>2, <3>3
    <3>10. QED
      BY <2>1, <3>8, <3>9 DEF Newest
  <2>4. CASE UnpinImage(p)
    <3>1. PICK s \in prune[p].doomed :
            /\ Newest(s, prune[p].doomed)
            /\ prune'[p].pc = "remove"
            /\ pins \ {s} \subseteq pins'
      BY <1>0, <2>4 DEF UnpinImage, TypeOK
    <3>2. dir[s] # "final" /\ dir' = dir /\ files' = files
      BY <2>4, <3>1 DEF UnpinImage
    <3>3. take.pc \notin {"idle", "begin"} => s # take.id
      BY <3>1 DEF StoreInv, TakeInv, PruneInv, Expired, Counted
    <3>4. QED
      BY <2>1, <3>1, <3>2, <3>3
  <2>5. CASE PruneList(p) \/ PruneLoad(p) \/ PruneDecide(p) \/ RemoveFails(p)
             \/ PruneDone(p) \/ PruneCrash(p)
    <3>1. UNCHANGED <<diskVars, pins>>
      BY <2>5 DEF PruneList, PruneLoad, PruneDecide, RemoveFails, PruneDone, PruneCrash
    <3>2. prune'[p].pc # "unpin"
      <4>1. prune[p] \in PruneState /\ prune \in [Pruners -> PruneState]
        BY <1>0 DEF TypeOK
      <4>2. CASE PruneList(p) \/ PruneDone(p) \/ PruneCrash(p)
        <5>1. NoPrune.pc = "idle" /\ [NoPrune EXCEPT !.pc = "load", !.todo = Listed].pc = "load"
          BY DEF NoPrune
        <5>2. prune'[p].pc \in {"idle", "load"}
          BY <4>1, <4>2, <5>1 DEF PruneList, PruneDone, PruneCrash
        <5>3. QED
          BY <5>2
      <4>3. CASE PruneLoad(p)
        BY <4>1, <4>3 DEF PruneLoad, PruneState
      <4>4. CASE PruneDecide(p)
        BY <4>1, <4>4 DEF PruneDecide, PruneState
      <4>5. CASE RemoveFails(p)
        <5>1. PICK kept \in SUBSET Snap : prune' = [prune EXCEPT ![p] = [prune[p] EXCEPT !.doomed = kept]]
          BY <4>1, <4>5 DEF RemoveFails, PruneState
        <5>2. prune[p].pc = "remove"
          BY <4>5 DEF RemoveFails
        <5>3. prune'[p].pc = "remove"
          BY <4>1, <5>1, <5>2 DEF PruneState
        <5>4. QED
          BY <5>3
      <4>6. QED
        BY <2>5, <4>2, <4>3, <4>4, <4>5
    <3>3. QED
      BY <2>1, <3>1, <3>2
  <2>6. QED
    BY <1>8, <2>2, <2>3, <2>4, <2>5 DEF PruneNext
<1>9. CASE CollectNext
  BY <1>9 DEF CollectNext, CollectStart, CollectLoad, ListPins, ReleasePin, CollectDone
<1>10. CASE PowerLoss
  BY <1>10 DEF PowerLoss
<1>11. CASE UNCHANGED vars
  BY <1>11 DEF vars
<1>12. QED
  BY <1>1, <1>2, <1>3, <1>4, <1>5, <1>6, <1>7, <1>8, <1>9, <1>10, <1>11 DEF Next, StoreNext, TakeNext

\* As long as nobody collects orphaned pins beside a running Take, a manifest
\* that can be read never names a pin that is gone (snapshot.go:191-202,
\* prune.go:181-197), whatever pruners, failures and crashes do.
THEOREM PinsAreHeld ==
  ASSUME Keep > 0, "power" \notin Env, "collect" \notin Env
  PROVE  Spec => []PinHeld
<1> DEFINE Inv == StoreInv /\ PinInv /\ collect.pc = "idle"
<1>1. Init => Inv
  BY StoreInvInit DEF Init, PinInv, PinHeld, Readable, NoTake, NoPrune, NoCollect
<1>2. Inv /\ TypeOK' /\ [Next]_vars => Inv'
  BY StoreInvStep, PinInvStep
<1>3. Inv => PinHeld
  BY DEF PinInv
<1>4. QED
  BY <1>1, <1>2, <1>3, TypeCorrect, PTL DEF Spec

-----------------------------------------------------------------------------
(* Pins beside a collector                                                   *)

\* What StoreInv says about the directories alone; it does not mind a loss of
\* power, which takes contents, not names.
ListingInv ==
  /\ TypeOK
  /\ published \subseteq 1 .. clock
  /\ Listed \subseteq published
  /\ take.pc # "idle" => take.id \in 1 .. clock /\ \A s \in published : s <= take.id
  /\ take.pc \notin {"idle", "begin"} => dir[take.id] = "pending" /\ take.id \notin published
  /\ PruneInv
  /\ \A s \in published \ Expired(published, clock) : dir[s] = "final"

\* A pruner comes to a pin when the directory is gone.
UnpinInv ==
  \A p \in Pruners : prune[p].pc = "unpin" =>
    \A s \in prune[p].doomed : Newest(s, prune[p].doomed) => dir[s] # "final"

\* Of what the collector has listed and read, it knows the pins; what it takes for
\* orphans is not among them.
CollectInv ==
  /\ collect.listed \subseteq published
  /\ \A s \in collect.listed \ collect.todo : manifest[s].pinned => s \in collect.referenced
  /\ collect.pc = "release" => collect.todo = {} /\ collect.orphans \cap collect.referenced = {}

\* What a step of pruner p does to its own sets, and to a directory.
LEMMA PruneEffect ==
  ASSUME TypeOK, PruneInv, Listed \subseteq published, published \in SUBSET Snap, clock \in Int,
         NEW p \in Pruners, PruneNext(p)
  PROVE  /\ prune'[p].todo \subseteq published /\ prune'[p].seen \subseteq published
         /\ prune'[p].doomed \subseteq Expired(published, clock)
         /\ dir' = dir \/ \E s \in prune[p].doomed : dir' = [dir EXCEPT ![s] = "none"]
<1> USE DEF diskVars
<1>0. prune \in [Pruners -> PruneState] /\ prune[p] \in PruneState
  BY DEF TypeOK
<1>1. /\ prune[p].todo \subseteq published /\ prune[p].seen \subseteq published
      /\ prune[p].doomed \subseteq Expired(published, clock)
  BY DEF PruneInv
<1>2. CASE PruneList(p)
  <2>1. prune'[p].todo = Listed /\ prune'[p].seen = {} /\ prune'[p].doomed = {}
    BY <1>0, <1>2 DEF PruneList, NoPrune
  <2>2. QED
    BY <1>2, <2>1 DEF PruneList
<1>3. CASE PruneLoad(p)
  <2>1. PICK s \in prune[p].todo :
          prune' = [prune EXCEPT ![p] = [prune[p] EXCEPT !.todo = @ \ {s},
                      !.seen = IF Readable(s) THEN @ \cup {s} ELSE @]]
    BY <1>3 DEF PruneLoad
  <2>2. /\ prune'[p].todo = prune[p].todo \ {s}
        /\ prune'[p].seen \subseteq prune[p].seen \cup {s}
        /\ prune'[p].doomed = prune[p].doomed
    BY <1>0, <2>1 DEF PruneState
  <2>3. QED
    BY <1>1, <1>3, <2>2 DEF PruneLoad
<1>4. CASE PruneDecide(p)
  <2>1. /\ prune'[p].todo = prune[p].todo /\ prune'[p].seen = prune[p].seen
        /\ prune'[p].doomed = Expired(prune[p].seen, clock)
    BY <1>0, <1>4 DEF PruneDecide, PruneState
  <2>2. Expired(prune[p].seen, clock) \subseteq Expired(published, clock)
    BY <1>1, ExpiredGrows
  <2>3. QED
    BY <1>1, <1>4, <2>1, <2>2 DEF PruneDecide
<1>5. CASE RemoveFile(p)
  BY <1>1, <1>5 DEF RemoveFile
<1>6. CASE RemoveDir(p) \/ RemoveFails(p) \/ UnpinImage(p)
  <2>1. PICK s \in prune[p].doomed :
          /\ dir' = dir \/ dir' = [dir EXCEPT ![s] = "none"]
          /\ \/ prune' = [prune EXCEPT ![p] = [prune[p] EXCEPT !.pc = "unpin"]]
             \/ prune' = [prune EXCEPT ![p] = [prune[p] EXCEPT !.doomed = @ \ {s}]]
             \/ prune' = [prune EXCEPT ![p] = [prune[p] EXCEPT !.pc = "remove", !.doomed = @ \ {s}]]
    BY <1>6 DEF RemoveDir, RemoveFails, UnpinImage
  <2> DEFINE rest == prune[p].doomed \ {s}
  <2>2. /\ prune'[p].todo = prune[p].todo /\ prune'[p].seen = prune[p].seen
        /\ prune'[p].doomed \in {prune[p].doomed, rest}
    <3>1. prune'[p] \in {[prune[p] EXCEPT !.pc = "unpin"], [prune[p] EXCEPT !.doomed = rest],
                         [prune[p] EXCEPT !.pc = "remove", !.doomed = rest]}
      BY <1>0, <2>1
    <3> HIDE DEF rest
    <3>2. QED
      BY <1>0, <3>1 DEF PruneState
  <2>3. prune'[p].doomed \subseteq prune[p].doomed
    BY <2>2
  <2>4. QED
    BY <1>1, <2>1, <2>2, <2>3
<1>7. CASE PruneDone(p) \/ PruneCrash(p)
  <2>1. prune'[p] = NoPrune /\ dir' = dir
    BY <1>0, <1>7 DEF PruneDone, PruneCrash
  <2>2. QED
    BY <2>1 DEF NoPrune
<1>8. QED
  BY <1>2, <1>3, <1>4, <1>5, <1>6, <1>7 DEF PruneNext

\* What is published keeps its manifest and, until it has expired, its directory.
LEMMA TakeKeepsListing ==
  ASSUME Keep > 0, ListingInv, TypeOK', TakeNext
  PROVE  /\ ListingInv'
         /\ \A s \in published : manifest'[s] = manifest[s] /\ (dir'[s] = "final" => dir[s] = "final")
<1> USE DEF ListingInv, diskVars
<1>0. /\ clock \in Int /\ clock' = clock /\ published \in SUBSET Snap
      /\ published' \in SUBSET Snap /\ prune' = prune
  BY BoundAssumption DEF TypeOK, TakeNext, TakeStart, Begin, WriteSpec, WriteData, Write, PinImage,
       WriteManifest, Commit, Abort, TakeCrash
<1>1. ASSUME published' = published, \A s \in published : manifest'[s] = manifest[s]
      PROVE  Expired(published, clock)' = Expired(published, clock) /\ PruneInv'
  <2>1. Counted(published)' = Counted(published)
    BY <1>1 DEF Counted
  <2>2. Expired(published, clock)' = Expired(published, clock)
    BY <1>0, <1>1, <2>1 DEF Expired
  <2>3. QED
    BY <1>0, <1>1, <2>2 DEF PruneInv
<1>2. CASE TakeStart \/ TakeCrash
  <2>1. UNCHANGED <<dir, manifest, published>>
    BY <1>2 DEF TakeStart, TakeCrash
  <2>2. /\ take'.pc \in {"idle", "begin"}
        /\ take'.pc # "idle" => take'.id = clock /\ clock > 0
    BY <1>2 DEF TakeStart, TakeCrash, NoTake
  <2>3. take'.pc # "idle" => take'.id \in 1 .. clock /\ \A s \in published : s <= take'.id
    BY <1>0, <2>2
  <2>4. QED
    BY <1>0, <1>1, <2>1, <2>2, <2>3 DEF Listed
<1>3. CASE Begin
  <2>1. /\ take.id \in Snap /\ take.pc = "begin" /\ UNCHANGED <<manifest, published>>
        /\ \A s \in published : s <= take.id
    BY <1>3 DEF Begin, TypeOK
  <2>2. CASE dir[take.id] = "final"
    <3>1. dir' = dir /\ take'.pc = "idle"
      BY <1>3, <2>2 DEF Begin, NoTake
    <3>2. QED
      BY <1>0, <1>1, <2>1, <3>1 DEF Listed
  <2>3. CASE dir[take.id] # "final"
    <3>1. take.id \notin published
      <4>1. take.id \in published => take.id \notin Expired(published, clock)
        BY <1>0, <2>1, NewestKept
      <4>2. QED
        BY <2>3, <4>1
    <3>2. /\ dir'[take.id] = "pending" /\ take'.id = take.id /\ take'.pc = "spec"
          /\ \A s \in Snap : s # take.id => dir'[s] = dir[s]
      BY <1>3, <2>1, <2>3 DEF Begin, TypeOK, TakeState
    <3>3. QED
      BY <1>0, <1>1, <2>1, <3>1, <3>2 DEF Listed
  <2>4. QED
    BY <2>2, <2>3
<1>4. CASE WriteSpec \/ WriteData \/ PinImage \/ WriteManifest
  <2>1. /\ take.id \in Snap /\ take.pc \in {"spec", "data", "pin", "manifest"} /\ take'.id = take.id
        /\ take'.pc \in {"data", "pin", "manifest", "commit"} /\ dir' = dir /\ published' = published
        /\ \A s \in Snap : s # take.id => manifest'[s] = manifest[s]
    <3>1. take.id \in Snap /\ take.pc \in {"spec", "data", "pin", "manifest"} /\ take \in TakeState
      BY <1>4 DEF WriteSpec, WriteData, WriteManifest, Write, PinImage, TypeOK
    <3>2. CASE WriteSpec \/ WriteData \/ PinImage
      <4>1. manifest' = manifest /\ dir' = dir /\ published' = published
        BY <3>2 DEF WriteSpec, WriteData, Write, PinImage
      <4>2. take'.id = take.id /\ take'.pc \in {"data", "pin", "manifest", "commit"}
        BY <3>1, <3>2 DEF WriteSpec, WriteData, Write, PinImage, TakeState
      <4>3. QED
        BY <3>1, <4>1, <4>2
    <3>3. CASE WriteManifest
      <4>1. dir' = dir /\ published' = published /\ \A s \in Snap : s # take.id => manifest'[s] = manifest[s]
        BY <3>3 DEF WriteManifest, Write, TypeOK
      <4>2. take'.id = take.id /\ take'.pc = "commit"
        BY <3>1, <3>3 DEF WriteManifest, Write, TakeState
      <4>3. QED
        BY <3>1, <4>1, <4>2
    <3>4. QED
      BY <1>4, <3>2, <3>3
  <2>2. take.id \notin published
    BY <2>1
  <2>3. QED
    BY <1>0, <1>1, <2>1, <2>2 DEF Listed
<1>5. CASE Commit
  <2>1. /\ take.id \in Snap /\ take.id \notin published /\ take.id \in 1 .. clock
        /\ published' = published \cup {take.id} /\ manifest' = manifest /\ take'.pc = "idle"
        /\ dir'[take.id] = "final" /\ \A s \in Snap : s # take.id => dir'[s] = dir[s]
    BY <1>5 DEF Commit, NoTake, TypeOK
  <2>2. Expired(published, clock) \subseteq Expired(published', clock)
    BY <1>0, <2>1, ExpiredGrows
  <2>3. Expired(published, clock)' = Expired(published', clock)
    BY <1>0, <2>1 DEF Expired, Counted
  <2>4. PruneInv'
    BY <1>0, <2>1, <2>2, <2>3 DEF PruneInv
  <2>5. \A s \in published' \ Expired(published, clock)' : dir'[s] = "final"
    BY <1>0, <2>1, <2>2, <2>3
  <2>6. QED
    BY <1>0, <2>1, <2>4, <2>5 DEF Listed
<1>6. CASE Abort
  <2>1. /\ take.id \in Snap /\ take.id \notin published /\ take'.pc = "idle"
        /\ published' = published /\ manifest' = manifest
        /\ dir'[take.id] = "none" /\ \A s \in Snap : s # take.id => dir'[s] = dir[s]
    BY <1>6 DEF Abort, NoTake, TypeOK
  <2>2. QED
    BY <1>0, <1>1, <2>1 DEF Listed
<1>7. QED
  BY <1>2, <1>3, <1>4, <1>5, <1>6 DEF TakeNext

LEMMA ListingInvStep ==
  ASSUME Keep > 0, ListingInv, TypeOK', [Next]_vars
  PROVE  /\ ListingInv'
         /\ \A s \in published : manifest'[s] = manifest[s] /\ (dir'[s] = "final" => dir[s] = "final")
<1> USE DEF ListingInv, diskVars
<1>0. clock \in Int /\ published \in SUBSET Snap
  BY BoundAssumption DEF TypeOK
<1>1. CASE Tick
  <2>1. clock' = clock + 1 /\ UNCHANGED <<dir, manifest, prune, take, published>>
    BY <1>1 DEF Tick
  <2>2. Expired(published, clock) \subseteq Expired(published, clock + 1)
    BY <1>0, ExpiredGrows
  <2>3. Expired(published, clock)' = Expired(published, clock + 1)
    BY <2>1 DEF Expired, Counted
  <2>4. PruneInv' /\ \A s \in published' \ Expired(published, clock)' : dir'[s] = "final"
    BY <2>1, <2>2, <2>3 DEF PruneInv
  <2>5. QED
    BY <1>0, <2>1, <2>4 DEF Listed
<1>2. CASE TakeNext
  BY <1>2, TakeKeepsListing
\* The others publish nothing and write no manifest.
<1>3. ASSUME UNCHANGED <<clock, manifest, published>>
      PROVE  Expired(published, clock)' = Expired(published, clock)
  BY <1>3 DEF Expired, Counted
<1>4. ASSUME NEW p \in Pruners, PruneNext(p)
      PROVE  /\ ListingInv'
             /\ \A s \in published : manifest'[s] = manifest[s] /\ (dir'[s] = "final" => dir[s] = "final")
  <2>1. /\ UNCHANGED <<clock, manifest, take, published>>
        /\ \A q \in Pruners : q # p => prune'[q] = prune[q]
    BY <1>4, PruneFrame
  <2>2. /\ prune'[p].todo \subseteq published /\ prune'[p].seen \subseteq published
        /\ prune'[p].doomed \subseteq Expired(published, clock)
        /\ dir' = dir \/ \E s \in prune[p].doomed : dir' = [dir EXCEPT ![s] = "none"]
    BY <1>0, <1>4, PruneEffect
  <2>3. Expired(published, clock)' = Expired(published, clock) /\ PruneInv'
    BY <1>3, <2>1, <2>2 DEF PruneInv
  <2>4. prune[p].doomed \subseteq Expired(published, clock) /\ Expired(published, clock) \subseteq published
    BY DEF PruneInv, Expired, Counted
  <2>5. /\ \A s \in published \ Expired(published, clock) : dir'[s] = "final"
        /\ \A s \in Snap : dir'[s] = "final" => dir[s] = "final"
        /\ \A s \in Snap : s \notin published => dir'[s] = dir[s]
    BY <1>0, <2>2, <2>4 DEF TypeOK
  <2>6. Listed' \subseteq published'
    BY <2>1, <2>5 DEF Listed
  <2>7. take.pc \notin {"idle", "begin"} => dir'[take.id] = "pending" /\ take.id \notin published
    BY <2>5 DEF TypeOK
  <2>8. QED
    BY <1>0, <2>1, <2>3, <2>5, <2>6, <2>7
<1>5. ASSUME UNCHANGED <<clock, dir, manifest, take, prune, published>>
      PROVE  ListingInv'
  BY <1>3, <1>5 DEF Listed, PruneInv
<1>6. CASE CollectNext \/ UNCHANGED vars
  <2>1. UNCHANGED <<clock, dir, manifest, take, prune, published>>
    BY <1>6 DEF CollectNext, CollectStart, CollectLoad, ListPins, ReleasePin, CollectDone,
                vars
  <2>2. QED
    BY <1>5, <2>1
<1>7. CASE PowerLoss
  <2>1. /\ UNCHANGED <<clock, dir, manifest, published>> /\ take'.pc = "idle"
        /\ prune' = [p \in Pruners |-> NoPrune]
    BY <1>7 DEF PowerLoss, NoTake
  <2>2. PruneInv'
    BY <2>1 DEF PruneInv, NoPrune
  <2>3. QED
    BY <1>3, <2>1, <2>2 DEF Listed
<1>8. QED
  BY <1>1, <1>2, <1>4, <1>6, <1>7 DEF Next, StoreNext

LEMMA UnpinInvStep ==
  ASSUME ListingInv, UnpinInv, TypeOK', [Next]_vars,
         \A s \in published : dir'[s] = "final" => dir[s] = "final"
  PROVE  UnpinInv'
<1> USE DEF diskVars
<1>0. /\ \A p \in Pruners : prune[p].doomed \subseteq published
      /\ prune \in [Pruners -> PruneState] /\ prune' \in [Pruners -> PruneState]
      /\ published \subseteq Snap
  BY DEF ListingInv, TypeOK, PruneInv, Expired, Counted
<1>1. CASE UNCHANGED prune
  BY <1>0, <1>1 DEF UnpinInv, Newest
<1>2. ASSUME NEW p \in Pruners, PruneNext(p)
      PROVE  UnpinInv'
  <2>1. \A q \in Pruners : q # p => prune'[q] = prune[q]
    BY <1>2, PruneFrame DEF ListingInv
  <2>2. ASSUME prune'[p].pc # "unpin"
        PROVE  UnpinInv'
    BY <1>0, <2>1, <2>2 DEF UnpinInv, Newest
  <2>3. CASE PruneList(p) \/ PruneDone(p) \/ PruneCrash(p)
    <3>1. prune'[p] \in {NoPrune, [NoPrune EXCEPT !.pc = "load", !.todo = Listed]}
      BY <1>0, <2>3 DEF PruneList, PruneDone, PruneCrash
    <3>2. NoPrune.pc = "idle" /\ [NoPrune EXCEPT !.pc = "load", !.todo = Listed].pc = "load"
      BY DEF NoPrune
    <3>3. prune'[p].pc # "unpin"
      BY <3>1, <3>2
    <3>4. QED
      BY <2>2, <3>3
  <2>4. CASE PruneLoad(p)
    BY <1>0, <2>2, <2>4 DEF PruneLoad, PruneState
  <2>5. CASE PruneDecide(p)
    BY <1>0, <2>2, <2>5 DEF PruneDecide, PruneState
  <2>6. CASE RemoveFile(p)
    BY <1>1, <2>6 DEF RemoveFile
  <2>7. CASE RemoveFails(p) \/ UnpinImage(p)
    <3>1. PICK kept \in SUBSET Snap :
            prune' \in {[prune EXCEPT ![p] = [prune[p] EXCEPT !.doomed = kept]],
                        [prune EXCEPT ![p] = [prune[p] EXCEPT !.pc = "remove", !.doomed = kept]]}
      BY <1>0, <2>7 DEF RemoveFails, UnpinImage, PruneState
    <3>2. RemoveFails(p) => prune[p].pc = "remove"
      BY DEF RemoveFails
    <3>3. UnpinImage(p) => prune'[p].pc = "remove"
      BY <1>0 DEF UnpinImage, PruneState
    <3>4. RemoveFails(p) => prune'[p].pc = "remove"
      <4>1. RemoveFails(p) => \E s \in Snap : prune' = [prune EXCEPT ![p] = [prune[p] EXCEPT !.doomed = @ \ {s}]]
        BY <1>0 DEF RemoveFails
      <4>2. QED
        BY <1>0, <3>2, <4>1 DEF PruneState
    <3>5. QED
      BY <2>2, <2>7, <3>3, <3>4
  <2>8. CASE RemoveDir(p)
    <3>1. PICK s \in prune[p].doomed :
            /\ Newest(s, prune[p].doomed)
            /\ dir' = [dir EXCEPT ![s] = "none"]
            /\ prune' = IF manifest[s].pinned
                          THEN [prune EXCEPT ![p] = [prune[p] EXCEPT !.pc = "unpin"]]
                          ELSE [prune EXCEPT ![p] = [prune[p] EXCEPT !.doomed = @ \ {s}]]
      BY <2>8 DEF RemoveDir
    <3>2. prune[p].pc = "remove"
      BY <2>8 DEF RemoveDir
    <3>3. dir'[s] = "none"
      BY <1>0, <3>1 DEF ListingInv, TypeOK
    <3>4. prune'[p].pc = "unpin" => prune'[p].doomed = prune[p].doomed
      BY <1>0, <3>1, <3>2 DEF PruneState
    <3>5. \A t \in prune[p].doomed : Newest(t, prune[p].doomed) => t = s
      BY <1>0, <3>1, BoundAssumption DEF Newest, Snap
    <3>6. QED
      BY <1>0, <2>1, <3>3, <3>4, <3>5 DEF UnpinInv, Newest
  <2>9. QED
    BY <1>2, <2>3, <2>4, <2>5, <2>6, <2>7, <2>8 DEF PruneNext
<1>3. CASE PowerLoss
  BY <1>3 DEF PowerLoss, UnpinInv, NoPrune
<1>4. CASE Tick \/ TakeNext \/ CollectNext \/ UNCHANGED vars
  <2>1. UNCHANGED prune
    BY <1>4 DEF Tick, TakeNext, TakeStart, Begin, WriteSpec, WriteData, Write, PinImage, WriteManifest,
                Commit, Abort, TakeCrash, CollectNext, CollectStart, CollectLoad, ListPins,
                ReleasePin, CollectDone, vars
  <2>2. QED
    BY <1>1, <2>1
<1>5. QED
  BY <1>2, <1>3, <1>4 DEF Next, StoreNext

LEMMA CollectInvStep ==
  ASSUME ListingInv, CollectInv, TypeOK', [Next]_vars, published \subseteq published',
         \A s \in published : manifest'[s] = manifest[s]
  PROVE  CollectInv'
<1> USE DEF diskVars
<1>0. collect \in CollectState /\ Listed \subseteq published
  BY DEF ListingInv, TypeOK
<1>1. CASE UNCHANGED collect
  BY <1>1 DEF CollectInv
<1>2. CASE collect' = NoCollect
  BY <1>2 DEF CollectInv, NoCollect
<1>3. CASE CollectStart
  <2>1. collect'.listed = Listed /\ collect'.todo = Listed /\ collect'.pc = "load"
    BY <1>3 DEF CollectStart, NoCollect
  <2>2. QED
    BY <1>0, <2>1 DEF CollectInv
<1>4. CASE CollectLoad
  <2>1. PICK s \in collect.todo :
          collect' = IF Readable(s)
                       THEN [collect EXCEPT !.todo = @ \ {s},
                               !.referenced = IF manifest[s].pinned THEN @ \cup {s} ELSE @]
                       ELSE NoCollect
    BY <1>4 DEF CollectLoad
  <2>2. CASE Readable(s)
    <3>1. /\ collect'.listed = collect.listed /\ collect'.todo = collect.todo \ {s}
          /\ collect'.pc = collect.pc /\ collect.referenced \subseteq collect'.referenced
          /\ manifest[s].pinned => s \in collect'.referenced
      BY <1>0, <2>1, <2>2 DEF CollectState
    <3>2. collect.pc = "load"
      BY <1>4 DEF CollectLoad
    <3>3. QED
      BY <3>1, <3>2 DEF CollectInv
  <2>3. QED
    BY <1>2, <2>1, <2>2
<1>5. CASE ListPins
  <2>1. /\ collect'.listed = collect.listed /\ collect'.todo = {} /\ collect.todo = {}
        /\ collect'.referenced = collect.referenced
        /\ collect'.orphans = pins \ collect.referenced /\ manifest' = manifest
    BY <1>0, <1>5 DEF ListPins, CollectState
  <2>2. QED
    BY <2>1 DEF CollectInv
<1>6. CASE ReleasePin
  <2>1. /\ collect'.listed = collect.listed /\ collect'.todo = collect.todo
        /\ collect'.referenced = collect.referenced /\ collect.pc = "release"
        /\ collect'.orphans \subseteq collect.orphans /\ manifest' = manifest
    BY <1>0, <1>6 DEF ReleasePin, CollectState
  <2>2. QED
    BY <2>1 DEF CollectInv
<1>7. CASE CollectDone \/ PowerLoss
  BY <1>2, <1>7 DEF CollectDone, PowerLoss
<1>8. CASE Tick \/ TakeNext \/ (\E p \in Pruners : PruneNext(p)) \/ UNCHANGED vars
  <2>1. (\E p \in Pruners : PruneNext(p)) => UNCHANGED collect
    BY PruneFrame DEF ListingInv
  <2>2. Tick \/ TakeNext \/ UNCHANGED vars => UNCHANGED collect
    BY DEF Tick, TakeNext, TakeStart, Begin, WriteSpec, WriteData, Write, PinImage, WriteManifest,
           Commit, Abort, TakeCrash, vars
  <2>3. QED
    BY <1>1, <1>8, <2>1, <2>2
<1>9. QED
  BY <1>3, <1>4, <1>5, <1>6, <1>7, <1>8 DEF Next, StoreNext, CollectNext

\* Who releases a pin, and of what.
LEMMA PinReleased ==
  ASSUME ListingInv, UnpinInv, CollectInv, [Next]_vars, NEW s \in pins \ pins',
         Readable(s), manifest[s].pinned
  PROVE  s \notin collect.listed
<1> USE DEF diskVars
<1>1. CASE ReleasePin
  <2>1. collect.pc = "release" /\ s \in collect.orphans
    BY <1>1 DEF ReleasePin
  <2>2. QED
    BY <2>1 DEF CollectInv
<1>2. CASE \E p \in Pruners : UnpinImage(p)
  <2>1. PICK p \in Pruners : UnpinImage(p)
    BY <1>2
  <2>2. prune[p].pc = "unpin" /\ s \in prune[p].doomed /\ Newest(s, prune[p].doomed)
    BY <2>1 DEF UnpinImage
  <2>3. QED
    BY <2>2 DEF UnpinInv, Readable
<1>3. CASE ~ReleasePin /\ ~(\E p \in Pruners : UnpinImage(p))
  <2>1. pins \subseteq pins'
    BY <1>3
    DEF Next, StoreNext, Tick, TakeNext, TakeStart, Begin, WriteSpec, WriteData, Write, PinImage, WriteManifest,
        Commit, Abort, TakeCrash, PruneNext, PruneList, PruneLoad, PruneDecide, RemoveFile, RemoveDir,
        RemoveFails, PruneDone, PruneCrash, CollectNext, CollectStart, CollectLoad, ListPins,
        CollectDone, PowerLoss, vars
  <2>2. QED
    BY <2>1
<1>4. QED
  BY <1>1, <1>2, <1>3

LateInv == ListingInv /\ UnpinInv /\ CollectInv

LEMMA LateInvInit == Init => LateInv
<1> SUFFICES ASSUME Init
             PROVE  LateInv
  OBVIOUS
<1>1. TypeOK
  BY TypeInit
<1>2. take.pc = "idle" /\ published = {} /\ Listed = {}
  BY DEF Init, NoTake, Listed
<1>3. PruneInv /\ UnpinInv
  BY DEF Init, NoPrune, PruneInv, UnpinInv
<1>4. CollectInv
  BY DEF Init, NoCollect, CollectInv
<1>5. QED
  BY <1>1, <1>2, <1>3, <1>4 DEF LateInv, ListingInv

LEMMA LateInvStep ==
  ASSUME Keep > 0, LateInv, TypeOK', [Next]_vars
  PROVE  LateInv'
<1>1. /\ ListingInv'
      /\ \A s \in published : manifest'[s] = manifest[s] /\ (dir'[s] = "final" => dir[s] = "final")
  BY ListingInvStep DEF LateInv
<1>2. published \subseteq published'
  <2>1. CASE Commit
    BY <2>1 DEF Commit
  <2>2. (\E p \in Pruners : PruneNext(p)) => published' = published
    BY PruneFrame DEF LateInv, ListingInv
  <2>3. CASE ~Commit
    BY <2>2, <2>3
    DEF Next, StoreNext, Tick, TakeNext, TakeStart, Begin, WriteSpec, WriteData, Write, PinImage, WriteManifest,
        Abort, TakeCrash, CollectNext, CollectStart, CollectLoad, ListPins, ReleasePin, CollectDone,
        PowerLoss, vars
  <2>4. QED
    BY <2>1, <2>3
<1>3. UnpinInv'
  BY <1>1, UnpinInvStep DEF LateInv
<1>4. CollectInv'
  BY <1>1, <1>2, CollectInvStep DEF LateInv
<1>5. QED
  BY <1>1, <1>3, <1>4 DEF LateInv

\* The tail of the `prune` command, which takes no lock against a Take
\* (prune.go:205-245), only ever takes the pin of a snapshot that can be read
\* if that was published after the store was listed; pruners never do, crashes
\* and losses of power included.
THEOREM OnlyLatePins ==
  ASSUME Keep > 0
  PROVE  Spec => OnlyLatePinsLost
<1>1. Init => LateInv
  BY LateInvInit
<1>2. LateInv /\ TypeOK' /\ [Next]_vars => LateInv'
  BY LateInvStep
<1>3. LateInv /\ [Next]_vars =>
        [\A s \in pins \ pins' : Readable(s) /\ manifest[s].pinned => s \notin collect.listed]_vars
  BY PinReleased DEF LateInv
<1>4. QED
  BY <1>1, <1>2, <1>3, TypeCorrect, PTL DEF Spec, OnlyLatePinsLost

-----------------------------------------------------------------------------
(* The store implements SnapshotLedger                                       *)

\* An expired snapshot is one the ledger gives up.
LEMMA ExpiredIsGivenUp ==
  ASSUME NEW s \in Expired(published, clock), TypeOK
  PROVE  Ledger!GivenUp(s)
<1>1. Counted(published) = Ledger!Routine
  BY RetentionAssumption DEF Counted, Ledger!Routine
<1>2. s \in Int /\ clock \in Int /\ Days \in Nat
  BY RetentionAssumption, BoundAssumption DEF Valid, Expired, Counted, TypeOK, Snap
<1>3. s \in Counted(published) /\ (Days > 0 => s <= clock - Days)
      /\ Cardinality({t \in Counted(published) : t > s}) >= Keep
  BY DEF Expired
<1>4. Days = 0 \/ s + Days <= clock
  BY <1>2, <1>3
<1> DEFINE A == {t \in Counted(published) : t > s}
           n == Cardinality(A)
<1>5. n \in Nat /\ n >= Keep /\ ExistsBijection(1 .. n, A)
  <2>1. A \in SUBSET Snap
    BY DEF Counted, TypeOK
  <2>2. QED
    BY <1>3, <2>1, SnapFinite, FS_CardinalityType
<1>6. PICK f \in [1 .. n -> A] : \A i, j \in 1 .. n : i # j => f[i] # f[j]
  BY <1>5 DEF ExistsBijection, Bijection, Injection, Surjection, IsInjective
<1> DEFINE g == [i \in 1 .. Keep |-> f[i]]
<1> HIDE DEF n
<1>7. Keep \in Nat /\ 1 .. Keep \subseteq 1 .. n
  BY <1>5, RetentionAssumption DEF Valid
<1>8. g \in [1 .. Keep -> A] /\ \A i, j \in 1 .. Keep : i # j => g[i] # g[j]
  BY <1>6, <1>7
<1>9. QED
  BY <1>1, <1>3, <1>4, <1>8 DEF Ledger!GivenUp

LEMMA LedgerStep ==
  ASSUME "power" \notin Env, StoreInv, StoreInv', [Next]_vars
  PROVE  [Ledger!LedgerNext]_(Ledger!ledgerVars)
<1> DEFINE usable == {s \in Snap : Intact(s)}
           byHand == {s \in published : manifest[s].manual}
<1> USE DEF diskVars
<1>0. TypeOK /\ TypeOK' /\ published \subseteq Snap
  BY DEF StoreInv, TypeOK
<1>1. ASSUME UNCHANGED <<clock, published>>, usable' = usable,
             \A s \in published : manifest'[s] = manifest[s]
      PROVE  [Ledger!LedgerNext]_(Ledger!ledgerVars)
  <2>1. byHand' = byHand
    BY <1>1
  <2>2. QED
    BY <1>1, <2>1 DEF Ledger!ledgerVars
<1>2. CASE Tick
  <2>1. clock' = clock + 1 /\ published' = published /\ byHand' = byHand /\ usable' = usable
    BY <1>2 DEF Tick, Intact
  <2>2. QED
    BY <2>1 DEF Ledger!LedgerNext, Ledger!Passes
<1>3. CASE TakeStart \/ TakeCrash \/ PinImage \/ CollectNext \/ UNCHANGED vars
  <2>1. UNCHANGED <<clock, dir, files, manifest, published>>
    BY <1>3 DEF TakeStart, TakeCrash, PinImage, CollectNext, CollectStart, CollectLoad, ListPins,
                ReleasePin, CollectDone, vars
  <2>2. QED
    BY <1>1, <2>1 DEF Intact
<1>4. CASE PowerLoss
  BY <1>4 DEF PowerLoss
<1>5. CASE Begin \/ WriteSpec \/ WriteData \/ WriteManifest \/ Abort
  <2>1. CASE Begin /\ dir[take.id] = "final"
    BY <1>1, <2>1 DEF Begin, Intact
  <2>2. CASE ~(Begin /\ dir[take.id] = "final")
    <3>1. /\ take.id \in Snap /\ dir[take.id] # "final" /\ dir'[take.id] # "final"
          /\ \A s \in Snap : s # take.id => /\ dir'[s] = dir[s] /\ files'[s] = files[s]
                                           /\ manifest'[s] = manifest[s]
          /\ UNCHANGED <<clock, published>>
      <4>1. CASE Begin
        BY <1>0, <2>2, <4>1 DEF Begin, TypeOK
      <4>2. CASE WriteSpec \/ WriteData \/ WriteManifest \/ Abort
        BY <1>0, <4>2 DEF WriteSpec, WriteData, WriteManifest, Write, Abort, TypeOK, StoreInv, TakeInv
      <4>3. QED
        BY <1>5, <4>1, <4>2
    <3>2. \A s \in Snap : Intact(s)' <=> Intact(s)
      BY <3>1 DEF Intact
    <3>3. \A s \in published : manifest'[s] = manifest[s]
      <4>1. CASE Begin
        BY <4>1, <2>2 DEF Begin
      <4>2. CASE WriteSpec \/ WriteData \/ WriteManifest \/ Abort
        <5>1. take.id \notin published
          BY <4>2 DEF WriteSpec, WriteData, WriteManifest, Write, Abort, StoreInv, TakeInv
        <5>2. QED
          BY <1>0, <3>1, <5>1
      <4>3. QED
        BY <1>5, <4>1, <4>2
    <3>4. QED
      BY <1>1, <3>1, <3>2, <3>3
  <2>3. QED
    BY <2>1, <2>2
<1>6. CASE Commit
  <2>1. /\ take.id \in Snap /\ take.id \notin published /\ \A s \in published : s <= take.id
        /\ files[take.id] = File
    BY <1>0, <1>6 DEF Commit, StoreInv, TakeInv, TypeOK, File
  <2>2. /\ dir'[take.id] = "final" /\ files' = files /\ manifest' = manifest /\ clock' = clock
        /\ published' = published \cup {take.id}
        /\ \A s \in Snap : s # take.id => dir'[s] = dir[s]
    BY <1>0, <1>6, <2>1 DEF Commit, TypeOK
  <2>3. usable' = usable \cup {take.id}
    BY <2>1, <2>2 DEF Intact
  <2>4. byHand' \in {byHand, byHand \cup {take.id}}
    BY <2>1, <2>2
  <2>5. \A t \in published : t < take.id
    BY <1>0, <2>1, BoundAssumption DEF Snap
  <2>6. PICK s \in 1 .. MaxClock : s = take.id
    BY <2>1 DEF Snap
  <2>7. Ledger!Publish(s)
    BY <2>2, <2>3, <2>4, <2>5, <2>6 DEF Ledger!Publish
  <2>8. QED
    BY <2>7 DEF Ledger!LedgerNext
<1>7. ASSUME NEW p \in Pruners, PruneNext(p)
      PROVE  [Ledger!LedgerNext]_(Ledger!ledgerVars)
  <2>1. UNCHANGED <<clock, manifest, published>>
    BY <1>0, <1>7, PruneFrame
  <2>2. CASE RemoveFile(p)
    <3>1. PICK s \in prune[p].doomed :
            \E f \in files[s] : files' = [files EXCEPT ![s] = @ \ {f}]
      BY <2>2 DEF RemoveFile
    <3>2. s \in Expired(published, clock) /\ s \in published
      BY <3>1 DEF StoreInv, PruneInv, Expired, Counted
    <3>3. files'[s] # File /\ \A t \in Snap : t # s => files'[t] = files[t]
      BY <1>0, <3>1, <3>2 DEF TypeOK
    <3>4. dir' = dir
      BY <2>2 DEF RemoveFile
    <3>5. usable' = usable \ {s}
      BY <3>3, <3>4 DEF Intact
    <3>6. Ledger!GivenUp(s)
      BY <1>0, <3>2, ExpiredIsGivenUp
    <3>7. Ledger!Retire(s)
      BY <2>1, <3>5, <3>6 DEF Ledger!Retire
    <3>8. QED
      BY <1>0, <3>2, <3>7 DEF Ledger!LedgerNext, Snap
  <2>3. CASE RemoveDir(p)
    <3>1. PICK s \in prune[p].doomed : files[s] = {} /\ dir' = [dir EXCEPT ![s] = "none"]
      BY <2>3 DEF RemoveDir
    <3>2. files' = files
      BY <2>3 DEF RemoveDir
    <3>3. \A t \in Snap : Intact(t)' <=> Intact(t)
      BY <1>0, <3>1, <3>2 DEF Intact, TypeOK, File
    <3>4. QED
      BY <1>1, <2>1, <3>3
  <2>4. CASE PruneList(p) \/ PruneLoad(p) \/ PruneDecide(p) \/ RemoveFails(p)
             \/ UnpinImage(p) \/ PruneDone(p) \/ PruneCrash(p)
    <3>1. UNCHANGED <<dir, files>>
      BY <2>4 DEF PruneList, PruneLoad, PruneDecide, RemoveFails, UnpinImage, PruneDone, PruneCrash
    <3>2. QED
      BY <1>1, <2>1, <3>1 DEF Intact
  <2>5. QED
    BY <1>7, <2>2, <2>3, <2>4 DEF PruneNext
<1>8. QED
  BY <1>2, <1>3, <1>4, <1>5, <1>6, <1>7 DEF Next, StoreNext, TakeNext

\* Every behaviour of the store is one of the ledger: snapshots appear whole,
\* each newer than all before it, and go only when the policy has given them up
\* (fs.go:178-192, prune.go:84-197).
THEOREM ImplementsLedger ==
  ASSUME Keep > 0, "power" \notin Env
  PROVE  Spec => LedgerSpec
<1>1. Init => Ledger!LedgerInit
  BY DEF Init, Ledger!LedgerInit, Intact
<1>2. Init => StoreInv
  BY StoreInvInit
<1>3. StoreInv /\ TypeOK' /\ [Next]_vars => StoreInv'
  BY StoreInvStep
<1>4. StoreInv /\ StoreInv' /\ [Next]_vars => [Ledger!LedgerNext]_(Ledger!ledgerVars)
  BY LedgerStep
<1>5. QED
  BY <1>1, <1>2, <1>3, <1>4, TypeCorrect, PTL DEF Spec, LedgerSpec, Ledger!LedgerSpec

-----------------------------------------------------------------------------
(* The restore beside the store (RestoreBesidePrune)                         *)

\* Every step of the composition is a step of the store or leaves it alone.
LEMMA StoreStep == [BesideNext]_allVars => [Next]_vars
  BY DEF BesideNext, allVars, RestoreNext, Confirm, PlanRestore, VerifyArchives, StopContainer,
         OpenArchive, CleanVolume, FillVolume, LoadSpec, Recreate, StartContainer, RestoreCrash,
         StoreBeside, CollectBeside, PowerLossBeside, Next, StoreNext

-----------------------------------------------------------------------------
(* Types *)

\* What the steps do to the record of the restore.
PC == {"idle", "plan", "verify", "stop", "open", "clean", "fill", "spec", "create", "start", "done"}

LEMMA MovesOn ==
  ASSUME NEW r \in RestoreState, NEW pc \in PC, NEW q,
         q = [r EXCEPT !.pc = pc]
  PROVE  q \in RestoreState /\ q.pc = pc /\ q.id = r.id /\ q.next = r.next
  BY DEF RestoreState, PC

LEMMA LosesPin ==
  ASSUME NEW r \in RestoreState, NEW u \in BOOLEAN, NEW q,
         q = [r EXCEPT !.unheld = u]
  PROVE  q \in RestoreState /\ q.pc = r.pc /\ q.id = r.id /\ q.next = r.next
  BY DEF RestoreState

LEMMA GoesOnOrEnds ==
  ASSUME restore \in RestoreState, NEW pc \in PC,
         NEW o \in {"ok", "refused", "gone", "nospec", "noimage", "failed"},
         \/ restore' = [restore EXCEPT !.pc = pc]
         \/ restore' = [restore EXCEPT !.pc = "done", !.outcome = o]
  PROVE  /\ restore' \in RestoreState
         /\ restore'.id = restore.id /\ restore'.next = restore.next /\ restore'.pc \in {pc, "done"}
  <1>1. CASE restore' = [restore EXCEPT !.pc = pc]
    BY <1>1, restore \in RestoreState DEF RestoreState, PC
  <1>2. CASE restore' = [restore EXCEPT !.pc = "done", !.outcome = o]
    BY <1>2, restore \in RestoreState DEF RestoreState
  <1>3. QED
    BY <1>1, <1>2

LEMMA RestoreTypeInit == RestoreInit => RestoreTypeOK
  BY TypeInit, MountsAssumption, BoundAssumption
  DEF RestoreInit, RestoreTypeOK, NotAsked, RestoreState, Mount

LEMMA RestoreTypeStep == RestoreTypeOK /\ [BesideNext]_allVars => RestoreTypeOK'
<1> SUFFICES ASSUME RestoreTypeOK, [BesideNext]_allVars
             PROVE  RestoreTypeOK'
  OBVIOUS
<1> USE MountsAssumption DEF RestoreTypeOK, RestoreAt, RestoreGo, RestoreEnds, Locked, Mount
<1>1. TypeOK' /\ torn' \subseteq Snap
  <2>1. TypeOK'
    BY StoreStep, TypeStep
  <2>2. torn' \subseteq torn \cup published
    BY DEF BesideNext, RestoreNext, Confirm, PlanRestore, VerifyArchives, StopContainer, OpenArchive,
           CleanVolume, FillVolume, LoadSpec, Recreate, StartContainer, RestoreCrash,
           StoreBeside, CollectBeside, PowerLossBeside, allVars, restoreVars
  <2>3. QED
    BY <2>1, <2>2 DEF TypeOK
<1>2. CASE Confirm
  <2>1. PICK s \in published, o \in Options :
          restore' = [NotAsked EXCEPT !.pc = "plan", !.id = s, !.verify = o.verify,
                        !.data = o.data, !.recreate = o.recreate, !.image = o.image]
    BY <1>2 DEF Confirm
  <2>2. s \in Snap /\ s \in 0 .. MaxClock /\ o \in Option
    BY OptionsAssumption, BoundAssumption DEF TypeOK, Snap
  <2>3. restore' = [pc |-> "plan", id |-> s, verify |-> o.verify, data |-> o.data,
                    recreate |-> o.recreate, image |-> o.image, next |-> 1, unheld |-> FALSE,
                    outcome |-> "none"]
    BY <2>1 DEF NotAsked
  <2>4. o.verify \in BOOLEAN /\ o.data \in BOOLEAN /\ o.recreate \in BOOLEAN /\ o.image \in BOOLEAN
    BY <2>2 DEF Option
  <2>5. 1 \in 1 .. Mounts + 1
    OBVIOUS
  <2>6. restore' \in RestoreState
    BY <2>2, <2>3, <2>4, <2>5 DEF RestoreState
  <2>7. restore'.id = s /\ restore'.next = 1 /\ volume' = volume
    BY <1>2, <2>3 DEF Confirm
  <2>8. QED
    BY <1>1, <2>2, <2>6, <2>7 DEF Snap
<1>3. ASSUME NEW pc \in PC, NEW o \in {"ok", "refused", "gone", "nospec", "noimage", "failed"},
             restore.pc \in PC \ {"idle"}, volume' = volume,
             \/ restore' = [restore EXCEPT !.pc = pc]
             \/ restore' = [restore EXCEPT !.pc = "done", !.outcome = o],
             restore.next > Mounts => pc \in {"spec", "create", "start", "done"}
      PROVE  RestoreTypeOK'
  <2>1. /\ restore' \in RestoreState
        /\ restore'.id = restore.id /\ restore'.next = restore.next /\ restore'.pc \in {pc, "done"}
    BY <1>3, GoesOnOrEnds, Zenon
  <2>2. QED
    BY <1>1, <1>3, <2>1 DEF Snap
<1>9. CASE VerifyArchives
  BY <1>3, <1>9 DEF VerifyArchives, PC
<1>10. CASE StopContainer
  BY <1>3, <1>10 DEF StopContainer, PC
<1>11. CASE OpenArchive
  BY <1>3, <1>11 DEF OpenArchive, PC
<1>12. CASE LoadSpec
  BY <1>3, <1>12 DEF LoadSpec, PC
<1>13. CASE Recreate
  BY <1>3, <1>13 DEF Recreate, ImageFound, PC
<1>14. CASE StartContainer
  BY <1>3, <1>14 DEF StartContainer, PC
<1>15. CASE RestoreCrash
  BY <1>3, <1>15 DEF RestoreCrash, PC, RestoreState
<1>16. CASE PlanRestore
  <2>1. CASE RestoreEnds("refused")
    BY <1>3, <1>16, <2>1 DEF PlanRestore, PC
  <2>2. CASE ~RestoreEnds("refused")
    <3>1. PICK pc \in {"verify", "stop"} :
            restore' = [restore EXCEPT !.pc = pc,
                                       !.unheld = restore.image /\ restore.id \notin pins]
      BY <1>16, <2>2 DEF PlanRestore, ImageFound
    <3>2. PICK u \in BOOLEAN : restore' = [restore EXCEPT !.pc = pc, !.unheld = u]
      BY <3>1, Zenon
    <3>3. /\ restore' \in RestoreState /\ restore'.id = restore.id
          /\ restore'.next = restore.next /\ restore'.pc = pc
      BY <3>2 DEF RestoreState
    <3>4. volume' = volume /\ restore.pc = "plan"
      BY <1>16 DEF PlanRestore
    <3>5. QED
      BY <1>1, <3>3, <3>4 DEF Snap
  <2>3. QED
    BY <2>1, <2>2
<1>4. CASE CleanVolume
  <2>1. /\ restore' \in RestoreState /\ restore'.id = restore.id
        /\ restore'.next = restore.next /\ restore'.pc = "fill" /\ restore.pc = "clean"
    BY <1>4, MovesOn DEF CleanVolume, PC
  <2>2. volume' \in [Mount -> {"live", "empty", "restored"}]
    BY <1>4 DEF CleanVolume
  <2>3. QED
    BY <1>1, <2>1, <2>2 DEF Snap
<1>5. CASE FillVolume
  <2>1. AfterMount(restore.next) \in {"open", "spec", "start"}
        /\ (AfterMount(restore.next) = "open" => restore.next < Mounts)
    BY DEF AfterMount
  <2>2. restore.next \in Nat /\ restore.next \in 1 .. Mounts
    BY <1>5 DEF FillVolume, RestoreState
  <2>3. CASE RestoreEnds("failed") /\ UNCHANGED volume
    BY <1>3, <1>5, <2>3 DEF FillVolume, PC
  <2>4. CASE /\ volume' = [volume EXCEPT ![restore.next] = "restored"]
             /\ restore' = [restore EXCEPT !.next = @ + 1, !.pc = AfterMount(restore.next)]
    <3>1. restore.next + 1 \in 1 .. Mounts + 1
      BY <2>2
    <3>2. AfterMount(restore.next) \in PC
      BY <2>1 DEF PC
    <3>3. /\ restore' \in RestoreState
          /\ restore'.id = restore.id /\ restore'.next = restore.next + 1
          /\ restore'.pc = AfterMount(restore.next)
      BY <2>4, <3>1, <3>2 DEF RestoreState, PC
    <3>4. restore'.next > Mounts => restore'.pc \in {"spec", "create", "start", "done"}
      BY <2>1, <2>2, <3>3
    <3>5. QED
      BY <1>1, <1>5, <2>4, <3>3, <3>4 DEF FillVolume, Snap
  <2>5. QED
    BY <1>5, <2>3, <2>4 DEF FillVolume
<1>6. CASE StoreBeside
  BY <1>1, <1>6 DEF StoreBeside, restoreVars, Snap
<1>17. CASE CollectBeside
  <2>1. PICK u \in BOOLEAN : restore' = [restore EXCEPT !.unheld = u]
    BY <1>17, Zenon DEF CollectBeside
  <2>2. QED
    BY <1>1, <1>17, <2>1, LosesPin DEF CollectBeside, Snap
<1>18. CASE PowerLossBeside
  <2>1. CASE RestoreAt("idle")
    BY <1>1, <1>18, <2>1 DEF PowerLossBeside, Snap
  <2>2. CASE ~RestoreAt("idle")
    BY <1>3, <1>18, <2>2 DEF PowerLossBeside, PC, RestoreState
  <2>3. QED
    BY <2>1, <2>2
<1>7. CASE UNCHANGED allVars
  BY <1>1, <1>7 DEF allVars, restoreVars, Snap
<1>8. QED
  BY <1>2, <1>4, <1>5, <1>6, <1>7, <1>9, <1>10, <1>11, <1>12, <1>13, <1>14, <1>15, <1>16, <1>17,
     <1>18 DEF BesideNext, RestoreNext

\* The restore and its volumes keep their types, whatever goes on in the store
\* (restore.go:175-240 between two calls).
THEOREM RestoreTypeCorrect == BesideSpec => []RestoreTypeOK
  BY RestoreTypeInit, RestoreTypeStep, PTL DEF BesideSpec

-----------------------------------------------------------------------------
(* What a restore needs is there for as long as the policy keeps it. *)

\* While a restore is going on nothing is published, and the policy only gives
\* up more.
LEMMA RestoreMeanwhile ==
  ASSUME StoreInv, TypeOK', restore.pc \notin {"idle", "done"},
         StoreBeside \/ CollectBeside
  PROVE  published' = published /\ Expired(published, clock) \subseteq Expired(published, clock)'
<1> USE DEF diskVars
<1>1. /\ published' = published /\ manifest' = manifest /\ clock' \in {clock, clock + 1}
      /\ published \in SUBSET Snap /\ clock \in Int
  <2>1. CASE Tick
    BY <2>1, BoundAssumption DEF Tick, StoreInv, TypeOK
  <2>2. CASE \E p \in Pruners : PruneNext(p)
    BY <2>2, PruneFrame, BoundAssumption DEF StoreInv, TypeOK
  <2>3. CASE CollectNext
    <3>1. UNCHANGED <<clock, manifest, published>>
      BY <2>3 DEF CollectNext, CollectStart, CollectLoad, ListPins, ReleasePin, CollectDone
    <3>2. QED
      BY <3>1, BoundAssumption DEF StoreInv, TypeOK
  <2>5. QED
    BY <2>1, <2>2, <2>3 DEF StoreBeside, CollectBeside, Locked
<1>2. Expired(published, clock) \subseteq Expired(published, clock')
  BY <1>1, ExpiredGrows
<1>3. Expired(published, clock)' = Expired(published, clock')
  BY <1>1 DEF Expired, Counted
<1>4. QED
  BY <1>1, <1>2, <1>3

\* A pruner releases the pin of what the policy has given up, and the collector
\* that of a snapshot that is there no more, or else the restore is told.
LEMMA PinPruned ==
  ASSUME StoreInv, NEW s \in pins \ pins', StoreBeside, restore.pc \notin {"idle", "done"}
  PROVE  s \in Expired(published, clock)
<1> USE DEF diskVars
<1>1. CASE \E p \in Pruners : PruneNext(p)
  <2>1. PICK p \in Pruners : UnpinImage(p)
    BY <1>1 DEF PruneNext, PruneList, PruneLoad, PruneDecide, RemoveFile, RemoveDir, RemoveFails,
                PruneDone, PruneCrash
  <2>2. s \in prune[p].doomed
    BY <2>1 DEF UnpinImage
  <2>3. QED
    BY <2>2 DEF StoreInv, PruneInv
<1>2. CASE Tick
  BY <1>2 DEF Tick
<1>3. QED
  BY <1>1, <1>2 DEF StoreBeside, Locked

LEMMA PinCollected ==
  ASSUME StoreInv, NEW s \in published
  PROVE  s \in Expired(published, clock) \/ dir[s] = "final"
  BY DEF StoreInv, NewestSurvive, Intact

LEMMA RestoreInvStep ==
  ASSUME "power" \notin Env, StoreInv, RestoreTypeOK, RestoreTypeOK', RestoreInv,
         [BesideNext]_allVars
  PROVE  RestoreInv'
<1> USE DEF RestoreAt, RestoreGo, RestoreEnds, Locked
<1> DEFINE gone == Expired(published, clock)
<1>0. restore \in RestoreState /\ restore' \in RestoreState /\ TypeOK'
  BY DEF RestoreTypeOK
<1>1. ASSUME UNCHANGED vars
      PROVE  gone' = gone /\ published' = published /\ pins' = pins
  BY <1>1 DEF vars, Expired, Counted, diskVars
<1>2. CASE Confirm
  BY <1>0, <1>1, <1>2 DEF Confirm, RestoreInv, NotAsked
<1>3. CASE PlanRestore
  <2>1. CASE restore' = [restore EXCEPT !.pc = "done", !.outcome = "refused"]
    BY <1>0, <1>1, <1>3, <2>1 DEF PlanRestore, RestoreInv, RestoreState
  <2>2. CASE \E pc \in {"verify", "stop"} :
               restore' = [restore EXCEPT !.pc = pc,
                                          !.unheld = restore.image /\ restore.id \notin pins]
    BY <1>0, <1>1, <1>3, <2>2 DEF PlanRestore, RestoreInv, RestoreState
  <2>3. QED
    BY <1>3, <2>1, <2>2 DEF PlanRestore, ImageFound
\* Between the plan and the end, going on changes nothing the invariant is about.
<1>goes. ASSUME UNCHANGED vars, restore.pc \notin {"idle", "plan", "done"},
                NEW pc \in PC \ {"idle", "plan", "done"}, NEW next,
                restore' = [restore EXCEPT !.pc = pc, !.next = next]
         PROVE  RestoreInv'
  <2>1. /\ restore'.pc = pc /\ restore'.id = restore.id /\ restore'.image = restore.image
        /\ restore'.unheld = restore.unheld /\ restore'.outcome = restore.outcome
    BY <1>0, <1>goes DEF RestoreState
  <2>2. QED
    BY <1>1, <1>goes, <2>1 DEF RestoreInv
<1>ends. ASSUME UNCHANGED vars, restore.pc # "idle", NEW outcome,
                outcome = "noimage" => restore.id \in gone \/ restore.unheld,
                outcome \in {"gone", "nospec"} => restore.id \in gone,
                restore' = [restore EXCEPT !.pc = "done", !.outcome = outcome]
         PROVE  RestoreInv'
  <2>1. /\ restore'.pc = "done" /\ restore'.id = restore.id
        /\ restore'.unheld = restore.unheld /\ restore'.outcome = outcome
    BY <1>0, <1>ends DEF RestoreState
  <2>2. QED
    BY <1>1, <1>ends, <2>1 DEF RestoreInv
<1>next. ASSUME NEW pc, restore' = [restore EXCEPT !.pc = pc]
         PROVE  restore' = [restore EXCEPT !.pc = pc, !.next = restore.next]
  BY <1>0, <1>next DEF RestoreState
<1>4. CASE OpenArchive \/ LoadSpec
  <2>1. /\ UNCHANGED vars /\ restore.pc \in {"open", "spec"}
        /\ {"data", "spec"} \subseteq files[restore.id] \/ restore.id \in gone
    BY <1>4 DEF OpenArchive, LoadSpec, RestoreInv, StoreInv, NewestSurvive, Intact, File
  <2>2. \/ \E pc \in {"clean", "create"} : restore' = [restore EXCEPT !.pc = pc]
        \/ /\ restore.id \in gone
           /\ \E outcome \in {"gone", "nospec"} :
                restore' = [restore EXCEPT !.pc = "done", !.outcome = outcome]
        \/ restore' = [restore EXCEPT !.pc = "done", !.outcome = "failed"]
    BY <1>4, <2>1 DEF OpenArchive, LoadSpec
  <2>3. QED
    BY <1>goes, <1>ends, <1>next, <2>1, <2>2 DEF PC
<1>5. CASE Recreate
  <2>1. UNCHANGED vars /\ restore.pc = "create"
    BY <1>5 DEF Recreate
  <2>2. \/ restore' = [restore EXCEPT !.pc = "start"]
        \/ restore' = [restore EXCEPT !.pc = "done", !.outcome = "failed"]
        \/ /\ restore.image /\ restore.id \notin pins
           /\ restore' = [restore EXCEPT !.pc = "done", !.outcome = "noimage"]
    BY <1>5 DEF Recreate, ImageFound
  <2>3. restore.image /\ restore.id \notin pins => restore.id \in gone \/ restore.unheld
    BY <2>1 DEF RestoreInv
  <2>4. QED
    BY <1>goes, <1>ends, <1>next, <2>1, <2>2, <2>3 DEF PC
<1>6. CASE VerifyArchives \/ StopContainer \/ CleanVolume \/ StartContainer \/ RestoreCrash
  <2>1. UNCHANGED vars /\ restore.pc \notin {"idle", "done"}
    BY <1>6 DEF VerifyArchives, StopContainer, CleanVolume, StartContainer, RestoreCrash
  <2>2. \/ /\ restore.pc # "plan"
           /\ \E pc \in {"stop", "open", "spec", "fill"} : restore' = [restore EXCEPT !.pc = pc]
        \/ \E outcome \in {"refused", "failed", "ok"} :
             restore' = [restore EXCEPT !.pc = "done", !.outcome = outcome]
    BY <1>6 DEF VerifyArchives, StopContainer, CleanVolume, StartContainer, RestoreCrash
  <2>3. QED
    BY <1>goes, <1>ends, <1>next, <2>1, <2>2 DEF PC
<1>7. CASE FillVolume
  <2>1. UNCHANGED vars /\ restore.pc = "fill" /\ AfterMount(restore.next) \in {"open", "spec", "start"}
    BY <1>7 DEF FillVolume, AfterMount
  <2>2. \/ restore' = [restore EXCEPT !.pc = AfterMount(restore.next), !.next = restore.next + 1]
        \/ restore' = [restore EXCEPT !.pc = "done", !.outcome = "failed"]
    BY <1>0, <1>7 DEF FillVolume, RestoreState
  <2>3. QED
    BY <1>goes, <1>ends, <2>1, <2>2 DEF PC
<1>8. CASE StoreBeside
  <2>1. restore' = restore /\ restore.pc # "done"
    BY <1>8 DEF StoreBeside, restoreVars, Ended
  <2>2. CASE restore.pc = "idle"
    BY <2>1, <2>2 DEF RestoreInv
  <2>3. CASE restore.pc # "idle"
    <3>1. published' = published /\ gone \subseteq gone'
      BY <1>0, <1>8, <2>1, <2>3, RestoreMeanwhile
    <3>2. restore.id \in pins \ pins' => restore.id \in gone
      BY <1>8, <2>1, <2>3, PinPruned
    <3>3. QED
      BY <2>1, <2>3, <3>1, <3>2 DEF RestoreInv
  <2>4. QED
    BY <2>2, <2>3
<1>9. CASE CollectBeside
  <2>1. /\ restore.pc # "done"
        /\ restore' = [restore EXCEPT !.unheld = @ \/ (Locked /\ restore.image
                     /\ restore.id \in pins \ pins' /\ dir[restore.id] = "final")]
    BY <1>9 DEF CollectBeside, Ended
  <2>2. CASE restore.pc = "idle"
    BY <1>0, <2>1, <2>2 DEF RestoreInv, RestoreState
  <2>3. CASE restore.pc # "idle"
    <3>1. published' = published /\ gone \subseteq gone'
      BY <1>0, <1>9, <2>1, <2>3, RestoreMeanwhile
    <3>2. restore.id \in gone \/ dir[restore.id] = "final"
      BY <2>3, PinCollected DEF RestoreInv
    <3>3. /\ restore'.pc = restore.pc /\ restore'.id = restore.id /\ restore'.image = restore.image
          /\ restore'.outcome = restore.outcome
          /\ restore.unheld => restore'.unheld
          /\ restore.image /\ restore.id \in pins \ pins' /\ dir[restore.id] = "final" =>
               restore'.unheld
      BY <1>0, <2>1, <2>3 DEF RestoreState
    <3>4. QED
      BY <2>1, <2>3, <3>1, <3>2, <3>3 DEF RestoreInv
  <2>4. QED
    BY <2>2, <2>3
<1>10. ~PowerLossBeside
  BY DEF PowerLossBeside, PowerLoss
<1>11. CASE UNCHANGED allVars
  BY <1>1, <1>11 DEF allVars, restoreVars, RestoreInv
<1>12. QED
  BY <1>2, <1>3, <1>4, <1>5, <1>6, <1>7, <1>8, <1>9, <1>10, <1>11 DEF BesideNext, RestoreNext

\* A restore that has the container down and then misses an archive, the spec or
\* the image is of a snapshot that retention had given up, or that had no pin
\* (restore.go:183-205, prune.go:84-173): whatever else pruners, the collector,
\* failures and crashes do beside it.  Without losses of power that goes for the
\* spec too, which nobody verifies, and for a restore that verifies nothing.
THEOREM RestoreFindsWhatIsKept ==
  ASSUME Keep > 0, "power" \notin Env
  PROVE  BesideSpec =>
           /\ []LostOnlyIfGivenUp
           /\ [](restore.outcome \in {"gone", "nospec"} => restore.id \in Expired(published, clock))
<1> DEFINE Inv == StoreInv /\ RestoreTypeOK /\ RestoreInv
           Missed == restore.outcome \in {"gone", "nospec"} => restore.id \in Expired(published, clock)
<1>1. RestoreInit => Inv
  BY StoreInvInit, RestoreTypeInit DEF RestoreInit, RestoreInv, NotAsked
<1>2. Inv /\ [BesideNext]_allVars => Inv'
  BY StoreStep, StoreInvStep, RestoreTypeStep, RestoreInvStep DEF RestoreTypeOK
<1>3. Inv => LostOnlyIfGivenUp /\ Missed
  BY DEF RestoreInv, LostOnlyIfGivenUp
<1>4. QED
  BY <1>1, <1>2, <1>3, PTL DEF BesideSpec

-----------------------------------------------------------------------------
(* The volumes *)

LEMMA VolumeInvStep ==
  ASSUME RestoreTypeOK, RestoreTypeOK', VolumeInv, [BesideNext]_allVars
  PROVE  VolumeInv'
<1> USE MountsAssumption DEF RestoreAt, RestoreGo, RestoreEnds, Locked, Mount
<1>0. /\ restore \in RestoreState /\ restore' \in RestoreState
      /\ volume \in [Mount -> {"live", "empty", "restored"}] /\ restore.next \in Nat
      /\ restore.next > Mounts => restore.pc \in {"spec", "create", "start", "done"}
  BY DEF RestoreTypeOK, RestoreState
\* Once the plan is made, a step other than Fill and Clean ends the restore or
\* goes on to one that expects the volumes as they are.
<1>1. ASSUME NEW pc \in PC, restore' = [restore EXCEPT !.pc = pc], volume' = volume,
             restore.pc \notin {"fill", "done"}, pc \notin {"fill", "done"},
             pc \in {"idle", "plan", "verify", "stop"} => restore.next = 1,
             pc \in {"open", "clean"} => restore.data,
             pc \in {"spec", "create", "start"} /\ restore.data => restore.next > Mounts
      PROVE  VolumeInv'
  BY <1>0, <1>1 DEF VolumeInv, VolumesWhole, RestoreState, PC
<1>2. ASSUME NEW o \in {"refused", "gone", "nospec", "noimage", "failed", "ok"}, volume' = volume,
             restore' = [restore EXCEPT !.pc = "done", !.outcome = o],
             restore.pc # "done",
             o = "refused" => restore.pc \in {"plan", "verify", "stop"},
             o \in {"gone", "nospec", "noimage"} => restore.pc # "fill",
             o = "ok" => restore.pc = "start"
      PROVE  VolumeInv'
  <2>1. /\ restore'.pc = "done" /\ restore'.outcome = o /\ restore'.data = restore.data
    BY <1>0, <1>2 DEF RestoreState
  <2>2. QED
    BY <1>0, <1>2, <2>1 DEF VolumeInv, VolumesWhole
<1>3. CASE Confirm
  <2>1. /\ restore.pc = "idle" /\ restore'.pc = "plan" /\ restore'.next = 1
        /\ restore'.outcome = "none" /\ volume' = volume
    BY <1>0, <1>3 DEF Confirm, NotAsked
  <2>2. QED
    BY <1>0, <2>1 DEF VolumeInv, VolumesWhole
<1>4. CASE PlanRestore
  <2>1. CASE restore' = [restore EXCEPT !.pc = "done", !.outcome = "refused"]
    BY <1>2, <1>4, <2>1 DEF PlanRestore
  <2>2. CASE \E pc \in {"verify", "stop"} :
               restore' = [restore EXCEPT !.pc = pc,
                                          !.unheld = restore.image /\ restore.id \notin pins]
    BY <1>0, <1>4, <2>2 DEF PlanRestore, VolumeInv, VolumesWhole, RestoreState
  <2>3. QED
    BY <1>4, <2>1, <2>2 DEF PlanRestore, ImageFound
<1>5. CASE VerifyArchives
  BY <1>1, <1>2, <1>5 DEF VerifyArchives, VolumeInv, PC
<1>6. CASE StopContainer
  BY <1>1, <1>2, <1>6 DEF StopContainer, VolumeInv, PC
<1>7. CASE OpenArchive
  BY <1>1, <1>2, <1>7 DEF OpenArchive, VolumeInv, PC
<1>8. CASE CleanVolume
  <2>1. /\ restore.pc = "clean" /\ restore'.pc = "fill" /\ restore'.next = restore.next
        /\ restore'.data = restore.data /\ restore'.outcome = restore.outcome
        /\ volume' = [volume EXCEPT ![restore.next] = "empty"]
    BY <1>0, <1>8 DEF CleanVolume, RestoreState
  <2>2. QED
    BY <1>0, <2>1 DEF VolumeInv, VolumesWhole
<1>9. CASE FillVolume
  <2>1. CASE restore' = [restore EXCEPT !.pc = "done", !.outcome = "failed"] /\ volume' = volume
    BY <1>2, <1>9, <2>1 DEF FillVolume
  <2>2. CASE /\ volume' = [volume EXCEPT ![restore.next] = "restored"]
             /\ restore' = [restore EXCEPT !.next = @ + 1, !.pc = AfterMount(restore.next)]
    <3>1. /\ restore.pc = "fill" /\ restore'.pc = AfterMount(restore.next)
          /\ restore'.next = restore.next + 1 /\ restore'.data = restore.data
          /\ restore'.outcome = restore.outcome
      BY <1>0, <1>9, <2>2 DEF FillVolume, RestoreState
    <3>2. /\ AfterMount(restore.next) \in {"open", "spec", "start"}
          /\ AfterMount(restore.next) # "open" => restore.next >= Mounts
      BY <1>0 DEF AfterMount
    <3>3. QED
      BY <1>0, <2>2, <3>1, <3>2 DEF VolumeInv, VolumesWhole
  <2>3. QED
    BY <1>9, <2>1, <2>2 DEF FillVolume
<1>10. CASE LoadSpec
  BY <1>1, <1>2, <1>10 DEF LoadSpec, VolumeInv, PC
<1>11. CASE Recreate
  BY <1>1, <1>2, <1>11 DEF Recreate, ImageFound, VolumeInv, PC
<1>12. CASE StartContainer
  BY <1>2, <1>12 DEF StartContainer
<1>13. CASE RestoreCrash
  BY <1>2, <1>13 DEF RestoreCrash
<1>14. CASE StoreBeside \/ UNCHANGED allVars
  BY <1>14 DEF StoreBeside, allVars, restoreVars, VolumeInv, VolumesWhole
<1>15. CASE CollectBeside
  <2>1. /\ restore'.pc = restore.pc /\ restore'.next = restore.next
        /\ restore'.data = restore.data /\ restore'.outcome = restore.outcome /\ volume' = volume
    BY <1>0, <1>15 DEF CollectBeside, RestoreState
  <2>2. QED
    BY <2>1 DEF VolumeInv, VolumesWhole
<1>16. CASE PowerLossBeside
  <2>1. CASE restore' = restore
    BY <1>16, <2>1 DEF PowerLossBeside, VolumeInv, VolumesWhole
  <2>2. CASE restore' # restore
    BY <1>2, <1>16, <2>2 DEF PowerLossBeside, Ended
  <2>3. QED
    BY <2>1, <2>2
<1>17. QED
  BY <1>3, <1>4, <1>5, <1>6, <1>7, <1>8, <1>9, <1>10, <1>11, <1>12, <1>13, <1>14, <1>15, <1>16
  DEF BesideNext, RestoreNext

\* Whatever happens in the store meanwhile, a power loss included, no volume is
\* emptied that is not about to be filled from an open archive, and a restore
\* that reports success has restored them all (restore.go:205-213, 265-283).
THEOREM VolumesStayWhole == BesideSpec => []VolumesWhole
<1> DEFINE Inv == RestoreTypeOK /\ VolumeInv
<1>1. RestoreInit => Inv
  BY RestoreTypeInit, MountsAssumption
  DEF RestoreInit, VolumeInv, VolumesWhole, NotAsked, Mount
<1>2. Inv /\ [BesideNext]_allVars => Inv'
  BY RestoreTypeStep, VolumeInvStep
<1>3. Inv => VolumesWhole
  BY DEF VolumeInv
<1>4. QED
  BY <1>1, <1>2, <1>3, PTL DEF BesideSpec

-----------------------------------------------------------------------------
(* The store goes on as it would without a restore. *)

\* Beside a restore too, the collector takes only pins of snapshots published
\* after it has listed the store (prune.go:205-245).
THEOREM OnlyLatePinsBeside ==
  ASSUME Keep > 0
  PROVE  BesideSpec => OnlyLatePinsLost
<1>1. RestoreInit => Init
  BY DEF RestoreInit
<1>2. [BesideNext]_allVars => [Next]_vars
  BY StoreStep
<1>3. Spec => OnlyLatePinsLost
  BY OnlyLatePins
<1>4. QED
  BY <1>1, <1>2, <1>3, PTL DEF BesideSpec, Spec
=============================================================================
