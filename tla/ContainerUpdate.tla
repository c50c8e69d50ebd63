-------------------------- MODULE ContainerUpdate --------------------------
(***************************************************************************)
(* What Update, a scheduled backup and `rollback` do to one container and  *)
(* to the data in its volume, one call to the engine at a time             *)
(* (update/update.go, update/strategy.go, runtime/replace.go,              *)
(* snapshot/restore.go and the stopping and starting in                    *)
(* snapshot/snapshot.go).  The container's lock is held throughout, so one *)
(* run is in progress at a time; a run may be cancelled or killed.         *)
(*                                                                         *)
(* Images are versions: the container starts out on version 0, and the     *)
(* n-th update finds version n.  A started container brings the volume up  *)
(* to its own version.  Every call may fail; Trouble bounds how often.  A   *)
(* call that fails, a cancellation or a bad release counts for one, what    *)
(* the code has no answer to, GoesVeryWrong, for two.                       *)
(***************************************************************************)
EXTENDS Naturals, FiniteSets

CONSTANTS
  MaxRuns,   \* bound on the updates and backups tried
  MaxBoxes,  \* bound on the containers ever created
  Trouble,   \* bound on what goes wrong
  Policies,  \* the policies in force, a subset of Policy
  Env        \* kinds of trouble beyond failing calls, a subset of EnvKinds

Policy == [snapshot : BOOLEAN, rollback : BOOLEAN, hot : BOOLEAN, compose : BOOLEAN]

EnvKinds == { "cancel",    \* the run's context is cancelled
              "halfstop",  \* a Stop reports an error and takes effect all the same
              "nostart",   \* the last resort, starting a container again, fails
              "crash",     \* the process is killed
              "release" }  \* a new version does not start, or starts and is sick

ASSUME BoundsAssumption == MaxRuns \in Nat /\ MaxBoxes \in Nat \ {0} /\ Trouble \in Nat
ASSUME PolicyAssumption == Policies \subseteq Policy
ASSUME EnvAssumption == Env \subseteq EnvKinds

VARIABLES
  box,       \* box[b]: the engine's containers
  stopping,  \* those the engine goes on stopping though nobody waits for it
  volume,    \* the version whose data is in the volume
  quality,   \* quality[v]: how version v behaves
  snaps,     \* snaps[n]: what the snapshot of the n-th run recorded
  run,       \* the run in progress, or the last one
  trouble    \* how much has gone wrong so far

vars == <<box, stopping, volume, quality, snaps, run, trouble>>

Box == 1 .. MaxBoxes
Version == 0 .. MaxRuns

\* "aside" with tag n is the name <container>-backup-tower-<suffix>, n being
\* the run whose snapshot gives the suffix and 0 the constant "update";
\* "other" is a name compose uses while it works.
Gone == [name |-> "none", tag |-> 0, image |-> 0, up |-> FALSE]
App(v, up) == [name |-> "app", tag |-> 0, image |-> v, up |-> up]
BoxState == [name : {"none", "app", "aside", "other"}, tag : Version,
             image : Version, up : BOOLEAN]

NoSnap == [taken |-> FALSE, image |-> 0, volume |-> 0, ran |-> FALSE]
Snap == [taken : BOOLEAN, image : Version, volume : Version, ran : BOOLEAN]

RunState ==
  [pc : {"idle", "pull", "hook", "stop", "save", "restart", "compose", "park", "create",
         "unpark", "remove", "start", "health", "undo", "leave", "plan", "halt", "data"},
   kind : {"update", "backup", "rollback"},
   n : Version,                    \* the number of this run
   policy : Policy,
   old : 0 .. MaxBoxes,            \* the container to be replaced, 0 when there is none
   new : 0 .. MaxBoxes,            \* its replacement, 0 while there is none
   ran : BOOLEAN,                  \* it was running when it was selected
   halted : BOOLEAN,               \* Take has stopped it
   snap : Version,                 \* the snapshot to go back to, 0 when there is none
   restoring : BOOLEAN,            \* inside Restore
   cancelled : BOOLEAN,            \* the caller's context is
   outcome : {"none", "failed", "updated", "nochange", "rolledback"},
   rollbackErr : BOOLEAN,
   orderly : BOOLEAN]              \* history: every run so far was to stop it for a snapshot,
                                   \* and no rollback by hand was broken off

Idle == [pc |-> "idle", kind |-> "update", n |-> 0,
         policy |-> [snapshot |-> TRUE, rollback |-> TRUE, hot |-> FALSE, compose |-> FALSE],
         old |-> 0, new |-> 0, ran |-> FALSE, halted |-> FALSE, snap |-> 0, restoring |-> FALSE,
         cancelled |-> FALSE, outcome |-> "none", rollbackErr |-> FALSE, orderly |-> TRUE]

TypeOK ==
  /\ box \in [Box -> BoxState]
  /\ stopping \subseteq Box
  /\ volume \in Version
  /\ quality \in [Version -> {"good", "sick", "dead"}]
  /\ snaps \in [Version -> Snap]
  /\ run \in RunState
  /\ trouble \in 0 .. Trouble

Init ==
  /\ \E up \in BOOLEAN : box = [b \in Box |-> IF b = 1 THEN App(0, up) ELSE Gone]
  /\ stopping = {}
  /\ volume = 0
  /\ quality = [v \in Version |-> "good"]
  /\ snaps = [n \in Version |-> NoSnap]
  /\ run = Idle
  /\ trouble = 0

Named == {b \in Box : box[b].name = "app"}
Aside(n) == {b \in Box : box[b].name = "aside" /\ box[b].tag = n}

-----------------------------------------------------------------------------
(* Calls *)

GoesWrong == trouble < Trouble /\ trouble' = trouble + 1
GoesVeryWrong == trouble + 1 < Trouble /\ trouble' = trouble + 2
GoesWell == UNCHANGED trouble

\* The automatic rollback and everything that undoes a step use a context
\* detached from the caller's.
Detached == run.restoring /\ run.kind = "update"
Live == Detached \/ ~run.cancelled

\* A call made with the run's context fails if that is cancelled, or by itself.
CallFails == (~Live /\ GoesWell) \/ GoesWrong
CallWorks == Live /\ GoesWell

At(pc) == run.pc = pc
Go(pc) == run' = [run EXCEPT !.pc = pc]
Finish(outcome) == run' = [run EXCEPT !.pc = "idle", !.outcome = outcome]

\* A rollback by hand that ends early can leave data in the volume that is newer
\* than the container, which was rolled back before.
BrokenOff == run.kind = "rollback" /\ run.pc \notin {"plan", "halt"}

\* A Restore that fails makes a rollback that failed; an update that fails is
\* rolled back if possible.
Failed ==
  run' = IF run.restoring
           THEN [run EXCEPT !.pc = "idle", !.outcome = "failed", !.rollbackErr = TRUE,
                            !.orderly = @ /\ ~BrokenOff]
           ELSE [run EXCEPT !.pc = "undo"]

\* The data of a version once version v has run on it.
Migrated(data, v) == IF v > data THEN v ELSE data

\* What starting b comes to.  One that is up, even one about to go down, is
\* left alone; a dead version never starts.
Starts(b) ==
  \/ box[b].up /\ UNCHANGED <<box, volume>>
  \/ /\ ~box[b].up
     /\ quality[box[b].image] # "dead"
     /\ box' = [box EXCEPT ![b].up = TRUE]
     /\ volume' = Migrated(volume, box[b].image)
StartRefused(b) ==
  ~box[b].up /\ quality[box[b].image] = "dead" /\ GoesWell /\ UNCHANGED <<box, volume>>

\* Starting a container again, with a context of its own.
StartAgain(b) ==
  \/ Starts(b) /\ GoesWell
  \/ StartRefused(b)
  \/ "nostart" \in Env /\ GoesVeryWrong /\ UNCHANGED <<box, volume>>

\* A container that does not exist yet.
Fresh(b) == box[b] = Gone /\ \A c \in Box : c < b => box[c] # Gone

-----------------------------------------------------------------------------
(* The beginning of a run: Select, Update down to the snapshot *)

\* A stopped container is a candidate too with --include-stopped.
Select ==
  /\ At("idle")
  /\ run.n < MaxRuns
  /\ \E b \in Named, p \in Policies, kind \in {"update", "backup"} :
       run' = [Idle EXCEPT !.kind = kind, !.n = run.n + 1, !.policy = p, !.old = b,
                           !.ran = box[b].up, !.orderly = run.orderly /\ p.snapshot /\ ~p.hot,
                           !.pc = IF kind = "update" THEN "pull" ELSE "stop"]
  /\ UNCHANGED <<box, stopping, volume, quality, snaps, trouble>>

Pull ==
  /\ At("pull")
  /\ \/ CallWorks /\ Go("hook") /\ UNCHANGED quality
     \/ /\ "release" \in Env /\ Live /\ GoesWrong /\ Go("hook")
        /\ \E q \in {"sick", "dead"} : quality' = [quality EXCEPT ![run.n] = q]
     \/ CallFails /\ Finish("failed") /\ UNCHANGED quality
  /\ UNCHANGED <<box, stopping, volume, snaps>>

Apply == IF run.policy.compose THEN "compose" ELSE "park"

\* pre-update and pre-snapshot, where they are set and the container is
\* running; either may veto, before anything is touched.
PreHooks ==
  /\ At("hook")
  /\ \/ /\ GoesWell
        /\ Go(IF run.policy.snapshot THEN "stop" ELSE Apply)
     \/ run.ran /\ CallFails /\ Finish("failed")
  /\ UNCHANGED <<box, stopping, volume, quality, snaps>>

-----------------------------------------------------------------------------
(* Take *)

StopFirst == box[run.old].up /\ ~run.policy.hot

\* Stop: it works, it does not, or it reports an error and still happens.
StopWorks(pc) ==
  /\ CallWorks
  /\ box' = [box EXCEPT ![run.old].up = FALSE]
  /\ run' = [run EXCEPT !.pc = pc, !.halted = TRUE]
  /\ UNCHANGED stopping
StopFails == CallFails /\ UNCHANGED <<box, stopping>>
StopHalfFails ==
  /\ "halfstop" \in Env /\ Live /\ GoesVeryWrong
  /\ stopping' = stopping \cup {run.old}
  /\ UNCHANGED box

\* Update starts the outgoing container again after any Take that failed; a
\* backup only if its own Stop had worked.
\* Mutant: whatever fails in a Take, the container is started afterwards.
TakeFailsAlike == Go("restart")

TakeFails == IF run.kind = "update" \/ run.halted THEN Go("restart") ELSE Finish("failed")

TakeStop ==
  /\ At("stop")
  /\ \/ StopFirst /\ StopWorks("save")
     \/ StopFirst /\ StopHalfFails /\ TakeFails
     \/ StopFails /\ TakeFails
     \/ ~StopFirst /\ CallWorks /\ Go("save") /\ UNCHANGED <<box, stopping>>
  /\ UNCHANGED <<volume, quality, snaps>>

\* The archives, the manifest and Commit.
TakeSave ==
  /\ At("save")
  /\ \/ /\ CallWorks
        /\ snaps' = [snaps EXCEPT ![run.n] =
             [taken |-> TRUE, image |-> box[run.old].image, volume |-> volume,
              ran |-> run.halted \/ box[run.old].up]]
        /\ run' = [run EXCEPT !.snap = run.n,
                     !.pc = CASE run.kind = "update" -> Apply
                              [] run.kind = "backup" /\ run.halted -> "restart"
                              [] OTHER -> "idle"]
     \/ CallFails /\ TakeFails /\ UNCHANGED snaps
  /\ UNCHANGED <<box, stopping, volume, quality>>

\* The end of a backup, or of an update that could not take its snapshot.
Restart ==
  /\ At("restart")
  /\ StartAgain(run.old)
  /\ Finish(IF run.kind = "update" THEN "failed" ELSE "none")
  /\ UNCHANGED <<stopping, quality, snaps>>

\* The engine gets to the end of a Stop nobody waits for.
EngineStops ==
  /\ \E b \in stopping : /\ stopping' = stopping \ {b}
                         /\ box' = [box EXCEPT ![b].up = FALSE]
  /\ UNCHANGED <<volume, quality, snaps, run, trouble>>

-----------------------------------------------------------------------------
(* Replace: shared by the recreate strategy and by Restore *)

\* Mutant: the suffix is taken from the container, not from the snapshot.
ParkByContainer ==
  /\ At("park") /\ run.old # 0 /\ CallWorks
  /\ box' = [box EXCEPT ![run.old].name = "aside", ![run.old].tag = run.old]
  /\ Go("create")
  /\ UNCHANGED <<stopping, volume, quality, snaps>>

\* Mutant: the outgoing container makes way before its replacement exists.
ParkByRemoving ==
  /\ At("park") /\ run.old # 0 /\ CallWorks
  /\ box' = [box EXCEPT ![run.old] = Gone]
  /\ Go("create")
  /\ UNCHANGED <<stopping, volume, quality, snaps>>

\* Move the current container aside, if there is one.  The name is taken when
\* a replaced container with the same suffix is still present.
Park ==
  /\ At("park")
  /\ IF run.old = 0
       THEN Go("create") /\ GoesWell /\ UNCHANGED box
       ELSE \/ /\ CallWorks /\ Aside(run.snap) = {}
               /\ box' = [box EXCEPT ![run.old].name = "aside", ![run.old].tag = run.snap]
               /\ Go("create")
            \/ /\ CallFails \/ (Live /\ Aside(run.snap) # {} /\ GoesWell)
               /\ Failed /\ UNCHANGED box
  /\ UNCHANGED <<stopping, volume, quality, snaps>>

\* Mutant: a rollback resolves the tag, which means the new release by now.
NewImageByTag == run.n

NewImage == IF run.restoring THEN snaps[run.snap].image ELSE run.n

\* Mutant: a Create that fails leaves the old container under its parked name.
CreateWithoutUnpark ==
  /\ At("create")
  /\ \/ /\ CallWorks /\ Named = {}
        /\ \E b \in Box :
             /\ Fresh(b)
             /\ box' = [box EXCEPT ![b] = App(NewImage, FALSE)]
             /\ run' = [run EXCEPT !.new = b,
                                   !.pc = IF run.old = 0 THEN "start" ELSE "remove"]
     \/ (CallFails \/ (Live /\ Named # {} /\ GoesWell)) /\ Failed /\ UNCHANGED box
  /\ UNCHANGED <<stopping, volume, quality, snaps>>

Create ==
  /\ At("create")
  /\ \/ /\ CallWorks /\ Named = {}
        /\ \E b \in Box :
             /\ Fresh(b)
             /\ box' = [box EXCEPT ![b] = App(NewImage, FALSE)]
             /\ run' = [run EXCEPT !.new = b,
                                   !.pc = IF run.old = 0 THEN "start" ELSE "remove"]
     \/ /\ CallFails \/ (Live /\ Named # {} /\ GoesWell)
        /\ IF run.old = 0 THEN Failed ELSE Go("unpark")
        /\ UNCHANGED box
  /\ UNCHANGED <<stopping, volume, quality, snaps>>

Unpark ==
  /\ At("unpark")
  /\ \/ GoesWell /\ box' = [box EXCEPT ![run.old].name = "app", ![run.old].tag = 0]
     \/ GoesWrong /\ UNCHANGED box
  /\ Failed
  /\ UNCHANGED <<stopping, volume, quality, snaps>>

\* A container that cannot be removed is a warning.
Remove ==
  /\ At("remove")
  /\ \/ GoesWell /\ box' = [box EXCEPT ![run.old] = Gone] /\ stopping' = stopping \ {run.old}
     \/ GoesWrong /\ UNCHANGED <<box, stopping>>
  /\ Go("start")
  /\ UNCHANGED <<volume, quality, snaps>>

\* Restore finds the container to start by its name, and starts it only if the
\* plan says so; a started restore is a finished one.
WillStart == run.restoring /\ run.kind = "rollback" => snaps[run.snap].ran

\* Mutant: a Restore that cannot start the container only warns about it.
StartUnchecked ==
  /\ At("start")
  /\ LET started == IF run.restoring THEN Finish("rolledback") ELSE Go("health") IN
       \/ CallWorks /\ Starts(run.new) /\ started
       \/ Live /\ StartRefused(run.new) /\ started
       \/ CallFails /\ started /\ UNCHANGED <<box, volume>>
  /\ UNCHANGED <<stopping, quality, snaps>>

Start ==
  /\ At("start")
  /\ LET started == IF run.restoring THEN Finish("rolledback") ELSE Go("health") IN
       IF WillStart
         THEN \/ CallWorks /\ Starts(run.new) /\ started
              \/ Live /\ StartRefused(run.new) /\ Failed
              \/ CallFails /\ Failed /\ UNCHANGED <<box, volume>>
         ELSE GoesWell /\ started /\ UNCHANGED <<box, volume>>
  /\ UNCHANGED <<stopping, quality, snaps>>

-----------------------------------------------------------------------------
(* The rest of Update *)

\* `docker compose up -d` from outside: it replaces the container or decides
\* there is nothing to do; when it fails it may have got anywhere.
Compose ==
  /\ At("compose")
  /\ \E b \in Box :
       /\ Fresh(b)
       /\ LET replaced(name, up) ==
                [box EXCEPT ![run.old] = Gone,
                            ![b] = [name |-> name, tag |-> 0, image |-> run.n, up |-> up]] IN
          \/ /\ CallWorks /\ quality[run.n] # "dead"
             /\ box' = replaced("app", TRUE)
             /\ volume' = Migrated(volume, run.n)
             /\ run' = [run EXCEPT !.new = b, !.pc = "health"]
          \/ /\ CallWorks /\ Starts(run.old)
             /\ run' = [run EXCEPT !.new = run.old, !.pc = "health"]
          \/ /\ CallWorks /\ quality[run.n] = "dead" /\ Failed
             /\ box' = replaced("app", FALSE) /\ UNCHANGED volume
          \/ /\ CallFails /\ Failed /\ UNCHANGED volume
             /\ box' \in {box} \cup (IF run.cancelled THEN {}
                                     ELSE {replaced("app", FALSE), replaced("other", FALSE)})
  /\ stopping' = stopping \cap {b \in Box : box'[b] # Gone}
  /\ UNCHANGED <<quality, snaps>>

\* The health gate, then the post-update hook, which decides nothing.
Health ==
  /\ At("health")
  /\ LET sound == box[run.new].up /\ quality[box[run.new].image] = "good" IN
       \/ /\ sound /\ CallWorks
          /\ Finish(IF run.new = run.old THEN "nochange" ELSE "updated")
       \/ ~sound /\ GoesWell /\ Failed
       \/ sound /\ CallFails /\ Failed
  /\ UNCHANGED <<box, stopping, volume, quality, snaps>>

\* rollbackIfPossible
Undo ==
  /\ At("undo")
  /\ GoesWell
  /\ IF run.snap = 0 \/ ~run.policy.rollback
       THEN Go("leave")
       ELSE run' = [run EXCEPT !.pc = "plan", !.restoring = TRUE]
  /\ UNCHANGED <<box, stopping, volume, quality, snaps>>

\* Mutant: a failed update that is not rolled back starts nothing.
LeaveAsItIs ==
  /\ At("leave") /\ GoesWell /\ Finish("failed")
  /\ UNCHANGED <<box, stopping, volume, quality, snaps>>

\* leaveRunning: whatever carries the name now is started if it is down.
LeaveRunning ==
  /\ At("leave")
  /\ IF run.ran /\ Named # {}
       THEN \E b \in Named : StartAgain(b)
       ELSE GoesWell /\ UNCHANGED <<box, volume>>
  /\ Finish("failed")
  /\ UNCHANGED <<stopping, quality, snaps>>

-----------------------------------------------------------------------------
(* Restore *)

\* `rollback <container> <snapshot>`, typed once nothing else is running.
RollbackByHand ==
  /\ At("idle")
  /\ \E n \in {m \in Version : snaps[m].taken} :
       run' = [Idle EXCEPT !.kind = "rollback", !.n = run.n, !.snap = n, !.orderly = run.orderly,
                           !.restoring = TRUE, !.pc = "plan"]
  /\ UNCHANGED <<box, stopping, volume, quality, snaps, trouble>>

\* The container by its name, the image, and the checksums of the archives.
Plan ==
  /\ At("plan")
  /\ \/ /\ CallWorks
        /\ \/ \E b \in Named : run' = [run EXCEPT !.old = b, !.pc = "halt"]
           \/ Named = {} /\ run' = [run EXCEPT !.old = 0, !.pc = "data"]
     \/ CallFails /\ Failed
  /\ UNCHANGED <<box, stopping, volume, quality, snaps>>

\* Mutant: the archives are unpacked under the running container.
HaltNothing ==
  /\ At("halt") /\ GoesWell /\ Go("data")
  /\ UNCHANGED <<box, stopping, volume, quality, snaps>>

Halt ==
  /\ At("halt")
  /\ IF box[run.old].up
       THEN \/ StopWorks("data")
            \/ StopFails /\ Failed
            \/ StopHalfFails /\ Failed
       ELSE Go("data") /\ GoesWell /\ UNCHANGED <<box, stopping>>
  /\ UNCHANGED <<volume, quality, snaps>>

\* Mutant: a rollback that puts back the image but not the data.
DataKept ==
  /\ At("data") /\ CallWorks /\ Go("park")
  /\ UNCHANGED <<box, stopping, volume, quality, snaps>>

\* The volume is emptied and filled from the archive.  When that fails, what is
\* in it counts as the data of one version or the other.
HalfRestored == {volume, snaps[run.snap].volume}
Data ==
  /\ At("data")
  /\ \/ CallWorks /\ Go("park") /\ volume' = snaps[run.snap].volume
     \/ CallFails /\ Failed /\ volume' \in HalfRestored
  /\ UNCHANGED <<box, stopping, quality, snaps>>

-----------------------------------------------------------------------------

Cancel ==
  /\ "cancel" \in Env
  /\ ~At("idle") /\ ~run.cancelled
  /\ GoesWrong
  /\ run' = [run EXCEPT !.cancelled = TRUE]
  /\ UNCHANGED <<box, stopping, volume, quality, snaps>>

Crash ==
  /\ "crash" \in Env
  /\ ~At("idle")
  /\ GoesVeryWrong
  /\ run' = [Idle EXCEPT !.n = run.n, !.orderly = run.orderly /\ ~BrokenOff]
  /\ UNCHANGED <<box, stopping, volume, quality, snaps>>

Next ==
  \/ Select \/ Pull \/ PreHooks \/ TakeStop \/ TakeSave \/ Restart
  \/ EngineStops \/ Park \/ Create \/ Unpark \/ Remove \/ Start
  \/ Compose \/ Health \/ Undo \/ LeaveRunning
  \/ RollbackByHand \/ Plan \/ Halt \/ Data \/ Cancel \/ Crash

Spec == Init /\ [][Next]_vars

-----------------------------------------------------------------------------
(* Properties *)

\* "so you are never left with no container at all" (README.md:354-356): the
\* outgoing container is only removed once its replacement exists
\* (replace.go:33-69), so some container is there at every moment.
NeverWithoutContainer == \E b \in Box : box[b] # Gone

\* "A failed snapshot that leaves a service down is a worse outcome than no
\* snapshot at all" (snapshot.go:143-144), and so for a failed update
\* (update.go:333-334).  After one mishap the container has its name again: a
\* failed Create is undone (replace.go:53-62), a Restore finds nothing and
\* creates (restore.go:114-122).  And if it was up it is up again, except where
\* its new version cannot run and nobody asked for a rollback, or where the
\* rollback is reported to have failed.  Compose is on its own.
ServiceUp ==
  At("idle") /\ trouble <= 1 =>
    /\ run.policy.compose \/ Named # {}
    /\ run.ran =>
         \/ \E b \in Named : box[b].up
         \/ quality[run.n] # "good" /\ ~(run.policy.snapshot /\ run.policy.rollback)
         \/ run.rollbackErr
         \/ run.policy.compose /\ Named = {}

\* A rollback that reports success left the recorded image on the recorded
\* data, as it was recorded or as that image has since made it, whatever the
\* failed update had done by then (restore.go:175-240).
RolledBackWhole ==
  At("idle") /\ run.outcome = "rolledback" =>
    \E b \in Named :
      /\ box[b].image = snaps[run.snap].image
      /\ volume = IF box[b].up THEN Migrated(snaps[run.snap].volume, box[b].image)
                              ELSE snaps[run.snap].volume

\* No version ever runs on data a newer one has written: data goes back first,
\* the image after it, and nothing else is running (update.go:293-331): "Writing
\* into a volume underneath a running process produces a state neither the old
\* nor the new data ever had" (restore.go:196-197).  As long as every run was
\* to stop the container for its snapshot: a hot or skipped snapshot leaves the
\* old container running when it cannot be removed.  And as long as no rollback
\* by hand, forward again to a newer snapshot, ended between its data and its
\* container: whatever starts the old one next starts it on newer data.
NoDowngrade ==
  run.orderly => \A b \in Box : box[b].up => box[b].image >= volume /\ ~At("data")

\* "this tool is worth exactly as much as its reports are" (update.go:240-241):
\* an update or a rollback of a running container that reports success leaves
\* one running, whatever went wrong on the way, unless it found nothing to do
\* while the engine was still stopping the container (snapshot.go:136-139).
NoSilentOutage ==
  At("idle") /\ run.ran /\ run.outcome \in {"updated", "nochange", "rolledback"} =>
    \/ \E b \in Named : box[b].up
    \/ run.outcome = "nochange" /\ trouble >= 2

\* A backup of a stopped container never starts it, whether it fails or is
\* cancelled: only what Take itself has stopped is started (snapshot.go:136-160).
BackupLeavesAsFound ==
  At("idle") /\ run.kind = "backup" /\ ~run.ran => \A b \in Named : ~box[b].up
=============================================================================
