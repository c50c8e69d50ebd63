------------------------- MODULE RestoreBesidePrune -------------------------
(***************************************************************************)
(* Restore (snapshot/restore.go) and the `restore` command over the store  *)
(* of SnapshotStore, with everything that goes on there meanwhile.  Takes  *)
(* are shut out by the container's lock, pruners and the collector are     *)
(* not: what Restore has planned with and verified may be gone when it is  *)
(* needed.  Every step of the store is a step of this system.              *)
(*                                                                         *)
(* Each archive is opened anew, and so is the spec; a file that is open    *)
(* can be read to its end.                                                 *)
(* What Replace does with the containers is in ContainerUpdate.            *)
(***************************************************************************)
EXTENDS SnapshotStore

CONSTANTS
  Mounts,    \* number of volumes the container has, in the manifest's order
  Options    \* the RestoreOptions asked for, a subset of Option

Option == [data : BOOLEAN, recreate : BOOLEAN, image : BOOLEAN, verify : BOOLEAN]

ASSUME MountsAssumption == Mounts \in Nat \ {0}
ASSUME OptionsAssumption ==
  Options \subseteq {o \in Option : (o.data \/ o.recreate) /\ (o.image => o.recreate)}

VARIABLES
  restore,   \* the `restore` command
  volume,    \* volume[m]: what is in the m-th volume
  torn       \* history: the published snapshots that a loss of power has cost their spec

restoreVars == <<restore, volume, torn>>
allVars == <<vars, restoreVars>>

Mount == 1 .. Mounts

NotAsked == [pc |-> "idle", id |-> 0, verify |-> FALSE, data |-> FALSE, recreate |-> FALSE,
             image |-> FALSE, next |-> 1, unheld |-> FALSE, outcome |-> "none"]

\* "gone" is a failure for want of an archive, "nospec" for want of the spec,
\* "noimage" for want of the image.
RestoreState ==
  [pc : {"idle", "plan", "verify", "stop", "open", "clean", "fill", "spec", "create", "start", "done"},
   id : 0 .. MaxClock,
   verify : BOOLEAN, data : BOOLEAN, recreate : BOOLEAN, image : BOOLEAN,
   next : 1 .. Mounts + 1,   \* the archive to be restored next
   unheld : BOOLEAN,         \* no pin, or the collector took it
   outcome : {"none", "ok", "refused", "gone", "nospec", "noimage", "failed"}]

RestoreTypeOK ==
  /\ TypeOK
  /\ restore \in RestoreState
  /\ restore.pc # "idle" => restore.id \in Snap
  /\ restore.next > Mounts => restore.pc \in {"spec", "create", "start", "done"}
  /\ volume \in [Mount -> {"live", "empty", "restored"}]
  /\ torn \subseteq Snap

RestoreInit ==
  /\ Init
  /\ restore = NotAsked
  /\ volume = [m \in Mount |-> "live"]
  /\ torn = {}

Locked == restore.pc \notin {"idle", "done"}

-----------------------------------------------------------------------------

RestoreAt(pc) == restore.pc = pc
RestoreGo(pc) == restore' = [restore EXCEPT !.pc = pc]
RestoreEnds(outcome) == restore' = [restore EXCEPT !.pc = "done", !.outcome = outcome]

\* A behaviour ends with the restore: what the store does afterwards, it also
\* does in behaviours in which nobody has asked for one yet.
Ended == RestoreAt("done")

\* A snapshot was chosen, its plan shown and confirmed before the lock was
\* asked for: whatever has been published may be meant, gone or not.  The lock
\* is free now, and from here on no Take will start.
Confirm ==
  /\ RestoreAt("idle")
  /\ take.pc = "idle"
  /\ \E s \in published, o \in Options :
       restore' = [NotAsked EXCEPT !.pc = "plan", !.id = s, !.verify = o.verify, !.data = o.data,
                                   !.recreate = o.recreate, !.image = o.image]
  /\ UNCHANGED <<vars, volume, torn>>

\* The image is there while it is pinned; without a pin it may be all the same.
ImageFound(found, missing) ==
  \/ restore.id \in pins /\ found
  \/ restore.id \notin pins /\ (found \/ missing)

\* PlanRestore: the manifest, the container, and which image to go back to.
PlanRestore ==
  /\ RestoreAt("plan")
  /\ \/ /\ Readable(restore.id)
        /\ LET planned ==
                 restore' = [restore EXCEPT
                   !.pc = IF restore.data /\ restore.verify THEN "verify" ELSE "stop",
                   !.unheld = restore.image /\ restore.id \notin pins] IN
           ImageFound(planned, restore.image /\ RestoreEnds("refused"))
     \/ RestoreEnds("refused")
  /\ UNCHANGED <<vars, volume, torn>>

\* Mutant: the checksums are compared once everything has been written.
VerifyLater ==
  /\ RestoreAt("verify")
  /\ RestoreGo("stop")
  /\ UNCHANGED <<vars, volume, torn>>

\* The manifest and every archive are read before anything is touched; the spec
\* is not.
VerifyArchives ==
  /\ RestoreAt("verify")
  /\ IF Readable(restore.id) /\ "data" \in files[restore.id]
       THEN RestoreGo("stop")
       ELSE RestoreEnds("refused")
  /\ UNCHANGED <<vars, volume, torn>>

\* Mutant: one archive more than there are.
AfterMountTooFar(m) == IF m <= Mounts THEN "open" ELSE IF restore.recreate THEN "spec" ELSE "start"

AfterMount(m) == IF m < Mounts THEN "open" ELSE IF restore.recreate THEN "spec" ELSE "start"

\* The container is stopped; an engine that refuses ends the restore.
StopContainer ==
  /\ RestoreAt("stop")
  /\ \/ RestoreGo(IF restore.data THEN "open" ELSE "spec")
     \/ RestoreEnds("refused")
  /\ UNCHANGED <<vars, volume, torn>>

\* Mutant: the volume is emptied first, for the archive to be put into it.
OpenAfterClean ==
  /\ RestoreAt("open")
  /\ volume' = [volume EXCEPT ![restore.next] = "empty"]
  /\ IF "data" \in files[restore.id] THEN RestoreGo("clean") ELSE RestoreEnds("gone")
  /\ UNCHANGED <<vars, torn>>

\* restoreArchive asks the engine for the volume and opens the archive ...
OpenArchive ==
  /\ RestoreAt("open")
  /\ \/ IF "data" \in files[restore.id] THEN RestoreGo("clean") ELSE RestoreEnds("gone")
     \/ RestoreEnds("failed")
  /\ UNCHANGED <<vars, volume, torn>>

\* ... before it empties the volume ...
CleanVolume ==
  /\ RestoreAt("clean")
  /\ volume' = [volume EXCEPT ![restore.next] = "empty"]
  /\ RestoreGo("fill")
  /\ UNCHANGED <<vars, torn>>

\* ... and unpacks into it, which may fail half way.
FillVolume ==
  /\ RestoreAt("fill")
  /\ \/ /\ volume' = [volume EXCEPT ![restore.next] = "restored"]
        /\ restore' = [restore EXCEPT !.next = @ + 1, !.pc = AfterMount(restore.next)]
     \/ RestoreEnds("failed") /\ UNCHANGED volume
  /\ UNCHANGED <<vars, torn>>

\* recreate reads the captured spec, after the data is back ...
LoadSpec ==
  /\ RestoreAt("spec")
  /\ IF "spec" \in files[restore.id] THEN RestoreGo("create") ELSE RestoreEnds("nospec")
  /\ UNCHANGED <<vars, volume, torn>>

\* ... and creates the container on the image that was found by the plan.
Recreate ==
  /\ RestoreAt("create")
  /\ \/ ImageFound(RestoreGo("start"), restore.image /\ RestoreEnds("noimage"))
     \/ RestoreEnds("failed")
  /\ UNCHANGED <<vars, volume, torn>>

\* If the plan says so.
StartContainer ==
  /\ RestoreAt("start")
  /\ RestoreEnds("ok") \/ RestoreEnds("failed")
  /\ UNCHANGED <<vars, volume, torn>>

RestoreCrash ==
  /\ Locked
  /\ RestoreEnds("failed")
  /\ UNCHANGED <<vars, volume, torn>>

RestoreNext == Confirm \/ PlanRestore \/ VerifyArchives \/ StopContainer \/ OpenArchive
               \/ CleanVolume \/ FillVolume \/ LoadSpec \/ Recreate
               \/ StartContainer \/ RestoreCrash

-----------------------------------------------------------------------------

\* The store goes on beside it, except that nobody starts a Take.
StoreBeside ==
  /\ ~Ended
  /\ \/ Tick
     \/ ~Locked /\ TakeNext
     \/ \E p \in Pruners : PruneNext(p)
  /\ UNCHANGED restoreVars

\* Prune releases a pin when the directory is gone; the collector may before.
CollectBeside ==
  /\ ~Ended
  /\ CollectNext
  /\ restore' = [restore EXCEPT !.unheld = @ \/ (Locked /\ restore.image
                     /\ restore.id \in pins \ pins' /\ dir[restore.id] = "final")]
  /\ UNCHANGED <<volume, torn>>

\* Nothing survives a loss of power but the disks.
PowerLossBeside ==
  /\ ~Ended
  /\ PowerLoss
  /\ IF RestoreAt("idle") THEN UNCHANGED restore ELSE RestoreEnds("failed")
  /\ torn' = torn \cup {s \in published : "spec" \in files[s] \ files'[s]}
  /\ UNCHANGED volume

BesideNext == RestoreNext \/ StoreBeside \/ CollectBeside \/ PowerLossBeside

BesideSpec == RestoreInit /\ [][BesideNext]_allVars

-----------------------------------------------------------------------------
(* Properties *)

\* What a restore has verified (restore.go:183-187) and then misses with the
\* container down belongs to a snapshot that retention had given up by then:
\* verifying takes no lock against Prune (prune.go:89), the policy is all that
\* keeps the archives there.  The image may be missing, too, if it had no pin.
\* Nothing verifies the spec, which is read when the data is back (restore.go:333):
\* a loss of power that cost spec.json lets the restore of a snapshot that
\* retention keeps come that far, and nothing but that does.
LostOnlyIfGivenUp ==
  LET givenUp == restore.id \in Expired(published, clock) IN
    /\ restore.outcome = "gone" /\ restore.verify => givenUp
    /\ restore.outcome = "nospec" => givenUp \/ restore.id \in torn
    /\ restore.outcome = "noimage" => givenUp \/ restore.unheld

\* A volume is left half restored (source/restore.go:44-46) only when writing
\* into it failed: a restore that is refused touches no volume, and one that
\* misses a file leaves each volume with its own data or the snapshot's, since
\* an archive is open before the volume is emptied (restore.go:265-280).
VolumesWhole ==
  /\ restore.outcome = "refused" => \A m \in Mount : volume[m] = "live"
  /\ restore.outcome \in {"gone", "nospec", "noimage"} => \A m \in Mount : volume[m] # "empty"
  /\ restore.outcome = "ok" /\ restore.data => \A m \in Mount : volume[m] = "restored"

\* The inductive invariants behind the two, beside the store's own: what is
\* being restored was published, and what retention had not given up when it
\* was planned is still pinned or has been given up since ...
RestoreInv ==
  /\ restore.pc # "idle" => restore.id \in published
  /\ restore.pc # "done" => restore.outcome = "none"
  /\ restore.pc \notin {"idle", "plan", "done"} /\ restore.image /\ ~restore.unheld =>
       restore.id \in pins \cup Expired(published, clock)
  /\ restore.outcome \in {"gone", "nospec"} => restore.id \in Expired(published, clock)
  /\ restore.outcome = "noimage" => restore.id \in Expired(published, clock) \/ restore.unheld

\* ... and the volumes are restored one after the other.
VolumeInv ==
  /\ restore.pc # "done" => \A m \in Mount : volume[m] =
       CASE m < restore.next -> "restored"
         [] m = restore.next /\ restore.pc = "fill" -> "empty"
         [] OTHER -> "live"
  /\ restore.pc \in {"idle", "plan", "verify", "stop"} => restore.next = 1
  /\ restore.pc \in {"open", "clean", "fill"} => restore.data
  /\ restore.pc \in {"spec", "create", "start"} /\ restore.data => restore.next > Mounts
  /\ restore.pc # "done" => restore.outcome = "none"
  /\ VolumesWhole
=============================================================================
