--------------------------- MODULE SnapshotStore ---------------------------
(***************************************************************************)
(* The snapshots of one container: the directories of the backup store     *)
(* (snapshot/store/fs.go), the image pins that belong to them              *)
(* (runtime/pin.go), and the three operations that change both:            *)
(*                                                                         *)
(*   Take          writes and publishes a snapshot; it runs under the      *)
(*                 container's lock, so there is at most one at a time     *)
(*   Prune         applies retention; it takes no lock, and the daemon's   *)
(*                 two loops and any number of `prune` commands run it     *)
(*   OrphanedPins  and ReleasePins, the tail of the `prune` command; no    *)
(*                 lock either                                             *)
(*                                                                         *)
(* A snapshot is identified by the second it was started in, so an id is   *)
(* a clock reading and the order of ids is the order of creation.  Its     *)
(* files are spec.json, the archives, taken together as "data", and        *)
(* manifest.json.                                                          *)
(***************************************************************************)
EXTENDS Integers, FiniteSets

CONSTANTS
  Pruners,        \* processes that run Pruner.Prune
  MaxClock,       \* bound on the clock: snapshots are drawn from 1..MaxClock
  Keep, Days, ProtectManual,   \* the fields of Retention
  Env             \* what may go wrong or run beside, a subset of EnvKinds

EnvKinds == { "abort",     \* a step of Take fails
              "crash",     \* a process dies between two steps
              "power",     \* the machine loses power
              "io",        \* os.RemoveAll fails half way
              "engine",    \* the engine refuses to tag or untag an image
              "collect" }  \* somebody runs the `prune` command's tail

\* Retention.Valid: numbers that are not negative and not both zero.
Valid == Keep \in Nat /\ Days \in Nat /\ (Keep > 0 \/ Days > 0)

ASSUME RetentionAssumption == Valid /\ ProtectManual \in BOOLEAN
ASSUME BoundAssumption == MaxClock \in Nat
ASSUME EnvAssumption == Env \subseteq EnvKinds

VARIABLES
  clock,      \* the current second
  dir,        \* dir[s]: how the directory of s appears in the store
  files,      \* files[s]: the files in it that are whole
  synced,     \* synced[s]: those of them the disk holds for certain, having kept them once
  manifest,   \* manifest[s]: what manifest.json says, readable while it is there
  pins,       \* the snapshots whose image carries a pin
  take,       \* the Take in progress
  prune,      \* prune[p]: the Prune in progress
  collect,    \* the OrphanedPins / ReleasePins in progress
  published   \* history: every snapshot Commit ever published

vars == <<clock, dir, files, synced, manifest, pins, take, prune, collect, published>>
diskVars == <<dir, files, synced, manifest>>

Snap == 1 .. MaxClock
File == {"spec", "data", "manifest"}
Manifest == [manual : BOOLEAN, pinned : BOOLEAN]

NoTake == [pc |-> "idle", id |-> 0, manual |-> FALSE, pinned |-> FALSE]
NoPrune == [pc |-> "idle", todo |-> {}, seen |-> {}, doomed |-> {}]
NoCollect == [pc |-> "idle", listed |-> {}, todo |-> {}, referenced |-> {}, orphans |-> {}]

TakeState == [pc : {"idle", "begin", "spec", "data", "pin", "manifest", "commit"},
              id : 0 .. MaxClock, manual : BOOLEAN, pinned : BOOLEAN]
PruneState == [pc : {"idle", "load", "remove", "unpin"}, todo : SUBSET Snap,
               seen : SUBSET Snap, doomed : SUBSET Snap]
CollectState == [pc : {"idle", "load", "release"}, listed : SUBSET Snap,
                 todo : SUBSET Snap, referenced : SUBSET Snap, orphans : SUBSET Snap]

TypeOK ==
  /\ clock \in 0 .. MaxClock
  /\ dir \in [Snap -> {"none", "pending", "final"}]
  /\ files \in [Snap -> SUBSET File]
  /\ synced \in [Snap -> SUBSET File]
  /\ manifest \in [Snap -> Manifest]
  /\ pins \subseteq Snap
  /\ take \in TakeState
  /\ take.pc # "idle" => take.id \in Snap
  /\ prune \in [Pruners -> PruneState]
  /\ collect \in CollectState
  /\ published \subseteq Snap

Init ==
  /\ clock = 0
  /\ dir = [s \in Snap |-> "none"]
  /\ files = [s \in Snap |-> {}]
  /\ synced = [s \in Snap |-> {}]
  /\ manifest = [s \in Snap |-> [manual |-> FALSE, pinned |-> FALSE]]
  /\ pins = {}
  /\ take = NoTake
  /\ prune = [p \in Pruners |-> NoPrune]
  /\ collect = NoCollect
  /\ published = {}

\* What Snapshots lists: everything but the pending directories.
Listed == {s \in Snap : dir[s] = "final"}

\* LoadManifest succeeds.
Readable(s) == dir[s] = "final" /\ "manifest" \in files[s]

\* Every file a restore needs is there.
Intact(s) == dir[s] = "final" /\ files[s] = File

Oldest(s, S) == s \in S /\ \A t \in S : s <= t
Newest(s, S) == s \in S /\ \A t \in S : t <= s

-----------------------------------------------------------------------------
(* Take *)

Tick ==
  /\ clock < MaxClock
  /\ clock' = clock + 1
  /\ UNCHANGED <<diskVars, pins, take, prune, collect, published>>

\* Mutant: the id is rounded up.
TakeStartRoundedUp ==
  /\ take.pc = "idle" /\ clock > 0
  /\ \E manual \in BOOLEAN :
       take' = [pc |-> "begin", id |-> clock + 1, manual |-> manual, pinned |-> FALSE]
  /\ UNCHANGED <<clock, diskVars, pins, prune, collect, published>>

\* The id is the second in which the run starts; stopping the container and
\* selecting its mounts come before anything is written, and a run that fails
\* there leaves the store as it was.
TakeStart ==
  /\ take.pc = "idle"
  /\ clock > 0
  /\ \E manual \in BOOLEAN :
       take' = [pc |-> "begin", id |-> clock, manual |-> manual, pinned |-> FALSE]
  /\ UNCHANGED <<clock, diskVars, pins, prune, collect, published>>

\* A published snapshot with this id is an error; a stale pending directory
\* with this id is cleared.
Begin ==
  /\ take.pc = "begin"
  /\ IF dir[take.id] = "final"
       THEN /\ take' = NoTake
            /\ UNCHANGED diskVars
       ELSE /\ take' = [take EXCEPT !.pc = "spec"]
            /\ dir' = [dir EXCEPT ![take.id] = "pending"]
            /\ files' = [files EXCEPT ![take.id] = {}]
            /\ synced' = [synced EXCEPT ![take.id] = {}]
            /\ UNCHANGED manifest
  /\ UNCHANGED <<clock, pins, prune, collect, published>>

\* Create a file in the pending directory, write it and close it.
Write(file, next) ==
  /\ take.pc = file
  /\ take' = [take EXCEPT !.pc = next]
  /\ files' = [files EXCEPT ![take.id] = @ \cup {file}]
  /\ UNCHANGED <<clock, dir, synced, pins, prune, collect, published>>

\* The captured spec first ...
WriteSpec == Write("spec", "data") /\ UNCHANGED manifest

\* ... then one archive per selected mount.
WriteData == Write("data", "pin") /\ UNCHANGED manifest

\* A pin that cannot be made is a warning: the manifest then names none.
PinImage ==
  /\ take.pc = "pin"
  /\ \/ /\ pins' = pins \cup {take.id}
        /\ take' = [take EXCEPT !.pc = "manifest", !.pinned = TRUE]
     \/ /\ "engine" \in Env
        /\ take' = [take EXCEPT !.pc = "manifest"]
        /\ UNCHANGED pins
  /\ UNCHANGED <<clock, diskVars, prune, collect, published>>

\* Mutant: the manifest names the pin even if the engine refused it.
WriteManifestBlindly ==
  /\ Write("manifest", "commit")
  /\ manifest' = [manifest EXCEPT ![take.id] = [manual |-> take.manual, pinned |-> TRUE]]

WriteManifest ==
  /\ Write("manifest", "commit")
  /\ manifest' = [manifest EXCEPT ![take.id] = [manual |-> take.manual, pinned |-> take.pinned]]

\* One rename publishes the directory.  Only directory entries were flushed
\* before it, not what the files hold.
Commit ==
  /\ take.pc = "commit"
  /\ dir' = [dir EXCEPT ![take.id] = "final"]
  /\ published' = published \cup {take.id}
  /\ take' = NoTake
  /\ UNCHANGED <<clock, files, synced, manifest, pins, prune, collect>>

\* A step failed: the deferred Abort discards the pending directory.  Nothing
\* releases a pin that was already made.
Abort ==
  /\ "abort" \in Env
  /\ take.pc \in {"spec", "data", "manifest", "commit"}
  /\ dir' = [dir EXCEPT ![take.id] = "none"]
  /\ files' = [files EXCEPT ![take.id] = {}]
  /\ synced' = [synced EXCEPT ![take.id] = {}]
  /\ take' = NoTake
  /\ UNCHANGED <<clock, manifest, pins, prune, collect, published>>

\* The process dies, or an Abort that cannot clear the directory.
TakeCrash ==
  /\ "crash" \in Env
  /\ take.pc # "idle"
  /\ take' = NoTake
  /\ UNCHANGED <<clock, diskVars, pins, prune, collect, published>>

-----------------------------------------------------------------------------
(* Prune *)

PruneList(p) ==
  /\ prune[p].pc = "idle"
  /\ Listed # {}
  /\ prune' = [prune EXCEPT ![p] = [NoPrune EXCEPT !.pc = "load", !.todo = Listed]]
  /\ UNCHANGED <<clock, diskVars, pins, take, collect, published>>

\* A manifest that cannot be read takes its snapshot out of the decision.
PruneLoad(p) ==
  /\ prune[p].pc = "load"
  /\ \E s \in prune[p].todo :
       /\ Oldest(s, prune[p].todo)
       /\ prune' = [prune EXCEPT ![p] = [prune[p] EXCEPT !.todo = @ \ {s},
                         !.seen = IF Readable(s) THEN @ \cup {s} ELSE @]]
  /\ UNCHANGED <<clock, diskVars, pins, take, collect, published>>

\* The snapshots the policy counts: not those that are protected.
Counted(S) == {s \in S : ~(ProtectManual /\ manifest[s].manual)}

\* Mutant: an off-by-one in the count of what is newer.
ExpiredTooSoon(S, now) ==
  {s \in Counted(S) :
     /\ Cardinality({t \in Counted(S) : t > s}) + 1 >= Keep
     /\ Days > 0 => s <= now - Days}

\* What the newest-first loop of Prune would delete of S: protected snapshots
\* never, the Keep newest of the others never, young ones never.
Expired(S, now) ==
  {s \in Counted(S) :
     /\ Cardinality({t \in Counted(S) : t > s}) >= Keep
     /\ Days > 0 => s <= now - Days}

\* Mutant: a protected snapshot uses up one of the Keep.
PruneDecideAllCounted(p) ==
  /\ prune[p].pc = "load"
  /\ prune[p].todo = {}
  /\ LET seen == prune[p].seen IN
       prune' = [prune EXCEPT ![p] = [prune[p] EXCEPT !.pc = "remove",
                   !.doomed = {s \in Counted(seen) : Cardinality({t \in seen : t > s}) >= Keep}]]
  /\ UNCHANGED <<clock, diskVars, pins, take, collect, published>>

PruneDecide(p) ==
  /\ prune[p].pc = "load"
  /\ prune[p].todo = {}
  /\ prune' = [prune EXCEPT ![p] = [prune[p] EXCEPT !.pc = "remove",
                                      !.doomed = Expired(prune[p].seen, clock)]]
  /\ UNCHANGED <<clock, diskVars, pins, take, collect, published>>

\* os.RemoveAll unlinks the files one by one, in no particular order ...
RemoveFile(p) ==
  /\ prune[p].pc = "remove"
  /\ \E s \in prune[p].doomed :
       /\ Newest(s, prune[p].doomed)
       /\ dir[s] = "final"
       /\ \E f \in files[s] :
            /\ files' = [files EXCEPT ![s] = @ \ {f}]
            /\ synced' = [synced EXCEPT ![s] = @ \ {f}]
  /\ UNCHANGED <<clock, dir, manifest, pins, take, prune, collect, published>>

\* ... then the directory, and succeeds on one that is already gone.
RemoveDir(p) ==
  /\ prune[p].pc = "remove"
  /\ \E s \in prune[p].doomed :
       /\ Newest(s, prune[p].doomed)
       /\ files[s] = {}
       /\ dir' = [dir EXCEPT ![s] = "none"]
       /\ prune' = IF manifest[s].pinned
                     THEN [prune EXCEPT ![p] = [prune[p] EXCEPT !.pc = "unpin"]]
                     ELSE [prune EXCEPT ![p] = [prune[p] EXCEPT !.doomed = @ \ {s}]]
  /\ UNCHANGED <<clock, files, synced, manifest, pins, take, collect, published>>

\* A snapshot that cannot be removed is reported as kept, pin and all.
RemoveFails(p) ==
  /\ "io" \in Env
  /\ prune[p].pc = "remove"
  /\ \E s \in prune[p].doomed :
       /\ Newest(s, prune[p].doomed)
       /\ prune' = [prune EXCEPT ![p] = [prune[p] EXCEPT !.doomed = @ \ {s}]]
  /\ UNCHANGED <<clock, diskVars, pins, take, collect, published>>

\* A pin that cannot be released stays, and only the log says so.
UnpinImage(p) ==
  /\ prune[p].pc = "unpin"
  /\ \E s \in prune[p].doomed :
       /\ Newest(s, prune[p].doomed)
       /\ prune' = [prune EXCEPT ![p] = [prune[p] EXCEPT !.pc = "remove", !.doomed = @ \ {s}]]
       /\ \/ pins' = pins \ {s}
          \/ "engine" \in Env /\ UNCHANGED pins
  /\ UNCHANGED <<clock, diskVars, take, collect, published>>

PruneDone(p) ==
  /\ prune[p].pc = "remove"
  /\ prune[p].doomed = {}
  /\ prune' = [prune EXCEPT ![p] = NoPrune]
  /\ UNCHANGED <<clock, diskVars, pins, take, collect, published>>

PruneCrash(p) ==
  /\ "crash" \in Env
  /\ prune[p].pc # "idle"
  /\ prune' = [prune EXCEPT ![p] = NoPrune]
  /\ UNCHANGED <<clock, diskVars, pins, take, collect, published>>

-----------------------------------------------------------------------------
(* OrphanedPins and ReleasePins *)

CollectStart ==
  /\ "collect" \in Env
  /\ collect.pc = "idle"
  /\ collect' = [NoCollect EXCEPT !.pc = "load", !.listed = Listed, !.todo = Listed]
  /\ UNCHANGED <<clock, diskVars, pins, take, prune, published>>

\* Mutant: only the last manifest read counts.
CollectLoadLast ==
  /\ collect.pc = "load"
  /\ \E s \in collect.todo :
       /\ Oldest(s, collect.todo)
       /\ collect' = IF Readable(s)
                       THEN [collect EXCEPT !.todo = @ \ {s},
                               !.referenced = IF manifest[s].pinned THEN {s} ELSE {}]
                       ELSE NoCollect
  /\ UNCHANGED <<clock, diskVars, pins, take, prune, published>>

\* One manifest that cannot be read and nothing is called an orphan.
CollectLoad ==
  /\ collect.pc = "load"
  /\ \E s \in collect.todo :
       /\ Oldest(s, collect.todo)
       /\ collect' = IF Readable(s)
                       THEN [collect EXCEPT !.todo = @ \ {s},
                               !.referenced = IF manifest[s].pinned THEN @ \cup {s} ELSE @]
                       ELSE NoCollect
  /\ UNCHANGED <<clock, diskVars, pins, take, prune, published>>

ListPins ==
  /\ collect.pc = "load"
  /\ collect.todo = {}
  /\ collect' = [collect EXCEPT !.pc = "release", !.orphans = pins \ collect.referenced]
  /\ UNCHANGED <<clock, diskVars, pins, take, prune, published>>

ReleasePin ==
  /\ collect.pc = "release"
  /\ \E s \in collect.orphans :
       /\ Oldest(s, collect.orphans)
       /\ collect' = [collect EXCEPT !.orphans = @ \ {s}]
       /\ \/ pins' = pins \ {s}
          \/ "engine" \in Env /\ UNCHANGED pins
  /\ UNCHANGED <<clock, diskVars, take, prune, published>>

CollectDone ==
  /\ collect.pc = "release"
  /\ collect.orphans = {}
  /\ collect' = NoCollect
  /\ UNCHANGED <<clock, diskVars, pins, take, prune, published>>

-----------------------------------------------------------------------------
(* The disk *)

\* Every process is gone, and of what was never flushed any part: the operating
\* system may have got round to writing a file back, or not.
PowerLoss ==
  /\ "power" \in Env
  /\ \E left \in [Snap -> SUBSET File] :
       /\ \A s \in Snap : synced[s] \subseteq left[s] /\ left[s] \subseteq files[s]
       /\ files' = left
  /\ synced' = files'
  /\ take' = NoTake
  /\ prune' = [p \in Pruners |-> NoPrune]
  /\ collect' = NoCollect
  /\ UNCHANGED <<clock, dir, manifest, pins, published>>

-----------------------------------------------------------------------------

TakeNext == TakeStart \/ Begin \/ WriteSpec \/ WriteData \/ PinImage \/ WriteManifest
            \/ Commit \/ Abort \/ TakeCrash

PruneNext(p) == PruneList(p) \/ PruneLoad(p) \/ PruneDecide(p) \/ RemoveFile(p)
                \/ RemoveDir(p) \/ RemoveFails(p) \/ UnpinImage(p) \/ PruneDone(p)
                \/ PruneCrash(p)

CollectNext == CollectStart \/ CollectLoad \/ ListPins \/ ReleasePin \/ CollectDone

StoreNext == Tick \/ TakeNext \/ (\E p \in Pruners : PruneNext(p))

Next == StoreNext \/ CollectNext \/ PowerLoss

Spec == Init /\ [][Next]_vars

\* Where nobody collects and no power is lost, it comes down to this.
StoreSpec == Init /\ [][StoreNext]_vars

-----------------------------------------------------------------------------
(* Properties *)

\* Whatever pruners, collectors, failures and crashes do, a snapshot the
\* policy keeps is whole: the retention decision of prune.go:126-153 is taken
\* on a listing that may be old by the time it is carried out.
NewestSurvive == \A s \in published \ Expired(published, clock) : Intact(s)

\* The store implements the ledger: what it publishes appears whole and in
\* order, and nothing it does takes a snapshot away before the policy has
\* given it up (fs.go:178-192, prune.go:84-173).
Ledger == INSTANCE SnapshotLedger WITH
  now <- clock, ever <- published,
  byHand <- {s \in published : manifest[s].manual},
  usable <- {s \in Snap : Intact(s)}

LedgerSpec == Ledger!LedgerSpec

\* The inductive invariant behind NewestSurvive, when no power is lost.  A Take
\* in progress is the newest of all and nothing else touches its directory ...
TakeInv ==
  take.pc # "idle" =>
    /\ take.id \in 1 .. clock
    /\ \A s \in published : s <= take.id
    /\ take.pc # "begin" => dir[take.id] = "pending" /\ take.id \notin published
    /\ take.pc \in {"data", "pin", "manifest", "commit"} => "spec" \in files[take.id]
    /\ take.pc \in {"pin", "manifest", "commit"} => "data" \in files[take.id]
    /\ take.pc = "commit" => "manifest" \in files[take.id]

\* ... and what a pruner has decided to delete has expired, however old its
\* listing is.
PruneInv ==
  \A p \in Pruners :
    /\ prune[p].todo \subseteq published
    /\ prune[p].seen \subseteq published
    /\ prune[p].doomed \subseteq Expired(published, clock)

StoreInv ==
  /\ TypeOK
  /\ published \subseteq 1 .. clock
  /\ Listed \subseteq published
  /\ TakeInv
  /\ PruneInv
  /\ NewestSurvive

\* A manifest that can be read and names a pin names one that exists: pinned
\* before it is published (snapshot.go:195-202), released only after the
\* directory is gone (prune.go:181-197).
PinHeld == \A s \in Snap : Readable(s) /\ manifest[s].pinned => s \in pins

\* The inductive invariant behind PinHeld, beside StoreInv: the pin is there
\* before the manifest that names it is published, and a pruner releases only
\* what is no longer in the store.
PinInv ==
  /\ PinHeld
  /\ take.pc \in {"begin", "spec", "data", "pin"} => ~take.pinned
  /\ take.pc = "manifest" /\ take.pinned => take.id \in pins
  /\ take.pc = "commit" /\ manifest[take.id].pinned => take.id \in pins
  /\ \A p \in Pruners : prune[p].pc = "unpin" =>
       \A s \in prune[p].doomed : Newest(s, prune[p].doomed) => dir[s] # "final"

\* The collector takes the pin of a readable snapshot only if that snapshot
\* was published after it listed the store (prune.go:205-245).
OnlyLatePinsLost ==
  [][\A s \in pins \ pins' : Readable(s) /\ manifest[s].pinned => s \notin collect.listed]_vars

\* "so the rename cannot outrun the data on a crash" (fs.go:182): a snapshot
\* that is listed with its manifest has its archives.
DataBeforeRename ==
  \A s \in published \ Expired(published, clock) : Readable(s) => "data" \in files[s]
=============================================================================
