----------------------------- MODULE DaemonPass -----------------------------
(***************************************************************************)
(* The update passes of the daemon (daemonPass in cli/daemon.go): select   *)
(* the containers that are enabled, check them all, put them in order,     *)
(* update one after the other those that nobody else is at work on, and    *)
(* prune if anything was updated.  The credentials of UpdateChecks live as *)
(* long as the daemon.                                                     *)
(*                                                                         *)
(* What Update does to the container is the matter of ContainerUpdate;     *)
(* here it comes to an outcome, and maybe a snapshot.  The layers of the   *)
(* policies and the compose labels are read by Select; they are chosen     *)
(* here when something first depends on them, and forgotten after the last *)
(* thing that does.                                                        *)
(***************************************************************************)
EXTENDS UpdateChecks, UpdateOrder, PolicyLayers

CONSTANTS
  MaxPasses,   \* bound on the passes
  MaxChecks,   \* bound on the checks made in all of them
  Keep,        \* how many snapshots retention keeps
  Fleets,      \* what compose labels there may be
  Layers       \* what the layers of a policy may be

\* Containers are numbered in the order of their names.
ASSUME CandAssumption == Cand \in SUBSET (Nat \ {0}) /\ IsFiniteSet(Cand)
ASSUME BoundsAssumption == MaxPasses \in Nat /\ MaxChecks \in Nat /\ Keep \in Nat
ASSUME FleetsAssumption == Fleets \subseteq [Cand -> Label]
\* The rule file's defaults and the labels are always there.
ASSUME LayersAssumption == Layers \subseteq Seq(Layer) \ {<<>>}

VARIABLES
  pass,     \* the pass in progress, or the last one
  fleet,    \* the compose labels, once they are read
  layers,   \* layers[c]: the layers of c's policy, once they are read
  snaps,    \* snaps[c]: how many snapshots there are that retention may remove
  touched   \* history: the containers that this pass has gone on to update

passVars == <<pass, fleet, layers, snaps, touched>>
vars == <<checkVars, passVars>>

NoFleet == [c \in Cand |-> [project |-> 0, service |-> 0, deps |-> <<>>]]
PassState ==
  [n : 0 .. MaxPasses,
   checks : 0 .. MaxChecks,     \* how many were made so far
   phase : {"idle", "check", "ordered", "serve", "prune", "stopped"},
   enabled : SUBSET Cand,
   queue : Seq(Cand),           \* those still to be updated
   updated : BOOLEAN,           \* updated > 0
   unpruned : SUBSET Cand,      \* those whose snapshots are still to be pruned
   spoilt : SUBSET Cand]        \* history: those of which Prune has said it could not

TypeOK ==
  /\ ChecksTypeOK
  /\ pass \in PassState
  /\ fleet \in [Cand -> Label]
  /\ layers \in [Cand -> Layers \cup {<<>>}]
  /\ snaps \in [Cand -> Nat]
  /\ touched \cup ToSet(pass.queue) \subseteq pass.enabled

Init ==
  /\ ChecksInit
  /\ pass = [n |-> 0, checks |-> 0, phase |-> "idle", enabled |-> {}, queue |-> <<>>,
             updated |-> FALSE, unpruned |-> {}, spoilt |-> {}]
  /\ fleet = NoFleet
  /\ layers = [c \in Cand |-> <<>>]
  /\ snaps = [c \in Cand |-> Keep]
  /\ touched = {}

In(phase) == pass.phase = phase

\* What the layers of an enabled container's policy are, or may turn out to be.
LayersOf(c) == IF layers[c] # <<>> THEN {layers[c]}
               ELSE {l \in Layers : Evaluate(l).policy.enable = "yes"}

-----------------------------------------------------------------------------

\* The rule file cannot be read, or the containers not be listed; or nothing
\* is enabled; or all that is gets checked.
Select ==
  /\ In("idle") /\ pass.n < MaxPasses /\ ~cancelled
  /\ \E S \in SUBSET Cand :
       /\ pass.checks + Cardinality(S) <= MaxChecks
       /\ IF S = {} THEN UNCHANGED checkVars ELSE CheckAll(S)
       /\ pass' = [pass EXCEPT !.n = @ + 1, !.checks = @ + Cardinality(S),
                               !.phase = IF S = {} THEN "idle" ELSE "check",
                               !.enabled = S]
  /\ UNCHANGED <<fleet, layers, snaps, touched>>

Check == In("check") /\ (\E c \in Cand : CheckStep(c)) /\ UNCHANGED passVars

\* Mutant: everything that was selected is put in order, enabled or not.
ArrangeAll ==
  /\ In("check") /\ AllEnded
  /\ fleet' \in Fleets
  /\ pass' = [pass EXCEPT !.phase = "ordered", !.queue = Order(Cand, fleet')]
  /\ UNCHANGED <<checkVars, layers, snaps, touched>>

Arrange ==
  /\ In("check") /\ AllEnded
  /\ \E f \in Fleets :
       fleet' = [c \in Cand |-> IF c \in pass.enabled THEN f[c] ELSE NoFleet[c]]
  /\ pass' = [pass EXCEPT !.phase = "ordered", !.queue = Order(pass.enabled, fleet')]
  /\ UNCHANGED <<checkVars, layers, snaps, touched>>

Start ==
  /\ In("ordered")
  /\ pass' = [pass EXCEPT !.phase = "serve"]
  /\ fleet' = NoFleet
  /\ UNCHANGED <<checkVars, layers, snaps, touched>>

c0 == Head(pass.queue)
Done(updated) == pass' = [pass EXCEPT !.queue = Tail(@), !.updated = @ \/ updated]

\* Another run has the container's lock.
Busy ==
  /\ In("serve") /\ pass.queue # <<>> /\ ~cancelled
  /\ Done(FALSE)
  /\ UNCHANGED <<checkVars, fleet, layers, snaps, touched>>

\* Update, where the check says that there is nothing to do or that it failed,
\* or the policy that it is only to be reported.
Report ==
  /\ In("serve") /\ pass.queue # <<>> /\ ~cancelled
  /\ \/ check[c0].result # "available" /\ UNCHANGED layers
     \/ /\ check[c0].result = "available"
        /\ \E l \in LayersOf(c0) : /\ Evaluate(l).policy.monitor = "yes"
                                  /\ layers' = [layers EXCEPT ![c0] = l]
  /\ Done(FALSE)
  /\ UNCHANGED <<checkVars, fleet, snaps, touched>>

\* Update, where it goes on to the snapshot and the replacement.
Update ==
  /\ In("serve") /\ pass.queue # <<>> /\ ~cancelled
  /\ check[c0].result = "available"
  /\ \E l \in LayersOf(c0) : /\ Evaluate(l).policy.monitor = "no"
                            /\ layers' = [layers EXCEPT ![c0] = l]
  /\ \E updated \in BOOLEAN : Done(updated)
  /\ \E taken \in {0, 1} : snaps' = [snaps EXCEPT ![c0] = @ + taken]
  /\ touched' = touched \cup {c0}
  /\ UNCHANGED <<checkVars, fleet>>

\* A pass that is cancelled returns, and so does the daemon.
Stop ==
  /\ In("serve") /\ pass.queue # <<>> /\ cancelled
  /\ pass' = [pass EXCEPT !.phase = "stopped"]
  /\ UNCHANGED <<checkVars, fleet, layers, snaps, touched>>

\* Mutant: only the containers that were updated are pruned.
PruneUpdated ==
  /\ In("serve") /\ pass.queue = <<>>
  /\ pass' = [pass EXCEPT !.phase = "prune", !.unpruned = IF pass.updated THEN touched ELSE {}]
  /\ UNCHANGED <<checkVars, fleet, layers, snaps, touched>>

\* "Updates create snapshots too": everyone enabled is pruned, if any was updated.
StartPruning ==
  /\ In("serve") /\ pass.queue = <<>>
  /\ pass' = [pass EXCEPT !.phase = "prune",
                          !.unpruned = IF pass.updated THEN pass.enabled ELSE {}]
  /\ UNCHANGED <<checkVars, fleet, layers, snaps, touched>>

\* Prune is skipped for a retention that keeps nothing, and may fail.
Prune ==
  /\ In("prune")
  /\ \E c \in pass.unpruned :
       /\ \A d \in pass.unpruned : c <= d
       /\ \/ /\ \E l \in LayersOf(c) : Evaluate(l).policy.retain = "some"
             /\ ~cancelled
             /\ snaps' = [snaps EXCEPT ![c] = IF @ > Keep THEN Keep ELSE @]
             /\ pass' = [pass EXCEPT !.unpruned = @ \ {c}]
          \/ /\ UNCHANGED snaps
             /\ pass' = [pass EXCEPT !.unpruned = @ \ {c}, !.spoilt = @ \cup {c}]
       /\ layers' = [layers EXCEPT ![c] = <<>>]
  /\ UNCHANGED <<checkVars, fleet, touched>>

\* What the pass knew, the results of the checks with it, ends with the pass.
End ==
  /\ In("prune") /\ pass.unpruned = {}
  /\ pass' = [pass EXCEPT !.phase = "idle", !.enabled = {}, !.updated = FALSE, !.spoilt = {}]
  /\ CheckAll({})
  /\ layers' = [c \in Cand |-> <<>>]
  /\ touched' = {}
  /\ UNCHANGED <<fleet, snaps>>

\* The daemon is told to stop: what is being done fails, or returns.
Shutdown == ~In("stopped") /\ Cancel /\ UNCHANGED passVars

Next ==
  \/ Select \/ Check \/ Arrange \/ Start \/ Busy \/ Report \/ Update \/ Stop
  \/ StartPruning \/ Prune \/ End \/ Shutdown

\* The engine, the registries and Komodo answer each call or fail it, and
\* goroutines are scheduled: a pass that can take a step takes one.
Fairness ==
  WF_vars(\/ Check \/ Arrange \/ Start \/ Busy \/ Report \/ Update \/ Stop
          \/ StartPruning \/ Prune \/ End)

Spec == Init /\ [][Next]_vars /\ Fairness

-----------------------------------------------------------------------------
(* Properties *)

\* "within a compose project, a service is updated before the services that
\* depend on it" (order.go:10-11), however they depend on each other; in a
\* cycle someone has to be first.
DependenciesFirst == In("ordered") => DependenciesFirstIn(pass.queue, pass.enabled, fleet)

\* "a dependency cycle degrades to the original order instead of hanging or
\* dropping containers" (order.go:53-54): whoever is enabled gets a turn, but
\* for the further containers of a service that is scaled (order.go:48).
NoneForgotten == In("ordered") => ServesEachService(pass.queue, pass.enabled, fleet)

\* "Auto-update is strictly opt-in" (policy.go:4), and the label on the
\* container "overrides whatever a rule decided" (rules.go:20-21): whatever is
\* updated has been enabled, and not put on monitor only, by the last layer
\* that has a readable word on it.
OptInOnly ==
  \A c \in touched :
    LET says(i, setting, v) == setting \in DOMAIN layers[c][i] /\ layers[c][i][setting] = v
        lastWord(setting, v, w) ==
          \E i \in DOMAIN layers[c] : /\ says(i, setting, v)
             /\ \A j \in DOMAIN layers[c] : j > i => ~says(j, setting, w)
    IN  In("serve") =>
          /\ lastWord("enable", "yes", "no")
          /\ ~lastWord("monitor", "yes", "no")

\* "Updates create snapshots too, so retention has to run here as well"
\* (daemon.go:202-204): once a pass has updated something, every container it had
\* enabled is back at what is kept, or its Prune is reported to have failed.  That
\* goes for one whose own update failed, or that had no turn, and for what passes
\* before this one have left behind.  It does not go for a pass that updates
\* nothing, though the user is told that "each update pass" runs retention
\* (README.md:429-430): such a pass skips it (daemon.go:205), and the snapshots of
\* updates that fail pile up until something is updated.
PrunedAfterUpdates ==
  In("prune") /\ pass.updated =>
    \A c \in pass.enabled \ (pass.unpruned \cup pass.spoilt) : snaps[c] <= Keep

\* A pass comes to its end whatever the registries and Komodo answer: no check
\* waits for ever for a slot or for the load of another (check.go:178-204,
\* registry.go:90-105).
PassEnds == In("check") ~> In("idle") \/ In("stopped")
=============================================================================
