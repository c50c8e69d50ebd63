----------------------------- MODULE HealthGate -----------------------------
(***************************************************************************)
(* The health gate (update/health.go): a loop that inspects the updated    *)
(* container once a second and judges it by its healthcheck if the         *)
(* configuration declares one, else by whether it stays up, next to the    *)
(* container itself, which goes its own way between two inspections.       *)
(***************************************************************************)
EXTENDS Naturals

CONSTANTS
  Timeout, Settle,   \* HealthOptions, in inspections
  MaxRestarts,       \* bound on the restarts of the container
  Slow               \* whether a pause may last longer than it should

ASSUME OptionsAssumption == Timeout \in Nat \ {0} /\ Settle \in Nat \ {0}
ASSUME BoundAssumption == MaxRestarts \in Nat /\ Slow \in BOOLEAN

VARIABLES
  declared,   \* the configuration declares a healthcheck
  state,      \* what the engine says of the container
  gate,       \* the loop
  looped      \* history: the container has restarted since it was first inspected

vars == <<declared, state, gate, looped>>

\* health is "none" until the engine has populated it.
State == [running : BOOLEAN, restarts : 0 .. MaxRestarts,
          health : {"none", "starting", "healthy", "unhealthy"}]
Verdict == {"none", "passed", "failed"}
Method == {"none", "inspect", "runtime", "healthcheck", "restart-count", "cancelled"}

\* Time beyond the later of the two limits makes no difference.
Late == 1 + (IF Timeout > Settle THEN Timeout ELSE Settle)

TypeOK ==
  /\ declared \in BOOLEAN
  /\ state \in State
  /\ gate \in [pc : {"inspect", "wait", "done"}, elapsed : 0 .. Late,
               baseline : 0 .. MaxRestarts, first : BOOLEAN,
               verdict : Verdict, method : Method]
  /\ looped \in BOOLEAN

Init ==
  /\ declared \in BOOLEAN
  /\ state \in [running : {TRUE}, restarts : 0 .. MaxRestarts, health : {"none"}]
  /\ gate = [pc |-> "inspect", elapsed |-> 0, baseline |-> 0, first |-> TRUE,
             verdict |-> "none", method |-> "none"]
  /\ looped = FALSE

-----------------------------------------------------------------------------
(* The container *)

\* It ends, and its restart policy may bring it back.
Exit ==
  /\ state.running
  /\ state' = [state EXCEPT !.running = FALSE]
  /\ UNCHANGED <<declared, gate, looped>>

Restart ==
  /\ state.restarts < MaxRestarts
  /\ state' = [running |-> TRUE, restarts |-> state.restarts + 1,
               health |-> IF declared THEN "starting" ELSE "none"]
  /\ looped' = (looped \/ ~gate.first)
  /\ UNCHANGED <<declared, gate>>

\* Only a container with a healthcheck ever reports health.
Probe ==
  /\ declared /\ state.running
  /\ state' \in {[state EXCEPT !.health = h] : h \in {"starting", "healthy", "unhealthy"}}
  /\ UNCHANGED <<declared, gate, looped>>

-----------------------------------------------------------------------------
(* checkHealth *)

Decide(verdict, method) ==
  gate' = [gate EXCEPT !.pc = "done", !.verdict = verdict, !.method = method, !.first = FALSE,
                       !.baseline = IF gate.first THEN state.restarts ELSE @]

\* Mutants: one restart is forgiven; the count is taken afresh every time.
BaselineForgiving == IF gate.first THEN state.restarts + 1 ELSE gate.baseline
BaselineAfresh == state.restarts

\* The restart count of the first inspection is the one to compare with.
Baseline == IF gate.first THEN state.restarts ELSE gate.baseline

\* Mutant: what has no health state yet is taken to have no healthcheck.
InspectState ==
  /\ gate.pc = "inspect"
  /\ IF ~state.running THEN Decide("failed", "runtime")
     ELSE IF state.health = "healthy" THEN Decide("passed", "healthcheck")
     ELSE IF state.health = "unhealthy" THEN Decide("failed", "healthcheck")
     ELSE IF state.health = "none" /\ gate.elapsed >= Settle
       THEN IF state.restarts > Baseline THEN Decide("failed", "restart-count")
            ELSE Decide("passed", "runtime")
     ELSE gate' = [gate EXCEPT !.pc = "wait", !.first = FALSE, !.baseline = Baseline]
  /\ UNCHANGED <<declared, state, looped>>

\* Mutant: no deadline for a container that stays "starting".
InspectForEver ==
  /\ gate.pc = "inspect"
  /\ IF ~state.running THEN Decide("failed", "runtime")
     ELSE IF state.health = "healthy" THEN Decide("passed", "healthcheck")
     ELSE IF state.health = "unhealthy" THEN Decide("failed", "healthcheck")
     ELSE IF state.health = "none" /\ ~declared /\ gate.elapsed >= Settle
       THEN Decide("passed", "runtime")
     ELSE gate' = [gate EXCEPT !.pc = "wait", !.first = FALSE, !.baseline = Baseline]
  /\ UNCHANGED <<declared, state, looped>>

Inspect ==
  /\ gate.pc = "inspect"
  /\ \/ Decide("failed", "inspect")
     \/ IF ~state.running THEN Decide("failed", "runtime")
        ELSE IF state.health = "healthy" THEN Decide("passed", "healthcheck")
        ELSE IF state.health = "unhealthy" THEN Decide("failed", "healthcheck")
        ELSE IF state.health = "none" /\ ~declared /\ gate.elapsed >= Settle
          THEN IF state.restarts > Baseline THEN Decide("failed", "restart-count")
               ELSE Decide("passed", "runtime")
        ELSE IF gate.elapsed > Timeout THEN Decide("failed", "healthcheck")
        ELSE gate' = [gate EXCEPT !.pc = "wait", !.first = FALSE, !.baseline = Baseline]
  /\ UNCHANGED <<declared, state, looped>>

\* A pause of one second, or of more on a busy host; the clock runs on either way.
Pauses == IF Slow THEN 1 .. Late ELSE {1}
Wait ==
  /\ gate.pc = "wait"
  /\ \E pause \in Pauses :
       gate' = [gate EXCEPT !.pc = "inspect",
                            !.elapsed = IF @ + pause > Late THEN Late ELSE @ + pause]
  /\ UNCHANGED <<declared, state, looped>>

Cancel ==
  /\ gate.pc = "wait"
  /\ Decide("failed", "cancelled")
  /\ UNCHANGED <<declared, state, looped>>

Next == Exit \/ Restart \/ Probe \/ Inspect \/ Wait \/ Cancel

Spec == Init /\ [][Next]_vars

\* The loop goes on whatever the container does; the container owes nothing, and
\* nobody has to cancel.
FairSpec == Spec /\ WF_vars(Inspect \/ Wait)

-----------------------------------------------------------------------------
(* Properties *)

\* "If the image declares a HEALTHCHECK, that decides. If it does not, the
\* container must simply stay up for the settle window" (README.md:304-306):
\* each kind of container is judged by its own method, even before the engine
\* has populated the health state (health.go:83-86).
JudgedByItsKind ==
  /\ gate.method = "healthcheck" => declared
  /\ gate.method = "runtime" /\ gate.verdict = "passed" => ~declared

\* "watch for a crash loop over a settle window" (DESIGN.md:103-105): what
\* passes without a healthcheck has not restarted since the gate first saw it,
\* wherever between two inspections a restart may fall.
NoCrashLoopPasses ==
  [][gate.verdict = "none" /\ gate'.verdict = "passed" /\ gate'.method = "runtime"
       => ~looped /\ state.running /\ gate.elapsed >= Settle]_vars

\* The gate comes to a verdict, whatever the container goes through: an update
\* never hangs in it with the lock held.
GateDecides == <>(gate.pc = "done")
=============================================================================
