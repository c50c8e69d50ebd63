-------------------------- MODULE HealthGateProofs --------------------------
(***************************************************************************)
(* Theorems about HealthGate, for any limits and any number of restarts.   *)
(***************************************************************************)
EXTENDS HealthGate, TLAPS

\* The settle window is not longer than the timeout, as in the defaults
\* (health.go:52-57); otherwise what has no healthcheck runs into the deadline.
SettlesInTime == Settle <= Timeout

\* The loop's memory tells whether there was a restart since its first look.
BaselineInv ==
  /\ gate.first => ~looped
  /\ ~gate.first => gate.baseline <= state.restarts
  /\ ~gate.first /\ looped => gate.baseline < state.restarts

HealthInv == ~declared => state.health = "none"

GateInv == TypeOK /\ BaselineInv /\ HealthInv

\* What one inspection or one pause can make of the gate.
GateState == [pc : {"inspect", "wait", "done"}, elapsed : 0 .. Late,
              baseline : 0 .. MaxRestarts, first : BOOLEAN,
              verdict : Verdict, method : Method]

LEMMA LateIsNat == Late \in Nat /\ Timeout < Late /\ Settle < Late
  BY OptionsAssumption DEF Late

LEMMA BaselineHolds ==
  ASSUME GateInv
  PROVE  Baseline \in 0 .. MaxRestarts /\ Baseline <= state.restarts
         /\ (looped => Baseline < state.restarts)
  BY BoundAssumption DEF GateInv, TypeOK, State, BaselineInv, Baseline

LEMMA DecideUpdates ==
  ASSUME GateInv, NEW verdict \in Verdict, NEW method \in Method, Decide(verdict, method)
  PROVE  /\ gate' \in GateState
         /\ gate'.verdict = verdict /\ gate'.method = method
         /\ ~gate'.first /\ gate'.baseline = Baseline
  <1>1. gate \in GateState /\ Baseline \in 0 .. MaxRestarts
    BY BaselineHolds DEF GateInv, TypeOK, GateState
  <1>2. gate' = [gate EXCEPT !.pc = "done", !.verdict = verdict, !.method = method,
                             !.first = FALSE, !.baseline = Baseline]
    BY <1>1 DEF Decide, Baseline, GateState
  <1>3. QED
    BY <1>1, <1>2 DEF GateState

\* The three ways an inspection can end: a verdict by the healthcheck or against
\* the container, a pass on its staying up, or another round.
LEMMA InspectUpdates ==
  ASSUME GateInv, Inspect
  PROVE  /\ gate' \in GateState /\ UNCHANGED <<declared, state, looped>>
         /\ ~gate'.first /\ gate'.baseline = Baseline
         /\ \/ gate'.method = gate.method /\ gate'.verdict = gate.verdict
            \/ gate'.method \in {"inspect", "runtime", "restart-count"} /\ gate'.verdict = "failed"
            \/ gate'.method = "healthcheck"
               /\ (declared \/ (gate.elapsed > Timeout /\ gate.elapsed < Settle)
                   \/ state.health # "none")
            \/ /\ gate'.method = "runtime" /\ gate'.verdict = "passed"
               /\ ~declared /\ ~looped /\ state.running /\ gate.elapsed >= Settle
  <1>0. gate \in GateState /\ Baseline \in 0 .. MaxRestarts
        /\ state.restarts \in 0 .. MaxRestarts /\ gate.elapsed \in 0 .. Late
        /\ (looped => Baseline < state.restarts) /\ declared \in BOOLEAN
    BY BaselineHolds DEF GateInv, TypeOK, GateState, State
  <1>1. UNCHANGED <<declared, state, looped>>
    BY DEF Inspect
  <1>2. {"passed", "failed"} \subseteq Verdict
        /\ {"inspect", "runtime", "healthcheck", "restart-count"} \subseteq Method
    BY DEF Verdict, Method
  <1>3. CASE gate' = [gate EXCEPT !.pc = "wait", !.first = FALSE, !.baseline = Baseline]
    BY <1>0, <1>1, <1>3 DEF GateState
  <1>4. CASE Decide("failed", "inspect") \/ Decide("failed", "runtime")
    BY <1>1, <1>2, <1>4, DecideUpdates
  <1>5. CASE state.health # "none"
             /\ (Decide("passed", "healthcheck") \/ Decide("failed", "healthcheck"))
    BY <1>1, <1>2, <1>5, DecideUpdates
  <1>6. CASE /\ ~declared /\ state.running /\ gate.elapsed >= Settle
             /\ \/ state.restarts > Baseline /\ Decide("failed", "restart-count")
                \/ ~(state.restarts > Baseline) /\ Decide("passed", "runtime")
    <2>1. ~(state.restarts > Baseline) => ~looped
      BY <1>0, BoundAssumption
    <2>2. QED
      BY <1>1, <1>2, <1>6, <2>1, DecideUpdates
  <1>7. CASE /\ ~(state.health = "none" /\ ~declared /\ gate.elapsed >= Settle)
             /\ gate.elapsed > Timeout
             /\ Decide("failed", "healthcheck")
    <2>1. declared \/ state.health # "none" \/ gate.elapsed < Settle
      BY <1>0, <1>7, OptionsAssumption, LateIsNat
    <2>2. QED
      BY <1>1, <1>2, <1>7, <2>1, DecideUpdates
  <1>8. QED
    BY <1>3, <1>4, <1>5, <1>6, <1>7 DEF Inspect

LEMMA GateInvInit == Init => GateInv
  <1>1. SUFFICES ASSUME Init PROVE GateInv
    OBVIOUS
  <1>2. gate = [pc |-> "inspect", elapsed |-> 0, baseline |-> 0, first |-> TRUE,
                verdict |-> "none", method |-> "none"] /\ looped = FALSE
    BY <1>1 DEF Init
  <1>3. gate \in GateState
    <2>1. 0 \in 0 .. Late /\ 0 \in 0 .. MaxRestarts
      BY BoundAssumption, LateIsNat
    <2>2. QED
      BY <1>2, <2>1 DEF GateState, Verdict, Method
  <1>4. declared \in BOOLEAN /\ state \in State /\ state.health = "none"
    BY <1>1 DEF Init, State
  <1>5. QED
    BY <1>2, <1>3, <1>4 DEF GateInv, TypeOK, GateState, BaselineInv, HealthInv

LEMMA GateInvStep == ASSUME GateInv, [Next]_vars PROVE GateInv'
  <1>0. /\ declared \in BOOLEAN /\ state \in State /\ gate \in GateState /\ looped \in BOOLEAN
        /\ BaselineInv /\ HealthInv
    BY DEF GateInv, TypeOK, GateState
  <1>1. CASE UNCHANGED vars
    BY <1>1 DEF vars, GateInv, TypeOK, BaselineInv, HealthInv
  <1>2. CASE Exit
    BY <1>0, <1>2 DEF Exit, GateInv, TypeOK, GateState, State, BaselineInv, HealthInv
  <1>3. CASE Restart
    <2>1. /\ state' \in State /\ state'.restarts = state.restarts + 1
          /\ (~declared => state'.health = "none")
          /\ looped' = (looped \/ ~gate.first) /\ UNCHANGED <<declared, gate>>
      BY <1>0, <1>3, BoundAssumption DEF Restart, State
    <2>2. state.restarts \in Nat /\ gate.baseline \in Nat
      BY <1>0, BoundAssumption DEF State, GateState
    <2>3. BaselineInv'
      BY <1>0, <2>1, <2>2 DEF BaselineInv
    <2>4. QED
      BY <1>0, <2>1, <2>3 DEF GateInv, TypeOK, GateState, HealthInv
  <1>4. CASE Probe
    <2>1. /\ state' \in State /\ state'.restarts = state.restarts /\ declared
          /\ UNCHANGED <<declared, gate, looped>>
      BY <1>0, <1>4 DEF Probe, State
    <2>2. QED
      BY <1>0, <2>1 DEF GateInv, TypeOK, GateState, BaselineInv, HealthInv
  <1>5. CASE Inspect
    <2>1. gate' \in GateState /\ UNCHANGED <<declared, state, looped>>
          /\ ~gate'.first /\ gate'.baseline = Baseline
      BY <1>5, InspectUpdates
    <2>2. BaselineInv'
      BY <2>1, BaselineHolds DEF BaselineInv
    <2>3. QED
      BY <1>0, <2>1, <2>2 DEF GateInv, TypeOK, GateState, HealthInv
  <1>6. CASE Wait
    <2>1. PICK pause \in Pauses :
            gate' = [gate EXCEPT !.pc = "inspect",
                       !.elapsed = IF gate.elapsed + pause > Late THEN Late
                                   ELSE gate.elapsed + pause]
      BY <1>0, <1>6 DEF Wait, GateState
    <2>2. pause \in Nat
      BY LateIsNat DEF Pauses
    <2>3. /\ gate' \in GateState /\ gate'.first = gate.first
          /\ gate'.baseline = gate.baseline /\ UNCHANGED <<declared, state, looped>>
      <3> DEFINE later == IF gate.elapsed + pause > Late THEN Late ELSE gate.elapsed + pause
      <3>1. later \in 0 .. Late
        BY <1>0, <2>2, LateIsNat DEF GateState
      <3>2. gate' = [gate EXCEPT !.pc = "inspect", !.elapsed = later]
        BY <2>1
      <3> HIDE DEF later
      <3>3. QED
        BY <1>0, <1>6, <3>1, <3>2 DEF Wait, GateState
    <2>4. QED
      BY <1>0, <2>3 DEF GateInv, TypeOK, GateState, BaselineInv, HealthInv
  <1>7. CASE Cancel
    <2>1. "failed" \in Verdict /\ "cancelled" \in Method
      BY DEF Verdict, Method
    <2>2. gate' \in GateState /\ ~gate'.first /\ gate'.baseline = Baseline
          /\ UNCHANGED <<declared, state, looped>>
      BY <1>7, <2>1, DecideUpdates DEF Cancel
    <2>3. BaselineInv'
      BY <2>2, BaselineHolds DEF BaselineInv
    <2>4. QED
      BY <1>0, <2>2, <2>3 DEF GateInv, TypeOK, GateState, HealthInv
  <1>8. QED
    BY <1>1, <1>2, <1>3, <1>4, <1>5, <1>6, <1>7 DEF Next

\* For any settings, any kind of container and any number of restarts, the gate
\* stays in its states: its clock within Late, its baseline a count it has seen
\* (health.go:87-170).
THEOREM TypeCorrect == Spec => []TypeOK
  <1>1. GateInv => TypeOK
    BY DEF GateInv
  <1>2. QED
    BY <1>1, GateInvInit, GateInvStep, PTL DEF Spec

\* The verdict never rests on the wrong method (health.go:83-86), however late
\* the engine populates the health state.
THEOREM VerdictFitsTheKind == ASSUME SettlesInTime PROVE Spec => []JudgedByItsKind
  <1>1. Init => JudgedByItsKind
    BY DEF Init, JudgedByItsKind
  <1>2. ASSUME GateInv, JudgedByItsKind, [Next]_vars PROVE JudgedByItsKind'
    <2>0. gate \in GateState
      BY <1>2 DEF GateInv, TypeOK, GateState
    <2>1. CASE UNCHANGED vars
      BY <1>2, <2>1 DEF vars, JudgedByItsKind
    <2>2. CASE Exit \/ Restart \/ Probe
      BY <1>2, <2>2 DEF Exit, Restart, Probe, JudgedByItsKind
    <2>3. CASE Inspect
      <3>1. ~(gate.elapsed > Timeout /\ gate.elapsed < Settle)
        BY <2>0, LateIsNat, OptionsAssumption DEF GateState, SettlesInTime
      <3>2. state.health # "none" => declared
        BY <1>2 DEF GateInv, HealthInv
      <3>3. QED
        BY <1>2, <2>3, <3>1, <3>2, InspectUpdates DEF JudgedByItsKind
    <2>4. CASE Wait
      <3>1. gate'.method = gate.method /\ gate'.verdict = gate.verdict /\ UNCHANGED declared
        BY <2>0, <2>4 DEF Wait, GateState
      <3>2. QED
        BY <1>2, <3>1 DEF JudgedByItsKind
    <2>5. CASE Cancel
      <3>1. "failed" \in Verdict /\ "cancelled" \in Method
        BY DEF Verdict, Method
      <3>2. QED
        BY <1>2, <2>5, <3>1, DecideUpdates DEF Cancel, JudgedByItsKind
    <2>6. QED
      BY <1>2, <2>1, <2>2, <2>3, <2>4, <2>5 DEF Next
  <1>3. QED
    BY <1>1, <1>2, GateInvInit, GateInvStep, PTL DEF Spec

\* A crash loop never passes for a container that stays up (health.go:136-151),
\* wherever its restarts fall between the inspections.
THEOREM CrashLoopsAreSeen == Spec => NoCrashLoopPasses
  <1>1. ASSUME GateInv, [Next]_vars
        PROVE  [gate.verdict = "none" /\ gate'.verdict = "passed" /\ gate'.method = "runtime"
                  => ~looped /\ state.running /\ gate.elapsed >= Settle]_vars
    <2>0. gate \in GateState
      BY <1>1 DEF GateInv, TypeOK, GateState
    <2>1. SUFFICES ASSUME Next, gate.verdict = "none", gate'.verdict = "passed",
                          gate'.method = "runtime"
                   PROVE  ~looped /\ state.running /\ gate.elapsed >= Settle
      BY <1>1 DEF vars
    <2>2. CASE Inspect
      BY <1>1, <2>1, <2>2, InspectUpdates
    <2>3. ~Exit /\ ~Restart /\ ~Probe
      BY <2>1 DEF Exit, Restart, Probe
    <2>4. ~Wait
      BY <2>0, <2>1 DEF Wait, GateState
    <2>5. ~Cancel
      <3>1. "failed" \in Verdict /\ "cancelled" \in Method
        BY DEF Verdict, Method
      <3>2. QED
        BY <1>1, <2>1, <3>1, DecideUpdates DEF Cancel
    <2>6. QED
      BY <2>1, <2>2, <2>3, <2>4, <2>5 DEF Next
  <1>2. QED
    BY <1>1, GateInvInit, GateInvStep, PTL DEF Spec, NoCrashLoopPasses
=============================================================================
