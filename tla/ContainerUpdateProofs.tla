----------------------- MODULE ContainerUpdateProofs -----------------------
(***************************************************************************)
(* Theorems about ContainerUpdate, for any number of runs, containers and  *)
(* failures and under every policy.                                        *)
(*                                                                         *)
(* First the types, and that some container is always there.  Then what    *)
(* each action does, one lemma each, and on top of that the invariants in  *)
(* layers, each of which uses the ones before it: who carries the name;    *)
(* which kinds of run get where; what is still being stopped; the data and *)
(* the image a Restore puts back; what a report means; versions; what an   *)
(* orderly sequence of runs keeps; what one mishap leaves.  The theorems   *)
(* are at the end.                                                         *)
(***************************************************************************)
EXTENDS ContainerUpdate, TLAPS

PC == {"idle", "pull", "hook", "stop", "save", "restart", "compose", "park", "create",
       "unpark", "remove", "start", "health", "undo", "leave", "plan", "halt", "data"}
Outcome == {"none", "failed", "updated", "nochange", "rolledback"}

\* From its selection until it is parked a run has a container to work on, and
\* from its creation until the health gate it has a replacement.
Chosen == run.pc \in {"pull", "hook", "stop", "save", "restart", "compose", "unpark", "halt"}
            => run.old \in Box
Replaced == run.pc \in {"remove", "start", "health"} => run.new \in Box

\* What is removed is not the replacement, and the replacement is there.
Parked == run.pc = "create" /\ run.old # 0 => box[run.old].name # "none"
Standby == run.pc = "remove" => run.new # run.old /\ box[run.new].name # "none"

SomeName == \E b \in Box : box[b].name # "none"

PlaceInv == Chosen /\ Replaced /\ Parked /\ Standby
IInv == TypeOK /\ PlaceInv /\ SomeName

NamesKept == \A b \in Box : box'[b].name = box[b].name

-----------------------------------------------------------------------------

\* However a call ends, the trouble counted stays within its bound.
LEMMA TroubleTyped ==
  ASSUME TypeOK, GoesWell \/ GoesWrong \/ GoesVeryWrong \/ CallWorks \/ CallFails
  PROVE  trouble' \in 0 .. Trouble
  BY BoundsAssumption DEF TypeOK, GoesWell, GoesWrong, GoesVeryWrong, CallWorks, CallFails

LEMMA GoTyped ==
  ASSUME run \in RunState, NEW pc \in PC, Go(pc)
  PROVE  run' \in RunState /\ run'.pc = pc /\ run'.old = run.old /\ run'.new = run.new
  BY DEF RunState, Go, PC

LEMMA FinishTyped ==
  ASSUME run \in RunState, NEW outcome \in Outcome, Finish(outcome)
  PROVE  run' \in RunState /\ run'.pc = "idle"
  BY DEF RunState, Finish, Outcome

LEMMA FailedTyped ==
  ASSUME run \in RunState, Failed
  PROVE  run' \in RunState /\ run'.pc \in {"idle", "undo"}
  <1>1. CASE run.restoring
    <2>1. PICK u \in BOOLEAN :
            run' = [run EXCEPT !.pc = "idle", !.outcome = "failed", !.rollbackErr = TRUE,
                               !.orderly = u]
      <3>1. run' = [run EXCEPT !.pc = "idle", !.outcome = "failed", !.rollbackErr = TRUE,
                               !.orderly = run.orderly /\ ~BrokenOff]
        BY <1>1 DEF Failed
      <3>2. (run.orderly /\ ~BrokenOff) \in BOOLEAN
        OBVIOUS
      <3>3. QED
        BY <3>1, <3>2, Zenon
    <2>2. QED
      BY <2>1 DEF RunState
  <1>2. CASE ~run.restoring
    BY <1>2 DEF RunState, Failed
  <1>3. QED
    BY <1>1, <1>2

\* Where nothing is assumed of a place, nothing has to be shown of it.
LEMMA QuietPlaces ==
  ASSUME run'.pc \in {"idle", "park", "undo", "leave", "plan", "data"}
  PROVE  PlaceInv'
  BY DEF PlaceInv, Chosen, Replaced, Parked, Standby

LEMMA NamesStay ==
  ASSUME IInv, NamesKept PROVE SomeName'
  BY DEF IInv, NamesKept, SomeName

LEMMA StartsTyped ==
  ASSUME TypeOK, NEW b \in Box, Starts(b) \/ StartRefused(b)
  PROVE  box' \in [Box -> BoxState] /\ volume' \in Version /\ NamesKept
  <1>1. box \in [Box -> BoxState] /\ volume \in Version /\ box[b].image \in Version
    BY DEF TypeOK, BoxState
  <1>2. CASE UNCHANGED <<box, volume>>
    BY <1>1, <1>2 DEF NamesKept
  <1>3. CASE box' = [box EXCEPT ![b].up = TRUE]
             /\ volume' = Migrated(volume, box[b].image)
    <2>1. [box[b] EXCEPT !.up = TRUE] \in BoxState
          /\ [box[b] EXCEPT !.up = TRUE].name = box[b].name
      BY <1>1 DEF BoxState
    <2>2. box' = [box EXCEPT ![b] = [box[b] EXCEPT !.up = TRUE]]
      BY <1>3
    <2>3. QED
      BY <1>1, <1>3, <2>1, <2>2 DEF NamesKept, Migrated
  <1>4. QED
    BY <1>2, <1>3 DEF Starts, StartRefused

LEMMA StartAgainTyped ==
  ASSUME TypeOK, NEW b \in Box, StartAgain(b)
  PROVE  box' \in [Box -> BoxState] /\ volume' \in Version /\ NamesKept
         /\ trouble' \in 0 .. Trouble
  <1>1. trouble' \in 0 .. Trouble
    BY TroubleTyped DEF StartAgain, StartRefused
  <1>2. CASE UNCHANGED <<box, volume>>
    BY <1>1, <1>2 DEF TypeOK, NamesKept
  <1>3. CASE Starts(b) \/ StartRefused(b)
    BY <1>1, <1>3, StartsTyped
  <1>4. QED
    BY <1>2, <1>3 DEF StartAgain

\* A container that goes down keeps its name.
LEMMA DownTyped ==
  ASSUME TypeOK, NEW b \in Box, box' = [box EXCEPT ![b].up = FALSE]
  PROVE  box' \in [Box -> BoxState] /\ NamesKept
  <1>1. box[b] \in BoxState /\ [box[b] EXCEPT !.up = FALSE] \in BoxState
        /\ [box[b] EXCEPT !.up = FALSE].name = box[b].name
    BY DEF TypeOK, BoxState
  <1>2. QED
    BY <1>1 DEF TypeOK, NamesKept

LEMMA StopTyped ==
  ASSUME TypeOK, run.old \in Box, NEW pc \in PC, StopWorks(pc)
  PROVE  /\ box' \in [Box -> BoxState] /\ NamesKept /\ stopping' \subseteq Box
         /\ run' \in RunState /\ run'.pc = pc /\ run'.old = run.old
         /\ trouble' \in 0 .. Trouble
  <1>1. box' \in [Box -> BoxState] /\ NamesKept
    BY DownTyped DEF StopWorks
  <1>2. trouble' \in 0 .. Trouble
    BY TroubleTyped DEF StopWorks
  <1>3. run' \in RunState /\ run'.pc = pc /\ run'.old = run.old
    BY DEF StopWorks, TypeOK, RunState, PC
  <1>4. QED
    BY <1>1, <1>2, <1>3 DEF StopWorks, TypeOK

LEMMA StopFailsTyped ==
  ASSUME TypeOK, run.old \in Box, StopFails \/ StopHalfFails
  PROVE  UNCHANGED box /\ stopping' \subseteq Box /\ trouble' \in 0 .. Trouble
  <1>1. trouble' \in 0 .. Trouble
    BY TroubleTyped DEF StopFails, StopHalfFails
  <1>2. QED
    BY <1>1 DEF StopFails, StopHalfFails, TypeOK

LEMMA TakeFailsTyped ==
  ASSUME TypeOK, run.old \in Box, TakeFails
  PROVE  run' \in RunState /\ run'.pc \in {"idle", "restart"} /\ (run'.pc = "restart" => run'.old \in Box)
  <1>1. CASE Go("restart")
    BY <1>1, GoTyped DEF TypeOK, PC
  <1>2. CASE Finish("failed")
    BY <1>2, FinishTyped DEF TypeOK, Outcome
  <1>3. QED
    BY <1>1, <1>2 DEF TakeFails

LEMMA IInvInit == Init => IInv
  <1>1. SUFFICES ASSUME Init PROVE IInv
    OBVIOUS
  <1>2. 1 \in Box /\ 0 \in Version
    BY BoundsAssumption DEF Box, Version
  <1>3. PICK up \in BOOLEAN : box = [b \in Box |-> IF b = 1 THEN App(0, up) ELSE Gone]
    BY <1>1 DEF Init
  <1>4. box \in [Box -> BoxState] /\ box[1].name # "none"
    BY <1>2, <1>3 DEF App, Gone, BoxState
  <1>5. run \in RunState /\ run.pc = "idle"
    BY <1>1, <1>2, BoundsAssumption DEF Init, Idle, RunState, Policy, Version
  <1>6. trouble \in 0 .. Trouble
    BY <1>1, BoundsAssumption DEF Init
  <1>7. TypeOK
    BY <1>1, <1>2, <1>4, <1>5, <1>6 DEF Init, TypeOK, NoSnap, Snap
  <1>8. QED
    BY <1>2, <1>4, <1>5, <1>7 DEF IInv, PlaceInv, Chosen, Replaced, Parked, Standby, SomeName

-----------------------------------------------------------------------------
(* The steps, in the order of Next *)

LEMMA BeginningKeeps ==
  ASSUME IInv, Select \/ Pull \/ PreHooks PROVE IInv'
  <1>0. TypeOK /\ PlaceInv /\ SomeName
    BY DEF IInv
  <1>1. UNCHANGED <<box, stopping, volume, snaps>> /\ SomeName' /\ NamesKept
    BY <1>0 DEF Select, Pull, PreHooks, SomeName, NamesKept
  <1>2. CASE Select
    <2>0. run.orderly \in BOOLEAN
      BY <1>0 DEF TypeOK, RunState
    <2>1. PICK b \in Named, p \in Policies, kind \in {"update", "backup"}, u \in BOOLEAN :
            run' = [Idle EXCEPT !.kind = kind, !.n = run.n + 1, !.policy = p, !.old = b,
                      !.ran = box[b].up, !.orderly = u,
                      !.pc = IF kind = "update" THEN "pull" ELSE "stop"]
      <3>1. PICK b \in Named, p \in Policies, kind \in {"update", "backup"} :
              run' = [Idle EXCEPT !.kind = kind, !.n = run.n + 1, !.policy = p, !.old = b,
                        !.ran = box[b].up, !.orderly = run.orderly /\ p.snapshot /\ ~p.hot,
                        !.pc = IF kind = "update" THEN "pull" ELSE "stop"]
        BY <1>2, Zenon DEF Select
      <3>2. (run.orderly /\ p.snapshot /\ ~p.hot) \in BOOLEAN
        OBVIOUS
      <3>3. QED
        BY <3>1, <3>2, Zenon
    <2>2. /\ b \in Box /\ p \in Policy /\ box[b].up \in BOOLEAN
          /\ b \in 0 .. MaxBoxes /\ run.n + 1 \in Version /\ 0 \in Version /\ 0 \in 0 .. MaxBoxes
      <3>1. b \in Box /\ p \in Policy
        BY PolicyAssumption DEF Named
      <3>2. box[b].up \in BOOLEAN
        BY <1>0, <3>1 DEF TypeOK, BoxState
      <3>3. run.n \in Version /\ run.n < MaxRuns
        BY <1>0, <1>2 DEF Select, TypeOK, RunState
      <3>4. QED
        BY <3>1, <3>2, <3>3, BoundsAssumption DEF Box, Version
    <2>3. run' \in RunState /\ run'.pc \in {"pull", "stop"} /\ run'.old = b
      <3> DEFINE pc == IF kind = "update" THEN "pull" ELSE "stop"
      <3>1. run' = [pc |-> pc, kind |-> kind, n |-> run.n + 1, policy |-> p, old |-> b, new |-> 0,
                    ran |-> box[b].up, halted |-> FALSE, snap |-> 0, restoring |-> FALSE,
                    cancelled |-> FALSE, outcome |-> "none", rollbackErr |-> FALSE,
                    orderly |-> u]
        BY <2>1 DEF Idle
      <3>2. pc \in {"pull", "stop"}
        OBVIOUS
      <3>3. QED
        <4> HIDE DEF pc
        <4>1. QED
          BY <2>2, <3>1, <3>2 DEF RunState
    <2>4. PlaceInv'
      BY <2>2, <2>3 DEF PlaceInv, Chosen, Replaced, Parked, Standby, Box
    <2>5. QED
      BY <1>0, <1>1, <1>2, <2>3, <2>4 DEF IInv, TypeOK, Select
  <1>3. CASE Pull
    <2>1. trouble' \in 0 .. Trouble
      BY <1>0, <1>3, TroubleTyped DEF Pull
    <2>2. quality' \in [Version -> {"good", "sick", "dead"}]
      BY <1>0, <1>3 DEF Pull, TypeOK
    <2>3. CASE Go("hook")
      <3>1. run' \in RunState /\ run'.pc = "hook" /\ run'.old = run.old /\ run.old \in Box
        BY <1>0, <1>3, <2>3, GoTyped DEF TypeOK, PC, Pull, At, PlaceInv, Chosen
      <3>2. PlaceInv'
        BY <3>1 DEF PlaceInv, Chosen, Replaced, Parked, Standby, Box
      <3>3. QED
        BY <1>0, <1>1, <2>1, <2>2, <3>1, <3>2 DEF IInv, TypeOK
    <2>4. CASE Finish("failed")
      <3>1. run' \in RunState /\ run'.pc = "idle"
        BY <1>0, <2>4, FinishTyped DEF TypeOK, Outcome
      <3>2. QED
        BY <1>0, <1>1, <2>1, <2>2, <3>1, QuietPlaces DEF IInv, TypeOK
    <2>5. QED
      BY <1>3, <2>3, <2>4 DEF Pull
  <1>4. CASE PreHooks
    <2>1. trouble' \in 0 .. Trouble
      BY <1>0, <1>4, TroubleTyped DEF PreHooks
    <2>2. ASSUME NEW pc \in {"stop", "compose", "park"}, Go(pc) PROVE IInv'
      <3>1. run' \in RunState /\ run'.pc = pc /\ run'.old = run.old /\ run.old \in Box
        BY <1>0, <1>4, <2>2, GoTyped DEF TypeOK, PC, PreHooks, At, PlaceInv, Chosen
      <3>2. PlaceInv'
        BY <2>2, <3>1 DEF PlaceInv, Chosen, Replaced, Parked, Standby, Box
      <3>3. QED
        BY <1>0, <1>1, <1>4, <2>1, <3>1, <3>2 DEF IInv, TypeOK, PreHooks
    <2>3. CASE Finish("failed")
      <3>1. run' \in RunState /\ run'.pc = "idle"
        BY <1>0, <2>3, FinishTyped DEF TypeOK, Outcome
      <3>2. QED
        BY <1>0, <1>1, <1>4, <2>1, <3>1, QuietPlaces DEF IInv, TypeOK, PreHooks
    <2>4. Go(IF run.policy.snapshot THEN "stop" ELSE Apply) \/ Finish("failed")
      BY <1>4 DEF PreHooks
    <2>5. QED
      BY <2>2, <2>3, <2>4 DEF Apply
  <1>5. QED
    BY <1>2, <1>3, <1>4

LEMMA TakeKeeps ==
  ASSUME IInv, TakeStop \/ TakeSave \/ Restart \/ EngineStops PROVE IInv'
  <1>0. TypeOK /\ PlaceInv /\ SomeName
    BY DEF IInv
  <1>1. CASE TakeStop
    <2>0. run.old \in Box /\ UNCHANGED <<volume, quality, snaps>>
      BY <1>0, <1>1 DEF TakeStop, At, PlaceInv, Chosen
    <2>1. CASE StopWorks("save")
      <3>1. /\ box' \in [Box -> BoxState] /\ NamesKept /\ stopping' \subseteq Box
            /\ run' \in RunState /\ run'.pc = "save" /\ run'.old = run.old
            /\ trouble' \in 0 .. Trouble
        BY <1>0, <2>0, <2>1, StopTyped DEF PC
      <3>2. PlaceInv'
        BY <2>0, <3>1 DEF PlaceInv, Chosen, Replaced, Parked, Standby, Box
      <3>3. QED
        BY <1>0, <2>0, <3>1, <3>2, NamesStay DEF IInv, TypeOK
    <2>2. CASE (StopFails \/ StopHalfFails) /\ TakeFails
      <3>1. UNCHANGED box /\ stopping' \subseteq Box /\ trouble' \in 0 .. Trouble
        BY <1>0, <2>0, <2>2, StopFailsTyped
      <3>2. run' \in RunState /\ run'.pc \in {"idle", "restart"}
            /\ (run'.pc = "restart" => run'.old \in Box)
        BY <1>0, <2>0, <2>2, TakeFailsTyped
      <3>3. PlaceInv'
        BY <3>2 DEF PlaceInv, Chosen, Replaced, Parked, Standby, Box
      <3>4. QED
        BY <1>0, <2>0, <3>1, <3>2, <3>3 DEF IInv, TypeOK, SomeName
    <2>3. CASE CallWorks /\ Go("save") /\ UNCHANGED <<box, stopping>>
      <3>1. run' \in RunState /\ run'.pc = "save" /\ run'.old = run.old
        BY <1>0, <2>3, GoTyped DEF TypeOK, PC
      <3>2. trouble' \in 0 .. Trouble
        BY <1>0, <2>3, TroubleTyped
      <3>3. PlaceInv'
        BY <2>0, <3>1 DEF PlaceInv, Chosen, Replaced, Parked, Standby, Box
      <3>4. QED
        BY <1>0, <2>0, <2>3, <3>1, <3>2, <3>3 DEF IInv, TypeOK, SomeName
    <2>4. QED
      BY <1>1, <2>1, <2>2, <2>3 DEF TakeStop
  <1>2. CASE TakeSave
    <2>0. run.old \in Box /\ UNCHANGED <<box, stopping, volume, quality>>
          /\ trouble' \in 0 .. Trouble
      BY <1>0, <1>2, TroubleTyped DEF TakeSave, At, PlaceInv, Chosen
    <2>1. CASE TakeFails /\ UNCHANGED snaps
      <3>1. run' \in RunState /\ run'.pc \in {"idle", "restart"}
            /\ (run'.pc = "restart" => run'.old \in Box)
        BY <1>0, <2>0, <2>1, TakeFailsTyped
      <3>2. PlaceInv'
        BY <3>1 DEF PlaceInv, Chosen, Replaced, Parked, Standby, Box
      <3>3. QED
        BY <1>0, <2>0, <2>1, <3>1, <3>2 DEF IInv, TypeOK, SomeName
    <2>2. ASSUME ~(TakeFails /\ UNCHANGED snaps) PROVE IInv'
      <3> DEFINE shot == [taken |-> TRUE, image |-> box[run.old].image, volume |-> volume,
                          ran |-> run.halted \/ box[run.old].up]
                 next == CASE run.kind = "update" -> Apply
                           [] run.kind = "backup" /\ run.halted -> "restart"
                           [] OTHER -> "idle"
      <3>1. snaps' = [snaps EXCEPT ![run.n] = shot]
            /\ run' = [run EXCEPT !.snap = run.n, !.pc = next]
        BY <1>2, <2>2 DEF TakeSave
      <3>2. shot \in Snap
        BY <1>0, <2>0 DEF TypeOK, BoxState, RunState, Snap
      <3>3. next \in {"compose", "park", "restart", "idle"}
        BY <1>0 DEF Apply, TypeOK, RunState
      <3>4. snaps' \in [Version -> Snap]
        BY <1>0, <3>1, <3>2 DEF TypeOK
      <3>5. run' \in RunState /\ run'.pc = next /\ run'.old = run.old
        <4> HIDE DEF next, shot
        <4>1. QED
          BY <1>0, <3>1, <3>3 DEF TypeOK, RunState
      <3>6. PlaceInv'
        BY <2>0, <3>3, <3>5 DEF PlaceInv, Chosen, Replaced, Parked, Standby, Box
      <3>7. QED
        BY <1>0, <2>0, <3>4, <3>5, <3>6 DEF IInv, TypeOK, SomeName
    <2>3. QED
      BY <2>1, <2>2
  <1>3. CASE Restart
    <2>1. run.old \in Box
      BY <1>0, <1>3 DEF Restart, At, PlaceInv, Chosen
    <2>2. box' \in [Box -> BoxState] /\ volume' \in Version /\ NamesKept /\ trouble' \in 0 .. Trouble
      BY <1>0, <1>3, <2>1, StartAgainTyped DEF Restart
    <2>3. run' \in RunState /\ run'.pc = "idle"
      BY <1>0, <1>3, FinishTyped DEF Restart, TypeOK, Outcome
    <2>4. QED
      BY <1>0, <1>3, <2>2, <2>3, QuietPlaces, NamesStay DEF IInv, TypeOK, Restart
  <1>4. CASE EngineStops
    <2>1. PICK b \in stopping : stopping' = stopping \ {b} /\ box' = [box EXCEPT ![b].up = FALSE]
      BY <1>4 DEF EngineStops
    <2>2. b \in Box /\ box' \in [Box -> BoxState] /\ NamesKept
      BY <1>0, <2>1, DownTyped DEF TypeOK
    <2>3. UNCHANGED <<volume, quality, snaps, run, trouble>>
      BY <1>4 DEF EngineStops
    <2>4. Parked'
      <3>1. SUFFICES ASSUME run.pc = "create", run.old # 0 PROVE box'[run.old].name # "none"
        BY <2>3 DEF Parked
      <3>2. run.old \in Box
        BY <1>0, <3>1, BoundsAssumption DEF TypeOK, RunState, Box
      <3>3. QED
        BY <1>0, <2>2, <3>1, <3>2 DEF PlaceInv, Parked, NamesKept
    <2>5. PlaceInv'
      BY <1>0, <2>2, <2>3, <2>4 DEF PlaceInv, Chosen, Replaced, Standby, NamesKept
    <2>6. QED
      BY <1>0, <2>1, <2>2, <2>3, <2>5, NamesStay DEF IInv, TypeOK
  <1>5. QED
    BY <1>1, <1>2, <1>3, <1>4

LEMMA ReplaceKeeps ==
  ASSUME IInv, Park \/ Create \/ Unpark \/ Remove PROVE IInv'
  <1>0. /\ TypeOK /\ PlaceInv /\ SomeName
        /\ run \in RunState /\ box \in [Box -> BoxState] /\ run.old \in 0 .. MaxBoxes
        /\ (run.old # 0 => run.old \in Box)
    BY BoundsAssumption DEF IInv, TypeOK, RunState, Box
  <1>1. UNCHANGED <<volume, quality, snaps>> /\ trouble' \in 0 .. Trouble
    BY <1>0, TroubleTyped DEF Park, Create, Unpark, Remove
  <1>2. CASE Park
    <2>0. UNCHANGED stopping
      BY <1>2 DEF Park
    <2>1. CASE Failed /\ UNCHANGED box
      <3>1. run' \in RunState /\ run'.pc \in {"idle", "undo"}
        BY <1>0, <2>1, FailedTyped
      <3>2. QED
        BY <1>0, <1>1, <2>0, <2>1, <3>1, QuietPlaces DEF IInv, TypeOK, SomeName
    <2>2. CASE run.old = 0 /\ Go("create") /\ UNCHANGED box
      <3>1. run' \in RunState /\ run'.pc = "create" /\ run'.old = 0
        BY <1>0, <2>2, GoTyped DEF PC
      <3>2. PlaceInv'
        BY <3>1 DEF PlaceInv, Chosen, Replaced, Parked, Standby
      <3>3. QED
        BY <1>0, <1>1, <2>0, <2>2, <3>1, <3>2 DEF IInv, TypeOK, SomeName
    <2>3. CASE /\ run.old # 0 /\ Go("create")
               /\ box' = [box EXCEPT ![run.old].name = "aside", ![run.old].tag = run.snap]
      <3> DEFINE aside == [box[run.old] EXCEPT !.name = "aside", !.tag = run.snap]
      <3>1. run' \in RunState /\ run'.pc = "create" /\ run'.old = run.old
        BY <1>0, <2>3, GoTyped DEF PC
      <3>2. aside \in BoxState /\ aside.name = "aside" /\ run.old \in Box
        <4>1. run.old \in Box /\ box[run.old] \in BoxState /\ run.snap \in Version
          BY <1>0, <2>3 DEF RunState
        <4>2. QED
          BY <4>1 DEF BoxState
      <3>3. box' = [box EXCEPT ![run.old] = aside]
        BY <1>0, <2>3, <3>2
      <3>4. box' \in [Box -> BoxState] /\ box'[run.old].name = "aside"
        <4> HIDE DEF aside
        <4>1. QED
          BY <1>0, <3>2, <3>3
      <3>5. PlaceInv' /\ SomeName'
        BY <3>1, <3>2, <3>4 DEF PlaceInv, Chosen, Replaced, Parked, Standby, SomeName
      <3>6. QED
        BY <1>0, <1>1, <2>0, <3>1, <3>4, <3>5 DEF IInv, TypeOK
    <2>4. QED
      BY <1>2, <2>1, <2>2, <2>3 DEF Park
  <1>3. CASE Create
    <2>0. UNCHANGED stopping
      BY <1>3 DEF Create
    <2>1. CASE Failed /\ UNCHANGED box
      <3>1. run' \in RunState /\ run'.pc \in {"idle", "undo"}
        BY <1>0, <2>1, FailedTyped
      <3>2. QED
        BY <1>0, <1>1, <2>0, <2>1, <3>1, QuietPlaces DEF IInv, TypeOK, SomeName
    <2>2. CASE run.old # 0 /\ Go("unpark") /\ UNCHANGED box
      <3>1. run' \in RunState /\ run'.pc = "unpark" /\ run'.old = run.old
        BY <1>0, <2>2, GoTyped DEF PC
      <3>2. PlaceInv'
        BY <1>0, <2>2, <3>1 DEF PlaceInv, Chosen, Replaced, Parked, Standby
      <3>3. QED
        BY <1>0, <1>1, <2>0, <2>2, <3>1, <3>2 DEF IInv, TypeOK, SomeName
    <2>3. ASSUME NEW b \in Box, Fresh(b),
                 box' = [box EXCEPT ![b] = App(NewImage, FALSE)],
                 run' = [run EXCEPT !.new = b, !.pc = IF run.old = 0 THEN "start" ELSE "remove"]
          PROVE  IInv'
      <3>1. NewImage \in Version
        BY <1>0 DEF NewImage, TypeOK, RunState, Snap
      <3>2. App(NewImage, FALSE) \in BoxState /\ App(NewImage, FALSE).name = "app"
        BY <3>1, BoundsAssumption DEF App, BoxState, Version
      <3>3. box' \in [Box -> BoxState] /\ box'[b].name = "app"
        BY <1>0, <2>3, <3>2
      <3>4. /\ run' \in RunState /\ run'.new = b /\ run'.old = run.old
            /\ run'.pc = IF run.old = 0 THEN "start" ELSE "remove"
        <4>1. b \in 0 .. MaxBoxes
          BY DEF Box
        <4>2. QED
          BY <1>0, <2>3, <4>1 DEF RunState
      <3>5. run.old # 0 => run.old # b
        <4>1. run.pc = "create"
          BY <1>3 DEF Create, At
        <4>2. box[b].name = "none"
          BY <2>3 DEF Fresh, Gone
        <4>3. QED
          BY <1>0, <4>1, <4>2 DEF PlaceInv, Parked
      <3>6. PlaceInv' /\ SomeName'
        BY <3>3, <3>4, <3>5 DEF PlaceInv, Chosen, Replaced, Parked, Standby, SomeName
      <3>7. QED
        BY <1>0, <1>1, <2>0, <3>3, <3>4, <3>6 DEF IInv, TypeOK
    <2>4. QED
      BY <1>3, <2>1, <2>2, <2>3 DEF Create
  <1>4. CASE Unpark
    <2>1. run' \in RunState /\ run'.pc \in {"idle", "undo"} /\ UNCHANGED stopping
      BY <1>0, <1>4, FailedTyped DEF Unpark
    <2>2. run.old \in Box
      BY <1>0, <1>4 DEF Unpark, At, PlaceInv, Chosen
    <2>3. box' \in [Box -> BoxState] /\ SomeName'
      <3>1. CASE UNCHANGED box
        BY <1>0, <3>1 DEF SomeName
      <3>2. CASE box' = [box EXCEPT ![run.old].name = "app", ![run.old].tag = 0]
        <4> DEFINE back == [box[run.old] EXCEPT !.name = "app", !.tag = 0]
        <4>1. back \in BoxState /\ back.name = "app"
          <5>1. box[run.old] \in BoxState /\ 0 \in Version
            BY <1>0, <2>2, BoundsAssumption DEF Version
          <5>2. QED
            BY <5>1 DEF BoxState
        <4>2. box' = [box EXCEPT ![run.old] = back]
          BY <1>0, <2>2, <3>2
        <4> HIDE DEF back
        <4>3. QED
          BY <1>0, <2>2, <4>1, <4>2 DEF SomeName
      <3>3. QED
        BY <1>4, <3>1, <3>2 DEF Unpark
    <2>4. QED
      BY <1>0, <1>1, <2>1, <2>3, QuietPlaces DEF IInv, TypeOK
  <1>5. CASE Remove
    <2>1. run' \in RunState /\ run'.pc = "start" /\ run'.new = run.new
      BY <1>0, <1>5, GoTyped DEF Remove, PC
    <2>2. run.new \in Box /\ run.new # run.old /\ box[run.new].name # "none"
      BY <1>0, <1>5 DEF Remove, At, PlaceInv, Replaced, Standby
    <2>3. Gone \in BoxState
      BY BoundsAssumption DEF Gone, BoxState, Version
    <2>4. box' \in [Box -> BoxState] /\ box'[run.new] = box[run.new] /\ stopping' \subseteq Box
      BY <1>0, <1>5, <2>2, <2>3 DEF Remove, TypeOK
    <2>5. PlaceInv' /\ SomeName'
      BY <2>1, <2>2, <2>4 DEF PlaceInv, Chosen, Replaced, Parked, Standby, SomeName
    <2>6. QED
      BY <1>0, <1>1, <2>1, <2>4, <2>5 DEF IInv, TypeOK
  <1>6. QED
    BY <1>2, <1>3, <1>4, <1>5

LEMMA ComposeKeeps ==
  ASSUME IInv, Compose PROVE IInv'
  <1>0. /\ TypeOK /\ PlaceInv /\ SomeName /\ run \in RunState /\ box \in [Box -> BoxState]
        /\ run.old \in Box /\ volume \in Version /\ run.n \in Version
    BY DEF IInv, TypeOK, RunState, Compose, At, PlaceInv, Chosen
  <1>1. UNCHANGED <<quality, snaps>> /\ trouble' \in 0 .. Trouble /\ stopping' \subseteq Box
    <2>1. trouble' \in 0 .. Trouble
      BY <1>0, TroubleTyped DEF Compose, StartRefused
    <2>2. QED
      BY <1>0, <2>1 DEF Compose, TypeOK
  <1>2. PICK b \in Box :
          LET replaced(name, up) ==
                [box EXCEPT ![run.old] = Gone,
                            ![b] = [name |-> name, tag |-> 0, image |-> run.n, up |-> up]] IN
          \/ /\ CallWorks /\ quality[run.n] # "dead"
             /\ box' = replaced("app", TRUE)
             /\ volume' = Migrated(volume, run.n)
             /\ run' = [run EXCEPT !.new = b, !.pc = "health"]
          \/ /\ CallWorks /\ Starts(run.old)
             /\ run' = [run EXCEPT !.new = run.old, !.pc = "health"]
          \/ /\ CallWorks /\ quality[run.n] = "dead" /\ Failed
             /\ box' = replaced("app", FALSE) /\ UNCHANGED volume
          \/ /\ CallFails /\ Failed /\ UNCHANGED volume
             /\ box' \in {box} \cup (IF run.cancelled THEN {}
                                     ELSE {replaced("app", FALSE), replaced("other", FALSE)})
    BY Zenon DEF Compose
  <1> DEFINE replaced(name, up) ==
        [box EXCEPT ![run.old] = Gone,
                    ![b] = [name |-> name, tag |-> 0, image |-> run.n, up |-> up]]
  <1>3. ASSUME NEW name \in {"app", "other"}, NEW up \in BOOLEAN, box' = replaced(name, up)
        PROVE  box' \in [Box -> BoxState] /\ SomeName'
    <2>1. Gone \in BoxState /\ 0 \in Version
      BY BoundsAssumption DEF Gone, BoxState, Version
    <2>2. [name |-> name, tag |-> 0, image |-> run.n, up |-> up] \in BoxState
      BY <1>0, <1>3, <2>1 DEF BoxState
    <2>3. box' \in [Box -> BoxState] /\ box'[b].name = name
      BY <1>0, <1>3, <2>1, <2>2
    <2>4. QED
      BY <2>3 DEF SomeName
  <1>4. ASSUME NEW c \in Box, run' = [run EXCEPT !.new = c, !.pc = "health"]
        PROVE  run' \in RunState /\ PlaceInv'
    <2>1. c \in 0 .. MaxBoxes
      BY DEF Box
    <2>2. run' \in RunState /\ run'.new = c /\ run'.pc = "health"
      BY <1>0, <1>4, <2>1 DEF RunState
    <2>3. QED
      BY <2>2 DEF PlaceInv, Chosen, Replaced, Parked, Standby
  <1>5. CASE Failed /\ UNCHANGED volume
             /\ (box' = box \/ \E name \in {"app", "other"} : box' = replaced(name, FALSE))
    <2>1. run' \in RunState /\ PlaceInv'
      BY <1>0, <1>5, FailedTyped, QuietPlaces
    <2>2. box' \in [Box -> BoxState] /\ SomeName'
      <3>1. CASE box' = box
        BY <1>0, <3>1 DEF SomeName
      <3>2. QED
        BY <1>3, <1>5, <3>1
    <2>3. QED
      BY <1>0, <1>1, <1>5, <2>1, <2>2 DEF IInv, TypeOK
  <1>6. CASE Starts(run.old) /\ run' = [run EXCEPT !.new = run.old, !.pc = "health"]
    <2>1. box' \in [Box -> BoxState] /\ volume' \in Version /\ NamesKept
      BY <1>0, <1>6, StartsTyped
    <2>2. QED
      BY <1>0, <1>1, <1>4, <1>6, <2>1, NamesStay DEF IInv, TypeOK
  <1>7. CASE /\ box' = replaced("app", TRUE)
             /\ volume' = Migrated(volume, run.n)
             /\ run' = [run EXCEPT !.new = b, !.pc = "health"]
    BY <1>0, <1>1, <1>3, <1>4, <1>7 DEF IInv, TypeOK, Migrated
  <1>8. QED
    BY <1>2, <1>5, <1>6, <1>7

LEMMA GateKeeps ==
  ASSUME IInv, Start \/ Health \/ Undo \/ LeaveRunning PROVE IInv'
  <1>0. /\ TypeOK /\ PlaceInv /\ SomeName
        /\ run \in RunState /\ box \in [Box -> BoxState] /\ volume \in Version
    BY DEF IInv, TypeOK
  <1>1. UNCHANGED <<stopping, quality, snaps>>
    BY DEF Start, Health, Undo, LeaveRunning
  <1>2. CASE Start
    <2>1. run.new \in Box
      BY <1>0, <1>2 DEF Start, At, PlaceInv, Replaced
    <2>2. trouble' \in 0 .. Trouble
      BY <1>0, <1>2, TroubleTyped DEF Start, StartRefused
    <2>3. box' \in [Box -> BoxState] /\ volume' \in Version /\ NamesKept
      <3>1. CASE UNCHANGED <<box, volume>>
        BY <1>0, <3>1 DEF NamesKept
      <3>2. CASE Starts(run.new) \/ StartRefused(run.new)
        BY <1>0, <2>1, <3>2, StartsTyped
      <3>3. QED
        BY <1>2, <3>1, <3>2 DEF Start
    <2>4. run' \in RunState /\ PlaceInv'
      <3>1. CASE Failed
        BY <1>0, <3>1, FailedTyped, QuietPlaces
      <3>2. CASE Finish("rolledback")
        BY <1>0, <3>2, FinishTyped, QuietPlaces DEF Outcome
      <3>3. CASE Go("health")
        <4>1. run' \in RunState /\ run'.pc = "health" /\ run'.new = run.new
          BY <1>0, <3>3, GoTyped DEF PC
        <4>2. QED
          BY <2>1, <4>1 DEF PlaceInv, Chosen, Replaced, Parked, Standby
      <3>4. QED
        BY <1>2, <3>1, <3>2, <3>3 DEF Start
    <2>5. QED
      BY <1>0, <1>1, <2>2, <2>3, <2>4, NamesStay DEF IInv, TypeOK
  <1>3. CASE Health
    <2>1. UNCHANGED <<box, volume>> /\ trouble' \in 0 .. Trouble
      BY <1>0, <1>3, TroubleTyped DEF Health
    <2>2. run' \in RunState /\ PlaceInv'
      <3>1. CASE Failed
        BY <1>0, <3>1, FailedTyped, QuietPlaces
      <3>2. ASSUME NEW outcome \in {"nochange", "updated"}, Finish(outcome)
            PROVE  run' \in RunState /\ PlaceInv'
        BY <1>0, <3>2, FinishTyped, QuietPlaces DEF Outcome
      <3>3. Failed \/ Finish(IF run.new = run.old THEN "nochange" ELSE "updated")
        BY <1>3 DEF Health
      <3>4. QED
        BY <3>1, <3>2, <3>3
    <2>3. QED
      BY <1>0, <1>1, <2>1, <2>2 DEF IInv, TypeOK, SomeName
  <1>4. CASE Undo
    <2>1. UNCHANGED <<box, volume>> /\ trouble' \in 0 .. Trouble
      BY <1>0, <1>4, TroubleTyped DEF Undo
    <2>2. run' \in RunState /\ run'.pc \in {"leave", "plan"}
      <3>1. CASE Go("leave")
        BY <1>0, <3>1, GoTyped DEF PC
      <3>2. CASE run' = [run EXCEPT !.pc = "plan", !.restoring = TRUE]
        BY <1>0, <3>2 DEF RunState
      <3>3. QED
        BY <1>4, <3>1, <3>2 DEF Undo
    <2>3. QED
      BY <1>0, <1>1, <2>1, <2>2, QuietPlaces DEF IInv, TypeOK, SomeName
  <1>5. CASE LeaveRunning
    <2>1. run' \in RunState /\ run'.pc = "idle"
      BY <1>0, <1>5, FinishTyped DEF LeaveRunning, Outcome
    <2>2. /\ box' \in [Box -> BoxState] /\ volume' \in Version /\ NamesKept
          /\ trouble' \in 0 .. Trouble
      <3>1. CASE GoesWell /\ UNCHANGED <<box, volume>>
        BY <1>0, <3>1, TroubleTyped DEF NamesKept
      <3>2. CASE \E b \in Named : StartAgain(b)
        BY <1>0, <3>2, StartAgainTyped DEF Named
      <3>3. QED
        BY <1>5, <3>1, <3>2 DEF LeaveRunning
    <2>3. QED
      BY <1>0, <1>1, <2>1, <2>2, QuietPlaces, NamesStay DEF IInv, TypeOK
  <1>6. QED
    BY <1>2, <1>3, <1>4, <1>5

LEMMA RestoreKeeps ==
  ASSUME IInv, RollbackByHand \/ Plan \/ Halt \/ Data PROVE IInv'
  <1>0. /\ TypeOK /\ PlaceInv /\ SomeName
        /\ run \in RunState /\ box \in [Box -> BoxState] /\ volume \in Version
    BY DEF IInv, TypeOK
  <1>1. UNCHANGED <<quality, snaps>>
    BY DEF RollbackByHand, Plan, Halt, Data
  <1>2. CASE RollbackByHand
    <2>1. PICK n \in Version :
            run' = [Idle EXCEPT !.kind = "rollback", !.n = run.n, !.snap = n,
                                !.orderly = run.orderly, !.restoring = TRUE, !.pc = "plan"]
      BY <1>2, Zenon DEF RollbackByHand
    <2>2. run.n \in Version /\ 0 \in 0 .. MaxBoxes /\ run.orderly \in BOOLEAN
      BY <1>0, BoundsAssumption DEF RunState
    <2>3. run' \in RunState /\ run'.pc = "plan"
      BY <2>1, <2>2 DEF Idle, RunState, Policy
    <2>4. QED
      BY <1>0, <1>1, <1>2, <2>3, QuietPlaces DEF IInv, TypeOK, RollbackByHand, SomeName
  <1>3. CASE Plan
    <2>1. UNCHANGED <<box, stopping, volume>> /\ trouble' \in 0 .. Trouble
      BY <1>0, <1>3, TroubleTyped DEF Plan
    <2>2. run' \in RunState /\ PlaceInv'
      <3>1. CASE Failed
        BY <1>0, <3>1, FailedTyped, QuietPlaces
      <3>2. ASSUME NEW b \in Box, run' = [run EXCEPT !.old = b, !.pc = "halt"]
            PROVE  run' \in RunState /\ PlaceInv'
        <4>1. b \in 0 .. MaxBoxes
          BY DEF Box
        <4>2. run' \in RunState /\ run'.pc = "halt" /\ run'.old = b
          BY <1>0, <3>2, <4>1 DEF RunState
        <4>3. QED
          BY <4>2 DEF PlaceInv, Chosen, Replaced, Parked, Standby
      <3>3. CASE run' = [run EXCEPT !.old = 0, !.pc = "data"]
        <4>1. 0 \in 0 .. MaxBoxes
          BY BoundsAssumption
        <4>2. run' \in RunState /\ run'.pc = "data"
          BY <1>0, <3>3, <4>1 DEF RunState
        <4>3. QED
          BY <4>2, QuietPlaces
      <3>4. QED
        BY <1>3, <3>1, <3>2, <3>3 DEF Plan, Named
    <2>3. QED
      BY <1>0, <1>1, <2>1, <2>2 DEF IInv, TypeOK, SomeName
  <1>4. CASE Halt
    <2>1. run.old \in Box /\ UNCHANGED volume
      BY <1>0, <1>4 DEF Halt, At, PlaceInv, Chosen
    <2>2. CASE StopWorks("data")
      <3>1. /\ box' \in [Box -> BoxState] /\ NamesKept /\ stopping' \subseteq Box
            /\ run' \in RunState /\ run'.pc = "data" /\ trouble' \in 0 .. Trouble
        BY <1>0, <2>1, <2>2, StopTyped DEF PC
      <3>2. QED
        BY <1>0, <1>1, <2>1, <3>1, QuietPlaces, NamesStay DEF IInv, TypeOK
    <2>3. CASE (StopFails \/ StopHalfFails) /\ Failed
      <3>1. UNCHANGED box /\ stopping' \subseteq Box /\ trouble' \in 0 .. Trouble
        BY <1>0, <2>1, <2>3, StopFailsTyped
      <3>2. run' \in RunState /\ run'.pc \in {"idle", "undo"}
        BY <1>0, <2>3, FailedTyped
      <3>3. QED
        BY <1>0, <1>1, <2>1, <3>1, <3>2, QuietPlaces DEF IInv, TypeOK, SomeName
    <2>4. CASE Go("data") /\ GoesWell /\ UNCHANGED <<box, stopping>>
      <3>1. run' \in RunState /\ run'.pc = "data" /\ trouble' \in 0 .. Trouble
        BY <1>0, <2>4, GoTyped, TroubleTyped DEF PC
      <3>2. QED
        BY <1>0, <1>1, <2>1, <2>4, <3>1, QuietPlaces DEF IInv, TypeOK, SomeName
    <2>5. QED
      BY <1>4, <2>2, <2>3, <2>4 DEF Halt
  <1>5. CASE Data
    <2>1. UNCHANGED <<box, stopping>> /\ trouble' \in 0 .. Trouble
      BY <1>0, <1>5, TroubleTyped DEF Data
    <2>2. volume' \in Version
      BY <1>0, <1>5 DEF Data, HalfRestored, TypeOK, RunState, Snap
    <2>3. run' \in RunState /\ run'.pc \in {"park", "idle", "undo"}
      <3>1. CASE Go("park")
        BY <1>0, <3>1, GoTyped DEF PC
      <3>2. CASE Failed
        BY <1>0, <3>2, FailedTyped
      <3>3. QED
        BY <1>5, <3>1, <3>2 DEF Data
    <2>4. QED
      BY <1>0, <1>1, <2>1, <2>2, <2>3, QuietPlaces DEF IInv, TypeOK, SomeName
  <1>6. QED
    BY <1>2, <1>3, <1>4, <1>5

\* A cancellation leaves the run where it is, a crash leaves nothing of it.
LEMMA InterruptionKeeps ==
  ASSUME IInv, Cancel \/ Crash PROVE IInv'
  <1>0. TypeOK /\ PlaceInv /\ SomeName /\ run \in RunState
    BY DEF IInv, TypeOK
  <1>1. UNCHANGED <<box, stopping, volume, quality, snaps>> /\ trouble' \in 0 .. Trouble
    BY <1>0, TroubleTyped DEF Cancel, Crash
  <1>2. run' \in RunState /\ PlaceInv'
    <2>1. CASE run' = [run EXCEPT !.cancelled = TRUE]
      <3>1. /\ run' \in RunState
            /\ run'.pc = run.pc /\ run'.old = run.old /\ run'.new = run.new
        BY <1>0, <2>1 DEF RunState
      <3>2. QED
        BY <1>0, <1>1, <3>1 DEF PlaceInv, Chosen, Replaced, Parked, Standby
    <2>2. ASSUME NEW u \in BOOLEAN, run' = [Idle EXCEPT !.n = run.n, !.orderly = u]
          PROVE  run' \in RunState /\ PlaceInv'
      <3>1. run.n \in Version /\ 0 \in Version /\ 0 \in 0 .. MaxBoxes
        BY <1>0, BoundsAssumption DEF RunState, Version
      <3>2. run' \in RunState /\ run'.pc = "idle"
        BY <2>2, <3>1 DEF Idle, RunState, Policy
      <3>3. QED
        BY <3>2, QuietPlaces
    <2>3. (run.orderly /\ ~BrokenOff) \in BOOLEAN
      OBVIOUS
    <2>4. QED
      BY <2>1, <2>2, <2>3, Zenon DEF Cancel, Crash
  <1>3. QED
    BY <1>0, <1>1, <1>2 DEF IInv, TypeOK, SomeName

LEMMA IInvStep == IInv /\ [Next]_vars => IInv'
  <1>1. ASSUME IInv, Next PROVE IInv'
    BY <1>1, BeginningKeeps, TakeKeeps, ReplaceKeeps, ComposeKeeps, GateKeeps,
       RestoreKeeps, InterruptionKeeps DEF Next
  <1>2. ASSUME IInv, UNCHANGED vars PROVE IInv'
    BY <1>2 DEF vars, IInv, TypeOK, PlaceInv, Chosen, Replaced, Parked, Standby, SomeName
  <1>3. QED
    BY <1>1, <1>2

-----------------------------------------------------------------------------

\* In every state that update.go, replace.go, snapshot.go and restore.go can
\* reach the run, the containers and the snapshots have their types: no step
\* works on a container that was never chosen.
THEOREM TypeCorrect == Spec => []TypeOK
  <1>1. IInv => TypeOK
    BY DEF IInv
  <1>2. QED
    BY <1>1, IInvInit, IInvStep, PTL DEF Spec

\* "You are never left with no container at all" (README.md:354-356), because
\* replace.go:33-69 removes the outgoing container last: whatever fails, in
\* whatever order, and wherever the process is killed.
THEOREM AlwaysAContainer == Spec => []NeverWithoutContainer
  <1>1. IInv => NeverWithoutContainer
    BY DEF IInv, SomeName, NeverWithoutContainer, Gone
  <1>2. QED
    BY <1>1, IInvInit, IInvStep, PTL DEF Spec

-----------------------------------------------------------------------------
(* What a step does: to the run, and to one container *)

\* What a run keeps from its beginning to its end.
RunKept ==
  /\ run'.kind = run.kind /\ run'.n = run.n /\ run'.policy = run.policy
  /\ run'.ran = run.ran /\ run'.cancelled = run.cancelled
ReportKept ==
  /\ run'.outcome = run.outcome /\ run'.rollbackErr = run.rollbackErr
  /\ run'.orderly = run.orderly

\* It moves on, comes to its end, or fails.
Moves(pc) ==
  /\ run'.pc = pc /\ RunKept /\ ReportKept
  /\ run'.old = run.old /\ run'.new = run.new /\ run'.halted = run.halted
  /\ run'.snap = run.snap /\ run'.restoring = run.restoring
Ends(outcome) ==
  /\ run'.pc = "idle" /\ run'.outcome = outcome
  /\ RunKept /\ run'.rollbackErr = run.rollbackErr /\ run'.orderly = run.orderly
  /\ run'.old = run.old /\ run'.new = run.new /\ run'.halted = run.halted
  /\ run'.snap = run.snap /\ run'.restoring = run.restoring
Fails ==
  /\ RunKept
  /\ run'.old = run.old /\ run'.new = run.new /\ run'.halted = run.halted
  /\ run'.snap = run.snap /\ run'.restoring = run.restoring
  /\ run.restoring => /\ run'.pc = "idle" /\ run'.outcome = "failed" /\ run'.rollbackErr
                      /\ run'.orderly => run.orderly /\ ~BrokenOff
  /\ ~run.restoring => run'.pc = "undo" /\ ReportKept

\* One container goes up or down, is renamed, removed or created; the others
\* stay as they are.
Others(b) == \A c \in Box \ {b} : box'[c] = box[c]
Turned(b, up) ==
  /\ Others(b) /\ box'[b].name = box[b].name /\ box'[b].image = box[b].image
  /\ box'[b].up = up
Renamed(b, name) ==
  /\ Others(b) /\ box'[b].name = name /\ box'[b].image = box[b].image
  /\ box'[b].up = box[b].up
Removed(b) == Others(b) /\ box'[b] = Gone
Created(b, name, image, up) ==
  /\ box'[b].name = name /\ box'[b].image = image /\ box'[b].up = up

Started(b) ==
  /\ Turned(b, TRUE)
  /\ box[b].up => UNCHANGED volume
  /\ ~box[b].up => quality[box[b].image] # "dead" /\ volume' = Migrated(volume, box[b].image)

LEMMA GoDoes ==
  ASSUME run \in RunState, NEW pc, Go(pc) PROVE Moves(pc)
  BY DEF RunState, Go, Moves, RunKept, ReportKept

LEMMA FinishDoes ==
  ASSUME run \in RunState, NEW outcome, Finish(outcome) PROVE Ends(outcome)
  BY DEF RunState, Finish, Ends, RunKept

LEMMA FailedDoes ==
  ASSUME run \in RunState, Failed PROVE Fails
  <1>1. CASE run.restoring
    <2>1. PICK u \in BOOLEAN :
            /\ run' = [run EXCEPT !.pc = "idle", !.outcome = "failed", !.rollbackErr = TRUE,
                                  !.orderly = u]
            /\ u => run.orderly /\ ~BrokenOff
      <3>1. run' = [run EXCEPT !.pc = "idle", !.outcome = "failed", !.rollbackErr = TRUE,
                               !.orderly = run.orderly /\ ~BrokenOff]
        BY <1>1 DEF Failed
      <3>2. (run.orderly /\ ~BrokenOff) \in BOOLEAN
        OBVIOUS
      <3>3. QED
        BY <3>1, <3>2, Zenon
    <2>2. QED
      BY <1>1, <2>1 DEF RunState, Fails, RunKept
  <1>2. CASE ~run.restoring
    BY <1>2 DEF RunState, Failed, Fails, RunKept, ReportKept
  <1>3. QED
    BY <1>1, <1>2

LEMMA TurnDoes ==
  ASSUME box \in [Box -> BoxState], NEW b \in Box, NEW up \in BOOLEAN,
         box' = [box EXCEPT ![b].up = up]
  PROVE  Turned(b, up)
  BY DEF BoxState, Turned, Others

LEMMA RenameDoes ==
  ASSUME box \in [Box -> BoxState], NEW b \in Box, NEW name, NEW tag,
         box' = [box EXCEPT ![b].name = name, ![b].tag = tag]
  PROVE  Renamed(b, name)
  BY DEF BoxState, Renamed, Others

LEMMA GoneDoes ==
  ASSUME box \in [Box -> BoxState], NEW b \in Box, box' = [box EXCEPT ![b] = Gone]
  PROVE  Removed(b)
  BY DEF Removed, Others

LEMMA StartsDoes ==
  ASSUME box \in [Box -> BoxState], NEW b \in Box, Starts(b)
  PROVE  Started(b)
  <1>1. CASE box[b].up /\ UNCHANGED <<box, volume>>
    <2>1. box[b].up = TRUE
      BY <1>1 DEF BoxState
    <2>2. QED
      BY <1>1, <2>1 DEF Started, Turned, Others
  <1>2. CASE ~box[b].up
    BY <1>2, TurnDoes DEF Starts, Started
  <1>3. QED
    BY <1>1, <1>2 DEF Starts

\* A replacement takes a place where no container is.
LEMMA FreshIsGone ==
  ASSUME NEW b \in Box, Fresh(b)
  PROVE  box[b].name = "none" /\ box[b].image = 0 /\ ~box[b].up
  BY DEF Fresh, Gone

-----------------------------------------------------------------------------
(* What each action does *)

LEMMA Typed ==
  ASSUME TypeOK
  PROVE  /\ run \in RunState /\ box \in [Box -> BoxState]
         /\ run.n \in Version /\ run.snap \in Version /\ volume \in Version /\ 0 \in Version
         /\ \A b \in Box : box[b].up \in BOOLEAN /\ box[b].image \in Version
         /\ \A m \in Version : snaps[m].image \in Version /\ snaps[m].volume \in Version
         /\ \A v \in Version : v \in Nat
         /\ trouble \in Nat
         /\ run.old \in Box \cup {0} /\ run.new \in Box \cup {0}
  <1>1. \A b \in Box : box[b].up \in BOOLEAN /\ box[b].image \in Version
    BY DEF TypeOK, BoxState
  <1>2. \A m \in Version : snaps[m].image \in Version /\ snaps[m].volume \in Version
    BY DEF TypeOK, Snap
  <1>3. run \in RunState /\ run.n \in Version /\ run.snap \in Version
    BY DEF TypeOK, RunState
  <1>4. 0 \in Version /\ \A v \in Version : v \in Nat
    BY BoundsAssumption DEF Version
  <1>5. trouble \in Nat
    BY BoundsAssumption DEF TypeOK
  <1>6. run.old \in Box \cup {0} /\ run.new \in Box \cup {0}
    BY BoundsAssumption DEF TypeOK, RunState, Box
  <1>7. QED
    BY <1>1, <1>2, <1>3, <1>4, <1>5, <1>6 DEF TypeOK

LEMMA SelectDoes ==
  ASSUME IInv, Select
  PROVE  /\ run.pc = "idle" /\ UNCHANGED <<box, stopping, volume, quality, snaps, trouble>>
         /\ run'.old \in Named /\ run'.ran = box[run'.old].up /\ run'.n = run.n + 1
         /\ run'.kind \in {"update", "backup"}
         /\ run'.pc = IF run'.kind = "update" THEN "pull" ELSE "stop"
         /\ ~run'.halted /\ run'.snap = 0 /\ ~run'.restoring /\ ~run'.cancelled
         /\ run'.outcome = "none" /\ ~run'.rollbackErr
         /\ run'.orderly => run.orderly /\ run'.policy.snapshot /\ ~run'.policy.hot
  <1>1. PICK b \in Named, p \in Policies, kind \in {"update", "backup"}, u \in BOOLEAN :
          /\ run' = [Idle EXCEPT !.kind = kind, !.n = run.n + 1, !.policy = p, !.old = b,
                      !.ran = box[b].up, !.orderly = u,
                      !.pc = IF kind = "update" THEN "pull" ELSE "stop"]
          /\ u => run.orderly /\ p.snapshot /\ ~p.hot
    <2>1. PICK b \in Named, p \in Policies, kind \in {"update", "backup"} :
            run' = [Idle EXCEPT !.kind = kind, !.n = run.n + 1, !.policy = p, !.old = b,
                      !.ran = box[b].up, !.orderly = run.orderly /\ p.snapshot /\ ~p.hot,
                      !.pc = IF kind = "update" THEN "pull" ELSE "stop"]
      BY Zenon DEF Select
    <2>2. (run.orderly /\ p.snapshot /\ ~p.hot) \in BOOLEAN
      OBVIOUS
    <2>3. QED
      BY <2>1, <2>2, Zenon
  <1> DEFINE pc == IF kind = "update" THEN "pull" ELSE "stop"
  <1>2. run' = [pc |-> pc, kind |-> kind, n |-> run.n + 1,
                policy |-> p, old |-> b, new |-> 0, ran |-> box[b].up, halted |-> FALSE,
                snap |-> 0, restoring |-> FALSE, cancelled |-> FALSE, outcome |-> "none",
                rollbackErr |-> FALSE, orderly |-> u]
    BY <1>1 DEF Idle
  <1>3. run.pc = "idle" /\ UNCHANGED <<box, stopping, volume, quality, snaps, trouble>>
    BY DEF Select, At
  <1>4. /\ run'.pc = pc /\ run'.kind = kind /\ run'.n = run.n + 1 /\ run'.policy = p
        /\ run'.old = b /\ run'.ran = box[b].up /\ run'.halted = FALSE /\ run'.snap = 0
        /\ run'.restoring = FALSE /\ run'.cancelled = FALSE /\ run'.outcome = "none"
        /\ run'.rollbackErr = FALSE /\ run'.orderly = u
    <2> HIDE DEF pc
    <2>1. QED
      BY <1>2
  <1>5. QED
    BY <1>1, <1>3, <1>4

LEMMA PullDoes ==
  ASSUME IInv, Pull
  PROVE  /\ run.pc = "pull" /\ UNCHANGED <<box, stopping, volume, snaps>>
         /\ \/ CallWorks /\ Moves("hook") /\ UNCHANGED quality
            \/ /\ Live /\ GoesWrong /\ Moves("hook")
               /\ \A v \in Version \ {run.n} : quality'[v] = quality[v]
            \/ CallFails /\ Ends("failed") /\ UNCHANGED quality
  BY GoDoes, FinishDoes, Zenon, Typed DEF Pull, At, IInv, TypeOK

LEMMA PreHooksDoes ==
  ASSUME IInv, PreHooks
  PROVE  /\ run.pc = "hook" /\ UNCHANGED <<box, stopping, volume, quality, snaps>>
         /\ \/ GoesWell /\ Moves(IF run.policy.snapshot THEN "stop" ELSE Apply)
            \/ run.ran /\ CallFails /\ Ends("failed")
  BY GoDoes, FinishDoes, Typed DEF PreHooks, At, IInv

\* What a Stop does.
Stopped(pc) ==
  /\ CallWorks /\ Turned(run.old, FALSE) /\ UNCHANGED stopping
  /\ run'.pc = pc /\ RunKept /\ ReportKept
  /\ run'.old = run.old /\ run'.new = run.new /\ run'.halted
  /\ run'.snap = run.snap /\ run'.restoring = run.restoring

LEMMA StopDoes ==
  ASSUME TypeOK, run.old \in Box, NEW pc, StopWorks(pc)
  PROVE  Stopped(pc)
  <1>1. run \in RunState /\ box \in [Box -> BoxState]
    BY DEF TypeOK
  <1>2. Turned(run.old, FALSE)
    BY <1>1, TurnDoes DEF StopWorks
  <1>3. QED
    BY <1>1, <1>2 DEF StopWorks, Stopped, RunState, RunKept, ReportKept

LEMMA TakeFailsDoes ==
  ASSUME TypeOK, TakeFails
  PROVE  IF run.kind = "update" \/ run.halted THEN Moves("restart") ELSE Ends("failed")
  BY Typed, GoDoes, FinishDoes DEF TakeFails

LEMMA TakeStopDoes ==
  ASSUME IInv, TakeStop
  PROVE  /\ run.pc = "stop" /\ run.old \in Box /\ UNCHANGED <<volume, quality, snaps>>
         /\ \/ StopFirst /\ Stopped("save")
            \/ /\ UNCHANGED box
               /\ StopFails \/ (StopFirst /\ StopHalfFails)
               /\ IF run.kind = "update" \/ run.halted THEN Moves("restart") ELSE Ends("failed")
            \/ ~StopFirst /\ CallWorks /\ Moves("save") /\ UNCHANGED <<box, stopping>>
  <1>1. TypeOK /\ run.old \in Box /\ run.pc = "stop" /\ run \in RunState
    BY DEF IInv, TypeOK, PlaceInv, Chosen, TakeStop, At
  <1>2. CASE StopFirst /\ StopWorks("save")
    BY <1>1, <1>2, StopDoes DEF TakeStop
  <1>3. CASE (StopFails \/ (StopFirst /\ StopHalfFails)) /\ TakeFails
    BY <1>1, <1>3, TakeFailsDoes DEF TakeStop, StopFails, StopHalfFails
  <1>4. CASE ~StopFirst /\ CallWorks /\ Go("save") /\ UNCHANGED <<box, stopping>>
    BY <1>1, <1>4, GoDoes DEF TakeStop
  <1>5. \/ StopFirst /\ StopWorks("save")
        \/ (StopFails \/ (StopFirst /\ StopHalfFails)) /\ TakeFails
        \/ ~StopFirst /\ CallWorks /\ Go("save") /\ UNCHANGED <<box, stopping>>
    BY Zenon DEF TakeStop
  <1>6. QED
    BY <1>2, <1>3, <1>4, <1>5, Zenon

LEMMA TakeSaveDoes ==
  ASSUME IInv, TakeSave
  PROVE  /\ run.pc = "save" /\ run.old \in Box /\ UNCHANGED <<box, stopping, volume, quality>>
         /\ \/ /\ CallWorks
               /\ snaps'[run.n].image = box[run.old].image /\ snaps'[run.n].volume = volume
               /\ \A m \in Version \ {run.n} : snaps'[m] = snaps[m]
               /\ run'.snap = run.n
               /\ run'.pc = CASE run.kind = "update" -> Apply
                              [] run.kind = "backup" /\ run.halted -> "restart"
                              [] OTHER -> "idle"
               /\ RunKept /\ ReportKept
               /\ run'.old = run.old /\ run'.new = run.new /\ run'.halted = run.halted
               /\ run'.restoring = run.restoring
            \/ /\ CallFails /\ UNCHANGED snaps
               /\ IF run.kind = "update" \/ run.halted THEN Moves("restart") ELSE Ends("failed")
  <1>1. /\ TypeOK /\ run.old \in Box /\ run.pc = "save" /\ run \in RunState /\ run.n \in Version
        /\ UNCHANGED <<box, stopping, volume, quality>>
    BY DEF IInv, TypeOK, PlaceInv, Chosen, TakeSave, At, RunState
  <1>2. CASE CallFails /\ TakeFails /\ UNCHANGED snaps
    BY <1>1, <1>2, TakeFailsDoes
  <1> DEFINE shot == [taken |-> TRUE, image |-> box[run.old].image, volume |-> volume,
                      ran |-> run.halted \/ box[run.old].up]
             next == CASE run.kind = "update" -> Apply
                       [] run.kind = "backup" /\ run.halted -> "restart"
                       [] OTHER -> "idle"
  <1>3. ASSUME CallWorks, snaps' = [snaps EXCEPT ![run.n] = shot],
               run' = [run EXCEPT !.snap = run.n, !.pc = next]
        PROVE  /\ snaps'[run.n].image = box[run.old].image /\ snaps'[run.n].volume = volume
               /\ \A m \in Version \ {run.n} : snaps'[m] = snaps[m]
               /\ run'.snap = run.n /\ run'.pc = next /\ RunKept /\ ReportKept
               /\ run'.old = run.old /\ run'.new = run.new /\ run'.halted = run.halted
               /\ run'.restoring = run.restoring
    <2>1. shot.image = box[run.old].image /\ shot.volume = volume
      OBVIOUS
    <2> HIDE DEF shot, next
    <2>2. QED
      BY <1>1, <1>3, <2>1 DEF TypeOK, RunState, RunKept, ReportKept
  <1>4. \/ CallFails /\ TakeFails /\ UNCHANGED snaps
        \/ CallWorks /\ snaps' = [snaps EXCEPT ![run.n] = shot]
                     /\ run' = [run EXCEPT !.snap = run.n, !.pc = next]
    BY DEF TakeSave
  <1> HIDE DEF shot
  <1>5. QED
    BY <1>1, <1>2, <1>3, <1>4

LEMMA StartAgainDoes ==
  ASSUME TypeOK, NEW b \in Box, StartAgain(b)
  PROVE  \/ Started(b) /\ GoesWell
         \/ /\ ~box[b].up /\ quality[box[b].image] = "dead" /\ GoesWell
            /\ UNCHANGED <<box, volume>>
         \/ GoesVeryWrong /\ UNCHANGED <<box, volume>>
  BY Typed, StartsDoes DEF StartAgain, StartRefused

LEMMA RestartDoes ==
  ASSUME IInv, Restart
  PROVE  /\ run.pc = "restart" /\ run.old \in Box /\ UNCHANGED <<stopping, quality, snaps>>
         /\ Ends(IF run.kind = "update" THEN "failed" ELSE "none")
         /\ \/ Started(run.old) /\ GoesWell
            \/ /\ ~box[run.old].up /\ quality[box[run.old].image] = "dead" /\ GoesWell
               /\ UNCHANGED <<box, volume>>
            \/ GoesVeryWrong /\ UNCHANGED <<box, volume>>
  <1>1. TypeOK /\ run.old \in Box /\ run.pc = "restart" /\ run \in RunState
    BY DEF IInv, TypeOK, PlaceInv, Chosen, Restart, At
  <1>2. QED
    BY <1>1, StartAgainDoes, FinishDoes DEF Restart

LEMMA EngineStopsDoes ==
  ASSUME IInv, EngineStops
  PROVE  /\ UNCHANGED <<volume, quality, snaps, run, trouble>>
         /\ \E b \in stopping : b \in Box /\ stopping' = stopping \ {b} /\ Turned(b, FALSE)
  BY TurnDoes DEF IInv, TypeOK, EngineStops

LEMMA ParkDoes ==
  ASSUME IInv, Park, run.old # 0 => run.old \in Box
  PROVE  /\ run.pc = "park" /\ UNCHANGED <<stopping, volume, quality, snaps>>
         /\ \/ run.old = 0 /\ Moves("create") /\ GoesWell /\ UNCHANGED box
            \/ run.old # 0 /\ CallWorks /\ Renamed(run.old, "aside") /\ Moves("create")
            \/ /\ run.old # 0 /\ Fails /\ UNCHANGED box
               /\ CallFails \/ (Live /\ Aside(run.snap) # {} /\ GoesWell)
  BY Typed, RenameDoes, GoDoes, FailedDoes DEF IInv, Park, At

LEMMA CreateDoes ==
  ASSUME IInv, Create
  PROVE  /\ run.pc = "create" /\ UNCHANGED <<stopping, volume, quality, snaps>>
         /\ \/ \E b \in Box :
                 /\ CallWorks /\ Named = {} /\ Fresh(b)
                 /\ Others(b) /\ Created(b, "app", NewImage, FALSE)
                 /\ run'.new = b /\ run'.pc = IF run.old = 0 THEN "start" ELSE "remove"
                 /\ RunKept /\ ReportKept /\ run'.old = run.old /\ run'.halted = run.halted
                 /\ run'.snap = run.snap /\ run'.restoring = run.restoring
            \/ /\ CallFails \/ (Live /\ Named # {} /\ GoesWell)
               /\ IF run.old = 0 THEN Fails ELSE Moves("unpark")
               /\ UNCHANGED box
  <1>1. /\ run \in RunState /\ box \in [Box -> BoxState] /\ run.pc = "create"
        /\ UNCHANGED <<stopping, volume, quality, snaps>>
    BY DEF IInv, TypeOK, Create, At
  <1>2. CASE /\ CallFails \/ (Live /\ Named # {} /\ GoesWell)
             /\ IF run.old = 0 THEN Failed ELSE Go("unpark")
             /\ UNCHANGED box
    BY <1>1, <1>2, FailedDoes, GoDoes
  <1>3. ASSUME NEW b \in Box, CallWorks, Named = {}, Fresh(b),
               box' = [box EXCEPT ![b] = App(NewImage, FALSE)],
               run' = [run EXCEPT !.new = b, !.pc = IF run.old = 0 THEN "start" ELSE "remove"]
        PROVE  /\ Others(b) /\ Created(b, "app", NewImage, FALSE)
               /\ run'.new = b /\ run'.pc = IF run.old = 0 THEN "start" ELSE "remove"
               /\ RunKept /\ ReportKept /\ run'.old = run.old /\ run'.halted = run.halted
               /\ run'.snap = run.snap /\ run'.restoring = run.restoring
    <2>1. box'[b] = App(NewImage, FALSE) /\ Others(b)
      BY <1>1, <1>3 DEF Others
    <2>2. Created(b, "app", NewImage, FALSE)
      BY <2>1 DEF App, Created
    <2>3. QED
      BY <1>1, <1>3, <2>1, <2>2 DEF RunState, RunKept, ReportKept
  <1>4. QED
    BY <1>1, <1>2, <1>3 DEF Create

LEMMA UnparkDoes ==
  ASSUME IInv, Unpark
  PROVE  /\ run.pc = "unpark" /\ run.old \in Box /\ Fails
         /\ UNCHANGED <<stopping, volume, quality, snaps>>
         /\ (GoesWell /\ Renamed(run.old, "app")) \/ (GoesWrong /\ UNCHANGED box)
  <1>1. /\ run \in RunState /\ box \in [Box -> BoxState] /\ run.pc = "unpark" /\ run.old \in Box
    BY DEF IInv, TypeOK, Unpark, At, PlaceInv, Chosen
  <1>2. QED
    BY <1>1, RenameDoes, FailedDoes DEF Unpark

LEMMA RemoveDoes ==
  ASSUME IInv, Remove
  PROVE  /\ run.pc = "remove" /\ Moves("start") /\ UNCHANGED <<volume, quality, snaps>>
         /\ \/ /\ GoesWell /\ stopping' = stopping \ {run.old}
               /\ run.old \in Box => Removed(run.old)
               /\ run.old \notin Box => UNCHANGED box
            \/ GoesWrong /\ UNCHANGED <<box, stopping>>
  <1>1. run \in RunState /\ box \in [Box -> BoxState]
    BY DEF IInv, TypeOK
  <1>2. run.old \notin Box => [box EXCEPT ![run.old] = Gone] = box
    BY <1>1
  <1>3. QED
    BY <1>1, <1>2, GoneDoes, GoDoes DEF Remove, At

LEMMA StartDoes ==
  ASSUME IInv, Start
  PROVE  /\ run.pc = "start" /\ run.new \in Box /\ UNCHANGED <<stopping, quality, snaps>>
         /\ \/ /\ IF run.restoring THEN Ends("rolledback") ELSE Moves("health")
               /\ \/ WillStart /\ CallWorks /\ Started(run.new)
                  \/ ~WillStart /\ GoesWell /\ UNCHANGED <<box, volume>>
            \/ /\ WillStart /\ Fails /\ UNCHANGED <<box, volume>>
               /\ CallFails \/ (Live /\ StartRefused(run.new))
  <1>1. /\ run \in RunState /\ box \in [Box -> BoxState] /\ run.pc = "start" /\ run.new \in Box
    BY DEF IInv, TypeOK, Start, At, PlaceInv, Replaced
  <1>2. QED
    BY <1>1, StartsDoes, FailedDoes, GoDoes, FinishDoes DEF Start, StartRefused

\* Compose puts a container of its own in the place of the old one.
Swapped(b, name, up) ==
  /\ b # run.old /\ box'[run.old] = Gone /\ Created(b, name, run.n, up)
  /\ \A c \in Box \ {b, run.old} : box'[c] = box[c]

HealthNext(b) ==
  /\ run'.new = b /\ run'.pc = "health" /\ RunKept /\ ReportKept
  /\ run'.old = run.old /\ run'.halted = run.halted
  /\ run'.snap = run.snap /\ run'.restoring = run.restoring

LEMMA ComposeDoes ==
  ASSUME IInv, Compose, run.old \in Named
  PROVE  /\ run.pc = "compose" /\ run.old \in Box /\ UNCHANGED <<quality, snaps>>
         /\ \A c \in stopping' : c \in stopping /\ box'[c] # Gone
         /\ \E b \in Box : Fresh(b) /\
              \/ /\ CallWorks /\ quality[run.n] # "dead" /\ Swapped(b, "app", TRUE)
                 /\ volume' = Migrated(volume, run.n) /\ HealthNext(b)
              \/ CallWorks /\ Started(run.old) /\ HealthNext(run.old)
              \/ CallWorks /\ quality[run.n] = "dead" /\ Fails /\ Swapped(b, "app", FALSE)
                 /\ UNCHANGED volume
              \/ /\ CallFails /\ Fails /\ UNCHANGED volume
                 /\ \/ UNCHANGED box
                    \/ ~run.cancelled /\ (Swapped(b, "app", FALSE) \/ Swapped(b, "other", FALSE))
  <1>0. /\ run \in RunState /\ box \in [Box -> BoxState] /\ run.pc = "compose" /\ run.old \in Box
        /\ UNCHANGED <<quality, snaps>> /\ box[run.old].name = "app"
        /\ \A c \in stopping' : c \in stopping /\ box'[c] # Gone
    BY DEF IInv, TypeOK, Compose, At, Named
  <1> DEFINE replaced(b, name, up) ==
        [box EXCEPT ![run.old] = Gone,
                    ![b] = [name |-> name, tag |-> 0, image |-> run.n, up |-> up]]
  <1>1. PICK b \in Box :
          /\ Fresh(b)
          /\ \/ /\ CallWorks /\ quality[run.n] # "dead"
                /\ box' = replaced(b, "app", TRUE)
                /\ volume' = Migrated(volume, run.n)
                /\ run' = [run EXCEPT !.new = b, !.pc = "health"]
             \/ /\ CallWorks /\ Starts(run.old)
                /\ run' = [run EXCEPT !.new = run.old, !.pc = "health"]
             \/ /\ CallWorks /\ quality[run.n] = "dead" /\ Failed
                /\ box' = replaced(b, "app", FALSE) /\ UNCHANGED volume
             \/ /\ CallFails /\ Failed /\ UNCHANGED volume
                /\ box' \in {box} \cup (IF run.cancelled THEN {}
                                     ELSE {replaced(b, "app", FALSE), replaced(b, "other", FALSE)})
    BY Zenon DEF Compose
  <1>2. ASSUME NEW name, NEW up, box' = replaced(b, name, up)
        PROVE  Swapped(b, name, up)
    <2>1. b # run.old
      BY <1>0, <1>1, FreshIsGone
    <2>2. QED
      BY <1>0, <1>2, <2>1 DEF Swapped, Created
  <1>3. ASSUME NEW c \in Box, run' = [run EXCEPT !.new = c, !.pc = "health"]
        PROVE  HealthNext(c)
    BY <1>0, <1>3 DEF RunState, HealthNext, RunKept, ReportKept
  <1>4. Starts(run.old) => Started(run.old)
    BY <1>0, StartsDoes
  <1>5. Failed => Fails
    BY <1>0, FailedDoes
  <1>6. CASE /\ CallFails /\ Failed /\ UNCHANGED volume
             /\ box' \in {box} \cup (IF run.cancelled THEN {}
                                     ELSE {replaced(b, "app", FALSE), replaced(b, "other", FALSE)})
    <2>1. \/ UNCHANGED box
          \/ ~run.cancelled /\ (Swapped(b, "app", FALSE) \/ Swapped(b, "other", FALSE))
      <3> HIDE DEF replaced
      <3>1. QED
        BY <1>2, <1>6
    <2>2. QED
      BY <1>0, <1>1, <1>5, <1>6, <2>1
  <1> HIDE DEF replaced
  <1>7. QED
    BY <1>0, <1>1, <1>2, <1>3, <1>4, <1>5, <1>6

LEMMA HealthDoes ==
  ASSUME IInv, Health
  PROVE  /\ run.pc = "health" /\ run.new \in Box
         /\ UNCHANGED <<box, stopping, volume, quality, snaps>>
         /\ LET sound == box[run.new].up /\ quality[box[run.new].image] = "good" IN
              \/ /\ sound /\ CallWorks
                 /\ Ends(IF run.new = run.old THEN "nochange" ELSE "updated")
              \/ ~sound /\ GoesWell /\ Fails
              \/ sound /\ CallFails /\ Fails
  BY Typed, FinishDoes, FailedDoes DEF Health, At, IInv, PlaceInv, Replaced

LEMMA UndoDoes ==
  ASSUME IInv, Undo
  PROVE  /\ run.pc = "undo" /\ GoesWell /\ UNCHANGED <<box, stopping, volume, quality, snaps>>
         /\ IF run.snap = 0 \/ ~run.policy.rollback
              THEN Moves("leave")
              ELSE /\ run'.pc = "plan" /\ run'.restoring /\ RunKept /\ ReportKept
                   /\ run'.old = run.old /\ run'.new = run.new /\ run'.halted = run.halted
                   /\ run'.snap = run.snap
  <1>1. run \in RunState
    BY DEF IInv, TypeOK
  <1>2. CASE run.snap = 0 \/ ~run.policy.rollback
    BY <1>1, <1>2, GoDoes DEF Undo, At
  <1>3. CASE ~(run.snap = 0 \/ ~run.policy.rollback)
    BY <1>1, <1>3 DEF Undo, At, RunState, RunKept, ReportKept
  <1>4. QED
    BY <1>2, <1>3

LEMMA LeaveRunningDoes ==
  ASSUME IInv, LeaveRunning
  PROVE  /\ run.pc = "leave" /\ Ends("failed") /\ UNCHANGED <<stopping, quality, snaps>>
         /\ IF run.ran /\ Named # {}
              THEN \E b \in Named :
                     \/ Started(b) /\ GoesWell
                     \/ /\ ~box[b].up /\ quality[box[b].image] = "dead" /\ GoesWell
                        /\ UNCHANGED <<box, volume>>
                     \/ GoesVeryWrong /\ UNCHANGED <<box, volume>>
              ELSE GoesWell /\ UNCHANGED <<box, volume>>
  BY Typed, FinishDoes, StartAgainDoes DEF LeaveRunning, At, IInv, Named

LEMMA RollbackByHandDoes ==
  ASSUME IInv, RollbackByHand
  PROVE  /\ run.pc = "idle" /\ UNCHANGED <<box, stopping, volume, quality, snaps, trouble>>
         /\ run'.pc = "plan" /\ run'.kind = "rollback" /\ run'.n = run.n /\ run'.old = 0
         /\ ~run'.ran /\ run'.restoring /\ ~run'.cancelled
         /\ run'.outcome = "none" /\ ~run'.rollbackErr /\ run'.orderly = run.orderly
  <1>1. PICK n \in {m \in Version : snaps[m].taken} :
          run' = [Idle EXCEPT !.kind = "rollback", !.n = run.n, !.snap = n,
                              !.orderly = run.orderly, !.restoring = TRUE, !.pc = "plan"]
    BY Zenon DEF RollbackByHand
  <1>2. QED
    BY <1>1 DEF RollbackByHand, At, Idle

LEMMA PlanDoes ==
  ASSUME IInv, Plan
  PROVE  /\ run.pc = "plan" /\ UNCHANGED <<box, stopping, volume, quality, snaps>>
         /\ \/ /\ CallWorks /\ RunKept /\ ReportKept
               /\ run'.new = run.new /\ run'.halted = run.halted
               /\ run'.snap = run.snap /\ run'.restoring = run.restoring
               /\ \/ run'.old \in Named /\ run'.pc = "halt"
                  \/ Named = {} /\ run'.old = 0 /\ run'.pc = "data"
            \/ CallFails /\ Fails
  <1>1. /\ run \in RunState /\ run.pc = "plan"
        /\ UNCHANGED <<box, stopping, volume, quality, snaps>>
    BY DEF IInv, TypeOK, Plan, At
  <1>2. ASSUME NEW b \in Named, CallWorks, run' = [run EXCEPT !.old = b, !.pc = "halt"]
        PROVE  /\ RunKept /\ ReportKept /\ run'.new = run.new /\ run'.halted = run.halted
               /\ run'.snap = run.snap /\ run'.restoring = run.restoring
               /\ run'.old = b /\ run'.pc = "halt"
    BY <1>1, <1>2 DEF RunState, RunKept, ReportKept
  <1>3. ASSUME run' = [run EXCEPT !.old = 0, !.pc = "data"]
        PROVE  /\ RunKept /\ ReportKept /\ run'.new = run.new /\ run'.halted = run.halted
               /\ run'.snap = run.snap /\ run'.restoring = run.restoring
               /\ run'.old = 0 /\ run'.pc = "data"
    BY <1>1, <1>3 DEF RunState, RunKept, ReportKept
  <1>4. QED
    BY <1>1, <1>2, <1>3, FailedDoes DEF Plan

LEMMA HaltDoes ==
  ASSUME IInv, Halt
  PROVE  /\ run.pc = "halt" /\ run.old \in Box /\ UNCHANGED <<volume, quality, snaps>>
         /\ \/ box[run.old].up /\ Stopped("data")
            \/ /\ box[run.old].up /\ (StopFails \/ StopHalfFails) /\ Fails /\ UNCHANGED box
            \/ ~box[run.old].up /\ Moves("data") /\ GoesWell /\ UNCHANGED <<box, stopping>>
  <1>1. TypeOK /\ run \in RunState /\ run.pc = "halt" /\ run.old \in Box
    BY DEF IInv, TypeOK, Halt, At, PlaceInv, Chosen
  <1>2. QED
    BY <1>1, StopDoes, FailedDoes, GoDoes DEF Halt, StopFails, StopHalfFails

LEMMA DataDoes ==
  ASSUME IInv, Data
  PROVE  /\ run.pc = "data" /\ UNCHANGED <<box, stopping, quality, snaps>>
         /\ \/ CallWorks /\ Moves("park") /\ volume' = snaps[run.snap].volume
            \/ CallFails /\ Fails /\ volume' \in {volume, snaps[run.snap].volume}
  BY Typed, GoDoes, FailedDoes DEF Data, At, IInv, HalfRestored

LEMMA CancelDoes ==
  ASSUME IInv, Cancel
  PROVE  /\ run.pc # "idle" /\ GoesWrong /\ UNCHANGED <<box, stopping, volume, quality, snaps>>
         /\ run'.cancelled /\ run'.pc = run.pc /\ ReportKept
         /\ run'.kind = run.kind /\ run'.n = run.n /\ run'.policy = run.policy
         /\ run'.ran = run.ran /\ run'.old = run.old /\ run'.new = run.new
         /\ run'.halted = run.halted /\ run'.snap = run.snap /\ run'.restoring = run.restoring
  BY DEF Cancel, At, IInv, TypeOK, RunState, ReportKept

LEMMA CrashDoes ==
  ASSUME IInv, Crash
  PROVE  /\ run.pc # "idle" /\ GoesVeryWrong /\ UNCHANGED <<box, stopping, volume, quality, snaps>>
         /\ run'.pc = "idle" /\ run'.kind = "update" /\ run'.n = run.n /\ ~run'.ran
         /\ ~run'.restoring /\ ~run'.cancelled /\ run'.outcome = "none" /\ ~run'.rollbackErr
         /\ run'.orderly => run.orderly /\ ~BrokenOff
  <1>1. PICK u \in BOOLEAN :
          run' = [Idle EXCEPT !.n = run.n, !.orderly = u] /\ (u => run.orderly /\ ~BrokenOff)
    <2>1. (run.orderly /\ ~BrokenOff) \in BOOLEAN
      OBVIOUS
    <2>2. QED
      BY <2>1, Zenon DEF Crash
  <1>2. QED
    BY <1>1 DEF Crash, At, Idle

-----------------------------------------------------------------------------
(* Who carries the name *)

\* One container at most has the name.
OneName == \A b, c \in Named : b = c

\* Who has it, at each point of a run.
OldNamed ==
  run.pc \in {"pull", "hook", "stop", "save", "restart", "compose", "halt"} => run.old \in Named
ToPark == run.pc \in {"data", "park"} => IF run.old = 0 THEN Named = {} ELSE run.old \in Named
NoneNamed ==
  run.pc \in {"create", "unpark"} => Named = {} /\ (run.old # 0 => box[run.old].name = "aside")
NewNamed ==
  /\ run.pc \in {"remove", "start", "health"} => run.new \in Named
  /\ run.pc \in {"remove", "start"} => run.new # run.old

NameInv == OneName /\ OldNamed /\ ToPark /\ NoneNamed /\ NewNamed

LEMMA TurnedKeeps ==
  ASSUME NEW b \in Box, NEW up, Turned(b, up)
  PROVE  /\ \A c \in Box : box'[c].name = box[c].name /\ box'[c].image = box[c].image
         /\ Named' = Named
  <1>1. \A c \in Box : box'[c].name = box[c].name /\ box'[c].image = box[c].image
    BY DEF Turned, Others
  <1>2. QED
    BY <1>1 DEF Named

LEMMA NameInit == Init => NameInv
  BY DEF Init, Idle, App, Gone, NameInv, OneName, OldNamed, ToPark, NoneNamed, NewNamed, Named

LEMMA NameStep ==
  ASSUME IInv, IInv', NameInv, Next PROVE NameInv'
  <1>0. 0 \notin Box
    BY DEF Box
  <1> USE <1>0 DEF NameInv, OneName, OldNamed, ToPark, NoneNamed, NewNamed, Named
  <1>1. CASE Select
    BY <1>1, SelectDoes
  <1>2. CASE Pull
    BY <1>2, PullDoes DEF Moves, Ends
  <1>3. CASE PreHooks
    BY <1>3, PreHooksDoes DEF Moves, Ends, Apply
  <1>4. CASE TakeStop
    BY <1>4, TakeStopDoes, TurnedKeeps DEF Moves, Ends, Stopped
  <1>5. CASE TakeSave
    BY <1>5, TakeSaveDoes DEF Moves, Ends, Apply
  <1>6. CASE Restart
    <2>1. Named' = Named
      BY <1>6, RestartDoes, TurnedKeeps DEF Started
    <2>2. run'.pc = "idle"
      BY <1>6, RestartDoes DEF Ends
    <2>3. QED
      BY <2>1, <2>2
  <1>7. CASE EngineStops
    <2>1. PICK b \in stopping : b \in Box /\ Turned(b, FALSE)
      BY <1>7, EngineStopsDoes
    <2>2. /\ run' = run /\ Named' = Named
          /\ \A c \in Box : box'[c].name = box[c].name /\ box'[c].image = box[c].image
      BY <1>7, <2>1, EngineStopsDoes, TurnedKeeps
    <2>3. run.old \in Box \cup {0}
      BY Typed DEF IInv
    <2>4. QED
      BY <2>2, <2>3
  <1>8. CASE Park
    <2>1. run.pc = "park" /\ (run.old = 0 => Named = {}) /\ (run.old # 0 => run.old \in Named)
      BY <1>8 DEF Park, At
    <2>2. CASE run.old = 0 /\ Moves("create") /\ UNCHANGED box
      BY <2>1, <2>2 DEF Moves
    <2>3. CASE run.old # 0 /\ Renamed(run.old, "aside") /\ Moves("create")
      <3>1. Named' = {}
        BY <2>1, <2>3 DEF Renamed, Others
      <3>2. QED
        BY <2>1, <2>3, <3>1 DEF Renamed, Moves
    <2>4. CASE Fails /\ UNCHANGED box
      BY <2>4 DEF Fails
    <2>5. QED
      BY <1>8, <2>1, <2>2, <2>3, <2>4, ParkDoes
  <1>9. CASE Create
    <2>1. run.pc = "create" /\ Named = {} /\ (run.old # 0 => box[run.old].name = "aside")
      BY <1>9, CreateDoes
    <2>2. CASE UNCHANGED box /\ (Fails \/ Moves("unpark"))
      BY <2>1, <2>2, <1>9, CreateDoes DEF Moves, Fails
    <2>3. ASSUME NEW b \in Box, Fresh(b), Others(b), Created(b, "app", NewImage, FALSE),
                 run'.new = b, run'.old = run.old, run'.pc \in {"start", "remove"}
          PROVE  NameInv'
      <3>1. Named' = {b}
        BY <2>1, <2>3 DEF Others, Created
      <3>2. b # run.old
        BY <2>1, <2>3, FreshIsGone
      <3>3. QED
        BY <2>3, <3>1, <3>2
    <2>4. QED
      BY <1>9, <2>2, <2>3, CreateDoes
  <1>10. CASE Unpark
    BY <1>10, UnparkDoes DEF Renamed, Others, Fails
  <1>11. CASE Remove
    BY <1>11, RemoveDoes DEF Removed, Gone, Others, Moves
  <1>12. CASE Start
    BY <1>12, StartDoes, TurnedKeeps DEF Started, Moves, Ends, Fails
  <1>13. CASE Compose
    <2>0. run.pc = "compose" /\ run.old \in Named
      BY <1>13 DEF Compose, At
    <2>1. ASSUME NEW b \in Box, Fresh(b), Swapped(b, "app", TRUE), HealthNext(b)
          PROVE  NameInv'
      <3>1. Named' = {b}
        BY <2>0, <2>1 DEF Swapped, Created, Gone
      <3>2. QED
        BY <2>1, <3>1 DEF HealthNext
    <2>2. CASE Started(run.old) /\ HealthNext(run.old)
      BY <2>0, <2>2, TurnedKeeps DEF Started, HealthNext
    <2>3. ASSUME NEW b \in Box, NEW name, Swapped(b, name, FALSE) \/ UNCHANGED box, Fails
          PROVE  NameInv'
      <3>1. \A c, d \in Named' : c = d
        BY <2>0, <2>3 DEF Swapped, Created, Gone
      <3>2. QED
        BY <2>3, <3>1 DEF Fails
    <2>4. QED
      BY <1>13, <2>0, <2>1, <2>2, <2>3, ComposeDoes
  <1>14. CASE Health
    BY <1>14, HealthDoes DEF Ends, Fails
  <1>15. CASE Undo
    BY <1>15, UndoDoes DEF Moves
  <1>16. CASE LeaveRunning
    <2>1. Named' = Named
      BY <1>16, LeaveRunningDoes, TurnedKeeps DEF Started
    <2>2. run'.pc = "idle"
      BY <1>16, LeaveRunningDoes DEF Ends
    <2>3. QED
      BY <2>1, <2>2
  <1>17. CASE RollbackByHand
    BY <1>17, RollbackByHandDoes
  <1>18. CASE Plan
    BY <1>18, PlanDoes DEF Fails
  <1>19. CASE Halt
    BY <1>19, HaltDoes, TurnedKeeps DEF Stopped, Moves, Fails
  <1>20. CASE Data
    BY <1>20, DataDoes DEF Moves, Fails
  <1>21. CASE Cancel
    BY <1>21, CancelDoes
  <1>22. CASE Crash
    BY <1>22, CrashDoes
  <1>23. QED
    BY <1>1, <1>2, <1>3, <1>4, <1>5, <1>6, <1>7, <1>8, <1>9, <1>10, <1>11, <1>12, <1>13, <1>14,
       <1>15, <1>16, <1>17, <1>18, <1>19, <1>20, <1>21, <1>22 DEF Next

-----------------------------------------------------------------------------
(* Backups *)

\* A backup that found its container stopped does nothing to it.
BackupInv ==
  run.kind = "backup" =>
    /\ run.pc \in {"stop", "save", "restart", "idle"}
    /\ ~run.ran => run.pc # "restart" /\ ~run.halted /\ \A b \in Named : ~box[b].up

\* Which kinds of run get where.
KindInv ==
  /\ run.kind = "rollback" => ~run.ran /\ (run.pc # "idle" => run.restoring)
  /\ run.pc # "idle" /\ run.restoring =>
       run.pc \in {"plan", "halt", "data", "park", "create", "unpark", "remove", "start"}
  /\ run.pc \in {"plan", "halt", "data"} => run.restoring
  /\ run.pc # "idle" /\ run.kind = "backup" => ~run.restoring

KindSeen == BackupInv /\ KindInv

LEMMA KindInit == Init => KindSeen
  BY DEF Init, Idle, KindSeen, KindInv, BackupInv

LEMMA KindStep ==
  ASSUME IInv, IInv', NameInv, NameInv', KindSeen, Next PROVE KindSeen'
  <1>0. 0 \notin Box
    BY DEF Box
  <1> USE <1>0 DEF KindSeen, KindInv, BackupInv, RunKept
  <1>1. CASE Select
    BY <1>1, SelectDoes DEF NameInv, OneName, Named
  <1>2. CASE Pull
    BY <1>2, PullDoes DEF Moves, Ends
  <1>3. CASE PreHooks
    BY <1>3, PreHooksDoes DEF Moves, Ends, Apply
  <1>4. CASE TakeStop
    <2>1. run.pc = "stop" /\ run.old \in Named
      BY <1>4, TakeStopDoes DEF NameInv, OldNamed
    <2>2. /\ RunKept /\ run'.restoring = run.restoring
          /\ \/ run'.pc = "save" /\ box[run.old].up
             \/ run'.pc = "save" /\ UNCHANGED box /\ run'.halted = run.halted
             \/ /\ UNCHANGED box /\ run'.halted = run.halted
                /\ run'.pc = IF run.kind = "update" \/ run.halted THEN "restart" ELSE "idle"
      BY <1>4, TakeStopDoes DEF Moves, Ends, Stopped, StopFirst
    <2>3. QED
      BY <2>1, <2>2 DEF Named
  <1>5. CASE TakeSave
    BY <1>5, TakeSaveDoes DEF Moves, Ends, Apply, Named
  <1>6. CASE Restart
    BY <1>6, RestartDoes DEF Ends
  <1>7. CASE EngineStops
    BY <1>7, EngineStopsDoes, TurnedKeeps DEF Turned, Others, Named
  <1>8. CASE Park
    <2>1. run.pc = "park" /\ (run.old # 0 => run.old \in Box)
      BY <1>8 DEF Park, At, NameInv, ToPark, Named
    <2>2. QED
      BY <1>8, <2>1, ParkDoes DEF Moves, Fails
  <1>9. CASE Create
    BY <1>9, CreateDoes DEF Moves, Fails
  <1>10. CASE Unpark
    BY <1>10, UnparkDoes DEF Fails
  <1>11. CASE Remove
    BY <1>11, RemoveDoes DEF Moves
  <1>12. CASE Start
    BY <1>12, StartDoes DEF Moves, Ends, Fails
  <1>13. CASE Compose
    <2>1. run.old \in Named /\ run.pc = "compose"
      BY <1>13 DEF Compose, At, NameInv, OldNamed
    <2>2. RunKept /\ run'.pc \in {"health", "idle", "undo"} /\ run'.restoring = run.restoring
      BY <1>13, <2>1, ComposeDoes DEF HealthNext, Fails
    <2>3. QED
      BY <2>1, <2>2
  <1>14. CASE Health
    BY <1>14, HealthDoes DEF Ends, Fails
  <1>15. CASE Undo
    BY <1>15, UndoDoes DEF Moves
  <1>16. CASE LeaveRunning
    BY <1>16, LeaveRunningDoes DEF Ends
  <1>17. CASE RollbackByHand
    BY <1>17, RollbackByHandDoes
  <1>18. CASE Plan
    BY <1>18, PlanDoes DEF Fails
  <1>19. CASE Halt
    BY <1>19, HaltDoes DEF Stopped, Moves, Fails
  <1>20. CASE Data
    BY <1>20, DataDoes DEF Moves, Fails
  <1>21. CASE Cancel
    BY <1>21, CancelDoes DEF Named
  <1>22. CASE Crash
    BY <1>22, CrashDoes
  <1>23. QED
    BY <1>1, <1>2, <1>3, <1>4, <1>5, <1>6, <1>7, <1>8, <1>9, <1>10, <1>11, <1>12, <1>13, <1>14,
       <1>15, <1>16, <1>17, <1>18, <1>19, <1>20, <1>21, <1>22 DEF Next

-----------------------------------------------------------------------------
(* What a Restore leaves *)

\* Only containers that exist are still being stopped, and never a replacement.
StoppingInv ==
  /\ \A b \in stopping : box[b].name # "none"
  /\ run.pc \in {"remove", "start", "health"} /\ run.new # run.old => run.new \notin stopping

LEMMA StoppingInit == Init => StoppingInv
  BY DEF Init, Idle, StoppingInv

LEMMA StoppingStep ==
  ASSUME IInv, IInv', NameInv, NameInv', StoppingInv, Next PROVE StoppingInv'
  <1>0. 0 \notin Box /\ stopping \subseteq Box
    BY DEF Box, IInv, TypeOK
  <1> USE <1>0 DEF StoppingInv
  <1>1. CASE Select
    BY <1>1, SelectDoes
  <1>2. CASE Pull
    BY <1>2, PullDoes DEF Moves, Ends
  <1>3. CASE PreHooks
    BY <1>3, PreHooksDoes DEF Moves, Ends, Apply
  <1>4. CASE TakeStop
    <2>1. run.old \in Box /\ box[run.old].name # "none" /\ run.pc = "stop"
      BY <1>4, TakeStopDoes DEF NameInv, OldNamed, Named
    <2>2. \A c \in Box : box'[c].name = box[c].name
      BY <1>4, <2>1, TakeStopDoes, TurnedKeeps DEF Stopped
    <2>3. stopping' \subseteq stopping \cup {run.old}
      BY <1>4, TakeStopDoes DEF Stopped, StopFails, StopHalfFails
    <2>4. run'.pc \notin {"remove", "start", "health"}
      BY <1>4, TakeStopDoes DEF Stopped, Moves, Ends
    <2>5. QED
      BY <2>1, <2>2, <2>3, <2>4
  <1>5. CASE TakeSave
    BY <1>5, TakeSaveDoes DEF Moves, Ends, Apply
  <1>6. CASE Restart
    BY <1>6, RestartDoes, TurnedKeeps DEF Started, Ends
  <1>7. CASE EngineStops
    <2>1. PICK b \in stopping : b \in Box /\ stopping' = stopping \ {b} /\ Turned(b, FALSE)
      BY <1>7, EngineStopsDoes
    <2>2. run' = run /\ \A c \in Box : box'[c].name = box[c].name
      BY <1>7, <2>1, EngineStopsDoes, TurnedKeeps
    <2>3. QED
      BY <2>1, <2>2
  <1>8. CASE Park
    <2>1. run.old # 0 => run.old \in Named
      BY <1>8 DEF Park, At, NameInv, ToPark
    <2>2. stopping' = stopping /\ run'.pc \notin {"remove", "start", "health"}
      BY <1>8, <2>1, ParkDoes DEF Moves, Fails, Named
    <2>3. \A c \in Box : box[c].name # "none" => box'[c].name # "none"
      BY <1>8, <2>1, ParkDoes DEF Renamed, Others, Named
    <2>4. QED
      BY <2>2, <2>3
  <1>9. CASE Create
    <2>1. CASE UNCHANGED box
      <3>1. \A b \in Box : ~(Fresh(b) /\ Created(b, "app", NewImage, FALSE))
        BY <2>1, FreshIsGone DEF Created
      <3>2. QED
        BY <1>9, <2>1, <3>1, CreateDoes DEF Moves, Fails
    <2>2. CASE ~UNCHANGED box
      <3>1. PICK b \in Box : Fresh(b) /\ Others(b) /\ run'.new = b
        BY <1>9, <2>2, CreateDoes
      <3>2. b \notin stopping
        BY <3>1, FreshIsGone
      <3>3. QED
        BY <1>9, <3>1, <3>2, CreateDoes DEF Others
    <2>3. QED
      BY <2>1, <2>2
  <1>10. CASE Unpark
    <2>1. \A c \in Box : box[c].name # "none" => box'[c].name # "none"
      BY <1>10, UnparkDoes DEF Renamed, Others
    <2>2. QED
      BY <1>10, <2>1, UnparkDoes DEF Fails
  <1>11. CASE Remove
    <2>1. run.new \notin stopping /\ run'.new = run.new /\ stopping' \subseteq stopping
      BY <1>11, RemoveDoes DEF Moves, NameInv, NewNamed
    <2>2. \A c \in stopping' : box'[c] = box[c]
      BY <1>11, RemoveDoes DEF Removed, Others
    <2>3. QED
      BY <2>1, <2>2
  <1>12. CASE Start
    BY <1>12, StartDoes, TurnedKeeps DEF Started, Moves, Ends, Fails
  <1>13. CASE Compose
    <2>0. run.old \in Named /\ run.pc = "compose"
      BY <1>13 DEF Compose, At, NameInv, OldNamed
    <2>1. stopping' \subseteq stopping /\ \A c \in stopping' : box'[c] # Gone
      BY <1>13, <2>0, ComposeDoes
    <2>2. PICK b \in Box :
            /\ Fresh(b)
            /\ \/ Started(run.old) \/ UNCHANGED box
               \/ \E name \in {"app", "other"}, up \in BOOLEAN : Swapped(b, name, up)
            /\ run'.pc = "health" => run'.new \in {run.old, b}
            /\ run'.old = run.old
      BY <1>13, <2>0, ComposeDoes DEF HealthNext, Fails
    <2>3. b \notin stopping
      BY <2>2, FreshIsGone
    <2>4. \A c \in stopping' : box'[c].name # "none"
      BY <2>0, <2>1, <2>2, <2>3, TurnedKeeps DEF Started, Swapped, Named
    <2>5. run'.pc \notin {"remove", "start"}
      BY <1>13, <2>0, ComposeDoes DEF HealthNext, Fails
    <2>6. QED
      BY <2>1, <2>2, <2>3, <2>4, <2>5
  <1>14. CASE Health
    BY <1>14, HealthDoes DEF Ends, Fails
  <1>15. CASE Undo
    BY <1>15, UndoDoes DEF Moves
  <1>16. CASE LeaveRunning
    BY <1>16, LeaveRunningDoes, TurnedKeeps DEF Started, Ends, Named
  <1>17. CASE RollbackByHand
    BY <1>17, RollbackByHandDoes
  <1>18. CASE Plan
    BY <1>18, PlanDoes DEF Fails
  <1>19. CASE Halt
    <2>1. run.old \in Box /\ box[run.old].name # "none" /\ run.pc = "halt"
      BY <1>19, HaltDoes DEF NameInv, OldNamed, Named
    <2>2. \A c \in Box : box'[c].name = box[c].name
      BY <1>19, <2>1, HaltDoes, TurnedKeeps DEF Stopped
    <2>3. stopping' \subseteq stopping \cup {run.old}
      BY <1>19, HaltDoes DEF Stopped, StopFails, StopHalfFails
    <2>4. run'.pc \notin {"remove", "start", "health"}
      BY <1>19, HaltDoes DEF Stopped, Moves, Fails
    <2>5. QED
      BY <2>1, <2>2, <2>3, <2>4
  <1>20. CASE Data
    BY <1>20, DataDoes DEF Moves, Fails
  <1>21. CASE Cancel
    BY <1>21, CancelDoes
  <1>22. CASE Crash
    BY <1>22, CrashDoes
  <1>23. QED
    BY <1>1, <1>2, <1>3, <1>4, <1>5, <1>6, <1>7, <1>8, <1>9, <1>10, <1>11, <1>12, <1>13, <1>14,
       <1>15, <1>16, <1>17, <1>18, <1>19, <1>20, <1>21, <1>22 DEF Next

-----------------------------------------------------------------------------

\* The recorded data goes back first, the recorded image after it.
PairInv ==
  run.restoring =>
    /\ run.pc \in {"park", "create", "unpark", "remove", "start"} => volume = snaps[run.snap].volume
    /\ run.pc \in {"remove", "start"} =>
         box[run.new].image = snaps[run.snap].image /\ ~box[run.new].up

LEMMA PairInit == Init => PairInv
  BY DEF Init, Idle, PairInv

\* What PairInv is about is left alone.
LEMMA PairStays ==
  ASSUME PairInv, UNCHANGED <<volume, snaps>>,
         run'.restoring = run.restoring, run'.snap = run.snap, run'.pc = run.pc, run'.new = run.new,
         run.pc \in {"remove", "start"} =>
           box'[run.new].image = box[run.new].image /\ (box'[run.new].up => box[run.new].up)
  PROVE  PairInv'
  BY DEF PairInv

LEMMA PairStep ==
  ASSUME IInv, IInv', NameInv, NameInv', KindSeen, StoppingInv, PairInv, Next PROVE PairInv'
  <1> USE DEF PairInv
  <1>1. CASE Select
    BY <1>1, SelectDoes
  <1>2. CASE Pull
    BY <1>2, PullDoes DEF Moves, Ends
  <1>3. CASE PreHooks
    BY <1>3, PreHooksDoes DEF Moves, Ends, Apply, KindSeen, KindInv
  <1>4. CASE TakeStop
    BY <1>4, TakeStopDoes DEF Moves, Ends, Stopped
  <1>5. CASE TakeSave
    BY <1>5, TakeSaveDoes DEF Moves, Ends, Apply, KindSeen, KindInv
  <1>6. CASE Restart
    BY <1>6, RestartDoes DEF Ends
  <1>7. CASE EngineStops
    <2>1. PICK b \in stopping : b \in Box /\ Turned(b, FALSE)
      BY <1>7, EngineStopsDoes
    <2>2. run.pc \in {"remove", "start"} => run.new \in Box
      BY DEF IInv, PlaceInv, Replaced
    <2>3. /\ run' = run /\ UNCHANGED <<volume, snaps>>
          /\ \A c \in Box : box'[c].image = box[c].image /\ (box'[c].up => box[c].up)
      BY <1>7, <2>1, EngineStopsDoes DEF Turned, Others
    <2>4. QED
      BY <2>2, <2>3
  <1>8. CASE Park
    <2>1. run.pc = "park" /\ (run.old # 0 => run.old \in Box)
      BY <1>8 DEF Park, At, NameInv, ToPark, Named
    <2>2. QED
      BY <1>8, <2>1, ParkDoes DEF Moves, Fails
  <1>9. CASE Create
    BY <1>9, CreateDoes DEF Moves, Fails, Created, NewImage
  <1>10. CASE Unpark
    BY <1>10, UnparkDoes DEF Fails
  <1>11. CASE Remove
    <2>1. run.new \in Box /\ run.new # run.old /\ run.pc = "remove"
      BY <1>11, RemoveDoes DEF IInv, PlaceInv, Replaced, Standby
    <2>2. box'[run.new] = box[run.new]
      BY <1>11, <2>1, RemoveDoes DEF Removed, Others
    <2>3. QED
      BY <1>11, <2>1, <2>2, RemoveDoes DEF Moves
  <1>12. CASE Start
    BY <1>12, StartDoes DEF Moves, Ends, Fails
  <1>13. CASE Compose
    <2>1. run.old \in Named /\ run.pc = "compose"
      BY <1>13 DEF Compose, At, NameInv, OldNamed
    <2>2. run'.pc \in {"health", "undo", "idle"}
      BY <1>13, <2>1, ComposeDoes DEF HealthNext, Fails
    <2>3. QED
      BY <2>2
  <1>14. CASE Health
    BY <1>14, HealthDoes DEF Ends, Fails
  <1>15. CASE Undo
    BY <1>15, UndoDoes DEF Moves
  <1>16. CASE LeaveRunning
    BY <1>16, LeaveRunningDoes DEF Ends
  <1>17. CASE RollbackByHand
    BY <1>17, RollbackByHandDoes
  <1>18. CASE Plan
    BY <1>18, PlanDoes DEF Fails
  <1>19. CASE Halt
    BY <1>19, HaltDoes DEF Stopped, Moves, Fails
  <1>20. CASE Data
    BY <1>20, DataDoes DEF Moves, Fails
  <1>21. CASE Cancel
    BY <1>21, CancelDoes, PairStays
  <1>22. CASE Crash
    BY <1>22, CrashDoes
  <1>23. QED
    BY <1>1, <1>2, <1>3, <1>4, <1>5, <1>6, <1>7, <1>8, <1>9, <1>10, <1>11, <1>12, <1>13, <1>14,
       <1>15, <1>16, <1>17, <1>18, <1>19, <1>20, <1>21, <1>22 DEF Next

-----------------------------------------------------------------------------
(* What a report means *)

\* What the Restore has put back stays as it is when the run is over.
PairLeft ==
  run.pc = "idle" /\ run.outcome = "rolledback" =>
    \E b \in Named :
      /\ b \notin stopping
      /\ run.ran => box[b].up
      /\ box[b].image = snaps[run.snap].image
      /\ volume = IF box[b].up THEN Migrated(snaps[run.snap].volume, box[b].image)
                              ELSE snaps[run.snap].volume

\* An update that has succeeded left its container running, and only a Stop that
\* nobody waited for can bring that of an idle one down.
OutageInv ==
  /\ stopping # {} => trouble >= 2
  /\ run.pc = "idle" /\ run.ran /\ run.outcome = "updated" =>
       \E b \in Named : box[b].up /\ b \notin stopping
  /\ run.pc = "idle" /\ run.ran /\ run.outcome = "nochange" =>
       trouble >= 2 \/ \E b \in Named : box[b].up

\* A run reports when it is over, not before.
NoReport == run.pc # "idle" => run.outcome = "none"

ReportInv == PairLeft /\ OutageInv /\ NoReport

LEMMA ReportInit == Init => ReportInv
  BY DEF Init, Idle, ReportInv, PairLeft, OutageInv, NoReport

LEMMA StoppingCosts ==
  ASSUME IInv, OutageInv, Next PROVE stopping' # {} => trouble' >= 2
  <1>0. trouble \in Nat
    BY Typed DEF IInv
  <1>1. CASE \E b \in stopping : stopping' = stopping \ {b} /\ UNCHANGED trouble
    BY <1>0, <1>1 DEF OutageInv
  <1>2. CASE stopping' \subseteq stopping /\ trouble' \in {trouble, trouble + 1, trouble + 2}
    BY <1>0, <1>2 DEF OutageInv
  <1>3. CASE StopHalfFails
    BY <1>0, <1>3 DEF StopHalfFails, GoesVeryWrong
  <1> USE DEF CallWorks, CallFails, GoesWell, GoesWrong, GoesVeryWrong
  <1>4. CASE Select \/ Pull \/ PreHooks \/ TakeSave
    BY <1>2, <1>4 DEF Select, Pull, PreHooks, TakeSave
  <1>5. CASE TakeStop
    BY <1>2, <1>3, <1>5 DEF TakeStop, StopWorks, StopFails
  <1>6. CASE EngineStops
    BY <1>1, <1>6 DEF EngineStops
  <1>7. CASE Restart \/ Park \/ Create \/ Unpark \/ Remove \/ Start
    BY <1>2, <1>7 DEF Restart, StartAgain, StartRefused, Park, Create, Unpark, Remove, Start
  <1>8. CASE Compose
    BY <1>2, <1>8 DEF Compose
  <1>9. CASE Health \/ Undo \/ LeaveRunning \/ RollbackByHand \/ Plan \/ Data \/ Cancel \/ Crash
    BY <1>2, <1>9 DEF Health, Undo, LeaveRunning, StartAgain, StartRefused, RollbackByHand, Plan,
       Data, Cancel, Crash
  <1>10. CASE Halt
    BY <1>2, <1>3, <1>10 DEF Halt, StopWorks, StopFails
  <1>11. QED
    BY <1>4, <1>5, <1>6, <1>7, <1>8, <1>9, <1>10 DEF Next

\* Most steps do not report success.
LEMMA NoNews ==
  ASSUME NoReport, NoReport', stopping' # {} => trouble' >= 2,
         run'.pc # "idle" \/ run'.outcome \in {"none", "failed"}
  PROVE  ReportInv'
  BY DEF ReportInv, PairLeft, OutageInv

LEMMA ReportStep ==
  ASSUME IInv, IInv', NameInv, NameInv', KindSeen, StoppingInv, PairInv, ReportInv, Next
  PROVE  ReportInv'
  <1>0. NoReport /\ (stopping' # {} => trouble' >= 2)
    BY StoppingCosts DEF ReportInv
  <1>a. ASSUME NoReport', run'.pc # "idle" \/ run'.outcome \in {"none", "failed"}
        PROVE  ReportInv'
    BY <1>0, <1>a, NoNews
  <1> USE DEF NoReport
  <1>1. CASE Select
    BY <1>1, <1>0, <1>a, SelectDoes
  <1>2. CASE Pull
    BY <1>2, <1>0, <1>a, PullDoes DEF Moves, Ends, ReportKept
  <1>3. CASE PreHooks
    BY <1>3, <1>0, <1>a, PreHooksDoes DEF Moves, Ends, ReportKept
  <1>4. CASE TakeStop
    BY <1>4, <1>0, <1>a, TakeStopDoes DEF Moves, Ends, Stopped, ReportKept
  <1>5. CASE TakeSave
    BY <1>5, <1>0, <1>a, TakeSaveDoes DEF Moves, Ends, ReportKept
  <1>6. CASE Restart
    BY <1>6, <1>0, <1>a, RestartDoes DEF Ends
  <1>7. CASE EngineStops
    <2>1. PICK b \in stopping : b \in Box /\ stopping' = stopping \ {b} /\ Turned(b, FALSE)
      BY <1>7, EngineStopsDoes
    <2>2. /\ run' = run /\ UNCHANGED <<volume, snaps, trouble>> /\ Named' = Named
          /\ \A c \in Named \ stopping : c \notin stopping' /\ box'[c] = box[c]
      BY <1>7, <2>1, EngineStopsDoes, TurnedKeeps DEF Turned, Others, Named
    <2>3. PairLeft'
      BY <2>2 DEF ReportInv, PairLeft
    <2>4. OutageInv'
      BY <1>0, <2>1, <2>2 DEF ReportInv, OutageInv
    <2>5. QED
      BY <1>0, <2>2, <2>3, <2>4 DEF ReportInv
  <1>8. CASE Park
    <2>1. run.pc = "park" /\ (run.old # 0 => run.old \in Box)
      BY <1>8 DEF Park, At, NameInv, ToPark, Named
    <2>2. QED
      BY <1>8, <1>0, <1>a, <2>1, ParkDoes DEF Moves, Fails, ReportKept
  <1>9. CASE Create
    BY <1>9, <1>0, <1>a, CreateDoes DEF Moves, Fails, ReportKept
  <1>10. CASE Unpark
    BY <1>10, <1>0, <1>a, UnparkDoes DEF Fails, ReportKept
  <1>11. CASE Remove
    BY <1>11, <1>0, <1>a, RemoveDoes DEF Moves, ReportKept
  <1>12. CASE Start
    <2>1. CASE Moves("health") \/ Fails
      BY <1>12, <2>1, <1>0, <1>a, StartDoes DEF Moves, Fails, ReportKept
    <2>2. CASE run.restoring /\ Ends("rolledback")
      <3>1. /\ run.pc = "start" /\ run.new \in Named /\ run.new \in Box /\ run.new \notin stopping
            /\ volume = snaps[run.snap].volume
            /\ box[run.new].image = snaps[run.snap].image /\ ~box[run.new].up
        BY <1>12, <2>2, StartDoes DEF NameInv, NewNamed, StoppingInv, PairInv
      <3>2. /\ UNCHANGED <<stopping, snaps>>
            /\ run'.snap = run.snap /\ run'.ran = run.ran /\ run'.outcome = "rolledback"
            /\ \/ Started(run.new)
               \/ ~WillStart /\ UNCHANGED <<box, volume>>
        BY <1>12, <2>2, StartDoes DEF Ends, RunKept, Fails
      <3>3. CASE Started(run.new)
        <4>1. /\ run.new \in Named' /\ box'[run.new].up
              /\ box'[run.new].image = snaps[run.snap].image
          BY <3>1, <3>3, TurnedKeeps DEF Started, Turned
        <4>2. volume' = Migrated(snaps[run.snap].volume, box'[run.new].image)
          BY <3>1, <3>3, <4>1 DEF Started
        <4>3. PairLeft'
          BY <3>1, <3>2, <4>1, <4>2 DEF PairLeft, Migrated
        <4>4. QED
          BY <1>0, <2>2, <3>2, <4>3 DEF ReportInv, OutageInv, Ends
      <3>4. CASE ~WillStart /\ UNCHANGED <<box, volume>>
        <4>1. ~run.ran
          BY <3>4 DEF WillStart, KindSeen, KindInv
        <4>2. PairLeft'
          BY <3>1, <3>2, <3>4, <4>1 DEF PairLeft, Named
        <4>3. QED
          BY <1>0, <2>2, <3>2, <4>2 DEF ReportInv, OutageInv, Ends
      <3>5. QED
        BY <3>2, <3>3, <3>4
    <2>3. QED
      BY <1>12, <2>1, <2>2, StartDoes
  <1>13. CASE Compose
    <2>1. run.old \in Named /\ run.pc = "compose"
      BY <1>13 DEF Compose, At, NameInv, OldNamed
    <2>2. HealthNext(run'.new) \/ Fails
      BY <1>13, <2>1, ComposeDoes DEF HealthNext
    <2>3. QED
      BY <1>0, <1>a, <2>1, <2>2 DEF HealthNext, Fails, ReportKept
  <1>14. CASE Health
    <2>1. CASE Fails
      BY <1>14, <2>1, <1>0, <1>a, HealthDoes DEF Fails, ReportKept
    <2>2. CASE ~Fails
      <3>1. /\ box[run.new].up /\ run.new \in Named /\ UNCHANGED <<box, stopping>>
            /\ run'.pc = "idle"
            /\ run'.outcome = IF run.new = run.old THEN "nochange" ELSE "updated"
            /\ run.new # run.old => run.new \notin stopping
        BY <1>14, <2>2, HealthDoes DEF Ends, NameInv, NewNamed, StoppingInv
      <3>2. run.new \in Named' /\ box'[run.new].up
        BY <3>1 DEF Named
      <3>3. PairLeft' /\ NoReport'
        BY <3>1 DEF PairLeft
      <3>4. OutageInv'
        BY <1>0, <3>1, <3>2 DEF OutageInv
      <3>5. QED
        BY <3>3, <3>4 DEF ReportInv
    <2>3. QED
      BY <2>1, <2>2
  <1>15. CASE Undo
    BY <1>15, <1>0, <1>a, UndoDoes DEF Moves, ReportKept
  <1>16. CASE LeaveRunning
    BY <1>16, <1>0, <1>a, LeaveRunningDoes DEF Ends
  <1>17. CASE RollbackByHand
    BY <1>17, <1>0, <1>a, RollbackByHandDoes
  <1>18. CASE Plan
    BY <1>18, <1>0, <1>a, PlanDoes DEF Fails, ReportKept
  <1>19. CASE Halt
    BY <1>19, <1>0, <1>a, HaltDoes DEF Stopped, Moves, Fails, ReportKept
  <1>20. CASE Data
    BY <1>20, <1>0, <1>a, DataDoes DEF Moves, Fails, ReportKept
  <1>21. CASE Cancel
    BY <1>21, <1>0, <1>a, CancelDoes DEF ReportKept
  <1>22. CASE Crash
    BY <1>22, <1>0, <1>a, CrashDoes
  <1>23. QED
    BY <1>1, <1>2, <1>3, <1>4, <1>5, <1>6, <1>7, <1>8, <1>9, <1>10, <1>11, <1>12, <1>13, <1>14,
       <1>15, <1>16, <1>17, <1>18, <1>19, <1>20, <1>21, <1>22 DEF Next

-----------------------------------------------------------------------------
(* Versions and data *)

\* Nothing is newer than the release of the last run.
VersionInv ==
  /\ volume <= run.n
  /\ \A b \in Box : box[b].image <= run.n
  /\ \A m \in Version : snaps[m].image <= run.n /\ snaps[m].volume <= run.n

LEMMA VersionInit == Init => VersionInv
  <1>1. SUFFICES ASSUME Init PROVE VersionInv
    OBVIOUS
  <1>2. \A b \in Box : box[b].image = 0
    BY <1>1 DEF Init, App, Gone
  <1>3. volume = 0 /\ run.n = 0 /\ \A m \in Version : snaps[m].image = 0 /\ snaps[m].volume = 0
    BY <1>1 DEF Init, Idle, NoSnap
  <1>4. QED
    BY <1>2, <1>3 DEF VersionInv

LEMMA NumberKept ==
  ASSUME IInv, NameInv, Next, ~Select PROVE run'.n = run.n
  <1>1. (\E pc : Moves(pc) \/ Ends(pc) \/ Stopped(pc) \/ HealthNext(pc)) \/ Fails \/ RunKept
          => run'.n = run.n
    BY DEF Moves, Ends, Stopped, HealthNext, Fails, RunKept
  <1>3. CASE Pull \/ PreHooks \/ TakeStop
    BY <1>1, <1>3, PullDoes, PreHooksDoes, TakeStopDoes
  <1>4. CASE TakeSave \/ Restart \/ EngineStops
    BY <1>1, <1>4, TakeSaveDoes, RestartDoes, EngineStopsDoes
  <1>5. CASE Create \/ Unpark \/ Remove \/ Start
    BY <1>1, <1>5, CreateDoes, UnparkDoes, RemoveDoes, StartDoes
  <1>6. CASE Park
    <2>1. run.pc = "park" /\ (run.old # 0 => run.old \in Box)
      BY <1>6 DEF Park, At, NameInv, ToPark, Named
    <2>2. QED
      BY <1>1, <1>6, <2>1, ParkDoes
  <1>7. CASE Compose
    <2>1. run.pc = "compose" /\ run.old \in Named
      BY <1>7 DEF Compose, At, NameInv, OldNamed
    <2>2. QED
      BY <1>1, <1>7, <2>1, ComposeDoes
  <1>8. CASE Health \/ Undo \/ LeaveRunning \/ RollbackByHand
    BY <1>1, <1>8, HealthDoes, UndoDoes, LeaveRunningDoes, RollbackByHandDoes
  <1>9. CASE Plan \/ Halt \/ Data \/ Cancel \/ Crash
    BY <1>1, <1>9, PlanDoes, HaltDoes, DataDoes, CancelDoes, CrashDoes
  <1>10. QED
    BY <1>3, <1>4, <1>5, <1>6, <1>7, <1>8, <1>9 DEF Next

LEMMA NumberGrows ==
  ASSUME IInv, NameInv, Next PROVE run'.n \in Nat /\ run'.n >= run.n
  <1>1. run.n \in Nat
    BY Typed DEF IInv
  <1>2. CASE Select
    BY <1>1, <1>2, SelectDoes
  <1>3. QED
    BY <1>1, <1>2, NumberKept

\* Only a replacement has an image of its own.
LEMMA Images ==
  ASSUME IInv, NameInv, VersionInv, Next PROVE \A b \in Box : box'[b].image <= run.n
  <1>0. /\ \A b \in Box : box[b].image <= run.n
        /\ run.n \in Nat /\ NewImage <= run.n
    BY Typed DEF IInv, VersionInv, NewImage
  <1> DEFINE Goal == \A b \in Box : box'[b].image <= run.n
  <1>1. ASSUME \A b \in Box : box'[b].image = box[b].image PROVE Goal
    BY <1>0, <1>1
  <1>2. CASE UNCHANGED box
    BY <1>1, <1>2
  <1>3. ASSUME NEW b \in Box, NEW up, Turned(b, up) PROVE Goal
    BY <1>1, <1>3, TurnedKeeps
  <1>4. CASE Select \/ Pull \/ PreHooks \/ TakeSave \/ Health \/ Undo \/ RollbackByHand \/ Plan
             \/ Data \/ Cancel \/ Crash
    BY <1>2, <1>4, SelectDoes, PullDoes, PreHooksDoes, TakeSaveDoes, HealthDoes, UndoDoes,
       RollbackByHandDoes, PlanDoes, DataDoes, CancelDoes, CrashDoes
  <1>5. CASE TakeStop \/ Restart \/ EngineStops \/ Start \/ Halt
    BY <1>2, <1>3, <1>5, TakeStopDoes, RestartDoes, EngineStopsDoes, StartDoes, HaltDoes
       DEF Started, Stopped
  <1>6. CASE LeaveRunning
    BY <1>2, <1>3, <1>6, LeaveRunningDoes DEF Started, Named
  <1>7. CASE Park
    <2>1. run.pc = "park" /\ (run.old # 0 => run.old \in Box)
      BY <1>7 DEF Park, At, NameInv, ToPark, Named
    <2>2. QED
      BY <1>1, <1>2, <1>7, <2>1, ParkDoes DEF Renamed, Others
  <1>8. CASE Create
    BY <1>0, <1>2, <1>8, CreateDoes DEF Created, Others
  <1>9. CASE Unpark
    BY <1>1, <1>2, <1>9, UnparkDoes DEF Renamed, Others
  <1>10. CASE Remove
    BY <1>0, <1>2, <1>10, RemoveDoes DEF Removed, Others, Gone
  <1>11. CASE Compose
    <2>1. run.old \in Named /\ run.pc = "compose" /\ run.old \in Box
      BY <1>11 DEF Compose, At, NameInv, OldNamed, Named
    <2>2. PICK b \in Box :
            \/ Started(run.old) \/ UNCHANGED box
            \/ \E name \in {"app", "other"}, up \in BOOLEAN : Swapped(b, name, up)
      BY <1>11, <2>1, ComposeDoes
    <2>3. ASSUME NEW name, NEW up, Swapped(b, name, up) PROVE Goal
      BY <1>0, <2>1, <2>3 DEF Swapped, Created, Gone
    <2>4. QED
      BY <1>2, <1>3, <2>1, <2>2, <2>3 DEF Started
  <1>12. QED
    BY <1>4, <1>5, <1>6, <1>7, <1>8, <1>9, <1>10, <1>11 DEF Next

\* The data is that of a version that has run, or of a snapshot.
LEMMA Volumes ==
  ASSUME IInv, NameInv, VersionInv, Next PROVE volume' <= run.n
  <1>0. /\ volume <= run.n /\ run.n \in Nat /\ snaps[run.snap].volume <= run.n
        /\ \A b \in Box : box[b].image <= run.n
    BY Typed DEF IInv, VersionInv
  <1>1. ASSUME NEW v, v <= run.n, volume' = Migrated(volume, v) \/ volume' = volume
        PROVE  volume' <= run.n
    BY <1>0, <1>1 DEF Migrated
  <1>2. ASSUME NEW b \in Box, Started(b) PROVE volume' <= run.n
    BY <1>0, <1>1, <1>2 DEF Started
  <1>3. CASE UNCHANGED volume
    BY <1>0, <1>3
  <1>4. CASE Restart \/ Start
    BY <1>2, <1>3, <1>4, RestartDoes, StartDoes
  <1>5. CASE LeaveRunning
    BY <1>2, <1>3, <1>5, LeaveRunningDoes DEF Named
  <1>6. CASE Data
    BY <1>0, <1>6, DataDoes
  <1>7. CASE Compose
    <2>1. run.old \in Named /\ run.pc = "compose" /\ run.old \in Box
      BY <1>7 DEF Compose, At, NameInv, OldNamed, Named
    <2>2. Started(run.old) \/ UNCHANGED volume \/ volume' = Migrated(volume, run.n)
      BY <1>7, <2>1, ComposeDoes
    <2>3. QED
      BY <1>0, <1>1, <1>2, <1>3, <2>1, <2>2
  <1>8. CASE ~(Restart \/ Start \/ LeaveRunning \/ Data \/ Compose)
    <2>1. UNCHANGED volume
      BY <1>8 DEF Next, Select, Pull, PreHooks, TakeStop, TakeSave, EngineStops, Park, Create,
         Unpark, Remove, Health, Undo, RollbackByHand, Plan, Halt, Cancel, Crash
    <2>2. QED
      BY <1>3, <2>1
  <1>9. QED
    BY <1>4, <1>5, <1>6, <1>7, <1>8

LEMMA Snapshots ==
  ASSUME IInv, Next
  PROVE  \/ UNCHANGED snaps
         \/ /\ TakeSave /\ snaps'[run.n].image = box[run.old].image
            /\ snaps'[run.n].volume = volume
            /\ \A m \in Version \ {run.n} : snaps'[m] = snaps[m]
  <1>1. CASE TakeSave
    BY <1>1, TakeSaveDoes
  <1>2. CASE ~TakeSave
    BY <1>2 DEF Next, Select, Pull, PreHooks, TakeStop, Restart, EngineStops, Park, Create,
       Unpark, Remove, Start, Compose, Health, Undo, LeaveRunning, RollbackByHand, Plan, Halt,
       Data, Cancel, Crash
  <1>3. QED
    BY <1>1, <1>2

LEMMA VersionStep ==
  ASSUME IInv, IInv', NameInv, VersionInv, Next PROVE VersionInv'
  <1>1. run'.n \in Nat /\ run.n \in Nat /\ run'.n >= run.n
    BY NumberGrows, Typed DEF IInv
  <1>2. \A b \in Box : box'[b].image <= run'.n
    <2>1. \A b \in Box : box'[b].image <= run.n /\ box'[b].image \in Nat
      BY Images DEF IInv, TypeOK, BoxState, Version
    <2>2. QED
      BY <1>1, <2>1
  <1>3. volume' <= run'.n
    <2>1. volume' <= run.n /\ volume' \in Nat
      BY Volumes DEF IInv, TypeOK, Version
    <2>2. QED
      BY <1>1, <2>1
  <1>4. \A m \in Version : snaps'[m].image <= run'.n /\ snaps'[m].volume <= run'.n
    <2>1. \A m \in Version : snaps'[m].image <= run.n /\ snaps'[m].volume <= run.n
      <3>1. CASE UNCHANGED snaps
        BY <3>1 DEF VersionInv
      <3>2. CASE TakeSave
        BY <3>2, Snapshots, TakeSaveDoes DEF VersionInv
      <3>3. QED
        BY <3>1, <3>2, Snapshots
    <2>2. \A m \in Version : snaps'[m].image \in Nat /\ snaps'[m].volume \in Nat
      BY DEF IInv, TypeOK, Snap, Version
    <2>3. QED
      BY <1>1, <2>1, <2>2
  <1>5. QED
    BY <1>2, <1>3, <1>4 DEF VersionInv

-----------------------------------------------------------------------------
(* Orderly runs *)

\* Whatever is up has the name, and at times nothing is up.
UpInv ==
  /\ \A b \in Box : box[b].up => b \in Named
  /\ run.pc \in {"save", "compose", "park", "create", "unpark", "remove", "start", "data"} =>
       \A b \in Box : ~box[b].up
  /\ run.pc \in {"pull", "hook", "stop"} => run.policy.snapshot /\ ~run.policy.hot

\* Whatever has the name can run on the data, except while the data of a newer
\* snapshot is in the volume and the container of that snapshot is still to come.
Fits == \A b \in Named : volume <= box[b].image
FitInv ==
  /\ ~(run.kind = "rollback" /\ run.pc = "park") => Fits
  /\ \A m \in Version : snaps[m].volume <= snaps[m].image

\* An update can be undone: what has the name, or had it, can run on the data
\* that was recorded, and on the data there is.
UndoInv ==
  run.kind = "update" /\ run.pc # "idle" =>
    /\ run.restoring => run.snap # 0
    /\ run.snap # 0 => \A b \in Named : snaps[run.snap].volume <= box[b].image
    /\ run.pc \in {"create", "unpark"} /\ run.old # 0 =>
         /\ volume <= box[run.old].image
         /\ run.snap # 0 => snaps[run.snap].volume <= box[run.old].image

OrderInv == run.orderly => UpInv /\ FitInv /\ UndoInv

LEMMA OrderInit == Init => OrderInv
  <1>1. SUFFICES ASSUME Init PROVE OrderInv
    OBVIOUS
  <1>2. \A b \in Box : box[b].image = 0 /\ (box[b].up => b \in Named)
    BY <1>1 DEF Init, App, Gone, Named
  <1>3. /\ volume = 0 /\ run.pc = "idle" /\ run.kind = "update"
        /\ \A m \in Version : snaps[m].image = 0 /\ snaps[m].volume = 0
    BY <1>1 DEF Init, Idle, NoSnap
  <1>4. QED
    BY <1>2, <1>3 DEF OrderInv, UpInv, FitInv, Fits, UndoInv, Named

\* A run that is in order has been all along.
LEMMA OrderlySoFar ==
  ASSUME IInv, NameInv, Next, run'.orderly PROVE run.orderly
  <1>1. (\E pc : Moves(pc) \/ Ends(pc) \/ Stopped(pc) \/ HealthNext(pc)) => run.orderly
    BY DEF Moves, Ends, Stopped, HealthNext, ReportKept
  <1>2. Fails => run.orderly
    BY DEF Fails, ReportKept
  <1>3. ReportKept => run.orderly
    BY DEF ReportKept
  <1>4. CASE Select \/ Pull \/ PreHooks \/ TakeStop
    BY <1>1, <1>4, SelectDoes, PullDoes, PreHooksDoes, TakeStopDoes
  <1>5. CASE TakeSave \/ Restart \/ EngineStops
    BY <1>1, <1>3, <1>5, TakeSaveDoes, RestartDoes, EngineStopsDoes
  <1>6. CASE Create \/ Unpark \/ Remove \/ Start
    BY <1>1, <1>2, <1>3, <1>6, CreateDoes, UnparkDoes, RemoveDoes, StartDoes
  <1>7. CASE Park
    <2>1. run.pc = "park" /\ (run.old # 0 => run.old \in Box)
      BY <1>7 DEF Park, At, NameInv, ToPark, Named
    <2>2. QED
      BY <1>1, <1>2, <1>7, <2>1, ParkDoes
  <1>8. CASE Compose
    <2>1. run.pc = "compose" /\ run.old \in Named
      BY <1>8 DEF Compose, At, NameInv, OldNamed
    <2>2. QED
      BY <1>1, <1>2, <1>8, <2>1, ComposeDoes
  <1>9. CASE Health \/ Undo \/ LeaveRunning \/ RollbackByHand
    BY <1>1, <1>2, <1>3, <1>9, HealthDoes, UndoDoes, LeaveRunningDoes, RollbackByHandDoes
  <1>10. CASE Plan \/ Halt \/ Data \/ Cancel \/ Crash
    BY <1>1, <1>2, <1>3, <1>10, PlanDoes, HaltDoes, DataDoes, CancelDoes, CrashDoes
  <1>11. QED
    BY <1>4, <1>5, <1>6, <1>7, <1>8, <1>9, <1>10 DEF Next

LEMMA DownKept ==
  ASSUME \A b \in Box : ~box'[b].up, run'.pc \notin {"pull", "hook", "stop"}
  PROVE  UpInv'
  BY DEF UpInv

LEMMA UpStep ==
  ASSUME IInv, IInv', NameInv, NameInv', KindSeen, UpInv, run'.orderly, Next PROVE UpInv'
  <1>0. 0 \notin Box
    BY DEF Box
  <1>a. ASSUME NEW b \in Named, \A c \in Box \ {b} : ~box'[c].up, Named' = Named,
               run'.pc \notin {"pull", "hook", "stop", "save", "compose", "park", "create",
                               "unpark", "remove", "start", "data"}
        PROVE  UpInv'
    BY <1>a DEF UpInv, Named
  <1>b. ASSUME NEW b \in Named, Started(b) PROVE Named' = Named /\ \A c \in Box \ {b} : ~box'[c].up
    <2>1. b \in Box /\ \A c \in Box \ {b} : ~box[c].up
      BY <1>b DEF UpInv, NameInv, OneName, Named
    <2>2. QED
      BY <1>b, <2>1, TurnedKeeps DEF Started, Turned, Others
  <1>1. CASE Select
    BY <1>1, SelectDoes DEF UpInv, Named
  <1>2. CASE Pull
    BY <1>2, PullDoes DEF Moves, Ends, RunKept, UpInv, Named
  <1>3. CASE PreHooks
    BY <1>3, PreHooksDoes DEF Moves, Ends, RunKept, UpInv, Named
  <1>4. CASE TakeStop
    <2>1. run.old \in Named /\ run.policy.snapshot /\ ~run.policy.hot
      BY <1>4, TakeStopDoes DEF NameInv, OldNamed, UpInv
    <2>2. \A c \in Box \ {run.old} : ~box[c].up
      BY <2>1 DEF UpInv, NameInv, OneName
    <2>3. CASE Stopped("save")
      <3>1. \A c \in Box : ~box'[c].up
        BY <2>2, <2>3 DEF Stopped, Turned, Others
      <3>2. QED
        BY <2>3, <3>1, DownKept DEF Stopped
    <2>4. CASE ~StopFirst /\ Moves("save") /\ UNCHANGED box
      BY <2>1, <2>2, <2>4, DownKept DEF Moves, StopFirst
    <2>5. CASE UNCHANGED box /\ run'.pc \in {"restart", "idle"}
      BY <2>5 DEF UpInv, Named
    <2>6. QED
      BY <1>4, <2>3, <2>4, <2>5, TakeStopDoes DEF Moves, Ends
  <1>5. CASE TakeSave
    BY <1>5, TakeSaveDoes DEF Moves, Ends, Apply, UpInv, Named
  <1>6. CASE Restart
    <2>1. run.old \in Named
      BY <1>6, RestartDoes DEF NameInv, OldNamed
    <2>2. CASE UNCHANGED box
      BY <1>6, <2>2, RestartDoes DEF Ends, UpInv, Named
    <2>3. CASE Started(run.old)
      BY <1>6, <2>1, <2>3, <1>a, <1>b, RestartDoes DEF Ends
    <2>4. QED
      BY <1>6, <2>2, <2>3, RestartDoes
  <1>7. CASE EngineStops
    <2>1. PICK b \in stopping : b \in Box /\ Turned(b, FALSE) /\ run' = run
      BY <1>7, EngineStopsDoes
    <2>2. Named' = Named /\ \A c \in Box : box'[c].up => box[c].up
      BY <2>1, TurnedKeeps DEF Turned, Others
    <2>3. QED
      BY <2>1, <2>2 DEF UpInv
  <1>8. CASE Park
    <2>1. /\ run.pc = "park" /\ (run.old # 0 => run.old \in Box)
          /\ \A c \in Box : ~box[c].up
      BY <1>8 DEF Park, At, NameInv, ToPark, Named, UpInv
    <2>2. \A c \in Box : ~box'[c].up
      BY <1>8, <2>1, ParkDoes DEF Renamed, Others
    <2>3. QED
      BY <1>8, <2>1, <2>2, DownKept, ParkDoes DEF Moves, Fails
  <1>9. CASE Create
    <2>1. run.pc = "create" /\ \A c \in Box : ~box[c].up
      BY <1>9, CreateDoes DEF UpInv
    <2>2. \A c \in Box : ~box'[c].up
      BY <1>9, <2>1, CreateDoes DEF Created, Others
    <2>3. QED
      BY <1>9, <2>2, DownKept, CreateDoes DEF Moves, Fails
  <1>10. CASE Unpark
    <2>1. run.pc = "unpark" /\ \A c \in Box : ~box[c].up
      BY <1>10, UnparkDoes DEF UpInv
    <2>2. \A c \in Box : ~box'[c].up
      BY <1>10, <2>1, UnparkDoes DEF Renamed, Others
    <2>3. QED
      BY <1>10, <2>2, DownKept, UnparkDoes DEF Fails
  <1>11. CASE Remove
    <2>1. run.pc = "remove" /\ \A c \in Box : ~box[c].up
      BY <1>11, RemoveDoes DEF UpInv
    <2>2. \A c \in Box : ~box'[c].up
      BY <1>11, <2>1, RemoveDoes DEF Removed, Others, Gone
    <2>3. QED
      BY <1>11, <2>2, DownKept, RemoveDoes DEF Moves
  <1>12. CASE Start
    <2>1. run.new \in Named /\ run.pc = "start" /\ \A c \in Box : ~box[c].up
      BY <1>12, StartDoes DEF NameInv, NewNamed, UpInv
    <2>2. run'.pc \in {"health", "idle", "undo"}
      BY <1>12, StartDoes DEF Moves, Ends, Fails
    <2>3. CASE UNCHANGED box
      BY <2>1, <2>2, <2>3, DownKept
    <2>4. CASE Started(run.new)
      BY <2>1, <2>2, <2>4, <1>a, <1>b
    <2>5. QED
      BY <1>12, <2>3, <2>4, StartDoes
  <1>13. CASE Compose
    <2>0. /\ run.old \in Named /\ run.pc = "compose" /\ \A c \in Box : ~box[c].up
      BY <1>13 DEF Compose, At, NameInv, OldNamed, UpInv
    <2>1. run'.pc \in {"health", "idle", "undo"}
      BY <1>13, <2>0, ComposeDoes DEF HealthNext, Fails
    <2>2. CASE UNCHANGED box
      BY <2>0, <2>1, <2>2, DownKept
    <2>3. CASE Started(run.old)
      BY <2>0, <2>1, <2>3, <1>a, <1>b
    <2>4. ASSUME NEW b \in Box, NEW name, Swapped(b, name, FALSE) PROVE UpInv'
      <3>1. \A c \in Box : ~box'[c].up
        BY <2>0, <2>4 DEF Swapped, Created, Gone
      <3>2. QED
        BY <2>1, <3>1, DownKept
    <2>5. ASSUME NEW b \in Box, Swapped(b, "app", TRUE) PROVE UpInv'
      <3>1. b \in Named' /\ \A c \in Box \ {b} : ~box'[c].up
        BY <2>0, <2>5 DEF Swapped, Created, Gone, Named
      <3>2. QED
        BY <2>1, <3>1 DEF UpInv
    <2>6. QED
      BY <1>13, <2>0, <2>2, <2>3, <2>4, <2>5, ComposeDoes
  <1>14. CASE Health
    BY <1>14, HealthDoes DEF Ends, Fails, UpInv, Named
  <1>15. CASE Undo
    BY <1>15, UndoDoes DEF Moves, UpInv, Named
  <1>16. CASE LeaveRunning
    <2>1. CASE UNCHANGED box
      BY <1>16, <2>1, LeaveRunningDoes DEF Ends, UpInv, Named
    <2>2. ASSUME NEW b \in Named, Started(b) PROVE UpInv'
      BY <1>16, <2>2, <1>a, <1>b, LeaveRunningDoes DEF Ends
    <2>3. QED
      BY <1>16, <2>1, <2>2, LeaveRunningDoes
  <1>17. CASE RollbackByHand
    BY <1>17, RollbackByHandDoes DEF UpInv, Named
  <1>18. CASE Plan
    BY <1>18, PlanDoes DEF Fails, UpInv, Named
  <1>19. CASE Halt
    <2>1. run.old \in Named /\ run.pc = "halt"
      BY <1>19, HaltDoes DEF NameInv, OldNamed
    <2>2. \A c \in Box \ {run.old} : ~box[c].up
      BY <2>1 DEF UpInv, NameInv, OneName
    <2>3. CASE Stopped("data")
      <3>1. \A c \in Box : ~box'[c].up
        BY <2>2, <2>3 DEF Stopped, Turned, Others
      <3>2. QED
        BY <2>3, <3>1, DownKept DEF Stopped
    <2>4. CASE ~box[run.old].up /\ Moves("data") /\ UNCHANGED box
      BY <2>1, <2>2, <2>4, DownKept DEF Moves
    <2>5. CASE UNCHANGED box /\ Fails
      BY <2>5 DEF UpInv, Named, Fails
    <2>6. QED
      BY <1>19, <2>3, <2>4, <2>5, HaltDoes
  <1>20. CASE Data
    BY <1>20, DataDoes DEF Moves, Fails, UpInv, Named
  <1>21. CASE Cancel
    BY <1>21, CancelDoes DEF UpInv, Named
  <1>22. CASE Crash
    BY <1>22, CrashDoes DEF UpInv, Named
  <1>23. QED
    BY <1>1, <1>2, <1>3, <1>4, <1>5, <1>6, <1>7, <1>8, <1>9, <1>10, <1>11, <1>12, <1>13, <1>14,
       <1>15, <1>16, <1>17, <1>18, <1>19, <1>20, <1>21, <1>22 DEF Next

LEMMA FitSnapshots ==
  ASSUME IInv, NameInv, FitInv, Next
  PROVE  \A m \in Version : snaps'[m].volume <= snaps'[m].image
  <1>1. CASE TakeSave
    <2>1. run.pc = "save" /\ run.old \in Named /\ volume <= box[run.old].image
      BY <1>1, TakeSaveDoes DEF NameInv, OldNamed, FitInv, Fits
    <2>2. QED
      BY <1>1, <2>1, TakeSaveDoes DEF FitInv
  <1>2. CASE UNCHANGED snaps
    BY <1>2 DEF FitInv
  <1>3. QED
    BY <1>1, <1>2, Snapshots

LEMMA FitNames ==
  ASSUME IInv, IInv', NameInv, NameInv', KindSeen, PairInv, VersionInv, UpInv, FitInv, UndoInv,
         run'.orderly, Next
  PROVE  ~(run'.kind = "rollback" /\ run'.pc = "park") => Fits'
  <1>0. /\ volume \in Nat /\ volume' \in Nat /\ run.n \in Nat
        /\ \A b \in Box : box[b].image \in Nat
        /\ run.snap \in Version
    BY Typed DEF IInv, TypeOK, Version
  <1> DEFINE Goal == ~(run'.kind = "rollback" /\ run'.pc = "park") => Fits'
  <1>a. ASSUME Fits, UNCHANGED volume,
               \A c \in Named' : c \in Named /\ box'[c].image = box[c].image
        PROVE  Goal
    BY <1>a DEF Fits
  <1>b. ASSUME NEW b \in Named, Started(b), Fits PROVE Goal
    <2>1. b \in Box /\ volume <= box[b].image /\ Named' = {b} /\ box'[b].image = box[b].image
      BY <1>b, TurnedKeeps DEF Started, Fits, NameInv, OneName, Named
    <2>2. volume' <= box[b].image
      BY <1>0, <1>b, <2>1 DEF Started, Migrated
    <2>3. QED
      BY <2>1, <2>2 DEF Fits
  <1>c. ASSUME Named' = {} PROVE Goal
    BY <1>c DEF Fits
  <1>1. run.pc # "park" => Fits
    BY DEF FitInv
  <1>2. ASSUME run.pc # "park", UNCHANGED <<box, volume>> PROVE Goal
    BY <1>1, <1>2, <1>a DEF Named
  <1>3. CASE Select \/ Pull \/ PreHooks \/ TakeSave \/ Health \/ Undo \/ RollbackByHand \/ Plan
    BY <1>2, <1>3, SelectDoes, PullDoes, PreHooksDoes, TakeSaveDoes, HealthDoes, UndoDoes,
       RollbackByHandDoes, PlanDoes
  <1>4. CASE TakeStop
    <2>1. run.old \in Box /\ run.pc = "stop" /\ UNCHANGED volume /\ (Turned(run.old, FALSE) \/ UNCHANGED box)
      BY <1>4, TakeStopDoes DEF Stopped
    <2>2. QED
      BY <1>1, <1>2, <1>a, <2>1, TurnedKeeps DEF Named
  <1>5. CASE Restart
    <2>1. run.old \in Named /\ run.pc = "restart"
      BY <1>5, RestartDoes DEF NameInv, OldNamed
    <2>2. Started(run.old) \/ UNCHANGED <<box, volume>>
      BY <1>5, RestartDoes
    <2>3. QED
      BY <1>1, <1>2, <1>b, <2>1, <2>2
  <1>6. CASE EngineStops
    <2>1. PICK b \in stopping : b \in Box /\ Turned(b, FALSE) /\ UNCHANGED <<run, volume>>
      BY <1>6, EngineStopsDoes
    <2>2. Named' = Named /\ \A c \in Box : box'[c].image = box[c].image
      BY <2>1, TurnedKeeps
    <2>3. QED
      BY <2>1, <2>2 DEF FitInv, Fits, Named
  <1>7. CASE Park
    <2>1. run.pc = "park" /\ (IF run.old = 0 THEN Named = {} ELSE run.old \in Named)
      BY <1>7 DEF Park, At, NameInv, ToPark
    <2>2. CASE run.old = 0
      BY <1>7, <1>c, <2>1, <2>2, ParkDoes DEF Named
    <2>3. CASE run.old # 0 /\ Renamed(run.old, "aside")
      <3>1. Named' = {}
        BY <2>1, <2>3 DEF Renamed, Others, NameInv, OneName, Named
      <3>2. QED
        BY <1>c, <3>1
    <2>4. CASE Fails /\ UNCHANGED <<box, volume>>
      <3>1. run.kind # "rollback"
        BY <2>1, <2>4 DEF Fails, BrokenOff, KindSeen, KindInv
      <3>2. QED
        BY <1>a, <2>4, <3>1 DEF FitInv, Named
    <2>5. QED
      BY <1>7, <2>1, <2>2, <2>3, <2>4, ParkDoes DEF Named
  <1>8. CASE Create
    <2>1. run.pc = "create" /\ Named = {}
      BY <1>8, CreateDoes DEF NameInv, NoneNamed
    <2>2. CASE UNCHANGED <<box, volume>>
      BY <1>2, <2>1, <2>2
    <2>3. ASSUME NEW b \in Box, Others(b), Created(b, "app", NewImage, FALSE), UNCHANGED volume
          PROVE  Goal
      <3>1. Named' = {b} /\ box'[b].image = NewImage
        BY <2>1, <2>3 DEF Others, Created, Named
      <3>2. volume <= NewImage
        <4>1. CASE run.restoring
          <5>1. volume = snaps[run.snap].volume
            BY <2>1, <4>1 DEF PairInv
          <5>2. QED
            BY <1>0, <4>1, <5>1 DEF FitInv, NewImage
        <4>2. CASE ~run.restoring
          BY <4>2 DEF NewImage, VersionInv
        <4>3. QED
          BY <4>1, <4>2
      <3>3. QED
        BY <2>3, <3>1, <3>2 DEF Fits
    <2>4. QED
      BY <1>8, <2>2, <2>3, CreateDoes
  <1>9. CASE Unpark
    <2>1. /\ run.pc = "unpark" /\ run.old \in Box /\ run.old # 0 /\ Named = {} /\ UNCHANGED volume
          /\ Fails
      BY <1>9, UnparkDoes DEF NameInv, NoneNamed, Box
    <2>2. CASE UNCHANGED box
      BY <1>2, <2>1, <2>2
    <2>3. CASE Renamed(run.old, "app")
      <3>1. run.kind = "update"
        <4>1. run.kind # "rollback"
          BY <2>1 DEF Fails, BrokenOff, KindSeen, KindInv
        <4>2. run.kind # "backup"
          BY <2>1 DEF KindSeen, BackupInv
        <4>3. QED
          BY <4>1, <4>2 DEF IInv, TypeOK, RunState
      <3>2. volume <= box[run.old].image
        BY <2>1, <3>1 DEF UndoInv
      <3>3. Named' = {run.old} /\ box'[run.old].image = box[run.old].image
        BY <2>1, <2>3 DEF Renamed, Others, Named
      <3>4. QED
        BY <2>1, <3>2, <3>3 DEF Fits
    <2>4. QED
      BY <1>9, <2>2, <2>3, UnparkDoes
  <1>10. CASE Remove
    <2>1. run.pc = "remove" /\ UNCHANGED volume
      BY <1>10, RemoveDoes
    <2>2. \A c \in Named' : c \in Named /\ box'[c].image = box[c].image
      BY <1>10, RemoveDoes DEF Removed, Others, Gone, Named
    <2>3. QED
      BY <1>1, <1>a, <2>1, <2>2
  <1>11. CASE Start
    <2>1. run.new \in Named /\ run.pc = "start"
      BY <1>11, StartDoes DEF NameInv, NewNamed
    <2>2. Started(run.new) \/ UNCHANGED <<box, volume>>
      BY <1>11, StartDoes
    <2>3. QED
      BY <1>1, <1>2, <1>b, <2>1, <2>2
  <1>12. CASE Compose
    <2>0. run.old \in Named /\ run.pc = "compose" /\ Fits
      BY <1>12 DEF Compose, At, NameInv, OldNamed, FitInv
    <2>1. ASSUME NEW b \in Box, NEW name, NEW up, Swapped(b, name, up),
                 volume' <= run.n
          PROVE  Goal
      <3>1. Named' \subseteq {b} /\ box'[b].image = run.n
        BY <2>0, <2>1 DEF Swapped, Created, Gone, NameInv, OneName, Named
      <3>2. QED
        BY <2>1, <3>1 DEF Fits
    <2>2. volume <= run.n /\ Migrated(volume, run.n) <= run.n
      BY <1>0 DEF VersionInv, Migrated
    <2>3. QED
      BY <1>2, <1>b, <1>12, <2>0, <2>1, <2>2, ComposeDoes
  <1>13. CASE LeaveRunning
    <2>1. ASSUME NEW b \in Named, Started(b) PROVE Goal
      BY <1>1, <1>13, <1>b, <2>1, LeaveRunningDoes
    <2>2. QED
      BY <1>2, <1>13, <2>1, LeaveRunningDoes
  <1>14. CASE Halt
    <2>1. run.old \in Box /\ run.pc = "halt" /\ UNCHANGED volume /\ (Turned(run.old, FALSE) \/ UNCHANGED box)
      BY <1>14, HaltDoes DEF Stopped
    <2>2. QED
      BY <1>1, <1>2, <1>a, <2>1, TurnedKeeps DEF Named
  <1>15. CASE Data
    <2>1. /\ run.pc = "data" /\ run.restoring /\ UNCHANGED box /\ run'.kind = run.kind
          /\ volume' \in {volume, snaps[run.snap].volume}
          /\ run'.pc = "park" \/ Fails
      BY <1>15, DataDoes DEF Moves, RunKept, Fails, KindSeen, KindInv
    <2>2. CASE run.kind = "update"
      <3>1. \A b \in Named : snaps[run.snap].volume <= box[b].image /\ volume <= box[b].image
        BY <2>1, <2>2 DEF UndoInv, FitInv, Fits
      <3>2. QED
        BY <2>1, <3>1 DEF Fits, Named
    <2>3. CASE run.kind = "rollback"
      BY <2>1, <2>3 DEF Fails, BrokenOff
    <2>4. run.kind # "backup"
      BY <2>1 DEF KindSeen, BackupInv
    <2>5. QED
      BY <2>2, <2>3, <2>4 DEF IInv, TypeOK, RunState
  <1>16. CASE Cancel
    BY <1>16, CancelDoes DEF FitInv, Fits, Named
  <1>17. CASE Crash
    <2>1. run.pc = "park" => run.kind # "rollback"
      BY <1>17, CrashDoes DEF BrokenOff
    <2>2. Fits /\ UNCHANGED <<box, volume>>
      BY <1>17, <2>1, CrashDoes DEF FitInv
    <2>3. QED
      BY <2>2, <1>a DEF Named
  <1>18. QED
    BY <1>3, <1>4, <1>5, <1>6, <1>7, <1>8, <1>9, <1>10, <1>11, <1>12, <1>13, <1>14, <1>15, <1>16,
       <1>17 DEF Next

LEMMA UndoStep ==
  ASSUME IInv, IInv', NameInv, NameInv', KindSeen, VersionInv, FitInv, UndoInv, run'.orderly, Next
  PROVE  UndoInv'
  <1>0. run.snap \in Version /\ run.n \in Version /\ run.old \in Box \cup {0} /\ 0 \notin Box
    BY Typed DEF IInv, Box
  <1>a. ASSUME run.pc # "idle", run'.kind = run.kind, run'.restoring = run.restoring,
               run'.snap = run.snap, UNCHANGED snaps,
               run'.pc \notin {"create", "unpark"},
               \A c \in Named' : c \in Named /\ box'[c].image = box[c].image
        PROVE  UndoInv'
    BY <1>a DEF UndoInv
  <1>b. ASSUME NEW b \in Box, NEW up, Turned(b, up)
        PROVE  \A c \in Named' : c \in Named /\ box'[c].image = box[c].image
    BY <1>b, TurnedKeeps DEF Named
  <1>c. UNCHANGED box => \A c \in Named' : c \in Named /\ box'[c].image = box[c].image
    BY DEF Named
  <1>d. run'.pc = "idle" => UndoInv'
    BY DEF UndoInv
  <1> USE DEF RunKept
  <1>1. CASE Select
    BY <1>1, SelectDoes DEF UndoInv
  <1>2. CASE Pull
    BY <1>2, <1>a, <1>c, PullDoes DEF Moves, Ends
  <1>3. CASE PreHooks
    BY <1>3, <1>a, <1>c, PreHooksDoes DEF Moves, Ends, Apply
  <1>4. CASE TakeStop
    <2>1. \A c \in Named' : c \in Named /\ box'[c].image = box[c].image
      BY <1>4, <1>b, <1>c, TakeStopDoes DEF Stopped
    <2>2. QED
      BY <1>4, <1>a, <2>1, TakeStopDoes DEF Stopped, Moves, Ends
  <1>5. CASE TakeSave
    <2>1. /\ run.pc = "save" /\ UNCHANGED box /\ run'.kind = run.kind
          /\ run'.restoring = run.restoring /\ run'.pc \notin {"create", "unpark"} /\ ~run.restoring
      BY <1>5, TakeSaveDoes DEF Moves, Ends, Apply, KindSeen, KindInv
    <2>2. CASE UNCHANGED snaps /\ run'.snap = run.snap
      BY <2>1, <2>2, <1>a, <1>c
    <2>3. CASE snaps'[run.n].volume = volume /\ run'.snap = run.n
      <3>1. \A c \in Named' : volume <= box'[c].image
        BY <2>1 DEF FitInv, Fits, Named
      <3>2. QED
        BY <2>1, <2>3, <3>1 DEF UndoInv
    <2>4. QED
      BY <1>5, <2>2, <2>3, TakeSaveDoes DEF Moves, Ends
  <1>6. CASE Restart
    BY <1>6, <1>d, RestartDoes DEF Ends
  <1>7. CASE EngineStops
    <2>1. PICK b \in stopping : b \in Box /\ Turned(b, FALSE) /\ UNCHANGED <<run, volume, snaps>>
      BY <1>7, EngineStopsDoes
    <2>2. Named' = Named /\ \A c \in Box : box'[c].image = box[c].image
      BY <2>1, TurnedKeeps
    <2>3. QED
      BY <1>0, <2>1, <2>2 DEF UndoInv, Named
  <1>8. CASE Park
    <2>1. /\ run.pc = "park" /\ (run.old # 0 => run.old \in Named) /\ (run.old # 0 => run.old \in Box)
          /\ (run.old = 0 => Named = {})
      BY <1>8 DEF Park, At, NameInv, ToPark, Named
    <2>2. CASE Fails /\ UNCHANGED <<box, snaps>>
      BY <1>a, <1>c, <2>1, <2>2 DEF Fails
    <2>3. CASE Moves("create")
      <3>1. SUFFICES ASSUME run.kind = "update" PROVE UndoInv'
        BY <2>3 DEF UndoInv, Moves
      <3>2. CASE run.old = 0
        BY <1>8, <2>1, <2>3, <3>2, ParkDoes DEF UndoInv, Moves, Named
      <3>3. CASE run.old # 0
        <4>1. Renamed(run.old, "aside") /\ UNCHANGED <<volume, snaps>>
          BY <1>8, <2>1, <2>3, <3>3, ParkDoes DEF Moves, Fails
        <4>2. Named' = {}
          BY <2>3 DEF Moves, NameInv, NoneNamed
        <4>3. volume <= box[run.old].image /\ box'[run.old].image = box[run.old].image
          BY <2>1, <3>1, <3>3, <4>1 DEF FitInv, Fits, Renamed
        <4>4. run.restoring => run.snap # 0
          BY <2>1, <3>1 DEF UndoInv
        <4>5. run.snap # 0 => snaps[run.snap].volume <= box[run.old].image
          BY <2>1, <3>1, <3>3 DEF UndoInv
        <4>6. QED
          BY <2>3, <4>1, <4>2, <4>3, <4>4, <4>5 DEF UndoInv, Moves
      <3>4. QED
        BY <3>2, <3>3
    <2>4. QED
      BY <1>8, <2>1, <2>2, <2>3, ParkDoes
  <1>9. CASE Create
    <2>1. run.pc = "create" /\ Named = {} /\ UNCHANGED <<volume, snaps>>
      BY <1>9, CreateDoes DEF NameInv, NoneNamed
    <2>2. CASE UNCHANGED box /\ Fails
      BY <1>a, <1>c, <2>1, <2>2 DEF Fails
    <2>3. CASE UNCHANGED box /\ Moves("unpark")
      BY <2>1, <2>3 DEF UndoInv, Moves, Named
    <2>4. ASSUME NEW b \in Box, Others(b), Created(b, "app", NewImage, FALSE),
                 run'.kind = run.kind, run'.snap = run.snap, run'.restoring = run.restoring,
                 run'.pc \in {"start", "remove"}
          PROVE  UndoInv'
      <3>1. Named' = {b} /\ box'[b].image = NewImage
        BY <2>1, <2>4 DEF Others, Created, Named
      <3>2. snaps[run.snap].volume <= NewImage
        BY <1>0 DEF NewImage, FitInv, VersionInv
      <3>3. QED
        BY <2>1, <2>4, <3>1, <3>2 DEF UndoInv
    <2>5. QED
      BY <1>9, <2>2, <2>3, <2>4, CreateDoes
  <1>10. CASE Unpark
    <2>1. /\ run.pc = "unpark" /\ run.old \in Box /\ run.old # 0 /\ Named = {} /\ UNCHANGED snaps
          /\ Fails
      BY <1>10, UnparkDoes DEF NameInv, NoneNamed, Box
    <2>2. CASE UNCHANGED box
      BY <1>a, <1>c, <2>1, <2>2 DEF Fails
    <2>3. CASE Renamed(run.old, "app")
      <3>1. Named' = {run.old} /\ box'[run.old].image = box[run.old].image
        BY <2>1, <2>3 DEF Renamed, Others, Named
      <3>2. QED
        BY <2>1, <3>1 DEF UndoInv, Fails
    <2>4. QED
      BY <1>10, <2>2, <2>3, UnparkDoes
  <1>11. CASE Remove
    <2>1. \A c \in Named' : c \in Named /\ box'[c].image = box[c].image
      BY <1>11, RemoveDoes DEF Removed, Others, Gone, Named
    <2>2. QED
      BY <1>11, <1>a, <2>1, RemoveDoes DEF Moves
  <1>12. CASE Start
    <2>1. \A c \in Named' : c \in Named /\ box'[c].image = box[c].image
      BY <1>12, <1>b, <1>c, StartDoes DEF Started
    <2>2. QED
      BY <1>12, <1>a, <2>1, StartDoes DEF Moves, Ends, Fails
  <1>13. CASE Compose
    <2>0. run.old \in Named /\ run.old \in Box /\ run.pc = "compose"
      BY <1>13 DEF Compose, At, NameInv, OldNamed, Named
    <2>1. /\ run'.kind = run.kind /\ run'.restoring = run.restoring /\ run'.snap = run.snap
          /\ run'.pc \notin {"create", "unpark"} /\ UNCHANGED snaps
      BY <1>13, <2>0, ComposeDoes DEF HealthNext, Fails
    <2>2. ASSUME NEW b \in Box, NEW name, NEW up, Swapped(b, name, up) PROVE UndoInv'
      <3>1. Named' \subseteq {b} /\ box'[b].image = run.n
        BY <2>0, <2>2 DEF Swapped, Created, Gone, NameInv, OneName, Named
      <3>2. snaps[run.snap].volume <= run.n
        BY <1>0 DEF VersionInv
      <3>3. QED
        BY <2>0, <2>1, <3>1, <3>2 DEF UndoInv
    <2>3. CASE Started(run.old) \/ UNCHANGED box
      BY <1>a, <1>b, <1>c, <2>0, <2>1, <2>3 DEF Started
    <2>4. QED
      BY <1>13, <2>0, <2>2, <2>3, ComposeDoes
  <1>14. CASE Health
    BY <1>14, <1>a, <1>c, HealthDoes DEF Ends, Fails
  <1>15. CASE Undo
    BY <1>15, <1>c, UndoDoes DEF Moves, UndoInv
  <1>16. CASE LeaveRunning
    BY <1>16, <1>d, LeaveRunningDoes DEF Ends
  <1>17. CASE RollbackByHand
    BY <1>17, RollbackByHandDoes DEF UndoInv
  <1>18. CASE Plan
    BY <1>18, <1>a, <1>c, PlanDoes DEF Fails
  <1>19. CASE Halt
    <2>1. \A c \in Named' : c \in Named /\ box'[c].image = box[c].image
      BY <1>19, <1>b, <1>c, HaltDoes DEF Stopped
    <2>2. QED
      BY <1>19, <1>a, <2>1, HaltDoes DEF Stopped, Moves, Fails
  <1>20. CASE Data
    BY <1>20, <1>a, <1>c, DataDoes DEF Moves, Fails
  <1>21. CASE Cancel
    BY <1>21, CancelDoes DEF UndoInv, Named
  <1>22. CASE Crash
    BY <1>22, <1>d, CrashDoes
  <1>23. QED
    BY <1>1, <1>2, <1>3, <1>4, <1>5, <1>6, <1>7, <1>8, <1>9, <1>10, <1>11, <1>12, <1>13, <1>14,
       <1>15, <1>16, <1>17, <1>18, <1>19, <1>20, <1>21, <1>22 DEF Next

LEMMA OrderStep ==
  ASSUME IInv, IInv', NameInv, NameInv', KindSeen, PairInv, VersionInv, OrderInv, Next
  PROVE  OrderInv'
  <1>1. SUFFICES ASSUME run'.orderly PROVE UpInv' /\ FitInv' /\ UndoInv'
    BY DEF OrderInv
  <1>2. UpInv /\ FitInv /\ UndoInv
    BY <1>1, OrderlySoFar DEF OrderInv
  <1>3. UpInv' /\ UndoInv'
    BY <1>1, <1>2, UpStep, UndoStep
  <1>4. FitInv'
    BY <1>1, <1>2, FitNames, FitSnapshots DEF FitInv
  <1>5. QED
    BY <1>3, <1>4

-----------------------------------------------------------------------------
(* One mishap *)

Alive(b) == quality[box[b].image] # "dead"

\* Before anything has gone wrong nothing is cancelled and no release is bad.
CalmInv ==
  /\ trouble = 0 => ~run.cancelled /\ \A v \in Version : quality[v] = "good"
  /\ run.pc = "unpark" => trouble >= 1

\* A version that has run is not a dead one, and the release of this run is new.
AliveInv ==
  /\ \A b \in Box : box[b].up => Alive(b)
  /\ run.pc = "pull" => \A b \in Box : box[b].image < run.n

\* Without a snapshot to go back to, or without a wish to, nothing is undone.
PolicyInv ==
  /\ run.pc \in {"pull", "hook", "stop", "save"} => run.n # 0
  /\ run.pc = "compose" => run.policy.compose
  /\ run.pc \in {"compose", "park", "create", "unpark", "remove", "start", "health", "undo"}
       /\ ~run.restoring /\ run.policy.snapshot => run.snap # 0
  /\ run.pc = "leave" => ~(run.policy.snapshot /\ run.policy.rollback)

\* Where the name is missing, the old container is aside and will have it back,
\* or compose has failed and nothing else can fail any more.
NamelessInv ==
  trouble <= 1 /\ Named = {} =>
    \/ run.pc \in {"create", "unpark"} /\ run.old # 0
    \/ /\ trouble = 1 /\ ~run.cancelled
       /\ \/ run.pc \in {"plan", "data", "park", "create"}
          \/ run.policy.compose /\ run.pc \in {"undo", "leave", "idle"}

\* What was up at the beginning is up or can be started again.
RevivalInv ==
  trouble <= 1 /\ run.ran =>
    /\ run.pc \in {"pull", "hook", "stop"} => box[run.old].up
    /\ run.pc = "save" => box[run.old].up \/ run.halted
    /\ run.pc \in {"save", "restart", "compose"} => Alive(run.old)
    /\ run.pc \in {"park", "create", "unpark"} /\ ~run.restoring => Alive(run.old)
    /\ run.pc \in {"remove", "start", "health"} /\ ~run.restoring =>
         box[run.new].image = run.n \/ Alive(run.new)
    /\ run.pc \in {"undo", "leave"} => \A b \in Named : box[b].image = run.n \/ Alive(b)

LEMMA MishapInit == Init => CalmInv /\ AliveInv /\ PolicyInv /\ NamelessInv /\ RevivalInv
  <1>1. SUFFICES ASSUME Init PROVE CalmInv /\ AliveInv /\ PolicyInv /\ NamelessInv /\ RevivalInv
    OBVIOUS
  <1>2. 1 \in Named /\ 0 \in Version /\ \A b \in Box : box[b].image = 0
    BY <1>1, BoundsAssumption DEF Init, App, Gone, Named, Box, Version
  <1>3. run.pc = "idle" /\ ~run.ran /\ ~run.cancelled /\ \A v \in Version : quality[v] = "good"
    BY <1>1 DEF Init, Idle
  <1>4. QED
    BY <1>2, <1>3 DEF CalmInv, AliveInv, Alive, PolicyInv, NamelessInv, RevivalInv

LEMMA TroubleGrows ==
  ASSUME IInv, Next PROVE trouble' \in Nat /\ trouble' >= trouble
  <1>0. trouble \in Nat
    BY Typed DEF IInv
  <1>1. GoesWell \/ GoesWrong \/ GoesVeryWrong => trouble' \in Nat /\ trouble' >= trouble
    BY <1>0 DEF GoesWell, GoesWrong, GoesVeryWrong
  <1>2. GoesWell \/ GoesWrong \/ GoesVeryWrong
    <2> USE DEF CallWorks, CallFails
    <2>1. CASE Select \/ EngineStops \/ RollbackByHand
      BY <2>1 DEF Select, EngineStops, RollbackByHand, GoesWell
    <2>2. CASE Pull \/ PreHooks \/ TakeStop \/ TakeSave \/ Restart
      BY <2>2 DEF Pull, PreHooks, TakeStop, StopWorks, StopFails, StopHalfFails, TakeSave,
         Restart, StartAgain, StartRefused
    <2>3. CASE Park \/ Create \/ Unpark \/ Remove \/ Start
      BY <2>3 DEF Park, Create, Unpark, Remove, Start, StartRefused
    <2>4. CASE Compose \/ Health \/ Undo \/ LeaveRunning
      BY <2>4 DEF Compose, Health, Undo, LeaveRunning, StartAgain, StartRefused
    <2>5. CASE Plan \/ Halt \/ Data \/ Cancel \/ Crash
      BY <2>5 DEF Plan, Halt, StopWorks, StopFails, StopHalfFails, Data, Cancel, Crash
    <2>6. QED
      BY <2>1, <2>2, <2>3, <2>4, <2>5 DEF Next
  <1>3. QED
    BY <1>1, <1>2

LEMMA Qualities ==
  ASSUME Next PROVE UNCHANGED quality \/ Pull
  BY DEF Next, Select, PreHooks, TakeStop, TakeSave, Restart, EngineStops, Park, Create,
     Unpark, Remove, Start, Compose, Health, Undo, LeaveRunning, RollbackByHand, Plan, Halt,
     Data, Cancel, Crash

\* A run is cancelled by Cancel only.
LEMMA Cancelled ==
  ASSUME IInv, NameInv, Next, run'.cancelled PROVE run.cancelled \/ Cancel
  <1>1. (\E pc : Moves(pc) \/ Ends(pc) \/ Stopped(pc) \/ HealthNext(pc)) => run.cancelled
    BY DEF Moves, Ends, Stopped, HealthNext, RunKept
  <1>2. Fails \/ RunKept => run.cancelled
    BY DEF Fails, RunKept
  <1>4. CASE Select \/ Pull \/ PreHooks \/ TakeStop
    BY <1>1, <1>4, SelectDoes, PullDoes, PreHooksDoes, TakeStopDoes
  <1>5. CASE TakeSave \/ Restart \/ EngineStops
    BY <1>1, <1>2, <1>5, TakeSaveDoes, RestartDoes, EngineStopsDoes
  <1>6. CASE Create \/ Unpark \/ Remove \/ Start
    BY <1>1, <1>2, <1>6, CreateDoes, UnparkDoes, RemoveDoes, StartDoes
  <1>7. CASE Park
    <2>1. run.pc = "park" /\ (run.old # 0 => run.old \in Box)
      BY <1>7 DEF Park, At, NameInv, ToPark, Named
    <2>2. QED
      BY <1>1, <1>2, <1>7, <2>1, ParkDoes
  <1>8. CASE Compose
    <2>1. run.pc = "compose" /\ run.old \in Named
      BY <1>8 DEF Compose, At, NameInv, OldNamed
    <2>2. QED
      BY <1>1, <1>2, <1>8, <2>1, ComposeDoes
  <1>9. CASE Health \/ Undo \/ LeaveRunning \/ RollbackByHand
    BY <1>1, <1>2, <1>9, HealthDoes, UndoDoes, LeaveRunningDoes, RollbackByHandDoes
  <1>10. CASE Plan \/ Halt \/ Data \/ Crash
    BY <1>1, <1>2, <1>10, PlanDoes, HaltDoes, DataDoes, CrashDoes
  <1>11. QED
    BY <1>4, <1>5, <1>6, <1>7, <1>8, <1>9, <1>10 DEF Next

\* An old container that cannot be replaced is one more mishap.
LEMMA ToUnpark ==
  ASSUME IInv, NameInv, CalmInv, Next, run'.pc = "unpark" PROVE trouble' >= 1
  <1>0. trouble \in Nat
    BY Typed DEF IInv
  <1>1. CASE Create
    <2>1. CallFails /\ Named = {}
      BY <1>1, CreateDoes DEF Moves, Fails, NameInv, NoneNamed
    <2>2. QED
      BY <1>0, <2>1 DEF CallFails, Live, GoesWell, GoesWrong, CalmInv
  <1>2. run.pc = "unpark" => trouble' >= 1
    BY <1>0, TroubleGrows DEF CalmInv
  <1>3. CASE Cancel \/ EngineStops
    BY <1>2, <1>3, CancelDoes, EngineStopsDoes
  <1>4. CASE Select \/ Pull \/ PreHooks \/ TakeStop \/ TakeSave \/ Restart
    BY <1>4, SelectDoes, PullDoes, PreHooksDoes, TakeStopDoes, TakeSaveDoes, RestartDoes
       DEF Moves, Ends, Stopped, Apply
  <1>5. CASE Park
    <2>1. run.pc = "park" /\ (run.old # 0 => run.old \in Box)
      BY <1>5 DEF Park, At, NameInv, ToPark, Named
    <2>2. QED
      BY <1>5, <2>1, ParkDoes DEF Moves, Fails
  <1>6. CASE Unpark \/ Remove \/ Start
    BY <1>6, UnparkDoes, RemoveDoes, StartDoes DEF Moves, Ends, Fails
  <1>7. CASE Compose
    <2>1. run.pc = "compose" /\ run.old \in Named
      BY <1>7 DEF Compose, At, NameInv, OldNamed
    <2>2. QED
      BY <1>7, <2>1, ComposeDoes DEF HealthNext, Fails
  <1>8. CASE Health \/ Undo \/ LeaveRunning \/ RollbackByHand
    BY <1>8, HealthDoes, UndoDoes, LeaveRunningDoes, RollbackByHandDoes DEF Moves, Ends, Fails
  <1>9. CASE Plan \/ Halt \/ Data \/ Crash
    BY <1>9, PlanDoes, HaltDoes, DataDoes, CrashDoes DEF Moves, Fails, Stopped
  <1>10. QED
    BY <1>1, <1>3, <1>4, <1>5, <1>6, <1>7, <1>8, <1>9 DEF Next

LEMMA CalmStep ==
  ASSUME IInv, IInv', NameInv, CalmInv, Next PROVE CalmInv'
  <1>0. trouble \in Nat /\ trouble' \in Nat /\ trouble' >= trouble
    BY TroubleGrows, Typed DEF IInv
  <1>1. ASSUME trouble' = 0 PROVE ~run'.cancelled
    <2>1. trouble = 0 /\ ~GoesWrong
      BY <1>0, <1>1 DEF GoesWrong
    <2>2. QED
      BY <2>1, Cancelled, CancelDoes DEF CalmInv
  <1>2. ASSUME trouble' = 0 PROVE \A v \in Version : quality'[v] = "good"
    <2>1. trouble = 0 /\ ~GoesWrong
      BY <1>0, <1>2 DEF GoesWrong
    <2>2. UNCHANGED quality
      BY <2>1, Qualities, PullDoes
    <2>3. QED
      BY <2>1, <2>2 DEF CalmInv
  <1>3. QED
    BY <1>1, <1>2, ToUnpark DEF CalmInv

LEMMA PolicyStep ==
  ASSUME IInv, IInv', NameInv, KindSeen, PolicyInv, Next PROVE PolicyInv'
  <1>0. run.n \in Nat
    BY Typed DEF IInv
  <1> USE DEF PolicyInv, RunKept
  <1>1. CASE Select
    BY <1>0, <1>1, SelectDoes
  <1>2. CASE Pull
    BY <1>2, PullDoes DEF Moves, Ends
  <1>3. CASE PreHooks
    BY <1>3, PreHooksDoes DEF Moves, Ends, Apply
  <1>4. CASE TakeStop
    BY <1>4, TakeStopDoes DEF Moves, Ends, Stopped
  <1>5. CASE TakeSave
    BY <1>5, TakeSaveDoes DEF Moves, Ends, Apply
  <1>6. CASE Restart
    BY <1>6, RestartDoes DEF Ends
  <1>7. CASE EngineStops
    BY <1>7, EngineStopsDoes
  <1>8. CASE Park
    <2>1. run.pc = "park" /\ (run.old # 0 => run.old \in Box)
      BY <1>8 DEF Park, At, NameInv, ToPark, Named
    <2>2. QED
      BY <1>8, <2>1, ParkDoes DEF Moves, Fails
  <1>9. CASE Create
    BY <1>9, CreateDoes DEF Moves, Fails
  <1>10. CASE Unpark
    BY <1>10, UnparkDoes DEF Fails
  <1>11. CASE Remove
    BY <1>11, RemoveDoes DEF Moves
  <1>12. CASE Start
    BY <1>12, StartDoes DEF Moves, Ends, Fails
  <1>13. CASE Compose
    <2>1. run.pc = "compose" /\ run.old \in Named
      BY <1>13 DEF Compose, At, NameInv, OldNamed
    <2>2. /\ RunKept /\ run'.snap = run.snap /\ run'.restoring = run.restoring
          /\ run'.pc \in {"health", "idle", "undo"}
      BY <1>13, <2>1, ComposeDoes DEF HealthNext, Fails
    <2>3. QED
      BY <2>1, <2>2
  <1>14. CASE Health
    BY <1>14, HealthDoes DEF Ends, Fails
  <1>15. CASE Undo
    BY <1>15, UndoDoes DEF Moves, KindSeen, KindInv
  <1>16. CASE LeaveRunning
    BY <1>16, LeaveRunningDoes DEF Ends
  <1>17. CASE RollbackByHand
    BY <1>17, RollbackByHandDoes
  <1>18. CASE Plan
    BY <1>18, PlanDoes DEF Fails, KindSeen, KindInv
  <1>19. CASE Halt
    BY <1>19, HaltDoes DEF Stopped, Moves, Fails, KindSeen, KindInv
  <1>20. CASE Data
    BY <1>20, DataDoes DEF Moves, Fails, KindSeen, KindInv
  <1>21. CASE Cancel
    BY <1>21, CancelDoes
  <1>22. CASE Crash
    BY <1>22, CrashDoes
  <1>23. QED
    BY <1>1, <1>2, <1>3, <1>4, <1>5, <1>6, <1>7, <1>8, <1>9, <1>10, <1>11, <1>12, <1>13, <1>14,
       <1>15, <1>16, <1>17, <1>18, <1>19, <1>20, <1>21, <1>22 DEF Next

LEMMA AliveStep ==
  ASSUME IInv, IInv', NameInv, VersionInv, AliveInv, Next PROVE AliveInv'
  <1>0. run.n \in Nat /\ \A b \in Box : box[b].image \in Version /\ box[b].image \in Nat
    BY Typed DEF IInv
  <1> USE DEF AliveInv, Alive
  <1>a. ASSUME UNCHANGED quality, run'.pc # "pull",
               \A b \in Box : box'[b].up => box[b].up /\ box'[b].image = box[b].image
        PROVE  AliveInv'
    BY <1>a
  <1>b. ASSUME UNCHANGED quality, run'.pc # "pull", NEW b \in Box, Started(b)
        PROVE  AliveInv'
    <2>1. quality[box[b].image] # "dead" /\ box'[b].image = box[b].image
          /\ \A c \in Box \ {b} : box'[c] = box[c]
      BY <1>b DEF Started, Turned, Others
    <2>2. QED
      BY <1>b, <2>1
  <1>c. ASSUME NEW b \in Box, Turned(b, FALSE)
        PROVE  \A c \in Box : /\ box'[c].image = box[c].image
                              /\ box'[c].up => box[c].up
    BY <1>c DEF Turned, Others
  <1>1. CASE Select
    <2>1. UNCHANGED <<box, quality>> /\ run'.n = run.n + 1
      BY <1>1, SelectDoes
    <2>2. \A b \in Box : box[b].image < run.n + 1
      BY <1>0 DEF VersionInv
    <2>3. QED
      BY <2>1, <2>2
  <1>2. CASE Pull
    <2>1. /\ \A b \in Box : box[b].image # run.n
          /\ UNCHANGED box /\ run'.pc # "pull"
      BY <1>0, <1>2, PullDoes DEF Moves, Ends
    <2>2. \A b \in Box : quality'[box[b].image] = quality[box[b].image]
      BY <1>0, <1>2, <2>1, PullDoes
    <2>3. QED
      BY <2>1, <2>2
  <1>3. CASE PreHooks \/ TakeSave \/ Health \/ Undo
    BY <1>3, <1>a, PreHooksDoes, TakeSaveDoes, HealthDoes, UndoDoes DEF Moves, Ends, Fails, Apply
  <1>4. CASE TakeStop
    BY <1>4, <1>a, <1>c, TakeStopDoes DEF Moves, Ends, Stopped
  <1>5. CASE Restart
    BY <1>5, <1>a, <1>b, RestartDoes DEF Ends
  <1>6. CASE EngineStops
    BY <1>6, <1>c, EngineStopsDoes
  <1>7. CASE Park
    <2>1. run.pc = "park" /\ (run.old # 0 => run.old \in Box)
      BY <1>7 DEF Park, At, NameInv, ToPark, Named
    <2>2. \A c \in Box : box'[c].up => box[c].up /\ box'[c].image = box[c].image
      BY <1>7, <2>1, ParkDoes DEF Renamed, Others
    <2>3. QED
      BY <1>7, <1>a, <2>1, <2>2, ParkDoes DEF Moves, Fails
  <1>8. CASE Create
    <2>1. \A c \in Box : box'[c].up => box[c].up /\ box'[c].image = box[c].image
      BY <1>8, CreateDoes DEF Created, Others
    <2>2. QED
      BY <1>8, <1>a, <2>1, CreateDoes DEF Moves, Fails
  <1>9. CASE Unpark
    <2>1. \A c \in Box : box'[c].up => box[c].up /\ box'[c].image = box[c].image
      BY <1>9, UnparkDoes DEF Renamed, Others
    <2>2. QED
      BY <1>9, <1>a, <2>1, UnparkDoes DEF Fails
  <1>10. CASE Remove
    <2>1. \A c \in Box : box'[c].up => box[c].up /\ box'[c].image = box[c].image
      BY <1>10, RemoveDoes DEF Removed, Others, Gone
    <2>2. QED
      BY <1>10, <1>a, <2>1, RemoveDoes DEF Moves
  <1>11. CASE Start
    BY <1>11, <1>a, <1>b, StartDoes DEF Moves, Ends, Fails
  <1>12. CASE Compose
    <2>0. run.old \in Named /\ run.old \in Box /\ run.pc = "compose"
      BY <1>12 DEF Compose, At, NameInv, OldNamed, Named
    <2>1. run'.pc # "pull" /\ UNCHANGED quality
      BY <1>12, <2>0, ComposeDoes DEF HealthNext, Fails
    <2>2. ASSUME NEW b \in Box, NEW name, NEW up, Swapped(b, name, up),
                 up => quality[run.n] # "dead"
          PROVE  AliveInv'
      BY <2>0, <2>1, <2>2 DEF Swapped, Created, Gone
    <2>3. UNCHANGED box => AliveInv'
      BY <1>a, <2>1
    <2>4. Started(run.old) => AliveInv'
      BY <1>b, <2>0, <2>1
    <2>5. QED
      BY <1>12, <2>0, <2>2, <2>3, <2>4, ComposeDoes
  <1>13. CASE LeaveRunning
    BY <1>13, <1>a, <1>b, LeaveRunningDoes DEF Ends, Named
  <1>14. CASE RollbackByHand \/ Plan \/ Data \/ Crash
    BY <1>14, <1>a, RollbackByHandDoes, PlanDoes, DataDoes, CrashDoes DEF Moves, Fails
  <1>15. CASE Halt
    BY <1>15, <1>a, <1>c, HaltDoes DEF Stopped, Moves, Fails
  <1>16. CASE Cancel
    BY <1>16, CancelDoes
  <1>17. QED
    BY <1>1, <1>2, <1>3, <1>4, <1>5, <1>6, <1>7, <1>8, <1>9, <1>10, <1>11, <1>12, <1>13, <1>14,
       <1>15, <1>16 DEF Next

\* With one mishap behind it a run that is not cancelled can only fail by a second.
LEMMA SecondMishap ==
  ASSUME trouble \in Nat, trouble = 1, ~run.cancelled, CallFails PROVE trouble' = 2
  BY DEF CallFails, Live, GoesWell, GoesWrong

LEMMA NamelessStep ==
  ASSUME IInv, IInv', NameInv, NameInv', KindSeen, CalmInv, PolicyInv, NamelessInv, Next
  PROVE  NamelessInv'
  <1>0. trouble \in Nat /\ trouble' \in Nat /\ trouble' >= trouble
    BY TroubleGrows, Typed DEF IInv
  <1>1. SUFFICES ASSUME trouble' <= 1, Named' = {}
        PROVE  \/ run'.pc \in {"create", "unpark"} /\ run'.old # 0
               \/ /\ trouble' = 1 /\ ~run'.cancelled
                  /\ \/ run'.pc \in {"plan", "data", "park", "create"}
                     \/ run'.policy.compose /\ run'.pc \in {"undo", "leave", "idle"}
    BY DEF NamelessInv
  <1>2. trouble <= 1
    BY <1>0, <1>1
  <1>3. ASSUME Named = {}, run.pc \notin {"create", "unpark"}
        PROVE  /\ trouble = 1 /\ ~run.cancelled /\ ~CallFails /\ ~GoesWrong /\ ~GoesVeryWrong
               /\ \/ run.pc \in {"plan", "data", "park"}
                  \/ run.policy.compose /\ run.pc \in {"undo", "leave", "idle"}
    <2>1. /\ trouble = 1 /\ ~run.cancelled
          /\ \/ run.pc \in {"plan", "data", "park"}
             \/ run.policy.compose /\ run.pc \in {"undo", "leave", "idle"}
      BY <1>2, <1>3 DEF NamelessInv
    <2>2. ~CallFails /\ ~GoesWrong /\ ~GoesVeryWrong
      BY <1>0, <1>1, <2>1, SecondMishap DEF GoesWrong, GoesVeryWrong
    <2>3. QED
      BY <2>1, <2>2
  <1>4. ASSUME UNCHANGED box PROVE Named = {}
    BY <1>1, <1>4 DEF Named
  <1>5. ASSUME NEW b \in Box, NEW up, Turned(b, up) PROVE Named = {}
    BY <1>1, <1>5, TurnedKeeps
  <1> USE DEF RunKept
  <1>6. CASE Select
    BY <1>4, <1>6, SelectDoes
  <1>7. CASE Pull \/ PreHooks
    BY <1>3, <1>4, <1>7, PullDoes, PreHooksDoes
  <1>8. CASE TakeStop
    BY <1>3, <1>4, <1>5, <1>8, TakeStopDoes DEF Stopped
  <1>9. CASE TakeSave
    BY <1>3, <1>4, <1>9, TakeSaveDoes
  <1>10. CASE Restart
    BY <1>3, <1>4, <1>5, <1>10, RestartDoes DEF Started
  <1>11. CASE EngineStops
    <2>1. Named = {} /\ UNCHANGED <<run, trouble>>
      BY <1>5, <1>11, EngineStopsDoes
    <2>2. QED
      BY <1>2, <2>1 DEF NamelessInv
  <1>12. CASE Park
    <2>1. run.pc = "park" /\ (IF run.old = 0 THEN Named = {} ELSE run.old \in Named)
      BY <1>12 DEF Park, At, NameInv, ToPark
    <2>2. run.old # 0 => run.old \in Box
      BY <2>1 DEF Named
    <2>3. CASE UNCHANGED box /\ Moves("create") /\ run.old = 0 /\ GoesWell
      BY <1>3, <2>1, <2>3 DEF Moves, GoesWell
    <2>4. CASE run.old # 0 /\ Moves("create")
      BY <2>4 DEF Moves
    <2>5. CASE UNCHANGED box /\ run.old # 0
      BY <1>4, <2>1, <2>5
    <2>6. QED
      BY <1>12, <2>2, <2>3, <2>4, <2>5, ParkDoes
  <1>13. CASE Create
    <2>1. run.pc = "create" /\ Named = {}
      BY <1>13, CreateDoes DEF NameInv, NoneNamed
    <2>2. CASE UNCHANGED box /\ run.old = 0 /\ CallFails
      <3>1. trouble = 1 /\ ~run.cancelled
        BY <1>2, <2>1, <2>2 DEF NamelessInv
      <3>2. QED
        BY <1>0, <1>1, <2>2, <3>1, SecondMishap
    <2>3. CASE run.old # 0 /\ Moves("unpark")
      BY <2>3 DEF Moves
    <2>4. ASSUME NEW b \in Box, Created(b, "app", NewImage, FALSE) PROVE FALSE
      BY <1>1, <2>4 DEF Created, Named
    <2>5. QED
      BY <1>13, <2>1, <2>2, <2>3, <2>4, CreateDoes
  <1>14. CASE Unpark
    <2>1. run.old \in Box /\ trouble >= 1
      BY <1>14, UnparkDoes DEF CalmInv
    <2>2. ~Renamed(run.old, "app")
      BY <1>1, <2>1 DEF Renamed, Named
    <2>3. QED
      BY <1>0, <1>1, <1>14, <2>1, <2>2, UnparkDoes DEF GoesWrong
  <1>15. CASE Remove
    <2>1. run'.pc = "start"
      BY <1>15, RemoveDoes DEF Moves
    <2>2. QED
      BY <1>1, <2>1 DEF NameInv, NewNamed
  <1>16. CASE Start
    <2>1. run.new \in Named /\ run.pc = "start"
      BY <1>16, StartDoes DEF NameInv, NewNamed
    <2>2. QED
      BY <1>4, <1>5, <1>16, <2>1, StartDoes DEF Started
  <1>17. CASE Compose
    <2>0. run.old \in Named /\ run.old \in Box /\ run.pc = "compose" /\ run.policy.compose
          /\ ~run.restoring
      BY <1>17 DEF Compose, At, NameInv, OldNamed, Named, PolicyInv, KindSeen, KindInv
    <2>1. ASSUME NEW b \in Box, NEW up, Swapped(b, "app", up) PROVE FALSE
      BY <1>1, <2>1 DEF Swapped, Created, Named
    <2>2. ~UNCHANGED box /\ ~Started(run.old)
      BY <1>4, <1>5, <2>0 DEF Started
    <2>3. CallFails /\ Fails /\ ~run.cancelled
      BY <1>17, <2>0, <2>1, <2>2, ComposeDoes
    <2>4. trouble' = 1
      BY <1>0, <1>1, <2>3 DEF CallFails, Live, GoesWell, GoesWrong
    <2>5. QED
      BY <2>0, <2>3, <2>4 DEF Fails
  <1>18. CASE Health
    <2>1. run.pc = "health"
      BY <1>18, HealthDoes
    <2>2. QED
      BY <1>3, <1>4, <1>18, <2>1, HealthDoes
  <1>19. CASE Undo
    BY <1>3, <1>4, <1>19, UndoDoes DEF Moves, GoesWell
  <1>20. CASE LeaveRunning
    <2>1. Named = {}
      BY <1>4, <1>5, <1>20, LeaveRunningDoes DEF Started, Named
    <2>2. run.pc = "leave" /\ Ends("failed") /\ GoesWell
      BY <1>20, <2>1, LeaveRunningDoes
    <2>3. QED
      BY <1>3, <2>1, <2>2 DEF Ends, GoesWell
  <1>21. CASE RollbackByHand
    BY <1>3, <1>4, <1>21, RollbackByHandDoes
  <1>22. CASE Plan
    BY <1>3, <1>4, <1>22, PlanDoes DEF CallWorks, GoesWell
  <1>23. CASE Halt
    BY <1>3, <1>4, <1>5, <1>23, HaltDoes DEF Stopped
  <1>24. CASE Data
    BY <1>3, <1>4, <1>24, DataDoes DEF CallWorks, GoesWell, Moves
  <1>25. CASE Cancel
    <2>1. Named = {} /\ GoesWrong /\ run'.pc = run.pc /\ run'.old = run.old
      BY <1>4, <1>25, CancelDoes
    <2>2. run.pc \in {"create", "unpark"}
      BY <1>3, <2>1
    <2>3. CASE run.old # 0
      BY <2>1, <2>2, <2>3
    <2>4. CASE run.old = 0
      <3>1. trouble = 1
        BY <1>2, <2>1, <2>4 DEF NamelessInv
      <3>2. QED
        BY <1>1, <2>1, <3>1 DEF GoesWrong
    <2>5. QED
      BY <2>3, <2>4
  <1>26. CASE Crash
    <2>1. GoesVeryWrong
      BY <1>26, CrashDoes
    <2>2. QED
      BY <1>0, <1>1, <2>1 DEF GoesVeryWrong
  <1>27. QED
    BY <1>6, <1>7, <1>8, <1>9, <1>10, <1>11, <1>12, <1>13, <1>14, <1>15, <1>16, <1>17, <1>18,
       <1>19, <1>20, <1>21, <1>22, <1>23, <1>24, <1>25, <1>26 DEF Next

\* A run that has got this far was selected up or not, and is the same run.
LEMMA SameRan ==
  ASSUME IInv, NameInv, Next, run'.ran PROVE run.ran \/ Select
  <1>1. (\E pc : Moves(pc) \/ Ends(pc) \/ Stopped(pc) \/ HealthNext(pc)) => run.ran
    BY DEF Moves, Ends, Stopped, HealthNext, RunKept
  <1>2. Fails \/ RunKept => run.ran
    BY DEF Fails, RunKept
  <1>3. CASE Pull \/ PreHooks \/ TakeStop
    BY <1>1, <1>3, PullDoes, PreHooksDoes, TakeStopDoes
  <1>4. CASE TakeSave \/ Restart \/ EngineStops
    BY <1>1, <1>2, <1>4, TakeSaveDoes, RestartDoes, EngineStopsDoes
  <1>5. CASE Create \/ Unpark \/ Remove \/ Start
    BY <1>1, <1>2, <1>5, CreateDoes, UnparkDoes, RemoveDoes, StartDoes
  <1>6. CASE Park
    <2>1. run.pc = "park" /\ (run.old # 0 => run.old \in Box)
      BY <1>6 DEF Park, At, NameInv, ToPark, Named
    <2>2. QED
      BY <1>1, <1>2, <1>6, <2>1, ParkDoes
  <1>7. CASE Compose
    <2>1. run.pc = "compose" /\ run.old \in Named
      BY <1>7 DEF Compose, At, NameInv, OldNamed
    <2>2. QED
      BY <1>1, <1>2, <1>7, <2>1, ComposeDoes
  <1>8. CASE Health \/ Undo \/ LeaveRunning \/ RollbackByHand
    BY <1>1, <1>2, <1>8, HealthDoes, UndoDoes, LeaveRunningDoes, RollbackByHandDoes
  <1>9. CASE Plan \/ Halt \/ Data \/ Cancel \/ Crash
    BY <1>1, <1>2, <1>9, PlanDoes, HaltDoes, DataDoes, CancelDoes, CrashDoes
  <1>10. QED
    BY <1>3, <1>4, <1>5, <1>6, <1>7, <1>8, <1>9 DEF Next

LEMMA RevivalStep ==
  ASSUME IInv, IInv', NameInv, NameInv', KindSeen, AliveInv, OutageInv, RevivalInv, Next
  PROVE  RevivalInv'
  <1>0. trouble \in Nat /\ trouble' \in Nat /\ trouble' >= trouble
    BY TroubleGrows, Typed DEF IInv
  <1>1. SUFFICES ASSUME trouble' <= 1, run'.ran PROVE RevivalInv'
    BY DEF RevivalInv
  <1>2. trouble <= 1 /\ stopping = {} /\ ~GoesVeryWrong
    BY <1>0, <1>1 DEF OutageInv, GoesVeryWrong
  <1>3. run.pc # "idle" => run.ran
    BY <1>1, SameRan, SelectDoes
  <1>4. run'.pc \in {"idle", "plan", "halt", "data"} => RevivalInv'
    BY DEF RevivalInv
  \* An update that fails: whatever has the name is alive or new.
  <1>5. ASSUME Fails, \A b \in Named' : ~run.restoring => box'[b].image = run.n \/ Alive(b)'
        PROVE  RevivalInv'
    BY <1>4, <1>5 DEF Fails, RunKept, RevivalInv
  <1> USE DEF Alive, RunKept
  <1>6. CASE Select
    BY <1>6, SelectDoes DEF RevivalInv
  <1>7. CASE Pull
    BY <1>2, <1>3, <1>7, PullDoes DEF RevivalInv, Moves, Ends
  <1>8. CASE PreHooks
    <2>1. run.pc = "hook" /\ box[run.old].up /\ run.old \in Box /\ UNCHANGED <<box, quality>>
      BY <1>2, <1>3, <1>8, PreHooksDoes DEF RevivalInv, IInv, PlaceInv, Chosen
    <2>2. Alive(run.old)
      BY <2>1 DEF AliveInv
    <2>3. /\ run'.old = run.old /\ run'.pc \in {"stop", "compose", "park", "idle"}
      BY <1>8, PreHooksDoes DEF Moves, Ends, Apply
    <2>4. QED
      BY <2>1, <2>2, <2>3 DEF RevivalInv
  <1>9. CASE TakeStop
    <2>1. run.pc = "stop" /\ box[run.old].up /\ run.old \in Box /\ UNCHANGED quality
      BY <1>2, <1>3, <1>9, TakeStopDoes DEF RevivalInv
    <2>2. Alive(run.old)
      BY <2>1 DEF AliveInv
    <2>3. box'[run.old].image = box[run.old].image
      BY <1>9, <2>1, TakeStopDoes DEF Stopped, Turned
    <2>4. /\ run'.old = run.old /\ run'.pc \in {"save", "restart", "idle"}
          /\ run'.pc = "save" => run'.halted \/ UNCHANGED box
      BY <1>9, TakeStopDoes DEF Stopped, Moves, Ends
    <2>5. QED
      BY <2>1, <2>2, <2>3, <2>4 DEF RevivalInv
  <1>10. CASE TakeSave
    <2>1. run.pc = "save" /\ Alive(run.old) /\ UNCHANGED <<box, quality>>
      BY <1>2, <1>3, <1>10, TakeSaveDoes DEF RevivalInv
    <2>2. /\ run'.old = run.old /\ run'.pc \in {"compose", "park", "restart", "idle"}
      BY <1>10, TakeSaveDoes DEF Moves, Ends, Apply
    <2>3. QED
      BY <2>1, <2>2 DEF RevivalInv
  <1>11. CASE Restart
    BY <1>4, <1>11, RestartDoes DEF Ends
  <1>12. CASE EngineStops
    BY <1>2, <1>12, EngineStopsDoes
  <1>13. CASE Park
    <2>1. /\ run.pc = "park" /\ (run.old # 0 => run.old \in Box /\ run.old \in Named)
          /\ (run.old = 0 => Named = {})
      BY <1>13 DEF Park, At, NameInv, ToPark, Named
    <2>2. /\ ~run.restoring => Alive(run.old)
          /\ \A b \in Named : b = run.old
      BY <1>2, <1>3, <1>13, <2>1 DEF RevivalInv, NameInv, OneName
    <2>3. UNCHANGED quality /\ (UNCHANGED box \/ Renamed(run.old, "aside"))
      BY <1>13, <2>1, ParkDoes
    <2>4. CASE Fails /\ UNCHANGED box
      BY <1>5, <2>2, <2>3, <2>4 DEF Named
    <2>5. CASE Moves("create")
      <3>1. box'[run.old].image = box[run.old].image
        BY <2>3 DEF Renamed
      <3>2. QED
        BY <2>2, <2>3, <2>5, <3>1 DEF Moves, RevivalInv
    <2>6. QED
      BY <1>13, <2>1, <2>4, <2>5, ParkDoes
  <1>14. CASE Create
    <2>1. /\ run.pc = "create" /\ Named = {} /\ UNCHANGED quality
          /\ ~run.restoring => Alive(run.old)
      BY <1>2, <1>3, <1>14, CreateDoes DEF NameInv, NoneNamed, RevivalInv
    <2>2. CASE UNCHANGED box /\ Fails
      BY <1>5, <2>1, <2>2 DEF Named
    <2>3. CASE UNCHANGED box /\ Moves("unpark")
      BY <2>1, <2>3 DEF Moves, RevivalInv
    <2>4. ASSUME NEW b \in Box, Created(b, "app", NewImage, FALSE), run'.new = b,
                 run'.n = run.n, run'.pc \in {"start", "remove"}, run'.restoring = run.restoring
          PROVE  RevivalInv'
      BY <2>4 DEF Created, NewImage, RevivalInv
    <2>5. QED
      BY <1>14, <2>2, <2>3, <2>4, CreateDoes
  <1>15. CASE Unpark
    <2>1. /\ run.pc = "unpark" /\ run.old \in Box /\ run.old # 0 /\ Named = {} /\ UNCHANGED quality
          /\ Fails /\ (~run.restoring => Alive(run.old))
      BY <1>2, <1>3, <1>15, UnparkDoes DEF NameInv, NoneNamed, RevivalInv, Box
    <2>2. CASE UNCHANGED box
      BY <1>5, <2>1, <2>2 DEF Named
    <2>3. CASE Renamed(run.old, "app")
      <3>1. Named' = {run.old} /\ box'[run.old].image = box[run.old].image
        BY <2>1, <2>3 DEF Renamed, Others, Named
      <3>2. QED
        BY <1>5, <2>1, <3>1
    <2>4. QED
      BY <1>15, <2>2, <2>3, UnparkDoes
  <1>16. CASE Remove
    <2>1. /\ run.new \in Box /\ run.new # run.old /\ run.pc = "remove" /\ UNCHANGED quality
          /\ ~run.restoring => box[run.new].image = run.n \/ Alive(run.new)
      BY <1>2, <1>3, <1>16, RemoveDoes DEF IInv, PlaceInv, Replaced, Standby, RevivalInv
    <2>2. box'[run.new] = box[run.new]
      BY <1>16, <2>1, RemoveDoes DEF Removed, Others
    <2>3. QED
      BY <1>16, <2>1, <2>2, RemoveDoes DEF Moves, RevivalInv
  <1>17. CASE Start
    <2>1. /\ run.new \in Named /\ run.pc = "start" /\ run.new \in Box /\ UNCHANGED quality
          /\ ~run.restoring => box[run.new].image = run.n \/ Alive(run.new)
      BY <1>2, <1>3, <1>17, StartDoes DEF NameInv, NewNamed, RevivalInv
    <2>2. box'[run.new].image = box[run.new].image
      BY <1>17, StartDoes DEF Started, Turned
    <2>3. CASE Fails /\ UNCHANGED box
      <3>1. \A b \in Named' : b = run.new
        BY <2>1, <2>3 DEF NameInv, OneName, Named
      <3>2. QED
        BY <1>5, <2>1, <2>2, <2>3, <3>1
    <2>4. CASE Moves("health")
      BY <2>1, <2>2, <2>4 DEF Moves, RevivalInv
    <2>5. CASE Ends("rolledback")
      BY <1>4, <2>5 DEF Ends
    <2>6. QED
      BY <1>17, <2>3, <2>4, <2>5, StartDoes
  <1>18. CASE Compose
    <2>0. /\ run.old \in Named /\ run.old \in Box /\ run.pc = "compose"
          /\ Alive(run.old) /\ \A b \in Named : b = run.old
      BY <1>2, <1>3, <1>18 DEF Compose, At, NameInv, OldNamed, OneName, Named, RevivalInv
    <2>1. UNCHANGED quality
      BY <1>18, <2>0, ComposeDoes
    <2>2. ASSUME NEW b \in Box, NEW name, NEW up, Swapped(b, name, up), HealthNext(b) \/ Fails
          PROVE  RevivalInv'
      <3>1. Named' \subseteq {b} /\ box'[b].image = run.n
        BY <2>0, <2>2 DEF Swapped, Created, Gone, Named
      <3>2. Fails => RevivalInv'
        BY <1>5, <3>1
      <3>3. HealthNext(b) => RevivalInv'
        BY <3>1 DEF HealthNext, RevivalInv
      <3>4. QED
        BY <2>2, <3>2, <3>3
    <2>3. CASE Started(run.old) /\ HealthNext(run.old)
      <3>1. box'[run.old].image = box[run.old].image
        BY <2>3 DEF Started, Turned
      <3>2. QED
        BY <2>0, <2>1, <2>3, <3>1 DEF HealthNext, RevivalInv
    <2>4. CASE UNCHANGED box /\ Fails
      BY <1>5, <2>0, <2>1, <2>4 DEF Named
    <2>5. QED
      BY <1>18, <2>0, <2>2, <2>3, <2>4, ComposeDoes
  <1>19. CASE Health
    <2>1. /\ run.new \in Named /\ run.pc = "health" /\ UNCHANGED <<box, quality>>
          /\ ~run.restoring => box[run.new].image = run.n \/ Alive(run.new)
      BY <1>2, <1>3, <1>19, HealthDoes DEF NameInv, NewNamed, RevivalInv
    <2>2. \A b \in Named' : b = run.new
      BY <2>1 DEF NameInv, OneName, Named
    <2>3. QED
      BY <1>4, <1>5, <1>19, <2>1, <2>2, HealthDoes DEF Ends
  <1>20. CASE Undo
    BY <1>2, <1>3, <1>20, UndoDoes DEF Moves, RevivalInv, Named
  <1>21. CASE LeaveRunning
    BY <1>4, <1>21, LeaveRunningDoes DEF Ends
  <1>22. CASE RollbackByHand
    BY <1>4, <1>22, RollbackByHandDoes
  <1>23. CASE Plan
    BY <1>4, <1>23, PlanDoes DEF Fails, KindSeen, KindInv
  <1>24. CASE Halt
    BY <1>4, <1>24, HaltDoes DEF Stopped, Moves, Fails, KindSeen, KindInv
  <1>25. CASE Data
    BY <1>4, <1>25, DataDoes DEF Moves, Fails, KindSeen, KindInv, RevivalInv
  <1>26. CASE Cancel
    BY <1>2, <1>3, <1>26, CancelDoes DEF RevivalInv, Named
  <1>27. CASE Crash
    BY <1>4, <1>27, CrashDoes
  <1>28. QED
    BY <1>6, <1>7, <1>8, <1>9, <1>10, <1>11, <1>12, <1>13, <1>14, <1>15, <1>16, <1>17, <1>18,
       <1>19, <1>20, <1>21, <1>22, <1>23, <1>24, <1>25, <1>26, <1>27 DEF Next

-----------------------------------------------------------------------------

\* How a run that found its container running may leave it.
UpAgain ==
  run.pc = "idle" /\ trouble <= 1 /\ run.ran =>
    \/ \E b \in Named : box[b].up
    \/ quality[run.n] # "good" /\ ~(run.policy.snapshot /\ run.policy.rollback)
    \/ run.rollbackErr
    \/ run.policy.compose /\ Named = {}

LEMMA UpAgainStep ==
  ASSUME IInv, IInv', NameInv, NameInv', KindSeen, OutageInv, PolicyInv, NamelessInv, NamelessInv',
         RevivalInv, UpAgain, Next
  PROVE  UpAgain'
  <1>0. trouble \in Nat /\ trouble' \in Nat /\ trouble' >= trouble
    BY TroubleGrows, Typed DEF IInv
  <1>1. SUFFICES ASSUME run'.pc = "idle", trouble' <= 1, run'.ran PROVE UpAgain'
    BY DEF UpAgain
  <1>2. trouble <= 1 /\ stopping = {} /\ ~GoesVeryWrong
    BY <1>0, <1>1 DEF OutageInv, GoesVeryWrong
  <1>3. run.pc # "idle" => run.ran
    BY <1>1, SameRan, SelectDoes
  <1>a. ASSUME NEW b \in Named, Started(b) PROVE UpAgain'
    <2>1. b \in Named' /\ box'[b].up
      BY <1>a, TurnedKeeps DEF Started, Turned, Named
    <2>2. QED
      BY <2>1 DEF UpAgain
  <1>b. ASSUME NEW b \in Named, box[b].up, UNCHANGED box PROVE UpAgain'
    BY <1>b DEF UpAgain, Named
  <1>c. ASSUME Fails PROVE UpAgain'
    BY <1>1, <1>c DEF Fails, UpAgain
  <1>4. CASE Select
    BY <1>1, <1>4, SelectDoes
  <1>5. CASE Pull \/ PreHooks
    <2>1. run.pc \in {"pull", "hook"} /\ UNCHANGED box
      BY <1>5, PullDoes, PreHooksDoes
    <2>2. run.old \in Named /\ box[run.old].up
      BY <1>2, <1>3, <2>1 DEF RevivalInv, NameInv, OldNamed
    <2>3. QED
      BY <1>b, <2>1, <2>2
  <1>6. CASE TakeStop
    <2>1. run.pc = "stop" /\ UNCHANGED box
      BY <1>1, <1>6, TakeStopDoes DEF Stopped, Moves
    <2>2. run.old \in Named /\ box[run.old].up
      BY <1>2, <1>3, <2>1 DEF RevivalInv, NameInv, OldNamed
    <2>3. QED
      BY <1>b, <2>1, <2>2
  <1>7. CASE TakeSave
    <2>1. run.pc = "save" /\ UNCHANGED box /\ ~run.halted
      <3>1. run.pc = "save" /\ UNCHANGED box
        BY <1>7, TakeSaveDoes
      <3>2. run.kind \in {"update", "backup"}
        BY <3>1 DEF IInv, TypeOK, RunState, KindSeen, KindInv
      <3>3. Apply # "idle"
        BY DEF Apply
      <3>4. ~run.halted
        BY <1>1, <1>7, <3>2, <3>3, TakeSaveDoes DEF Moves
      <3>5. QED
        BY <3>1, <3>4
    <2>2. run.old \in Named /\ box[run.old].up
      BY <1>2, <1>3, <2>1 DEF RevivalInv, NameInv, OldNamed
    <2>3. QED
      BY <1>b, <2>1, <2>2
  <1>8. CASE Restart
    <2>1. run.old \in Named /\ run.pc = "restart"
      BY <1>8, RestartDoes DEF NameInv, OldNamed
    <2>2. Alive(run.old)
      BY <1>2, <1>3, <2>1 DEF RevivalInv
    <2>3. QED
      BY <1>2, <1>8, <1>a, <2>1, <2>2, RestartDoes DEF Alive
  <1>9. CASE EngineStops
    BY <1>2, <1>9, EngineStopsDoes
  <1>10. CASE Park
    <2>1. run.pc = "park" /\ (run.old # 0 => run.old \in Box)
      BY <1>10 DEF Park, At, NameInv, ToPark, Named
    <2>2. QED
      BY <1>1, <1>10, <1>c, <2>1, ParkDoes DEF Moves
  <1>11. CASE Create \/ Unpark \/ Remove
    BY <1>1, <1>11, <1>c, CreateDoes, UnparkDoes, RemoveDoes DEF Moves
  <1>12. CASE Start
    <2>1. run.pc = "start" /\ run.new \in Named
      BY <1>12, StartDoes DEF NameInv, NewNamed
    <2>2. run.kind # "rollback"
      BY <1>2, <1>3, <2>1 DEF KindSeen, KindInv
    <2>3. QED
      BY <1>1, <1>12, <1>a, <1>c, <2>1, <2>2, StartDoes DEF Moves, WillStart
  <1>13. CASE Compose
    <2>1. run.pc = "compose" /\ run.old \in Named
      BY <1>13 DEF Compose, At, NameInv, OldNamed
    <2>2. QED
      BY <1>1, <1>13, <1>c, <2>1, ComposeDoes DEF HealthNext
  <1>14. CASE Health
    <2>1. run.pc = "health" /\ run.new \in Named
      BY <1>14, HealthDoes DEF NameInv, NewNamed
    <2>2. QED
      BY <1>14, <1>b, <1>c, <2>1, HealthDoes
  <1>15. CASE Undo
    BY <1>1, <1>15, UndoDoes DEF Moves
  <1>16. CASE LeaveRunning
    <2>0. run.pc = "leave" /\ Ends("failed") /\ UNCHANGED quality /\ run.ran
      BY <1>3, <1>16, LeaveRunningDoes
    <2>1. CASE Named = {}
      <3>1. UNCHANGED box
        BY <1>16, <2>1, LeaveRunningDoes
      <3>2. run.policy.compose
        BY <1>2, <2>0, <2>1 DEF NamelessInv
      <3>3. QED
        BY <2>0, <2>1, <3>1, <3>2 DEF UpAgain, Ends, RunKept, Named
    <2>2. ASSUME NEW b \in Named, ~box[b].up, quality[box[b].image] = "dead"
          PROVE  UpAgain'
      <3>1. box[b].image = run.n
        BY <1>2, <2>0, <2>2 DEF RevivalInv, Alive
      <3>2. quality[run.n] # "good" /\ ~(run.policy.snapshot /\ run.policy.rollback)
        BY <2>0, <2>2, <3>1 DEF PolicyInv
      <3>3. QED
        BY <2>0, <3>2 DEF UpAgain, Ends, RunKept
    <2>3. QED
      BY <1>2, <1>16, <1>a, <2>0, <2>1, <2>2, LeaveRunningDoes
  <1>17. CASE RollbackByHand
    BY <1>1, <1>17, RollbackByHandDoes
  <1>18. CASE Plan
    BY <1>1, <1>18, <1>c, PlanDoes
  <1>19. CASE Halt
    BY <1>1, <1>19, <1>c, HaltDoes DEF Stopped, Moves
  <1>20. CASE Data
    BY <1>1, <1>20, <1>c, DataDoes DEF Moves
  <1>21. CASE Cancel \/ Crash
    BY <1>1, <1>21, CancelDoes, CrashDoes
  <1>22. QED
    BY <1>4, <1>5, <1>6, <1>7, <1>8, <1>9, <1>10, <1>11, <1>12, <1>13, <1>14, <1>15, <1>16,
       <1>17, <1>18, <1>19, <1>20, <1>21 DEF Next

-----------------------------------------------------------------------------
(* All of it *)

MishapInv == CalmInv /\ AliveInv /\ PolicyInv /\ NamelessInv /\ RevivalInv /\ UpAgain

WholeInv ==
  /\ IInv /\ NameInv /\ KindSeen
  /\ StoppingInv /\ PairInv /\ ReportInv
  /\ VersionInv /\ OrderInv /\ MishapInv

LEMMA WholeInit == Init => WholeInv
  <1>1. Init => UpAgain
    BY DEF Init, Idle, UpAgain
  <1>2. QED
    BY <1>1, IInvInit, NameInit, KindInit, StoppingInit, PairInit, ReportInit, VersionInit,
       OrderInit, MishapInit DEF WholeInv, MishapInv

LEMMA WholeStep == WholeInv /\ [Next]_vars => WholeInv'
  <1>1. ASSUME WholeInv, Next PROVE WholeInv'
    <2>1. IInv /\ IInv' /\ NameInv /\ KindSeen
      BY <1>1, IInvStep DEF WholeInv
    <2>2. NameInv'
      BY <1>1, <2>1, NameStep
    <2>3. KindSeen'
      BY <1>1, <2>1, <2>2, KindStep
    <2>4. StoppingInv' /\ PairInv' /\ ReportInv'
      BY <1>1, <2>1, <2>2, StoppingStep, PairStep, ReportStep DEF WholeInv
    <2>5. VersionInv' /\ OrderInv'
      BY <1>1, <2>1, <2>2, VersionStep, OrderStep DEF WholeInv
    <2>6. CalmInv' /\ AliveInv' /\ PolicyInv' /\ NamelessInv'
      BY <1>1, <2>1, <2>2, CalmStep, AliveStep, PolicyStep, NamelessStep DEF WholeInv, MishapInv
    <2>7. OutageInv
      BY <1>1 DEF WholeInv, ReportInv
    <2>8. RevivalInv' /\ UpAgain'
      BY <1>1, <2>1, <2>2, <2>6, <2>7, RevivalStep, UpAgainStep DEF WholeInv, MishapInv
    <2>9. QED
      BY <2>1, <2>2, <2>3, <2>4, <2>5, <2>6, <2>8 DEF WholeInv, MishapInv
  <1>2. ASSUME WholeInv, UNCHANGED vars PROVE WholeInv'
    <2>1. IInv'
      BY <1>2, IInvStep DEF WholeInv
    <2>2. Named' = Named /\ UNCHANGED <<box, stopping, volume, quality, snaps, run, trouble>>
      BY <1>2 DEF vars, Named
    <2>3. QED
      BY <1>2, <2>1, <2>2
      DEF WholeInv, NameInv, OneName, OldNamed, ToPark, NoneNamed, NewNamed, KindSeen, KindInv,
          BackupInv, StoppingInv, PairInv, ReportInv, PairLeft, OutageInv, NoReport, VersionInv,
          OrderInv, UpInv, FitInv, Fits, UndoInv, MishapInv, CalmInv, AliveInv, Alive, PolicyInv,
          NamelessInv, RevivalInv, UpAgain, Migrated
  <1>3. QED
    BY <1>1, <1>2

LEMMA Whole == Spec => []WholeInv
  BY WholeInit, WholeStep, PTL DEF Spec

\* Whatever fails in a backup, and whether it is cancelled or not, a container
\* that was down when the backup began is down when it is over: Take starts only
\* what its own Stop has brought down (snapshot.go:136-160).
THEOREM BackupLeavesIt == Spec => []BackupLeavesAsFound
  <1>1. WholeInv => BackupLeavesAsFound
    BY DEF WholeInv, KindSeen, BackupInv, BackupLeavesAsFound, At
  <1>2. QED
    BY <1>1, Whole, PTL

\* A rollback, by hand or after an update that failed, only reports success with
\* the recorded image on the recorded data, or on what that image has made of it
\* (restore.go:175-240): no failure, cancellation or crash of an earlier run, and
\* nothing the engine finishes later, comes between the two.
THEOREM RollbackWhole == Spec => []RolledBackWhole
  <1>1. WholeInv => RolledBackWhole
    BY DEF WholeInv, ReportInv, PairLeft, RolledBackWhole, At
  <1>2. QED
    BY <1>1, Whole, PTL

\* An update or a rollback of a running container that reports success has left
\* one running (update.go:240-241), and an update that found nothing to do has
\* unless a Stop that nobody waited for brings it down.
THEOREM ReportsHold == Spec => []NoSilentOutage
  <1>1. WholeInv => NoSilentOutage
    BY DEF WholeInv, ReportInv, PairLeft, OutageInv, NoSilentOutage, At
  <1>2. QED
    BY <1>1, Whole, PTL

\* However many updates, backups and rollbacks follow one another, and wherever
\* they fail, no version runs on data that a newer one has written, and nothing
\* runs while the data is put back (update.go:293-331, restore.go:196-197): as
\* long as every run was to stop the container for its snapshot and no rollback
\* by hand was broken off between the data and the container.
THEOREM NeverOnNewerData == Spec => []NoDowngrade
  <1>1. ASSUME WholeInv PROVE NoDowngrade
    <2>1. SUFFICES ASSUME run.orderly, NEW b \in Box, box[b].up
                   PROVE  box[b].image >= volume /\ run.pc # "data"
      BY DEF NoDowngrade, At
    <2>2. b \in Named /\ run.pc # "data" /\ run.pc # "park"
      BY <1>1, <2>1 DEF WholeInv, OrderInv, UpInv
    <2>3. volume <= box[b].image
      BY <1>1, <2>1, <2>2 DEF WholeInv, OrderInv, FitInv, Fits
    <2>4. volume \in Nat /\ box[b].image \in Nat
      BY <1>1, Typed DEF WholeInv, IInv
    <2>5. QED
      BY <2>2, <2>3, <2>4
  <1>2. QED
    BY <1>1, Whole, PTL

\* After one mishap, whichever it is and whenever it comes, the container has its
\* name, and what was running runs again, but for the cases ServiceUp names
\* (snapshot.go:143-144, update.go:333-334, replace.go:53-62, restore.go:114-122).
THEOREM ServiceStaysUp == Spec => []ServiceUp
  <1>1. ASSUME WholeInv PROVE ServiceUp
    <2>1. SUFFICES ASSUME run.pc = "idle", trouble <= 1 PROVE ServiceUp
      BY DEF ServiceUp, At
    <2>2. run.policy.compose \/ Named # {}
      BY <1>1, <2>1 DEF WholeInv, MishapInv, NamelessInv
    <2>3. UpAgain
      BY <1>1 DEF WholeInv, MishapInv
    <2>4. QED
      BY <2>1, <2>2, <2>3 DEF UpAgain, ServiceUp
  <1>2. QED
    BY <1>1, Whole, PTL
=============================================================================
