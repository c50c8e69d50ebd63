------------------------------ MODULE HelperRun ------------------------------
(***************************************************************************)
(* How the data of one volume gets into its archive and back: read         *)
(* directly (Accessor.Archive), or by a helper container that runs the     *)
(* same walk (RunHelper in runtime/helper.go, cli/helper.go), its output   *)
(* copied by one goroutine into the archive file, its input, when it       *)
(* unpacks, by another from the archive, while the caller waits for the    *)
(* helper to exit, for the engine to fail or for its context.              *)
(*                                                                         *)
(* A helper's walk is that of ArchiveWalk, entry by entry; what a helper   *)
(* unpacks is Items pieces.                                                *)
(***************************************************************************)
EXTENDS ArchiveWalk

CONSTANTS
  Items,   \* how many pieces an archive that is unpacked has
  Room     \* how many the pipes hold that nobody has read yet

ASSUME ItemsAssumption == Items \in Nat \ {0}
ASSUME RoomAssumption == Room \in Nat \ {0}

VARIABLES
  run,        \* the call of Archive, or of Restore by way of a helper
  helper,     \* the helper container
  reader,     \* the goroutine that copies the helper's output
  arrived,    \* how many of the archive's entries it has written
  report,     \* whether the helper's report has arrived beside them
  writer,     \* the goroutine that copies the helper's input
  fed,        \* how many pieces it has sent
  eaten,      \* how many of them the helper has unpacked
  engine,     \* whether the engine answers
  cancelled   \* whether the caller's context is

helperVars == <<helper, reader, arrived, report, writer, fed, eaten>>
vars == <<walkVars, run, helperVars, engine, cancelled>>

Goroutine == {"none", "copying", "done", "failed"}

TypeOK ==
  /\ WalkTypeOK
  /\ run \in [way : {"direct", "archive", "extract"}, err : BOOLEAN, closed : BOOLEAN,
              pc : {"create", "attach", "start", "walk", "select", "drain", "join", "returned"}]
  /\ helper \in {"none", "created", "running", "exited", "failed", "removed", "left"}
  /\ reader \in Goroutine /\ writer \in Goroutine
  /\ arrived \in 0 .. Len(archive) /\ report \in BOOLEAN
  /\ fed \in 0 .. Items /\ eaten \in 0 .. fed
  /\ engine \in BOOLEAN /\ cancelled \in BOOLEAN

At(pc) == run.pc = pc
Exited == helper \in {"exited", "failed"}
\* The connection that carries both streams.
Connected == engine /\ ~run.closed

Init ==
  /\ WalkInit
  /\ \E way \in {"direct", "archive", "extract"} :
       run = [way |-> way, err |-> FALSE, closed |-> FALSE,
              pc |-> IF way = "direct" THEN "walk" ELSE "create"]
  /\ run.way = "extract" => ~hot /\ \A p \in Path : ~There(p)
  /\ helper = "none" /\ reader = "none" /\ writer = "none"
  /\ arrived = 0 /\ report = FALSE /\ fed = 0 /\ eaten = 0
  /\ engine = TRUE /\ cancelled = FALSE

-----------------------------------------------------------------------------
(* The helper's process *)

\* It writes to its output as long as there is room for it.
HelperWalks ==
  /\ helper = "running" /\ run.way = "archive"
  /\ Len(archive) - arrived < Room
  /\ WalkStep \/ Break
  /\ UNCHANGED <<run, helperVars, engine, cancelled>>

\* The report goes to stderr, and the exit status says how the walk went.
HelperWalked ==
  /\ helper = "running" /\ run.way = "archive" /\ ~Walking
  /\ helper' = IF walk.pc = "done" THEN "exited" ELSE "failed"
  /\ UNCHANGED <<walkVars, run, reader, arrived, report, writer, fed, eaten, engine, cancelled>>

\* It unpacks what there is, until it has all, its input ends or it fails.
HelperUnpacks ==
  /\ helper = "running" /\ run.way = "extract"
  /\ \/ eaten < fed /\ eaten' = eaten + 1 /\ UNCHANGED helper
     \/ eaten = Items /\ helper' = "exited" /\ UNCHANGED eaten
     \/ /\ eaten < fed \/ (eaten < Items /\ writer \in {"done", "failed"})
        /\ helper' = "failed" /\ UNCHANGED eaten
  /\ UNCHANGED <<walkVars, run, reader, arrived, report, writer, fed, engine, cancelled>>

HelperStep == HelperWalks \/ HelperWalked \/ HelperUnpacks

-----------------------------------------------------------------------------
(* The goroutines *)

\* stdcopy.StdCopy takes what comes on either stream, and returns at the end of
\* both, when the connection is gone, or when the archive cannot be written.
Copy ==
  /\ reader = "copying"
  /\ \/ /\ Connected /\ arrived < Len(archive)
        /\ \/ arrived' = arrived + 1 /\ UNCHANGED reader
           \/ reader' = "failed" /\ UNCHANGED arrived
        /\ UNCHANGED report
     \/ /\ Connected /\ run.way = "archive" /\ walk.pc = "done" /\ ~report
        /\ report' = TRUE
        /\ UNCHANGED <<reader, arrived>>
     \/ /\ Connected => (Exited /\ arrived = Len(archive) /\ (walk.pc = "done" => report))
        /\ reader' \in IF Connected THEN {"done"} ELSE {"done", "failed"}
        /\ UNCHANGED <<arrived, report>>
  /\ UNCHANGED <<walkVars, run, helper, writer, fed, eaten, engine, cancelled>>

\* io.Copy, then CloseWrite: all is sent, or reading the archive fails, or
\* nobody is there any more to take it.
Feed ==
  /\ writer = "copying"
  /\ \/ /\ Connected /\ ~Exited /\ fed < Items /\ fed - eaten < Room
        /\ \/ fed' = fed + 1 /\ UNCHANGED writer
           \/ writer' = "failed" /\ UNCHANGED fed
     \/ fed < Items /\ (Connected => Exited) /\ writer' = "failed" /\ UNCHANGED fed
     \/ fed = Items /\ writer' = "done" /\ UNCHANGED fed
  /\ UNCHANGED <<walkVars, run, helper, reader, arrived, report, eaten, engine, cancelled>>

-----------------------------------------------------------------------------
(* The caller *)

Goes(pc) == run' = [run EXCEPT !.pc = pc]
GoesWrong(pc) == run' = [run EXCEPT !.pc = pc, !.err = TRUE]

\* archive.Create into the archive file.
DirectWalk ==
  /\ At("walk") /\ Walking
  /\ \/ (cancelled => walk.pc # "visit" \/ walk.todo = {}) /\ WalkStep /\ arrived' = Len(archive')
     \/ Break /\ UNCHANGED arrived
  /\ UNCHANGED <<run, helper, reader, report, writer, fed, eaten, engine, cancelled>>

DirectEnd ==
  /\ At("walk") /\ ~Walking
  /\ IF walk.pc = "done" THEN Goes("returned") ELSE GoesWrong("returned")
  /\ UNCHANGED <<walkVars, helperVars, engine, cancelled>>

\* The container is created, the wait for it registered, its streams attached,
\* then it is started; any of these calls may fail.
Create ==
  /\ At("create")
  /\ \/ engine /\ ~cancelled /\ helper' = "created" /\ Goes("attach")
     \/ GoesWrong("returned") /\ UNCHANGED helper
  /\ UNCHANGED <<walkVars, reader, arrived, report, writer, fed, eaten, engine, cancelled>>

Attach ==
  /\ At("attach")
  /\ \/ engine /\ ~cancelled /\ Goes("start") /\ UNCHANGED helper
     \/ GoesWrong("returned") /\ helper' \in {"removed", "left"}
  /\ UNCHANGED <<walkVars, reader, arrived, report, writer, fed, eaten, engine, cancelled>>

Start ==
  /\ At("start")
  /\ \/ /\ engine /\ ~cancelled
        /\ Goes("select") /\ helper' = "running" /\ reader' = "copying"
        /\ writer' = IF run.way = "extract" THEN "copying" ELSE "done"
     \/ /\ GoesWrong("returned") /\ helper' \in {"removed", "left"}
        /\ UNCHANGED <<reader, writer>>
  /\ UNCHANGED <<walkVars, arrived, report, fed, eaten, engine, cancelled>>

\* The helper has exited; or waiting for it has failed, with the engine or
\* because the request was made with the context; or the context is done.
SelectExit ==
  /\ At("select") /\ helper \in {"exited", "failed"} /\ engine
  /\ IF helper = "exited" THEN Goes("drain") ELSE GoesWrong("drain")
  /\ UNCHANGED <<walkVars, helperVars, engine, cancelled>>

\* Mutant: nobody looks at whether waiting for the helper has failed.
SelectErrorNot == FALSE

SelectError ==
  /\ At("select") /\ (~engine \/ cancelled)
  /\ GoesWrong("drain")
  /\ UNCHANGED <<walkVars, helperVars, engine, cancelled>>

SelectCancelled ==
  /\ At("select") /\ cancelled
  /\ run' = [run EXCEPT !.pc = "drain", !.err = TRUE, !.closed = TRUE]
  /\ UNCHANGED <<walkVars, helperVars, engine, cancelled>>

\* Mutant: the caller does not wait for what is still on its way.
DrainNot ==
  /\ At("drain")
  /\ IF reader = "failed" THEN GoesWrong("join") ELSE Goes("join")
  /\ UNCHANGED <<walkVars, helperVars, engine, cancelled>>

Drain ==
  /\ At("drain") /\ reader \in {"done", "failed"}
  /\ IF reader = "failed" THEN GoesWrong("join") ELSE Goes("join")
  /\ UNCHANGED <<walkVars, helperVars, engine, cancelled>>

\* The deferred removal may fail.  An archive counts only with the report.
Join ==
  /\ At("join") /\ writer \in {"done", "failed"}
  /\ IF writer = "failed" \/ (run.way = "archive" /\ ~report)
       THEN GoesWrong("returned") ELSE Goes("returned")
  /\ helper' \in {"removed", "left"}
  /\ UNCHANGED <<walkVars, reader, arrived, report, writer, fed, eaten, engine, cancelled>>

Call ==
  \/ DirectWalk \/ DirectEnd \/ Create \/ Attach \/ Start
  \/ SelectExit \/ SelectError \/ SelectCancelled \/ Drain \/ Join

-----------------------------------------------------------------------------

\* Beside it all: the container uses its volume, and, one of the two, the caller
\* is cancelled or the engine goes away.
Container ==
  /\ At("walk") \/ helper = "running"
  /\ UseVolume
  /\ UNCHANGED <<run, helperVars, engine, cancelled>>

Cancel ==
  /\ ~cancelled /\ engine /\ ~At("returned")
  /\ cancelled' = TRUE
  /\ UNCHANGED <<walkVars, run, helperVars, engine>>

EngineGoes ==
  /\ engine /\ ~cancelled /\ ~At("returned") /\ run.way # "direct"
  /\ engine' = FALSE
  /\ UNCHANGED <<walkVars, run, helperVars, cancelled>>

Next == Call \/ HelperStep \/ Copy \/ Feed \/ Container \/ Cancel \/ EngineGoes

Spec == Init /\ [][Next]_vars

\* Goroutines and processes that can go on do.  Nobody has to cancel anything.
FairSpec ==
  Spec /\ WF_vars(Call) /\ WF_vars(HelperStep) /\ WF_vars(Copy) /\ WF_vars(Feed)

-----------------------------------------------------------------------------
(* Properties *)

\* A call that reports success, from an engine that has not gone away between
\* the report and the tail.
Success == At("returned") /\ ~run.err /\ engine

\* All of what was to be unpacked is, or all of the archive is there, to its end.
AllArrived ==
  IF run.way = "extract" THEN eaten = Items
  ELSE arrived = Len(archive) /\ archive # <<>> /\ archive[Len(archive)] = Trailer

\* Archive reports success only of an archive that is whole and gives back
\* what stayed as it was, however it was reached: "the tail of the stream can
\* be lost" otherwise (helper.go:153-155).  And Restore only if the helper has
\* unpacked everything.
SuccessIsWhole == Success => AllArrived /\ (run.way = "extract" \/ GivesBack(archive))

\* A helper whose output nobody takes any more blocks, and the caller, who
\* waits for it to exit, does not look at the reader.
Jammed == At("select") /\ reader = "failed" /\ helper = "running" /\ ~cancelled

\* A call by way of a helper always returns, unless it jams; and even then when
\* it is cancelled (helper.go:143-151): end of input is signalled, and nobody
\* waits for a stream that is no longer going anywhere.
RunEnds ==
  /\ At("select") ~> At("returned") \/ Jammed
  /\ At("select") /\ cancelled ~> At("returned")

\* "The container must come back up whatever happens below. A failed snapshot
\* that leaves a service down is a worse outcome than no snapshot at all"
\* (snapshot.go:142-144): Take starts the container it stopped when archiving
\* its volumes has returned.
ComesBackUp == At("select") /\ run.way = "archive" /\ ~hot ~> At("returned")
=============================================================================
