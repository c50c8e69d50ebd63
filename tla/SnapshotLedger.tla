--------------------------- MODULE SnapshotLedger ---------------------------
(***************************************************************************)
(* What the store promises whoever asks it for a rollback point: a         *)
(* snapshot appears all at once, newer than every one before it, and goes  *)
(* only when the retention policy has given it up.                         *)
(***************************************************************************)
EXTENDS Integers

CONSTANTS MaxClock, Keep, Days, ProtectManual

VARIABLES
  now,       \* the current second
  ever,      \* every snapshot published so far
  byHand,    \* those of them that were taken by hand
  usable     \* the snapshots a restore can use

ledgerVars == <<now, ever, byHand, usable>>

Routine == ever \ (IF ProtectManual THEN byHand ELSE {})

\* A routine snapshot is given up once Keep newer routine ones exist and it
\* has reached the age of Days.
GivenUp(s) ==
  /\ s \in Routine
  /\ \E newer \in [1 .. Keep -> {t \in Routine : t > s}] :
       \A i, j \in 1 .. Keep : i # j => newer[i] # newer[j]
  /\ Days = 0 \/ s + Days <= now

LedgerInit == now = 0 /\ ever = {} /\ byHand = {} /\ usable = {}

Passes == now' = now + 1 /\ UNCHANGED <<ever, byHand, usable>>

Publish(s) ==
  /\ \A t \in ever : t < s
  /\ ever' = ever \cup {s}
  /\ byHand' \in {byHand, byHand \cup {s}}
  /\ usable' = usable \cup {s}
  /\ UNCHANGED now

Retire(s) ==
  /\ GivenUp(s)
  /\ usable' = usable \ {s}
  /\ UNCHANGED <<now, ever, byHand>>

LedgerNext == Passes \/ \E s \in 1 .. MaxClock : Publish(s) \/ Retire(s)

LedgerSpec == LedgerInit /\ [][LedgerNext]_ledgerVars
=============================================================================
