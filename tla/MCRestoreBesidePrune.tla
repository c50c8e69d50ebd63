------------------------ MODULE MCRestoreBesidePrune ------------------------
(* Bounds for the runs of RestoreBesidePrune. *)
EXTENDS RestoreBesidePrune

CONSTANT p1

OnePruner == {p1}

\* `rollback`, `restore --skip-verify` and `restore --data=false --config`.
Asked == {[data |-> TRUE, recreate |-> TRUE, image |-> TRUE, verify |-> TRUE],
          [data |-> TRUE, recreate |-> FALSE, image |-> FALSE, verify |-> FALSE],
          [data |-> FALSE, recreate |-> TRUE, image |-> FALSE, verify |-> TRUE]}
=============================================================================
