-------------------------- MODULE MCContainerRuns --------------------------
(* The runs of the daemon and the commands that meet. *)
EXTENDS ContainerRuns, TLC

CONSTANTS a, b, c, d

Four == {a, b, c, d}

\* The two loops of the daemon, and two commands.
DaemonAndCommands ==
  (a :> "updatePass") @@ (b :> "backupPass") @@ (c :> "update") @@ (d :> "restore")
=============================================================================
