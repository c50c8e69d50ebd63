----------------------------- MODULE MCHelperRun -----------------------------
(* A volume with two files, one of them in a directory, and a symlink. *)
EXTENDS HelperRun

Names == 1 .. 4
KindOfName == <<"file", "dir", "file", "symlink">>
AboveName == <<{}, {}, {2}, {}>>
=============================================================================
