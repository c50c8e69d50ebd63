------------------------------ MODULE Iteration ------------------------------
(* Loops: from v to step[i][v] for i = 1, 2, ..., n. *)
EXTENDS Naturals

Iterate(step, v, n) ==
  LET after[i \in 0 .. n] == IF i = 0 THEN v ELSE step[i][after[i - 1]]
  IN  after[n]
=============================================================================
