--------------------------- MODULE ContainerMutex ---------------------------
(***************************************************************************)
(* What the lock files of a container promise (lock/lock.go:1-12): one run *)
(* at a time has the container, and nobody else replaces it meanwhile.     *)
(* ContainerRuns implements this: see Mutex there.                         *)
(***************************************************************************)
EXTENDS Naturals

CONSTANT Runs

VARIABLES
  owners,  \* the runs that have the container: one, or none
  age      \* how often the container was replaced

Init == owners = {} /\ age = 0

Enter(r) == owners = {} /\ owners' = {r} /\ UNCHANGED age

\* A run replaces the container, if it does, with the last thing it does to it.
Exit(r) == owners = {r} /\ owners' = {} /\ age' \in {age, age + 1}

Next == \E r \in Runs : Enter(r) \/ Exit(r)

Spec == Init /\ [][Next]_<<owners, age>>
=============================================================================
