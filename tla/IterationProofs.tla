--------------------------- MODULE IterationProofs ---------------------------
(***************************************************************************)
(* Induction over sets instead of predicates, and what it says of loops.   *)
(***************************************************************************)
EXTENDS Iteration, FiniteSetTheorems, TLAPS

-----------------------------------------------------------------------------
(* Induction *)

\* A set of finite sets has one that is minimal.
LEMMA MinimalSet ==
  ASSUME NEW S, IsFiniteSet(S), NEW Bad \in SUBSET SUBSET S, Bad # {}
  PROVE  \E T \in Bad : \A x \in T : T \ {x} \notin Bad
<1>1. IsWellFoundedOn(StrictSubsetOrdering(S), SUBSET S)
  BY FS_StrictSubsetOrderingWellFounded, FS_FiniteSubsetsOfFinite
<1>2. PICK T \in Bad : \A U \in Bad : <<U, T>> \notin StrictSubsetOrdering(S)
  BY <1>1, WFMin
<1>3. ASSUME NEW x \in T, T \ {x} \in Bad
      PROVE  FALSE
  <2>1. /\ <<T \ {x}, T>> \in (SUBSET S) \X (SUBSET S)
        /\ T \ {x} \subseteq T /\ T \ {x} # T
    BY <1>3
  <2>2. <<T \ {x}, T>> \in StrictSubsetOrdering(S)
    BY <2>1 DEF StrictSubsetOrdering
  <2>3. QED
    BY <1>2, <1>3, <2>2
<1>4. QED
  BY <1>3

LEMMA SmallestNumber ==
  ASSUME NEW S \in SUBSET Nat, S # {}
  PROVE  \E n \in S : \A m \in S : n <= m
<1> DEFINE R == {x \in Nat \X Nat : x[1] < x[2]}
<1>1. IsWellFoundedOn(R, Nat)
  BY NatLessThanWellFounded DEF OpToRel
<1>2. \E n \in S : \A m \in S : ~(<<m, n>> \in R)
  BY <1>1, WFMin
<1>3. PICK n \in S : \A m \in S : ~(<<m, n>> \in R)
  BY <1>2
<1>4. ASSUME NEW m \in S
      PROVE  n <= m
  <2>1. ~(<<m, n>> \in R)
    BY <1>3
  <2>2. <<m, n>> \in Nat \X Nat
    OBVIOUS
  <2>3. QED
    BY <2>1, <2>2
<1>5. QED
  BY <1>4

\* S holds the numbers of which it is shown.
LEMMA Upto ==
  ASSUME NEW n \in Nat, NEW S, 0 \in S, \A i \in 1 .. n : i - 1 \in S => i \in S
  PROVE  \A i \in 0 .. n : i \in S
<1> SUFFICES ASSUME {i \in 0 .. n : i \notin S} # {}
             PROVE  FALSE
  OBVIOUS
<1>1. PICK i \in {j \in 0 .. n : j \notin S} : \A m \in {j \in 0 .. n : j \notin S} : i <= m
  BY SmallestNumber, {j \in 0 .. n : j \notin S} \in SUBSET Nat
<1>2. i # 0 /\ i \in 1 .. n /\ i - 1 \in 0 .. n
  BY <1>1
<1>3. i - 1 \in S
  BY <1>1, <1>2
<1>4. QED
  BY <1>1, <1>2, <1>3

-----------------------------------------------------------------------------
(* Loops *)

IsLoop(f, step, v, n) == f = [i \in 0 .. n |-> IF i = 0 THEN v ELSE step[i][f[i - 1]]]

LEMMA LoopExists ==
  ASSUME NEW n \in Nat, NEW step, NEW v
  PROVE  \E f : IsLoop(f, step, v, n)
<1> DEFINE S == {k \in Nat : \E f : IsLoop(f, step, v, k)}
<1>1. 0 \in S
  <2> DEFINE f == [i \in 0 .. 0 |-> v]
  <2>1. f = [i \in 0 .. 0 |-> IF i = 0 THEN v ELSE step[i][f[i - 1]]]
    OBVIOUS
  <2>2. IsLoop(f, step, v, 0)
    BY <2>1 DEF IsLoop
  <2>3. QED
    BY <2>2
<1>2. ASSUME NEW k \in 1 .. n, k - 1 \in S
      PROVE  k \in S
  <2>1. PICK f : IsLoop(f, step, v, k - 1)
    BY <1>2
  <2> DEFINE g == [i \in 0 .. k |-> IF i = k THEN step[k][f[k - 1]] ELSE f[i]]
  <2>2. ASSUME NEW i \in 0 .. k
        PROVE  g[i] = IF i = 0 THEN v ELSE step[i][g[i - 1]]
    <3>1. CASE i = 0
      BY <3>1, <2>1 DEF IsLoop
    <3>2. CASE i = k
      BY <3>2
    <3>3. CASE i \in 1 .. k - 1
      <4>1. f[i] = step[i][f[i - 1]]
        BY <3>3, <2>1 DEF IsLoop
      <4>2. QED
        BY <4>1, <3>3
    <3>4. QED
      BY <3>1, <3>2, <3>3
  <2>3. IsLoop(g, step, v, k)
    BY <2>2 DEF IsLoop
  <2>4. QED
    BY <2>3
<1>3. \A k \in 0 .. n : k \in S
  <2> HIDE DEF S
  <2>1. QED
    BY <1>1, <1>2, Upto
<1>4. QED
  BY <1>3

\* What holds at first and after each turn of a loop holds after the loop.
LEMMA LoopInvariant ==
  ASSUME NEW n \in Nat, NEW step, NEW v, NEW I,
         <<0, v>> \in I,
         \A i \in 1 .. n : \A w : <<i - 1, w>> \in I => <<i, step[i][w]>> \in I
  PROVE  <<n, Iterate(step, v, n)>> \in I
<1> DEFINE f == CHOOSE g : g = [i \in 0 .. n |-> IF i = 0 THEN v ELSE step[i][g[i - 1]]]
<1>1. \E g : g = [i \in 0 .. n |-> IF i = 0 THEN v ELSE step[i][g[i - 1]]]
  <2>1. PICK g : IsLoop(g, step, v, n)
    BY LoopExists
  <2>2. g = [i \in 0 .. n |-> IF i = 0 THEN v ELSE step[i][g[i - 1]]]
    BY <2>1 DEF IsLoop
  <2>3. QED
    BY <2>2
<1>2. f = [i \in 0 .. n |-> IF i = 0 THEN v ELSE step[i][f[i - 1]]]
  BY <1>1, Zenon
<1>3. Iterate(step, v, n) = f[n]
  BY DEF Iterate
<1> HIDE DEF f
<1> DEFINE S == {i \in 0 .. n : <<i, f[i]>> \in I}
<1>4. 0 \in S
  BY <1>2
<1>5. ASSUME NEW i \in 1 .. n, i - 1 \in S
      PROVE  i \in S
  BY <1>5, <1>2
<1>6. \A i \in 0 .. n : i \in S
  <2> HIDE DEF S
  <2>1. QED
    BY <1>4, <1>5, Upto
<1>7. QED
  BY <1>6, <1>3

\* A loop goes on from where it would have ended.
LEMMA LoopNext ==
  ASSUME NEW n \in Nat, NEW step, NEW next, NEW v, \A i \in 1 .. n : next[i] = step[i]
  PROVE  Iterate(next, v, n + 1) = next[n + 1][Iterate(step, v, n)]
<1>1. PICK f : IsLoop(f, next, v, n + 1)
  <2>1. n + 1 \in Nat
    OBVIOUS
  <2>2. QED
    BY <2>1, LoopExists, Zenon
<1>2. f[0] = v /\ \A i \in 1 .. n + 1 : f[i] = next[i][f[i - 1]]
  BY <1>1 DEF IsLoop
<1>3. ASSUME NEW m \in {n, n + 1}, NEW g, \A i \in 1 .. m : g[i] = next[i]
      PROVE  Iterate(g, v, m) = f[m]
  <2> DEFINE I == {<<i, f[i]>> : i \in 0 .. m}
  <2>1. <<0, v>> \in I
    BY <1>2
  <2>2. ASSUME NEW i \in 1 .. m, NEW w, <<i - 1, w>> \in I
        PROVE  <<i, g[i][w]>> \in I
    BY <1>2, <1>3, <2>2
  <2>3. <<m, Iterate(g, v, m)>> \in I
    <3> HIDE DEF I
    <3>1. m \in Nat
      OBVIOUS
    <3>2. QED
      BY <2>1, <2>2, <3>1, LoopInvariant
  <2>4. QED
    BY <2>3
<1>4. Iterate(step, v, n) = f[n] /\ Iterate(next, v, n + 1) = f[n + 1]
  BY <1>3
<1>5. QED
  BY <1>2, <1>4
=============================================================================
