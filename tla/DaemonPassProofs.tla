--------------------------- MODULE DaemonPassProofs ---------------------------
(***************************************************************************)
(* Theorems about DaemonPass and, first, about the order of UpdateOrder    *)
(* and the checks of UpdateChecks that its passes are made of, for any     *)
(* containers, registries, accounts, labels and layers of policies, and    *)
(* for any number of passes.                                               *)
(***************************************************************************)
EXTENDS DaemonPass, IterationProofs

-----------------------------------------------------------------------------
(* Sets of numbers *)

LEMMA Greatest ==
  ASSUME NEW S \in SUBSET Nat, IsFiniteSet(S), S # {}
  PROVE  \E m \in S : \A x \in S : x <= m
<1> DEFINE Bad == {T \in SUBSET S : T # {} /\ ~ \E m \in T : \A x \in T : x <= m}
<1> SUFFICES ASSUME Bad # {}
             PROVE  FALSE
  OBVIOUS
<1>1. Bad \in SUBSET SUBSET S
  OBVIOUS
<1>2. PICK T \in Bad : \A x \in T : T \ {x} \notin Bad
  <2> HIDE DEF Bad
  <2>1. QED
    BY <1>1, MinimalSet
<1>3. PICK x \in T : TRUE
  OBVIOUS
<1>4. CASE T = {x}
  BY <1>4
<1>5. CASE T # {x}
  <2>1. PICK m \in T \ {x} : \A y \in T \ {x} : y <= m
    BY <1>2, <1>3, <1>5
  <2>2. CASE x <= m
    BY <2>1, <2>2
  <2>3. CASE m <= x
    BY <2>1, <2>3
  <2>4. QED
    BY <2>2, <2>3
<1>6. QED
  BY <1>4, <1>5

LEMMA AscendingExists ==
  ASSUME NEW S \in SUBSET Nat, IsFiniteSet(S)
  PROVE  \E q \in [1 .. Cardinality(S) -> S] : \A i, j \in DOMAIN q : i < j => q[i] < q[j]
<1> DEFINE Sorted(q) == \A i, j \in DOMAIN q : i < j => q[i] < q[j]
           Bad == {T \in SUBSET S : ~ \E q \in [1 .. Cardinality(T) -> T] : Sorted(q)}
<1> SUFFICES ASSUME Bad # {}
             PROVE  FALSE
  OBVIOUS
<1>1. PICK T \in Bad : \A x \in T : T \ {x} \notin Bad
  <2>1. Bad \in SUBSET SUBSET S
    OBVIOUS
  <2>2. QED
    <3> HIDE DEF Bad
    <3>1. QED
      BY <2>1, MinimalSet
<1>2. T \in SUBSET S /\ ~ \E q \in [1 .. Cardinality(T) -> T] : Sorted(q)
  OBVIOUS
<1>3. IsFiniteSet(T) /\ Cardinality(T) \in Nat
  BY <1>2, FS_Subset, FS_CardinalityType
<1>4. CASE T = {}
  <2>1. Cardinality(T) = 0
    BY <1>4, FS_EmptySet
  <2> DEFINE q == [i \in 1 .. 0 |-> i]
  <2>2. q \in [1 .. 0 -> T] /\ Sorted(q)
    OBVIOUS
  <2>3. QED
    BY <1>2, <2>1, <2>2
<1>5. CASE T # {}
  <2> DEFINE k == Cardinality(T)
  <2>1. PICK m \in T : \A x \in T : x <= m
    BY <1>2, <1>3, <1>5, Greatest
  <2>2. Cardinality(T \ {m}) = k - 1 /\ k \in Nat \ {0}
    <3>1. Cardinality(T \ {m}) = k - 1 /\ Cardinality(T \ {m}) \in Nat
      BY <1>3, FS_RemoveElement, FS_CardinalityType
    <3>2. QED
      BY <3>1, <1>3
  <2>3. PICK q \in [1 .. k - 1 -> T \ {m}] : Sorted(q)
    BY <1>1, <1>2, <2>2
  <2> HIDE DEF k
  <2> DEFINE r == [i \in 1 .. k |-> IF i = k THEN m ELSE q[i]]
  <2>4. r \in [1 .. k -> T]
    BY <2>2, <2>3
  <2>5. ASSUME NEW i \in 1 .. k, NEW j \in 1 .. k, i < j
        PROVE  r[i] < r[j]
    <3>1. i \in 1 .. k - 1 /\ q[i] \in T \ {m} /\ r[i] = q[i]
      BY <2>2, <2>3, <2>5
    <3>2. CASE j = k
      <4>1. r[j] = m /\ q[i] <= m /\ q[i] # m
        BY <3>1, <3>2, <2>1
      <4>2. q[i] \in Nat /\ m \in Nat
        BY <3>1, <1>2
      <4>3. QED
        BY <3>1, <4>1, <4>2
    <3>3. CASE j # k
      BY <3>1, <3>3, <2>2, <2>3, <2>5
    <3>4. QED
      BY <3>2, <3>3
  <2>6. Sorted(r)
    BY <2>4, <2>5
  <2>7. QED
    BY <1>2, <2>4, <2>6 DEF k
<1>6. QED
  BY <1>4, <1>5

\* Sorting loses nothing and doubles nothing.
LEMMA AscendingFacts ==
  ASSUME NEW S \in SUBSET Nat, IsFiniteSet(S)
  PROVE  /\ Ascending(S) \in Seq(S) /\ IsInjective(Ascending(S))
         /\ ToSet(Ascending(S)) = S
<1> DEFINE q == Ascending(S)
<1>1. q \in [1 .. Cardinality(S) -> S] /\ \A i, j \in DOMAIN q : i < j => q[i] < q[j]
  BY AscendingExists, Zenon DEF Ascending
<1> HIDE DEF q
<1>2. Cardinality(S) \in Nat
  BY FS_CardinalityType
<1>3. q \in Seq(S)
  BY <1>1, <1>2
<1>4. ASSUME NEW i \in DOMAIN q, NEW j \in DOMAIN q, q[i] = q[j]
      PROVE  i = j
  <2>1. i \in Nat /\ j \in Nat /\ q[i] \in Nat /\ q[j] \in Nat
    <3>1. i \in 1 .. Cardinality(S) /\ j \in 1 .. Cardinality(S)
      BY <1>1
    <3>2. q[i] \in S /\ q[j] \in S
      BY <1>1, <3>1
    <3>3. S \subseteq Nat /\ 1 .. Cardinality(S) \subseteq Nat
      BY <1>2
    <3>4. QED
      BY <3>1, <3>2, <3>3
  <2>2. ~(i < j) /\ ~(j < i)
    BY <1>1, <1>4, <2>1
  <2>3. QED
    BY <2>1, <2>2
<1>5. IsInjective(q)
  BY <1>4 DEF IsInjective
<1>6. q \in Surjection(1 .. Cardinality(S), S)
  <2>1. q \in Injection(1 .. Cardinality(S), S)
    BY <1>1, <1>5 DEF Injection
  <2>2. Cardinality(1 .. Cardinality(S)) = Cardinality(S)
    BY <1>2, FS_Interval
  <2>3. QED
    BY <2>1, <2>2, FS_Injection
<1>7. ToSet(q) = S
  BY <1>1, <1>6 DEF ToSet, Surjection
<1>8. QED
  BY <1>3, <1>5, <1>7 DEF q

-----------------------------------------------------------------------------
(* Sequences *)

LEMMA InRange ==
  ASSUME NEW T, NEW q \in Seq(T)
  PROVE  /\ DOMAIN q = 1 .. Len(q) /\ Len(q) \in Nat
         /\ \A x : x \in ToSet(q) <=> \E i \in 1 .. Len(q) : q[i] = x
         /\ ToSet(q) \subseteq T
<1>1. DOMAIN q = 1 .. Len(q) /\ Len(q) \in Nat /\ \A i \in 1 .. Len(q) : q[i] \in T
  OBVIOUS
<1>2. QED
  BY <1>1 DEF ToSet

\* q is how r begins.
Begins(q, r) == Len(q) <= Len(r) /\ \A i \in 1 .. Len(q) : r[i] = q[i]

LEMMA BeginsFacts ==
  ASSUME NEW T, NEW q \in Seq(T), NEW r \in Seq(T), Begins(q, r)
  PROVE  /\ ToSet(q) \subseteq ToSet(r)
         /\ \A x, y : Before(q, x, y) => Before(r, x, y)
<1>1. /\ Len(q) \in Nat /\ Len(r) \in Nat /\ DOMAIN q \subseteq DOMAIN r
      /\ \A i \in DOMAIN q : r[i] = q[i]
  BY InRange DEF Begins
<1>2. ToSet(q) \subseteq ToSet(r)
  BY <1>1 DEF ToSet
<1>3. ASSUME NEW x, NEW y, Before(q, x, y)
      PROVE  Before(r, x, y)
  BY <1>1, <1>3 DEF Before
<1>4. QED
  BY <1>2, <1>3

LEMMA BeginsTransitive ==
  ASSUME NEW T, NEW p \in Seq(T), NEW q \in Seq(T), NEW r \in Seq(T), Begins(p, q), Begins(q, r)
  PROVE  Begins(p, r)
<1>1. Len(p) \in Nat /\ Len(q) \in Nat /\ Len(r) \in Nat
  OBVIOUS
<1>2. QED
  BY <1>1 DEF Begins

LEMMA AppendFacts ==
  ASSUME NEW T, NEW q \in Seq(T), NEW c \in T, c \notin ToSet(q)
  PROVE  /\ Append(q, c) \in Seq(T) /\ ToSet(Append(q, c)) = ToSet(q) \cup {c}
         /\ Begins(q, Append(q, c))
         /\ IsInjective(q) => IsInjective(Append(q, c))
         /\ \A x \in ToSet(q) : Before(Append(q, c), x, c)
<1> DEFINE r == Append(q, c)
<1>1. /\ r \in Seq(T) /\ Len(r) = Len(q) + 1 /\ Len(q) \in Nat /\ r[Len(q) + 1] = c
      /\ \A i \in 1 .. Len(q) : r[i] = q[i]
  OBVIOUS
<1> HIDE DEF r
<1>2. /\ DOMAIN q = 1 .. Len(q) /\ DOMAIN r = 1 .. Len(q) + 1
      /\ \A i \in 1 .. Len(q) + 1 : i \in 1 .. Len(q) \/ i = Len(q) + 1
  BY <1>1, InRange
<1>3. ToSet(r) = ToSet(q) \cup {c}
  BY <1>1, <1>2 DEF ToSet
<1>4. Begins(q, r)
  BY <1>1 DEF Begins
<1>5. ASSUME IsInjective(q), NEW i \in DOMAIN r, NEW j \in DOMAIN r, r[i] = r[j]
      PROVE  i = j
  <2>1. \A k \in 1 .. Len(q) : q[k] # c
    BY <1>2 DEF ToSet
  <2>2. QED
    BY <1>1, <1>2, <1>5, <2>1 DEF IsInjective
<1>6. ASSUME NEW x \in ToSet(q)
      PROVE  Before(r, x, c)
  <2>1. PICK i \in 1 .. Len(q) : q[i] = x
    BY <1>2 DEF ToSet
  <2>2. i \in DOMAIN r /\ Len(q) + 1 \in DOMAIN r /\ i < Len(q) + 1 /\ r[i] = x
    BY <1>1, <1>2, <2>1
  <2>3. QED
    BY <1>1, <2>2 DEF Before
<1>7. QED
  BY <1>1, <1>3, <1>4, <1>5, <1>6 DEF IsInjective, r

LEMMA ConcatFacts ==
  ASSUME NEW T, NEW q \in Seq(T), NEW r \in Seq(T), ToSet(q) \cap ToSet(r) = {},
         IsInjective(q), IsInjective(r)
  PROVE  /\ q \o r \in Seq(T) /\ ToSet(q \o r) = ToSet(q) \cup ToSet(r)
         /\ IsInjective(q \o r)
         /\ \A x, y : Before(q, x, y) \/ Before(r, x, y) => Before(q \o r, x, y)
<1> DEFINE s == q \o r
<1>1. /\ s \in Seq(T) /\ Len(s) = Len(q) + Len(r) /\ Len(q) \in Nat /\ Len(r) \in Nat
      /\ \A i \in 1 .. Len(q) : s[i] = q[i]
      /\ \A i \in 1 .. Len(r) : s[Len(q) + i] = r[i]
  OBVIOUS
<1> HIDE DEF s
<1>2. /\ DOMAIN q = 1 .. Len(q) /\ DOMAIN r = 1 .. Len(r) /\ DOMAIN s = 1 .. Len(q) + Len(r)
      /\ \A i \in DOMAIN s : i \in DOMAIN q \/ (i - Len(q) \in DOMAIN r /\ i = Len(q) + (i - Len(q)))
  BY <1>1, InRange
<1>3. ToSet(s) = ToSet(q) \cup ToSet(r)
  <2>1. ASSUME NEW x \in ToSet(s)
        PROVE  x \in ToSet(q) \cup ToSet(r)
    BY <1>1, <1>2 DEF ToSet
  <2>2. ASSUME NEW x \in ToSet(q)
        PROVE  x \in ToSet(s)
    BY <1>1, <1>2 DEF ToSet
  <2>3. ASSUME NEW x \in ToSet(r)
        PROVE  x \in ToSet(s)
    <3>1. PICK i \in 1 .. Len(r) : r[i] = x
      BY <1>2 DEF ToSet
    <3>2. Len(q) + i \in DOMAIN s /\ s[Len(q) + i] = x
      BY <1>1, <1>2, <3>1
    <3>3. QED
      BY <3>2 DEF ToSet
  <2>4. QED
    BY <2>1, <2>2, <2>3
<1>4. ASSUME NEW i \in DOMAIN s, NEW j \in DOMAIN s, s[i] = s[j]
      PROVE  i = j
  <2>1. ASSUME NEW k \in DOMAIN q, NEW l \in DOMAIN r
        PROVE  q[k] # r[l]
    BY DEF ToSet
  <2>2. CASE i \in DOMAIN q /\ j \in DOMAIN q
    BY <1>1, <1>2, <1>4, <2>2 DEF IsInjective
  <2>3. CASE i \in DOMAIN q /\ j \notin DOMAIN q
    BY <1>1, <1>2, <1>4, <2>1, <2>3
  <2>4. CASE i \notin DOMAIN q /\ j \in DOMAIN q
    BY <1>1, <1>2, <1>4, <2>1, <2>4
  <2>5. CASE i \notin DOMAIN q /\ j \notin DOMAIN q
    <3>1. r[i - Len(q)] = r[j - Len(q)] /\ i - Len(q) \in DOMAIN r /\ j - Len(q) \in DOMAIN r
      BY <1>1, <1>2, <1>4, <2>5
    <3>2. i - Len(q) = j - Len(q)
      BY <3>1 DEF IsInjective
    <3>3. QED
      BY <3>2, <1>1, <1>2
  <2>6. QED
    BY <2>2, <2>3, <2>4, <2>5
<1>5. ASSUME NEW x, NEW y, Before(q, x, y)
      PROVE  Before(s, x, y)
  <2>1. PICK i, j \in DOMAIN q : i < j /\ q[i] = x /\ q[j] = y
    BY <1>5 DEF Before
  <2>2. i \in DOMAIN s /\ j \in DOMAIN s /\ s[i] = x /\ s[j] = y
    BY <1>1, <1>2, <2>1
  <2>3. QED
    BY <2>1, <2>2 DEF Before
<1>6. ASSUME NEW x, NEW y, Before(r, x, y)
      PROVE  Before(s, x, y)
  <2>1. PICK i, j \in DOMAIN r : i < j /\ r[i] = x /\ r[j] = y
    BY <1>6 DEF Before
  <2>2. /\ Len(q) + i \in DOMAIN s /\ Len(q) + j \in DOMAIN s /\ Len(q) + i < Len(q) + j
        /\ s[Len(q) + i] = x /\ s[Len(q) + j] = y
    BY <1>1, <1>2, <2>1
  <2>3. QED
    BY <2>2 DEF Before
<1>7. QED
  BY <1>1, <1>3, <1>4, <1>5, <1>6 DEF IsInjective, s

-----------------------------------------------------------------------------
(* The containers of one project *)

Fleet(S, labels) == S \in SUBSET (Nat \ {0}) /\ IsFiniteSet(S) /\ \A c \in S : labels[c] \in Label
Project(S, labels) ==
  Fleet(S, labels) /\ \A c, d \in S : labels[c].project # 0 /\ labels[c].project = labels[d].project

Services(S, labels) == {labels[c].service : c \in S} \ {0}

LEMMA LastOfFacts ==
  ASSUME NEW S, NEW labels, Fleet(S, labels), NEW s
  PROVE  /\ LastOf(S, labels, s) # 0 =>
              LastOf(S, labels, s) \in S /\ labels[LastOf(S, labels, s)].service = s /\ s # 0
         /\ s \in Services(S, labels) => LastOf(S, labels, s) # 0
<1> DEFINE ofService == {c \in S : labels[c].service = s}
<1>1. CASE s = 0 \/ ofService = {}
  BY <1>1 DEF LastOf, Services
<1>2. CASE s # 0 /\ ofService # {}
  <2>1. ofService \in SUBSET Nat /\ IsFiniteSet(ofService)
    BY FS_Subset DEF Fleet
  <2>2. \E c \in ofService : \A d \in ofService : d <= c
    <3> HIDE DEF ofService
    <3>1. QED
      BY <1>2, <2>1, Greatest
  <2>3. LastOf(S, labels, s) = CHOOSE c \in ofService : \A d \in ofService : d <= c
    BY <1>2 DEF LastOf
  <2>4. LastOf(S, labels, s) \in ofService
    <3> HIDE DEF ofService
    <3>1. QED
      BY <2>2, <2>3
  <2>5. QED
    BY <1>2, <2>4 DEF Fleet
<1>3. QED
  BY <1>1, <1>2

LEMMA InTurnFacts ==
  ASSUME NEW S, NEW labels, NEW c \in S, NEW d \in S, NEW b \in S
  PROVE  /\ DependsInTurn(c, c, S, labels)
         /\ DependsInTurn(b, c, S, labels) /\ DependsOn(c, d, labels) => DependsInTurn(b, d, S, labels)
  BY DEF DependsInTurn

-----------------------------------------------------------------------------
(* Walks *)

\* B are the containers that the walk is at, each with the service it was
\* visited for; those in out it is through with.  A container has what it
\* depends on before it, or else that depends on it in turn.
Sound(w, B, S, labels) ==
  LET Met == ToSet(w.out) \cup B IN
    /\ w \in Walk(S) /\ IsInjective(w.out) /\ B \subseteq S /\ B \cap ToSet(w.out) = {}
    /\ \A x \in Met : labels[x].service = 0 \/ labels[x].service \in w.seen
    /\ \A x \in B : labels[x].service # 0
    /\ \A s \in w.seen : s # 0 /\ \E r \in Met : labels[r].service = s
    /\ \A x, y \in Met : labels[x].service = labels[y].service /\ labels[x].service # 0 => x = y
    /\ \A x \in ToSet(w.out), y \in S :
         DependsOn(x, y, labels) =>
           \E r \in Met : /\ labels[r].service = labels[y].service
                          /\ Before(w.out, r, x) \/ DependsInTurn(r, x, S, labels)

\* c may be visited.
Ready(c, w, B, S, labels) ==
  /\ Sound(w, B, S, labels)
  /\ \A b \in B : DependsInTurn(b, c, S, labels)
  /\ labels[c].service = 0 => c \notin ToSet(w.out)

\* u comes after w, with no container of no service but those in C.
Further(w, u, C, labels) ==
  /\ Begins(w.out, u.out) /\ w.seen \subseteq u.seen
  /\ \A x \in ToSet(u.out) \ ToSet(w.out) : labels[x].service = 0 => x \in C

\* c had its turn.
Served(c, w, labels) ==
  IF labels[c].service = 0 THEN c \in ToSet(w.out) ELSE labels[c].service \in w.seen

\* The services that are left to be seen.
Enough(n, w, S, labels) == Cardinality(Services(S, labels) \ w.seen) <= n

\* What visits that go down n times do.
Correct(visit, n, S, labels) ==
  \A c \in S, w \in Walk(S), B \in SUBSET S :
    Ready(c, w, B, S, labels) /\ Enough(n, w, S, labels) /\ (n = 0 => labels[c].service # 0)
      => /\ Sound(visit[c][w], B, S, labels) /\ Further(w, visit[c][w], {c}, labels)
         /\ Served(c, visit[c][w], labels)

LEMMA FurtherFacts ==
  ASSUME NEW S, NEW labels, NEW w \in Walk(S)
  PROVE  /\ \A C : Further(w, w, C, labels)
         /\ \A u, v \in Walk(S) : \A C, D : Further(w, u, C, labels) /\ Further(u, v, D, labels)
                                           => Further(w, v, C \cup D, labels)
<1>1. ASSUME NEW C
      PROVE  Further(w, w, C, labels)
  BY DEF Further, Begins, Walk
<1>2. ASSUME NEW u \in Walk(S), NEW v \in Walk(S), NEW C, NEW D,
             Further(w, u, C, labels), Further(u, v, D, labels)
      PROVE  Further(w, v, C \cup D, labels)
  <2>1. w.out \in Seq(S) /\ u.out \in Seq(S) /\ v.out \in Seq(S)
    BY DEF Walk
  <2>2. Begins(w.out, v.out)
    BY <1>2, <2>1, BeginsTransitive DEF Further
  <2>3. QED
    BY <1>2, <2>2 DEF Further
<1>3. QED
  BY <1>1, <1>2

LEMMA ServicesAreFew ==
  ASSUME NEW S, NEW labels, Fleet(S, labels)
  PROVE  /\ IsFiniteSet(Services(S, labels))
         /\ Cardinality(Services(S, labels)) \in Nat /\ Cardinality(S) \in Nat
         /\ Cardinality(Services(S, labels)) <= Cardinality(S)
<1> DEFINE f == [c \in S |-> labels[c].service]
           T == {f[c] : c \in S}
<1>1. f \in Surjection(S, T) /\ Services(S, labels) \in SUBSET T
  BY DEF Surjection, Services
<1>2. IsFiniteSet(T) /\ Cardinality(T) <= Cardinality(S) /\ Cardinality(S) \in Nat
  <2> HIDE DEF f, T
  <2>1. QED
    BY <1>1, FS_Surjection, FS_CardinalityType DEF Fleet
<1> HIDE DEF f, T
<1>3. /\ IsFiniteSet(Services(S, labels)) /\ Cardinality(Services(S, labels)) \in Nat
      /\ Cardinality(T) \in Nat /\ Cardinality(Services(S, labels)) <= Cardinality(T)
  BY <1>1, <1>2, FS_Subset, FS_CardinalityType
<1>4. QED
  BY <1>2, <1>3

LEMMA EnoughFacts ==
  ASSUME NEW S, NEW labels, Fleet(S, labels), NEW n \in Nat,
         NEW w \in Walk(S), NEW u \in Walk(S), Enough(n, w, S, labels)
  PROVE  /\ w.seen \subseteq u.seen => Enough(n, u, S, labels)
         /\ n = 0 => Services(S, labels) \subseteq w.seen
         /\ \A s \in Services(S, labels) \ w.seen :
              u.seen = w.seen \cup {s} => n # 0 /\ Enough(n - 1, u, S, labels)
<1> DEFINE Left == Services(S, labels) \ w.seen
<1>1. IsFiniteSet(Left) /\ Cardinality(Left) \in Nat /\ Cardinality(Left) <= n
  <2>1. IsFiniteSet(Services(S, labels))
    BY ServicesAreFew
  <2>2. IsFiniteSet(Left)
    BY <2>1, FS_Subset
  <2>3. QED
    BY <2>2, FS_CardinalityType DEF Enough
<1>2. ASSUME w.seen \subseteq u.seen
      PROVE  Enough(n, u, S, labels)
  <2>1. Services(S, labels) \ u.seen \in SUBSET Left
    BY <1>2
  <2>2. /\ Cardinality(Services(S, labels) \ u.seen) <= Cardinality(Left)
        /\ Cardinality(Services(S, labels) \ u.seen) \in Nat
    BY <1>1, <2>1, FS_Subset, FS_CardinalityType
  <2>3. QED
    BY <1>1, <2>2 DEF Enough
<1>3. ASSUME n = 0
      PROVE  Services(S, labels) \subseteq w.seen
  <2>1. Cardinality(Left) = 0
    BY <1>1, <1>3
  <2>2. Left = {}
    BY <1>1, <2>1, FS_EmptySet
  <2>3. QED
    BY <2>2
<1>4. ASSUME NEW s \in Left, u.seen = w.seen \cup {s}
      PROVE  n # 0 /\ Enough(n - 1, u, S, labels)
  <2>1. Services(S, labels) \ u.seen = Left \ {s}
    BY <1>4
  <2>2. Cardinality(Left \ {s}) = Cardinality(Left) - 1 /\ Cardinality(Left \ {s}) \in Nat
    BY <1>1, FS_RemoveElement, FS_CardinalityType
  <2>3. QED
    <3>1. n # 0
      BY <1>1, <2>2
    <3>2. Cardinality(Left \ {s}) <= n - 1
      BY <1>1, <2>2
    <3>3. QED
      BY <2>1, <3>1, <3>2 DEF Enough
<1>5. QED
  BY <1>2, <1>3, <1>4

-----------------------------------------------------------------------------
(* A visit *)

Appended(w, c) == [w EXCEPT !.out = Append(@, c)]

LEMMA WalkAppend ==
  ASSUME NEW S, NEW c \in S, NEW w \in Walk(S), c \notin ToSet(w.out), IsInjective(w.out),
         NEW u, u = Appended(w, c)
  PROVE  /\ u \in Walk(S) /\ u.seen = w.seen
         /\ ToSet(u.out) = ToSet(w.out) \cup {c} /\ Begins(w.out, u.out) /\ IsInjective(u.out)
         /\ \A x, y : Before(w.out, x, y) => Before(u.out, x, y)
         /\ \A x \in ToSet(w.out) : Before(u.out, x, c)
<1>1. w.out \in Seq(S) /\ w.seen \in SUBSET Nat /\ u.out = Append(w.out, c) /\ u.seen = w.seen
      /\ u = [out |-> u.out, seen |-> u.seen]
  BY DEF Walk, Appended
<1>2. /\ u.out \in Seq(S)
      /\ ToSet(u.out) = ToSet(w.out) \cup {c} /\ Begins(w.out, u.out) /\ IsInjective(u.out)
      /\ \A x \in ToSet(w.out) : Before(u.out, x, c)
  BY <1>1, AppendFacts
<1>3. \A x, y : Before(w.out, x, y) => Before(u.out, x, y)
  BY <1>1, <1>2, BeginsFacts
<1>4. u \in Walk(S)
  BY <1>1, <1>2 DEF Walk
<1>5. QED
  BY <1>1, <1>2, <1>3, <1>4

\* A container that belongs to no service.
LEMMA UnnamedVisit ==
  ASSUME NEW S, NEW labels, NEW B, NEW c \in S, NEW w,
         Ready(c, w, B, S, labels), labels[c].service = 0,
         NEW u, u = Appended(w, c)
  PROVE  Sound(u, B, S, labels) /\ Further(w, u, {c}, labels) /\ Served(c, u, labels)
<1>1. w \in Walk(S) /\ c \notin ToSet(w.out) /\ c \notin B /\ IsInjective(w.out)
  BY DEF Ready, Sound
<1>2. /\ u \in Walk(S) /\ u.seen = w.seen
      /\ ToSet(u.out) = ToSet(w.out) \cup {c} /\ Begins(w.out, u.out) /\ IsInjective(u.out)
      /\ \A x, y : Before(w.out, x, y) => Before(u.out, x, y)
  BY <1>1, WalkAppend
<1>3. \A y \in S : ~DependsOn(c, y, labels)
  BY DEF DependsOn
<1>4. Sound(u, B, S, labels)
  BY <1>1, <1>2, <1>3 DEF Ready, Sound
<1>5. QED
  BY <1>1, <1>2, <1>4 DEF Further, Served

Marked(w, s) == [w EXCEPT !.seen = @ \cup {s}]

\* A container whose service has not been seen is gone to.
LEMMA MarkSound ==
  ASSUME NEW S, NEW labels, NEW B, NEW c \in S, NEW w,
         Ready(c, w, B, S, labels), labels[c].service \in Nat,
         labels[c].service # 0, labels[c].service \notin w.seen
  PROVE  LET u == Marked(w, labels[c].service) IN
           /\ Sound(u, B \cup {c}, S, labels) /\ Further(w, u, {}, labels)
           /\ c \notin B
<1> DEFINE u == Marked(w, labels[c].service)
<1>1. /\ w \in Walk(S) /\ u \in Walk(S) /\ u.out = w.out
      /\ u.seen = w.seen \cup {labels[c].service}
  <2>1. w \in Walk(S)
    BY DEF Ready, Sound
  <2>2. QED
    BY <2>1 DEF Walk, Marked
<1> HIDE DEF u
<1>2. c \notin B /\ c \notin ToSet(w.out)
  BY DEF Ready, Sound
<1>3. Begins(w.out, u.out)
  BY <1>1 DEF Begins, Walk
<1>4. Sound(u, B \cup {c}, S, labels)
  BY <1>1, <1>2 DEF Ready, Sound
<1>5. QED
  BY <1>1, <1>2, <1>3, <1>4 DEF Further, u

\* What it depends on having been seen, it is put in order.
LEMMA AppendSound ==
  ASSUME NEW S, NEW labels, NEW B, NEW c \in S, c \notin B, NEW w,
         Sound(w, B \cup {c}, S, labels),
         \A b \in B : DependsInTurn(b, c, S, labels),
         \A s \in ToSet(labels[c].deps) : s \in Services(S, labels) => s \in w.seen,
         NEW u, u = Appended(w, c)
  PROVE  /\ Sound(u, B, S, labels) /\ Further(w, u, {}, labels) /\ Served(c, u, labels)
<1>1. /\ w \in Walk(S) /\ c \notin ToSet(w.out) /\ IsInjective(w.out)
      /\ labels[c].service # 0 /\ labels[c].service \in w.seen
  BY DEF Sound
<1>2. /\ u \in Walk(S) /\ u.seen = w.seen
      /\ ToSet(u.out) = ToSet(w.out) \cup {c} /\ Begins(w.out, u.out) /\ IsInjective(u.out)
      /\ \A x, y : Before(w.out, x, y) => Before(u.out, x, y)
      /\ \A x \in ToSet(w.out) : Before(u.out, x, c)
  BY <1>1, WalkAppend
<1>3. ASSUME NEW x \in ToSet(u.out), NEW y \in S, DependsOn(x, y, labels)
      PROVE  \E r \in ToSet(u.out) \cup B :
               /\ labels[r].service = labels[y].service
               /\ Before(u.out, r, x) \/ DependsInTurn(r, x, S, labels)
  <2>1. CASE x \in ToSet(w.out)
    BY <1>2, <1>3, <2>1 DEF Sound
  <2>2. CASE x = c
    <3>1. labels[y].service \in w.seen
      BY <1>3, <2>2 DEF DependsOn, Services
    <3>2. PICK r \in ToSet(w.out) \cup B \cup {c} : labels[r].service = labels[y].service
      BY <3>1 DEF Sound
    <3>3. CASE r \in ToSet(w.out)
      BY <1>2, <2>2, <3>2, <3>3
    <3>4. CASE r \in B \cup {c}
      BY <1>2, <2>2, <3>2, <3>4, InTurnFacts
    <3>5. QED
      BY <3>2, <3>3, <3>4
  <2>3. QED
    BY <1>2, <2>1, <2>2
<1>4. Sound(u, B, S, labels)
  <2>1. ToSet(u.out) \cup B = ToSet(w.out) \cup (B \cup {c})
    BY <1>2
  <2>2. B \cap ToSet(u.out) = {} /\ B \subseteq S
    BY <1>2 DEF Sound
  <2>3. QED
    BY <1>1, <1>2, <1>3, <2>1, <2>2 DEF Sound
<1>5. QED
  BY <1>1, <1>2, <1>4 DEF Further, Served

\* The dependencies, one after the other.
LEMMA VisitDepsSound ==
  ASSUME NEW S, NEW labels, Project(S, labels), NEW n \in Nat, NEW visit, Correct(visit, n, S, labels),
         NEW B, NEW c \in B, NEW w, Sound(w, B, S, labels), Enough(n, w, S, labels),
         \A b \in B : DependsInTurn(b, c, S, labels)
  PROVE  LET u == VisitDeps(visit, c, S, labels, w) IN
           /\ Sound(u, B, S, labels) /\ Further(w, u, {}, labels)
           /\ \A s \in ToSet(labels[c].deps) : s \in Services(S, labels) => s \in u.seen
<1> DEFINE deps == labels[c].deps
           next(d) == [v \in Walk(S) |-> IF d \in {0, c} THEN v ELSE visit[d][v]]
           step == [i \in DOMAIN deps |-> next(LastOf(S, labels, deps[i]))]
           Seen(i, v) == \A j \in 1 .. i : deps[j] \in Services(S, labels) => deps[j] \in v.seen
           I == {t \in (0 .. Len(deps)) \X Walk(S) :
                   Sound(t[2], B, S, labels) /\ Further(w, t[2], {}, labels) /\ Seen(t[1], t[2])}
<1>1. /\ c \in S /\ deps \in Seq(Nat) /\ Len(deps) \in Nat /\ DOMAIN deps = 1 .. Len(deps)
      /\ w \in Walk(S) /\ B \in SUBSET S
      /\ labels[c].service \in w.seen /\ labels[c].service # 0
  <2>1. c \in S /\ w \in Walk(S) /\ B \in SUBSET S /\ labels[c].service # 0 /\ labels[c].service \in w.seen
    BY DEF Sound
  <2>2. deps \in Seq(Nat)
    BY <2>1 DEF Project, Fleet, Label
  <2>3. QED
    BY <2>1, <2>2, InRange
<1> HIDE DEF deps
<1>2. <<0, w>> \in I
  BY <1>1, FurtherFacts
<1>3. ASSUME NEW i \in 1 .. Len(deps), NEW v, <<i - 1, v>> \in I
      PROVE  <<i, step[i][v]>> \in I
  <2> DEFINE d == LastOf(S, labels, deps[i])
             u == step[i][v]
  <2>1. /\ v \in Walk(S) /\ Sound(v, B, S, labels) /\ Further(w, v, {}, labels) /\ Seen(i - 1, v)
        /\ i - 1 \in 0 .. Len(deps)
    BY <1>3
  <2>2. u = IF d \in {0, c} THEN v ELSE visit[d][v]
    BY <1>1, <2>1
  <2>3. /\ d # 0 => d \in S /\ labels[d].service = deps[i] /\ deps[i] # 0
        /\ deps[i] \in Services(S, labels) => d # 0
    BY LastOfFacts DEF Project
  <2> HIDE DEF d, u, step
  <2>4. w.seen \subseteq v.seen
    BY <2>1 DEF Further
  <2>5. /\ u \in Walk(S) /\ Sound(u, B, S, labels) /\ Further(w, u, {}, labels)
        /\ v.seen \subseteq u.seen
        /\ deps[i] \in Services(S, labels) => deps[i] \in u.seen
    <3>1. CASE d = 0
      BY <2>1, <2>2, <2>3, <3>1
    <3>2. CASE d = c
      BY <1>1, <2>1, <2>2, <2>3, <2>4, <3>2
    <3>3. CASE d \notin {0, c}
      <4>1. DependsOn(c, d, labels)
        <5>1. deps[i] \in ToSet(deps)
          BY <1>1, InRange
        <5>2. QED
          BY <1>1, <2>3, <3>3, <5>1 DEF DependsOn, Project, deps
      <4>2. Ready(d, v, B, S, labels)
        <5>1. \A b \in B : DependsInTurn(b, d, S, labels)
          BY <1>1, <2>3, <3>3, <4>1, InTurnFacts
        <5>2. QED
          BY <2>1, <2>3, <3>3, <5>1 DEF Ready
      <4>3. Enough(n, v, S, labels)
        BY <1>1, <2>1, <2>4, EnoughFacts DEF Project
      <4>4. /\ Sound(u, B, S, labels) /\ Further(v, u, {d}, labels) /\ Served(d, u, labels)
        BY <1>1, <2>1, <2>2, <2>3, <3>3, <4>2, <4>3 DEF Correct
      <4>5. u \in Walk(S) /\ v.seen \subseteq u.seen /\ deps[i] \in u.seen
        BY <2>3, <3>3, <4>4 DEF Sound, Further, Served
      <4>6. Further(w, u, {} \cup {d}, labels)
        BY <1>1, <2>1, <4>4, <4>5, FurtherFacts
      <4>7. Further(w, u, {}, labels)
        BY <2>3, <3>3, <4>6 DEF Further
      <4>8. QED
        BY <4>4, <4>5, <4>7
    <3>4. QED
      BY <3>1, <3>2, <3>3
  <2>6. Seen(i, u)
    BY <1>1, <2>1, <2>5
  <2>7. QED
    BY <2>5, <2>6, <1>1 DEF u
<1>4. <<Len(deps), Iterate(step, w, Len(deps))>> \in I
  <2> HIDE DEF step, I
  <2>1. QED
    BY <1>1, <1>2, <1>3, LoopInvariant
<1>5. VisitDeps(visit, c, S, labels, w) = Iterate(step, w, Len(deps))
  BY DEF VisitDeps, deps
<1>6. \A s \in ToSet(deps) : \E j \in 1 .. Len(deps) : deps[j] = s
  BY <1>1, InRange
<1>7. QED
  BY <1>1, <1>4, <1>5, <1>6 DEF deps

LEMMA VisitSound ==
  ASSUME NEW S, NEW labels, Project(S, labels), NEW n \in Nat, NEW visit, Correct(visit, n, S, labels),
         NEW c \in S, NEW w \in Walk(S), NEW B \in SUBSET S, Ready(c, w, B, S, labels),
         Enough(n + 1, w, S, labels)
  PROVE  LET u == Visit(visit, c, S, labels, w) IN
           Sound(u, B, S, labels) /\ Further(w, u, {c}, labels) /\ Served(c, u, labels)
<1> DEFINE s == labels[c].service
           v == Marked(w, s)
           below == VisitDeps(visit, c, S, labels, v)
<1>1. CASE s = 0
  <2>1. Visit(visit, c, S, labels, w) = Appended(w, c)
    BY <1>1 DEF Visit, Appended
  <2>2. QED
    BY <1>1, <2>1, UnnamedVisit
<1>2. CASE s # 0 /\ s \in w.seen
  <2>1. Visit(visit, c, S, labels, w) = w
    BY <1>2 DEF Visit
  <2>2. QED
    BY <1>2, <2>1, FurtherFacts DEF Ready, Served
<1>3. CASE s # 0 /\ s \notin w.seen
  <2>1. s \in Services(S, labels) /\ s \in Nat
    BY <1>3 DEF Services, Project, Fleet, Label
  <2>2. Visit(visit, c, S, labels, w) = Appended(below, c)
    BY <1>3 DEF Visit, Appended, Marked
  <2>3. /\ Sound(v, B \cup {c}, S, labels) /\ Further(w, v, {}, labels)
        /\ c \notin B /\ v.seen = w.seen \cup {s}
    <3>1. s # 0 /\ s \notin w.seen /\ s \in Nat
      BY <1>3, <2>1
    <3>2. Sound(v, B \cup {c}, S, labels) /\ Further(w, v, {}, labels) /\ c \notin B
      BY <3>1, MarkSound
    <3>3. v.seen = w.seen \cup {s}
      BY DEF Marked, Walk
    <3>4. QED
      BY <3>2, <3>3
  <2> HIDE DEF v
  <2>4. Enough(n, v, S, labels)
    <3>1. v \in Walk(S) /\ n + 1 \in Nat /\ n + 1 - 1 = n
      BY <2>3 DEF Sound
    <3>2. Enough(n + 1 - 1, v, S, labels)
      BY <1>3, <2>1, <2>3, <3>1, EnoughFacts DEF Project
    <3>3. QED
      BY <3>1, <3>2
  <2>5. \A b \in B \cup {c} : DependsInTurn(b, c, S, labels)
    BY InTurnFacts DEF Ready
  <2>6. /\ Sound(below, B \cup {c}, S, labels) /\ Further(v, below, {}, labels)
        /\ \A t \in ToSet(labels[c].deps) : t \in Services(S, labels) => t \in below.seen
    BY <2>3, <2>4, <2>5, VisitDepsSound
  <2> HIDE DEF below
  <2>7. /\ Sound(Appended(below, c), B, S, labels) /\ Further(below, Appended(below, c), {}, labels)
        /\ Served(c, Appended(below, c), labels)
    BY <2>3, <2>5, <2>6, AppendSound
  <2>8. Further(w, Appended(below, c), {}, labels)
    <3>1. v \in Walk(S) /\ below \in Walk(S) /\ Appended(below, c) \in Walk(S)
      BY <2>3, <2>6, <2>7 DEF Sound
    <3>2. Further(w, below, {} \cup {}, labels)
      BY <2>3, <2>6, <3>1, FurtherFacts
    <3>3. Further(w, Appended(below, c), ({} \cup {}) \cup {}, labels)
      BY <2>7, <3>1, <3>2, FurtherFacts
    <3>4. ({} \cup {}) \cup {} = {}
      OBVIOUS
    <3>5. QED
      BY <3>3, <3>4
  <2>9. Further(w, Appended(below, c), {c}, labels)
    BY <2>8 DEF Further
  <2>10. QED
    BY <2>2, <2>7, <2>9
<1>4. QED
  BY <1>1, <1>2, <1>3

\* The visits of a labels exist.
Level(k, v, S, labels) ==
  [c \in S |-> [w \in Walk(S) |-> IF k = 0 THEN w ELSE Visit(v[k - 1], c, S, labels, w)]]
AreVisits(v, n, S, labels) == v = [k \in 0 .. n |-> Level(k, v, S, labels)]

LEMMA SameLevel ==
  ASSUME NEW S, NEW labels, NEW k, NEW u, NEW v, k = 0 \/ u[k - 1] = v[k - 1]
  PROVE  Level(k, u, S, labels) = Level(k, v, S, labels)
<1>1. CASE k = 0
  BY <1>1 DEF Level
<1>2. CASE k # 0
  BY <1>2 DEF Level
<1>3. QED
  BY <1>1, <1>2

LEMMA AtLevel ==
  ASSUME NEW S, NEW labels, NEW k, NEW v, NEW c \in S, NEW w \in Walk(S)
  PROVE  Level(k, v, S, labels)[c][w] = IF k = 0 THEN w ELSE Visit(v[k - 1], c, S, labels, w)
  BY DEF Level

LEMMA VisitsExist ==
  ASSUME NEW n \in Nat, NEW S, NEW labels
  PROVE  \E v : AreVisits(v, n, S, labels)
<1> DEFINE Shown == {k \in Nat : \E v : AreVisits(v, k, S, labels)}
<1>1. 0 \in Shown
  <2> DEFINE v == [k \in 0 .. 0 |-> Level(0, <<>>, S, labels)]
  <2>1. \A k \in 0 .. 0 : v[k] = Level(k, v, S, labels)
    BY SameLevel
  <2>2. v = [k \in 0 .. 0 |-> Level(k, v, S, labels)]
    BY <2>1
  <2>3. AreVisits(v, 0, S, labels)
    BY <2>2 DEF AreVisits
  <2>4. QED
    BY <2>3
<1>2. ASSUME NEW k \in 1 .. n, k - 1 \in Shown
      PROVE  k \in Shown
  <2>1. PICK u : AreVisits(u, k - 1, S, labels)
    BY <1>2
  <2> DEFINE v == [i \in 0 .. k |-> IF i = k THEN Level(k, u, S, labels) ELSE u[i]]
  <2>2. ASSUME NEW i \in 0 .. k
        PROVE  v[i] = Level(i, v, S, labels)
    <3>1. i = 0 \/ v[i - 1] = u[i - 1]
      OBVIOUS
    <3>2. Level(i, v, S, labels) = Level(i, u, S, labels)
      <4> HIDE DEF v
      <4>1. QED
        BY <3>1, SameLevel
    <3>3. CASE i = k
      BY <3>2, <3>3
    <3>4. CASE i \in 0 .. k - 1
      <4>1. u[i] = Level(i, u, S, labels)
        BY <2>1, <3>4 DEF AreVisits
      <4>2. v[i] = u[i]
        BY <3>4
      <4>3. QED
        BY <3>2, <4>1, <4>2
    <3>5. QED
      BY <3>3, <3>4
  <2>3. v = [i \in 0 .. k |-> Level(i, v, S, labels)]
    BY <2>2
  <2>4. AreVisits(v, k, S, labels)
    BY <2>3 DEF AreVisits
  <2>5. QED
    BY <2>4
<1>3. \A k \in 0 .. n : k \in Shown
  <2> HIDE DEF Shown
  <2>1. QED
    BY <1>1, <1>2, Upto
<1>4. QED
  BY <1>3

\* Visits go deep enough.
LEMMA VisitsSound ==
  ASSUME NEW S, NEW labels, Project(S, labels)
  PROVE  Correct(Visits(S, labels), Cardinality(S), S, labels)
<1> DEFINE N == Cardinality(S)
           v == CHOOSE u : u = [k \in 0 .. N |-> [c \in S |-> [w \in Walk(S) |->
                                  IF k = 0 THEN w ELSE Visit(u[k - 1], c, S, labels, w)]]]
<1>1. N \in Nat
  BY FS_CardinalityType DEF Project, Fleet
<1>2. AreVisits(v, N, S, labels)
  <2>1. \E u : AreVisits(u, N, S, labels)
    BY <1>1, VisitsExist
  <2>2. QED
    BY <2>1, Zenon DEF AreVisits, Level
<1>3. Visits(S, labels) = v[N]
  BY DEF Visits
<1> HIDE DEF v, N
<1> DEFINE Shown == {k \in 0 .. N : Correct(v[k], k, S, labels)}
<1>4. \A k \in 0 .. N : v[k] = Level(k, v, S, labels)
  BY <1>2 DEF AreVisits
<1>5. 0 \in Shown
  <2>1. ASSUME NEW c \in S, NEW w \in Walk(S), NEW B \in SUBSET S,
               Ready(c, w, B, S, labels), Enough(0, w, S, labels), labels[c].service # 0
        PROVE  /\ Sound(v[0][c][w], B, S, labels) /\ Further(w, v[0][c][w], {c}, labels)
               /\ Served(c, v[0][c][w], labels)
    <3>1. v[0][c][w] = w
      BY <1>1, <1>4, AtLevel
    <3>2. labels[c].service \in w.seen
      <4>1. Services(S, labels) \subseteq w.seen
        BY <2>1, EnoughFacts DEF Project
      <4>2. QED
        BY <2>1, <4>1 DEF Services
    <3>3. QED
      BY <2>1, <3>1, <3>2, FurtherFacts DEF Ready, Served
  <2>2. Correct(v[0], 0, S, labels)
    BY <2>1 DEF Correct
  <2>3. QED
    BY <1>1, <2>2
<1>6. ASSUME NEW k \in 1 .. N, k - 1 \in Shown
      PROVE  k \in Shown
  <2>1. Correct(v[k - 1], k - 1, S, labels) /\ k - 1 \in Nat /\ k - 1 + 1 = k /\ k # 0
    BY <1>1, <1>6
  <2>2. ASSUME NEW c \in S, NEW w \in Walk(S), NEW B \in SUBSET S,
               Ready(c, w, B, S, labels), Enough(k, w, S, labels)
        PROVE  /\ Sound(v[k][c][w], B, S, labels) /\ Further(w, v[k][c][w], {c}, labels)
               /\ Served(c, v[k][c][w], labels)
    <3>1. v[k][c][w] = Visit(v[k - 1], c, S, labels, w)
      BY <1>1, <1>4, <2>1, AtLevel
    <3>2. Enough(k - 1 + 1, w, S, labels)
      BY <2>1, <2>2
    <3>3. QED
      BY <2>1, <2>2, <3>1, <3>2, VisitSound
  <2>3. Correct(v[k], k, S, labels)
    BY <2>2 DEF Correct
  <2>4. QED
    BY <2>3
<1>7. \A k \in 0 .. N : k \in Shown
  <2> HIDE DEF Shown
  <2>1. QED
    BY <1>1, <1>5, <1>6, Upto
<1>8. QED
  BY <1>1, <1>3, <1>7 DEF N

-----------------------------------------------------------------------------
(* The order *)

\* q has the containers in C, but for the further ones of a service.
Arranged(q, C, S, labels) ==
  /\ q \in Seq(S) /\ IsInjective(q) /\ ToSet(q) \subseteq C
  /\ \A c \in C \ ToSet(q) :
       \E d \in ToSet(q) : /\ labels[c].project # 0 /\ labels[c].service # 0
                           /\ labels[d].project = labels[c].project
                           /\ labels[d].service = labels[c].service
  /\ DependenciesFirstIn(q, S, labels)

LEMMA NoneArranged ==
  ASSUME NEW S, NEW labels
  PROVE  Arranged(<<>>, {}, S, labels)
<1>1. <<>> \in Seq(S) /\ ToSet(<<>>) = {}
  BY DEF ToSet
<1>2. IsInjective(<<>>)
  BY DEF IsInjective
<1>3. QED
  BY <1>1, <1>2 DEF Arranged, DependenciesFirstIn

\* Projects have nothing to do with each other.
LEMMA ConcatArranged ==
  ASSUME NEW S, NEW labels, NEW q, NEW r, NEW C, NEW D,
         Arranged(q, C, S, labels), Arranged(r, D, S, labels),
         \A c \in C, d \in D : c # d /\ (labels[c].project = labels[d].project => labels[c].project = 0)
  PROVE  Arranged(q \o r, C \cup D, S, labels)
<1>1. /\ q \in Seq(S) /\ r \in Seq(S) /\ IsInjective(q) /\ IsInjective(r)
      /\ ToSet(q) \subseteq C /\ ToSet(r) \subseteq D /\ ToSet(q) \cap ToSet(r) = {}
  BY DEF Arranged
<1>2. /\ q \o r \in Seq(S) /\ ToSet(q \o r) = ToSet(q) \cup ToSet(r) /\ IsInjective(q \o r)
      /\ \A x, y : Before(q, x, y) \/ Before(r, x, y) => Before(q \o r, x, y)
  BY <1>1, ConcatFacts
<1>3. ASSUME NEW c \in ToSet(q \o r), NEW d \in ToSet(q \o r), DependsOn(c, d, labels)
      PROVE  Before(q \o r, d, c) \/ DependsInTurn(d, c, S, labels)
  <2>1. (c \in ToSet(q) /\ d \in ToSet(q)) \/ (c \in ToSet(r) /\ d \in ToSet(r))
    BY <1>1, <1>2, <1>3 DEF DependsOn
  <2>2. QED
    BY <1>2, <1>3, <2>1 DEF Arranged, DependenciesFirstIn
<1>4. \A c \in (C \cup D) \ ToSet(q \o r) :
        \E d \in ToSet(q \o r) : /\ labels[c].project # 0 /\ labels[c].service # 0
                                 /\ labels[d].project = labels[c].project
                                 /\ labels[d].service = labels[c].service
  BY <1>2 DEF Arranged
<1>5. QED
  BY <1>1, <1>2, <1>3, <1>4 DEF Arranged, DependenciesFirstIn

LEMMA ProjectArranged ==
  ASSUME NEW S, NEW labels, Project(S, labels)
  PROVE  Arranged(OrderProject(S, labels), S, S, labels)
<1> DEFINE sorted == Ascending(S)
           N == Cardinality(S)
           visits == Visits(S, labels)
           step == [i \in DOMAIN sorted |-> visits[sorted[i]]]
           start == [out |-> <<>>, seen |-> {}]
           Turns(i, w) == \A j \in 1 .. i : Served(sorted[j], w, labels)
           Unnamed(i, w) ==
             \A x \in ToSet(w.out) : labels[x].service = 0 => \E j \in 1 .. i : sorted[j] = x
           I == {t \in (0 .. Len(sorted)) \X Walk(S) :
                   Sound(t[2], {}, S, labels) /\ Turns(t[1], t[2]) /\ Unnamed(t[1], t[2])}
<1>1. /\ sorted \in Seq(S) /\ IsInjective(sorted) /\ ToSet(sorted) = S
      /\ Len(sorted) \in Nat /\ DOMAIN sorted = 1 .. Len(sorted)
  <2>1. S \in SUBSET Nat /\ IsFiniteSet(S)
    BY DEF Project, Fleet
  <2>2. sorted \in Seq(S) /\ IsInjective(sorted) /\ ToSet(sorted) = S
    BY <2>1, AscendingFacts
  <2>3. QED
    BY <2>2, InRange
<1>2. N \in Nat /\ Correct(visits, N, S, labels)
  BY VisitsSound, FS_CardinalityType DEF Project, Fleet
<1>3. /\ start \in Walk(S) /\ Sound(start, {}, S, labels)
      /\ ToSet(start.out) = {} /\ Enough(N, start, S, labels)
  <2>1. start \in Walk(S) /\ start.out = <<>> /\ start.seen = {} /\ ToSet(start.out) = {}
    BY DEF Walk, ToSet
  <2>2. Sound(start, {}, S, labels)
    BY <2>1 DEF Sound, IsInjective
  <2>3. Services(S, labels) \ start.seen = Services(S, labels)
    BY <2>1
  <2>4. Enough(N, start, S, labels)
    BY <2>3, ServicesAreFew DEF Enough, Project
  <2>5. QED
    BY <2>1, <2>2, <2>4
<1> HIDE DEF sorted, N, visits, start
<1>4. <<0, start>> \in I
  BY <1>1, <1>3
<1>5. ASSUME NEW i \in 1 .. Len(sorted), NEW w, <<i - 1, w>> \in I
      PROVE  <<i, step[i][w]>> \in I
  <2> DEFINE c == sorted[i]
             u == step[i][w]
  <2>1. /\ w \in Walk(S) /\ Sound(w, {}, S, labels) /\ Turns(i - 1, w) /\ Unnamed(i - 1, w)
        /\ i \in Nat /\ i - 1 \in 0 .. Len(sorted)
    BY <1>1, <1>5
  <2>2. c \in S /\ u = visits[c][w]
    BY <1>1
  <2>3. Ready(c, w, {}, S, labels)
    <3>1. ASSUME labels[c].service = 0, c \in ToSet(w.out)
          PROVE  FALSE
      <4>1. PICK j \in 1 .. i - 1 : sorted[j] = sorted[i]
        BY <2>1, <3>1
      <4>2. j \in DOMAIN sorted /\ i \in DOMAIN sorted /\ i # j
        BY <1>1, <2>1
      <4>3. QED
        BY <1>1, <4>1, <4>2 DEF IsInjective
    <3>2. QED
      BY <2>1, <3>1 DEF Ready
  <2>4. Enough(N, w, S, labels) /\ N # 0
    <3>1. start.seen \subseteq w.seen
      BY DEF start
    <3>2. Enough(N, w, S, labels)
      BY <1>2, <1>3, <2>1, <3>1, EnoughFacts DEF Project
    <3>3. N # 0
      BY <2>2, FS_EmptySet DEF Project, Fleet, N
    <3>4. QED
      BY <3>2, <3>3
  <2> HIDE DEF c, u, step
  <2>5. Sound(u, {}, S, labels) /\ Further(w, u, {c}, labels) /\ Served(c, u, labels)
    <3>1. {} \in SUBSET S
      OBVIOUS
    <3>2. Ready(c, w, {}, S, labels) /\ Enough(N, w, S, labels) /\ (N = 0 => labels[c].service # 0)
            => /\ Sound(visits[c][w], {}, S, labels) /\ Further(w, visits[c][w], {c}, labels)
               /\ Served(c, visits[c][w], labels)
      BY <1>2, <2>1, <2>2, <3>1 DEF Correct
    <3>3. QED
      BY <2>2, <2>3, <2>4, <3>2
  <2>6. u \in Walk(S) /\ ToSet(w.out) \subseteq ToSet(u.out) /\ w.seen \subseteq u.seen
    <3>1. u \in Walk(S) /\ w.out \in Seq(S) /\ u.out \in Seq(S)
      BY <2>1, <2>5 DEF Sound, Walk
    <3>2. QED
      BY <2>5, <3>1, BeginsFacts DEF Further
  <2>7. Turns(i, u)
    <3>1. ASSUME NEW j \in 1 .. i
          PROVE  Served(sorted[j], u, labels)
      <4>1. CASE j = i
        BY <2>5, <4>1 DEF c
      <4>2. CASE j # i
        <5>1. Served(sorted[j], w, labels)
          BY <2>1, <4>2
        <5>2. QED
          BY <2>6, <5>1 DEF Served
      <4>3. QED
        BY <4>1, <4>2
    <3>2. QED
      BY <3>1
  <2>8. Unnamed(i, u)
    <3>1. ASSUME NEW x \in ToSet(u.out), labels[x].service = 0
          PROVE  \E j \in 1 .. i : sorted[j] = x
      <4>1. CASE x \in ToSet(w.out)
        BY <2>1, <3>1, <4>1
      <4>2. CASE x = c
        BY <2>1, <4>2 DEF c
      <4>3. QED
        BY <2>5, <3>1, <4>1, <4>2 DEF Further
    <3>2. QED
      BY <3>1
  <2>9. QED
    BY <1>1, <2>5, <2>6, <2>7, <2>8 DEF u
<1> DEFINE w == Iterate(step, start, Len(sorted))
<1>6. <<Len(sorted), w>> \in I
  <2> HIDE DEF step, I
  <2>1. QED
    BY <1>1, <1>4, <1>5, LoopInvariant
<1>7. OrderProject(S, labels) = w.out
  BY DEF OrderProject, sorted, visits, start
<1> HIDE DEF w, step
<1>8. w \in Walk(S) /\ Sound(w, {}, S, labels) /\ \A c \in S : Served(c, w, labels)
  <2>1. w \in Walk(S) /\ Sound(w, {}, S, labels) /\ Turns(Len(sorted), w)
    BY <1>6
  <2>2. \A c \in S : \E j \in 1 .. Len(sorted) : sorted[j] = c
    BY <1>1, InRange
  <2>3. QED
    BY <2>1, <2>2
<1>9. ASSUME NEW c \in S \ ToSet(w.out)
      PROVE  \E d \in ToSet(w.out) : /\ labels[c].project # 0 /\ labels[c].service # 0
                                     /\ labels[d].project = labels[c].project
                                     /\ labels[d].service = labels[c].service
  <2>1. labels[c].service # 0 /\ labels[c].service \in w.seen
    BY <1>8 DEF Served
  <2>2. PICK d \in ToSet(w.out) : labels[d].service = labels[c].service
    BY <1>8, <2>1 DEF Sound
  <2>3. d \in S
    BY <1>8, InRange DEF Walk
  <2>4. QED
    BY <2>1, <2>2, <2>3 DEF Project
<1>10. DependenciesFirstIn(w.out, S, labels)
  <2>1. ASSUME NEW c \in ToSet(w.out), NEW d \in ToSet(w.out), DependsOn(c, d, labels)
        PROVE  Before(w.out, d, c) \/ DependsInTurn(d, c, S, labels)
    <3>1. d \in S
      BY <1>8, InRange DEF Walk
    <3>2. PICK r \in ToSet(w.out) :
            /\ labels[r].service = labels[d].service
            /\ Before(w.out, r, c) \/ DependsInTurn(r, c, S, labels)
      BY <1>8, <2>1, <3>1 DEF Sound
    <3>3. r = d
      BY <1>8, <2>1, <3>2 DEF Sound, DependsOn
    <3>4. QED
      BY <3>2, <3>3
  <2>2. QED
    BY <2>1 DEF DependenciesFirstIn
<1>11. w.out \in Seq(S) /\ IsInjective(w.out) /\ ToSet(w.out) \subseteq S
  BY <1>8, InRange DEF Sound, Walk
<1>12. QED
  BY <1>7, <1>9, <1>10, <1>11 DEF Arranged

\* What depends on each other in a part of the containers does so in all of them.
LEMMA PartArranged ==
  ASSUME NEW S, NEW labels, NEW P \in SUBSET S, NEW q, Arranged(q, P, P, labels)
  PROVE  Arranged(q, P, S, labels)
<1>1. ASSUME NEW c \in P, NEW d \in P, DependsInTurn(c, d, P, labels)
      PROVE  DependsInTurn(c, d, S, labels)
  <2>1. ASSUME NEW T \in SUBSET S, c \in T, \A x \in T, y \in S : DependsOn(x, y, labels) => y \in T
        PROVE  d \in T
    <3>1. T \cap P \in SUBSET P /\ c \in T \cap P
      BY <2>1
    <3>2. \A x \in T \cap P, y \in P : DependsOn(x, y, labels) => y \in T \cap P
      BY <2>1
    <3>3. d \in T \cap P
      BY <1>1, <3>1, <3>2 DEF DependsInTurn
    <3>4. QED
      BY <3>3
  <2>2. QED
    BY <2>1 DEF DependsInTurn
<1>2. q \in Seq(P) /\ ToSet(q) \subseteq P /\ DependenciesFirstIn(q, P, labels)
  BY DEF Arranged
<1>3. DependenciesFirstIn(q, S, labels)
  BY <1>1, <1>2 DEF DependenciesFirstIn
<1>4. q \in Seq(S)
  BY <1>2
<1>5. QED
  BY <1>3, <1>4 DEF Arranged

LEMMA InProjectArranged ==
  ASSUME NEW S, NEW labels, Fleet(S, labels), NEW p, p # 0
  PROVE  Arranged(OrderProject(InProject(S, labels, p), labels), InProject(S, labels, p), S, labels)
<1> DEFINE P == InProject(S, labels, p)
<1>1. P \in SUBSET S /\ Project(P, labels)
  BY FS_Subset DEF InProject, Project, Fleet
<1> HIDE DEF P
<1>2. Arranged(OrderProject(P, labels), P, P, labels)
  BY <1>1, ProjectArranged
<1>3. QED
  BY <1>1, <1>2, PartArranged DEF P

\* What belongs to no project depends on nothing.
LEMMA RestArranged ==
  ASSUME NEW S, NEW labels, Fleet(S, labels)
  PROVE  Arranged(Ascending(InProject(S, labels, 0)), InProject(S, labels, 0), S, labels)
<1> DEFINE P == InProject(S, labels, 0)
           q == Ascending(P)
<1>1. P \in SUBSET S /\ P \in SUBSET Nat /\ IsFiniteSet(P) /\ \A c \in P : labels[c].project = 0
  BY FS_Subset DEF InProject, Fleet
<1> HIDE DEF P
<1>2. q \in Seq(P) /\ IsInjective(q) /\ ToSet(q) = P
  BY <1>1, AscendingFacts
<1> HIDE DEF q
<1>3. DependenciesFirstIn(q, S, labels)
  BY <1>1, <1>2 DEF DependenciesFirstIn, DependsOn
<1>4. q \in Seq(S)
  <2>1. Len(q) \in Nat /\ DOMAIN q = 1 .. Len(q) /\ \A i \in 1 .. Len(q) : q[i] \in P
    BY <1>2
  <2>2. q = [i \in 1 .. Len(q) |-> q[i]]
    BY <1>2
  <2>3. q \in [1 .. Len(q) -> S]
    BY <1>1, <2>1, <2>2
  <2>4. QED
    BY <2>1, <2>3
<1>5. QED
  BY <1>2, <1>3, <1>4 DEF Arranged, q, P

\* However the containers depend on each other, the order serves each service
\* and has what a container depends on before it (update/order.go).
THEOREM OrderArranged ==
  ASSUME NEW S, NEW labels, Fleet(S, labels)
  PROVE  ServesEachService(Order(S, labels), S, labels) /\ DependenciesFirstIn(Order(S, labels), S, labels)
<1> DEFINE numbers == {labels[c].project : c \in S} \ {0}
           projects == Ascending(numbers)
           next(p) == [q \in Seq(S) |-> q \o OrderProject(InProject(S, labels, p), labels)]
           step == [i \in DOMAIN projects |-> next(projects[i])]
           Until(i) == UNION {InProject(S, labels, projects[j]) : j \in 1 .. i}
           I == {t \in (0 .. Len(projects)) \X Seq(S) : Arranged(t[2], Until(t[1]), S, labels)}
<1>1. /\ projects \in Seq(numbers) /\ IsInjective(projects) /\ ToSet(projects) = numbers
      /\ Len(projects) \in Nat /\ DOMAIN projects = 1 .. Len(projects)
      /\ 0 \notin numbers
  <2>1. numbers \in SUBSET Nat /\ IsFiniteSet(numbers)
    <3> DEFINE f == [c \in S |-> labels[c].project]
               T == {f[c] : c \in S}
    <3>1. f \in Surjection(S, T) /\ numbers \in SUBSET T /\ T \in SUBSET Nat
      BY DEF Surjection, Fleet, Label
    <3>2. IsFiniteSet(numbers)
      <4> HIDE DEF f, T, numbers
      <4>1. IsFiniteSet(T)
        BY <3>1, FS_Surjection DEF Fleet
      <4>2. QED
        BY <3>1, <4>1, FS_Subset
    <3>3. QED
      BY <3>1, <3>2
  <2>2. projects \in Seq(numbers) /\ IsInjective(projects) /\ ToSet(projects) = numbers
    <3> HIDE DEF numbers
    <3>1. QED
      BY <2>1, AscendingFacts
  <2>3. QED
    BY <2>2, InRange
<1> HIDE DEF projects
<1>2. <<0, <<>>>> \in I
  <2>1. Until(0) = {}
    OBVIOUS
  <2>2. Arranged(<<>>, Until(0), S, labels)
    BY <2>1, NoneArranged
  <2>3. 0 \in 0 .. Len(projects) /\ <<>> \in Seq(S)
    BY <1>1
  <2> HIDE DEF Until
  <2>4. QED
    BY <2>2, <2>3
<1>3. ASSUME NEW i \in 1 .. Len(projects), NEW q, <<i - 1, q>> \in I
      PROVE  <<i, step[i][q]>> \in I
  <2> DEFINE p == projects[i]
             r == OrderProject(InProject(S, labels, p), labels)
  <2>1. q \in Seq(S) /\ Arranged(q, Until(i - 1), S, labels) /\ step[i][q] = q \o r
    BY <1>1, <1>3
  <2>2. p \in numbers /\ p # 0
    BY <1>1
  <2>3. Arranged(r, InProject(S, labels, p), S, labels)
    <3> HIDE DEF p
    <3>1. QED
      BY <2>2, InProjectArranged
  <2>4. \A c \in Until(i - 1), d \in InProject(S, labels, p) :
          c # d /\ (labels[c].project = labels[d].project => labels[c].project = 0)
    <3>1. ASSUME NEW c \in Until(i - 1)
          PROVE  labels[c].project # p
      <4>1. PICK j \in 1 .. i - 1 : labels[c].project = projects[j]
        BY DEF InProject
      <4>2. j \in DOMAIN projects /\ i \in DOMAIN projects /\ j # i
        BY <1>1
      <4>3. QED
        BY <1>1, <4>1, <4>2 DEF IsInjective
    <3>2. QED
      BY <3>1 DEF InProject
  <2>5. Until(i) = Until(i - 1) \cup InProject(S, labels, p)
    <3>1. 1 .. i = 1 .. (i - 1) \cup {i}
      BY <1>1
    <3>2. QED
      BY <3>1
  <2> HIDE DEF Until, r, p, step
  <2>6. Arranged(q \o r, Until(i), S, labels)
    BY <2>1, <2>3, <2>4, <2>5, ConcatArranged
  <2>7. q \o r \in Seq(S) /\ i \in 0 .. Len(projects)
    BY <1>1, <2>6 DEF Arranged
  <2>8. QED
    BY <2>1, <2>6, <2>7
<1> DEFINE named == Iterate(step, <<>>, Len(projects))
<1>4. <<Len(projects), named>> \in I
  <2> HIDE DEF step, I
  <2>1. QED
    BY <1>1, <1>2, <1>3, LoopInvariant
<1> DEFINE rest == Ascending(InProject(S, labels, 0))
<1>5. Order(S, labels) = named \o rest
  BY DEF Order, projects
<1> HIDE DEF named
<1>6. Arranged(named, Until(Len(projects)), S, labels)
  BY <1>4
<1>7. Until(Len(projects)) = {c \in S : labels[c].project # 0}
  <2>1. \A p : p \in numbers <=> \E i \in 1 .. Len(projects) : projects[i] = p
    BY <1>1, InRange
  <2>2. \A c : c \in Until(Len(projects)) <=> \E p \in numbers : c \in InProject(S, labels, p)
    BY <2>1
  <2>3. QED
    BY <2>2 DEF InProject
<1>8. Arranged(rest, InProject(S, labels, 0), S, labels)
  BY RestArranged
<1> HIDE DEF rest, Until
<1>9. Arranged(Order(S, labels), S, S, labels)
  <2>1. Until(Len(projects)) \cup InProject(S, labels, 0) = S
    BY <1>7 DEF InProject
  <2>2. \A c \in Until(Len(projects)), d \in InProject(S, labels, 0) :
          c # d /\ (labels[c].project = labels[d].project => labels[c].project = 0)
    BY <1>7 DEF InProject
  <2>3. QED
    BY <1>5, <1>6, <1>8, <2>1, <2>2, ConcatArranged
<1>10. QED
  BY <1>9 DEF Arranged, ServesEachService

-----------------------------------------------------------------------------
(* The checks *)

ChecksIInv == ChecksTypeOK /\ ChecksInv

\* What happens to one check.
CheckBecomes(c, r) == check' = [check EXCEPT ![c] = r]

LEMMA NoCheckTyped == NoCheck \in CheckState /\ [NoCheck EXCEPT !.pc = "queue"] \in CheckState
  BY DEF NoCheck, CheckState

LEMMA ChecksInvInit == ChecksInit => ChecksIInv
  <1>1. SUFFICES ASSUME ChecksInit PROVE ChecksIInv
    OBVIOUS
  <1>2. PICK once \in {"none", "unused"}, settled \in BOOLEAN :
          /\ auth = [once |-> once, accounts |-> {}, added |-> FALSE, loaded |-> {},
                     asked |-> 0, settled |-> settled]
          /\ settled => once = "none"
    <2>1. PICK once \in {"none", "unused"} :
            auth = [once |-> once, accounts |-> {}, added |-> FALSE, loaded |-> {},
                    asked |-> 0, settled |-> once = "none"]
      BY <1>1, Zenon DEF ChecksInit
    <2>2. (once = "none") \in BOOLEAN
      OBVIOUS
    <2>3. QED
      BY <2>1, <2>2, Zenon
  <1>3. auth \in AuthState
    BY <1>2 DEF AuthState
  <1>4. ChecksTypeOK
    <2>1. takes \in [Cand -> SUBSET Credentials] /\ cancelled \in BOOLEAN
      BY <1>1, RegistriesAssumption DEF ChecksInit
    <2>2. check \in [Cand -> CheckState]
      BY <1>1, NoCheckTyped DEF ChecksInit
    <2>3. QED
      BY <1>3, <2>1, <2>2 DEF ChecksTypeOK
  <1>5. OnceInv
    BY <1>2 DEF OnceInv
  <1>6. \A c \in Cand : check[c] = NoCheck
    BY <1>1 DEF ChecksInit
  <1>7. OneLoader /\ \A c \in Cand : CheckInv(c)
    BY <1>6 DEF OneLoader, CheckInv, Refused, At, NoCheck
  <1>8. QED
    BY <1>4, <1>5, <1>7 DEF ChecksIInv, ChecksInv

-----------------------------------------------------------------------------

\* A step of a check that leaves the credentials alone, and does not make it
\* the one that loads them, has to keep the invariant for that check.
LEMMA QuietStep ==
  ASSUME ChecksIInv, NEW c \in Cand, NEW r \in CheckState, r.pc # "loading", CheckBecomes(c, r),
         UNCHANGED <<takes, auth, cancelled>>, CheckInv(c)'
  PROVE  ChecksIInv'
  <1>1. ChecksTypeOK /\ ChecksInv
    BY DEF ChecksIInv
  <1>2. check' \in [Cand -> CheckState] /\ check'[c] = r
        /\ \A d \in Cand \ {c} : check'[d] = check[d]
    BY <1>1 DEF ChecksTypeOK, CheckBecomes
  <1>3. takes' = takes /\ auth' = auth /\ cancelled' = cancelled
    OBVIOUS
  <1>4. ChecksTypeOK'
    BY <1>1, <1>2, <1>3 DEF ChecksTypeOK
  <1>5. OnceInv'
    BY <1>1, <1>3 DEF ChecksInv, OnceInv
  <1>6. OneLoader'
    BY <1>1, <1>2 DEF ChecksInv, OneLoader, At
  <1>7. ASSUME NEW d \in Cand PROVE CheckInv(d)'
    <2>1. CASE d = c
      BY <2>1
    <2>2. CASE d # c
      BY <1>1, <1>2, <1>3, <2>2 DEF ChecksInv, CheckInv, Refused, At
    <2>3. QED
      BY <2>1, <2>2
  <1>8. QED
    BY <1>4, <1>5, <1>6, <1>7 DEF ChecksIInv, ChecksInv

\* A check that ends without being denied leaves nothing to be shown.
LEMMA NothingStep ==
  ASSUME ChecksIInv, NEW c \in Cand, NEW result \in {"none", "nothing", "available"},
         CheckBecomes(c, [NoCheck EXCEPT !.result = result]),
         UNCHANGED <<takes, auth, cancelled>>
  PROVE  ChecksIInv'
  <1>1. PICK r \in CheckState :
          r.pc = "done" /\ r.again = FALSE /\ r.result # "denied" /\ CheckBecomes(c, r)
    BY DEF NoCheck, CheckState
  <1>2. check'[c] = r
    BY <1>1 DEF ChecksIInv, ChecksTypeOK, CheckBecomes
  <1>3. CheckInv(c)'
    BY <1>1, <1>2 DEF CheckInv, Refused, At
  <1>4. QED
    BY <1>1, <1>3, QuietStep

\* So do those that are denied what they have read.
LEMMA DeniedStep ==
  ASSUME ChecksIInv, NEW c \in Cand, CheckBecomes(c, [check[c] EXCEPT !.pc = "done", !.result = "denied"]),
         UNCHANGED <<takes, auth, cancelled>>, At(c, "refused") \/ At(c, "ask"),
         "own" \in check[c].creds, check[c].creds \cap takes[c] = {}
  PROVE  ChecksIInv'
  <1>1. check[c] \in CheckState /\ CheckInv(c)
    BY DEF ChecksIInv, ChecksTypeOK, ChecksInv
  <1>2. PICK r \in CheckState : /\ r.pc = "done" /\ r.again = check[c].again
                                /\ r.creds = check[c].creds /\ r.result = "denied"
                                /\ CheckBecomes(c, r)
    BY <1>1 DEF CheckState
  <1>3. check'[c] = r /\ takes' = takes /\ auth' = auth
    BY <1>2 DEF ChecksIInv, ChecksTypeOK, CheckBecomes
  <1>4. CheckInv(c)'
    BY <1>1, <1>2, <1>3 DEF CheckInv, Refused, At
  <1>5. QED
    BY <1>2, <1>4, QuietStep

\* A check that goes on to another place with what it has.
LEMMA GoesOn ==
  ASSUME ChecksIInv, NEW c \in Cand, NEW pc \in {"inspect", "read", "refused"}, Go(c, pc),
         UNCHANGED <<takes, auth, cancelled>>, check[c].pc # "done",
         pc = "refused" => At(c, "ask") /\ check[c].creds \cap takes[c] = {}
  PROVE  ChecksIInv'
  <1>1. check[c] \in CheckState /\ CheckInv(c)
    BY DEF ChecksIInv, ChecksTypeOK, ChecksInv
  <1>2. PICK r \in CheckState : /\ r.pc = pc /\ r.again = check[c].again
                                /\ r.creds = check[c].creds /\ r.result = check[c].result
                                /\ CheckBecomes(c, r)
    BY <1>1 DEF CheckState, Go, CheckBecomes
  <1>3. check'[c] = r /\ takes' = takes /\ auth' = auth
    BY <1>2 DEF ChecksIInv, ChecksTypeOK, CheckBecomes
  <1>4. CheckInv(c)'
    BY <1>1, <1>2, <1>3 DEF CheckInv, Refused, At
  <1>5. QED
    BY <1>2, <1>4, QuietStep

-----------------------------------------------------------------------------
(* The steps *)

LEMMA EnterInspectKeeps ==
  ASSUME ChecksIInv, NEW c \in Cand, Enter(c) \/ Inspect(c) PROVE ChecksIInv'
  <1>1. UNCHANGED <<takes, auth, cancelled>> /\ check[c].pc # "done"
    BY DEF Enter, Inspect, At
  <1>2. CASE \E pc \in {"inspect", "read"} : Go(c, pc)
    BY <1>1, <1>2, GoesOn
  <1>3. CASE Ends(c, "nothing")
    BY <1>1, <1>3, NothingStep DEF Ends, CheckBecomes
  <1>4. CASE check' = [check EXCEPT ![c] = NoCheck]
    <2>1. NoCheck = [NoCheck EXCEPT !.result = "none"]
      BY DEF NoCheck
    <2>2. QED
      BY <1>1, <1>4, <2>1, NothingStep DEF CheckBecomes
  <1>5. QED
    BY <1>2, <1>3, <1>4 DEF Enter, Inspect

\* What is read after the load has what the load has brought.
LEMMA ReadKeeps ==
  ASSUME ChecksIInv, NEW c \in Cand, Read(c) PROVE ChecksIInv'
  <1>1. check[c] \in CheckState /\ CheckInv(c) /\ auth \in AuthState
    BY DEF ChecksIInv, ChecksTypeOK, ChecksInv
  <1>2. Attempts(c) \in SUBSET Credentials /\ "own" \in Attempts(c)
        /\ (DomainOf[c] \in auth.loaded => "account" \in Attempts(c))
    BY DEF Attempts, Credentials
  <1>3. PICK r \in CheckState : /\ r.pc = "ask" /\ r.again = check[c].again
                                /\ r.creds = Attempts(c) /\ r.result = check[c].result
                                /\ CheckBecomes(c, r)
    <2>1. CheckBecomes(c, [check[c] EXCEPT !.pc = "ask", !.creds = Attempts(c)])
      BY DEF Read, CheckBecomes
    <2>2. /\ [check[c] EXCEPT !.pc = "ask", !.creds = Attempts(c)] \in CheckState
          /\ [check[c] EXCEPT !.pc = "ask", !.creds = Attempts(c)].pc = "ask"
          /\ [check[c] EXCEPT !.pc = "ask", !.creds = Attempts(c)].again = check[c].again
          /\ [check[c] EXCEPT !.pc = "ask", !.creds = Attempts(c)].creds = Attempts(c)
          /\ [check[c] EXCEPT !.pc = "ask", !.creds = Attempts(c)].result = check[c].result
      BY <1>1, <1>2 DEF CheckState
    <2>3. QED
      BY <2>1, <2>2, Zenon
  <1>4. check'[c] = r /\ takes' = takes /\ auth' = auth
    BY <1>3 DEF ChecksIInv, ChecksTypeOK, CheckBecomes, Read
  <1>5. CheckInv(c)'
    BY <1>1, <1>2, <1>3, <1>4 DEF CheckInv, Refused, At, Read
  <1>6. QED
    BY <1>3, <1>5, QuietStep DEF Read

LEMMA AskKeeps ==
  ASSUME ChecksIInv, NEW c \in Cand, Ask(c) PROVE ChecksIInv'
  <1>1. UNCHANGED <<takes, auth, cancelled>> /\ At(c, "ask") /\ "own" \in check[c].creds
    BY DEF Ask, ChecksIInv, ChecksInv, CheckInv
  <1>2. CASE \E result \in {"nothing", "available"} : Ends(c, result)
    BY <1>1, <1>2, NothingStep DEF Ends, CheckBecomes
  <1>3. CASE check[c].creds \cap takes[c] = {} /\ Ends(c, "denied")
    BY <1>1, <1>3, DeniedStep DEF Ends, CheckBecomes
  <1>4. CASE check[c].creds \cap takes[c] = {} /\ Go(c, "refused")
    BY <1>1, <1>4, GoesOn DEF At
  <1>5. CASE check[c].creds \cap takes[c] = {}
             /\ IF check[c].again THEN Ends(c, "denied") ELSE Go(c, "refused")
    BY <1>3, <1>4, <1>5
  <1>6. QED
    BY <1>2, <1>5, Zenon DEF Ask

\* What holds of auth and the other checks while a load goes on: none has been
\* through a load of its own, and this CheckAll began before the load.
LEMMA NotSettled ==
  ASSUME ChecksIInv, auth.once \notin {"none", "used"}
  PROVE  auth.settled = FALSE /\ \A d \in Cand : check[d].again = FALSE
  <1>1. auth \in AuthState /\ OnceInv
    BY DEF ChecksIInv, ChecksTypeOK, ChecksInv
  <1>2. auth.settled = FALSE
    BY <1>1 DEF OnceInv, AuthState
  <1>3. ASSUME NEW d \in Cand PROVE check[d].again = FALSE
    BY DEF ChecksIInv, ChecksTypeOK, ChecksInv, CheckInv, CheckState
  <1>4. QED
    BY <1>2, <1>3

\* A step that takes c from one place to another while a load goes on, or makes
\* it the load: nobody else is affected.
LEMMA LoadStep ==
  ASSUME ChecksIInv, NEW c \in Cand, NEW r \in CheckState, CheckBecomes(c, r),
         auth.once \notin {"none", "used"}, auth' \in AuthState, auth'.settled = auth.settled,
         auth'.asked = IF auth'.once \in {"none", "unused"} THEN 0 ELSE 1,
         UNCHANGED <<takes, cancelled>>,
         "own" \notin takes[c],
         \A d \in Cand \ {c} : ~At(d, "loading"),
         CheckInv(c)'
  PROVE  ChecksIInv'
  <1>1. ChecksTypeOK /\ ChecksInv
    BY DEF ChecksIInv
  <1>2. check' \in [Cand -> CheckState] /\ check'[c] = r
        /\ \A d \in Cand \ {c} : check'[d] = check[d]
    BY <1>1 DEF ChecksTypeOK, CheckBecomes
  <1>3. takes' = takes /\ cancelled' = cancelled
    OBVIOUS
  <1>4. ChecksTypeOK'
    BY <1>1, <1>2, <1>3 DEF ChecksTypeOK
  <1>5. OnceInv'
    BY <1>3, NotSettled DEF OnceInv
  <1>6. OneLoader'
    BY <1>2 DEF OneLoader, At
  <1>7. ASSUME NEW d \in Cand PROVE CheckInv(d)'
    <2>1. CASE d = c
      BY <2>1
    <2>2. CASE d # c
      BY <1>1, <1>2, <1>3, <2>2, NotSettled DEF ChecksInv, CheckInv, Refused, At
    <2>3. QED
      BY <2>1, <2>2
  <1>8. QED
    BY <1>4, <1>5, <1>6, <1>7 DEF ChecksIInv, ChecksInv

LEMMA FallbackKeeps ==
  ASSUME ChecksIInv, NEW c \in Cand, LoadFallback(c) PROVE ChecksIInv'
  <1>1. /\ check[c] \in CheckState /\ CheckInv(c) /\ auth \in AuthState
        /\ OnceInv /\ \A d \in Cand : CheckInv(d)
    BY DEF ChecksIInv, ChecksTypeOK, ChecksInv
  <1>2. /\ At(c, "refused") /\ "own" \in check[c].creds
        /\ check[c].creds \cap takes[c] = {} /\ UNCHANGED <<takes, cancelled>>
    BY <1>1 DEF LoadFallback, CheckInv, Refused, At
  <1>3. CASE Ends(c, "denied") /\ UNCHANGED auth
    BY <1>2, <1>3, DeniedStep DEF Ends, CheckBecomes
  <1>4. CASE /\ auth.once = "unused" /\ Go(c, "loading")
             /\ auth' = [auth EXCEPT !.once = "asking", !.asked = @ + 1]
    <2>1. PICK r \in CheckState : /\ r.pc = "loading" /\ r.again = check[c].again
                                  /\ r.creds = check[c].creds /\ r.result = check[c].result
                                  /\ CheckBecomes(c, r)
      BY <1>1, <1>4 DEF CheckState, Go, CheckBecomes
    <2>2. check'[c] = r /\ takes' = takes
      BY <1>2, <2>1 DEF ChecksIInv, ChecksTypeOK, CheckBecomes
    <2>3. auth.asked = 0
      BY <1>1, <1>4 DEF OnceInv
    <2>4. /\ auth' \in AuthState /\ auth'.once = "asking" /\ auth'.asked = 1
          /\ auth'.settled = auth.settled
      <3>1. auth \in AuthState /\ auth.asked + 1 = 1
        BY <1>1, <2>3
      <3>2. auth' = [auth EXCEPT !.once = "asking", !.asked = 1]
        BY <1>4, <3>1
      <3>3. QED
        BY <3>1, <3>2 DEF AuthState
    <2>5. CheckInv(c)'
      BY <1>1, <1>2, <1>4, <2>1, <2>2, <2>4, NotSettled DEF CheckInv, Refused, At
    <2>6. \A d \in Cand \ {c} : ~At(d, "loading")
      BY <1>1, <1>4 DEF CheckInv
    <2>7. QED
      BY <1>2, <1>4, <2>1, <2>4, <2>5, <2>6, LoadStep
  <1>5. QED
    BY <1>2, <1>3, <1>4 DEF LoadFallback

\* The steps of the check that makes the load.
LEMMA LoadingKeeps ==
  ASSUME ChecksIInv, NEW c \in Cand, Fetched(c) \/ AddCredentials(c) \/ Loaded(c) PROVE ChecksIInv'
  <1>1. /\ check[c] \in CheckState /\ CheckInv(c) /\ auth \in AuthState
        /\ OnceInv /\ OneLoader
    BY DEF ChecksIInv, ChecksTypeOK, ChecksInv
  <1>2. /\ At(c, "loading") /\ auth.once \in {"asking", "adding"}
        /\ UNCHANGED <<takes, cancelled>>
    BY DEF Fetched, AddCredentials, Loaded
  <1>3. /\ "own" \in check[c].creds /\ check[c].creds \cap takes[c] = {}
        /\ "own" \notin takes[c] /\ auth.asked = 1
        /\ \A d \in Cand \ {c} : ~At(d, "loading")
    BY <1>1, <1>2 DEF CheckInv, Refused, At, OnceInv, OneLoader
  <1>4. auth.settled = FALSE /\ check[c].again = FALSE
    BY <1>2, NotSettled
  <1>5. CASE Ends(c, "denied") /\ auth' = [auth EXCEPT !.once = "used"]
    <2>1. PICK r \in CheckState : /\ r.pc = "done" /\ r.again = FALSE /\ r.result = "denied"
                                  /\ r.creds = check[c].creds /\ CheckBecomes(c, r)
      BY <1>1, <1>4, <1>5 DEF CheckState, Ends, CheckBecomes
    <2>2. check'[c] = r /\ takes' = takes
      BY <1>2, <2>1 DEF ChecksIInv, ChecksTypeOK, CheckBecomes
    <2>3. /\ auth' \in AuthState /\ auth'.once = "used" /\ auth'.asked = 1
          /\ auth'.settled = auth.settled
      BY <1>1, <1>3, <1>5 DEF AuthState
    <2>4. CheckInv(c)'
      BY <1>3, <1>4, <2>1, <2>2, <2>3 DEF CheckInv, Refused, At
    <2>5. QED
      BY <1>2, <1>3, <2>1, <2>3, <2>4, LoadStep
  <1>6. CASE /\ UNCHANGED check
             /\ \E accounts \in SUBSET Account :
                  auth' = [auth EXCEPT !.once = "adding", !.accounts = accounts]
    <2>1. PICK accounts \in SUBSET Account :
            auth' = [auth EXCEPT !.once = "adding", !.accounts = accounts]
      BY <1>6
    <2>2. /\ auth' \in AuthState /\ auth'.once = "adding" /\ auth'.asked = 1
          /\ auth'.settled = auth.settled
      BY <1>1, <1>3, <2>1 DEF AuthState
    <2>3. CheckBecomes(c, check[c]) /\ check' = check /\ takes' = takes
      BY <1>2, <1>6 DEF CheckBecomes, ChecksIInv, ChecksTypeOK
    <2>4. CheckInv(c)'
      BY <1>1, <1>2, <1>3, <1>4, <2>2, <2>3 DEF CheckInv, Refused, At
    <2>5. QED
      BY <1>1, <1>2, <1>3, <2>2, <2>3, <2>4, LoadStep
  <1>7. CASE AddCredentials(c)
    <2>1. PICK a \in auth.accounts :
            auth' = [auth EXCEPT !.accounts = @ \ {a}, !.added = TRUE,
                                 !.loaded = IF a.usable THEN @ \cup {a.domain} ELSE @]
      BY <1>7 DEF AddCredentials
    <2>2. /\ auth' \in AuthState /\ auth'.once = auth.once /\ auth'.asked = 1
          /\ auth'.settled = auth.settled
      <3>1. auth.accounts \ {a} \in SUBSET Account /\ a.domain \in Domain
        BY <1>1, <2>1 DEF AuthState, Account
      <3>2. (IF a.usable THEN auth.loaded \cup {a.domain} ELSE auth.loaded) \in SUBSET Domain
        BY <1>1, <3>1 DEF AuthState
      <3>3. QED
        BY <1>1, <1>3, <2>1, <3>1, <3>2 DEF AuthState
    <2>3. CheckBecomes(c, check[c]) /\ check' = check /\ takes' = takes
      BY <1>2, <1>7 DEF CheckBecomes, ChecksIInv, ChecksTypeOK, AddCredentials
    <2>4. CheckInv(c)'
      BY <1>1, <1>2, <1>3, <1>4, <2>2, <2>3 DEF CheckInv, Refused, At
    <2>5. QED
      BY <1>1, <1>2, <1>3, <2>2, <2>3, <2>4, LoadStep
  <1>8. CASE Loaded(c) /\ check' = [check EXCEPT ![c].pc = "read", ![c].again = TRUE]
    <2>1. CheckBecomes(c, [check[c] EXCEPT !.pc = "read", !.again = TRUE])
      BY <1>8 DEF CheckBecomes
    <2>2. [check[c] EXCEPT !.pc = "read", !.again = TRUE] \in CheckState
      BY <1>1 DEF CheckState
    <2>3. PICK r \in CheckState : /\ r.pc = "read" /\ r.again = TRUE
                                  /\ r.result = check[c].result /\ CheckBecomes(c, r)
      BY <1>1, <2>1, <2>2 DEF CheckState
    <2>4. check'[c] = r /\ takes' = takes
      BY <1>2, <2>3 DEF ChecksIInv, ChecksTypeOK, CheckBecomes
    <2>5. /\ auth' \in AuthState /\ auth'.once = "used" /\ auth'.asked = 1
          /\ auth'.settled = auth.settled
      BY <1>1, <1>3, <1>8 DEF AuthState, Loaded
    <2>6. check[c].result # "denied"
      BY <1>1, <1>2 DEF CheckInv, At
    <2>7. CheckInv(c)'
      BY <2>3, <2>4, <2>5, <2>6 DEF CheckInv, Refused, At
    <2>8. QED
      BY <1>2, <1>3, <2>3, <2>5, <2>7, LoadStep
  <1>9. CASE Loaded(c) /\ Ends(c, "denied")
    BY <1>5, <1>9 DEF Loaded
  <1>10. QED
    BY <1>5, <1>6, <1>7, <1>8, <1>9 DEF Fetched, Loaded

\* The next CheckAll knows whether Komodo has been asked by now.
LEMMA CheckAllKeeps ==
  ASSUME ChecksIInv, NEW S \in SUBSET Cand, CheckAll(S) PROVE ChecksIInv'
  <1>1. auth \in AuthState /\ OnceInv /\ ChecksTypeOK
    BY DEF ChecksIInv, ChecksTypeOK, ChecksInv
  <1>2. UNCHANGED <<takes, cancelled>>
    BY DEF CheckAll
  <1>3. \A c \in Cand : check'[c] \in {NoCheck, [NoCheck EXCEPT !.pc = "queue"]}
    BY DEF CheckAll
  <1>4. check' \in [Cand -> CheckState]
    BY NoCheckTyped DEF CheckAll
  <1>5. PICK settled \in BOOLEAN : /\ auth' = [auth EXCEPT !.settled = settled]
                                   /\ settled => auth.settled \/ auth.once = "used"
    <2>1. auth' = [auth EXCEPT !.settled = auth.settled \/ auth.once = "used"]
      BY DEF CheckAll
    <2>2. (auth.settled \/ auth.once = "used") \in BOOLEAN
      OBVIOUS
    <2>3. QED
      BY <2>1, <2>2, Zenon
  <1>6. /\ auth' \in AuthState /\ auth'.once = auth.once /\ auth'.asked = auth.asked
        /\ auth'.settled = settled
    BY <1>1, <1>5 DEF AuthState
  <1>7. ChecksTypeOK'
    BY <1>1, <1>2, <1>4, <1>6 DEF ChecksTypeOK
  <1>8. OnceInv'
    BY <1>1, <1>2, <1>5, <1>6 DEF OnceInv
  <1>9. OneLoader' /\ \A c \in Cand : CheckInv(c)'
    BY <1>3 DEF OneLoader, CheckInv, Refused, At, NoCheck
  <1>10. QED
    BY <1>7, <1>8, <1>9 DEF ChecksIInv, ChecksInv

LEMMA CancelKeeps ==
  ASSUME ChecksIInv, Cancel PROVE ChecksIInv'
  <1>1. takes' = takes /\ auth' = auth /\ check' = check /\ cancelled' = TRUE
    BY DEF Cancel
  <1>2. QED
    BY <1>1 DEF ChecksIInv, ChecksTypeOK, ChecksInv, OnceInv, OneLoader, CheckInv, Refused, At

LEMMA ChecksInvStep == ChecksIInv /\ [ChecksNext]_checkVars => ChecksIInv'
  <1>1. ASSUME ChecksIInv, NEW c \in Cand, CheckStep(c) PROVE ChecksIInv'
    BY <1>1, EnterInspectKeeps, ReadKeeps, AskKeeps, FallbackKeeps, LoadingKeeps DEF CheckStep
  <1>2. ASSUME ChecksIInv, UNCHANGED checkVars PROVE ChecksIInv'
    <2>1. takes' = takes /\ auth' = auth /\ check' = check /\ cancelled' = cancelled
      BY <1>2 DEF checkVars
    <2>2. QED
      BY <1>2, <2>1 DEF ChecksIInv, ChecksTypeOK, ChecksInv, OnceInv, OneLoader, CheckInv, Refused, At
  <1>3. QED
    BY <1>1, <1>2, CheckAllKeeps, CancelKeeps DEF ChecksNext

-----------------------------------------------------------------------------
(* What the checks make sure of *)

\* Komodo is asked once at most in the life of the process, however many checks
\* are refused at a time, and only after a registry has refused what the host
\* has (check.go:127-143, registry.go:85-110).
THEOREM KomodoIsAskedSparingly == ChecksSpec => []FallbackSparing
  <1>1. ChecksIInv => FallbackSparing
    BY DEF ChecksIInv, ChecksTypeOK, ChecksInv, OnceInv, AuthState, FallbackSparing
  <1>2. QED
    BY <1>1, ChecksInvInit, ChecksInvStep, PTL DEF ChecksSpec

\* A check is denied in vain only beside the load of another: not after a load
\* of its own, which it reads to the end (check.go:143), and not in a CheckAll
\* that began after the load, by which time the accounts are all there.
THEOREM DenialsHaveACause == ChecksSpec => []DeniedForCause
  <1>1. ASSUME ChecksIInv, NEW c \in Cand, check[c].result = "denied",
               "account" \in takes[c], DomainOf[c] \in auth.loaded
        PROVE  ~check[c].again /\ ~auth.settled
    <2>1. CheckInv(c)
      BY <1>1 DEF ChecksIInv, ChecksInv
    <2>2. QED
      BY <1>1, <2>1 DEF CheckInv, Refused
  <1>2. ChecksIInv => DeniedForCause
    BY <1>1 DEF DeniedForCause
  <1>3. QED
    BY <1>2, ChecksInvInit, ChecksInvStep, PTL DEF ChecksSpec

-----------------------------------------------------------------------------
(* The passes *)

\* What the pass has is there only as long as it is of use.
Phases ==
  /\ pass.phase \in {"idle", "check", "prune"} => pass.queue = <<>>
  /\ pass.phase \in {"idle", "check", "ordered"} => touched = {}
  /\ IsInjective(pass.queue)

Opted ==
  /\ \A c \in Cand : layers[c] # <<>> => Evaluate(layers[c]).policy.enable = "yes"
  /\ In("serve") => \A c \in touched : layers[c] # <<>> /\ Evaluate(layers[c]).policy.monitor = "no"

PassInv ==
  TypeOK /\ Phases /\ DependenciesFirst /\ NoneForgotten /\ Opted /\ PrunedAfterUpdates

-----------------------------------------------------------------------------
(* The policy *)

\* What the first n layers say of a setting.
Says(l, n, s, v) ==
  \/ v = Defaults[s] /\ \A j \in 1 .. n : s \notin DOMAIN l[j]
  \/ \E i \in 1 .. n : /\ s \in DOMAIN l[i] /\ l[i][s] = v
                       /\ \A j \in 1 .. n : j > i => s \notin DOMAIN l[j]

LEMMA SettingsApplied ==
  ASSUME NEW d \in Decision, NEW layer \in Layer, NEW n \in Nat
  PROVE  /\ ApplySettings(d, layer, n) \in Decision
         /\ \A s \in Settings : ApplySettings(d, layer, n).policy[s] =
                                IF s \in DOMAIN layer THEN layer[s] ELSE d.policy[s]
<1> DEFINE policy == [s \in Settings |-> IF s \in DOMAIN layer THEN layer[s] ELSE d.policy[s]]
           enabledBy == IF "enable" \notin DOMAIN layer THEN d.enabledBy
                        ELSE IF layer.enable = "yes" THEN n ELSE 0
<1>1. d.policy \in [Settings -> Words] /\ d.enabledBy \in Nat
  BY DEF Decision
<1>2. \A s \in DOMAIN layer : layer[s] \in Words
  BY DEF Layer
<1>3. policy \in [Settings -> Words] /\ enabledBy \in Nat
  BY <1>1, <1>2
<1>4. ApplySettings(d, layer, n) = [policy |-> policy, enabledBy |-> enabledBy]
  BY DEF ApplySettings
<1> HIDE DEF enabledBy
<1>5. QED
  BY <1>3, <1>4 DEF Decision

\* What comes of the rules is what the last one that mentions a setting says.
LEMMA RulesSay ==
  ASSUME NEW l \in Seq(Layer), NEW rules \in Nat, rules <= Len(l)
  PROVE  LET step == [n \in 1 .. rules |-> [d \in Decision |-> ApplySettings(d, l[n], n)]]
             d == Iterate(step, DefaultDecision, rules)
         IN  d \in Decision /\ \A s \in Settings : Says(l, rules, s, d.policy[s])
<1> DEFINE step == [n \in 1 .. rules |-> [d \in Decision |-> ApplySettings(d, l[n], n)]]
           I == {t \in (0 .. rules) \X Decision :
                   \A s \in Settings : Says(l, t[1], s, t[2].policy[s])}
<1>1. <<0, DefaultDecision>> \in I
  <2>1. DefaultDecision \in Decision /\ DefaultDecision.policy = Defaults
    BY DEF DefaultDecision, Decision, Defaults, Settings, Words
  <2>2. \A s \in Settings : Says(l, 0, s, DefaultDecision.policy[s])
    BY <2>1 DEF Says
  <2>3. QED
    BY <2>1, <2>2
<1>2. ASSUME NEW n \in 1 .. rules, NEW d, <<n - 1, d>> \in I
      PROVE  <<n, step[n][d]>> \in I
  <2> DEFINE e == ApplySettings(d, l[n], n)
  <2>1. /\ d \in Decision /\ step[n][d] = e /\ n \in Nat /\ l[n] \in Layer
        /\ \A s \in Settings : Says(l, n - 1, s, d.policy[s])
    BY <1>2
  <2>2. /\ e \in Decision
        /\ \A s \in Settings : e.policy[s] = IF s \in DOMAIN l[n] THEN l[n][s] ELSE d.policy[s]
    BY <2>1, SettingsApplied
  <2> HIDE DEF e, step
  <2>3. ASSUME NEW s \in Settings
        PROVE  Says(l, n, s, e.policy[s])
    <3>1. CASE s \in DOMAIN l[n]
      BY <2>1, <2>2, <3>1 DEF Says
    <3>2. CASE s \notin DOMAIN l[n]
      <4>1. e.policy[s] = d.policy[s] /\ Says(l, n - 1, s, d.policy[s])
        BY <2>1, <2>2, <3>2
      <4>2. \A j \in 1 .. n : j \in 1 .. n - 1 \/ j = n
        BY <2>1
      <4>3. \A j \in 1 .. n - 1 : j \in 1 .. n
        BY <2>1
      <4>4. QED
        BY <2>1, <3>2, <4>1, <4>2, <4>3 DEF Says
    <3>3. QED
      BY <3>1, <3>2
  <2>4. QED
    BY <2>1, <2>2, <2>3
<1>3. <<rules, Iterate(step, DefaultDecision, rules)>> \in I
  <2> HIDE DEF step, I
  <2>1. QED
    BY <1>1, <1>2, LoopInvariant
<1>4. QED
  BY <1>3

\* The labels come last, but for those that nobody can read.
LEMMA LastWord ==
  ASSUME NEW l \in Seq(Layer) \ {<<>>}, NEW s \in Settings
  PROVE  LET n == Len(l)
             v == Evaluate(l).policy[s]
         IN  IF s \in DOMAIN l[n] /\ l[n][s] \in Values(s) THEN v = l[n][s]
             ELSE Says(l, n - 1, s, v)
<1> DEFINE n == Len(l)
           step == [i \in 1 .. n - 1 |-> [e \in Decision |-> ApplySettings(e, l[i], i)]]
           d == Iterate(step, DefaultDecision, n - 1)
           read == {t \in DOMAIN l[n] : l[n][t] \in Values(t)}
           labels == [t \in read |-> l[n][t]]
<1>1. n \in Nat /\ n - 1 \in Nat /\ n - 1 <= Len(l) /\ l[n] \in Layer
  OBVIOUS
<1>2. d \in Decision /\ Says(l, n - 1, s, d.policy[s])
  BY <1>1, RulesSay
<1>3. labels \in Layer
  <2>1. PICK said \in SUBSET Settings : l[n] \in [said -> Words]
    BY <1>1 DEF Layer
  <2>2. read \in SUBSET Settings /\ labels \in [read -> Words]
    BY <2>1
  <2> HIDE DEF read, labels
  <2>3. QED
    BY <2>2 DEF Layer
<1>4. Evaluate(l) = ApplySettings(d, labels, n)
  BY DEF Evaluate, ApplyLabels, Restrict
<1> HIDE DEF d, labels
<1>5. Evaluate(l).policy[s] = IF s \in DOMAIN labels THEN labels[s] ELSE d.policy[s]
  <2> DEFINE e == ApplySettings(d, labels, n)
  <2>1. e.policy[s] = IF s \in DOMAIN labels THEN labels[s] ELSE d.policy[s]
    BY <1>1, <1>2, <1>3, SettingsApplied
  <2>2. Evaluate(l) = e
    BY <1>4
  <2> HIDE DEF e
  <2>3. QED
    BY <2>1, <2>2
<1>6. QED
  BY <1>2, <1>5 DEF labels

-----------------------------------------------------------------------------
(* What the actions do to the record of the pass *)

LEMMA SelectPass ==
  ASSUME TypeOK, Select
  PROVE  /\ pass' \in PassState /\ pass'.n = pass.n + 1 /\ pass'.phase \in {"idle", "check"}
         /\ pass'.queue = pass.queue /\ pass'.enabled \in SUBSET Cand
         /\ pass'.updated = pass.updated /\ pass'.unpruned = pass.unpruned
<1>1. PICK S \in SUBSET Cand :
        /\ pass.checks + Cardinality(S) <= MaxChecks
        /\ pass' = [pass EXCEPT !.n = @ + 1, !.checks = @ + Cardinality(S),
                                !.phase = IF S = {} THEN "idle" ELSE "check", !.enabled = S]
  BY DEF Select
<1>2. Cardinality(S) \in Nat
  BY CandAssumption, FS_Subset, FS_CardinalityType
<1>3. pass \in PassState /\ pass.n + 1 \in 0 .. MaxPasses /\ pass.checks + Cardinality(S) \in 0 .. MaxChecks
  BY <1>1, <1>2, BoundsAssumption DEF TypeOK, PassState, Select
<1>4. PICK phase \in {"idle", "check"}, checks \in 0 .. MaxChecks, n \in 0 .. MaxPasses :
        /\ pass' = [pass EXCEPT !.n = n, !.checks = checks, !.phase = phase, !.enabled = S]
        /\ n = pass.n + 1
  BY <1>1, <1>3
<1>5. QED
  BY <1>3, <1>4 DEF PassState

LEMMA ArrangePass ==
  ASSUME TypeOK, Arrange
  PROVE  /\ pass' \in PassState /\ pass'.n = pass.n /\ pass'.phase = "ordered"
         /\ pass'.enabled = pass.enabled /\ ToSet(pass'.queue) \subseteq pass.enabled
         /\ fleet' \in [Cand -> Label]
         /\ ServesEachService(pass'.queue, pass.enabled, fleet')
         /\ DependenciesFirstIn(pass'.queue, pass.enabled, fleet')
<1> DEFINE q == Order(pass.enabled, fleet')
<1>1. pass \in PassState /\ pass' = [pass EXCEPT !.phase = "ordered", !.queue = q]
  BY DEF Arrange, TypeOK
<1>2. fleet' \in [Cand -> Label]
  <2>1. PICK f \in Fleets : fleet' = [c \in Cand |-> IF c \in pass.enabled THEN f[c] ELSE NoFleet[c]]
    BY DEF Arrange
  <2>2. f \in [Cand -> Label] /\ \A c \in Cand : NoFleet[c] \in Label
    BY FleetsAssumption DEF NoFleet, Label
  <2>3. QED
    BY <2>1, <2>2
<1>3. Fleet(pass.enabled, fleet')
  <2>1. pass.enabled \in SUBSET Cand
    BY <1>1 DEF PassState
  <2>2. QED
    BY <1>2, <2>1, CandAssumption, FS_Subset DEF Fleet
<1>4. ServesEachService(q, pass.enabled, fleet') /\ DependenciesFirstIn(q, pass.enabled, fleet')
  BY <1>3, OrderArranged
<1> HIDE DEF q
<1>5. q \in Seq(pass.enabled) /\ q \in Seq(Cand) /\ ToSet(q) \subseteq pass.enabled
  <2>1. q \in Seq(pass.enabled) /\ pass.enabled \subseteq Cand
    BY <1>1, <1>4 DEF ServesEachService, PassState
  <2>2. QED
    BY <2>1, InRange
<1>6. QED
  BY <1>1, <1>2, <1>4, <1>5 DEF PassState

LEMMA StartPass ==
  ASSUME TypeOK, Start
  PROVE  /\ pass' \in PassState /\ pass'.n = pass.n /\ pass'.phase = "serve"
         /\ pass'.enabled = pass.enabled /\ pass'.queue = pass.queue
  BY DEF Start, TypeOK, PassState

LEMMA StopPass ==
  ASSUME TypeOK, Stop
  PROVE  /\ pass' \in PassState /\ pass'.n = pass.n /\ pass'.phase = "stopped"
         /\ pass'.enabled = pass.enabled /\ pass'.queue = pass.queue
  BY DEF Stop, TypeOK, PassState

\* The container whose turn it was is not in the queue any more.
LEMMA TailFacts ==
  ASSUME NEW T, NEW q \in Seq(T), q # <<>>, IsInjective(q)
  PROVE  /\ Tail(q) \in Seq(T) /\ IsInjective(Tail(q)) /\ Head(q) \in ToSet(q)
         /\ ToSet(Tail(q)) = ToSet(q) \ {Head(q)}
<1> DEFINE r == Tail(q)
<1>1. /\ Len(q) \in Nat /\ Len(q) >= 1 /\ r \in Seq(T) /\ Len(r) = Len(q) - 1
      /\ Head(q) = q[1] /\ \A i \in 1 .. Len(r) : r[i] = q[i + 1]
  OBVIOUS
<1> HIDE DEF r
<1>2. /\ DOMAIN q = 1 .. Len(q) /\ DOMAIN r = 1 .. Len(q) - 1
      /\ \A x : x \in ToSet(q) <=> \E i \in 1 .. Len(q) : q[i] = x
      /\ \A x : x \in ToSet(r) <=> \E i \in 1 .. Len(q) - 1 : r[i] = x
  BY <1>1, InRange
<1>3. \A i, j \in 1 .. Len(q) : q[i] = q[j] => i = j
  BY <1>2 DEF IsInjective
<1>4. IsInjective(r)
  BY <1>1, <1>2, <1>3 DEF IsInjective
<1>5. ASSUME NEW x
      PROVE  x \in ToSet(r) <=> x \in ToSet(q) \ {Head(q)}
  <2>1. ASSUME x \in ToSet(r)
        PROVE  x \in ToSet(q) \ {Head(q)}
    <3>1. PICK i \in 1 .. Len(q) - 1 : r[i] = x
      BY <1>2, <2>1
    <3>2. i + 1 \in 1 .. Len(q) /\ i + 1 # 1 /\ q[i + 1] = x /\ 1 \in 1 .. Len(q)
      BY <1>1, <1>2, <3>1
    <3>3. QED
      BY <1>1, <1>2, <1>3, <3>2
  <2>2. ASSUME x \in ToSet(q) \ {Head(q)}
        PROVE  x \in ToSet(r)
    <3>1. PICK i \in 1 .. Len(q) : q[i] = x
      BY <1>2, <2>2
    <3>2. i # 1 /\ i - 1 \in 1 .. Len(q) - 1 /\ r[i - 1] = q[(i - 1) + 1]
      BY <1>1, <1>2, <2>2, <3>1
    <3>3. (i - 1) + 1 = i
      BY <3>1
    <3>4. QED
      BY <1>2, <3>1, <3>2, <3>3
  <2>3. QED
    BY <2>1, <2>2
<1>6. ToSet(r) = ToSet(q) \ {Head(q)}
  BY <1>5
<1>7. Head(q) \in ToSet(q)
  BY <1>1, <1>2
<1>8. QED
  BY <1>1, <1>4, <1>6, <1>7 DEF r

LEMMA DonePass ==
  ASSUME TypeOK, Phases, pass.queue # <<>>, NEW updated \in BOOLEAN, Done(updated)
  PROVE  /\ pass' \in PassState /\ pass'.n = pass.n /\ pass'.phase = pass.phase
         /\ pass'.enabled = pass.enabled /\ c0 \in ToSet(pass.queue) /\ c0 \in Cand
         /\ ToSet(pass'.queue) = ToSet(pass.queue) \ {c0} /\ IsInjective(pass'.queue)
<1>1. pass \in PassState /\ pass.queue \in Seq(Cand)
  BY DEF TypeOK, PassState
<1>2. /\ Tail(pass.queue) \in Seq(Cand) /\ IsInjective(Tail(pass.queue)) /\ c0 \in ToSet(pass.queue)
      /\ ToSet(Tail(pass.queue)) = ToSet(pass.queue) \ {c0}
  BY <1>1, TailFacts DEF Phases, c0
<1>3. PICK b \in BOOLEAN : pass' = [pass EXCEPT !.queue = Tail(pass.queue), !.updated = b]
  <2>1. (pass.updated \/ updated) \in BOOLEAN
    OBVIOUS
  <2>2. QED
    BY <2>1 DEF Done
<1>4. c0 \in Cand
  BY <1>1, <1>2, InRange
<1>5. QED
  BY <1>1, <1>2, <1>3, <1>4 DEF PassState

LEMMA StartPruningPass ==
  ASSUME TypeOK, StartPruning
  PROVE  /\ pass' \in PassState /\ pass'.n = pass.n /\ pass'.phase = "prune"
         /\ pass'.enabled = pass.enabled /\ pass'.queue = pass.queue
         /\ pass'.updated = pass.updated /\ (pass.updated => pass'.unpruned = pass.enabled)
<1>1. pass \in PassState
  BY DEF TypeOK
<1>2. PICK S \in SUBSET Cand :
        /\ pass' = [pass EXCEPT !.phase = "prune", !.unpruned = S]
        /\ pass.updated => S = pass.enabled
  <2> DEFINE T == IF pass.updated THEN pass.enabled ELSE {}
  <2>1. pass' = [pass EXCEPT !.phase = "prune", !.unpruned = T]
    BY DEF StartPruning
  <2>2. T \in SUBSET Cand /\ (pass.updated => T = pass.enabled)
    BY <1>1 DEF PassState
  <2> HIDE DEF T
  <2>3. QED
    BY <2>1, <2>2
<1>3. /\ pass' \in PassState /\ pass'.n = pass.n /\ pass'.phase = "prune"
      /\ pass'.enabled = pass.enabled /\ pass'.queue = pass.queue
      /\ pass'.updated = pass.updated /\ pass'.unpruned = S
  BY <1>1, <1>2 DEF PassState
<1>4. QED
  BY <1>2, <1>3, Zenon

LEMMA PrunePass ==
  ASSUME TypeOK, Prune
  PROVE  \E c \in Cand :
           /\ pass' \in PassState /\ pass'.n = pass.n /\ pass'.phase = "prune"
           /\ pass'.enabled = pass.enabled /\ pass'.queue = pass.queue /\ pass'.updated = pass.updated
           /\ pass'.unpruned = pass.unpruned \ {c}
           /\ \/ /\ snaps' = [snaps EXCEPT ![c] = IF @ > Keep THEN Keep ELSE @]
                 /\ pass'.spoilt = pass.spoilt
              \/ /\ snaps' = snaps
                 /\ pass'.spoilt = pass.spoilt \cup {c}
           /\ layers' = [layers EXCEPT ![c] = <<>>]
<1>1. pass \in PassState /\ pass.phase = "prune"
  BY DEF TypeOK, Prune, In
<1>2. PICK c \in pass.unpruned :
        /\ \/ /\ snaps' = [snaps EXCEPT ![c] = IF @ > Keep THEN Keep ELSE @]
              /\ pass' = [pass EXCEPT !.unpruned = @ \ {c}]
           \/ /\ snaps' = snaps
              /\ pass' = [pass EXCEPT !.unpruned = @ \ {c}, !.spoilt = @ \cup {c}]
        /\ layers' = [layers EXCEPT ![c] = <<>>]
  BY DEF Prune
<1>3. c \in Cand
  BY <1>1 DEF PassState
<1>4. PICK spoilt \in SUBSET Cand :
        /\ pass' = [pass EXCEPT !.unpruned = pass.unpruned \ {c}, !.spoilt = spoilt]
        /\ \/ snaps' = [snaps EXCEPT ![c] = IF @ > Keep THEN Keep ELSE @] /\ spoilt = pass.spoilt
           \/ snaps' = snaps /\ spoilt = pass.spoilt \cup {c}
  <2>1. CASE /\ snaps' = [snaps EXCEPT ![c] = IF @ > Keep THEN Keep ELSE @]
             /\ pass' = [pass EXCEPT !.unpruned = @ \ {c}]
    <3>1. pass' = [pass EXCEPT !.unpruned = pass.unpruned \ {c}, !.spoilt = pass.spoilt]
      BY <1>1, <2>1 DEF PassState
    <3>2. pass.spoilt \in SUBSET Cand
      BY <1>1 DEF PassState
    <3>3. QED
      BY <2>1, <3>1, <3>2, Zenon
  <2>2. CASE /\ snaps' = snaps
             /\ pass' = [pass EXCEPT !.unpruned = @ \ {c}, !.spoilt = @ \cup {c}]
    <3>1. pass' = [pass EXCEPT !.unpruned = pass.unpruned \ {c}, !.spoilt = pass.spoilt \cup {c}]
      BY <1>1, <2>2 DEF PassState
    <3>2. pass.spoilt \cup {c} \in SUBSET Cand
      BY <1>1, <1>3 DEF PassState
    <3>3. QED
      BY <2>2, <3>1, <3>2, Zenon
  <2>3. QED
    BY <1>2, <2>1, <2>2
<1>5. /\ pass' \in PassState /\ pass'.n = pass.n /\ pass'.phase = "prune"
      /\ pass'.enabled = pass.enabled /\ pass'.queue = pass.queue /\ pass'.updated = pass.updated
      /\ pass'.unpruned = pass.unpruned \ {c} /\ pass'.spoilt = spoilt
  BY <1>1, <1>3, <1>4 DEF PassState
<1>6. QED
  BY <1>2, <1>3, <1>4, <1>5, Zenon

LEMMA EndPass ==
  ASSUME TypeOK, End
  PROVE  /\ pass' \in PassState /\ pass'.n = pass.n /\ pass'.phase = "idle"
         /\ pass'.queue = pass.queue /\ pass'.enabled = {}
  BY DEF End, TypeOK, PassState

-----------------------------------------------------------------------------
(* The shape of a pass *)

\* What a daemon does is, to the checks, one of their own steps or none.
LEMMA StepOfChecks == [Next]_vars => [ChecksNext]_checkVars
<1> SUFFICES ASSUME [Next]_vars
             PROVE  [ChecksNext]_checkVars
  OBVIOUS
<1>1. CASE Select
  <2>1. PICK S \in SUBSET Cand : IF S = {} THEN UNCHANGED checkVars ELSE CheckAll(S)
    BY <1>1 DEF Select
  <2>2. QED
    BY <2>1 DEF ChecksNext
<1>2. CASE Check
  BY <1>2 DEF Check, ChecksNext
<1>3. CASE \/ Arrange \/ Start \/ Busy \/ Report \/ Update \/ Stop \/ StartPruning \/ Prune
           \/ UNCHANGED vars
  BY <1>3 DEF Arrange, Start, Busy, Report, Update, Stop, StartPruning, Prune, vars
<1>4. CASE End
  <2>1. CheckAll({}) /\ {} \in SUBSET Cand
    BY <1>4 DEF End
  <2>2. QED
    BY <2>1 DEF ChecksNext
<1>5. CASE Shutdown
  BY <1>5 DEF Shutdown, ChecksNext
<1>6. QED
  BY <1>1, <1>2, <1>3, <1>4, <1>5 DEF Next

LEMMA PassInvInit == Init => PassInv
<1> SUFFICES ASSUME Init
             PROVE  PassInv
  OBVIOUS
<1>1. ChecksTypeOK
  BY ChecksInvInit DEF Init, ChecksIInv
<1>2. /\ pass \in PassState /\ pass.phase = "idle" /\ pass.queue = <<>> /\ pass.n = 0
      /\ ToSet(pass.queue) = {} /\ IsInjective(pass.queue)
  BY BoundsAssumption DEF Init, PassState, ToSet, IsInjective
<1>3. TypeOK
  <2>1. fleet \in [Cand -> Label]
    BY DEF Init, NoFleet, Label
  <2>2. /\ layers \in [Cand -> Layers \cup {<<>>}] /\ snaps \in [Cand -> Nat]
        /\ touched = {}
    BY BoundsAssumption DEF Init
  <2>3. QED
    BY <1>1, <1>2, <2>1, <2>2 DEF TypeOK
<1>4. Phases /\ Opted
  BY <1>2 DEF Init, Phases, Opted, In
<1>5. DependenciesFirst /\ NoneForgotten
  BY <1>2 DEF DependenciesFirst, NoneForgotten, In
<1>6. PrunedAfterUpdates
  BY <1>2 DEF PrunedAfterUpdates, In
<1>7. QED
  BY <1>3, <1>4, <1>5, <1>6 DEF PassInv

\* The layers that are read are ones there may be.
LEMMA LayersOfFacts ==
  ASSUME TypeOK, NEW c \in Cand, NEW l \in LayersOf(c)
  PROVE  /\ l \in Layers /\ l \in Seq(Layer) \ {<<>>}
         /\ layers[c] # <<>> => l = layers[c]
         /\ layers[c] = <<>> => Evaluate(l).policy.enable = "yes"
  BY LayersAssumption DEF TypeOK, LayersOf

LEMMA ShapeStep ==
  ASSUME TypeOK, Phases, ChecksTypeOK', [Next]_vars
  PROVE  TypeOK' /\ Phases'
<1>1. /\ pass \in PassState /\ pass.n \in 0 .. MaxPasses /\ MaxPasses \in Nat /\ Keep \in Nat
      /\ fleet \in [Cand -> Label] /\ layers \in [Cand -> Layers \cup {<<>>}]
      /\ snaps \in [Cand -> Nat]
      /\ touched \cup ToSet(pass.queue) \subseteq pass.enabled
      /\ IsInjective(pass.queue)
  BY BoundsAssumption DEF TypeOK, PassState, Phases
<1>2. ToSet(<<>>) = {}
  BY DEF ToSet
<1> DEFINE LayersTyped == layers' \in [Cand -> Layers \cup {<<>>}]
<1>3. CASE Select
  <2>1. /\ pass.phase = "idle" /\ pass.n < MaxPasses
        /\ fleet' = fleet /\ layers' = layers /\ snaps' = snaps /\ touched' = touched
    BY <1>3 DEF Select, In
  <2>2. pass.queue = <<>> /\ touched = {}
    BY <2>1 DEF Phases
  <2>3. QED
    BY <1>1, <1>2, <1>3, <2>1, <2>2, SelectPass DEF TypeOK, Phases
<1>4. CASE Check \/ Shutdown \/ UNCHANGED vars
  <2>1. UNCHANGED passVars
    BY <1>4 DEF Check, Shutdown, vars
  <2>2. QED
    BY <2>1 DEF passVars, TypeOK, Phases
<1>5. CASE Arrange
  <2>1. pass.phase = "check" /\ UNCHANGED <<layers, snaps, touched>>
    BY <1>5 DEF Arrange, In
  <2>2. touched = {}
    BY <2>1 DEF Phases
  <2>3. IsInjective(pass'.queue)
    BY <1>5, ArrangePass DEF ServesEachService
  <2>4. QED
    BY <1>1, <1>5, <2>1, <2>2, <2>3, ArrangePass DEF TypeOK, Phases
<1>6. CASE Start
  <2>1. fleet' = NoFleet /\ UNCHANGED <<layers, snaps, touched>>
    BY <1>6 DEF Start
  <2>2. NoFleet \in [Cand -> Label]
    BY DEF NoFleet, Label
  <2>3. QED
    BY <1>1, <1>6, <2>1, <2>2, StartPass DEF TypeOK, Phases
<1>7. CASE Busy \/ Report \/ Update
  <2>1. PICK updated \in BOOLEAN : Done(updated)
    BY <1>7 DEF Busy, Report, Update
  <2>2. pass.phase = "serve" /\ pass.queue # <<>> /\ fleet' = fleet
    BY <1>7 DEF Busy, Report, Update, In
  <2>3. /\ pass' \in PassState /\ pass'.n = pass.n /\ pass'.phase = "serve"
        /\ pass'.enabled = pass.enabled /\ c0 \in ToSet(pass.queue) /\ c0 \in Cand
        /\ ToSet(pass'.queue) = ToSet(pass.queue) \ {c0} /\ IsInjective(pass'.queue)
    BY <2>1, <2>2, DonePass
  <2>4. touched' \subseteq touched \cup {c0}
    BY <1>7 DEF Busy, Report, Update
  <2>5. layers' = layers \/ \E l \in LayersOf(c0) : layers' = [layers EXCEPT ![c0] = l]
    BY <1>7 DEF Busy, Report, Update
  <2>6. LayersTyped
    BY <1>1, <2>3, <2>5, LayersOfFacts
  <2>7. snaps' = snaps \/ \E taken \in {0, 1} : snaps' = [snaps EXCEPT ![c0] = @ + taken]
    BY <1>7 DEF Busy, Report, Update
  <2>8. snaps' \in [Cand -> Nat]
    BY <1>1, <2>3, <2>7
  <2>9. QED
    BY <1>1, <2>2, <2>3, <2>4, <2>6, <2>8 DEF TypeOK, Phases
<1>8. CASE Stop
  <2>1. UNCHANGED <<fleet, layers, snaps, touched>>
    BY <1>8 DEF Stop
  <2>2. QED
    BY <1>1, <1>8, <2>1, StopPass DEF TypeOK, Phases
<1>9. CASE StartPruning
  <2>1. UNCHANGED <<fleet, layers, snaps, touched>> /\ pass.queue = <<>>
    BY <1>9 DEF StartPruning
  <2>2. QED
    BY <1>1, <1>9, <2>1, StartPruningPass DEF TypeOK, Phases
<1>10. CASE Prune
  <2>1. UNCHANGED <<fleet, touched>> /\ pass.phase = "prune"
    BY <1>10 DEF Prune, In
  <2>2. PICK c \in Cand :
          /\ pass' \in PassState /\ pass'.n = pass.n /\ pass'.phase = "prune"
          /\ pass'.enabled = pass.enabled /\ pass'.queue = pass.queue
          /\ snaps' = snaps \/ snaps' = [snaps EXCEPT ![c] = IF @ > Keep THEN Keep ELSE @]
          /\ layers' = [layers EXCEPT ![c] = <<>>]
    BY <1>10, PrunePass
  <2>3. LayersTyped /\ snaps' \in [Cand -> Nat]
    BY <1>1, <2>2
  <2>4. QED
    BY <1>1, <2>1, <2>2, <2>3 DEF TypeOK, Phases
<1>11. CASE End
  <2>1. /\ UNCHANGED <<fleet, snaps>> /\ touched' = {} /\ layers' = [c \in Cand |-> <<>>]
        /\ pass.phase = "prune"
    BY <1>11 DEF End, In
  <2>2. pass.queue = <<>>
    BY <2>1 DEF Phases
  <2>3. QED
    BY <1>1, <1>2, <1>11, <2>1, <2>2, EndPass DEF TypeOK, Phases
<1>12. QED
  BY <1>3, <1>4, <1>5, <1>6, <1>7, <1>8, <1>9, <1>10, <1>11 DEF Next

-----------------------------------------------------------------------------
(* The steps, conjunct by conjunct *)

\* The order is made in one step, and served after it.
LEMMA OrderStep ==
  ASSUME TypeOK, DependenciesFirst, NoneForgotten, [Next]_vars
  PROVE  DependenciesFirst' /\ NoneForgotten'
<1>1. CASE Arrange
  BY <1>1, ArrangePass DEF DependenciesFirst, NoneForgotten
<1>2. CASE Check \/ Shutdown \/ UNCHANGED vars
  <2>1. pass' = pass /\ fleet' = fleet
    BY <1>2 DEF Check, Shutdown, vars, passVars
  <2>2. QED
    BY <2>1 DEF DependenciesFirst, NoneForgotten, In
<1>3. CASE \/ Select \/ Start \/ Busy \/ Report \/ Update \/ Stop \/ StartPruning \/ Prune \/ End
  <2>1. pass'.phase # "ordered"
    <3>1. CASE Busy \/ Report \/ Update
      <4>1. pass'.phase = pass.phase /\ pass.phase = "serve"
        BY <3>1 DEF Busy, Report, Update, Done, In, TypeOK, PassState
      <4>2. QED
        BY <4>1
    <3>2. QED
      BY <1>3, <3>1, SelectPass, StartPass, StopPass, StartPruningPass, PrunePass, EndPass
  <2>2. QED
    BY <2>1 DEF DependenciesFirst, NoneForgotten, In
<1>4. QED
  BY <1>1, <1>2, <1>3 DEF Next

\* The policy of a container is read once in a pass.
LEMMA OptedStep ==
  ASSUME TypeOK, Phases, Opted, [Next]_vars
  PROVE  Opted'
<1>1. /\ layers \in [Cand -> Layers \cup {<<>>}]
      /\ \A c \in Cand : layers[c] # <<>> => Evaluate(layers[c]).policy.enable = "yes"
      /\ touched \in SUBSET Cand
  BY DEF TypeOK, Opted, PassState
<1>2. CASE \/ Select \/ Check \/ Arrange \/ Stop \/ StartPruning \/ Shutdown \/ UNCHANGED vars
  <2>1. layers' = layers /\ touched' = touched
    BY <1>2 DEF Select, Check, Arrange, Stop, StartPruning, Shutdown, vars, passVars
  <2>2. pass'.phase = "serve" => pass.phase = "serve"
    <3>1. CASE Check \/ Shutdown \/ UNCHANGED vars
      BY <3>1 DEF Check, Shutdown, vars, passVars
    <3>2. QED
      BY <1>2, <3>1, SelectPass, ArrangePass, StopPass, StartPruningPass
  <2>3. QED
    BY <2>1, <2>2 DEF Opted, In
<1>3. CASE Start
  <2>1. layers' = layers /\ touched' = touched /\ touched = {}
    BY <1>3 DEF Start, Phases, In
  <2>2. QED
    BY <2>1 DEF Opted
<1>4. CASE Busy
  <2>1. layers' = layers /\ touched' = touched /\ In("serve")
    BY <1>4 DEF Busy
  <2>2. QED
    BY <2>1 DEF Opted, In
<1>5. CASE Report \/ Update
  <2>1. In("serve") /\ pass.queue # <<>> /\ \E updated \in BOOLEAN : Done(updated)
    BY <1>5 DEF Report, Update
  <2>2. c0 \in Cand
    BY <2>1, DonePass
  <2>3. CASE layers' = layers /\ touched' = touched
    BY <2>1, <2>3 DEF Opted
  <2>4. CASE \E l \in LayersOf(c0) :
               /\ layers' = [layers EXCEPT ![c0] = l]
               /\ \/ touched' = touched
                  \/ touched' = touched \cup {c0} /\ Evaluate(l).policy.monitor = "no"
    <3>1. PICK l \in LayersOf(c0) :
            /\ layers' = [layers EXCEPT ![c0] = l]
            /\ \/ touched' = touched
               \/ touched' = touched \cup {c0} /\ Evaluate(l).policy.monitor = "no"
      BY <2>4
    <3>2. /\ l # <<>> /\ (layers[c0] # <<>> => l = layers[c0])
          /\ Evaluate(l).policy.enable = "yes"
      BY <1>1, <2>2, LayersOfFacts
    <3>3. layers'[c0] = l /\ \A c \in Cand \ {c0} : layers'[c] = layers[c]
      BY <1>1, <2>2, <3>1
    <3>4. \A c \in Cand : layers'[c] # <<>> => Evaluate(layers'[c]).policy.enable = "yes"
      BY <1>1, <3>2, <3>3
    <3>5. ASSUME NEW c \in touched'
          PROVE  layers'[c] # <<>> /\ Evaluate(layers'[c]).policy.monitor = "no"
      <4>1. CASE c \in touched
        <5>1. layers[c] # <<>> /\ Evaluate(layers[c]).policy.monitor = "no" /\ c \in Cand
          BY <1>1, <2>1, <4>1 DEF Opted
        <5>2. layers'[c] = layers[c]
          BY <3>2, <3>3, <5>1
        <5>3. QED
          BY <5>1, <5>2
      <4>2. CASE c \notin touched
        <5>1. c = c0 /\ Evaluate(l).policy.monitor = "no"
          BY <3>1, <3>5, <4>2
        <5>2. QED
          BY <3>2, <3>3, <5>1
      <4>3. QED
        BY <4>1, <4>2
    <3>6. QED
      BY <3>4, <3>5 DEF Opted
  <2>5. QED
    BY <1>5, <2>3, <2>4 DEF Report, Update
<1>6. CASE Prune \/ End
  <2>1. pass'.phase # "serve"
    BY <1>6, PrunePass, EndPass
  <2>2. \A c \in Cand : layers'[c] \in {layers[c], <<>>}
    <3>1. CASE Prune
      BY <1>1, <3>1, PrunePass
    <3>2. CASE End
      BY <3>2 DEF End
    <3>3. QED
      BY <1>6, <3>1, <3>2
  <2>3. QED
    BY <1>1, <2>1, <2>2 DEF Opted, In
<1>7. QED
  BY <1>2, <1>3, <1>4, <1>5, <1>6 DEF Next

\* Everyone that was enabled is pruned, one after the other, and while that goes
\* on nobody takes a snapshot.
LEMMA PrunedStep ==
  ASSUME TypeOK, PrunedAfterUpdates, [Next]_vars
  PROVE  PrunedAfterUpdates'
<1>1. /\ snaps \in [Cand -> Nat] /\ pass \in PassState /\ Keep \in Nat
      /\ \A c \in pass.enabled : c \in Cand
  BY BoundsAssumption DEF TypeOK, PassState
<1>2. CASE Check \/ Shutdown \/ UNCHANGED vars
  <2>1. pass' = pass /\ snaps' = snaps
    BY <1>2 DEF Check, Shutdown, vars, passVars
  <2>2. QED
    BY <2>1 DEF PrunedAfterUpdates, In
<1>3. CASE \/ Select \/ Arrange \/ Start \/ Busy \/ Report \/ Update \/ Stop \/ End
  <2>1. pass'.phase # "prune"
    <3>1. CASE Busy \/ Report \/ Update
      <4>1. pass'.phase = pass.phase /\ pass.phase = "serve"
        BY <1>1, <3>1 DEF Busy, Report, Update, Done, In, PassState
      <4>2. QED
        BY <4>1
    <3>2. QED
      BY <1>3, <3>1, SelectPass, ArrangePass, StartPass, StopPass, EndPass
  <2>2. QED
    BY <2>1 DEF PrunedAfterUpdates, In
<1>4. CASE StartPruning
  BY <1>4, StartPruningPass DEF PrunedAfterUpdates
<1>5. CASE Prune
  <2>1. PICK c \in Cand :
          /\ pass'.phase = "prune" /\ pass'.enabled = pass.enabled /\ pass'.updated = pass.updated
          /\ pass'.unpruned = pass.unpruned \ {c}
          /\ \/ /\ snaps' = [snaps EXCEPT ![c] = IF @ > Keep THEN Keep ELSE @]
                /\ pass'.spoilt = pass.spoilt
             \/ /\ snaps' = snaps
                /\ pass'.spoilt = pass.spoilt \cup {c}
    BY <1>5, PrunePass
  <2>2. ASSUME pass.updated, NEW d \in pass.enabled, d \notin pass'.unpruned \cup pass'.spoilt
        PROVE  snaps'[d] <= Keep
    <3>1. CASE d = c
      <4>1. snaps' = [snaps EXCEPT ![c] = IF @ > Keep THEN Keep ELSE @]
        BY <2>1, <2>2, <3>1
      <4>2. QED
        BY <1>1, <3>1, <4>1
    <3>2. CASE d # c
      <4>1. d \in pass.enabled \ (pass.unpruned \cup pass.spoilt) /\ snaps'[d] = snaps[d]
        BY <1>1, <2>1, <2>2, <3>2
      <4>2. pass.phase = "prune"
        BY <1>5 DEF Prune, In
      <4>3. QED
        BY <2>2, <4>1, <4>2 DEF PrunedAfterUpdates, In
    <3>3. QED
      BY <3>1, <3>2
  <2>3. QED
    BY <2>1, <2>2 DEF PrunedAfterUpdates
<1>6. QED
  BY <1>2, <1>3, <1>4, <1>5 DEF Next

\* The inductive invariant of the daemon.
IInv == ChecksIInv /\ PassInv

LEMMA IInvStep == IInv /\ [Next]_vars => IInv'
<1> SUFFICES ASSUME ChecksIInv, PassInv, [Next]_vars
             PROVE  ChecksIInv' /\ PassInv'
  BY DEF IInv
<1>1. ChecksIInv' /\ ChecksTypeOK'
  BY StepOfChecks, ChecksInvStep DEF ChecksIInv
<1>2. TypeOK' /\ Phases'
  BY <1>1, ShapeStep DEF PassInv
<1>3. DependenciesFirst' /\ NoneForgotten' /\ Opted' /\ PrunedAfterUpdates'
  BY OrderStep, OptedStep, PrunedStep DEF PassInv
<1>4. QED
  BY <1>1, <1>2, <1>3 DEF PassInv

LEMMA IInvHolds == Spec => []IInv
<1>1. Init => IInv
  BY PassInvInit, ChecksInvInit DEF Init, IInv
<1>2. QED
  BY <1>1, IInvStep, PTL DEF Spec

-----------------------------------------------------------------------------
(* Theorems *)

\* The types of a daemon's state: whoever is updated, or still to be, has been
\* selected as enabled (daemonPass in cli/daemon.go).
THEOREM TypeCorrect == Spec => []TypeOK
<1>1. IInv => TypeOK
  BY DEF IInv, PassInv
<1>2. QED
  BY <1>1, IInvHolds, PTL

\* In each pass what a container depends on is updated before it, whatever its
\* compose project looks like and whatever is enabled of it (update/order.go).
THEOREM DependenciesComeFirst == Spec => []DependenciesFirst
<1>1. IInv => DependenciesFirst
  BY DEF IInv, PassInv
<1>2. QED
  BY <1>1, IInvHolds, PTL

\* No dependency, on itself or on something that there is not, costs a container
\* its turn (order.go:53-81).
THEOREM NobodyIsForgotten == Spec => []NoneForgotten
<1>1. IInv => NoneForgotten
  BY DEF IInv, PassInv
<1>2. QED
  BY <1>1, IInvHolds, PTL

\* Whatever is updated is so by the last word on it, for any number of rules
\* and whatever they set (evaluate in discover/select.go).
THEOREM UpdatesAreWanted == Spec => []OptInOnly
<1>1. ASSUME PassInv, In("serve"), NEW c \in touched
      PROVE  LET says(i, setting, v) == setting \in DOMAIN layers[c][i] /\ layers[c][i][setting] = v
                 lastWord(setting, v, w) ==
                   \E i \in DOMAIN layers[c] : /\ says(i, setting, v)
                      /\ \A j \in DOMAIN layers[c] : j > i => ~says(j, setting, w)
             IN  lastWord("enable", "yes", "no") /\ ~lastWord("monitor", "yes", "no")
  <2> DEFINE l == layers[c]
             n == Len(l)
             v(s) == Evaluate(l).policy[s]
  <2>1. /\ l \in Seq(Layer) \ {<<>>} /\ v("enable") = "yes" /\ v("monitor") = "no"
        /\ n \in Nat /\ n # 0 /\ DOMAIN l = 1 .. n
    <3>1. /\ layers \in [Cand -> Layers \cup {<<>>}] /\ c \in Cand /\ l # <<>>
          /\ Evaluate(l).policy.enable = "yes" /\ Evaluate(l).policy.monitor = "no"
      BY <1>1 DEF PassInv, TypeOK, Opted, PassState
    <3>2. l \in Seq(Layer) \ {<<>>}
      BY <3>1, LayersAssumption
    <3> HIDE DEF l
    <3>3. QED
      BY <3>1, <3>2
  <2>2. \A s \in Settings : IF s \in DOMAIN l[n] /\ l[n][s] \in Values(s) THEN v(s) = l[n][s]
                            ELSE Says(l, n - 1, s, v(s))
    BY <2>1, LastWord
  <2> HIDE DEF l, n, v
  <2>3. \A j \in 1 .. n : j = n \/ j \in 1 .. n - 1
    BY <2>1
  <2>4. 1 .. n - 1 \subseteq 1 .. n /\ n \in 1 .. n /\ \A j \in 1 .. n : ~(j > n)
    BY <2>1
  <2>5. /\ "enable" \in Settings /\ Values("enable") = {"yes", "no"} /\ Defaults["enable"] = "no"
        /\ "monitor" \in Settings /\ Values("monitor") = {"yes", "no"} /\ Defaults["monitor"] = "no"
    BY DEF Settings, Values, Defaults
  <2>6. \E i \in 1 .. n : /\ "enable" \in DOMAIN l[i] /\ l[i]["enable"] = "yes"
                         /\ \A j \in 1 .. n : j > i => ~("enable" \in DOMAIN l[j] /\ l[j]["enable"] = "no")
    <3>1. CASE "enable" \in DOMAIN l[n] /\ l[n]["enable"] \in {"yes", "no"}
      BY <2>1, <2>2, <2>4, <2>5, <3>1
    <3>2. CASE ~("enable" \in DOMAIN l[n] /\ l[n]["enable"] \in {"yes", "no"})
      <4>1. Says(l, n - 1, "enable", "yes")
        BY <2>1, <2>2, <2>5, <3>2
      <4>2. QED
        BY <2>3, <2>4, <2>5, <3>2, <4>1 DEF Says
    <3>3. QED
      BY <3>1, <3>2
  <2>7. ASSUME NEW i \in 1 .. n, "monitor" \in DOMAIN l[i], l[i]["monitor"] = "yes",
               \A j \in 1 .. n : j > i => ~("monitor" \in DOMAIN l[j] /\ l[j]["monitor"] = "no")
        PROVE  FALSE
    <3>1. CASE "monitor" \in DOMAIN l[n] /\ l[n]["monitor"] \in {"yes", "no"}
      <4>1. l[n]["monitor"] = "no"
        BY <2>1, <2>2, <2>5, <3>1
      <4>2. i = n \/ n > i
        BY <2>1
      <4>3. QED
        BY <2>4, <2>7, <3>1, <4>1, <4>2
    <3>2. CASE ~("monitor" \in DOMAIN l[n] /\ l[n]["monitor"] \in {"yes", "no"})
      <4>1. Says(l, n - 1, "monitor", "no")
        BY <2>1, <2>2, <2>5, <3>2
      <4>2. i \in 1 .. n - 1
        BY <2>3, <2>7, <3>2
      <4>3. PICK k \in 1 .. n - 1 : /\ "monitor" \in DOMAIN l[k] /\ l[k]["monitor"] = "no"
                                   /\ \A j \in 1 .. n - 1 : j > k => "monitor" \notin DOMAIN l[j]
        BY <2>7, <4>1, <4>2 DEF Says
      <4>4. k = i \/ k > i \/ i > k
        BY <4>2, <4>3
      <4>5. QED
        BY <2>4, <2>7, <4>2, <4>3, <4>4
    <3>3. QED
      BY <3>1, <3>2
  <2>8. QED
    BY <2>1, <2>6, <2>7 DEF l
<1>2. IInv => OptInOnly
  BY <1>1 DEF IInv, OptInOnly
<1>3. QED
  BY <1>2, IInvHolds, PTL

\* A pass that updates something takes whatever it had enabled back to what is
\* kept, for any number of containers and of passes before it, or says that it
\* could not (daemon.go:202-217).
THEOREM UpdatesArePruned == Spec => []PrunedAfterUpdates
<1>1. IInv => PrunedAfterUpdates
  BY DEF IInv, PassInv
<1>2. QED
  BY <1>1, IInvHolds, PTL

\* To the credentials the daemon's life is CheckAll after CheckAll with the same
\* RegistryAuth (daemon.go:70): nothing in between touches it.
LEMMA PassesAreChecks == Spec => ChecksSpec
<1>1. Init => ChecksInit
  BY DEF Init
<1>2. QED
  BY <1>1, StepOfChecks, PTL DEF Spec, ChecksSpec

\* So what the checks make sure of within one CheckAll holds for as long as the
\* daemon lives (daemon.go:70, check.go:127-143).
THEOREM ChecksOfPassesHold == Spec => [](FallbackSparing /\ DeniedForCause)
  BY PassesAreChecks, KomodoIsAskedSparingly, DenialsHaveACause, PTL
=============================================================================
