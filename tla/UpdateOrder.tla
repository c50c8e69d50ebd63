----------------------------- MODULE UpdateOrder -----------------------------
(***************************************************************************)
(* Order of update/order.go: within a compose project, a service before    *)
(* those that depend on it.  Containers are numbered in the order of their *)
(* names, projects and services are numbers with 0 for none, and a fleet   *)
(* says of each container                                                  *)
(*   project, service   what its compose labels say it is                  *)
(*   deps               the services it depends on, in the label's order   *)
(***************************************************************************)
EXTENDS Iteration, Sequences, FiniteSets, SequencesExt

Label == [project : Nat, service : Nat, deps : Seq(Nat)]

\* The containers, or the projects, in the order of their names.
Ascending(S) ==
  CHOOSE q \in [1 .. Cardinality(S) -> S] : \A i, j \in DOMAIN q : i < j => q[i] < q[j]

InProject(S, fleet, p) == {c \in S : fleet[c].project = p}

\* byService: of the containers of one service the last one counts.
LastOf(S, fleet, s) ==
  LET ofService == {c \in S : fleet[c].service = s} IN
    IF s = 0 \/ ofService = {} THEN 0
    ELSE CHOOSE c \in ofService : \A d \in ofService : d <= c

\* A walk is the containers put in order so far and the services it has been
\* to, whether it is through with them or still at what they depend on.
Walk(S) == [out : Seq(S), seen : SUBSET Nat]

\* visit[d] is what a visit to d does to a walk.
VisitDeps(visit, c, S, fleet, walk) ==
  LET deps == fleet[c].deps
      next(d) == [w \in Walk(S) |-> IF d \in {0, c} THEN w ELSE visit[d][w]]
  IN  Iterate([i \in DOMAIN deps |-> next(LastOf(S, fleet, deps[i]))], walk, Len(deps))

\* Mutant: a container is put in order before what it depends on.
VisitDown(visit, c, S, fleet, walk) ==
  IF fleet[c].service \in walk.seen THEN walk
  ELSE VisitDeps(visit, c, S, fleet, [out |-> Append(walk.out, c),
                                      seen |-> walk.seen \cup ({fleet[c].service} \ {0})])

\* Mutant: a container without a service is taken for one of a service seen before.
VisitUnnamed(visit, c, S, fleet, walk) ==
  IF fleet[c].service \in walk.seen THEN walk
  ELSE LET below == VisitDeps(visit, c, S, fleet, [walk EXCEPT !.seen = @ \cup {fleet[c].service}]) IN
         [below EXCEPT !.out = Append(@, c)]

Visit(visit, c, S, fleet, walk) ==
  CASE fleet[c].service = 0 -> [walk EXCEPT !.out = Append(@, c)]
    [] fleet[c].service # 0 /\ fleet[c].service \in walk.seen -> walk
    [] OTHER ->
         LET below == VisitDeps(visit, c, S, fleet, [walk EXCEPT !.seen = @ \cup {fleet[c].service}]) IN
           [below EXCEPT !.out = Append(@, c)]

\* The visits that go down n times at most.  Each level is at another service:
\* below as many as there are containers there is none left to be seen.
Visits(S, fleet) ==
  LET visits[n \in 0 .. Cardinality(S)] ==
        [c \in S |-> [w \in Walk(S) |-> IF n = 0 THEN w ELSE Visit(visits[n - 1], c, S, fleet, w)]]
  IN  visits[Cardinality(S)]

OrderProject(S, fleet) ==
  LET sorted == Ascending(S)
  IN  Iterate([i \in DOMAIN sorted |-> Visits(S, fleet)[sorted[i]]],
              [out |-> <<>>, seen |-> {}], Len(sorted)).out

\* The projects by their names, then what belongs to none.
Order(S, fleet) ==
  LET projects == Ascending({fleet[c].project : c \in S} \ {0})
      next(p) == [q \in Seq(S) |-> q \o OrderProject(InProject(S, fleet, p), fleet)]
  IN  Iterate([i \in DOMAIN projects |-> next(projects[i])], <<>>, Len(projects))
        \o Ascending(InProject(S, fleet, 0))

-----------------------------------------------------------------------------
(* What an order promises *)

\* c depends on d: d is of a service that the label of c names.
DependsOn(c, d, fleet) ==
  /\ fleet[c].project # 0 /\ fleet[c].project = fleet[d].project
  /\ fleet[c].service # 0 /\ fleet[d].service # 0
  /\ fleet[d].service \in ToSet(fleet[c].deps)

\* c depends on d over any number of hops: d is in each set that has c and what
\* its elements depend on.
DependsInTurn(c, d, S, fleet) ==
  \A T \in SUBSET S :
    c \in T /\ (\A x \in T, y \in S : DependsOn(x, y, fleet) => y \in T) => d \in T

Before(q, c, d) == \E i, j \in DOMAIN q : i < j /\ q[i] = c /\ q[j] = d

\* What a container depends on comes first, unless that depends on it in turn.
DependenciesFirstIn(q, S, fleet) ==
  \A c, d \in ToSet(q) :
    DependsOn(c, d, fleet) => Before(q, d, c) \/ DependsInTurn(d, c, S, fleet)

\* One container of each service, and all that are of none, once each.
ServesEachService(q, S, fleet) ==
  /\ q \in Seq(S) /\ IsInjective(q)
  /\ \A c \in S \ ToSet(q) :
       \E d \in ToSet(q) : /\ fleet[c].project # 0 /\ fleet[c].service # 0
                           /\ fleet[d].project = fleet[c].project
                           /\ fleet[d].service = fleet[c].service
=============================================================================
