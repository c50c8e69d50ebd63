---------------------------- MODULE MCDaemonPass ----------------------------
(* Bounds for the runs of DaemonPass. *)
EXTENDS DaemonPass

Three == 1 .. 3
\* Two private registries and, for the third container, a public one or another
\* account with the first.
Domains == {"one", "two"}
Origins == <<"one", "two", "one">>
Private == {<<{"account"}, {"account"}, {"own", "account"}>>,
            <<{"own"}, {"account"}, {}>>,
            <<{"own"}, {"own"}, {"own"}>>}

\* One project with three services that depend on each other in any way, with
\* one of them scaled, with some that are of no service or no project.
Compose(service, deps) == [c \in Three |-> [project |-> 1, service |-> service[c], deps |-> deps[c]]]
Some(s) == {<<>>, <<s>>}
Projects ==
  {Compose(<<1, 2, 3>>, d) : d \in [Three -> {<<>>, <<2>>, <<3, 1>>}]}
    \cup {Compose(<<1, 2, 1>>, <<x, y, x>>) : x \in Some(2), y \in Some(1)}
    \cup {Compose(<<0, 2, 0>>, <<<<>>, <<>>, <<>>>>)}
    \cup {[Compose(<<2, 0, 1>>, <<x, <<>>, <<>>>>) EXCEPT ![2].project = 0] : x \in Some(1)}

Silent == << >>
Says(enable, monitor) == [enable |-> enable, monitor |-> monitor]
Stacks ==
  {<<Silent, Silent, [enable |-> "yes"]>>,
   <<Says("no", "yes"), Silent, [enable |-> "yes", monitor |-> "bad"]>>,
   <<[enable |-> "yes"], [monitor |-> "yes", retain |-> "none"], Says("bad", "no")>>,
   <<Silent, Says("yes", "no"), [enable |-> "no"]>>}
=============================================================================
