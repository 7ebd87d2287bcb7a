------------------------- MODULE MCWorkflowCompiler -------------------------
(* The workflows that are compiled: every graph of four nodes that is      *)
(* entered at the first, every graph of three nodes embedded in another    *)
(* workflow, some with faults, and one node whose Operators come and go.   *)
EXTENDS WorkflowCompiler

Callable == [kind |-> "callable", id |-> "none",
             contract |-> [params |-> {}, required |-> {}, open |-> FALSE, known |-> TRUE]]
Bound(kind, id) == [Callable EXCEPT !.kind = kind, !.id = id]
NoPolicy ==
  [given |-> FALSE, selects |-> FALSE, selection |-> DefaultSelection,
   numbers |-> <<>>, replicated |-> FALSE, idempotent |-> FALSE]
Node(name) ==
  [id |-> <<name>>, binding |-> Callable, entry |-> FALSE, entryBy |-> Unset,
   exitBy |-> Unset, mapping |-> FALSE, hooks |-> FALSE, policy |-> NoPolicy]
Child(name, w, entryBy, exitBy) ==
  [Node(name) EXCEPT !.binding = Bound("workflow", w), !.entryBy = entryBy, !.exitBy = exitBy]
Edge(from, to) ==
  [id |-> Unset, from |-> <<from>>, to |-> <<to>>, when |-> "always", map |-> FALSE, width |-> 1]
Workflow(nodes, edges) == [nodes |-> nodes, edges |-> edges]

(* The edges over some names but those to the first.                       *)
PossibleEdges(names) ==
  [k \in 1 .. Len(names) * (Len(names) - 1) |->
     Edge(names[1 + (k - 1) \div (Len(names) - 1)], names[2 + ((k - 1) % (Len(names) - 1))])]
Nodes(names) == [k \in DOMAIN names |-> Node(names[k])]

NoPool == [capabilities |-> <<>>, operators |-> <<>>]
Flows(f) == [flows |-> f, root |-> "main", pool |-> NoPool]

FlatSources ==
  LET names == <<"a", "b", "c", "d">> IN
  {Flows("main" :> Workflow(Nodes(names), SelectSeq(PossibleEdges(names), LAMBDA e : e \in chosen))) :
     chosen \in SUBSET Range(PossibleEdges(names))}

(* Children of three nodes, with any edges between different ones.         *)
Children ==
  LET names == <<"x", "y", "z">>
      every == [k \in 1 .. 9 |-> Edge(names[1 + (k - 1) \div 3], names[1 + ((k - 1) % 3)])]
      proper == {every[k] : k \in {j \in 1 .. 9 : every[j].from # every[j].to}}
  IN {Workflow(Nodes(names), SelectSeq(every, LAMBDA e : e \in chosen)) : chosen \in SUBSET proper}

(* main runs the child, again if it likes, between two nodes of its own,   *)
(* one of which has the name of a node of the child.                       *)
Around(child, entryBy, exitBy) ==
  Flows(("main" :> Workflow(<<Node("a"), Child("m", "child", entryBy, exitBy), Node("x")>>,
                            <<Edge("a", "m"), Edge("m", "m"), Edge("m", "x")>>))
        @@ ("child" :> child))

(* The child twice in a workflow that is itself embedded.                  *)
NestedTwice(child, entryBy, exitBy) ==
  Flows(("main" :> Workflow(<<Child("n", "middle", Unset, Unset), Node("b")>>, <<Edge("n", "b")>>))
        @@ ("middle" :> Workflow(<<Child("m", "child", entryBy, exitBy), Node("a"),
                                   Child("o", "child", entryBy, exitBy)>>,
                                 <<Edge("m", "a"), Edge("a", "o"), Edge("m", "o")>>))
        @@ ("child" :> child))

NestedSources ==
  {Around(c, i, o) : c \in Children, i \in {Unset, <<"x">>, <<"y">>}, o \in {Unset, <<"z">>}}
  \cup {NestedTwice(c, i, o) : c \in Children, i \in {Unset, <<"x">>}, o \in {Unset, <<"z">>}}

(* A line of three nodes, the second of any kind, with one edge of any     *)
(* kind: what the compiler has to refuse, one or two faults at a time.     *)
Policy(p) == p @@ [NoPolicy EXCEPT !.given = TRUE]
NodesOfAnyKind ==
  LET b == Node("b") IN
  {b, [b EXCEPT !.entry = TRUE], [b EXCEPT !.entryBy = <<"x">>], [b EXCEPT !.mapping = TRUE],
   [b EXCEPT !.id = <<"a">>], [b EXCEPT !.id = <<"m", "x">>], [b EXCEPT !.binding = Bound("wait", "w")],
   [b EXCEPT !.binding = Bound("command", "w")], [b EXCEPT !.binding = Bound("capability", "w")],
   [b EXCEPT !.binding = Bound("operator", "w")],
   [b EXCEPT !.binding = Bound("wait", "w"), !.policy = Policy(<<>>)],
   [b EXCEPT !.policy = Policy([replicated |-> TRUE])],
   [b EXCEPT !.policy = Policy([idempotent |-> TRUE])],
   [b EXCEPT !.policy = Policy([selects |-> TRUE])],
   Child("b", "child", Unset, Unset), Child("b", "main", Unset, Unset),
   Child("b", "child", <<"y">>, Unset), Child("b", "child", Unset, <<"x">>),
   [Child("b", "child", Unset, Unset) EXCEPT !.entry = TRUE, !.hooks = TRUE],
   Child("b", "cycle", Unset, Unset), Child("b", "empty", Unset, Unset),
   Child("b", "marked", Unset, Unset), Child("b", "astray", Unset, Unset)}
  \cup {[b EXCEPT !.policy = Policy([numbers |-> f :> LeastValue[f] - 1])] : f \in DOMAIN LeastValue}

EdgesOfAnyKind ==
  LET e == Edge("a", "b") IN
  {e, [e EXCEPT !.when = "text"], [e EXCEPT !.to = <<"m", "x">>], [e EXCEPT !.map = TRUE],
   [e EXCEPT !.map = TRUE, !.width = 0],
   [e EXCEPT !.id = <<"e">>], [e EXCEPT !.from = <<"b">>]}

MixedSources ==
  {Flows(("main" :> Workflow(<<Node("a"), n, Child("m", "child", Unset, Unset)>>,
                             <<e, [Edge("b", "m") EXCEPT !.id = <<"e">>]>> \o back))
         @@ ("child" :> Workflow(<<Node("x"), Node("y")>>, <<Edge("x", "y")>>))
         @@ ("cycle" :> Workflow(<<Node("x"), Node("y")>>, <<Edge("x", "y"), Edge("y", "x")>>))
         @@ ("empty" :> Workflow(<<>>, <<>>))
         @@ ("marked" :> Workflow(<<Node("x"), [Node("y") EXCEPT !.entry = TRUE]>>, <<Edge("x", "y")>>))
         @@ ("astray" :> Workflow(<<Node("x")>>, <<Edge("x", "a")>>))) :
     n \in NodesOfAnyKind, e \in EdgesOfAnyKind, back \in {<<>>, <<Edge("m", "b")>>, <<Edge("m", "a")>>}}

(* One node bound to a capability of up to three Operators, one of which   *)
(* does not take what the others take, and one bound to an Operator alone, *)
(* by reference or as the object; the contracts of the capability and of   *)
(* an Operator may be open or unknown.                                     *)
Contract(params, required) ==
  [params |-> params, required |-> required, open |-> FALSE, known |-> TRUE]
Open(contract) == [contract EXCEPT !.open = TRUE]
Unknown == [Open(Contract({}, {})) EXCEPT !.known = FALSE]
Implementer(order, priority, contract) ==
  [capability |-> "search", contract |-> contract, priority |-> priority,
   order |-> order, enabled |-> order # 3]
Pool(bound, wide) ==
  [capabilities |-> "search" :> bound,
   operators |-> [fast |-> Implementer(1, 0, Contract({"q"}, {"q"})),
                  other |-> Implementer(2, 1, Contract({"p", "q"}, {"p"})),
                  wide |-> Implementer(3, 1, wide),
                  alone |-> [Implementer(4, 0, Contract({}, {})) EXCEPT !.capability = "none"]]]
Selections ==
  [mode : {"default", "priority", "first_available"}, fallback : BOOLEAN,
   preferred : {<<>>, <<"wide", "fast">>}, excluded : {{}, {"other"}, {"alone"}}]

Late(s, kind, bound, wide) ==
  [flows |-> "main" :> Workflow(
      <<[Node("a") EXCEPT !.binding = Bound("capability", "search"),
                          !.policy = Policy([selects |-> TRUE, selection |-> s])],
        [Node("b") EXCEPT !.binding = Bound(kind, "alone")]>>, <<>>),
   root |-> "main", pool |-> Pool(bound, wide)]
LateSources ==
  {Late(s, "operator", bound, Contract({"p", "q"}, {"q"})) :
     s \in Selections, bound \in {NoContract, Contract({"q"}, {"q"})}}
  \cup {Late(DefaultSelection, "object", bound, wide) :
          bound \in {NoContract, Contract({"q"}, {"q"}), Open(Contract({"q"}, {})), Unknown},
          wide \in {Open(Contract({}, {})), Open(Contract({"q"}, {"q"})), Unknown}}

AllSources == FlatSources \cup NestedSources \cup MixedSources \cup LateSources
=============================================================================
