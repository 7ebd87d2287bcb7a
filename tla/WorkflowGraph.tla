--------------------------- MODULE WorkflowGraph ---------------------------
(***************************************************************************)
(* The static graph of a compiled workflow: what GraphIR and LoopRegionIR  *)
(* of src/autoagent/core/compiler/ mean, defined from paths.  The algorithm*)
(* that computes them is LoopCompiler; the runtime that reads them is      *)
(* Scheduler.                                                              *)
(*                                                                         *)
(* A graph g has g.nodes, a sequence without repetition (the insertion     *)
(* order of the node dictionary), and g.edges, a sequence of records with  *)
(* the fields from and to.  An edge is named by its position.              *)
(***************************************************************************)
EXTENDS Integers, Sequences, FiniteSets, SequencesExt

NodeSet(g) == Range(g.nodes)
EdgeIds(g) == DOMAIN g.edges
Position(g, n) == CHOOSE k \in DOMAIN g.nodes : g.nodes[k] = n

Outgoing(g, n) == {e \in EdgeIds(g) : g.edges[e].from = n}
Incoming(g, n) == {e \in EdgeIds(g) : g.edges[e].to = n}
IdsInOrder(g, S) == SelectSeq([e \in EdgeIds(g) |-> e], LAMBDA e : e \in S)

EntryNodes(g) == {n \in NodeSet(g) : Incoming(g, n) = {}}
ExitNodes(g) == {n \in NodeSet(g) : Outgoing(g, n) = {}}

(* The nodes on the paths that start in S and stay in the set allowed.     *)
ReachableWithin(g, S, allowed) ==
  LET reach[k \in 0 .. Len(g.nodes)] ==
        IF k = 0 THEN S \cap allowed
        ELSE LET known == reach[k - 1] IN
             known \cup {n \in allowed : \E e \in EdgeIds(g) :
                          g.edges[e].from \in known /\ g.edges[e].to = n}
  IN  reach[Len(g.nodes)]

Reachable(g) == ReachableWithin(g, EntryNodes(g), NodeSet(g))

(* d is on every path from an entry to n.                                  *)
Dominates(g, d, n) ==
  \/ d = n
  \/ n \notin ReachableWithin(g, EntryNodes(g), NodeSet(g) \ {d})

BackEdges(g) ==
  {e \in EdgeIds(g) : /\ g.edges[e].from \in Reachable(g)
                      /\ Dominates(g, g.edges[e].to, g.edges[e].from)}
Headers(g) == {g.edges[e].to : e \in BackEdges(g)}

(* The natural loop of a header: it and the nodes with a path to one of    *)
(* its back edges that avoids it.                                          *)
LoopNodes(g, h) ==
  {h} \cup {n \in NodeSet(g) \ {h} :
              \E e \in BackEdges(g) :
                /\ g.edges[e].to = h
                /\ g.edges[e].from \in
                     ReachableWithin(g, {n}, NodeSet(g) \ {h})}

(* LoopRegionIR.  A region is named by its header, of which it has one.    *)
LoopRegion(g, h) ==
  LET inside == LoopNodes(g, h) IN
  [nodes |-> inside,
   entries |-> {e \in EdgeIds(g) : /\ g.edges[e].from \notin inside
                                   /\ g.edges[e].to \in inside},
   back |-> {e \in BackEdges(g) : g.edges[e].to = h},
   exits |-> {e \in EdgeIds(g) : /\ g.edges[e].from \in inside
                                 /\ g.edges[e].to \notin inside},
   depth |-> Cardinality({o \in Headers(g) \ {h} : h \in LoopNodes(g, o)
                                  /\ inside \subseteq LoopNodes(g, o)})]

(* node_loop_stacks: the loops around a node, the outermost first.         *)
LoopStack(loops, n) ==
  SetToSortSeq({h \in DOMAIN loops : n \in loops[h].nodes},
               LAMBDA a, b : loops[a].depth < loops[b].depth)

(* A workflow as the runtime sees it: the graph and its loops.             *)
Compiled(g) ==
  LET loops == [h \in Headers(g) |-> LoopRegion(g, h)] IN
  [nodes |-> g.nodes, edges |-> g.edges, loops |-> loops,
   stack |-> [n \in NodeSet(g) |-> LoopStack(loops, n)]]
=============================================================================
