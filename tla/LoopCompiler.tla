---------------------------- MODULE LoopCompiler ----------------------------
(***************************************************************************)
(* _compile_loop_regions of src/autoagent/core/compiler/compiler.py: from  *)
(* the nodes and edges of a workflow to its loop regions, or to one        *)
(* diagnostic.  Each stage of the method is an action; an iteration of the *)
(* dominator fixpoint is one as well.  WorkflowGraph says, from paths,     *)
(* what the result has to be; WorkflowCompiler is the rest of compile.     *)
(***************************************************************************)
EXTENDS WorkflowGraph, FiniteSetsExt

VARIABLES
  graph,        \* nodes and edges
  reachable,    \* nodes on a path from an entry
  phase,        \* the stage of compile to run next
  dominators,
  candidates,   \* the natural loops found, by header
  regions,      \* loop_regions
  errors        \* the codes of the Diagnostics

loopVars == <<graph, reachable, dominators, candidates, regions>>

LoopErrors == {"LOOP_ENTRY_INVALID", "LOOP_IRREDUCIBLE", "LOOP_OVERLAP_INVALID"}

Predecessors(g, n) == {g.edges[e].from : e \in Incoming(g, n)}

(* The edges whose target dominates their source, by the computed sets.    *)
DominanceBackEdges ==
  {e \in EdgeIds(graph) :
     /\ {graph.edges[e].from, graph.edges[e].to} \subseteq reachable
     /\ graph.edges[e].to \in dominators[graph.edges[e].from]}

(* The values the method starts from.                                      *)
Prepare(g) ==
  /\ graph' = g
  /\ reachable' = Reachable(g)
  /\ dominators' = [n \in NodeSet(g) |-> IF n \in EntryNodes(g) THEN {n} ELSE Reachable(g)]
  /\ candidates' = <<>> /\ regions' = <<>>

(* One node of a pass of the while loop, with the sets updated so far.     *)
Updated(dom, n) ==
  LET known == Predecessors(graph, n) \cap reachable IN
  IF n \notin reachable \/ n \in EntryNodes(graph) THEN dom
  ELSE [dom EXCEPT ![n] =
          {n} \cup {d \in NodeSet(graph) :
                      known # {} /\ \A p \in known : d \in dom[p]}]

Dominate ==
  LET sweep[k \in 0 .. Len(graph.nodes)] ==
        IF k = 0 THEN dominators
        ELSE LET before == sweep[k - 1] IN Updated(before, graph.nodes[k])
      pass == sweep[Len(graph.nodes)]
  IN
  /\ phase = "dominators"
  /\ dominators' = pass
  /\ phase' = IF pass = dominators THEN "entries" ELSE "dominators"
  /\ UNCHANGED <<graph, reachable, candidates, regions, errors>>

(* The cyclic strongly connected components, unreachable ones included.    *)
Component(n) ==
  {m \in ReachableWithin(graph, {n}, NodeSet(graph)) :
     n \in ReachableWithin(graph, {m}, NodeSet(graph))}
Cycles ==
  {C \in {Component(n) : n \in NodeSet(graph)} :
     \E e \in EdgeIds(graph) : {graph.edges[e].from, graph.edges[e].to} \subseteq C}

EntryTargets(C) ==
  {graph.edges[e].to : e \in {f \in EdgeIds(graph) :
     graph.edges[f].from \notin C /\ graph.edges[f].to \in C}}
  \cup (EntryNodes(graph) \cap C)

(* A stage that ends the method with a Diagnostic, or hands over to the    *)
(* next one.                                                               *)
Stage(from, ok, code, to) ==
  /\ phase = from
  /\ phase' = IF ok THEN to ELSE "policies"
  /\ errors' = IF ok THEN errors ELSE errors \cup {code}

CheckEntries ==
  /\ Stage("entries", \A C \in Cycles : Cardinality(EntryTargets(C)) <= 1,
           "LOOP_ENTRY_INVALID", "acyclic")
  /\ UNCHANGED <<graph, reachable, dominators, candidates, regions>>

(* The nodes that a topological sort without the back edges visits.        *)
Visited ==
  LET forward == EdgeIds(graph) \ DominanceBackEdges
      done[k \in 0 .. Len(graph.nodes)] ==
        IF k = 0 THEN {}
        ELSE LET pending == reachable \ done[k - 1] IN
             {n \in reachable :
                \A e \in forward \cap Incoming(graph, n) :
                  graph.edges[e].from \notin pending}
  IN  done[Len(graph.nodes)]

(* Wrong: a region without a dominating header passes.                     *)
CheckNothing ==
  /\ Stage("acyclic", TRUE, "LOOP_IRREDUCIBLE", "loops")
  /\ UNCHANGED <<graph, reachable, dominators, candidates, regions>>

CheckAcyclic ==
  /\ Stage("acyclic", Visited = reachable, "LOOP_IRREDUCIBLE", "loops")
  /\ UNCHANGED <<graph, reachable, dominators, candidates, regions>>

(* The nodes from which a back edge of h is reached backwards, through     *)
(* predecessors that need not be reachable from an entry.                  *)
Candidate(h) ==
  LET sources == {graph.edges[e].from :
                    e \in {f \in DominanceBackEdges : graph.edges[f].to = h}}
      grown[k \in 0 .. Len(graph.nodes)] ==
        IF k = 0 THEN {h} \cup sources
        ELSE LET known == grown[k - 1] IN
             known \cup UNION {Predecessors(graph, n) : n \in known \ {h}}
  IN  grown[Len(graph.nodes)]

FindLoops ==
  /\ phase = "loops" /\ phase' = "overlap"
  /\ candidates' = [h \in {graph.edges[e].to : e \in DominanceBackEdges} |->
                      Candidate(h)]
  /\ UNCHANGED <<graph, reachable, dominators, regions, errors>>

Disjoint(S, T) == S \cap T = {}
Nested(S, T) == S # T /\ (S \subseteq T \/ T \subseteq S)

CheckOverlap ==
  /\ Stage("overlap",
           \A h, o \in DOMAIN candidates :
             h = o \/ Disjoint(candidates[h], candidates[o])
                   \/ Nested(candidates[h], candidates[o]),
           "LOOP_OVERLAP_INVALID", "regions")
  /\ UNCHANGED <<graph, reachable, dominators, candidates, regions>>

(* The parent of a loop is the smallest loop that strictly contains it.    *)
Parents(h) ==
  LET around == {o \in DOMAIN candidates : candidates[h] \subseteq candidates[o]} \ {h}
  IN  {o \in around : \A p \in around :
         Cardinality(candidates[o]) <= Cardinality(candidates[p])}
(* Wrong: only the parent of a loop counts.                                *)
DepthOfParent(h) == Cardinality(Parents(h))

DepthOf(h) ==
  LET up[k \in 0 .. Cardinality(DOMAIN candidates)] ==
        IF k = 0 THEN {h} ELSE UNION {Parents(o) : o \in up[k - 1]}
  IN  Cardinality({k \in DOMAIN up : up[k] # {}}) - 1

Crossing(S) ==
  [entries |-> {e \in EdgeIds(graph) : graph.edges[e].from \notin S /\ graph.edges[e].to \in S},
   exits |-> {e \in EdgeIds(graph) : graph.edges[e].from \in S /\ graph.edges[e].to \notin S}]

WellEntered(h) ==
  /\ \A e \in Crossing(candidates[h]).entries : graph.edges[e].to = h
  /\ EntryNodes(graph) \cap candidates[h] \subseteq {h}

BuildRegions ==
  LET valid == {h \in DOMAIN candidates : WellEntered(h)} IN
  /\ Stage("regions", valid = DOMAIN candidates, "LOOP_ENTRY_INVALID", "policies")
  /\ regions' =
       [h \in valid |->
          [nodes |-> candidates[h],
           entries |-> Crossing(candidates[h]).entries,
           back |-> {e \in DominanceBackEdges : graph.edges[e].to = h},
           exits |-> Crossing(candidates[h]).exits,
           depth |-> DepthOf(h)]]
  /\ UNCHANGED <<graph, reachable, dominators, candidates>>

CompileLoopRegions ==
  \/ Dominate \/ CheckEntries \/ CheckAcyclic \/ FindLoops \/ CheckOverlap
  \/ BuildRegions

-----------------------------------------------------------------------------
(* A workflow is accepted exactly when it is reducible: every set of       *)
(* reachable nodes that is strongly connected by itself has a node that    *)
(* dominates the others.  In particular two natural loops never overlap    *)
(* without nesting, and no entry slips past the header of a loop.  (Cycles *)
(* no entry leads to are looked at by the component stage only.)           *)
StronglyConnected(S) ==
  /\ \E e \in EdgeIds(graph) : {graph.edges[e].from, graph.edges[e].to} \subseteq S
  /\ \A n \in S : S \subseteq ReachableWithin(graph, {n}, S)
Reducible ==
  \A S \in SUBSET reachable :
    StronglyConnected(S) => \E d \in S : \A n \in S : Dominates(graph, d, n)
AcceptsReducible ==
  phase = "policies" =>
    /\ errors \cap LoopErrors = {} => Reducible
    /\ errors \cap LoopErrors # {} /\ reachable = NodeSet(graph) => ~Reducible

(* A node touches the boundary of one loop only, the innermost around it:  *)
(* the runtime finalizes the loops a node touches in the order of a Python *)
(* set.                                                                    *)
BoundaryOf(n, e) ==
  {h \in DOMAIN regions : n \in regions[h].nodes /\ e \in regions[h].back \cup regions[h].exits}
OneBoundaryPerNode ==
  \A n \in NodeSet(graph) : \A e \in Outgoing(graph, n) :
    BoundaryOf(n, e) # {} =>
      \E h \in BoundaryOf(n, e) :
        \A o \in DOMAIN regions : n \in regions[o].nodes => regions[o].depth <= regions[h].depth
=============================================================================
