------------------------- MODULE WorkflowExpansion -------------------------
(***************************************************************************)
(* expand_child_workflows of src/autoagent/core/compiler/expansion.py: the *)
(* workflows bound to nodes are flattened into the one that binds them,    *)
(* before anything else is compiled.                                       *)
(*                                                                         *)
(* flows maps a name to a workflow, a record of a sequence of nodes and a  *)
(* sequence of edges; a node whose binding has the kind "workflow" is a    *)
(* placeholder for flows[binding.id].  An id is the sequence of the names  *)
(* between its slashes, <<>> stands for None.  Edges name their nodes by   *)
(* id (by object comes to the same where the ids of a workflow differ),    *)
(* and an edge without an id gets a fresh one.                             *)
(***************************************************************************)
EXTENDS Integers, Sequences, FiniteSets, SequencesExt

Unset == <<>>
IdsOf(nodes) == {nodes[k].id : k \in DOMAIN nodes}
IsPlaceholder(n) == n.binding.kind = "workflow"
ErrorIf(condition, code) == IF condition THEN {code} ELSE {}

(* _resolve_endpoint: an id that is no node of the workflow stays as it is.*)
Endpoint(ends, id) == IF id \in DOMAIN ends THEN ends[id] ELSE id

(* The nodes on paths from one of S.                                       *)
Onwards(S, nodes, edges) ==
  LET reach[k \in 0 .. Len(nodes)] ==
        IF k = 0 THEN S
        ELSE LET known == reach[k - 1] IN
             known \cup {edges[e].to :
                          e \in {f \in DOMAIN edges : edges[f].from \in known \cap IdsOf(nodes)}}
  IN  reach[Len(nodes)]

(* _select_boundary: the boundary chosen, in a set of at most one, and the *)
(* diagnostic if there is none.                                            *)
Chosen(selector, ends) ==
  IF selector # Unset THEN {ends[i] : i \in {selector} \cap DOMAIN ends}
  ELSE IF Cardinality(DOMAIN ends) = 1 THEN Range(ends) ELSE {}
BoundaryErrors(codes, selector, ends) ==
  ErrorIf(Chosen(selector, ends) = {},
    IF selector # Unset THEN codes.invalid
    ELSE IF ends = <<>> THEN codes.missing ELSE codes.required)
EntryCodes == [invalid |-> "SUBWORKFLOW_ENTRY_INVALID",
               missing |-> "SUBWORKFLOW_ENTRY_MISSING",
               required |-> "SUBWORKFLOW_ENTRY_REQUIRED"]
ExitCodes == [invalid |-> "SUBWORKFLOW_EXIT_INVALID",
              missing |-> "SUBWORKFLOW_EXIT_MISSING",
              required |-> "SUBWORKFLOW_EXIT_REQUIRED"]

(* What a child placeholder may not define.                                *)
Behaves(n) == n.mapping \/ n.hooks \/ n.policy.given

(* The ends of the nodes that have one, by the id they have in their       *)
(* workflow; the first of two nodes with the same id counts.               *)
Ends(nodes, sides) ==
  LET known == {k \in DOMAIN nodes : sides[k] # {}} IN
  [i \in {nodes[k].id : k \in known} |->
     CHOOSE x \in sides[Min({k \in known : nodes[k].id = i})] : TRUE]

RestrictTo(ends, ids) == [i \in {j \in DOMAIN ends : ends[j] \in ids} |-> ends[i]]
TargetsOf(edges) == {edges[e].to : e \in DOMAIN edges}
SourcesOf(edges) == {edges[e].from : e \in DOMAIN edges}

(* A node of the workflow itself: its id is qualified with the path.       *)
Cloned(n, path) ==
  [nodes |-> <<[n EXCEPT !.id = path \o @] @@ [path |-> path]>>,
   edges |-> <<>>, in |-> {path \o n.id}, out |-> {path \o n.id},
   errors |-> ErrorIf(n.entryBy # Unset \/ n.exitBy # Unset,
                      "SUBWORKFLOW_SELECTOR_INVALID")]

(* Wrong: the nodes that the entry does not lead to stay.                  *)
SelectedAll(x, entry) == entry \cup IdsOf(x.nodes)

(* _expand_child_node: the nodes of an expansion the entry leads to.       *)
SelectedIds(x, entry) == Onwards(entry, x.nodes, x.edges)

(* What is left of the expansion x of a child, embedded for placeholder n. *)
Selected(x, n, entry, exit) ==
  LET ids == SelectedIds(x, entry) \cap IdsOf(x.nodes) IN
  [nodes |-> [k \in DOMAIN x.nodes |->
     [x.nodes[k] EXCEPT !.entry = x.nodes[k].id \in entry /\ n.entry,
                        !.scope = RestrictTo(@, ids)]],
   edges |-> [k \in DOMAIN x.edges |-> [x.edges[k] EXCEPT !.scope = RestrictTo(@, ids)]],
   in |-> entry, out |-> exit]

RECURSIVE Expand(_, _, _, _)

(* _expand_child_node.  A child without both boundaries leaves nothing.    *)
Embedded(flows, n, path, stack) ==
  LET x == Expand(flows, n.binding.id, path \o n.id, stack)
      entry == Chosen(n.entryBy, x.entries)
      ids == SelectedIds(x, entry)
      exits == RestrictTo(x.exits, ids)
      exit == Chosen(n.exitBy, exits)
      kept == Selected(x, n, entry, exit)
  IN
  [nodes |-> IF exit = {} THEN <<>> ELSE SelectSeq(kept.nodes, LAMBDA m : m.id \in ids),
   edges |-> IF exit = {} THEN <<>> ELSE SelectSeq(kept.edges, LAMBDA e : e.from \in ids),
   in |-> IF exit = {} THEN {} ELSE entry,
   out |-> exit,
   errors |-> ErrorIf(Behaves(n), "SUBWORKFLOW_NODE_BEHAVIOR_UNSUPPORTED")
     \cup x.errors
     \cup BoundaryErrors(EntryCodes, n.entryBy, x.entries)
     \cup (IF entry = {} THEN {} ELSE BoundaryErrors(ExitCodes, n.exitBy, exits))]

(* _expand: workflow w of flows under a path, inside the workflows of the  *)
(* stack.  entries and exits are the boundaries it offers to a placeholder.*)
Expand(flows, w, path, stack) ==
  LET nodes == flows[w].nodes
      edges == flows[w].edges
      part(n) == IF IsPlaceholder(n) THEN Embedded(flows, n, path, Append(stack, w))
                 ELSE Cloned(n, path)
      parts == FoldLeft(LAMBDA before, n : Append(before, part(n)), <<>>, nodes)
      ins == Ends(nodes, [k \in DOMAIN nodes |-> parts[k].in])
      outs == Ends(nodes, [k \in DOMAIN nodes |-> parts[k].out])
      scope == [i \in {j \in DOMAIN outs : outs[j] # j} |-> outs[i]]
      allNodes == FlattenSeq([k \in DOMAIN nodes |->
                    [m \in DOMAIN parts[k].nodes |->
                       IF IsPlaceholder(nodes[k]) THEN parts[k].nodes[m]
                       ELSE [scope |-> scope] @@ parts[k].nodes[m]]])
      allEdges == FlattenSeq([k \in DOMAIN nodes |-> parts[k].edges])
        \o [e \in DOMAIN edges |->
              [path |-> path, scope |-> scope] @@
              [edges[e] EXCEPT !.id = IF @ = Unset THEN Unset ELSE path \o @,
                               !.from = Endpoint(outs, @), !.to = Endpoint(ins, @)]]
      mapsChild(e) == e.map /\ \E k \in DOMAIN nodes : nodes[k].id = e.to /\ IsPlaceholder(nodes[k])
      entered(n) == n.entry /\ n.id \in TargetsOf(allEdges)
  IN
  IF w \in Range(stack)
  THEN [nodes |-> <<>>, edges |-> <<>>, entries |-> <<>>, exits |-> <<>>,
        errors |-> {"SUBWORKFLOW_RECURSION"}]
  ELSE
    [nodes |-> allNodes, edges |-> allEdges,
     entries |-> RestrictTo(ins, IdsOf(allNodes) \ TargetsOf(allEdges)),
     exits |-> RestrictTo(outs, IdsOf(allNodes) \ SourcesOf(allEdges)),
     errors |-> UNION {parts[k].errors : k \in DOMAIN nodes}
       \cup ErrorIf(\E e \in DOMAIN edges : mapsChild(edges[e]), "SUBWORKFLOW_MAP_UNSUPPORTED")
       \cup ErrorIf(path # <<>> /\ \E k \in DOMAIN allNodes : entered(allNodes[k]), "WF_ENTRY_HAS_INCOMING_EDGE")]

(* expand_child_workflows.                                                 *)
Expanded(flows, root) == Expand(flows, root, <<>>, <<>>)
=============================================================================
