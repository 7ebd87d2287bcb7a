-------------------------- MODULE WorkflowCompiler --------------------------
(***************************************************************************)
(* WorkflowCompiler.compile of src/autoagent/core/compiler/compiler.py,    *)
(* the two registries it reads (core/operators/registry.py) and the        *)
(* OperatorResolver that reads them again whenever a compiled node runs.   *)
(* A stage of compile is an action; applications register and disable      *)
(* Operators between any two of them.                                      *)
(*                                                                         *)
(* A callable bound to a node, a mapping, a hook and a condition is taken  *)
(* to be one the compiler can inspect; of a contract the names of the      *)
(* parameters count: .params, those .required, whether the contract is     *)
(* .open to further ones (allow_extra), and whether it is .known at all    *)
(* (inspectable); of the Diagnostics their codes.                          *)
(***************************************************************************)
EXTENDS LoopCompiler, WorkflowExpansion

CONSTANT Sources   \* [flows, root, pool]: workflows, the one to compile, and
                   \* the Operators and capabilities of the application

VARIABLES
  source,
  registry,   \* the registered capabilities with their contracts (NoContract
              \* or the one bound), Operators and defaults; the Operators,
              \* registered or not, that are enabled
  flat,       \* the expanded workflow: nodes, edges
  ir,         \* the compiled nodes, by id, and edges
  analysis    \* of WorkflowAnalysis: entries, exits and loops, unless None

compilerVars == <<source, registry, flat, ir, analysis, phase, errors, loopVars>>

NoContract == [params |-> {}, required |-> {"unbound"}, open |-> FALSE, known |-> TRUE]
NoAnalysis == [known |-> FALSE, entries |-> {}, exits |-> {}, loops |-> <<>>]

Init ==
  /\ source \in Sources
  /\ registry =
       [contracts |-> <<>>, operators |-> <<>>, defaults |-> <<>>,
        enabled |-> {o \in DOMAIN source.pool.operators : source.pool.operators[o].enabled}]
  /\ flat = [nodes |-> <<>>, edges |-> <<>>]
  /\ ir = [nodes |-> <<>>, edges |-> <<>>]
  /\ analysis = NoAnalysis
  /\ phase = "expand" /\ errors = {}
  /\ graph = [nodes |-> <<>>, edges |-> <<>>]
  /\ reachable = {} /\ dominators = <<>> /\ candidates = <<>> /\ regions = <<>>

-----------------------------------------------------------------------------
(* The registries.                                                         *)

(* Wrong: what the Operator requires is not looked at.                     *)
CompatibleNames(capability, operator) ==
  capability.known /\ operator.known =>
    operator.open \/ capability.params \subseteq operator.params

(* compare_contracts finds no error: what it can inspect can be called by  *)
(* name.  The names an open capability allows beyond its own do not count. *)
Compatible(capability, operator) ==
  capability.known /\ operator.known =>
    /\ operator.open \/ capability.params \subseteq operator.params
    /\ operator.required \subseteq capability.required

Implementers(reg, c) == {o \in DOMAIN reg.operators : reg.operators[o].capability = c}

RegisterCapability(c) ==
  /\ c \notin DOMAIN registry.contracts
  /\ registry' = [registry EXCEPT !.contracts = (c :> source.pool.capabilities[c]) @@ @]
  /\ UNCHANGED <<source, flat, ir, analysis, phase, errors, loopVars>>

(* Binds the contract of the capability, or is checked against it.         *)
RegisterOperator(o, default) ==
  LET operator == source.pool.operators[o]
      c == operator.capability
  IN
  /\ o \notin DOMAIN registry.operators
  /\ c # "none" => c \in DOMAIN registry.contracts
  /\ default => c # "none" /\ c \notin DOMAIN registry.defaults
  /\ c # "none" => \/ registry.contracts[c] = NoContract
                   \/ Compatible(registry.contracts[c], operator.contract)
  /\ registry' =
       [registry EXCEPT
          !.operators = (o :> operator) @@ @,
          !.contracts = [k \in DOMAIN @ |-> IF k = c /\ @[k] = NoContract
                                            THEN operator.contract ELSE @[k]],
          !.defaults = IF default THEN (c :> o) @@ @ ELSE @]
  /\ UNCHANGED <<source, flat, ir, analysis, phase, errors, loopVars>>

(* Of any Operator object, registered or not.                              *)
SetEnabled(o) ==
  /\ registry' = [registry EXCEPT !.enabled = SymDiff(@, {o})]
  /\ UNCHANGED <<source, flat, ir, analysis, phase, errors, loopVars>>

-----------------------------------------------------------------------------
(* The stages of compile before the loops.                                 *)

Expansion ==
  LET x == Expanded(source.flows, source.root) IN
  /\ phase = "expand" /\ phase' = "nodes"
  /\ flat' = [nodes |-> x.nodes, edges |-> x.edges]
  /\ errors' = x.errors
  /\ UNCHANGED <<source, registry, ir, analysis, loopVars>>

(* _compile_capability; a capability counts with its disabled Operators.   *)
BindingErrors(reg, b) ==
  CASE b.kind = "capability" ->
         IF b.id \notin DOMAIN reg.contracts THEN {"CAPABILITY_NOT_REGISTERED"}
         ELSE ErrorIf(Implementers(reg, b.id) = {}, "CAPABILITY_HAS_NO_OPERATOR")
    [] b.kind = "operator" ->
         ErrorIf(b.id \notin DOMAIN reg.operators, "OPERATOR_NOT_REGISTERED")
    [] b.kind = "command" -> {"SYSTEM_COMMAND_UNSUPPORTED"}
    [] OTHER -> {}

(* _binding_contract, as it is when the node is compiled.                  *)
ContractOf(reg, b) ==
  CASE b.kind = "capability" -> reg.contracts[b.id]
    [] b.kind = "operator" -> reg.operators[b.id].contract
    [] b.kind = "object" -> source.pool.operators[b.id].contract
    [] OTHER -> b.contract

(* A node stays in the compiled workflow if its binding is resolved.       *)
Compilable(n) == BindingErrors(registry, n.binding) = {}

CompileNodes ==
  LET nodes == flat.nodes
      good == {k \in DOMAIN nodes : Compilable(nodes[k])}
  IN
  /\ phase = "nodes" /\ phase' = "edges"
  /\ ir' = [ir EXCEPT !.nodes =
       [i \in {nodes[k].id : k \in good} |->
          LET last == Max({k \in good : nodes[k].id = i}) IN
          [contract |-> ContractOf(registry, nodes[last].binding)] @@ nodes[last]]]
  /\ errors' = errors
       \cup ErrorIf(Cardinality(IdsOf(nodes)) < Len(nodes), "NODE_DUPLICATE_ID")
       \cup UNION {BindingErrors(registry, nodes[k].binding) : k \in DOMAIN nodes}
  /\ UNCHANGED <<source, registry, flat, analysis, loopVars>>

(* _compile_edge_refs and _compile_edges: an edge needs both its nodes and *)
(* a callable condition or none; of two with one id the later stays.       *)
CompileEdges ==
  LET edges == flat.edges
      found(e) == {edges[e].from, edges[e].to} \subseteq IdsOf(flat.nodes)
      twins(e) == {f \in DOMAIN edges : edges[f].id = edges[e].id /\ edges[e].id # Unset}
      good(e) == found(e) /\ edges[e].when # "text"
      kept == SelectSeq([e \in DOMAIN edges |-> e],
                        LAMBDA e : good(e) /\ \A f \in twins(e) : good(f) => f <= e)
  IN
  /\ phase = "edges" /\ phase' = "graph"
  /\ ir' = [ir EXCEPT !.edges = [k \in DOMAIN kept |-> edges[kept[k]]]]
  /\ errors' = errors
       \cup ErrorIf(\E e \in DOMAIN edges : ~found(e), "EDGE_UNKNOWN_NODE")
       \cup ErrorIf(\E e \in DOMAIN edges : twins(e) \ {e} # {}, "EDGE_DUPLICATE_ID")
       \cup ErrorIf(\E e \in DOMAIN edges : found(e) /\ ~good(e), "STRING_CONDITION_UNSUPPORTED")
  /\ UNCHANGED <<source, registry, flat, analysis, loopVars>>

(* _build_graph over the nodes that compiled, in their first order, and    *)
(* _infer_entry_node_ids.                                                  *)
CompiledGraph ==
  LET first(k) == flat.nodes[k].id \in DOMAIN ir.nodes
                  /\ \A j \in 1 .. k - 1 : flat.nodes[j].id # flat.nodes[k].id
      order == SelectSeq([k \in DOMAIN flat.nodes |-> k], first)
  IN
  [nodes |-> [k \in DOMAIN order |-> flat.nodes[order[k]].id],
   edges |-> SelectSeq(ir.edges, LAMBDA e : {e.from, e.to} \subseteq DOMAIN ir.nodes)]

BuildGraph ==
  LET g == CompiledGraph
      marked == {i \in DOMAIN ir.nodes : ir.nodes[i].entry}
  IN
  /\ phase = "graph"
  /\ phase' = IF g.nodes = <<>> THEN "conclude" ELSE "dominators"
  /\ Prepare(g)
  /\ errors' = errors
       \cup ErrorIf(~(marked \subseteq EntryNodes(g)), "WF_ENTRY_HAS_INCOMING_EDGE")
       \cup ErrorIf(g.nodes # <<>> /\ EntryNodes(g) = {}, "WF_NO_ENTRY")
  /\ UNCHANGED <<source, registry, flat, ir, analysis>>

CompileLoops ==
  /\ CompileLoopRegions
  /\ UNCHANGED <<source, registry, flat, ir, analysis>>

-----------------------------------------------------------------------------
(* _validate_policies.                                                     *)
LeastValue ==
  [max_attempts |-> 1, initial_delay_ms |-> 0, max_delay_ms |-> 0, multiplier |-> 1,
   timeout_ms |-> 1, count |-> 1, max_parallelism |-> 1, max_concurrency |-> 1,
   max_node_executions |-> 1, max_operator_attempts |-> 1, max_runtime_ms |-> 1]
NumberCode(field) ==
  CASE field = "max_attempts" -> "POLICY_RETRY_INVALID"
    [] field \in {"initial_delay_ms", "max_delay_ms", "multiplier"} -> "POLICY_BACKOFF_INVALID"
    [] field = "timeout_ms" -> "POLICY_TIMEOUT_INVALID"
    [] field \in {"count", "max_parallelism"} -> "POLICY_REPLICATION_INVALID"
    [] field = "max_concurrency" -> "POLICY_CONCURRENCY_INVALID"
    [] OTHER -> "POLICY_RESOURCE_INVALID"

SelectionErrors(reg, b, s) ==
  LET named == Range(s.preferred) \cup s.excluded
      known == named \cap DOMAIN reg.operators
  IN
  ErrorIf(Range(s.preferred) \cap s.excluded # {} \/ b.kind # "capability",
          "POLICY_SELECTION_INVALID")
  \cup ErrorIf(b.kind = "capability" /\ named # known, "POLICY_SELECTION_OPERATOR_UNKNOWN")
  \cup ErrorIf(b.kind = "capability" /\ \E o \in known : reg.operators[o].capability # b.id,
               "POLICY_SELECTION_OPERATOR_MISMATCH")

NodePolicyErrors(n) ==
  LET p == n.policy IN
  IF ~p.given THEN {}
  ELSE IF n.binding.kind = "wait" THEN {"SYSTEM_COMMAND_POLICY_UNSUPPORTED"}
  ELSE (IF p.selects THEN SelectionErrors(registry, n.binding, p.selection) ELSE {})
       \cup {NumberCode(f) : f \in {g \in DOMAIN p.numbers : p.numbers[g] < LeastValue[g]}}
       \cup ErrorIf(p.idempotent /\ "idempotency_key" \notin n.contract.params,
                    "POLICY_RECOVERY_IDEMPOTENCY_KEY_REQUIRED")

MapPolicyErrors(e) ==
  LET target == ir.nodes[e.to] IN
  ErrorIf(e.width < 1, "POLICY_MAP_INVALID")
  \cup ErrorIf(target.binding.kind = "wait", "SYSTEM_COMMAND_MAP_UNSUPPORTED")
  \cup ErrorIf(Cardinality(Incoming(graph, e.to)) # 1, "POLICY_MAP_FAN_IN_UNSUPPORTED")
  \cup ErrorIf(target.mapping, "POLICY_MAP_INPUT_MAPPING_CONFLICT")
  \cup ErrorIf(target.policy.given /\ target.policy.replicated, "POLICY_MAP_REPLICATION_CONFLICT")

ValidatePolicies ==
  /\ phase = "policies" /\ phase' = "conclude"
  /\ errors' = errors
       \cup UNION {NodePolicyErrors(ir.nodes[i]) : i \in DOMAIN ir.nodes}
       \cup UNION {MapPolicyErrors(graph.edges[e]) : e \in {f \in EdgeIds(graph) : graph.edges[f].map}}
  /\ UNCHANGED <<source, registry, flat, ir, analysis, loopVars>>

(* Wrong: an edge that did not compile goes unnoticed.                     *)
CompleteNodes ==
  /\ Cardinality(IdsOf(flat.nodes)) = Len(flat.nodes)
  /\ Cardinality(DOMAIN ir.nodes) = Len(flat.nodes)

(* compiled_graph_complete of build_workflow_analysis.                     *)
Complete ==
  /\ Cardinality(IdsOf(flat.nodes)) = Len(flat.nodes)
  /\ \A e \in DOMAIN flat.edges : {flat.edges[e].from, flat.edges[e].to} \subseteq IdsOf(flat.nodes)
  /\ Cardinality(DOMAIN ir.nodes) = Len(flat.nodes)
  /\ Len(ir.edges) = Len(flat.edges)

(* The analysis is given whether there are errors or not, the IR only if   *)
(* there are none.                                                         *)
Conclude ==
  /\ phase = "conclude"
  /\ phase' = IF errors = {} THEN "accepted" ELSE "refused"
  /\ IF Complete
     THEN analysis' = [known |-> TRUE, entries |-> EntryNodes(graph), exits |-> ExitNodes(graph),
                        loops |-> regions]
     ELSE UNCHANGED analysis
  /\ UNCHANGED <<source, registry, flat, ir, errors, loopVars>>

Finished == phase \in {"accepted", "refused"} /\ UNCHANGED compilerVars

Next ==
  \/ Expansion \/ CompileNodes \/ CompileEdges \/ BuildGraph \/ CompileLoops
  \/ ValidatePolicies \/ Conclude \/ Finished
  \/ \E c \in DOMAIN source.pool.capabilities : RegisterCapability(c)
  \/ \E o \in DOMAIN source.pool.operators :
       SetEnabled(o) \/ \E default \in BOOLEAN : RegisterOperator(o, default)

Spec == Init /\ [][Next]_compilerVars

-----------------------------------------------------------------------------
(* OperatorResolver: what a compiled node resolves to when it runs.        *)
DefaultSelection ==
  [mode |-> "default", fallback |-> TRUE, preferred |-> <<>>, excluded |-> {}]
SelectionOf(n) ==
  IF n.policy.given /\ n.policy.selects THEN n.policy.selection ELSE DefaultSelection

Resolved(operators) == [operators |-> operators, error |-> "none"]
Unresolved(code) == [operators |-> <<>>, error |-> code]

(* The sort keys of _order: preferred Operators come first, in their       *)
(* order, then the default one where it counts, then the priority decides, *)
(* then the order of the ids.                                              *)
Rank(reg, c, s, o) ==
  LET preferred == {k \in DOMAIN s.preferred : s.preferred[k] = o} IN
  <<IF preferred = {} THEN Len(s.preferred) + 1 ELSE Min(preferred),
    IF s.mode = "default" /\ c \in DOMAIN reg.defaults /\ reg.defaults[c] = o THEN 0 ELSE 1,
    IF s.mode = "first_available" THEN 0 ELSE 0 - reg.operators[o].priority,
    reg.operators[o].order>>
Precedes(r, q) == \E k \in DOMAIN r : r[k] < q[k] /\ \A j \in 1 .. k - 1 : r[j] = q[j]

Order(reg, c, s, operators) ==
  SetToSortSeq(operators, LAMBDA o, q : Precedes(Rank(reg, c, s, o), Rank(reg, c, s, q)))

ResolveCandidates(reg, n) ==
  LET b == n.binding
      s == SelectionOf(n)
      left == (Implementers(reg, b.id) \cap reg.enabled) \ s.excluded
      ordered == Order(reg, b.id, s, left)
  IN
  CASE b.kind = "operator" /\ b.id \notin DOMAIN reg.operators -> Unresolved("OPERATOR_NOT_REGISTERED")
    [] b.kind = "object" \/ (b.kind = "operator" /\ b.id \in DOMAIN reg.operators) ->
         IF b.id \in reg.enabled THEN Resolved(<<b.id>>) ELSE Unresolved("OPERATOR_UNAVAILABLE")
    [] b.kind = "capability" /\ b.id \notin DOMAIN reg.contracts -> Unresolved("CAPABILITY_NOT_REGISTERED")
    [] b.kind = "capability" /\ b.id \in DOMAIN reg.contracts ->
         IF left = {} THEN Unresolved("CAPABILITY_UNAVAILABLE")
         ELSE Resolved(IF s.fallback THEN ordered ELSE <<Head(ordered)>>)
    [] b.kind = "wait" -> Unresolved("SYSTEM_COMMAND_UNSUPPORTED")
    [] OTHER -> Resolved(<<"callable">>)

-----------------------------------------------------------------------------
(* Late binding keeps what compile promised, whatever was registered or    *)
(* disabled since: a reference never dangles, a node that runs finds an    *)
(* Operator as long as one it may use is enabled, none it excludes, and    *)
(* every candidate, fallbacks included, takes every call that the contract *)
(* the node was compiled with allows.  As compare_contracts has it, that   *)
(* is about contracts that could be inspected, and about the names they    *)
(* declare: what an open one allows beyond them nobody has to take.        *)
Takes(contract, call) ==
  contract.required \subseteq call /\ (contract.open \/ call \subseteq contract.params)
Serves(operator, contract) ==
  contract.known /\ operator.known =>
    \A call \in SUBSET contract.params : Takes(contract, call) => Takes(operator, call)

LateBindingSound ==
  phase = "accepted" =>
    \A i \in DOMAIN ir.nodes :
      LET n == ir.nodes[i]
          r == ResolveCandidates(registry, n)
          usable == (Implementers(registry, n.binding.id) \cap registry.enabled)
                      \ SelectionOf(n).excluded
      IN
      /\ n.binding.kind \in {"operator", "object", "capability"} =>
           /\ r.error \in {"none", "OPERATOR_UNAVAILABLE", "CAPABILITY_UNAVAILABLE"}
           /\ Range(r.operators) \subseteq registry.enabled
           /\ \A o \in Range(r.operators) : Serves(source.pool.operators[o].contract, n.contract)
      /\ n.binding.kind \in {"operator", "object"} /\ n.binding.id \in registry.enabled =>
           r.operators = <<n.binding.id>>
      /\ n.binding.kind = "capability" =>
           /\ Range(r.operators) \subseteq usable
           /\ usable # {} => r.operators # <<>>
           /\ SelectionOf(n).fallback => usable \subseteq Range(r.operators)
           /\ \A k \in DOMAIN SelectionOf(n).preferred :
                SelectionOf(n).preferred[k] \in usable =>
                  \E j \in 1 .. k : SelectionOf(n).preferred[j] = Head(r.operators)

(* What the analysis states of a workflow, accepted or not, holds of the   *)
(* expanded workflow it was made for: no node or edge that did not compile *)
(* makes another one look like an entry or an exit, or breaks a loop.  Its *)
(* loops are the natural ones, with back, exit and entry edges and depth.  *)
FlatGraph == [nodes |-> [k \in DOMAIN flat.nodes |-> flat.nodes[k].id], edges |-> flat.edges]
AnalysisExact ==
  phase \in {"accepted", "refused"} /\ analysis.known =>
    /\ analysis.entries = EntryNodes(FlatGraph)
    /\ analysis.exits = ExitNodes(FlatGraph)
    /\ errors \cap LoopErrors = {} =>
         analysis.loops = Compiled(FlatGraph).loops /\ OneBoundaryPerNode

-----------------------------------------------------------------------------
(* Expansion, from the outside in.                                         *)
Below(p, id) == IsPrefix(p, id) /\ p # id
Scopes == UNION {Prefixes(flat.nodes[k].path) : k \in DOMAIN flat.nodes}
(* The workflow that is embedded under a path.                             *)
WorkflowAt(p) ==
  LET at[k \in 0 .. Len(p)] ==
        IF k = 0 THEN source.root
        ELSE LET outer == source.flows[at[k - 1]].nodes
                 n == CHOOSE m \in Range(outer) : m.id = <<p[k]>>
             IN  n.binding.id
  IN  source.flows[at[Len(p)]]
(* The node of the workflow under p that x, a flat node below p, is or is  *)
(* embedded for.                                                           *)
Local(p, x) == <<x[Len(p) + 1]>>
Kept(p) == {Local(p, x) : x \in {y \in IdsOf(flat.nodes) : Below(p, y)}}
OwnEdges(p) == SelectSeq(flat.edges, LAMBDA e : e.path = p)
Inner(p) == SelectSeq(flat.edges, LAMBDA e : IsPrefix(p, e.path))
Inside(p) == {x \in IdsOf(flat.nodes) : Below(p, x)}
Outer(p) == {flat.edges[k] : k \in {j \in DOMAIN flat.edges : ~IsPrefix(p, flat.edges[j].path)}}
Doors(p) ==
  [in |-> {e.to : e \in {f \in Outer(p) : f.to \in Inside(p)}},
   out |-> {e.from : e \in {f \in Outer(p) : f.from \in Inside(p)}}]

(* Every workflow names nodes of its own only, and no two have one id.     *)
WellScoped ==
  \A w \in DOMAIN source.flows :
    LET wf == source.flows[w] IN
    /\ \A i \in IdsOf(wf.nodes) : Len(i) = 1
    /\ Cardinality(IdsOf(wf.nodes)) = Len(wf.nodes)
    /\ TargetsOf(wf.edges) \cup SourcesOf(wf.edges) \subseteq IdsOf(wf.nodes)

(* An accepted workflow is the nested one, flattened: collapsing what is   *)
(* embedded for a placeholder gives back the edges of the workflow around  *)
(* it, in their order; a child is entered at one node and left at one,     *)
(* those its placeholder names, its entry leads to all that is left of it  *)
(* and its exit nowhere; nothing else was dropped; and a hook finds under  *)
(* a local id the node of its own workflow.                                *)
ExpansionExact ==
  phase = "accepted" /\ WellScoped =>
    \A p \in Scopes :
      LET wf == WorkflowAt(p)
          own == OwnEdges(p)
          mine == SelectSeq(wf.edges, LAMBDA e : e.from \in Kept(p))
      IN
      /\ [k \in DOMAIN own |-> <<Local(p, own[k].from), Local(p, own[k].to)>>]
           = [k \in DOMAIN mine |-> <<mine[k].from, mine[k].to>>]
      /\ p = <<>> => Kept(p) = IdsOf(wf.nodes)
      /\ p # <<>> =>
           \E x, y \in Inside(p) :
             /\ Doors(p).in \subseteq {x} /\ Doors(p).out \subseteq {y}
             /\ Inside(p) = Onwards({x}, flat.nodes, Inner(p))
             /\ x \notin TargetsOf(Inner(p)) /\ y \notin SourcesOf(Inner(p))
             /\ LET outer == WorkflowAt(Front(p)).nodes
                    n == CHOOSE m \in Range(outer) : m.id = <<Last(p)>>
                IN  /\ n.entryBy # Unset => Local(p, x) = n.entryBy
                    /\ n.exitBy # Unset => Local(p, y) = n.exitBy
      /\ \A k \in DOMAIN flat.nodes : flat.nodes[k].path = p =>
           \A i \in Kept(p) :
             LET found == Endpoint(flat.nodes[k].scope, i) IN
             /\ IsPrefix(p \o i, found)
             /\ found # p \o i => found \notin SourcesOf(Inner(p \o i))
=============================================================================
