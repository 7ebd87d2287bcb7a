------------------------- MODULE MCWorkflowExecutor -------------------------
(* Small workflows for WorkflowExecutor, which calls this Scheduler.       *)
EXTENDS WorkflowExecutor, Scheduler

CONSTANTS a, b, c, d, e, f

Edge(from, to, values) == [from |-> from, to |-> to, values |-> values]
Always == {"true"}
Maybe == {"true", "false"}
Risky == {"true", "false", "raises"}

(* Two branches that join, beside an exit of their own.                    *)
Branches ==
  [nodes |-> <<a, b, c, d, e>>,
   edges |-> <<Edge(a, b, Always), Edge(a, c, Maybe), Edge(b, d, Risky),
               Edge(c, d, Always), Edge(b, e, Maybe)>>]

(* Each of two entries leads to the join: the test                         *)
(* test_unselected_entries_are_skipped_before_fan_in.                      *)
TwoEntries ==
  [nodes |-> <<a, b, c>>,
   edges |-> <<Edge(a, c, Always), Edge(b, c, Always)>>]

(* A loop of b, f and d around a loop of c with itself; c may also leave   *)
(* both loops at once, b may pass c by, and f runs beside c and may ask    *)
(* for another iteration by itself.                                        *)
NestedLoops ==
  [nodes |-> <<a, b, c, d, e, f>>,
   edges |-> <<Edge(a, b, Always), Edge(b, c, Maybe), Edge(b, f, Always),
               Edge(c, c, Maybe), Edge(c, d, Maybe), Edge(c, e, Maybe),
               Edge(f, d, Always), Edge(f, b, Maybe), Edge(d, b, Maybe),
               Edge(d, e, Maybe)>>]

(* Two branches that may both wait, one of them with a node after it.      *)
TwoWaits ==
  [nodes |-> <<a, b, c, d>>,
   edges |-> <<Edge(a, b, Always), Edge(a, c, Always), Edge(b, d, Maybe)>>]

(* Every workflow of four nodes with one entry and at most six edges, all  *)
(* conditional, that the compiler accepts (LoopCompiler!AcceptsReducible). *)
PossibleEdges(nodes) ==
  [k \in 1 .. Len(nodes) * (Len(nodes) - 1) |->
     Edge(nodes[1 + (k - 1) \div (Len(nodes) - 1)],
          nodes[2 + ((k - 1) % (Len(nodes) - 1))], Maybe)]
GraphsOver(nodes, limit) ==
  {[nodes |-> nodes, edges |-> SelectSeq(PossibleEdges(nodes), LAMBDA x : x \in chosen)] :
     chosen \in UNION {kSubset(k, Range(PossibleEdges(nodes))) : k \in 1 .. limit}}
StronglyConnected(g, S) ==
  /\ \E x \in EdgeIds(g) : {g.edges[x].from, g.edges[x].to} \subseteq S
  /\ \A n \in S : S \subseteq ReachableWithin(g, {n}, S)
Accepted(g) ==
  /\ Reachable(g) = NodeSet(g)
  /\ \A S \in SUBSET NodeSet(g) :
       StronglyConnected(g, S) => \E n \in S : \A m \in S : Dominates(g, n, m)
MCSmall ==
  {g \in GraphsOver(<<a, b, c, d>>, 6) :
     Cardinality(EntryNodes(g)) = 1 /\ Accepted(g)}

(* One node after another, the second of them in a loop with the third.    *)
Chain ==
  [nodes |-> <<a, b, c>>, edges |-> <<Edge(a, b, Always), Edge(b, c, Risky)>>]
Loop1 ==
  [nodes |-> <<a, b, c, d>>,
   edges |-> <<Edge(a, b, Always), Edge(b, c, Always), Edge(c, b, Maybe),
               Edge(c, d, Maybe)>>]

(* Two branches with an exit each.                                         *)
Fork == [nodes |-> <<a, b, c>>, edges |-> <<Edge(a, b, Always), Edge(a, c, Always)>>]

-----------------------------------------------------------------------------
OwnKeys == [n \in {a, b, c, d, e, f} |-> n]
OneKey == [n \in {a, b, c, d, e, f} |-> a]
Replays(count) == [n \in {a, b, c, d, e, f} |-> count]

(* Nothing but completed nodes.                                            *)
Plain ==
  [failure |-> "fail_fast", limit |-> 1, recovery |-> Replays(0),
   events |-> "standard", outcomes |-> {"completed"}, keys |-> OwnKeys,
   mapping |-> {"mapped"}, binding |-> {"bound"}, asyncHooks |-> FALSE,
   writes |-> [n \in {a, b, c, d, e, f} |-> [k \in Contexts |-> {}]],
   cancellable |-> FALSE, raises |-> FALSE, crashes |-> 0]
With(graphs, p) == {[graph |-> g, policy |-> p] : g \in graphs}

(* Every way a node may end, waits that compete for one key, a caller that *)
(* cancels, limits.                                                        *)
MCBranches ==
  With({Branches, TwoEntries},
       [Plain EXCEPT !.failure = "continue_active_branches", !.limit = 2,
                     !.outcomes = {"completed", "failed", "waiting"}, !.keys = OneKey,
                     !.mapping = {"mapped", "unmapped"}, !.binding = {"bound", "unbound"},
                     !.cancellable = TRUE])
MCLimits ==
  With({Fork, Loop1},
       [Plain EXCEPT !.limit = 2, !.outcomes = {"completed", "failed", "waiting"},
                     !.mapping = {"mapped", "overspent"}, !.binding = {"bound", "overran"},
                     !.raises = TRUE])
(* Loops, no node of which runs more often than three times.               *)
MCLoops == With(MCSmall \union {NestedLoops}, [Plain EXCEPT !.limit = 3])

(* Resumes whose bindings suspend.                                         *)
MCResumes ==
  With({Branches, TwoWaits},
       [Plain EXCEPT !.failure = "continue_active_branches", !.asyncHooks = TRUE,
                     !.outcomes = {"completed", "waiting"}])

(* Bindings of branches that write side by side below x, or one of them    *)
(* the whole of x, while another node writes what it has read.             *)
Invoc(paths) == [invocation |-> paths, session |-> {}]
Both(paths) == [invocation |-> paths, session |-> paths]
MCContexts ==
  UNION {With({TwoWaits},
              [Plain EXCEPT !.failure = "continue_active_branches",
                            !.asyncHooks = asyncHooks,
                            !.outcomes = {"completed", "waiting"}, !.writes = writes]) :
           asyncHooks \in BOOLEAN,
           writes \in {[Plain.writes EXCEPT
                          ![a] = Both({<<"x", "w">>}), ![b] = Both({<<"x", "y">>}),
                          ![c] = c_, ![d] = Invoc({<<"x", "y">>, <<"x", "z">>})] :
                       c_ \in {Both({<<"x", "z">>}),
                               [invocation |-> {<<"x">>}, session |-> {<<"x", "z">>}]}}}

(* Crashes of workflows in which one node is active at a time.             *)
MCCrashes ==
  UNION {With({Chain, Loop1},
              [Plain EXCEPT !.failure = failure, !.limit = 3, !.recovery = recovery,
                            !.outcomes = {"completed", "failed", "waiting"},
                            !.crashes = 2]) :
           failure \in {"fail_fast", "continue_active_branches"},
           recovery \in {[Replays(1) EXCEPT ![c] = 0], Replays(1)}}
  \union
  UNION {With({Chain, Loop1},
              [Plain EXCEPT !.failure = failure, !.limit = 3, !.recovery = recovery,
                            !.events = "full", !.outcomes = {"completed", "failed"},
                            !.crashes = 2]) :
           failure \in {"fail_fast", "continue_active_branches"},
           recovery \in {[Replays(1) EXCEPT ![c] = 0], Replays(1)}}

MCInvocation ==
  MCBranches \union MCLimits \union MCLoops \union MCResumes \union MCContexts
    \union MCCrashes

MCParallelCrash == With({Fork}, [Plain EXCEPT !.recovery = Replays(1), !.crashes = 1])
=============================================================================
