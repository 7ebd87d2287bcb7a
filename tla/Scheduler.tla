----------------------------- MODULE Scheduler -----------------------------
(***************************************************************************)
(* src/autoagent/core/scheduler/scheduler.py and the cursor it mutates     *)
(* (SchedulerContext of src/autoagent/core/runtime/scheduler.py): fan-out, *)
(* fan-in and natural loops over scoped node instances.                    *)
(*                                                                         *)
(* Scheduler methods run on the one task that drives an Invocation and     *)
(* never wait for work, so each is an operator from a cursor to a cursor.  *)
(* A method that raises or fails the Invocation leaves the cursor with an  *)
(* error, which stops the worklists as invocation.state does.              *)
(*                                                                         *)
(* A scope is a sequence of frames <<header, iteration>>, the outermost    *)
(* loop first; an instance is <<node, scope>>.  A resolution is the set of *)
(* activations it carries: {source instance} when selected, {} when        *)
(* skipped.  w is the compiled graph (WorkflowGraph!Compiled) and what was *)
(* invoked of it, c the cursor.                                            *)
(***************************************************************************)
EXTENDS SchedulerContext

Loop(w, h) == w.loops[h]
Boundary(w, h) == Loop(w, h).back \cup Loop(w, h).exits
Target(w, e) == w.edges[e].to

-----------------------------------------------------------------------------
(* Scopes.                                                                 *)

EntryScope(prefix, stack) ==
  prefix \o [k \in 1 .. Len(stack) - Len(prefix) |-> <<stack[Len(prefix) + k], 0>>]

InitialScope(w, n) == EntryScope(<<>>, w.stack[n])

(* _target_scope: the frames of the loops that source and target share,    *)
(* then iteration 0 of every loop the edge enters.                         *)
TargetScope(w, e, s) ==
  LET stack == w.stack[Target(w, e)]
      shared == {k \in 0 .. Len(s) :
                   k <= Len(stack) /\ \A j \in 1 .. k : s[j][1] = stack[j]}
  IN  EntryScope(SubSeq(s, 1, CHOOSE k \in shared : \A j \in shared : j <= k),
                 stack)

(* _scope_for_node                                                         *)
ScopeForNode(w, n, s) ==
  LET stack == w.stack[n] IN
  IF Len(s) >= Len(stack) THEN SubSeq(s, 1, Len(stack)) ELSE EntryScope(s, stack)

(* _boundary_owner and _loop_scope: the scope of the innermost loop that   *)
(* the edge continues or leaves, or <<>> if it does neither.               *)
OwnerScope(w, e, s) ==
  LET owners == {k \in 1 .. Len(s) : e \in Boundary(w, s[k][1])} IN
  IF owners = {} THEN <<>>
  ELSE SubSeq(s, 1, CHOOSE k \in owners : \A j \in owners : j <= k)

(* _header_region: a node heads one loop at most, the innermost around it. *)
IsHeader(w, n) == n \in DOMAIN w.loops
HeaderFrame(i) ==
  CHOOSE k \in 1 .. Len(Scope(i)) : Scope(i)[k][1] = Node(i)
Iteration(i) == Scope(i)[HeaderFrame(i)][2]

IncomingOf(w, i) ==
  IF ~IsHeader(w, Node(i)) THEN Incoming(w, Node(i))
  ELSE IF Iteration(i) = 0 THEN Loop(w, Node(i)).entries
  ELSE Loop(w, Node(i)).back

(* _ordered_targets                                                        *)
Ordered(w, targets) ==
  SetToSortSeq(Range(targets), LAMBDA i, j :
    Position(w, Node(i)) < Position(w, Node(j)))

-----------------------------------------------------------------------------
(* Resolution of targets.                                                  *)

RECURSIVE ResolveInstances(_, _, _), Drain(_, _, _), Finalize(_, _, _),
          SkipInstance(_, _, _), LeaveLoop(_, _, _, _, _)

(* What routing one batch of edges gives: the cursor, the targets to       *)
(* resolve, and the loop scopes whose boundary was touched.                *)
Routed(c) == [cursor |-> c, targets |-> <<>>, touched |-> {}]

RouteEdge(w, r, e, s, resolution) ==
  LET loop == OwnerScope(w, e, s) IN
  IF Failed(r.cursor) THEN r
  ELSE IF loop # <<>>
  THEN [r EXCEPT !.cursor = Resolve(@, "boundaries", <<e, loop>>, resolution),
                 !.touched = @ \cup {loop}]
  ELSE LET target == <<Target(w, e), TargetScope(w, e, s)>> IN
       [r EXCEPT !.cursor = Resolve(@, "edges", <<e, Scope(target)>>, resolution),
                 !.targets = Append(@, target)]

(* FinalizeAll: a node touches one boundary at most, so the order in which *)
(* the code walks its set does not matter (OneBoundaryPerNode).            *)
FinalizeAll(w, c, touched) ==
  FoldLeft(LAMBDA d, loop : Finalize(w, d, loop), c, SetToSeq(touched))

SkipEdges(w, c, i) ==
  FoldLeft(LAMBDA r, e : RouteEdge(w, r, e, Scope(i), {}),
           Routed(c), IdsInOrder(w, Outgoing(w, Node(i))))

(* Wrong: the targets of the skipped edges are not looked at again.        *)
SkipQuietly(w, c, i) ==
  IF i \in c.skipped THEN Routed(c)
  ELSE LET r == SkipEdges(w, [c EXCEPT !.skipped = @ \cup {i}], i)
       IN  [r EXCEPT !.cursor = FinalizeAll(w, @, r.touched), !.targets = <<>>]

(* _skip_node_instance: gives the targets that its edges may complete.     *)
SkipInstance(w, c, i) ==
  IF i \in c.skipped THEN Routed(c)
  ELSE LET r == SkipEdges(w, [c EXCEPT !.skipped = @ \cup {i}], i)
       IN  [r EXCEPT !.cursor = FinalizeAll(w, @, r.touched)]

(* The exit edges of a loop, as they were resolved, are moved outwards.    *)
LeaveAll(w, c, loop, resolutions) ==
  FoldLeft(LAMBDA r, e : LeaveLoop(w, r, loop, e, resolutions[e]),
           Routed([c EXCEPT !.exited = @ \cup {loop}]),
           IdsInOrder(w, Loop(w, Last(loop)[1]).exits))

(* _skip_inactive_loop: the header is not entered, so nothing inside runs. *)
SkipLoop(w, c, loop) ==
  LET region == Loop(w, Last(loop)[1]) IN
  LeaveAll(w,
           [c EXCEPT !.skipped =
              @ \cup {<<n, ScopeForNode(w, n, loop)>> : n \in region.nodes}],
           loop, [e \in region.exits |-> {}])

(* Wrong: a target that was scheduled or skipped is resolved once more.    *)
NothingSettled(c, i) == FALSE

(* Wrong: one resolved edge is enough.                                     *)
DecidedByOne(w, c, i) == \E e \in IncomingOf(w, i) : <<e, Scope(i)>> \in DOMAIN c.edges

(* What a target is asked in turn: whether it was handled before, whether  *)
(* all its incoming edges are resolved, and what the selected ones carry.  *)
Settled(c, i) == i \in c.scheduled \cup c.skipped
Decided(w, c, i) ==
  /\ IncomingOf(w, i) # {}
  /\ \A e \in IncomingOf(w, i) : <<e, Scope(i)>> \in DOMAIN c.edges
Activations(w, c, i) ==
  UNION {c.edges[key] : key \in DOMAIN c.edges \cap (IncomingOf(w, i) \X {Scope(i)})}

(* The worklist of _resolve_node_instances.                                *)
Drain(w, c, pending) ==
  IF pending = <<>> \/ Failed(c) THEN c
  ELSE
    LET i == Head(pending)
        skip == IF IsHeader(w, Node(i)) /\ Iteration(i) = 0
                THEN SkipLoop(w, c, SubSeq(Scope(i), 1, HeaderFrame(i)))
                ELSE SkipInstance(w, c, i)
    IN
    IF Settled(c, i) \/ ~Decided(w, c, i) THEN Drain(w, c, Tail(pending))
    ELSE IF Activations(w, c, i) # {}
    THEN Drain(w,
               [c EXCEPT !.scheduled = @ \cup {i}, !.ready = Append(@, i)],
               Tail(pending))
    ELSE Drain(w, skip.cursor, Tail(pending) \o skip.targets)

ResolveInstances(w, c, targets) == Drain(w, c, Ordered(w, targets))

(* The boundary edges of an iteration that were resolved as selected.      *)
BoundaryResolution(c, loop, e) ==
  IF <<e, loop>> \in DOMAIN c.boundaries THEN c.boundaries[<<e, loop>>] ELSE {}
Selected(c, loop, edges) == {e \in edges : BoundaryResolution(c, loop, e) # {}}

(* Wrong: one selected boundary edge is enough.                            *)
ClosedByOne(w, c, loop) == Selected(c, loop, Boundary(w, Last(loop)[1])) # {}

Closed(w, c, loop) ==
  \A e \in Boundary(w, Last(loop)[1]) : <<e, loop>> \in DOMAIN c.boundaries
NextIteration(loop) == Append(Front(loop), <<Last(loop)[1], Last(loop)[2] + 1>>)

(* _finalize_loop_boundary: once every back and exit edge of an iteration  *)
(* is resolved, the loop continues or exits.                               *)
Finalize(w, c, loop) ==
  LET h == Last(loop)[1]
      resolutions == [e \in Boundary(w, h) |-> BoundaryResolution(c, loop, e)]
      next == NextIteration(loop)
      continued == FoldLeft(
        LAMBDA d, e : Resolve(d, "edges", <<e, next>>, resolutions[e]),
        c, IdsInOrder(w, Loop(w, h).back))
      left == LeaveAll(w, c, loop, resolutions)
  IN
  IF ~Closed(w, c, loop) \/ c.error = "ValueError" THEN c
  ELSE IF Selected(c, loop, Loop(w, h).back) # {}
  THEN IF Selected(c, loop, Loop(w, h).exits) # {}
       THEN Fail(c, "LOOP_CONTINUE_EXIT_CONFLICT")
       ELSE ResolveInstances(w, continued, <<<<h, next>>>>)
  ELSE IF Selected(c, loop, Loop(w, h).exits) # {}
  THEN ResolveInstances(w, left.cursor, left.targets)
  ELSE Fail(c, "LOOP_DEAD_END")

(* _propagate_finalized_boundary_edge: an exit of the loop may be a back   *)
(* or exit edge of a loop around it; else it reaches its target.           *)
LeaveLoop(w, r, loop, e, resolution) ==
  LET outer == OwnerScope(w, e, Front(loop))
      target == <<Target(w, e), TargetScope(w, e, loop)>>
  IN
  IF r.cursor.error = "ValueError" THEN r
  ELSE IF outer # <<>>
  THEN [r EXCEPT !.cursor =
          Finalize(w, Resolve(@, "boundaries", <<e, outer>>, resolution), outer)]
  ELSE [r EXCEPT !.cursor = Resolve(@, "edges", <<e, Scope(target)>>, resolution),
                 !.targets = Append(@, target)]

-----------------------------------------------------------------------------
(* The methods the WorkflowExecutor calls.                                 *)

(* initialize: the chosen entry is ready, the others are skipped; what     *)
(* their edges lead to is not looked at.                                   *)
Initialize(w) ==
  LET first == <<w.entry, InitialScope(w, w.entry)>> IN
  FoldLeft(LAMBDA c, n : SkipInstance(w, c, <<n, InitialScope(w, n)>>).cursor,
           [NewCursor EXCEPT !.ready = <<first>>, !.scheduled = {first}],
           SetToSeq(EntryNodes(w) \ {w.entry}))

(* skip_ready_request: recovery does not permit the node.                  *)
SkipReady(w, c, i) ==
  LET r == SkipInstance(w, c, i) IN ResolveInstances(w, r.cursor, r.targets)

(* The end of _advance_completed and of _advance_blocked_execution.        *)
Advance(w, r) ==
  IF Failed(r.cursor) THEN r.cursor
  ELSE FinalizeAll(w, ResolveInstances(w, r.cursor, r.targets), r.touched)

(* The edges of a completed node, as far as they were evaluated: value[e]  *)
(* is what the condition of the edge e gives; one that raises fails the    *)
(* Invocation before the later edges are seen.                             *)
RouteEvaluated(w, c, i, value, evaluated) ==
  FoldLeft(
    LAMBDA r, e :
      IF value[e] = "raises" /\ ~Failed(r.cursor)
      THEN [r EXCEPT !.cursor = Fail(@, "EDGE_CONDITION_FAILED")]
      ELSE RouteEdge(w, r, e, Scope(i), IF value[e] = "true" THEN {i} ELSE {}),
    Routed(c), evaluated)

EvaluateEdges(w, c, i, value, evaluated) ==
  RouteEvaluated(w, c, i, value, evaluated).cursor

AdvanceCompleted(w, c, i, value) ==
  Advance(w, RouteEvaluated(w, c, i, value, IdsInOrder(w, Outgoing(w, Node(i)))))

(* Wrong: the first failure stops the others.                              *)
AdvanceBlockedFails(w, c, i) == Fail(c, "NODE_FAILED")

AdvanceBlocked(w, c, i) == Advance(w, SkipEdges(w, c, i))
=============================================================================
