-------------------------- MODULE SchedulerContext --------------------------
(***************************************************************************)
(* SchedulerContext of src/autoagent/core/runtime/scheduler.py: the cursor *)
(* of an Invocation, which the methods of the Scheduler move.              *)
(*                                                                         *)
(* A scope is a sequence of frames <<header, iteration>>, the outermost    *)
(* loop first; an instance is <<node, scope>>.  A resolution is the set of *)
(* activations it carries: {source instance} when selected, {} when        *)
(* skipped.                                                                *)
(***************************************************************************)
EXTENDS WorkflowGraph

Node(i) == i[1]
Scope(i) == i[2]

NewCursor ==
  [edges |-> <<>>,        \* edge_resolutions, by <<edge, target scope>>
   boundaries |-> <<>>,   \* loop_boundary_resolutions, by <<edge, loop scope>>
   scheduled |-> {}, skipped |-> {}, exited |-> {},
   ready |-> <<>>,        \* ready_queue
   error |-> "none"]

(* f with the value v at k, which may be a new key.                        *)
Extend(f, k, v) == [x \in DOMAIN f \cup {k} |-> IF x = k THEN v ELSE f[x]]

Failed(c) == c.error # "none"
Fail(c, code) == Extend(c, "error", code)
Unfailed(c) == Extend(c, "error", "none")

Queued(c, i) == Extend(c, "ready", Append(c.ready, i))
Cleared(c) == Extend(c, "ready", <<>>)

(* mark_node_running: the error is that of the Invocation.                 *)
Scheduled(c, i) == Extend(Unfailed(c), "scheduled", c.scheduled \cup {i})

(* resolve_edge and resolve_loop_boundary: a second resolution of the same *)
(* occurrence must agree with the first, or ValueError is raised.          *)
Resolve(c, field, key, resolution) ==
  IF key \notin DOMAIN c[field]
  THEN [c EXCEPT ![field] = Extend(@, key, resolution)]
  ELSE IF c[field][key] = resolution THEN c ELSE Fail(c, "ValueError")

(* What the constructor of Invocation leaves: the entry is ready, in no     *)
(* scope, and the graph was not looked at.                                 *)
Genesis(entry) == [NewCursor EXCEPT !.ready = <<<<entry, <<>>>>>>]
=============================================================================
