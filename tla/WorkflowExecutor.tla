-------------------------- MODULE WorkflowExecutor --------------------------
(***************************************************************************)
(* One Invocation: the drive loop of                                       *)
(* src/autoagent/core/executor/workflow_executor.py, the Scheduler it      *)
(* calls, the worker tasks that answer through the Invocation's mailbox    *)
(* (src/autoagent/core/runtime/mailbox.py), waits, resumes, cancellation,  *)
(* and the crash of the process with the recovery at the next start.       *)
(*                                                                         *)
(* A driver is an asyncio task inside _drive: what it does between two     *)
(* awaits that another task could use is one action.  Workers finish at    *)
(* any time.  The claim of a wait leaves the state at "waiting", so where  *)
(* user hooks may suspend (asyncHooks) a second resume can come while the  *)
(* first is under way, and then several drivers share the Invocation.      *)
(*                                                                         *)
(* The journal is written behind the execution: a crash keeps one of the   *)
(* images of the Invocation that the latest step recorded, or the one      *)
(* before them.                                                            *)
(***************************************************************************)
EXTENDS SchedulerContext, ContextCommit, FiniteSetsExt

VARIABLE workflow \* what was invoked: the compiled graph, its policy, the entry

CONSTANT
  Workflows       \* what may be invoked: records of a graph and a policy.  An
                  \* edge of the graph also has the field values, the outcomes
                  \* its condition may have: "true", "false", "raises".

(* The methods of the Scheduler (module Scheduler) that the driver calls,  *)
(* from a workflow and a cursor to a cursor.                               *)
CONSTANTS
  SchedulerInitialize(_), SchedulerEvaluate(_, _, _, _, _), SchedulerCompleted(_, _, _, _),
  SchedulerBlocked(_, _, _), SchedulerSkip(_, _, _)

(* The policies of a workflow and of its nodes, and what its user code and *)
(* its caller may do:                                                      *)
(*   failure      WorkflowPolicy.failure.mode                              *)
(*   limit        max_node_executions_per_invocation of every node         *)
(*   recovery     by node, the crash recovery replays that its             *)
(*                RecoveryPolicy permits; 0 stands for the mode "never"    *)
(*   events       RuntimeEventMode: "standard" or "full"                   *)
(*   outcomes     what a worker may answer: "completed", "failed",         *)
(*                "waiting"                                                *)
(*   keys         the wait key a node asks for when it waits               *)
(*   mapping      what may happen to a node before its job is submitted:   *)
(*                "mapped", "unmapped" (its input mapping raises),         *)
(*                "overspent" (its operator attempts are used up)          *)
(*   binding      what may happen to an answer: "bound", "unbound" (the    *)
(*                output binding raises), "overran" (the runtime limit)    *)
(*   writes       the paths that the output binding of a node sets, by      *)
(*                context                                                  *)
(*   asyncHooks   whether the binding of a resumed node may suspend        *)
(*   cancellable  whether the caller may cancel                            *)
(*   raises       whether the infrastructure may raise in a driver         *)
(*   crashes      how often the process may crash                          *)
policy == workflow.policy

ASSUME WorkflowsAssumption ==
  \A w \in Workflows :
    /\ IsFiniteSet(EdgeIds(w.graph))
    /\ \A e \in EdgeIds(w.graph) :
         /\ {w.graph.edges[e].from, w.graph.edges[e].to} \subseteq NodeSet(w.graph)
         /\ w.graph.edges[e].values \subseteq {"true", "false", "raises"}
    /\ w.policy.failure \in {"fail_fast", "continue_active_branches"}
    /\ w.policy.events \in {"standard", "full"}
    /\ w.policy.limit \in Nat \ {0} /\ w.policy.crashes \in Nat
    /\ w.policy.outcomes \subseteq {"completed", "failed", "waiting"}
    /\ w.policy.mapping \subseteq {"mapped", "unmapped", "overspent"}
    /\ w.policy.binding \subseteq {"bound", "unbound", "overran"}
    /\ \A n \in NodeSet(w.graph) : w.policy.recovery[n] \in Nat
    /\ \A n \in NodeSet(w.graph), k \in Contexts :
         /\ w.policy.writes[n][k] \subseteq Paths \ {<<>>}
         /\ \A p, q \in w.policy.writes[n][k] : PathsOverlap(p, q) => p = q
    /\ w.policy.asyncHooks => ~w.policy.cancellable

VARIABLES
  inv,       \* the Invocation
  working,   \* instances whose task is tracked by the mailbox
  mailbox,   \* its messages: <<instance, answer>>
  resuming,  \* the copies of the contexts that a binding in which a resume is
             \* suspended has written, by instance
  drivers,   \* how many tasks are inside _drive
  saved,     \* images of the Invocation that a crash may leave
  crashes    \* how often the process crashed

vars == <<workflow, inv, working, mailbox, resuming, drivers, saved, crashes>>

cursor == inv.cursor              \* the SchedulerContext
executions == inv.executions      \* state of the last NodeExecution of an instance
replays == inv.replays            \* its recovery_attempt
transitions == inv.transitions    \* transition_queue
waits == inv.waits                \* waiting_executions: instances, by wait key
state == inv.state                \* Invocation.state
deferred == inv.deferred          \* deferred_terminal_state
mode == inv.mode                  \* execution_mode
contexts == inv.contexts          \* of the Invocation and of its Session
bases == inv.bases                \* base_..._context_revision of an execution
commits == inv.commits            \* history: the revisions a binding made

UnfinishedStates == {"created", "running", "waiting"}
TerminalStates == {"completed", "failed", "cancelled", "interrupted"}
ActiveIn(now) == {i \in DOMAIN now.executions : now.executions[i] \in {"running", "waiting"}}
Active == ActiveIn(inv)

-----------------------------------------------------------------------------
(* What is recorded.  A step of the driver is a fold over an accumulator:  *)
(* the Invocation, the images of it that were recorded on the way, the     *)
(* instances to submit, and whether the driver returned.                   *)

Written(old, new, changed) ==
  [i \in DOMAIN old \cup changed |-> IF i \in changed THEN new[i] ELSE old[i]]

(* The state that an event makes durable: the Invocation as it is, but of  *)
(* its node executions only those that the event names.                    *)
Image(previous, now, changed) ==
  [now EXCEPT !.executions = Written(previous.executions, @, changed),
              !.replays = Written(previous.replays, @, changed),
              !.bases = Written(previous.bases, @, changed)]

Started(now) ==
  [inv |-> now, saved |-> IF saved = <<>> THEN <<>> ELSE <<Last(saved)>>,
   jobs |-> {}, returned |-> FALSE]

(* _record_event: a recovery point of the standard mode, or any event.     *)
Save(acc, changed) ==
  IF policy.crashes = 0 THEN acc
  ELSE [acc EXCEPT !.saved = Append(@, Image(Last(@), acc.inv, changed))]
SaveIfFull(acc, changed) == IF policy.events = "full" THEN Save(acc, changed) ELSE acc

(* Several events in a row, that name one execution after the other.       *)
SaveEach(acc, instances) ==
  LET order == SetToSeq(instances) IN
  IF policy.crashes = 0 THEN acc
  ELSE [acc EXCEPT !.saved = @ \o
         [k \in DOMAIN order |-> Image(Last(@), acc.inv, {order[j] : j \in 1 .. k})]]

Becomes(acc) == inv' = acc.inv /\ saved' = acc.saved

(* Invocation.__init__ and the genesis snapshot.                           *)
NewInvocation(entry) ==
  [cursor |-> Genesis(entry), executions |-> <<>>, replays |-> <<>>,
   transitions |-> <<>>, waits |-> <<>>, state |-> "created",
   deferred |-> "none", mode |-> "normal",
   contexts |-> [k \in Contexts |-> Empty], bases |-> <<>>, commits |-> <<>>]

Invoked(w, entry) ==
  LET g == Compiled(w.graph) IN
  [policy |-> w.policy, entry |-> entry,
   nodes |-> g.nodes, edges |-> g.edges, loops |-> g.loops, stack |-> g.stack]

Init ==
  /\ \E w \in Workflows : \E entry \in EntryNodes(w.graph) :
       workflow = Invoked(w, entry)
  /\ inv = NewInvocation(workflow.entry)
  /\ saved = IF policy.crashes = 0 THEN <<>> ELSE <<inv>>
  /\ working = {} /\ mailbox = <<>> /\ resuming = <<>> /\ drivers = 1
  /\ crashes = 0

-----------------------------------------------------------------------------
(* Workers.                                                                *)

(* A task ends: finish_task takes it off the tracked ones and posts.       *)
WorkerFinishes(i, answer) ==
  /\ i \in working /\ answer \in policy.outcomes
  /\ working' = working \ {i}
  /\ mailbox' = Append(mailbox, <<i, answer>>)
  /\ UNCHANGED <<workflow, inv, resuming, drivers, saved, crashes>>

-----------------------------------------------------------------------------
(* The driver: ainvoke, and the branches of the loop of _drive, in their   *)
(* order.                                                                  *)

(* The event invocation.running comes before the cursor is initialized,    *)
(* node.skipped after it.                                                  *)
Start ==
  /\ drivers > 0 /\ state = "created"
  /\ LET running == Save(Started([inv EXCEPT !.state = "running"]), {})
         initialized == [running EXCEPT !.inv.cursor = SchedulerInitialize(workflow)]
     IN  Becomes(IF initialized.inv.cursor.skipped = {} THEN initialized
                 ELSE Save(initialized, {}))
  /\ UNCHANGED <<workflow, working, mailbox, resuming, drivers, crashes>>

(* The loop looks at no other state than "failed".                         *)
Driving == drivers > 0 /\ state # "created" /\ ~Failed(cursor)

(* The images of a batch of transitions: the queue is drained first, each  *)
(* evaluated edge is an event of the full mode, and the nodes skipped are  *)
(* recorded when the batch is done.                                        *)
SaveEdges(acc, i, value) ==
  LET ids == IdsInOrder(workflow, Outgoing(workflow, Node(i)))
      after(k) == SchedulerEvaluate(workflow, acc.inv.cursor, i, value, SubSeq(ids, 1, k))
      evaluated == {k \in 1 .. Cardinality(Outgoing(workflow, Node(i))) : ~Failed(after(k))}
  IN  IF policy.crashes = 0 \/ policy.events # "full" THEN acc
      ELSE [acc EXCEPT !.saved = @ \o
             [k \in 1 .. Cardinality(evaluated) |->
                Image(Last(@), [acc.inv EXCEPT !.cursor = after(k), !.transitions = <<>>], {i})]]

SaveSkipped(acc) ==
  IF acc.saved # <<>> /\ acc.inv.transitions = <<>>
     /\ acc.inv.cursor.skipped # Last(acc.saved).cursor.skipped
  THEN Save(acc, {}) ELSE acc

(* Scheduler.next for one transition.                                      *)
Route(i) ==
  /\ Driving /\ transitions # <<>> /\ i = Head(transitions)
  /\ LET rest == Started([inv EXCEPT !.transitions = Tail(@)]) IN
     \/ /\ executions[i] = "completed"
        /\ \E value \in [Outgoing(workflow, Node(i)) -> {"true", "false", "raises"}] :
             /\ \A e \in DOMAIN value : value[e] \in workflow.edges[e].values
             /\ Becomes(SaveSkipped([SaveEdges(rest, i, value) EXCEPT
                  !.inv.cursor = SchedulerCompleted(workflow, @, i, value)]))
     \/ /\ executions[i] = "failed" /\ policy.failure = "fail_fast"
        /\ Becomes([rest EXCEPT !.inv.cursor = Fail(@, "NODE_FAILED")])
     \/ /\ executions[i] = "failed" /\ policy.failure = "continue_active_branches"
        /\ Becomes(SaveSkipped([rest EXCEPT !.inv.cursor = SchedulerBlocked(workflow, @, i),
                                            !.inv.deferred = "failed"]))
     \/ /\ executions[i] \notin {"completed", "failed"}
        /\ Becomes(SaveSkipped(rest))
  /\ UNCHANGED <<workflow, working, mailbox, resuming, drivers, crashes>>

(* interrupt_active_node_executions, cancel_active_node_executions: ends   *)
(* the active executions and empties the queues of the cursor.             *)
Quiet(now, end) ==
  [now EXCEPT !.executions = [i \in DOMAIN @ |->
                                IF i \in ActiveIn(now) THEN end ELSE @[i]],
              !.cursor = Cleared(@), !.waits = <<>>, !.transitions = <<>>]

InterruptUnfinished(acc) ==
  SaveEach([acc EXCEPT !.inv = Quiet(@, "interrupted")], ActiveIn(acc.inv))

(* _interrupt_recovery.  The workers are not abandoned.                    *)
InterruptRecovery(acc) ==
  LET gone == ActiveIn(acc.inv)
      quiet == InterruptUnfinished(acc)
  IN  [Save([quiet EXCEPT !.inv.state = "interrupted", !.inv.deferred = "none"], gone)
        EXCEPT !.returned = TRUE]

(* A node that recovery does not permit is skipped like an unselected      *)
(* branch.  mark_failed drops the deferred state.                          *)
SkipRejected(acc, i) ==
  LET after == SchedulerSkip(workflow, acc.inv.cursor, i) IN
  [acc EXCEPT !.inv.cursor = after,
              !.inv.deferred = IF Failed(after) THEN "none" ELSE "interrupted"]

Reject(acc, i) ==
  IF policy.failure = "fail_fast" THEN InterruptRecovery(acc)
  ELSE Save(SkipRejected(acc, i), {})

(* recovery_attempt of the next execution of an instance: one more than    *)
(* that of the interrupted one it replays.                                 *)
Attempt(now, i) == IF i \in DOMAIN now.executions THEN now.replays[i] + 1 ELSE 0
CountOf(now, n) ==
  MapThenSumSet(LAMBDA i : 1 + now.replays[i],
                {i \in DOMAIN now.executions : Node(i) = n})

(* Wrong: only the nodes that were active at the crash are asked.          *)
NotGated(now, i) == FALSE

OverLimit(now, i) == CountOf(now, Node(i)) >= policy.limit

(* mark_node_completed, mark_node_failed, mark_node_waiting.               *)
EndNode(now, i, end) ==
  [now EXCEPT !.executions[i] = end,
              !.waits = IF end = "waiting" THEN Extend(@, policy.keys[Node(i)], i) ELSE @,
              !.transitions = Append(@, i)]

Forbidden(now, i) ==
  /\ now.mode = "recovery"
  /\ policy.recovery[Node(i)] = 0 \/ Attempt(now, i) > policy.recovery[Node(i)]

(* The execution is created and runs; a mapping that raises or an operator *)
(* budget that is used up fails it alone.                                  *)
Begin(acc, i, fate) ==
  LET running == SaveIfFull(
        [acc EXCEPT !.inv.executions = Extend(@, i, "running"),
                    !.inv.replays = Extend(@, i, Attempt(acc.inv, i)),
                    !.inv.bases = Extend(@, i, Revisions(acc.inv.contexts)),
                    !.inv.cursor = Scheduled(@, i),
                    !.inv.state = "running"], {i})
      failed == [running EXCEPT !.inv = EndNode(@, i, "failed")]
  IN  CASE fate = "mapped" -> [running EXCEPT !.jobs = @ \cup {i}]
        [] fate = "unmapped" -> Save(failed, {i})
        [] fate = "overspent" -> failed

(* _submit_ready_requests: a request that is over the limit fails the      *)
(* Invocation and drops the ones after it.                                 *)
SubmitOne(acc, i, fate) ==
  IF acc.returned THEN acc
  ELSE IF Forbidden(acc.inv, i) THEN Reject(acc, i)
  ELSE IF OverLimit(acc.inv, i)
  THEN [acc EXCEPT !.inv.cursor = Fail(@, "RESOURCE_LIMIT_EXCEEDED"), !.returned = TRUE]
  ELSE Begin(acc, i, fate)

SubmitAll(first, queue, fate) ==
  LET after[k \in 0 .. Len(queue)] ==
        IF k = 0 THEN first ELSE SubmitOne(after[k - 1], queue[k], fate[queue[k]])
  IN  after[Len(queue)]

(* The jobs collected before the driver returned are submitted all the     *)
(* same.                                                                   *)
Submit ==
  /\ Driving /\ transitions = <<>> /\ cursor.ready # <<>>
  /\ \E fate \in [Range(cursor.ready) -> policy.mapping] :
       LET after == SubmitAll(Started([inv EXCEPT !.cursor = Cleared(@)]),
                              cursor.ready, fate)
       IN  /\ Becomes(after)
           /\ working' = working \cup after.jobs
           /\ drivers' = IF after.inv.state = "interrupted" THEN drivers - 1 ELSE drivers
  /\ UNCHANGED <<workflow, mailbox, resuming, crashes>>

(* Wrong: a wait takes over the key of another one.                        *)
StolenKey(now, i) == FALSE

KeyInUse(now, i) == policy.keys[Node(i)] \in DOMAIN now.waits

(* _run_output_binding: the hook works on copies of the contexts ...       *)
Copies(now, i) ==
  [k \in Contexts |-> PutAll(now.contexts[k].data, policy.writes[Node(i)][k], i)]

(* ... which are published together, or not at all.                        *)
Bind(now, i, copies) ==
  LET after == Committed(now.contexts, copies)
  IN  [now EXCEPT !.contexts = after,
                  !.commits = IF after = now.contexts THEN @
                              ELSE Extend(@, i, Revisions(after))]

(* A node whose Operator has completed ends as its binding does: it fails  *)
(* if the hook raises or meets a concurrent write.                         *)
Conclude(now, i, copies, fate) ==
  IF fate = "bound" /\ CanCommit(now.contexts, copies, now.bases[i])
  THEN EndNode(Bind(now, i, copies), i, "completed")
  ELSE EndNode(now, i, "failed")

(* _apply_result: a wait whose key is already in use fails its node, and   *)
(* so does an output binding that raises or a runtime over its limit.      *)
ApplyOne(acc, message, fate) ==
  LET i == message[1]
      answered(end) == [acc EXCEPT !.inv = EndNode(@, i, end)]
  IN  IF fate # "overran" /\ message[2] = "completed"
      THEN Save([acc EXCEPT !.inv = Conclude(@, i, Copies(@, i), fate)], {i})
      ELSE IF fate # "overran" /\ message[2] = "waiting" /\ ~KeyInUse(acc.inv, i)
      THEN SaveIfFull(answered("waiting"), {i})
      ELSE Save(answered("failed"), {i})

ApplyAll(first, messages, fate) ==
  LET after[k \in 0 .. Len(messages)] ==
        IF k = 0 THEN first
        ELSE ApplyOne(after[k - 1], messages[k], fate[messages[k][1]])
  IN  after[Len(messages)]

Receive ==
  /\ Driving /\ transitions = <<>> /\ cursor.ready = <<>> /\ mailbox # <<>>
  /\ \E fate \in [{m[1] : m \in Range(mailbox)} -> policy.binding] :
       Becomes(ApplyAll(Started(inv), mailbox, fate))
  /\ mailbox' = <<>>
  /\ UNCHANGED <<workflow, working, resuming, drivers, crashes>>

(* Nothing to route, to submit or to wait for in this process.             *)
Stable ==
  /\ Driving /\ transitions = <<>> /\ cursor.ready = <<>>
  /\ working = {} /\ mailbox = <<>>

Stop(final) ==
  /\ Becomes(Save(Started([inv EXCEPT !.state = final, !.deferred =
                             IF final = "waiting" THEN @ ELSE "none"]), Range(waits)))
  /\ drivers' = drivers - 1
  /\ UNCHANGED <<workflow, working, mailbox, resuming, crashes>>

Park == Stable /\ waits # <<>> /\ Stop("waiting")

(* mark_failed; the next turn finishes the failed Invocation.              *)
FailWith(code) ==
  /\ Becomes(Started([inv EXCEPT !.cursor = Fail(@, code), !.deferred = "none"]))
  /\ UNCHANGED <<workflow, working, mailbox, resuming, drivers, crashes>>

TerminateFailed ==
  Stable /\ waits = <<>> /\ deferred = "failed" /\ FailWith("DEFERRED_BRANCH_FAILURE")
TerminateInterrupted ==
  Stable /\ waits = <<>> /\ deferred = "interrupted" /\ Stop("interrupted")

HasResult == \E i \in DOMAIN executions :
  executions[i] = "completed" /\ Node(i) \in ExitNodes(workflow)

(* Wrong: a result is enough, whoever still waits.                         *)
CompleteEarly ==
  Stable /\ deferred = "none" /\ HasResult /\ Stop("completed")

(* Wrong: a failure that was put off is forgotten.                         *)
CompleteAnyway == Stable /\ waits = <<>> /\ HasResult /\ Stop("completed")

Complete ==
  Stable /\ waits = <<>> /\ deferred = "none" /\ HasResult /\ Stop("completed")

DeadEnd ==
  Stable /\ waits = <<>> /\ deferred = "none" /\ ~HasResult
  /\ FailWith("WORKFLOW_DEAD_END")

(* _cancel_unfinished_nodes: also detaches the workers.                    *)
Abandon(final) ==
  /\ LET marked == IF final = "failed" THEN [inv EXCEPT !.state = "failed"] ELSE inv
         quiet == SaveEach(Started(Quiet(marked, "cancelled")), Active)
     IN  Becomes(Save([quiet EXCEPT !.inv.state = final, !.inv.deferred = "none"], Active))
  /\ working' = {} /\ mailbox' = <<>>
  /\ drivers' = IF drivers > 0 THEN drivers - 1 ELSE 0
  /\ UNCHANGED <<workflow, resuming, crashes>>

FinishFailed == drivers > 0 /\ Failed(cursor) /\ Abandon("failed")

(* An exception escapes: afail_infrastructure.                             *)
Raise ==
  /\ policy.raises /\ drivers > 0 /\ state # "created" /\ ~Failed(cursor)
  /\ Abandon("failed")

-----------------------------------------------------------------------------
(* The outside.                                                            *)

(* aclaim_waiting_session looks at the state and at the key, and changes   *)
(* neither; the first thing aresume does is to take the key.               *)
Claimed(key) ==
  SaveIfFull(Started([inv EXCEPT !.waits = [k \in DOMAIN @ \ {key} |-> @[k]]]),
             {waits[key]})
Claim(key) ==
  /\ state = "waiting" /\ key \in DOMAIN waits
  /\ Becomes(Claimed(key))

(* After the binding: the original execution completes (or its binding     *)
(* failed), and the same Invocation is driven on.  mark_running is called  *)
(* unless other waits are left, and it overwrites any state.               *)
Continued(acc, i, copies, fate) ==
  LET ended == Save([acc EXCEPT !.inv = Conclude(@, i, copies, fate)], {i})
  IN  IF ended.inv.waits # <<>> THEN ended
      ELSE Save([ended EXCEPT !.inv.state = "running", !.inv.cursor = Unfailed(@)], {})

Continue(acc, i, copies) ==
  /\ \E fate \in policy.binding \ {"overran"} : Becomes(Continued(acc, i, copies, fate))
  /\ drivers' = drivers + 1
  /\ UNCHANGED <<workflow, working, mailbox, crashes>>

(* A resume whose hooks do not suspend has the event loop until it parks,  *)
(* ends or makes the state "running" with a node it submits.               *)
Resume(key) ==
  /\ ~policy.asyncHooks /\ drivers = 0
  /\ state = "waiting" /\ key \in DOMAIN waits
  /\ Continue(Claimed(key), waits[key], Copies(inv, waits[key]))
  /\ UNCHANGED resuming

ResumeSuspends(key) ==
  /\ policy.asyncHooks
  /\ Claim(key)
  /\ resuming' = Extend(resuming, waits[key], Copies(inv, waits[key]))
  /\ UNCHANGED <<workflow, working, mailbox, drivers, crashes>>

ResumeContinues(i) ==
  /\ i \in DOMAIN resuming
  /\ resuming' = [j \in DOMAIN resuming \ {i} |-> resuming[j]]
  /\ Continue(Started(inv), i, resuming[i])

(* CancelledError reaches the driver, or acancel finds none (the server    *)
(* then asks for the state "waiting").                                     *)
Cancel ==
  /\ policy.cancellable /\ state \in {"running", "waiting"}
  /\ drivers > 0 \/ state = "waiting"
  /\ Abandon("cancelled")

-----------------------------------------------------------------------------
(* Crash and recovery.                                                     *)

(* The invocations that alist_recoverable_invocation_ids finds.            *)
Recoverable(image) == image.state \in UnfinishedStates /\ ~Failed(image.cursor)

(* astart leaves a waiting Invocation as it is.                            *)
RestartWaiting(image) ==
  /\ image.state = "waiting"
  /\ inv' = image /\ saved' = <<image>> /\ drivers' = 0

(* arecover of a created Invocation is ainvoke in recovery mode.           *)
RestartCreated(image) ==
  /\ image.state = "created"
  /\ inv' = [image EXCEPT !.mode = "recovery"] /\ saved' = <<image>> /\ drivers' = 1

Permitted(now, i) == now.replays[i] < policy.recovery[Node(i)]

(* arecover, for one execution that was active: it is queued again, or     *)
(* rejected.                                                               *)
RecoverOne(acc, i) ==
  LET lost == Save([acc EXCEPT !.inv.executions[i] = "interrupted"], {i}) IN
  IF acc.returned THEN acc
  ELSE IF Permitted(acc.inv, i)
  THEN [lost EXCEPT !.inv.cursor = Queued(@, i)]
  ELSE IF policy.failure = "fail_fast" THEN InterruptRecovery(lost)
  ELSE SkipRejected(lost, i)

RecoverAll(first, order) ==
  LET after[k \in 0 .. Len(order)] ==
        IF k = 0 THEN first ELSE RecoverOne(after[k - 1], order[k])
  IN  after[Len(order)]

RestartRunning(image) ==
  LET active == {i \in DOMAIN image.executions : image.executions[i] = "running"}
      first == [Started([image EXCEPT !.mode = "recovery"]) EXCEPT !.saved = <<image>>]
  IN
  /\ image.state = "running"
  /\ \E order \in SetToSeqs(active) :
       LET after == RecoverAll(first, order)
           running == [after EXCEPT !.inv.state = "running", !.inv.cursor = Unfailed(@)]
       IN  IF after.returned THEN Becomes(after) /\ drivers' = 0
           ELSE /\ Becomes(IF active = {} THEN running ELSE Save(running, active))
                /\ drivers' = 1

Crash(image) ==
  /\ crashes < policy.crashes /\ crashes' = crashes + 1
  /\ Recoverable(image)
  /\ RestartWaiting(image) \/ RestartCreated(image) \/ RestartRunning(image)
  /\ working' = {} /\ mailbox' = <<>> /\ resuming' = <<>>
  /\ UNCHANGED workflow

Finished ==
  /\ state \in TerminalStates /\ drivers = 0 /\ resuming = <<>>
  /\ UNCHANGED vars

(* The crash fell between the two events of a resume: the Invocation waits *)
(* for no key, so nothing resumes it, and startup passes it by.            *)
Stranded ==
  /\ state = "waiting" /\ waits = <<>> /\ drivers = 0 /\ resuming = <<>> /\ crashes > 0
  /\ UNCHANGED vars

Drive ==
  \/ Start \/ \E i \in DOMAIN executions : Route(i)
  \/ Submit \/ Receive \/ Park \/ TerminateFailed \/ TerminateInterrupted
  \/ Complete \/ DeadEnd \/ FinishFailed \/ Raise

Answer == \E i \in working, answer \in policy.outcomes : WorkerFinishes(i, answer)

Next ==
  \/ Drive \/ Answer
  \/ \E key \in DOMAIN waits : Resume(key) \/ ResumeSuspends(key)
  \/ \E i \in DOMAIN resuming : ResumeContinues(i)
  \/ Cancel \/ Finished
  \/ \E image \in Range(saved) : Crash(image)
  \/ Stranded

Spec == Init /\ [][Next]_vars

-----------------------------------------------------------------------------
Pending == Range(cursor.ready) \cup Active

(* A node instance runs once at most, and never if it was skipped:         *)
(* "executes once when at least one incoming edge was selected" (docs-     *)
(* deprecated/05-Execution/2 - V1 Execution Invariants.md).  The skipping  *)
(* of a whole loop marks its nodes without looking, so this is not local.  *)
(* Recovery skips an instance that was scheduled, and queues again one     *)
(* whose execution was interrupted.  What was scheduled was handed out     *)
(* and not dropped, with one frame in its scope for each loop around its   *)
(* node.  An edge occurrence is resolved once, or twice alike:             *)
(* resolve_edge and resolve_loop_boundary never raise their ValueError.    *)
ScheduledOnce ==
  /\ mode = "normal" => cursor.scheduled \cap cursor.skipped = {}
  /\ DOMAIN executions \subseteq cursor.scheduled \cup {<<workflow.entry, <<>>>>}
  /\ cursor.ready \in Seq(cursor.scheduled \cup {<<workflow.entry, <<>>>>})
  /\ \A i \in DOMAIN executions \cap Range(cursor.ready) :
       mode = "recovery" /\ executions[i] = "interrupted"
  /\ IsInjective(cursor.ready)
  /\ mode = "normal" /\ state \in UnfinishedStates /\ ~Failed(cursor) =>
       cursor.scheduled \subseteq DOMAIN executions \cup Range(cursor.ready)
  /\ \A i \in Range(cursor.ready) :
       /\ Node(i) \in NodeSet(workflow)
       /\ [k \in DOMAIN Scope(i) |-> Scope(i)[k][1]] = workflow.stack[Node(i)]
  /\ cursor.error # "ValueError"

(* The frames that the scopes of two instances have in common when they    *)
(* belong to the same iteration of every loop around both nodes.           *)
SharedLoops(i, j) ==
  Max({0} \cup {k \in 1 .. Len(workflow.stack[Node(i)]) :
    /\ k <= Len(workflow.stack[Node(j)])
    /\ workflow.stack[Node(i)][k] = workflow.stack[Node(j)][k]})
SameIteration(i, j) ==
  LET k == SharedLoops(i, j) IN SubSeq(Scope(i), 1, k) = SubSeq(Scope(j), 1, k)

(* Fan-in: when a node is scheduled, nothing that could still select one   *)
(* of its incoming edges is ready, running or waiting, whichever order the *)
(* branches finished in and however many iterations of an inner loop they  *)
(* took.                                                                   *)
FanInComplete ==
  \A i \in cursor.scheduled, j \in Pending :
    SameIteration(i, j) =>
      \A e \in Outgoing(workflow, Node(j)) :
        workflow.edges[e].to # Node(i)
          \/ \E h \in DOMAIN workflow.loops : e \in workflow.loops[h].back

(* An iteration of a loop starts when the one before it has come to rest,  *)
(* inner loops and side branches of the body included: "After the whole    *)
(* acyclic iteration body quiesces, the boundary either creates the next   *)
(* header scope or resolves exits" (Scheduler).                            *)
IterationsSequential ==
  \A i \in cursor.scheduled, j \in Pending :
    \A k \in 1 .. SharedLoops(i, j) :
      SubSeq(Scope(i), 1, k - 1) = SubSeq(Scope(j), 1, k - 1)
        => Scope(i)[k][2] <= Scope(j)[k][2]

(* No resume suspends in its binding, so one driver runs at a time.  Two   *)
(* that overlap may end an Invocation over each other's head: what they    *)
(* break is TerminalQuiet, and with it the two properties below.           *)
Exclusive == ~policy.asyncHooks

(* The drive loop has run out of work.                                     *)
RunOut ==
  state = "completed" \/ cursor.error \in {"WORKFLOW_DEAD_END", "DEFERRED_BRANCH_FAILURE"}
Decides == \A n \in ExitNodes(workflow) :
  <<n, <<>>>> \in cursor.scheduled \cup cursor.skipped

(* When the drive loop has run out of work, each exit node was executed or *)
(* skipped: no path of the workflow is left undecided and silently dropped *)
(* from the result.  A recovery decides as much from the images of the     *)
(* standard mode; one of the full mode may hold a queue that was drained.  *)
ExitsDecided ==
  Exclusive /\ RunOut /\ (mode = "normal" \/ policy.events = "standard") => Decides

(* The result of a completed Invocation is made of everything its          *)
(* scheduler had selected, executed to the end: nothing that was scheduled *)
(* was lost on the way, in a crash say, nor failed or was cancelled beside *)
(* the exit that made the result.                                          *)
NothingLost ==
  Exclusive /\ state = "completed" =>
    \A i \in cursor.scheduled : i \in DOMAIN executions /\ executions[i] = "completed"

(* Each waiting execution can be resumed, under one key of its own, a key  *)
(* never outlives its execution, and no two resumes take the same one: "An *)
(* active wait key is unique within an Invocation and cannot be consumed   *)
(* twice" (docs-deprecated/05-Execution/2 - V1 Execution Invariants.md).   *)
WaitsExact ==
  /\ Range(waits) = {i \in DOMAIN executions : executions[i] = "waiting"} \ DOMAIN resuming
  /\ \A k, l \in DOMAIN waits : waits[k] = waits[l] => k = l

(* Nothing is ready, runs, waits or is being resumed for an Invocation     *)
(* that is over, and its workers are detached.                             *)
TerminalQuiet ==
  state \in TerminalStates =>
    /\ Pending = {} /\ working = {} /\ resuming = <<>>
    /\ transitions = <<>> /\ waits = <<>>

(* The same for one driver at a time.                                      *)
QuietAtEnd == Exclusive => TerminalQuiet

(* After a crash only those nodes run whose RecoveryPolicy permits it, and *)
(* no logical occurrence of one is replayed more than max_attempts times,  *)
(* whether it was active when the process ended or became ready later.     *)
RecoveryGated ==
  mode = "recovery" =>
    /\ \A i \in working : policy.recovery[Node(i)] > 0
    /\ \A i \in DOMAIN replays : replays[i] <= policy.recovery[Node(i)]

(* What the bindings of completed nodes wrote is in the contexts, unless a *)
(* node that began after that wrote over it; nothing of a binding that     *)
(* failed is, in neither of the contexts.  No update gets lost between     *)
(* branches that run side by side, or while a binding is suspended:        *)
(* "Atomically publish one Output Binding or reject a concurrent overlap"  *)
(* (commit_isolated).                                                      *)
ContextsExact ==
  /\ \A k \in Contexts : \A p \in DOMAIN contexts[k].data :
       contexts[k].data[p] # Dict =>
         LET i == contexts[k].data[p][1]
         IN  executions[i] = "completed" /\ p \in policy.writes[Node(i)][k]
  /\ \A i \in DOMAIN executions : executions[i] = "completed" =>
       \A k \in Contexts : \A p \in policy.writes[Node(i)][k] :
         \/ p \in DOMAIN contexts[k].data /\ contexts[k].data[p] = <<i>>
         \/ \E j \in DOMAIN commits :
              /\ commits[j][k] > commits[i][k] /\ bases[j][k] >= commits[i][k]
              /\ \E q \in policy.writes[Node(j)][k] : PathsOverlap(p, q)

(* FailurePolicy(mode="continue_active_branches"): "allow already active   *)
(* independent branches to finish"; what a failed node blocks is skipped,  *)
(* the Invocation fails when the others are done.  A node in a loop may    *)
(* leave its iteration nothing to continue or to exit with, which fails    *)
(* the Invocation at once.                                                 *)
ContinueKeepsBranches ==
  [][/\ policy.failure = "continue_active_branches"
     /\ transitions # <<>> /\ executions[Head(transitions)] = "failed"
     /\ workflow.stack[Node(Head(transitions))] = <<>>
     /\ transitions' = Tail(transitions) /\ drivers' = drivers /\ crashes' = crashes
     => ~Failed(cursor')]_vars
=============================================================================
