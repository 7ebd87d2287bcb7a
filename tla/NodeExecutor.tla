---------------------------- MODULE NodeExecutor ----------------------------
(* NodeExecutor of core/executor/node_executor.py: the execution of nodes  *)
(* that share one key of RuntimeConcurrencyController.  An execution takes *)
(* a slot, splits its input into units (items of a map, replicas, or one), *)
(* and runs them in a bounded number of unit workers; a unit calls the     *)
(* candidate Operators in turn, each up to MaxAttempts times.  Coroutine   *)
(* handlers run on the event loop, the others in the shared thread pool,   *)
(* where a handler that has started cannot be stopped.                     *)
(*                                                                         *)
(* A step ends where the code awaits.  Values, durations, progress         *)
(* messages and phases are left out; a coroutine handler ends when it is   *)
(* cancelled, and consuming a stream is part of the call.                  *)
EXTENDS Integers, Sequences, FiniteSets, FiniteSetsExt, SequencesExt, Subsequences

CONSTANTS
  Executions,
  Units,          \* units of each execution
  Candidates,     \* resolved Operators in order: "async" or "sync"
  MaxAttempts,    \* RetryPolicy.max_attempts
  AttemptLimit,   \* attempts left of the ResourcePolicy; large: no limit
  Parallelism,    \* max_parallel_units and the policies' max_parallelism
  Threads,        \* max_thread_workers
  SlotLimit,      \* NodePolicy.max_concurrency
  Timeouts        \* whether there is a TimeoutPolicy

ASSUME ExecutorAssumption ==
  /\ IsFiniteSet(Executions)
  /\ Units \in [Executions -> Nat] /\ AttemptLimit \in [Executions -> Nat]
  /\ Candidates \in Seq({"async", "sync"}) /\ Candidates # <<>>
  /\ {MaxAttempts, Parallelism, Threads, SlotLimit} \subseteq Nat \ {0}
  /\ Timeouts \in BOOLEAN

VARIABLES
  phase,    \* where the task of an execution is
  free,     \* value of the semaphore
  units,    \* unit iterator, budget, workers and results of an execution
  queued,   \* calls waiting for a thread
  running,  \* calls a thread executes, awaited or not
  answer    \* state of the NodeExecutionResult posted to the mailbox

vars == <<phase, free, units, queued, running, answer>>

Workers == 1 .. Parallelism
Idle == [at |-> "ended", unit |-> 0, op |-> 0, attempt |-> 0]
NoUnits == [next |-> 1, budget |-> 0, workers |-> [w \in Workers |-> Idle],
            tried |-> <<>>, results |-> {}]

Init ==
  /\ phase = [x \in Executions |-> "new"]
  /\ free = SlotLimit
  /\ units = [x \in Executions |-> NoUnits]
  /\ queued = <<>> /\ running = {}
  /\ answer = [x \in Executions |-> "none"]

(* Inside async_slot of _execute_job.                                      *)
Holding == {"preparing", "units", "aggregating"}
Live == {"created", "calling", "backoff"}

(* submit_batch passes on as many candidates as attempts are left.         *)
Operators(x) == SubSeq(Candidates, 1, Min({Len(Candidates), AttemptLimit[x]}))

-----------------------------------------------------------------------------
(* Unit workers: operators from the state r of the units to the next one.  *)

(* The calls of x that its workers await in the thread pool.               *)
CallOf(x, worker) == <<x, worker.unit, worker.op, worker.attempt>>
Awaited(x, r) ==
  {CallOf(x, r.workers[w]) :
     w \in {v \in Workers : r.workers[v].at = "calling"
                            /\ Operators(x)[r.workers[v].op] = "sync"}}

UnitEnds(r, w, error) ==
  LET u == r.workers[w].unit
  IN [r EXCEPT !.results = @ \cup {[unit |-> u, error |-> error, attempts |-> r.tried[u]]}]

UnitFails(r, w) == [UnitEnds(r, w, TRUE) EXCEPT !.workers[w].at = "failed"]

(* An attempt needs a call of the budget all workers share.                *)
StartAttempt(r, w, op, attempt) ==
  IF r.budget = 0 THEN UnitFails(r, w)
  ELSE [r EXCEPT !.budget = @ - 1,
                 !.workers[w] = [@ EXCEPT !.at = "calling", !.op = op, !.attempt = attempt]]

TakeUnit(x, r, w) ==
  IF r.next > Units[x] THEN [r EXCEPT !.workers[w].at = "ended"]
  ELSE StartAttempt([r EXCEPT !.next = @ + 1, !.workers[w].unit = r.next], w, 1, 1)

AttemptReason(op, attempt) ==
  IF attempt > 1 THEN "retry" ELSE IF op > 1 THEN "fallback" ELSE "normal"

(* The attempts of a unit that were made, by their reasons.                *)
Counted(r, w) ==
  LET me == r.workers[w]
  IN  [r EXCEPT !.tried[me.unit] = Append(@, AttemptReason(me.op, me.attempt))]

Succeeds(x, r, w) == TakeUnit(x, UnitEnds(Counted(r, w), w, FALSE), w)

(* After a failure: wait and retry, or the next candidate, or give up.     *)
Fails(x, r, w) ==
  LET c == Counted(r, w)
      me == r.workers[w]
  IN CASE me.attempt < MaxAttempts -> [c EXCEPT !.workers[w].at = "backoff"]
       [] me.attempt = MaxAttempts /\ me.op < Len(Operators(x)) ->
            StartAttempt(c, w, me.op + 1, 1)
       [] OTHER -> UnitFails(c, w)

(* Cancelling the task of a worker takes back a call that has not started. *)
CancelWorkers(r) ==
  [r EXCEPT !.workers =
     [w \in Workers |-> IF r.workers[w].at \in Live
                        THEN [r.workers[w] EXCEPT !.at = "cancelled"] ELSE r.workers[w]]]

(* Wrong: a call nobody awaits any more stays in the queue of the pool.    *)
PoolKeeps(x, r) ==
  queued \o SetToSeq(Awaited(x, r) \ (Range(queued) \cup running))

(* The queue of the pool once the workers of x are as in r.                *)
Pool(x, r) ==
  Kept(queued, {c \in Range(queued) : c[1] = x => c \in Awaited(x, r)})
    \o SetToSeq(Awaited(x, r) \ (Range(queued) \cup running))

(* The workers of x move on to r.                                          *)
Move(x, r) ==
  /\ units' = [units EXCEPT ![x] = r]
  /\ queued' = Pool(x, r)

(* The task of x ends: it gives back its slot, and its done callback posts *)
(* the answer.                                                             *)
Finish(x, a) ==
  /\ phase' = [phase EXCEPT ![x] = "answered"]
  /\ answer' = [answer EXCEPT ![x] = a]
  /\ free' = IF phase[x] \in Holding THEN free + 1 ELSE free

-----------------------------------------------------------------------------
(* What kind of job an execution is shows when it is submitted.            *)
(* _execute_system_command answers a SystemCommand without a task: a wait  *)
(* is accepted, or its policies or its input are not.                      *)
ExecuteCommand(x) ==
  /\ phase[x] = "new"
  /\ \E a \in {"waiting", "failed"} : Finish(x, a)
  /\ UNCHANGED <<units, queued, running>>

(* So does a job without a task: no Operator is to be resolved, or no      *)
(* attempt is left.                                                        *)
AnswerAtOnce(x) ==
  /\ phase[x] = "new"
  /\ Finish(x, "failed")
  /\ UNCHANGED <<units, queued, running>>

Submit(x) ==
  /\ phase[x] = "new" /\ AttemptLimit[x] > 0
  /\ phase' = [phase EXCEPT ![x] = "slot"]
  /\ UNCHANGED <<free, units, queued, running, answer>>

AcquireSlot(x) ==
  /\ phase[x] = "slot" /\ free > 0
  /\ free' = free - 1
  /\ phase' = [phase EXCEPT ![x] = "preparing"]
  /\ UNCHANGED <<units, queued, running, answer>>

(* The item selector of a map may be a coroutine; it or the validation of  *)
(* the units' inputs may fail.                                             *)
PrepareFails(x) ==
  /\ phase[x] = "preparing"
  /\ Finish(x, "failed")
  /\ UNCHANGED <<units, queued, running>>

Prepare(x) ==
  /\ phase[x] = "preparing"
  /\ phase' = [phase EXCEPT ![x] = "units"]
  /\ units' = [units EXCEPT ![x] =
       [next |-> 1, budget |-> AttemptLimit[x],
        workers |-> [w \in Workers |->
          IF w <= Units[x] THEN [Idle EXCEPT !.at = "created"] ELSE Idle],
        tried |-> [u \in 1 .. Units[x] |-> <<>>], results |-> {}]]
  /\ UNCHANGED <<free, queued, running, answer>>

WorkerStarts(x, w) ==
  /\ units[x].workers[w].at = "created"
  /\ Move(x, TakeUnit(x, units[x], w))
  /\ UNCHANGED <<phase, free, running, answer>>

Calling(x, w, kind) ==
  /\ units[x].workers[w].at = "calling"
  /\ Operators(x)[units[x].workers[w].op] = kind

(* A coroutine handler returns, raises, or returns what the contracts of   *)
(* Operator and node reject.                                               *)
HandlerReturns(x, w) ==
  /\ Calling(x, w, "async")
  /\ \/ Move(x, Succeeds(x, units[x], w))
     \/ Move(x, Fails(x, units[x], w))
  /\ UNCHANGED <<phase, free, running, answer>>

ThreadStarts ==
  /\ queued # <<>> /\ Cardinality(running) < Threads
  /\ running' = running \cup {Head(queued)}
  /\ queued' = Tail(queued)
  /\ UNCHANGED <<phase, free, units, answer>>

(* A handler returns in its thread to the worker that awaits it ...        *)
ThreadReturns(x, w) ==
  /\ Calling(x, w, "sync")
  /\ CallOf(x, units[x].workers[w]) \in running
  /\ running' = running \ {CallOf(x, units[x].workers[w])}
  /\ \/ Move(x, Succeeds(x, units[x], w))
     \/ Move(x, Fails(x, units[x], w))
  /\ UNCHANGED <<phase, free, answer>>

(* ... or to nobody, its worker having timed out or been cancelled.        *)
OrphanReturns(c) ==
  /\ c \in running \ Awaited(c[1], units[c[1]])
  /\ running' = running \ {c}
  /\ UNCHANGED <<phase, free, units, queued, answer>>

(* Wrong: the time a call spends in the queue of the pool does not count.  *)
TimesOutRunning(x, w) ==
  /\ Timeouts /\ units[x].workers[w].at = "calling"
  /\ CallOf(x, units[x].workers[w]) \notin Range(queued)
  /\ Move(x, Fails(x, units[x], w))
  /\ UNCHANGED <<phase, free, running, answer>>

(* asyncio.wait_for of TimeoutPolicy, whether the call has started or not. *)
TimesOut(x, w) ==
  /\ Timeouts /\ units[x].workers[w].at = "calling"
  /\ Move(x, Fails(x, units[x], w))
  /\ UNCHANGED <<phase, free, running, answer>>

BackoffEnds(x, w) ==
  /\ units[x].workers[w].at = "backoff"
  /\ Move(x, StartAttempt(units[x], w, units[x].workers[w].op, units[x].workers[w].attempt + 1))
  /\ UNCHANGED <<phase, free, running, answer>>

(* Wrong: the other workers are left alone.                                *)
UnitsFailAlone(x) ==
  /\ phase[x] = "units"
  /\ \E w \in Workers : units[x].workers[w].at = "failed"
  /\ Finish(x, "failed")
  /\ UNCHANGED <<units, queued, running>>

(* A worker has returned True: _execute_units cancels the other ones, and  *)
(* _aggregate_unit_results answers without an await.                       *)
UnitsFail(x) ==
  /\ phase[x] = "units"
  /\ \E w \in Workers : units[x].workers[w].at = "failed"
  /\ Move(x, CancelWorkers(units[x]))
  /\ Finish(x, "failed")
  /\ UNCHANGED running

(* Wrong: the first worker without a unit ends the wait.                   *)
UnitsEndEarly(x) ==
  /\ phase[x] = "units"
  /\ \E w \in Workers : units[x].workers[w].at = "ended"
  /\ phase' = [phase EXCEPT ![x] = "aggregating"]
  /\ UNCHANGED <<free, units, queued, running, answer>>

UnitsEnd(x) ==
  /\ phase[x] = "units"
  /\ \A w \in Workers : units[x].workers[w].at = "ended"
  /\ phase' = [phase EXCEPT ![x] = "aggregating"]
  /\ UNCHANGED <<free, units, queued, running, answer>>

(* The aggregator may be a coroutine; it or the final contract may fail.   *)
Aggregate(x) ==
  /\ phase[x] = "aggregating"
  /\ \E a \in {"completed", "failed"} : Finish(x, a)
  /\ UNCHANGED <<units, queued, running>>

(* Wrong: the slot stays taken.                                            *)
AbandonHoldingSlot(x) ==
  /\ phase[x] \in {"slot"} \cup Holding
  /\ Move(x, CancelWorkers(units[x]))
  /\ phase' = [phase EXCEPT ![x] = "answered"]
  /\ answer' = [answer EXCEPT ![x] = "cancelled"]
  /\ UNCHANGED <<free, running>>

(* abandon of the mailbox cancels the task wherever it waits; the task     *)
(* cancels its workers on its way out.                                     *)
Abandon(x) ==
  /\ phase[x] \in {"slot"} \cup Holding
  /\ Move(x, CancelWorkers(units[x]))
  /\ Finish(x, "cancelled")
  /\ UNCHANGED running

(* _parallel_execution: what is kept of the calls of an execution, and     *)
(* counts against its limit on attempts from then on.                      *)
Attempts(x, reasons) ==
  LET made == [r \in units[x].results |->
                 Cardinality({k \in DOMAIN r.attempts : r.attempts[k] \in reasons})]
  IN  MapThenSumSet(LAMBDA r : made[r], units[x].results)
Ended(x, error) == Cardinality({r \in units[x].results : r.error = error})
Summary(x) ==
  [calls |-> Units[x], attempts |-> Attempts(x, {"normal", "fallback", "retry"}),
   successes |-> Ended(x, FALSE), failures |-> Ended(x, TRUE),
   cancelled |-> Max({0, Units[x] - Ended(x, FALSE) - Ended(x, TRUE)}),
   retries |-> Attempts(x, {"retry"}), fallbacks |-> Attempts(x, {"fallback"})]

-----------------------------------------------------------------------------
(* What the event loop and the thread pool do by themselves.               *)
Works(x) ==
  \/ AcquireSlot(x) \/ Prepare(x) \/ UnitsFail(x) \/ UnitsEnd(x) \/ Aggregate(x)
  \/ \E w \in Workers :
       WorkerStarts(x, w) \/ TimesOut(x, w) \/ BackoffEnds(x, w)

Returns(x) ==
  \E w \in Workers : HandlerReturns(x, w) \/ ThreadReturns(x, w)

Next ==
  \/ \E x \in Executions :
       Submit(x) \/ ExecuteCommand(x) \/ AnswerAtOnce(x) \/ PrepareFails(x) \/ Abandon(x)
         \/ Works(x) \/ Returns(x)
  \/ ThreadStarts
  \/ \E c \in running : OrphanReturns(c)

Spec == Init /\ [][Next]_vars

(* Handlers may hang: nothing is assumed of their returning.               *)
FairSpec ==
  /\ Spec
  /\ \A x \in Executions : WF_vars(Works(x))

-----------------------------------------------------------------------------
(* The slots in use are those of the executions under way, whichever way   *)
(* an execution ended: RuntimeConcurrencyController never runs dry.        *)
SlotsExact ==
  free = SlotLimit - Cardinality({x \in Executions : phase[x] \in Holding})

(* A handler only ever starts for a worker that still awaits it: after a   *)
(* timeout, the failure of another unit or an abandoned Invocation, a call *)
(* that is still queued is taken back; and no awaited call gets lost.      *)
QueueExact ==
  /\ IsInjective(queued) /\ Range(queued) \cap running = {}
  /\ Range(queued) \subseteq UNION {Awaited(x, units[x]) : x \in Executions}
  /\ \A x \in Executions : Awaited(x, units[x]) \subseteq Range(queued) \cup running

(* Once an execution has answered, nothing of it is left on the event      *)
(* loop: no worker calls a handler, waits for a retry or takes a unit.     *)
QuietAfterAnswer ==
  \A x \in Executions : phase[x] = "answered" =>
    \A w \in Workers : units[x].workers[w].at \notin Live

(* A completed answer aggregates exactly one output of every unit, and     *)
(* every attempt started for it is on record, so that the limit on the     *)
(* attempts of a node counts them.  Whatever the order in which the        *)
(* workers retried and fell back, the summary adds up: one normal call for *)
(* each unit, the rest retries and fallbacks; none cancelled.              *)
CompletedWhole ==
  \A x \in Executions : answer[x] = "completed" =>
    LET kept == Summary(x) IN
    /\ {r.unit : r \in units[x].results} = 1 .. Units[x]
    /\ kept.successes = kept.calls /\ kept.failures = 0 /\ kept.cancelled = 0
    /\ kept.attempts = AttemptLimit[x] - units[x].budget
    /\ kept.attempts = kept.calls + kept.retries + kept.fallbacks

(* With a TimeoutPolicy every submitted execution is answered at last,     *)
(* even if no handler ever returns and hung threads fill the pool.         *)
EventuallyAnswered ==
  \A x \in Executions : phase[x] = "slot" ~> phase[x] = "answered"
=============================================================================
