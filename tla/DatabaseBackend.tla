--------------------------- MODULE DatabaseBackend ---------------------------
(***************************************************************************)
(* The asynchronous persistence pipeline: RuntimeStore producers on the    *)
(* Runtime threads, the PersistenceCoordinator between them, and the       *)
(* writer task of DatabaseBackend on the event loop of the database thread *)
(* (src/autoagent/core/runtime/backends/database.py, _persistence_loop and *)
(* what it calls; store.py, _publish_persistence and                       *)
(* _publish_user_event_persistence).                                       *)
(*                                                                         *)
(* The writer only yields at its awaits (Awaiting): callbacks that other   *)
(* threads scheduled on its loop, such as the wake-up signal, run there.   *)
(* Between any two of its steps the producers' threads may run.            *)
(***************************************************************************)
EXTENDS PersistenceCoordinator

CONSTANTS
  Metadata,         \* workflow_version envelope each admission refers to
  Unserializable,   \* envelopes whose preparation raises
  BatchBytes,       \* batch_max_bytes (batch_max_items is TakeLimit)
  Scenarios         \* what may happen to the pipeline: records of the
                    \* envelopes the Runtime records (offers), the faults of
                    \* the database, and whether aflush, aclose are called

FaultKinds == {"retryable", "fatal", "user_events"}

Admissions == {e \in Envelopes : e.kind = "admission"}

(* A line of records: the journal of an Invocation, the admission first,   *)
(* or its UserEvents.                                                      *)
ASSUME JournalsAssumption ==
  /\ IsFiniteSet(Envelopes) /\ IsFiniteSet(Invocations)
  /\ \A e \in Envelopes : e.inv \in Invocations =>
       IF IsJournal(e) THEN e.seq = 0 <=> e.kind = "admission" ELSE e.seq # 0
  /\ \A e, f \in Envelopes :
       /\ e.inv = f.inv /\ e.inv \in Invocations /\ e.seq = f.seq
       /\ IsJournal(e) <=> IsJournal(f)
       => e = f
  /\ \A e \in Envelopes : e.inv \in Invocations /\ IsJournal(e) =>
       \A n \in 0 .. e.seq :
         \E f \in Envelopes : f.inv = e.inv /\ IsJournal(f) /\ f.seq = n
ASSUME MetadataAssumption == Metadata \in [Admissions -> Envelopes]
ASSUME ScenariosAssumption ==
  /\ Unserializable \subseteq Envelopes
  /\ \A s \in Scenarios :
       /\ s.offers \subseteq Envelopes
       /\ s.faults \subseteq FaultKinds
       /\ s.calls \subseteq {"aflush", "aclose"}
ASSUME BatchAssumption == BatchBytes \in Nat \ {0}

VARIABLES
  scenario,   \* one of Scenarios, for ever
  abandoned,  \* envelopes whose store call returned without queueing them
  pc,         \* where the writer is
  inbox,      \* envelopes returned by take and not yet prepared
  reporting,  \* envelopes whose failure the writer has still to report
  event,      \* the asyncio.Event the writer waits for
  callback,   \* a _signal_persistence is scheduled on the database loop
  queues,     \* prepared items of each Session
  dbReady,    \* round-robin order over queues (with its _ready_set)
  batch,      \* items of the batch in hand
  userFailed, \* items marked persistence_failed
  stored,     \* envelopes whose rows are committed
  flush,      \* state of an aflush/aclose call
  flushed,    \* envelopes the flush found already handed over
  closing     \* _closing

producerVars == <<abandoned>>
writerVars == <<pc, inbox, reporting, batch, userFailed>>
backendVars == <<queues, dbReady>>
loopVars == <<event, callback>>
flushVars == <<flush, flushed, closing>>
vars == <<scenario, coordinatorVars, producerVars, writerVars, backendVars, loopVars,
          stored, flushVars>>

Awaiting == {"waiting", "collect", "persist", "persistUsers", "backoff",
             "exited"}

-----------------------------------------------------------------------------
(* What must have been handed over before the store offers an envelope:    *)
(* the journal of an Invocation is recorded in order, after its admission, *)
(* and so are its UserEvent batches; a workflow version is saved before    *)
(* the admission that refers to it.                                        *)
Predecessors(e) ==
  {f \in Envelopes :
     /\ f.inv = e.inv
     /\ \/ f.kind = "admission" /\ e.kind # "admission"
        \/ IsJournal(f) = IsJournal(e) /\ f.seq < e.seq}
  \cup IF e.kind = "admission" THEN {Metadata[e]} ELSE {}

Returned(e) ==
  \/ e \in abandoned
  \/ stage[e] \in {"queued", "taken", "settled"} /\ e \notin waking

CanOffer(e) ==
  /\ e \in scenario.offers /\ stage[e] = "new" /\ e \notin abandoned
  /\ \A f \in Predecessors(e) : Returned(f)

NoneButProducer == UNCHANGED <<scenario, writerVars, backendVars, stored, flushVars>>

(* _publish_persistence returns early for a failed or degraded Invocation. *)
DropFaulted(e) ==
  /\ CanOffer(e) /\ IsJournal(e) /\ e.inv \in Invocations
  /\ LockFree /\ Faulted(e.inv)
  /\ abandoned' = abandoned \cup {e}
  /\ UNCHANGED <<coordinatorVars, loopVars>> /\ NoneButProducer

OfferReserves(e) ==
  /\ CanOffer(e)
  /\ Reserve(e)
  /\ UNCHANGED <<producerVars, loopVars>> /\ NoneButProducer

OfferRefused(e) ==
  /\ CanOffer(e)
  /\ Refuse(e)
  /\ UNCHANGED <<producerVars, loopVars>> /\ NoneButProducer

(* The refusal is reported as a gap of the Invocation, or of its           *)
(* UserEvents; a refused workflow version has nobody to report it for.     *)
ReportRefusal(e) ==
  /\ stage[e] = "refused" /\ e \notin abandoned
  /\ CASE e.inv \notin Invocations -> LockFree /\ UNCHANGED coordinatorVars
       [] e.inv \in Invocations /\ IsJournal(e) -> DegradeInvocation(e.inv)
       [] OTHER -> DegradeUserEvents(e.inv)
  /\ abandoned' = abandoned \cup {e}
  /\ UNCHANGED loopVars /\ NoneButProducer

StorePublish(e) ==
  /\ Publish(e)
  /\ UNCHANGED <<producerVars, loopVars>> /\ NoneButProducer

(* _wake_persistence: call_soon_threadsafe of _signal_persistence.         *)
StoreWake(e) ==
  /\ Wake(e)
  /\ callback' = TRUE
  /\ UNCHANGED <<producerVars, event>> /\ NoneButProducer

Producer(e) ==
  \/ DropFaulted(e) \/ OfferReserves(e) \/ OfferRefused(e)
  \/ ReportRefusal(e) \/ StorePublish(e) \/ StoreWake(e)

-----------------------------------------------------------------------------
(* The database loop and the import of published envelopes.                *)

GoTo(s) == pc' = s
NoneButWriter == UNCHANGED <<scenario, producerVars, flushVars>>

(* Wrong: the callback runs and the event is not set.                      *)
SignalLost ==
  /\ callback /\ pc \in Awaiting
  /\ callback' = FALSE
  /\ UNCHANGED <<coordinatorVars, writerVars, backendVars, event, stored>>
  /\ NoneButWriter

(* The loop runs scheduled callbacks while the writer is suspended.        *)
Signal ==
  /\ callback /\ pc \in Awaiting
  /\ event' = TRUE /\ callback' = FALSE
  /\ UNCHANGED <<coordinatorVars, writerVars, backendVars, stored>>
  /\ NoneButWriter

Top ==
  /\ pc = "top"
  /\ IF health = "unavailable"
     THEN GoTo("exited") /\ LockFree /\ UNCHANGED coordinatorVars
     ELSE GoTo("import") /\ BeginTake
  /\ UNCHANGED <<inbox, reporting, batch, userFailed, backendVars, loopVars,
                 stored>>
  /\ NoneButWriter

Importing == pc \in {"import", "recheck"}

ImportTake ==
  /\ Importing
  /\ \/ TakeOne /\ inbox' = Append(inbox, NextToTake)
     \/ (TakeDropsFailed \/ EndTake) /\ UNCHANGED inbox
  /\ UNCHANGED <<pc, reporting, batch, userFailed, backendVars, loopVars,
                 stored>>
  /\ NoneButWriter

CanPrepare == Importing /\ LockFree /\ inbox # <<>> /\ reporting = {}

(* Preparation of the next imported envelope: dropped if its Invocation    *)
(* failed meanwhile, given up if it raises, else sized and enqueued.       *)
PrepareDropped ==
  /\ CanPrepare /\ Purged(Head(inbox))
  /\ Discard(Head(inbox))
  /\ inbox' = Tail(inbox)
  /\ UNCHANGED <<pc, reporting, batch, userFailed, backendVars, loopVars,
                 stored>>
  /\ NoneButWriter

PrepareFails ==
  /\ CanPrepare /\ ~Purged(Head(inbox)) /\ Head(inbox) \in Unserializable
  /\ Discard(Head(inbox))
  /\ inbox' = Tail(inbox)
  /\ reporting' = {Head(inbox)}
  /\ UNCHANGED <<pc, batch, userFailed, backendVars, loopVars, stored>>
  /\ NoneButWriter

PrepareSucceeds ==
  LET e == Head(inbox) IN
  /\ CanPrepare /\ ~Purged(e) /\ e \notin Unserializable
  /\ AdjustSize(e)
  /\ inbox' = Tail(inbox)
  /\ queues' = [queues EXCEPT ![e.key] = Append(@, e)]
  /\ dbReady' = IF queues[e.key] = <<>> THEN Append(dbReady, e.key) ELSE dbReady
  /\ event' = TRUE
  /\ UNCHANGED <<pc, reporting, batch, userFailed, callback, stored>>
  /\ NoneButWriter

(* What the writer reports of an envelope it could not prepare or store.   *)
Report(e) ==
  /\ e \in reporting
  /\ CASE ~IsJournal(e) -> DegradeUserEvents(e.inv)
       [] IsJournal(e) /\ e.inv \in Invocations -> BeginFail(e.inv)
       [] OTHER -> SetHealth("unavailable")
  /\ reporting' = reporting \ {e}
  /\ UNCHANGED <<pc, inbox, batch, userFailed, backendVars, loopVars, stored>>
  /\ NoneButWriter

(* The purge of fail_invocation, which its caller runs to the end.         *)
Purge ==
  /\ (\E k \in Keys : PurgeOne(k)) \/ EndFail
  /\ UNCHANGED <<writerVars, backendVars, loopVars, stored>>
  /\ NoneButWriter

Imported == LockFree /\ inbox = <<>> /\ reporting = {}

(* After the first import: work, stop, or clear the event and look again.  *)
ImportDone ==
  /\ pc = "import" /\ Imported
  /\ CASE dbReady # <<>> ->
            GoTo("collect") /\ UNCHANGED <<coordinatorVars, event>>
       [] dbReady = <<>> /\ closing ->
            GoTo("exited") /\ UNCHANGED <<coordinatorVars, event>>
       [] OTHER -> GoTo("recheck") /\ BeginTake /\ event' = FALSE
  /\ UNCHANGED <<inbox, reporting, batch, userFailed, backendVars, callback,
                 stored>>
  /\ NoneButWriter

(* After the second import: start over, or wait for the event.             *)
RecheckDone ==
  /\ pc = "recheck" /\ Imported
  /\ GoTo(IF dbReady # <<>> THEN "top" ELSE "waiting")
  /\ UNCHANGED <<coordinatorVars, inbox, reporting, batch, userFailed,
                 backendVars, loopVars, stored>>
  /\ NoneButWriter

WakeUp ==
  /\ pc = "waiting" /\ event
  /\ GoTo("top")
  /\ UNCHANGED <<coordinatorVars, inbox, reporting, batch, userFailed,
                 backendVars, loopVars, stored>>
  /\ NoneButWriter

-----------------------------------------------------------------------------
(* Batches.                                                                *)

(* The coalescing delay of _take_batch, an await.                          *)
Collect ==
  /\ pc = "collect"
  /\ GoTo("batch")
  /\ UNCHANGED <<coordinatorVars, inbox, reporting, batch, userFailed,
                 backendVars, loopVars, stored>>
  /\ NoneButWriter

BytesOf(items) == FoldSeq(LAMBDA e, n : n + e.exact, 0, items)

(* One turn of _take_batch over the first ready Session.                   *)
BatchOne ==
  LET k == Head(dbReady)
      e == Head(queues[k])
      total == BytesOf(batch) + e.exact
      deferred == batch # <<>> /\ total > BatchBytes
  IN
  /\ pc = "batch" /\ dbReady # <<>> /\ Len(batch) < TakeLimit
  /\ IF deferred
     THEN UNCHANGED <<batch, queues>>
     ELSE /\ batch' = Append(batch, e)
          /\ queues' = [queues EXCEPT ![k] = Tail(@)]
  /\ dbReady' = IF queues'[k] # <<>> THEN Append(Tail(dbReady), k)
                ELSE Tail(dbReady)
  /\ GoTo(IF deferred \/ total >= BatchBytes THEN "persist" ELSE "batch")
  /\ UNCHANGED <<coordinatorVars, inbox, reporting, userFailed, loopVars,
                 stored>>
  /\ NoneButWriter

BatchDone ==
  /\ pc = "batch" /\ (dbReady = <<>> \/ Len(batch) = TakeLimit)
  /\ GoTo("persist")
  /\ UNCHANGED <<coordinatorVars, inbox, reporting, batch, userFailed,
                 backendVars, loopVars, stored>>
  /\ NoneButWriter

RuntimeItems == {e \in Range(batch) : IsJournal(e)}
UserItems == Range(batch) \ RuntimeItems

(* _persist_admission requires the row of the workflow version, events and *)
(* invocation states the row of the Invocation; a missing one raises a     *)
(* RuntimeError.                                                           *)
Requires(e) ==
  CASE e.kind = "admission" -> {Metadata[e]}
    [] e.kind \in {"event", "invocation_state"} ->
         {a \in Admissions : a.inv = e.inv}
    [] OTHER -> {}
Dangling == \E e \in RuntimeItems : ~(Requires(e) \subseteq stored \cup RuntimeItems)

(* The Runtime transaction of _persist_batch commits.                      *)
CommitRuntime ==
  /\ pc = "persist" /\ ~Dangling
  /\ stored' = stored \cup RuntimeItems
  /\ GoTo("persistUsers")
  /\ UNCHANGED <<coordinatorVars, inbox, reporting, batch, userFailed,
                 backendVars, loopVars>>
  /\ NoneButWriter

(* Wrong: an error is taken for a commit.                                  *)
RetrySettles(items) ==
  /\ "retryable" \in scenario.faults
  /\ SetHealth("retrying")
  /\ stored' \in {stored, stored \cup items}
  /\ GoTo("committed")
  /\ UNCHANGED <<inbox, reporting, batch, userFailed, backendVars, loopVars>>
  /\ NoneButWriter

(* A retryable error; the transaction may have been committed before the   *)
(* connection failed.                                                      *)
Retry(items) ==
  /\ "retryable" \in scenario.faults
  /\ SetHealth("retrying")
  /\ stored' \in {stored, stored \cup items}
  /\ GoTo("backoff")
  /\ UNCHANGED <<inbox, reporting, batch, userFailed, backendVars, loopVars>>
  /\ NoneButWriter

RetryRuntime == pc = "persist" /\ ~Dangling /\ Retry(RuntimeItems)

(* The UserEvent transaction, separate so that it cannot undo the other.   *)
CommitUsers ==
  /\ pc = "persistUsers" /\ reporting = {}
  /\ stored' = stored \cup (UserItems \ userFailed)
  /\ GoTo("committed")
  /\ UNCHANGED <<coordinatorVars, inbox, reporting, batch, userFailed,
                 backendVars, loopVars>>
  /\ NoneButWriter

RetryUsers ==
  pc = "persistUsers" /\ UserItems # {} /\ userFailed = {} /\ Retry(UserItems)

RejectUsers ==
  /\ pc = "persistUsers" /\ "user_events" \in scenario.faults
  /\ UserItems # {} /\ userFailed = {}
  /\ userFailed' = UserItems /\ reporting' = UserItems
  /\ UNCHANGED <<coordinatorVars, pc, inbox, batch, backendVars, loopVars,
                 stored>>
  /\ NoneButWriter

Backoff ==
  /\ pc = "backoff"
  /\ GoTo("persist")
  /\ UNCHANGED <<coordinatorVars, inbox, reporting, batch, userFailed,
                 backendVars, loopVars, stored>>
  /\ NoneButWriter

(* _halt_unavailable_persistence: the writer returns for good; what it     *)
(* held stays outstanding.                                                 *)
Halt ==
  /\ \/ pc = "persist" /\ (Dangling \/ "fatal" \in scenario.faults)
     \/ pc = "persistUsers" /\ UserItems # {} /\ userFailed = {} /\ "fatal" \in scenario.faults
  /\ SetHealth("unavailable")
  /\ batch' = <<>>
  /\ queues' = [k \in Keys |-> <<>>] /\ dbReady' = <<>>
  /\ GoTo("exited")
  /\ UNCHANGED <<inbox, reporting, userFailed, loopVars, stored>>
  /\ NoneButWriter

MarkHealthy ==
  /\ pc = "committed"
  /\ SetHealth("healthy")
  /\ GoTo("settle")
  /\ UNCHANGED <<inbox, reporting, batch, userFailed, backendVars, loopVars,
                 stored>>
  /\ NoneButWriter

SettleOne ==
  LET e == Head(batch) IN
  /\ pc = "settle"
  /\ CASE e.kind = "event" -> MarkDurable(e)
       [] e.kind = "admission" -> MarkAdmissionDurable(e)
       [] e.kind = "user_event_batch" /\ e \notin userFailed ->
            MarkUserEventsDurable(e)
       [] OTHER -> Discard(e)
  /\ batch' = Tail(batch)
  /\ GoTo(IF Len(batch) = 1 THEN "top" ELSE "settle")
  /\ userFailed' = userFailed \ {e}
  /\ UNCHANGED <<inbox, reporting, backendVars, loopVars, stored>>
  /\ NoneButWriter

-----------------------------------------------------------------------------
(* aflush and aclose, which run on the database loop.                      *)

NoneButFlush ==
  UNCHANGED <<scenario, coordinatorVars, producerVars, inbox, reporting, batch,
              userFailed, backendVars, stored>>

FlushBegins ==
  /\ flush = "idle" /\ pc \in Awaiting
  /\ flush' = "draining"
  /\ \/ "aflush" \in scenario.calls /\ UNCHANGED closing
     \/ "aclose" \in scenario.calls /\ closing' = TRUE
  /\ UNCHANGED <<pc, loopVars, flushed>> /\ NoneButFlush

(* pending_count reached zero, or the sink is unavailable.                 *)
FlushDrained ==
  /\ flush = "draining" /\ pc \in Awaiting /\ LockFree
  /\ \/ outstanding = {} /\ flush' = "checking"
     \/ outstanding # {} /\ health = "unavailable" /\ flush' = "error"
  /\ flushed' = {e \in Envelopes : Returned(e)}
  /\ UNCHANGED <<pc, loopVars, closing>> /\ NoneButFlush

FlushChecked ==
  /\ flush = "checking" /\ pc \in Awaiting /\ LockFree
  /\ flush' = IF errors \cup gaps \cup userGaps = {} THEN "ok" ELSE "error"
  /\ UNCHANGED <<pc, loopVars, flushed, closing>> /\ NoneButFlush

(* aclose stops the writer after the flush, or when the flush timed out;   *)
(* aflush returns to its caller.                                           *)
FlushEnds ==
  /\ ~closing /\ flush \in {"ok", "error"}
  /\ flush' = "idle" /\ flushed' = {}
  /\ UNCHANGED <<pc, loopVars, closing>> /\ NoneButFlush

CloseStops ==
  /\ closing /\ flush \in {"draining", "ok", "error"}
  /\ pc \in Awaiting
  /\ flush' = "closed" /\ event' = TRUE
  /\ GoTo("exited")
  /\ UNCHANGED <<callback, flushed, closing>> /\ NoneButFlush

-----------------------------------------------------------------------------
DatabaseInit ==
  /\ Init /\ scenario \in Scenarios
  /\ abandoned = {}
  /\ pc = "top" /\ inbox = <<>> /\ reporting = {} /\ batch = <<>>
  /\ userFailed = {}
  /\ event = FALSE /\ callback = FALSE
  /\ queues = [k \in Keys |-> <<>>] /\ dbReady = <<>>
  /\ stored = {}
  /\ flush = "idle" /\ flushed = {} /\ closing = FALSE

Import ==
  \/ Top \/ ImportTake \/ PrepareDropped \/ PrepareFails \/ PrepareSucceeds
  \/ Purge \/ ImportDone \/ RecheckDone \/ WakeUp
  \/ \E e \in Envelopes : Report(e)

Write ==
  \/ Collect \/ BatchOne \/ BatchDone
  \/ CommitRuntime \/ CommitUsers
  \/ Backoff \/ MarkHealthy \/ SettleOne

Fault == RetryRuntime \/ RetryUsers \/ RejectUsers \/ Halt

Flush ==
  \/ FlushBegins \/ FlushDrained \/ FlushChecked \/ FlushEnds \/ CloseStops

DatabaseNext ==
  \/ \E e \in Envelopes : Producer(e)
  \/ Signal \/ Import \/ Write \/ Fault \/ Flush

DatabaseSpec == DatabaseInit /\ [][DatabaseNext]_vars

(* Threads that are inside publish go on, the database loop runs what is   *)
(* ready, and the database does not refuse every retry for ever.           *)
Fairness ==
  /\ WF_vars(\E e \in Envelopes : StorePublish(e) \/ StoreWake(e))
  /\ WF_vars(Signal) /\ WF_vars(Import) /\ WF_vars(Write)
  /\ SF_vars(CommitRuntime) /\ SF_vars(CommitUsers)

FairSpec == DatabaseSpec /\ Fairness

-----------------------------------------------------------------------------
(* Offered: the Runtime recorded it, so a status must account for it.      *)
Offered(e) == stage[e] # "new" \/ e \in abandoned
Journal(i) == {e \in Envelopes : e.inv = i /\ IsJournal(e)}

(* The last sequence the Runtime recorded, for which persistence_status    *)
(* and user_event_persistence_status of RuntimeStore ask the coordinator.  *)
LastRecorded(i) == Max({0} \cup {e.seq : e \in {f \in Journal(i) : Offered(f)}})
UserBatches(i) == {e \in Envelopes : e.inv = i /\ ~IsJournal(e)}
LastUserEvent(i) ==
  Max({0} \cup {e.seq : e \in {f \in UserBatches(i) : Offered(f)}})

(* "durable" is never reported while a recorded part of the journal, or of *)
(* the UserEvents, is missing from the database, whatever was refused,     *)
(* failed, retried or is still on its way; and a flush that returns        *)
(* normally means that everything handed over before it, for any           *)
(* Invocation, is in the database.                                         *)
ReportsTruthful ==
  /\ \A i \in Invocations :
       /\ Status(i, LastRecorded(i)) = "durable" =>
            \A e \in Journal(i) : Offered(e) => e \in stored
       /\ UserEventStatus(i, LastUserEvent(i)) = "durable" =>
            \A e \in UserBatches(i) : Offered(e) => e \in stored
  /\ flush = "ok" => \A e \in flushed : e.inv \in Invocations => e \in stored

(* The abstract journal: an envelope of sequence n is record n + 1 (the    *)
(* admission is record 1), and a journal is cut before its first envelope  *)
(* that was given up without being stored.                                 *)
JournalLength(i) == Cardinality(Journal(i))
LongestJournal == Max({0} \cup {JournalLength(i) : i \in Invocations})
Lost(e) ==
  \/ e \in abandoned \/ stage[e] = "refused"
  \/ stage[e] = "settled" /\ e \notin stored

Abstract == INSTANCE DurableJournal WITH
  MaxLength <- LongestJournal,
  recorded <- [i \in Invocations |->
                 Cardinality({e \in Journal(i) : Offered(e)})],
  rows <- [i \in Invocations |-> {e.seq + 1 : e \in Journal(i) \cap stored}],
  cut <- [i \in Invocations |->
            Min({LongestJournal} \cup
                {e.seq : e \in {f \in Journal(i) : Lost(f)}})]

(* The pipeline implements the abstract journal.                           *)
ImplementsJournal == Abstract!JournalSpec

(* Whatever was published is settled at some time, and its memory          *)
(* released, unless the writer is gone (an unavailable database, aclose):  *)
(* as there are finitely many envelopes, the backlog is empty again and    *)
(* again.                                                                  *)
EventuallySettled ==
  []<>(pc = "exited" \/ \A e \in Envelopes : stage[e] \notin {"queued", "taken"})

(* Backpressure ends: once the backlog paused admission it drains below    *)
(* the low watermark.                                                      *)
AdmissionResumes ==
  (pendingBytes >= High) ~> (pendingBytes <= Low \/ pc = "exited")
=============================================================================
