----------------------- MODULE PersistenceCoordinator -----------------------
(***************************************************************************)
(* The producer/consumer boundary between the Runtime and its durable sink *)
(* (src/autoagent/core/runtime/persistence.py, PersistenceCoordinator).    *)
(*                                                                         *)
(* Producers reserve room for an envelope and then publish it into the     *)
(* deque of its Session; one consumer takes envelopes round robin over the *)
(* Sessions, corrects their size and settles them.  Every method runs      *)
(* under one re-entrant lock, so a method is one action, except the two    *)
(* that loop while they hold it: take and fail_invocation are a sequence   *)
(* of steps between which no other action is enabled (LockFree).           *)
(*                                                                         *)
(* The module leaves the client free: any reservation, publication,        *)
(* settlement, fault report and health change that the methods allow, in   *)
(* any order, each envelope being offered once.                            *)
(***************************************************************************)
EXTENDS Integers, Sequences, FiniteSets, FiniteSetsExt, SequencesExt

CONSTANTS
  Keys,           \* Session deques, the "__control__" one included
  Invocations,
  NoInvocation,   \* invocation_id None of a workflow_version envelope
  Envelopes,      \* the envelopes the Runtime may offer, each one once
  Sequences,      \* sequences a durable row may report after a restart
  Low, High, Hard,        \* PersistencePolicy watermarks, in bytes
  MinEnvelopeBytes,       \* the 256 of _coalesce_queued_recovery_state
  TakeLimit               \* batch_max_items, the argument of take

Kinds == {"workflow_version", "admission", "invocation_state", "event",
          "user_event_batch"}
HealthStates == {"healthy", "retrying", "unavailable"}

(* An envelope: its kind, the deque it goes to, its Invocation, the        *)
(* (last) sequence it carries, its estimated bytes, the bytes of its       *)
(* recovery snapshot (0: it has none) and its exact encoded bytes.         *)
Envelope == [kind: Kinds, key: Keys, inv: Invocations \cup {NoInvocation},
             seq: Nat, bytes: Nat, snapshot: Nat, exact: Nat]

ASSUME EnvelopesAssumption ==
  /\ Envelopes \subseteq Envelope
  /\ \A e \in Envelopes :
       /\ e.inv \in Invocations <=> e.kind # "workflow_version"
       /\ e.snapshot > 0 => e.kind = "event"
  /\ \A e, f \in Envelopes : e.inv = f.inv => e.key = f.key
ASSUME InvocationsAssumption == NoInvocation \notin Invocations
ASSUME SequencesAssumption == Sequences \subseteq Nat
ASSUME PolicyAssumption ==
  /\ Low \in Nat /\ High \in Nat /\ Hard \in Nat
  /\ Low < High /\ High < Hard
ASSUME LimitAssumption == TakeLimit \in Nat \ {0} /\ MinEnvelopeBytes \in Nat

VARIABLES
  incoming,       \* deque of queued envelopes of each Session
  ready,          \* _ready_sessions: the round-robin order
  readySet,       \* _ready_set
  outstanding,    \* keys of _outstanding_bytes
  size,           \* _outstanding_bytes
  pendingBytes,   \* _pending_bytes
  stripped,       \* envelopes whose recovery snapshot was coalesced away
  errors,         \* keys of _invocation_errors
  gaps,           \* keys of _invocation_gaps
  userGaps,       \* keys of _user_event_gaps
  durableSeq,     \* _durable_sequences
  durableUserSeq, \* _durable_user_event_sequences
  admitted,       \* _durable_admissions
  health,         \* _health.state
  pressure,       \* _admission_pressure
  budget,         \* envelopes a running take may still return (0: none runs)
  failing,        \* Invocation a running fail_invocation purges
  waking,         \* envelopes whose publisher still owes wake()
  stage           \* where each envelope is in its life (protocol of clients)

queueVars == <<incoming, ready, readySet, stripped>>
ledgerVars == <<outstanding, size, pendingBytes>>
faultVars == <<errors, gaps, userGaps>>
durableVars == <<durableSeq, durableUserSeq, admitted>>
controlVars == <<health, pressure>>
lockVars == <<budget, failing>>
coordinatorVars == <<queueVars, ledgerVars, faultVars, durableVars,
                     controlVars, lockVars, waking, stage>>

Stages == {"new", "refused", "reserved", "queued", "taken", "settled"}

-----------------------------------------------------------------------------
(* Helpers.                                                                *)

IsJournal(e) == e.kind # "user_event_batch"
HasSnapshot(e) == e.snapshot > 0 /\ e \notin stripped
LockFree == budget = 0 /\ failing = NoInvocation
Faulted(i) == i \in errors \cup gaps
Larger(m, n) == IF m >= n THEN m ELSE n

(* Bytes an envelope keeps once its snapshot is coalesced away.            *)
ReducedBytes(e) == Larger(MinEnvelopeBytes, e.bytes - e.snapshot)

(* Wrong: the bytes of the envelope stay accounted for.                    *)
RemoveWithoutBytes(e) ==
  IF e \in outstanding
  THEN outstanding' = outstanding \ {e} /\ UNCHANGED <<size, pendingBytes>>
  ELSE UNCHANGED ledgerVars

(* _remove_outstanding for an envelope that leaves the coordinator.        *)
RemoveOutstanding(e) ==
  IF e \in outstanding
  THEN /\ outstanding' = outstanding \ {e}
       /\ pendingBytes' = pendingBytes - size[e]
       /\ size' = [size EXCEPT ![e] = 0]
  ELSE UNCHANGED ledgerVars

MoveTo(e, s) == stage' = [stage EXCEPT ![e] = s]

(* Wrong: the snapshots of every Invocation.                               *)
SlotsOfAnyInvocation(q, i) == {j \in 1 .. Len(q) : HasSnapshot(q[j])}

(* _coalesce_queued_recovery_state: the newest queued envelope of the      *)
(* Invocation that still carries a recovery snapshot (a queued envelope is *)
(* always outstanding: OutstandingExact).                                  *)
SnapshotSlots(q, i) ==
  {j \in 1 .. Len(q) : q[j].inv = i /\ HasSnapshot(q[j])}
Newest(slots) == {j \in slots : \A k \in slots : k <= j}

(* status() and user_event_status().                                       *)
JournalPending(i) == \E e \in outstanding : e.inv = i /\ IsJournal(e)
UserEventsPending(i) == \E e \in outstanding : e.inv = i /\ ~IsJournal(e)
Undecided == IF health = "unavailable" THEN "degraded" ELSE "pending"
Status(i, expected) ==
  IF i \in errors THEN "unserializable"
  ELSE IF i \in gaps THEN "degraded"
  ELSE IF i \in admitted /\ durableSeq[i] >= expected /\ ~JournalPending(i)
  THEN "durable"
  ELSE Undecided
UserEventStatus(i, expected) ==
  IF i \in userGaps THEN "degraded"
  ELSE IF durableUserSeq[i] >= expected /\ ~UserEventsPending(i)
  THEN "durable"
  ELSE Undecided

-----------------------------------------------------------------------------
Init ==
  /\ incoming = [k \in Keys |-> <<>>]
  /\ ready = <<>> /\ readySet = {} /\ stripped = {}
  /\ outstanding = {} /\ pendingBytes = 0
  /\ size = [e \in Envelopes |-> 0]
  /\ errors = {} /\ gaps = {} /\ userGaps = {}
  /\ durableSeq = [i \in Invocations |-> 0]
  /\ durableUserSeq = [i \in Invocations |-> 0]
  /\ admitted = {}
  /\ health = "healthy" /\ pressure = FALSE
  /\ budget = 0 /\ failing = NoInvocation
  /\ waking = {}
  /\ stage = [e \in Envelopes |-> "new"]

-----------------------------------------------------------------------------
(* Producers.                                                              *)

(* Wrong: a journal with a gap may go on.                                  *)
ReserveDespiteFault(e) == pendingBytes + e.bytes <= Hard

CanReserve(e) ==
  /\ ~(IsJournal(e) /\ e.inv # NoInvocation /\ Faulted(e.inv))
  /\ pendingBytes + e.bytes <= Hard

(* try_reserve: a reservation, or None.                                    *)
Reserve(e) ==
  /\ LockFree /\ stage[e] = "new"
  /\ CanReserve(e)
  /\ outstanding' = outstanding \cup {e}
  /\ size' = [size EXCEPT ![e] = e.bytes]
  /\ pendingBytes' = pendingBytes + e.bytes
  /\ MoveTo(e, "reserved")
  /\ UNCHANGED <<queueVars, faultVars, durableVars, controlVars, lockVars,
                 waking>>

Refuse(e) ==
  /\ LockFree /\ stage[e] = "new"
  /\ ~CanReserve(e)
  /\ MoveTo(e, "refused")
  /\ UNCHANGED <<queueVars, ledgerVars, faultVars, durableVars, controlVars,
                 lockVars, waking>>

(* The coalescing half of publish: strips the older queued snapshot.       *)
StripSnapshot(old) ==
  /\ stripped' = stripped \cup {old}
  /\ size' = [size EXCEPT ![old] = ReducedBytes(old)]
  /\ pendingBytes' = pendingBytes + ReducedBytes(old) - size[old]
  /\ UNCHANGED outstanding

Coalesce(e) ==
  LET q == incoming[e.key]
      slots == SnapshotSlots(q, e.inv)
  IN  IF e.kind = "event" /\ e.snapshot > 0 /\ slots # {}
      THEN \E j \in Newest(slots) : StripSnapshot(q[j])
      ELSE UNCHANGED <<stripped, ledgerVars>>

(* publish, up to the release of the lock.  wake() is called afterwards,   *)
(* and only by the publisher that found no ready Session.                  *)
Publish(e) ==
  /\ LockFree /\ stage[e] = "reserved"
  /\ Coalesce(e)
  /\ incoming' = [incoming EXCEPT ![e.key] = Append(@, e)]
  /\ waking' = IF ready = <<>> THEN waking \cup {e} ELSE waking
  /\ IF e.key \in readySet
     THEN UNCHANGED <<ready, readySet>>
     ELSE /\ ready' = Append(ready, e.key)
          /\ readySet' = readySet \cup {e.key}
  /\ MoveTo(e, "queued")
  /\ UNCHANGED <<faultVars, durableVars, controlVars, lockVars>>

(* The consumer's wake callback returns, or raises: then the publisher     *)
(* marks the sink unavailable.                                             *)
Wake(e) ==
  /\ e \in waking
  /\ waking' = waking \ {e}
  /\ UNCHANGED <<queueVars, ledgerVars, faultVars, durableVars, controlVars,
                 lockVars, stage>>

WakeFails(e) ==
  /\ LockFree /\ e \in waking
  /\ waking' = waking \ {e}
  /\ health' = "unavailable"
  /\ UNCHANGED <<queueVars, ledgerVars, faultVars, durableVars, pressure,
                 lockVars, stage>>

Cancel(e) ==
  /\ LockFree /\ stage[e] = "reserved"
  /\ RemoveOutstanding(e)
  /\ MoveTo(e, "settled")
  /\ UNCHANGED <<queueVars, faultVars, durableVars, controlVars, lockVars,
                 waking>>

(* The admission_paused property: reading it moves the hysteresis.         *)
PollAdmission ==
  /\ LockFree
  /\ pressure' = \/ pendingBytes >= High
                 \/ pressure /\ pendingBytes > Low
  /\ UNCHANGED <<queueVars, ledgerVars, faultVars, durableVars, health,
                 lockVars, waking, stage>>

-----------------------------------------------------------------------------
(* The consumer.                                                           *)

BeginTake ==
  /\ LockFree
  /\ budget' = TakeLimit
  /\ UNCHANGED <<queueVars, ledgerVars, faultVars, durableVars, controlVars,
                 failing, waking, stage>>

(* Wrong: looks at the head of the deque without taking it off.            *)
PeekHead(k) ==
  /\ UNCHANGED <<incoming, stripped>>
  /\ ready' = Append(Tail(ready), k) /\ UNCHANGED readySet

(* One turn of take: the oldest envelope of the first ready Session.  A    *)
(* Session that still has envelopes goes to the back of the order.         *)
PopHead(k) ==
  /\ incoming' = [incoming EXCEPT ![k] = Tail(@)]
  /\ IF Len(incoming[k]) > 1
     THEN /\ ready' = Append(Tail(ready), k)
          /\ UNCHANGED readySet
     ELSE /\ ready' = Tail(ready)
          /\ readySet' = readySet \ {k}
  /\ UNCHANGED stripped

NextToTake == Head(incoming[Head(ready)])

Purged(e) == IsJournal(e) /\ e.inv \in errors

TakeOne ==
  /\ budget > 0 /\ ready # <<>>
  /\ ~Purged(NextToTake)
  /\ PopHead(Head(ready))
  /\ MoveTo(NextToTake, "taken")
  /\ budget' = budget - 1
  /\ UNCHANGED <<ledgerVars, faultVars, durableVars, controlVars, failing,
                 waking>>

(* Wrong: drops the envelope and keeps its reservation.                    *)
TakeDropsLeaking ==
  /\ budget > 0 /\ ready # <<>>
  /\ Purged(NextToTake)
  /\ PopHead(Head(ready))
  /\ MoveTo(NextToTake, "settled")
  /\ UNCHANGED <<ledgerVars, faultVars, durableVars, controlVars, lockVars,
                 waking>>

TakeDropsFailed ==
  /\ budget > 0 /\ ready # <<>>
  /\ Purged(NextToTake)
  /\ PopHead(Head(ready))
  /\ RemoveOutstanding(NextToTake)
  /\ MoveTo(NextToTake, "settled")
  /\ UNCHANGED <<faultVars, durableVars, controlVars, lockVars, waking>>

EndTake ==
  /\ budget > 0 /\ ready = <<>>
  /\ budget' = 0
  /\ UNCHANGED <<queueVars, ledgerVars, faultVars, durableVars, controlVars,
                 failing, waking, stage>>

(* Wrong: the total is not corrected.                                      *)
AdjustRecordOnly(e) ==
  /\ LockFree /\ stage[e] = "taken"
  /\ size' = [size EXCEPT ![e] = e.exact]
  /\ UNCHANGED <<outstanding, pendingBytes, queueVars, faultVars, durableVars,
                 controlVars, lockVars, waking, stage>>

AdjustSize(e) ==
  /\ LockFree /\ stage[e] = "taken"
  /\ size' = [size EXCEPT ![e] = e.exact]
  /\ pendingBytes' = pendingBytes + e.exact - size[e]
  /\ UNCHANGED <<outstanding, queueVars, faultVars, durableVars, controlVars,
                 lockVars, waking, stage>>

(* What every settlement has in common.                                    *)
Settle(e) ==
  /\ LockFree /\ stage[e] = "taken"
  /\ RemoveOutstanding(e)
  /\ MoveTo(e, "settled")
  /\ UNCHANGED <<queueVars, faultVars, controlVars, lockVars, waking>>

Discard(e) == Settle(e) /\ UNCHANGED durableVars

MarkDurable(e) ==
  /\ e.kind = "event"
  /\ durableSeq' = [durableSeq EXCEPT ![e.inv] = Larger(@, e.seq)]
  /\ Settle(e)
  /\ UNCHANGED <<durableUserSeq, admitted>>

MarkUserEventsDurable(e) ==
  /\ e.kind = "user_event_batch"
  /\ durableUserSeq' = [durableUserSeq EXCEPT ![e.inv] = Larger(@, e.seq)]
  /\ Settle(e)
  /\ UNCHANGED <<durableSeq, admitted>>

MarkAdmissionDurable(e) ==
  /\ e.kind = "admission"
  /\ admitted' = admitted \cup {e.inv}
  /\ Settle(e)
  /\ UNCHANGED <<durableSeq, durableUserSeq>>

(* remember_durable, remember_user_events_durable and                      *)
(* remember_admission_durable: what a load from the database reports.      *)
Remember(i, n) ==
  /\ LockFree
  /\ \/ /\ durableSeq' = [durableSeq EXCEPT ![i] = Larger(@, n)]
        /\ UNCHANGED <<durableUserSeq, admitted>>
     \/ /\ durableUserSeq' = [durableUserSeq EXCEPT ![i] = Larger(@, n)]
        /\ UNCHANGED <<durableSeq, admitted>>
     \/ /\ admitted' = admitted \cup {i}
        /\ UNCHANGED <<durableSeq, durableUserSeq>>
  /\ UNCHANGED <<queueVars, ledgerVars, faultVars, controlVars, lockVars,
                 waking, stage>>

-----------------------------------------------------------------------------
(* Faults, health and release.                                             *)

(* fail_invocation: records the error, then, still under the lock, drops   *)
(* every queued journal envelope of the Invocation and rebuilds the ready  *)
(* order without the Sessions it emptied.                                  *)
BeginFail(i) ==
  /\ LockFree
  /\ errors' = errors \cup {i}
  /\ failing' = i
  /\ UNCHANGED <<queueVars, ledgerVars, gaps, userGaps, durableVars,
                 controlVars, budget, waking, stage>>

Doomed(k) ==
  {j \in 1 .. Len(incoming[k]) :
     incoming[k][j].inv = failing /\ IsJournal(incoming[k][j])}

(* Wrong: the purge leaves the emptied Sessions in the order.              *)
RebuildNothing(k) == UNCHANGED <<ready, readySet>>

RebuildReady(k) ==
  IF Len(incoming[k]) > 1
  THEN UNCHANGED <<ready, readySet>>
  ELSE /\ ready' = RemoveAt(ready, CHOOSE n \in 1 .. Len(ready) : ready[n] = k)
       /\ readySet' = readySet \ {k}

PurgeOne(k) ==
  /\ failing # NoInvocation
  /\ \E j \in Doomed(k) :
       /\ \A other \in Doomed(k) : j <= other
       /\ incoming' = [incoming EXCEPT ![k] = RemoveAt(@, j)]
       /\ RemoveOutstanding(incoming[k][j])
       /\ MoveTo(incoming[k][j], "settled")
  /\ RebuildReady(k)
  /\ UNCHANGED <<stripped, faultVars, durableVars, controlVars, lockVars,
                 waking>>

EndFail ==
  /\ failing # NoInvocation
  /\ \A k \in Keys : Doomed(k) = {}
  /\ failing' = NoInvocation
  /\ UNCHANGED <<queueVars, ledgerVars, faultVars, durableVars, controlVars,
                 budget, waking, stage>>

(* degrade_invocation follows a refused reservation; degrade_user_events   *)
(* follows a refused batch or one the consumer could not store.            *)
DegradeInvocation(i) ==
  /\ LockFree
  /\ \E e \in Envelopes : e.inv = i /\ IsJournal(e) /\ stage[e] = "refused"
  /\ gaps' = gaps \cup {i}
  /\ UNCHANGED <<queueVars, ledgerVars, errors, userGaps, durableVars,
                 controlVars, lockVars, waking, stage>>

DegradeUserEvents(i) ==
  /\ LockFree
  /\ \E e \in Envelopes : /\ e.inv = i /\ ~IsJournal(e)
                           /\ stage[e] \in {"refused", "taken", "settled"}
  /\ userGaps' = userGaps \cup {i}
  /\ UNCHANGED <<queueVars, ledgerVars, errors, gaps, durableVars,
                 controlVars, lockVars, waking, stage>>

(* mark_retrying, mark_healthy and mark_unavailable.                       *)
SetHealth(h) ==
  /\ LockFree
  /\ health' = h
  /\ UNCHANGED <<queueVars, ledgerVars, faultVars, durableVars, pressure,
                 lockVars, waking, stage>>

(* release_invocation_tracking, which raises while records are             *)
(* outstanding.                                                            *)
ReleaseTracking(i) ==
  /\ LockFree
  /\ \A e \in outstanding : e.inv # i
  /\ errors' = errors \ {i} /\ gaps' = gaps \ {i}
  /\ userGaps' = userGaps \ {i}
  /\ durableSeq' = [durableSeq EXCEPT ![i] = 0]
  /\ durableUserSeq' = [durableUserSeq EXCEPT ![i] = 0]
  /\ admitted' = admitted \ {i}
  /\ UNCHANGED <<queueVars, ledgerVars, controlVars, lockVars, waking, stage>>

-----------------------------------------------------------------------------
EnvelopeStep(e) ==
  \/ Reserve(e) \/ Refuse(e) \/ Publish(e) \/ Cancel(e)
  \/ Wake(e) \/ WakeFails(e)
  \/ AdjustSize(e) \/ Discard(e)
  \/ MarkDurable(e) \/ MarkUserEventsDurable(e) \/ MarkAdmissionDurable(e)

InvocationStep(i) ==
  \/ BeginFail(i) \/ DegradeInvocation(i) \/ DegradeUserEvents(i)
  \/ ReleaseTracking(i)
  \/ \E n \in Sequences : Remember(i, n)

Next ==
  \/ \E e \in Envelopes : EnvelopeStep(e)
  \/ \E i \in Invocations : InvocationStep(i)
  \/ \E k \in Keys : PurgeOne(k)
  \/ \E h \in HealthStates : SetHealth(h)
  \/ BeginTake \/ TakeOne \/ TakeDropsFailed \/ EndTake
  \/ EndFail
  \/ PollAdmission

Spec == Init /\ [][Next]_coordinatorVars

-----------------------------------------------------------------------------
(* Type invariant: shape of the state of the coordinator.                  *)
TypeOK ==
  /\ incoming \in [Keys -> Seq(Envelopes)]
  /\ ready \in Seq(Keys) /\ readySet \subseteq Keys
  /\ stripped \subseteq Envelopes /\ waking \subseteq Envelopes
  /\ outstanding \subseteq Envelopes
  /\ size \in [Envelopes -> Nat] /\ pendingBytes \in Int
  /\ errors \subseteq Invocations /\ gaps \subseteq Invocations
  /\ userGaps \subseteq Invocations /\ admitted \subseteq Invocations
  /\ durableSeq \in [Invocations -> Nat]
  /\ durableUserSeq \in [Invocations -> Nat]
  /\ health \in HealthStates /\ pressure \in BOOLEAN
  /\ budget \in Nat /\ failing \in Invocations \cup {NoInvocation}
  /\ budget = 0 \/ failing = NoInvocation
  /\ stage \in [Envelopes -> Stages]

(* The round-robin order names each Session with a queued envelope exactly *)
(* once and no other Session, and _ready_set agrees with it: publish, take *)
(* and the rebuild of fail_invocation keep three structures in step, and a *)
(* Session missing from the order would never be persisted again.          *)
ReadyExact ==
  /\ readySet = {k \in Keys : incoming[k] # <<>>}
  /\ \A k \in readySet : \E n \in 1 .. Len(ready) : ready[n] = k
  /\ \A n \in 1 .. Len(ready) : ready[n] \in readySet
  /\ \A m, n \in 1 .. Len(ready) : ready[m] = ready[n] => m = n

(* An envelope sits in one place of one deque, its Session's, exactly      *)
(* while it is between publish and take (or the purge): nothing a          *)
(* publisher handed over is lost or delivered twice.                       *)
QueuedExact ==
  /\ \A k \in Keys : \A n \in 1 .. Len(incoming[k]) :
       /\ incoming[k][n].key = k
       /\ stage[incoming[k][n]] = "queued"
       /\ \A m \in 1 .. Len(incoming[k]) :
            incoming[k][m] = incoming[k][n] => m = n
  /\ \A e \in Envelopes : stage[e] = "queued" =>
       \E n \in 1 .. Len(incoming[e.key]) : incoming[e.key][n] = e

(* Memory is accounted for exactly the envelopes that still are with the   *)
(* coordinator or its consumer: a leak would keep admission paused, an     *)
(* early release would let the queue outgrow its watermarks and report an  *)
(* Invocation durable too soon.                                            *)
OutstandingExact ==
  outstanding = {e \in Envelopes : stage[e] \in {"reserved", "queued", "taken"}}

(* _pending_bytes is the sum of the sizes of the outstanding envelopes,    *)
(* whatever coalescing and exact sizes did to them.                        *)
BytesExact ==
  pendingBytes = MapThenSumSet(LAMBDA e : size[e], outstanding)

(* A queued envelope lost its recovery snapshot only to a newer one of the *)
(* same Invocation that waits behind it in the same deque, and an          *)
(* Invocation has at most one queued snapshot when its events carry them.  *)
NewestSnapshotKept ==
  \A k \in Keys : \A n \in 1 .. Len(incoming[k]) :
    LET e == incoming[k][n] IN
    IF e \in stripped
    THEN \E m \in n + 1 .. Len(incoming[k]) :
           /\ incoming[k][m].inv = e.inv
           /\ HasSnapshot(incoming[k][m])
    ELSE e.kind = "event" /\ HasSnapshot(e) =>
           \A m \in n + 1 .. Len(incoming[k]) :
             ~(incoming[k][m].inv = e.inv /\ HasSnapshot(incoming[k][m]))
=============================================================================
