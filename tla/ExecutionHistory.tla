--------------------------- MODULE ExecutionHistory ---------------------------
(***************************************************************************)
(* What the database keeps of an Invocation, and how it is written and     *)
(* read back: its row, its events, its recovery state, and the caches in   *)
(* which the writer holds the state it has projected                       *)
(* (src/autoagent/core/runtime/backends/database.py, _persist_events and   *)
(* _load_projection_state; runtime/snapshot.py; store.py,                  *)
(* arebuild_execution).                                                    *)
(*                                                                         *)
(* The state of an Invocation after its n-th event is n: operations turn   *)
(* n - 1 into n, and anything else into Garbage.                           *)
(***************************************************************************)
EXTENDS Integers, Sequences, SequencesExt, FiniteSetsExt, Subsequences

CONSTANT RecoveryInterval   \* recovery_event_interval

ASSUME RecoveryIntervalAssumption == RecoveryInterval \in Nat \ {0}

Unfinished == {"created", "running", "waiting"}
Ended == {"completed", "failed"}
Garbage == -1

(* apply_state_operations: the operations of event n.                      *)
Apply(state, n) == IF state # Garbage /\ n = state + 1 THEN n ELSE Garbage
Reduce(state, numbers) ==
  LET reduced[k \in 0 .. Len(numbers)] ==
        IF k = 0 THEN state ELSE Apply(reduced[k - 1], numbers[k])
  IN  reduced[Len(numbers)]
Numbers(from, to) == [k \in 1 .. (IF to > from THEN to - from ELSE 0) |-> from + k]

(* The row of an admission; its recovery state is the genesis.             *)
AdmissionRow(mode) ==
  [mode |-> mode, state |-> "created", durable |-> 0, events |-> <<>>,
   recovery |-> 0, image |-> 0]

(* _durable_states and _projection_sequences.                              *)
NoCache == [state |-> Garbage, projection |-> Garbage]
GenesisCache == [state |-> 0, projection |-> 0]

(* Wrong: a cached state is current, whatever was rolled back.             *)
TrustCache(row, cache) ==
  IF cache.state # Garbage THEN [cache EXCEPT !.projection = row.durable]
  ELSE [state |-> Reduce(row.image, Numbers(row.recovery, row.durable)),
        projection |-> row.durable]

(* _load_projection_state: the cache, or the recovery state and the events *)
(* after it.                                                               *)
LoadProjection(row, cache) ==
  IF cache.state # Garbage /\ cache.projection = row.durable THEN cache
  ELSE [state |-> Reduce(row.image, Numbers(row.recovery, row.durable)),
        projection |-> row.durable]

(* An event record has its number, its data, and the number of the         *)
(* recovery snapshot that it still carries (0: none); its data are the     *)
(* state in which the Invocation was, the run of the process that recorded *)
(* it, and whether it is a recovery point.                                 *)
Conflicts(row, batch) ==
  \E e \in Range(batch) : e.seq \in DOMAIN row.events /\ row.events[e.seq] # e.data

EventRows(row, batch) ==
  [n \in DOMAIN row.events \cup {e.seq : e \in Range(batch)} |->
     IF n \in DOMAIN row.events THEN row.events[n]
     ELSE (CHOOSE e \in Range(batch) : e.seq = n).data]

(* The projection of the full mode: the events that the loaded state does  *)
(* not contain.                                                            *)
Project(row, cache, batch) ==
  LET loaded == LoadProjection(row, cache)
      new == Kept(batch, {e \in Range(batch) : e.seq > loaded.projection})
  IN  [state |-> Reduce(loaded.state, [k \in DOMAIN new |-> new[k].seq]),
       projection |-> Last(batch).seq]

(* The recovery state after the batch: the newest snapshot it carries, or  *)
(* in the full mode a checkpoint when the last one is RecoveryInterval     *)
(* events ago.                                                             *)
Checkpoint(row, batch, state) ==
  LET carried == {e.snapshot : e \in Range(batch)} \ {0}
      last == Last(batch).seq
  IN  IF carried # {} THEN [sequence |-> Max(carried), image |-> Max(carried)]
      ELSE IF row.mode = "full" /\ last - row.recovery >= RecoveryInterval
      THEN [sequence |-> last, image |-> state]
      ELSE [sequence |-> row.recovery, image |-> row.image]

(* _persist_events for the events of one Invocation, in order.             *)
PersistEvents(row, cache, batch) ==
  LET projected == IF row.mode = "full" THEN Project(row, cache, batch) ELSE cache
      point == Checkpoint(row, batch, projected.state)
  IN  [row |-> [row EXCEPT !.events = EventRows(row, batch),
                           !.state = Last(batch).data.state,
                           !.durable = Max({@, Last(batch).seq}),
                           !.recovery = point.sequence, !.image = point.image],
       cache |-> projected]

(* arebuild_execution: the state that a restart continues from, and what   *)
(* it says of the Invocation.  In the standard mode the events after the   *)
(* snapshot only count.                                                    *)
Rebuilt(row) ==
  IF row.mode = "full" THEN Reduce(row.image, Numbers(row.recovery, row.durable))
  ELSE row.image
RebuiltState(row) ==
  IF Rebuilt(row) \in DOMAIN row.events THEN row.events[Rebuilt(row)].state
  ELSE "created"
=============================================================================
