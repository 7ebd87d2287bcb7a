---------------------- MODULE MCPersistenceCoordinator ----------------------
(* Small instances of PersistenceCoordinator.  The clients of a behaviour  *)
(* offer either the envelopes of QueueClients or those of LedgerClients.   *)
EXTENDS PersistenceCoordinator

CONSTANTS control, session, i1, i2, none

MCKeys == {control, session}
MCInvocations == {i1, i2}

Event(i, n, exact) ==
  [kind |-> "event", key |-> session, inv |-> i, seq |-> n,
   bytes |-> 4, snapshot |-> 2, exact |-> exact]

Version ==
  [kind |-> "workflow_version", key |-> control, inv |-> none, seq |-> 0,
   bytes |-> 1, snapshot |-> 0, exact |-> 1]

Admission ==
  [kind |-> "admission", key |-> session, inv |-> i1, seq |-> 0,
   bytes |-> 5, snapshot |-> 0, exact |-> 6]

UserEvents ==
  [kind |-> "user_event_batch", key |-> session, inv |-> i1, seq |-> 1,
   bytes |-> 4, snapshot |-> 0, exact |-> 2]

(* Two journals interleaved in one deque (the second Invocation of the     *)
(* Session is admitted while the journal of the first is still queued)     *)
(* and a workflow version in the control deque.                            *)
QueueClients == {Event(i1, 1, 3), Event(i1, 2, 4), Event(i2, 1, 5), Version}

(* Every kind of record of one Invocation; together they exceed the hard   *)
(* watermark.                                                              *)
LedgerClients == {Admission, Event(i1, 1, 3), UserEvents}

MCEnvelopes == QueueClients \union LedgerClients

VARIABLE clients

MCInit == Init /\ clients \in {"queue", "ledger"}
Offers == IF clients = "queue" THEN QueueClients ELSE LedgerClients

(* What the coordinator remembers of an Invocation.                        *)
Memory(i) ==
  <<i \in errors, i \in gaps, i \in userGaps, i \in admitted,
    durableSeq[i], durableUserSeq[i]>>

(* The clients speak of the Invocations they have records of, and only     *)
(* the second ones restore a journal from the database.                    *)
MCNext ==
  /\ Next
  /\ UNCHANGED clients
  /\ \A e \in MCEnvelopes \ Offers : stage'[e] = "new"
  /\ \A i \in Invocations \ {e.inv : e \in Offers} : Memory(i)' = Memory(i)
  /\ clients = "queue" =>
       /\ durableSeq' # durableSeq => stage' # stage
       /\ UNCHANGED <<durableUserSeq, admitted>>

MCSpec == MCInit /\ [][MCNext]_<<coordinatorVars, clients>>
=============================================================================
