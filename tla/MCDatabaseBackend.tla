------------------------- MODULE MCDatabaseBackend -------------------------
(* Small instances of DatabaseBackend: up to three Sessions with an         *)
(* Invocation each.                                                        *)
EXTENDS DatabaseBackend

CONSTANTS control, s1, s2, s3, i1, i2, i3, none

MCKeys == {control, s1, s2, s3}
MCInvocations == {i1, i2, i3}

Record(kind, key, inv, seq) ==
  [kind |-> kind, key |-> key, inv |-> inv, seq |-> seq,
   bytes |-> 2, snapshot |-> 0, exact |-> 2]

Version1 == Record("workflow_version", control, none, 0)
Admission1 == Record("admission", s1, i1, 0)
Event11 == Record("event", s1, i1, 1)
Event12 == Record("event", s1, i1, 2)
Admission2 == Record("admission", s2, i2, 0)
Admission3 == Record("admission", s3, i3, 0)
Event21 == Record("event", s2, i2, 1)

(* The journal: one workflow, two Invocations; the first has an event that *)
(* cannot be serialized, and one after it.                                 *)
JournalScenario ==
  [offers |-> {Version1, Admission1, Event11, Event12, Admission2, Event21},
   faults |-> {"retryable"}, calls |-> {}]

(* Every kind of record of another Invocation, and every fault and call;   *)
(* the records are larger, so that memory is short.                        *)
Large(record) == [record EXCEPT !.bytes = 3, !.exact = 3]
FaultScenario ==
  [offers |-> {Version1} \cup
              {Large(r) : r \in {Admission3, Record("event", s3, i3, 1),
                                 Record("user_event_batch", s3, i3, 1)}},
   faults |-> FaultKinds, calls |-> {"aflush", "aclose"}]

(* Invocations that cannot be serialized before one that can, imported one *)
(* at a time.                                                              *)
StallScenario ==
  [offers |-> {Version1, Admission1, Admission2, Admission3},
   faults |-> {}, calls |-> {}]

MCScenarios == {JournalScenario, FaultScenario}
MCStall == {StallScenario}
MCEnvelopes == UNION {s.offers : s \in MCScenarios}
MCStallEnvelopes == StallScenario.offers
MCMetadata ==
  [a \in {e \in MCEnvelopes : e.kind = "admission"} |-> Version1]
MCStallMetadata ==
  [a \in {e \in MCStallEnvelopes : e.kind = "admission"} |-> Version1]
MCUnserializable == {Event11}
MCStallUnserializable == {Admission1, Admission2}
=============================================================================
