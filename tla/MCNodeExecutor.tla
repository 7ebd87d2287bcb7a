--------------------------- MODULE MCNodeExecutor ---------------------------
(* A map of three items and a single call compete for one slot and one     *)
(* thread; the first candidate is synchronous, the second a coroutine.     *)
EXTENDS NodeExecutor

CONSTANTS map, single

MCExecutions == {map, single}
MCUnits == [x \in MCExecutions |-> IF x = map THEN 3 ELSE 1]
MCCandidates == <<"sync", "async">>
MCAttemptLimit == [x \in MCExecutions |-> IF x = map THEN 5 ELSE 4]
=============================================================================
