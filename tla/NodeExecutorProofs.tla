-------------------------- MODULE NodeExecutorProofs --------------------------
(* What NodeExecutor guarantees for any set of executions and Operators,   *)
(* any number of units, workers, threads and slots, and any policies.      *)
EXTENDS NodeExecutor, CollectionProofs

-----------------------------------------------------------------------------
(* Slots.                                                                  *)
Phases == {"new", "slot", "answered"} \cup Holding
Holders == {x \in Executions : phase[x] \in Holding}

(* The executions inside their slot, with the semaphore, are as many as    *)
(* there are slots; and the semaphore never goes below zero.               *)
SInv ==
  /\ phase \in [Executions -> Phases]
  /\ free \in Nat
  /\ free + Cardinality(Holders) = SlotLimit

LEMMA HoldersFinite ==
  IsFiniteSet(Holders) /\ Cardinality(Holders) \in Nat
<1>1. Holders \in SUBSET Executions
  BY DEF Holders
<1> QED
  BY <1>1, ExecutorAssumption, FS_Subset, FS_CardinalityType

(* One execution leaves its slot or enters one.                            *)
LEMMA OneHolderMoves ==
  ASSUME SInv, NEW x \in Executions, NEW p \in Phases,
         phase' = [phase EXCEPT ![x] = p],
         free' = IF phase[x] \in Holding THEN IF p \in Holding THEN free ELSE free + 1
                 ELSE IF p \in Holding THEN free - 1 ELSE free,
         p \in Holding /\ phase[x] \notin Holding => free > 0
  PROVE  SInv'
<1>1. phase' \in [Executions -> Phases] /\ free' \in Nat
  BY DEF SInv
<1>2. Holders' = IF p \in Holding THEN Holders \cup {x} ELSE Holders \ {x}
  BY DEF SInv, Holders
<1>3. x \in Holders <=> phase[x] \in Holding
  BY DEF Holders
<1>4. /\ Cardinality(Holders \cup {x})
           = IF x \in Holders THEN Cardinality(Holders) ELSE Cardinality(Holders) + 1
      /\ Cardinality(Holders \ {x})
           = IF x \in Holders THEN Cardinality(Holders) - 1 ELSE Cardinality(Holders)
  BY HoldersFinite, FS_AddElement, FS_RemoveElement
<1>5. free' + Cardinality(Holders') = SlotLimit
  <2>1. CASE p \in Holding
    <3>1. Cardinality(Holders') = Cardinality(Holders \cup {x})
      BY <1>2, <2>1
    <3> QED
      BY <1>3, <1>4, <2>1, <3>1, HoldersFinite DEF SInv
  <2>2. CASE p \notin Holding
    <3>1. Cardinality(Holders') = Cardinality(Holders \ {x})
      BY <1>2, <2>2
    <3> QED
      BY <1>3, <1>4, <2>2, <3>1, HoldersFinite DEF SInv
  <2> QED
    BY <2>1, <2>2
<1> QED
  BY <1>1, <1>5 DEF SInv

LEMMA FinishKeepsSlots ==
  ASSUME SInv, NEW x \in Executions, NEW a, Finish(x, a)
  PROVE  SInv'
<1>1. "answered" \in Phases /\ "answered" \notin Holding
  BY DEF Phases, Holding
<1> QED
  BY <1>1, OneHolderMoves DEF Finish

LEMMA PhaseKeepsSlots ==
  ASSUME SInv, UNCHANGED <<phase, free>>
  PROVE  SInv'
BY DEF SInv, Holders

LEMMA SlotsInit == Init => SInv
<1> SUFFICES ASSUME Init PROVE SInv
  OBVIOUS
<1>1. phase \in [Executions -> Phases] /\ Holders = {}
  BY DEF Init, Holders, Phases, Holding
<1>2. free \in Nat /\ free = SlotLimit
  BY ExecutorAssumption DEF Init
<1> QED
  BY <1>1, <1>2, FS_EmptySet DEF SInv

LEMMA SlotsNext == SInv /\ [Next]_vars => SInv'
<1> SUFFICES ASSUME SInv, [Next]_vars PROVE SInv'
  OBVIOUS
<1>1. ASSUME NEW x \in Executions,
             \/ ExecuteCommand(x) \/ AnswerAtOnce(x) \/ PrepareFails(x)
             \/ Abandon(x) \/ UnitsFail(x) \/ Aggregate(x)
      PROVE  SInv'
  <2>1. PICK a : Finish(x, a)
    BY <1>1 DEF ExecuteCommand, AnswerAtOnce, PrepareFails, Abandon, UnitsFail, Aggregate
  <2> QED
    BY <2>1, FinishKeepsSlots
<1>2. ASSUME NEW x \in Executions, Submit(x) PROVE SInv'
  <2>1. "slot" \in Phases /\ "slot" \notin Holding /\ phase[x] \notin Holding
    BY <1>2 DEF Phases, Holding, Submit
  <2> QED
    BY <1>2, <2>1, OneHolderMoves DEF Submit
<1>3. ASSUME NEW x \in Executions, AcquireSlot(x) PROVE SInv'
  <2>1. "preparing" \in Phases /\ "preparing" \in Holding /\ phase[x] \notin Holding
    BY <1>3 DEF Phases, Holding, AcquireSlot
  <2> QED
    BY <1>3, <2>1, OneHolderMoves DEF AcquireSlot
<1>4. ASSUME NEW x \in Executions, Prepare(x) PROVE SInv'
  <2>1. "units" \in Phases /\ "units" \in Holding /\ phase[x] \in Holding
    BY <1>4 DEF Phases, Holding, Prepare
  <2> QED
    BY <1>4, <2>1, OneHolderMoves DEF Prepare
<1>5. ASSUME NEW x \in Executions, UnitsEnd(x) PROVE SInv'
  <2>1. "aggregating" \in Phases /\ "aggregating" \in Holding /\ phase[x] \in Holding
    BY <1>5 DEF Phases, Holding, UnitsEnd
  <2> QED
    BY <1>5, <2>1, OneHolderMoves DEF UnitsEnd
<1>6. ASSUME NEW x \in Executions, NEW w \in Workers,
             \/ WorkerStarts(x, w) \/ TimesOut(x, w) \/ BackoffEnds(x, w)
             \/ HandlerReturns(x, w) \/ ThreadReturns(x, w)
      PROVE  SInv'
  BY <1>6, PhaseKeepsSlots
     DEF WorkerStarts, TimesOut, BackoffEnds, HandlerReturns, ThreadReturns
<1>7. ASSUME ThreadStarts \/ (\E c \in running : OrphanReturns(c)) \/ UNCHANGED vars
      PROVE  SInv'
  BY <1>7, PhaseKeepsSlots DEF ThreadStarts, OrphanReturns, vars
<1> QED
  BY <1>1, <1>2, <1>3, <1>4, <1>5, <1>6, <1>7 DEF Next, Works, Returns

(* The slots in use are those of the executions under way, for any number   *)
(* of slots and executions and whichever way each of them ends              *)
(* (_execute_job, RuntimeConcurrencyController).                            *)
THEOREM SlotsReturned == Spec => []SlotsExact
<1>1. SInv => SlotsExact
  BY HoldersFinite, ExecutorAssumption DEF SInv, SlotsExact, Holders
<1> QED
  BY <1>1, SlotsInit, SlotsNext, PTL DEF Spec

(* NodePolicy.max_concurrency: never more executions of the key are under   *)
(* way than it allows.                                                     *)
THEOREM ConcurrencyBounded ==
  Spec => [](Cardinality({x \in Executions : phase[x] \in Holding}) <= SlotLimit)
<1>1. SInv => Cardinality({x \in Executions : phase[x] \in Holding}) <= SlotLimit
  BY HoldersFinite, ExecutorAssumption DEF SInv, Holders
<1> QED
  BY <1>1, SlotsInit, SlotsNext, PTL DEF Spec

-----------------------------------------------------------------------------
(* Workers.  Of the state of the units only the shape matters here.         *)
Worker ==
  [at : {"ended", "created", "calling", "backoff", "failed", "cancelled"},
   unit : Nat, op : Nat, attempt : Nat]
Shaped(r) ==
  r \in [next : Nat, budget : {r.budget}, workers : [Workers -> Worker],
         tried : {r.tried}, results : {r.results}]

(* Only an execution that runs its units has workers that are alive.        *)
QInv ==
  /\ phase \in [Executions -> Phases]
  /\ units = [x \in Executions |-> units[x]]
  /\ \A x \in Executions : Shaped(units[x])
  /\ \A x \in Executions : phase[x] # "units" =>
        \A w \in Workers : units[x].workers[w].at \notin Live

LEMMA WorkerSet ==
  ASSUME NEW r, Shaped(r), NEW w \in Workers, NEW v \in Worker
  PROVE  Shaped([r EXCEPT !.workers[w] = v])
<1> DEFINE q == [r EXCEPT !.workers[w] = v]
<1>1. r.workers \in [Workers -> Worker]
  BY DEF Shaped
<1>2. [r.workers EXCEPT ![w] = v] \in [Workers -> Worker]
  BY <1>1
<1>3. r = [next |-> r.next, budget |-> r.budget, workers |-> r.workers,
           tried |-> r.tried, results |-> r.results] /\ r.next \in Nat
  BY DEF Shaped
<1>4. q = [next |-> r.next, budget |-> r.budget, workers |-> [r.workers EXCEPT ![w] = v],
           tried |-> r.tried, results |-> r.results]
  BY <1>3
<1> QED
  BY <1>2, <1>3, <1>4 DEF Shaped

LEMMA WorkerAt ==
  ASSUME NEW r, Shaped(r), NEW w \in Workers,
         NEW at \in {"ended", "created", "calling", "backoff", "failed", "cancelled"}
  PROVE  Shaped([r EXCEPT !.workers[w].at = at])
<1>1. [r.workers[w] EXCEPT !.at = at] \in Worker
  BY DEF Shaped, Worker
<1>2. [r EXCEPT !.workers[w].at = at]
        = [r EXCEPT !.workers[w] = [r.workers[w] EXCEPT !.at = at]]
  OBVIOUS
<1> QED
  BY <1>1, <1>2, WorkerSet

LEMMA EndsShaped ==
  ASSUME NEW r, Shaped(r), NEW w \in Workers, NEW error
  PROVE  Shaped(UnitEnds(r, w, error)) /\ Shaped(UnitFails(r, w))
<1>1. ASSUME NEW e PROVE Shaped(UnitEnds(r, w, e))
  BY DEF UnitEnds, Shaped
<1>2. Shaped(UnitFails(r, w))
  <2> DEFINE q == UnitEnds(r, w, TRUE)
  <2>1. Shaped(q)
    BY <1>1
  <2>2. UnitFails(r, w) = [q EXCEPT !.workers[w].at = "failed"]
    BY DEF UnitFails
  <2> HIDE DEF q
  <2>3. Shaped([q EXCEPT !.workers[w].at = "failed"])
    BY <2>1, WorkerAt
  <2> QED
    BY <2>2, <2>3
<1> QED
  BY <1>1, <1>2

LEMMA StartShaped ==
  ASSUME NEW r, Shaped(r), NEW w \in Workers, NEW op \in Nat, NEW attempt \in Nat
  PROVE  Shaped(StartAttempt(r, w, op, attempt))
<1>1. Shaped(UnitFails(r, w))
  BY EndsShaped
<1>2. Shaped([r EXCEPT !.budget = @ - 1,
                 !.workers[w] = [@ EXCEPT !.at = "calling", !.op = op, !.attempt = attempt]])
  <2> DEFINE q == [r EXCEPT !.budget = @ - 1]
             v == [r.workers[w] EXCEPT !.at = "calling", !.op = op, !.attempt = attempt]
  <2>1. Shaped(q) /\ v \in Worker /\ q.workers = r.workers
    BY DEF Shaped, Worker
  <2>2. [r EXCEPT !.budget = @ - 1,
            !.workers[w] = [@ EXCEPT !.at = "calling", !.op = op, !.attempt = attempt]]
          = [q EXCEPT !.workers[w] = v]
    BY DEF Shaped
  <2> HIDE DEF q, v
  <2> QED
    BY <2>1, <2>2, WorkerSet
<1> QED
  BY <1>1, <1>2 DEF StartAttempt

LEMMA TakeShaped ==
  ASSUME NEW x \in Executions, NEW r, Shaped(r), NEW w \in Workers
  PROVE  Shaped(TakeUnit(x, r, w))
<1>1. Shaped([r EXCEPT !.workers[w].at = "ended"])
  BY WorkerAt
<1> DEFINE q == [r EXCEPT !.next = @ + 1, !.workers[w].unit = r.next]
<1>2. Shaped(q)
  <2> DEFINE p == [r EXCEPT !.next = @ + 1]
             v == [r.workers[w] EXCEPT !.unit = r.next]
  <2>1. Shaped(p) /\ v \in Worker
    BY DEF Shaped, Worker
  <2>2. q = [p EXCEPT !.workers[w] = v]
    BY DEF Shaped
  <2> HIDE DEF p, q, v
  <2> QED
    BY <2>1, <2>2, WorkerSet
<1> HIDE DEF q
<1>3. Shaped(StartAttempt(q, w, 1, 1))
  BY <1>2, StartShaped
<1> QED
  BY <1>1, <1>3 DEF TakeUnit, q

LEMMA ReturnShaped ==
  ASSUME NEW x \in Executions, NEW r, Shaped(r), NEW w \in Workers
  PROVE  Shaped(Succeeds(x, r, w)) /\ Shaped(Fails(x, r, w))
<1> DEFINE c == Counted(r, w)
<1>1. Shaped(c)
  BY DEF Counted, Shaped
<1>2. r.workers[w].op \in Nat
  BY DEF Shaped, Worker
<1> HIDE DEF c
<1>3. Shaped(Succeeds(x, r, w))
  <2>1. Shaped(UnitEnds(c, w, FALSE))
    BY <1>1, EndsShaped
  <2> QED
    BY <2>1, TakeShaped DEF Succeeds, c
<1>4. Shaped(Fails(x, r, w))
  <2>1. Shaped([c EXCEPT !.workers[w].at = "backoff"])
    BY <1>1, WorkerAt
  <2>2. Shaped(StartAttempt(c, w, r.workers[w].op + 1, 1))
    BY <1>1, <1>2, StartShaped
  <2>3. Shaped(UnitFails(c, w))
    BY <1>1, EndsShaped
  <2> QED
    BY <2>1, <2>2, <2>3 DEF Fails, c
<1> QED
  BY <1>3, <1>4

LEMMA CancelShaped ==
  ASSUME NEW r, Shaped(r)
  PROVE  /\ Shaped(CancelWorkers(r))
         /\ \A w \in Workers : CancelWorkers(r).workers[w].at \notin Live
BY DEF CancelWorkers, Shaped, Worker, Live

(* A worker of an execution that runs its units moves on.                  *)
LEMMA MoveKeepsQuiet ==
  ASSUME QInv, NEW x \in Executions, NEW r, Shaped(r), Move(x, r),
         phase[x] = "units", phase' = phase
  PROVE  QInv'
<1>1. units' = [units EXCEPT ![x] = r]
  BY DEF Move
<1>2. \A y \in Executions : units'[y] = IF y = x THEN r ELSE units[y]
  BY <1>1 DEF QInv
<1>3. units' = [y \in Executions |-> units'[y]]
  BY <1>1 DEF QInv
<1> QED
  BY <1>2, <1>3 DEF QInv

(* An execution answers, or runs its units no more.                        *)
LEMMA LeaveKeepsQuiet ==
  ASSUME QInv, NEW x \in Executions, NEW p \in Phases, phase' = [phase EXCEPT ![x] = p],
         NEW r, Shaped(r), units' = [units EXCEPT ![x] = r],
         \A w \in Workers : r.workers[w].at \notin Live
  PROVE  QInv'
<1>1. \A y \in Executions : units'[y] = IF y = x THEN r ELSE units[y]
  BY DEF QInv
<1>2. units' = [y \in Executions |-> units'[y]]
  BY DEF QInv
<1>3. \A y \in Executions : y # x => phase'[y] = phase[y]
  BY DEF QInv
<1>4. phase' \in [Executions -> Phases]
  BY DEF QInv
<1> QED
  BY <1>1, <1>2, <1>3, <1>4 DEF QInv

LEMMA QuietInit == Init => QInv
<1> SUFFICES ASSUME Init PROVE QInv
  OBVIOUS
<1>1. Shaped(NoUnits)
  BY DEF Shaped, NoUnits, Worker, Idle
<1>2. \A w \in Workers : NoUnits.workers[w].at \notin Live
  BY DEF NoUnits, Idle, Live
<1> QED
  BY <1>1, <1>2 DEF Init, QInv, Phases

LEMMA QuietNext == QInv /\ [Next]_vars => QInv'
<1> SUFFICES ASSUME QInv, [Next]_vars PROVE QInv'
  OBVIOUS
<1>0. /\ \A x \in Executions : Shaped(units[x]) /\ units = [units EXCEPT ![x] = units[x]]
      /\ {"slot", "preparing", "units", "aggregating", "answered"} \subseteq Phases
  BY DEF QInv, Phases, Holding
<1>1. ASSUME NEW x \in Executions,
             \/ ExecuteCommand(x) \/ AnswerAtOnce(x) \/ PrepareFails(x) \/ Aggregate(x)
             \/ Submit(x) \/ AcquireSlot(x)
      PROVE  QInv'
  <2>1. PICK p \in Phases : phase' = [phase EXCEPT ![x] = p]
    BY <1>0, <1>1 DEF ExecuteCommand, AnswerAtOnce, PrepareFails, Aggregate, Submit,
                      AcquireSlot, Finish
  <2>2. units' = units /\ phase[x] # "units"
    BY <1>1 DEF ExecuteCommand, AnswerAtOnce, PrepareFails, Aggregate, Submit, AcquireSlot
  <2>3. \A w \in Workers : units[x].workers[w].at \notin Live
    BY <2>2 DEF QInv
  <2> QED
    BY <1>0, <2>1, <2>2, <2>3, LeaveKeepsQuiet
<1>2. ASSUME NEW x \in Executions, Prepare(x) PROVE QInv'
  <2> DEFINE r == [next |-> 1, budget |-> AttemptLimit[x],
                   workers |-> [w \in Workers |->
                     IF w <= Units[x] THEN [Idle EXCEPT !.at = "created"] ELSE Idle],
                   tried |-> [u \in 1 .. Units[x] |-> <<>>], results |-> {}]
  <2>1. Shaped(r)
    BY DEF Shaped, Worker, Idle
  <2>2. units' = [units EXCEPT ![x] = r] /\ phase' = [phase EXCEPT ![x] = "units"]
    BY <1>2 DEF Prepare
  <2> HIDE DEF r
  <2>3. \A y \in Executions : units'[y] = (IF y = x THEN r ELSE units[y])
    BY <2>2 DEF QInv
  <2>4. \A y \in Executions : phase'[y] = IF y = x THEN "units" ELSE phase[y]
    BY <2>2 DEF QInv
  <2>5. units' = [y \in Executions |-> units'[y]] /\ phase' \in [Executions -> Phases]
    BY <1>0, <2>2 DEF QInv
  <2> QED
    BY <2>1, <2>3, <2>4, <2>5 DEF QInv
<1>3. ASSUME NEW x \in Executions, NEW w \in Workers,
             \/ WorkerStarts(x, w) \/ TimesOut(x, w) \/ BackoffEnds(x, w)
             \/ HandlerReturns(x, w) \/ ThreadReturns(x, w)
      PROVE  QInv'
  <2>1. phase' = phase /\ units[x].workers[w].at \in Live
    BY <1>3 DEF WorkerStarts, TimesOut, BackoffEnds, HandlerReturns, ThreadReturns,
                Calling, Live
  <2>2. phase[x] = "units"
    BY <2>1 DEF QInv
  <2> DEFINE me == units[x].workers[w]
  <2>3. me.op \in Nat /\ me.attempt + 1 \in Nat
    BY <1>0 DEF Shaped, Worker
  <2>4. \/ Move(x, TakeUnit(x, units[x], w))
        \/ Move(x, Succeeds(x, units[x], w)) \/ Move(x, Fails(x, units[x], w))
        \/ Move(x, StartAttempt(units[x], w, me.op, me.attempt + 1))
    BY <1>3 DEF WorkerStarts, TimesOut, BackoffEnds, HandlerReturns, ThreadReturns
  <2>5. /\ Shaped(TakeUnit(x, units[x], w)) /\ Shaped(Succeeds(x, units[x], w))
        /\ Shaped(Fails(x, units[x], w))
        /\ Shaped(StartAttempt(units[x], w, me.op, me.attempt + 1))
    BY <1>0, <2>3, TakeShaped, ReturnShaped, StartShaped
  <2> QED
    BY <2>1, <2>2, <2>4, <2>5, MoveKeepsQuiet
<1>4. ASSUME NEW x \in Executions, UnitsFail(x) \/ Abandon(x) PROVE QInv'
  <2>1. /\ units' = [units EXCEPT ![x] = CancelWorkers(units[x])]
        /\ phase' = [phase EXCEPT ![x] = "answered"]
    BY <1>4 DEF UnitsFail, Abandon, Move, Finish
  <2>2. /\ Shaped(CancelWorkers(units[x]))
        /\ \A w \in Workers : CancelWorkers(units[x]).workers[w].at \notin Live
    BY <1>0, CancelShaped
  <2> QED
    BY <1>0, <2>1, <2>2, LeaveKeepsQuiet
<1>5. ASSUME NEW x \in Executions, UnitsEnd(x) PROVE QInv'
  <2>1. /\ units' = units /\ phase' = [phase EXCEPT ![x] = "aggregating"]
        /\ \A w \in Workers : units[x].workers[w].at \notin Live
    BY <1>5 DEF UnitsEnd, Live
  <2> QED
    BY <1>0, <2>1, LeaveKeepsQuiet
<1>6. ASSUME ThreadStarts \/ (\E c \in running : OrphanReturns(c)) \/ UNCHANGED vars
      PROVE  QInv'
  BY <1>6 DEF ThreadStarts, OrphanReturns, vars, QInv
<1> QED
  BY <1>1, <1>2, <1>3, <1>4, <1>5, <1>6 DEF Next, Works, Returns

(* Once an execution has answered, by any way, nothing of it is left on the *)
(* event loop (_execute_units, abandon of the mailbox).                    *)
THEOREM AnswersAreFinal == Spec => []QuietAfterAnswer
<1>1. QInv => QuietAfterAnswer
  BY DEF QInv, QuietAfterAnswer
<1> QED
  BY <1>1, QuietInit, QuietNext, PTL DEF Spec

-----------------------------------------------------------------------------
(* How the workers move.  Busy is a worker in the middle of a unit.         *)
Busy == {"calling", "backoff"}

(* s is r after a step of worker w, which may have taken the next unit.    *)
Changes(r, s, w) ==
  /\ Shaped(s)
  /\ \A v \in Workers : v # w => s.workers[v] = r.workers[v]
  /\ \/ s.next = r.next /\ s.workers[w].unit = r.workers[w].unit
     \/ s.next = r.next + 1 /\ s.workers[w].unit = r.next
     \/ s.next = r.next /\ s.workers[w].at \notin Busy

LEMMA EndsChanges ==
  ASSUME NEW r, Shaped(r), NEW w \in Workers, NEW e
  PROVE  UnitEnds(r, w, e).workers = r.workers /\ UnitEnds(r, w, e).next = r.next
BY DEF UnitEnds, Shaped

LEMMA FailsChanges ==
  ASSUME NEW r, Shaped(r), NEW w \in Workers
  PROVE  /\ Changes(r, UnitFails(r, w), w)
         /\ UnitFails(r, w).next = r.next
         /\ UnitFails(r, w).workers[w] = [r.workers[w] EXCEPT !.at = "failed"]
<1> DEFINE q == UnitEnds(r, w, TRUE)
           s == UnitFails(r, w)
<1>2. Shaped(q) /\ Shaped(s)
  BY EndsShaped
<1>3. s = [q EXCEPT !.workers[w].at = "failed"]
  BY DEF UnitFails
<1>4. q.workers = r.workers /\ q.next = r.next
  BY EndsChanges
<1> HIDE DEF q, s
<1>5. /\ s.workers = [r.workers EXCEPT ![w] = [@ EXCEPT !.at = "failed"]]
      /\ s.next = r.next
  BY <1>2, <1>3, <1>4 DEF Shaped
<1>6. /\ s.workers[w] = [r.workers[w] EXCEPT !.at = "failed"]
      /\ \A v \in Workers : v # w => s.workers[v] = r.workers[v]
      /\ s.workers[w].unit = r.workers[w].unit
  BY <1>5 DEF Shaped, Worker
<1>7. Changes(r, s, w)
  BY <1>2, <1>5, <1>6 DEF Changes
<1> QED
  BY <1>5, <1>6, <1>7 DEF s

LEMMA StartChanges ==
  ASSUME NEW r, Shaped(r), NEW w \in Workers, NEW op \in Nat, NEW attempt \in Nat
  PROVE  LET s == StartAttempt(r, w, op, attempt)
         IN  /\ Changes(r, s, w) /\ s.next = r.next
             /\ s.workers[w].unit = r.workers[w].unit
             /\ \/ s.workers[w].at = "failed"
                \/ /\ s.workers[w].at = "calling" /\ s.workers[w].op = op
                   /\ s.workers[w].attempt = attempt
<1> DEFINE s == StartAttempt(r, w, op, attempt)
<1>0. Shaped(s)
  BY StartShaped
<1>1. CASE r.budget = 0
  <2>1. s = UnitFails(r, w)
    BY <1>1 DEF StartAttempt
  <2> HIDE DEF s
  <2>2. /\ Changes(r, s, w) /\ s.next = r.next
        /\ s.workers[w] = [r.workers[w] EXCEPT !.at = "failed"]
    BY <2>1, FailsChanges
  <2>3. r.workers[w] \in Worker
    BY DEF Shaped
  <2>4. s.workers[w].at = "failed" /\ s.workers[w].unit = r.workers[w].unit
    BY <2>2, <2>3 DEF Worker
  <2> QED
    BY <2>2, <2>4 DEF s
<1>2. CASE r.budget # 0
  <2> DEFINE v == [r.workers[w] EXCEPT !.at = "calling", !.op = op, !.attempt = attempt]
  <2>1. s = [r EXCEPT !.budget = @ - 1,
                      !.workers[w] = [@ EXCEPT !.at = "calling", !.op = op, !.attempt = attempt]]
    BY <1>2 DEF StartAttempt
  <2>2. s.workers = [r.workers EXCEPT ![w] = v] /\ s.next = r.next
    BY <2>1 DEF Shaped
  <2>3. /\ v.at = "calling" /\ v.op = op /\ v.attempt = attempt
        /\ v.unit = r.workers[w].unit
    BY DEF Shaped, Worker
  <2> HIDE DEF s, v
  <2>4. s.workers[w] = v /\ \A u \in Workers : u # w => s.workers[u] = r.workers[u]
    BY <2>2 DEF Shaped
  <2> QED
    BY <1>0, <2>2, <2>3, <2>4 DEF Changes, s
<1> QED
  BY <1>1, <1>2

LEMMA TakeChanges ==
  ASSUME NEW x \in Executions, NEW r, Shaped(r), NEW w \in Workers
  PROVE  LET s == TakeUnit(x, r, w)
         IN  /\ Changes(r, s, w)
             /\ \/ s.workers[w].at \notin Busy /\ s.next = r.next
                \/ s.workers[w].unit = r.next /\ s.next = r.next + 1
<1> DEFINE s == TakeUnit(x, r, w)
<1>0. Shaped(s)
  BY TakeShaped
<1>1. CASE r.next > Units[x]
  <2>1. s = [r EXCEPT !.workers[w].at = "ended"]
    BY <1>1 DEF TakeUnit
  <2>2. /\ s.next = r.next /\ s.workers[w].at = "ended"
        /\ \A v \in Workers : v # w => s.workers[v] = r.workers[v]
    BY <2>1 DEF Shaped, Worker
  <2> QED
    BY <1>0, <2>2 DEF Changes, Busy
<1>2. CASE ~(r.next > Units[x])
  <2> DEFINE q == [r EXCEPT !.next = @ + 1, !.workers[w].unit = r.next]
             v == [r.workers[w] EXCEPT !.unit = r.next]
  <2>1. s = StartAttempt(q, w, 1, 1)
    BY <1>2 DEF TakeUnit
  <2>2. q.workers = [r.workers EXCEPT ![w] = v] /\ q.next = r.next + 1
    BY DEF Shaped
  <2>3. Shaped(q)
    <3> DEFINE p == [r EXCEPT !.next = @ + 1]
    <3>1. Shaped(p) /\ v \in Worker
      BY DEF Shaped, Worker
    <3>2. q = [p EXCEPT !.workers[w] = v]
      BY DEF Shaped
    <3> HIDE DEF p, q, v
    <3> QED
      BY <3>1, <3>2, WorkerSet
  <2>4. v.unit = r.next
    BY DEF Shaped, Worker
  <2> HIDE DEF q, s, v
  <2>5. /\ q.workers[w].unit = r.next
        /\ \A u \in Workers : u # w => q.workers[u] = r.workers[u]
    BY <2>2, <2>4 DEF Shaped
  <2>6. /\ Changes(q, s, w) /\ s.next = q.next /\ s.workers[w].unit = q.workers[w].unit
    BY <2>1, <2>3, StartChanges
  <2>7. /\ \A u \in Workers : u # w => s.workers[u] = r.workers[u]
        /\ s.workers[w].unit = r.next /\ s.next = r.next + 1
    BY <2>2, <2>5, <2>6 DEF Changes
  <2> QED
    BY <1>0, <2>7 DEF Changes, s
<1> QED
  BY <1>1, <1>2

LEMMA CountedChanges ==
  ASSUME NEW r, Shaped(r), NEW w \in Workers
  PROVE  /\ Shaped(Counted(r, w)) /\ Counted(r, w).workers = r.workers
         /\ Counted(r, w).next = r.next
BY DEF Counted, Shaped

(* A call that has ended is not made again.                                *)
LEMMA ReturnChanges ==
  ASSUME NEW x \in Executions, NEW r, Shaped(r), NEW w \in Workers,
         r.workers[w].unit < r.next,
         NEW s \in {Succeeds(x, r, w), Fails(x, r, w)}
  PROVE  /\ Changes(r, s, w)
         /\ s.workers[w].at = "calling" => CallOf(x, s.workers[w]) # CallOf(x, r.workers[w])
<1> DEFINE c == Counted(r, w)
<1>1. Shaped(c) /\ c.workers = r.workers /\ c.next = r.next
  BY CountedChanges
<1>2. /\ r.workers[w].unit \in Nat /\ r.workers[w].op \in Nat /\ r.next \in Nat
      /\ r.workers[w].attempt \in Nat
  BY DEF Shaped, Worker
<1> HIDE DEF c
<1>3. CASE s = Succeeds(x, r, w)
  <2> DEFINE e == UnitEnds(c, w, FALSE)
  <2>1. Shaped(e) /\ e.workers = r.workers /\ e.next = r.next
    BY <1>1, EndsShaped, EndsChanges
  <2>2. s = TakeUnit(x, e, w)
    BY <1>3 DEF Succeeds, c
  <2> HIDE DEF e
  <2>3. /\ Changes(e, s, w)
        /\ \/ s.workers[w].at \notin Busy /\ s.next = r.next
           \/ s.workers[w].unit = r.next /\ s.next = r.next + 1
    BY <2>1, <2>2, TakeChanges
  <2>4. Changes(r, s, w)
    BY <2>1, <2>3 DEF Changes
  <2> QED
    BY <1>2, <2>3, <2>4 DEF Busy, CallOf
<1>4. CASE s = Fails(x, r, w)
  <2>1. CASE s = [c EXCEPT !.workers[w].at = "backoff"]
    <3>1. Shaped(s)
      BY <1>1, <2>1, WorkerAt
    <3>2. /\ s.workers = [c.workers EXCEPT ![w] = [@ EXCEPT !.at = "backoff"]]
          /\ s.next = c.next
      BY <1>1, <2>1 DEF Shaped
    <3>3. /\ s.workers[w].at = "backoff" /\ s.workers[w].unit = r.workers[w].unit
          /\ \A v \in Workers : v # w => s.workers[v] = r.workers[v]
      BY <1>1, <3>2 DEF Shaped, Worker
    <3> QED
      BY <1>1, <3>1, <3>2, <3>3 DEF Changes
  <2>2. CASE s = StartAttempt(c, w, r.workers[w].op + 1, 1)
    <3>1. /\ Changes(c, s, w)
          /\ s.workers[w].at = "failed" \/ s.workers[w].op = r.workers[w].op + 1
      BY <1>1, <1>2, <2>2, StartChanges
    <3>2. Changes(r, s, w)
      BY <1>1, <3>1 DEF Changes
    <3> QED
      BY <1>2, <3>1, <3>2 DEF CallOf
  <2>3. CASE s = UnitFails(c, w)
    <3>1. Changes(c, s, w) /\ s.workers[w] = [r.workers[w] EXCEPT !.at = "failed"]
      BY <1>1, <2>3, FailsChanges
    <3>2. s.workers[w].at = "failed"
      BY <3>1 DEF Shaped, Worker
    <3>3. Changes(r, s, w)
      BY <1>1, <3>1 DEF Changes
    <3> QED
      BY <3>2, <3>3
  <2> QED
    BY <1>4, <2>1, <2>2, <2>3 DEF Fails, c
<1> QED
  BY <1>3, <1>4

-----------------------------------------------------------------------------
(* The thread pool.                                                        *)
Calls == Executions \X Nat \X Nat \X Nat

(* Workers in the middle of a unit have different ones, which were taken.  *)
UnitsApart(r) ==
  /\ \A w \in Workers : r.workers[w].at \in Busy => r.workers[w].unit < r.next
  /\ \A v, w \in Workers :
       v # w /\ r.workers[v].at \in Busy /\ r.workers[w].at \in Busy =>
         r.workers[v].unit # r.workers[w].unit

KInv ==
  /\ QInv
  /\ queued \in Seq(Calls) /\ running \subseteq Calls
  /\ \A x \in Executions : UnitsApart(units[x])
  /\ QueueExact

LEMMA ApartKept ==
  ASSUME NEW r, Shaped(r), UnitsApart(r), NEW w \in Workers, NEW s, Changes(r, s, w),
         \/ r.workers[w].at \in Busy \/ s.workers[w].at \notin Busy
         \/ s.workers[w].unit = r.next /\ s.next = r.next + 1
  PROVE  UnitsApart(s)
<1>1. /\ r.next \in Nat /\ s.next \in Nat /\ s.next >= r.next
      /\ \A v \in Workers : r.workers[v].unit \in Nat
  BY DEF Shaped, Worker, Changes
<1>2. \A v \in Workers : v # w => s.workers[v] = r.workers[v]
  BY DEF Changes
<1>3. s.workers[w].at \in Busy =>
        /\ s.workers[w].unit < s.next
        /\ \A v \in Workers : v # w /\ r.workers[v].at \in Busy =>
             s.workers[w].unit # r.workers[v].unit
  BY <1>1 DEF Changes, UnitsApart
<1>4. \A v \in Workers : s.workers[v].at \in Busy => s.workers[v].unit < s.next
  BY <1>1, <1>2, <1>3 DEF UnitsApart
<1>5. \A v, u \in Workers :
        v # u /\ s.workers[v].at \in Busy /\ s.workers[u].at \in Busy =>
          s.workers[v].unit # s.workers[u].unit
  BY <1>2, <1>3 DEF UnitsApart
<1> QED
  BY <1>4, <1>5 DEF UnitsApart

LEMMA AwaitedIs ==
  ASSUME NEW x \in Executions, NEW r, Shaped(r)
  PROVE  /\ Awaited(x, r) \subseteq Calls /\ IsFiniteSet(Awaited(x, r))
         /\ \A c \in Awaited(x, r) : c[1] = x
<1>1. \A w \in Workers : CallOf(x, r.workers[w]) \in Calls /\ CallOf(x, r.workers[w])[1] = x
  BY DEF Shaped, Worker, CallOf, Calls
<1> DEFINE W == {v \in Workers : r.workers[v].at = "calling"
                                  /\ Operators(x)[r.workers[v].op] = "sync"}
           F == [v \in W |-> CallOf(x, r.workers[v])]
<1>2. Awaited(x, r) = {CallOf(x, r.workers[w]) : w \in W}
  BY DEF Awaited
<1>3. F \in Surjection(W, Awaited(x, r))
  BY <1>2 DEF Surjection
<1>4. IsFiniteSet(Workers)
  BY ExecutorAssumption, FS_Interval DEF Workers
<1>5. IsFiniteSet(W)
  BY <1>4, FS_Subset
<1>6. IsFiniteSet(Awaited(x, r))
  BY <1>3, <1>5, FS_Surjection
<1> QED
  BY <1>1, <1>2, <1>6

LEMMA PoolIs ==
  ASSUME KInv, NEW x \in Executions, NEW r, Shaped(r)
  PROVE  /\ Pool(x, r) \in Seq(Calls) /\ IsInjective(Pool(x, r))
         /\ Range(Pool(x, r)) =
              {c \in Range(queued) : c[1] = x => c \in Awaited(x, r)}
                \cup (Awaited(x, r) \ (Range(queued) \cup running))
<1> DEFINE S == {c \in Range(queued) : c[1] = x => c \in Awaited(x, r)}
           T == Awaited(x, r) \ (Range(queued) \cup running)
<1>1. queued \in Seq(Calls) /\ IsInjective(queued)
  BY DEF KInv, QueueExact
<1>2. T \subseteq Calls /\ IsFiniteSet(T)
  <2>1. T \in SUBSET Awaited(x, r)
    OBVIOUS
  <2> QED
    BY <2>1, AwaitedIs, FS_Subset
<1>3. Pool(x, r) = Kept(queued, S) \o SetToSeq(T)
  BY DEF Pool
<1>4. S \cap T = {} /\ Range(queued) \cap S = S
  OBVIOUS
<1> HIDE DEF S, T
<1>5. /\ Kept(queued, S) \in Seq(Calls) /\ IsInjective(Kept(queued, S))
      /\ Range(Kept(queued, S)) = S
  BY <1>1, <1>4, KeptIs
<1>6. SetToSeq(T) \in Seq(T) /\ Range(SetToSeq(T)) = T /\ IsInjective(SetToSeq(T))
  BY <1>2, SequenceOf
<1>7. SetToSeq(T) \in Seq(Calls)
  BY <1>2, <1>6
<1>8. Pool(x, r) \in Seq(Calls) /\ Range(Pool(x, r)) = S \cup T /\ IsInjective(Pool(x, r))
  BY <1>3, <1>4, <1>5, <1>6, <1>7, Concatenated
<1> QED
  BY <1>8 DEF S, T

(* The workers of one execution move on; the calls that left the threads   *)
(* were theirs.                                                            *)
LEMMA MoveKeepsQueue ==
  ASSUME KInv, QInv', NEW x \in Executions, NEW r, Shaped(r), UnitsApart(r), Move(x, r),
         running' \subseteq running,
         \A c \in running \ running' : c[1] = x /\ c \notin Awaited(x, r)
  PROVE  KInv'
<1>1. /\ units' = [units EXCEPT ![x] = r] /\ queued' = Pool(x, r)
      /\ units = [y \in Executions |-> units[y]]
      /\ \A y \in Executions : Shaped(units[y]) /\ UnitsApart(units[y])
      /\ queued \in Seq(Calls) /\ running \subseteq Calls
  BY DEF Move, KInv, QInv
<1>2. \A y \in Executions : units'[y] = IF y = x THEN r ELSE units[y]
  BY <1>1
<1>3. /\ queued' \in Seq(Calls) /\ IsInjective(queued')
      /\ Range(queued') = {c \in Range(queued) : c[1] = x => c \in Awaited(x, r)}
                            \cup (Awaited(x, r) \ (Range(queued) \cup running))
  BY <1>1, PoolIs
<1>4. /\ Range(queued) \cap running = {}
      /\ \A c \in Range(queued) : \E y \in Executions : c \in Awaited(y, units[y])
      /\ \A y \in Executions : Awaited(y, units[y]) \subseteq Range(queued) \cup running
  BY DEF KInv, QueueExact
<1>5. \A y \in Executions : \A c \in Awaited(y, units'[y]) : c[1] = y
  BY <1>1, <1>2, AwaitedIs
<1>6. \A y \in Executions : \A c \in Awaited(y, units[y]) : c[1] = y
  BY <1>1, AwaitedIs
<1>7. Range(queued') \cap running' = {}
  BY <1>3, <1>4
<1>8. ASSUME NEW c \in Range(queued')
      PROVE  \E y \in Executions : c \in Awaited(y, units'[y])
  <2>1. CASE c \in Awaited(x, r)
    BY <1>2, <2>1
  <2>2. CASE c \notin Awaited(x, r)
    <3>1. c \in Range(queued) /\ c[1] # x
      BY <1>3, <1>8, <2>2
    <3>2. PICK y \in Executions : c \in Awaited(y, units[y])
      BY <1>4, <3>1
    <3> QED
      BY <1>2, <1>6, <3>1, <3>2
  <2> QED
    BY <2>1, <2>2
<1>9. ASSUME NEW y \in Executions, NEW c \in Awaited(y, units'[y])
      PROVE  c \in Range(queued') \cup running'
  <2>1. CASE y = x
    BY <1>2, <1>3, <1>5, <2>1
  <2>2. CASE y # x
    <3>1. c \in Awaited(y, units[y]) /\ c[1] # x
      BY <1>2, <1>5, <2>2
    <3>2. c \in Range(queued) \cup running
      BY <1>4, <3>1
    <3> QED
      BY <1>3, <3>1, <3>2
  <2> QED
    BY <2>1, <2>2
<1>10. QueueExact'
  <2>1. Range(queued') \subseteq UNION {Awaited(y, units'[y]) : y \in Executions}
    BY <1>8
  <2> QED
    BY <1>3, <1>7, <1>9, <2>1 DEF QueueExact
<1>11. \A y \in Executions : UnitsApart(units'[y])
  BY <1>1, <1>2
<1>12. running' \subseteq Calls
  BY <1>1
<1> QED
  BY <1>3, <1>10, <1>11, <1>12 DEF KInv

LEMMA QueueKept ==
  ASSUME KInv, QInv', UNCHANGED <<units, queued, running>>
  PROVE  KInv'
BY DEF KInv, QueueExact

LEMMA ApartWithout ==
  ASSUME NEW r, \A w \in Workers : r.workers[w].at \notin Busy
  PROVE  UnitsApart(r)
BY DEF UnitsApart

LEMMA QueueInit == Init => KInv
<1> SUFFICES ASSUME Init PROVE KInv
  OBVIOUS
<1>1. QInv
  BY QuietInit
<1>2. \A x \in Executions : \A w \in Workers : units[x].workers[w].at = "ended"
  BY DEF Init, NoUnits, Idle
<1>3. \A x \in Executions : UnitsApart(units[x]) /\ Awaited(x, units[x]) = {}
  BY <1>2 DEF UnitsApart, Busy, Awaited
<1>4. queued = <<>> /\ running = {} /\ Range(queued) = {} /\ IsInjective(queued)
  BY DEF Init, Range, IsInjective
<1>5. QueueExact
  BY <1>3, <1>4 DEF QueueExact
<1> QED
  BY <1>1, <1>3, <1>4, <1>5 DEF KInv

LEMMA QueueNext == KInv /\ [Next]_vars => KInv'
<1> SUFFICES ASSUME KInv, [Next]_vars PROVE KInv'
  OBVIOUS
<1>0. QInv /\ QInv'
  BY QuietNext DEF KInv
<1>1. /\ \A x \in Executions : Shaped(units[x]) /\ UnitsApart(units[x])
      /\ units = [x \in Executions |-> units[x]]
      /\ queued \in Seq(Calls) /\ running \subseteq Calls /\ QueueExact
  BY DEF KInv, QInv
<1>2. ASSUME NEW x \in Executions,
             \/ ExecuteCommand(x) \/ AnswerAtOnce(x) \/ PrepareFails(x) \/ Aggregate(x)
             \/ Submit(x) \/ AcquireSlot(x) \/ UnitsEnd(x) \/ UNCHANGED vars
      PROVE  KInv'
  <2>1. UNCHANGED <<units, queued, running>>
    BY <1>2 DEF ExecuteCommand, AnswerAtOnce, PrepareFails, Aggregate, Submit,
                AcquireSlot, UnitsEnd, vars
  <2> QED
    BY <1>0, <2>1, QueueKept
<1>3. ASSUME NEW x \in Executions, Prepare(x) PROVE KInv'
  <2> DEFINE r == [next |-> 1, budget |-> AttemptLimit[x],
                   workers |-> [w \in Workers |->
                     IF w <= Units[x] THEN [Idle EXCEPT !.at = "created"] ELSE Idle],
                   tried |-> [u \in 1 .. Units[x] |-> <<>>], results |-> {}]
  <2>1. units' = [units EXCEPT ![x] = r] /\ UNCHANGED <<queued, running>>
    BY <1>3 DEF Prepare
  <2>2. \A w \in Workers : r.workers[w].at \in {"created", "ended"}
    BY DEF Idle
  <2>3. \A w \in Workers : units[x].workers[w].at \notin Live
    BY <1>0, <1>3 DEF QInv, Prepare
  <2> HIDE DEF r
  <2>4. \A y \in Executions : units'[y] = IF y = x THEN r ELSE units[y]
    BY <1>1, <2>1
  <2>5. Awaited(x, r) = {} /\ Awaited(x, units[x]) = {}
    BY <2>2, <2>3 DEF Awaited, Live
  <2>6. UnitsApart(r)
    BY <2>2, ApartWithout DEF Busy
  <2>7. \A y \in Executions : Awaited(y, units'[y]) = Awaited(y, units[y])
    BY <2>4, <2>5
  <2>8. QueueExact'
    BY <1>1, <2>1, <2>7 DEF QueueExact
  <2> QED
    BY <1>0, <1>1, <2>1, <2>4, <2>6, <2>8 DEF KInv
<1>4. ASSUME NEW x \in Executions, NEW w \in Workers,
             \/ WorkerStarts(x, w) \/ TimesOut(x, w) \/ BackoffEnds(x, w)
             \/ HandlerReturns(x, w) \/ ThreadReturns(x, w)
      PROVE  KInv'
  <2> DEFINE r == units[x]
             me == r.workers[w]
             s1 == TakeUnit(x, r, w)
             s2 == StartAttempt(r, w, me.op, me.attempt + 1)
  <2>1. Shaped(r) /\ UnitsApart(r) /\ me.op \in Nat /\ me.attempt + 1 \in Nat
    BY <1>1 DEF Shaped, Worker
  <2>2. CASE WorkerStarts(x, w)
    <3>1. Move(x, s1) /\ UNCHANGED running
      BY <2>2 DEF WorkerStarts
    <3>2. Changes(r, s1, w) /\ Shaped(s1)
      BY <2>1, TakeChanges DEF Changes
    <3>3. \/ s1.workers[w].at \notin Busy
          \/ s1.workers[w].unit = r.next /\ s1.next = r.next + 1
      BY <2>1, TakeChanges
    <3> HIDE DEF s1, r, me
    <3>4. UnitsApart(s1)
      BY <2>1, <3>2, <3>3, ApartKept
    <3> QED
      BY <1>0, <3>1, <3>2, <3>4, MoveKeepsQueue
  <2>3. CASE BackoffEnds(x, w)
    <3>1. Move(x, s2) /\ UNCHANGED running /\ me.at \in Busy
      BY <2>3 DEF BackoffEnds, Busy
    <3> HIDE DEF me
    <3>2. Changes(r, s2, w) /\ Shaped(s2)
      <4> DEFINE op == r.workers[w].op
                 attempt == r.workers[w].attempt + 1
      <4>1. op \in Nat /\ attempt \in Nat
        BY <2>1 DEF me
      <4>2. Changes(r, StartAttempt(r, w, op, attempt), w)
        <5> HIDE DEF op, attempt, r
        <5> QED
          BY <2>1, <4>1, StartChanges
      <4> QED
        BY <4>2 DEF Changes, me
    <3> HIDE DEF s2
    <3>4. UnitsApart(s2)
      BY <2>1, <3>1, <3>2, ApartKept DEF me
    <3> QED
      BY <1>0, <3>1, <3>2, <3>4, MoveKeepsQueue
  <2>4. CASE TimesOut(x, w) \/ HandlerReturns(x, w) \/ ThreadReturns(x, w)
    <3>1. me.at = "calling" /\ me.at \in Busy /\ me.unit < r.next
      BY <2>1, <2>4 DEF TimesOut, HandlerReturns, ThreadReturns, Calling, Busy, UnitsApart
    <3>2. PICK s \in {Succeeds(x, r, w), Fails(x, r, w)} : Move(x, s)
      BY <2>4 DEF TimesOut, HandlerReturns, ThreadReturns
    <3> HIDE DEF r
    <3>3. /\ Changes(r, s, w)
          /\ s.workers[w].at = "calling" => CallOf(x, s.workers[w]) # CallOf(x, me)
      BY <2>1, <3>1, ReturnChanges
    <3>4. Shaped(s) /\ UnitsApart(s)
      BY <2>1, <3>1, <3>3, ApartKept DEF Changes
    <3>5. CASE ThreadReturns(x, w)
      <4>1. running' = running \ {CallOf(x, me)}
        BY <3>5 DEF ThreadReturns, r
      <4>2. \A v \in Workers : v # w /\ s.workers[v].at = "calling" =>
              CallOf(x, s.workers[v]) # CallOf(x, me)
        <5>1. \A v \in Workers : v # w /\ s.workers[v].at = "calling" =>
                s.workers[v].unit # me.unit
          BY <2>1, <3>1, <3>3 DEF Changes, UnitsApart, Busy
        <5> QED
          BY <5>1 DEF CallOf
      <4>3. CallOf(x, me) \notin Awaited(x, s)
        BY <3>3, <4>2 DEF Awaited
      <4>4. CallOf(x, me)[1] = x
        BY DEF CallOf
      <4> HIDE DEF me
      <4> QED
        BY <1>0, <3>2, <3>4, <4>1, <4>3, <4>4, MoveKeepsQueue
    <3>6. CASE TimesOut(x, w) \/ HandlerReturns(x, w)
      <4>1. UNCHANGED running
        BY <3>6 DEF TimesOut, HandlerReturns
      <4> QED
        BY <1>0, <3>2, <3>4, <4>1, MoveKeepsQueue
    <3> QED
      BY <2>4, <3>5, <3>6
  <2> QED
    BY <1>4, <2>2, <2>3, <2>4
<1>5. ASSUME NEW x \in Executions, UnitsFail(x) \/ Abandon(x) PROVE KInv'
  <2> DEFINE s == CancelWorkers(units[x])
  <2>1. Move(x, s) /\ UNCHANGED running
    BY <1>5 DEF UnitsFail, Abandon
  <2>2. Shaped(s) /\ \A w \in Workers : s.workers[w].at \notin Live
    BY <1>1, CancelShaped
  <2> HIDE DEF s
  <2>3. UnitsApart(s)
    BY <2>2, ApartWithout DEF Busy, Live
  <2> QED
    BY <1>0, <2>1, <2>2, <2>3, MoveKeepsQueue
<1>6. ASSUME ThreadStarts PROVE KInv'
  <2>1. /\ UNCHANGED units /\ queued # <<>> /\ queued' = Tail(queued)
        /\ running' = running \cup {Head(queued)}
    BY <1>6 DEF ThreadStarts
  <2>2. /\ queued' \in Seq(Calls) /\ Head(queued) \in Calls /\ IsInjective(queued')
        /\ Range(queued) = {Head(queued)} \cup Range(queued')
        /\ Head(queued) \notin Range(queued')
    BY <1>1, <2>1, TailIs DEF QueueExact
  <2>3. QueueExact'
    BY <1>1, <2>1, <2>2 DEF QueueExact
  <2> QED
    BY <1>0, <1>1, <2>1, <2>2, <2>3 DEF KInv
<1>7. ASSUME NEW c \in running, OrphanReturns(c) PROVE KInv'
  <2>1. /\ c \notin Awaited(c[1], units[c[1]]) /\ running' = running \ {c}
        /\ UNCHANGED <<units, queued>>
    BY <1>7 DEF OrphanReturns
  <2>2. \A y \in Executions : c \notin Awaited(y, units[y])
    BY <1>1, <2>1, AwaitedIs
  <2>3. QueueExact'
    BY <1>1, <2>1, <2>2 DEF QueueExact
  <2> QED
    BY <1>0, <1>1, <2>1, <2>3 DEF KInv
<1>8. CASE UNCHANGED vars
  BY <1>0, <1>8, QueueKept DEF vars
<1> QED
  BY <1>2, <1>3, <1>4, <1>5, <1>6, <1>7, <1>8 DEF Next, Works, Returns

(* A handler only starts for a worker that awaits it, and no call a worker *)
(* awaits is lost, in the queue of the pool or its threads, for any number *)
(* of threads, executions, units and workers (run_in_executor and the      *)
(* cancellation of its future in _execute_attempt).                        *)
THEOREM PoolServesWorkers == Spec => []QueueExact
<1>1. KInv => QueueExact
  BY DEF KInv
<1> QED
  BY <1>1, QueueInit, QueueNext, PTL DEF Spec

-----------------------------------------------------------------------------
(* The ledger of attempts.                                                 *)
Reasons == {"normal", "retry", "fallback"}
Settled(r) == {q.unit : q \in r.results}

(* The attempts of unit u that are on record, and the one under way.       *)
Under(r, u) ==
  \E w \in Workers : r.workers[w].at = "calling" /\ r.workers[w].unit = u
Made(r, u) == Len(r.tried[u]) + IF Under(r, u) THEN 1 ELSE 0
MadeBy(x, r) == [u \in 1 .. Units[x] |-> Made(r, u)]

Typed(x, r) ==
  /\ Shaped(r) /\ r.budget \in Nat /\ r.next \in 1 .. Units[x] + 1
  /\ r.tried \in [1 .. Units[x] -> Seq(Reasons)]

(* The first attempt of a unit is the normal one, no other is.             *)
Ordered(x, r) ==
  \A u \in 1 .. Units[x] :
    /\ u >= r.next => r.tried[u] = <<>>
    /\ \A k \in DOMAIN r.tried[u] : r.tried[u][k] = "normal" <=> k = 1

(* What the budget lost was spent on attempts.                             *)
Balanced(x, r) ==
  r.budget + SumOver(MadeBy(x, r), 1 .. Units[x]) = AttemptLimit[x]

(* A worker in the middle of a unit has taken one without a result.        *)
Apart(x, r) ==
  /\ UnitsApart(r)
  /\ \A w \in Workers : r.workers[w].at \in Busy =>
       r.workers[w].unit \in 1 .. r.next - 1 /\ r.workers[w].unit \notin Settled(r)

(* What a worker will say of its next attempt.                             *)
Told(r, w) ==
  LET me == r.workers[w]
  IN  /\ me.at = "calling" =>
           /\ me.op >= 1 /\ me.attempt >= 1
           /\ r.tried[me.unit] = <<>> <=> me.op = 1 /\ me.attempt = 1
      /\ me.at = "backoff" => me.op >= 1 /\ me.attempt >= 1 /\ r.tried[me.unit] # <<>>

(* A result is the only one of its unit and holds all attempts of it.      *)
Recorded(x, r) ==
  /\ r.results \subseteq [unit : 1 .. r.next - 1, error : BOOLEAN, attempts : Seq(Reasons)]
  /\ \A q \in r.results :
       /\ q.attempts = r.tried[q.unit]
       /\ ~q.error => q.attempts # <<>>
       /\ q.error => \E w \in Workers : r.workers[w].at = "failed"
  /\ \A p, q \in r.results : p.unit = q.unit => p = q

(* A unit that was taken has a worker or a result, and none is left when   *)
(* the workers have ended.                                                 *)
Covering(x, r) ==
  /\ \A u \in 1 .. r.next - 1 :
       u \in Settled(r) \/ \E w \in Workers : r.workers[w].at \in Busy /\ r.workers[w].unit = u
  /\ \A w \in Workers : r.workers[w].at = "ended" /\ w <= Units[x] => r.next > Units[x]

Whole(x, r) ==
  /\ Typed(x, r) /\ Ordered(x, r) /\ Balanced(x, r) /\ Apart(x, r)
  /\ Recorded(x, r) /\ Covering(x, r)

AllEnded(r) == \A w \in Workers : r.workers[w].at = "ended"

LInv ==
  /\ QInv
  /\ answer \in [Executions -> {"none", "waiting", "failed", "completed", "cancelled"}]
  /\ \A x \in Executions :
       /\ phase[x] \in {"units", "aggregating"} =>
            Whole(x, units[x]) /\ \A w \in Workers : Told(units[x], w)
       /\ phase[x] = "aggregating" => AllEnded(units[x])
       /\ answer[x] = "completed" =>
            phase[x] = "answered" /\ Whole(x, units[x]) /\ AllEnded(units[x])

(* What the operators of a worker do, field by field.                      *)
Beside(r, s, w) == \A v \in Workers : v # w => s.workers[v] = r.workers[v]
Result(r, w, error) ==
  [unit |-> r.workers[w].unit, error |-> error, attempts |-> r.tried[r.workers[w].unit]]

Starts(r, s, w, op, attempt) ==
  /\ Shaped(s) /\ Beside(r, s, w) /\ s.next = r.next /\ s.tried = r.tried
  /\ s.workers[w].unit = r.workers[w].unit
  /\ \/ /\ r.budget = 0 /\ s.budget = r.budget
        /\ s.workers[w].at = "failed" /\ s.results = r.results \cup {Result(r, w, TRUE)}
     \/ /\ r.budget # 0 /\ s.budget = r.budget - 1 /\ s.results = r.results
        /\ s.workers[w].at = "calling" /\ s.workers[w].op = op
        /\ s.workers[w].attempt = attempt

LEMMA EndsIs ==
  ASSUME NEW r, Shaped(r), NEW w \in Workers, NEW e \in BOOLEAN
  PROVE  LET s == UnitEnds(r, w, e)
         IN  /\ Shaped(s) /\ s.workers = r.workers /\ s.next = r.next /\ s.tried = r.tried
             /\ s.budget = r.budget /\ s.results = r.results \cup {Result(r, w, e)}
BY EndsShaped DEF UnitEnds, Shaped, Result

LEMMA FailsIs ==
  ASSUME NEW r, Shaped(r), NEW w \in Workers
  PROVE  LET s == UnitFails(r, w)
         IN  /\ Shaped(s) /\ Beside(r, s, w) /\ s.next = r.next /\ s.tried = r.tried
             /\ s.workers[w].unit = r.workers[w].unit /\ s.workers[w].at = "failed"
             /\ s.budget = r.budget /\ s.results = r.results \cup {Result(r, w, TRUE)}
<1> DEFINE q == UnitEnds(r, w, TRUE)
           s == UnitFails(r, w)
<1>1. /\ Shaped(q) /\ q.workers = r.workers /\ q.next = r.next /\ q.tried = r.tried
      /\ q.budget = r.budget /\ q.results = r.results \cup {Result(r, w, TRUE)}
  BY EndsIs
<1>2. s = [q EXCEPT !.workers[w].at = "failed"]
  BY DEF UnitFails
<1>3. Shaped(s)
  BY EndsShaped
<1> HIDE DEF q, s
<1>4. /\ s.next = q.next /\ s.tried = q.tried /\ s.budget = q.budget /\ s.results = q.results
      /\ s.workers = [q.workers EXCEPT ![w] = [@ EXCEPT !.at = "failed"]]
  BY <1>1, <1>2 DEF Shaped
<1>5. q.workers \in [Workers -> Worker]
  BY <1>1 DEF Shaped
<1>6. /\ s.workers[w] = [q.workers[w] EXCEPT !.at = "failed"] /\ q.workers[w] \in Worker
      /\ \A v \in Workers : v # w => s.workers[v] = q.workers[v]
  BY <1>4, <1>5
<1>7. s.workers[w].at = "failed" /\ s.workers[w].unit = r.workers[w].unit
  BY <1>1, <1>6 DEF Worker
<1> QED
  BY <1>1, <1>3, <1>4, <1>6, <1>7 DEF Beside, s

LEMMA StartsIs ==
  ASSUME NEW r, Shaped(r), NEW w \in Workers, NEW op \in Nat, NEW attempt \in Nat
  PROVE  Starts(r, StartAttempt(r, w, op, attempt), w, op, attempt)
<1> DEFINE s == StartAttempt(r, w, op, attempt)
<1>0. Shaped(s)
  BY StartShaped
<1>1. CASE r.budget = 0
  <2>1. s = UnitFails(r, w)
    BY <1>1 DEF StartAttempt
  <2> HIDE DEF s
  <2>2. /\ Shaped(s) /\ Beside(r, s, w) /\ s.next = r.next /\ s.tried = r.tried
        /\ s.workers[w].unit = r.workers[w].unit /\ s.workers[w].at = "failed"
        /\ s.budget = r.budget /\ s.results = r.results \cup {Result(r, w, TRUE)}
    BY <2>1, FailsIs
  <2>3. Starts(r, s, w, op, attempt)
    BY <1>1, <2>2 DEF Starts
  <2> QED
    BY <2>3 DEF s
<1>2. CASE r.budget # 0
  <2> DEFINE v == [r.workers[w] EXCEPT !.at = "calling", !.op = op, !.attempt = attempt]
  <2>1. s = [r EXCEPT !.budget = @ - 1,
                      !.workers[w] = [@ EXCEPT !.at = "calling", !.op = op, !.attempt = attempt]]
    BY <1>2 DEF StartAttempt
  <2>2. /\ s.workers = [r.workers EXCEPT ![w] = v] /\ s.next = r.next
        /\ s.budget = r.budget - 1 /\ s.tried = r.tried /\ s.results = r.results
    BY <2>1 DEF Shaped
  <2>3. /\ v.at = "calling" /\ v.op = op /\ v.attempt = attempt
        /\ v.unit = r.workers[w].unit
    BY DEF Shaped, Worker
  <2> HIDE DEF s, v
  <2>4. s.workers[w] = v /\ \A u \in Workers : u # w => s.workers[u] = r.workers[u]
    BY <2>2 DEF Shaped
  <2> QED
    BY <1>0, <1>2, <2>2, <2>3, <2>4 DEF Starts, Beside, s
<1> QED
  BY <1>1, <1>2

(* The attempt of worker w is over and on record.                          *)
Counts(r, s, w) ==
  LET me == r.workers[w]
  IN  /\ Shaped(s) /\ Beside(r, s, w) /\ s.next = r.next /\ s.budget = r.budget
      /\ s.results = r.results /\ s.workers[w].at = "backoff"
      /\ s.workers[w].unit = me.unit /\ s.workers[w].op = me.op
      /\ s.workers[w].attempt = me.attempt
      /\ s.tried = [r.tried EXCEPT ![me.unit] = Append(@, AttemptReason(me.op, me.attempt))]

(* The units of r with worker w in another state.                          *)
At(r, w, at) == [r EXCEPT !.workers[w].at = at]

LEMMA AtIs ==
  ASSUME NEW r, Shaped(r), NEW w \in Workers,
         NEW at \in {"ended", "created", "calling", "backoff", "failed", "cancelled"}
  PROVE  LET s == At(r, w, at)
         IN  /\ Shaped(s) /\ Beside(r, s, w) /\ s.next = r.next /\ s.tried = r.tried
             /\ s.budget = r.budget /\ s.results = r.results
             /\ s.workers[w].at = at /\ s.workers[w].unit = r.workers[w].unit
             /\ s.workers[w].op = r.workers[w].op
             /\ s.workers[w].attempt = r.workers[w].attempt
<1> DEFINE s == At(r, w, at)
<1>1. Shaped(s)
  BY WorkerAt DEF At
<1>2. /\ s.next = r.next /\ s.tried = r.tried /\ s.budget = r.budget /\ s.results = r.results
      /\ s.workers = [r.workers EXCEPT ![w] = [@ EXCEPT !.at = at]]
  BY DEF At, Shaped
<1>3. r.workers \in [Workers -> Worker]
  BY DEF Shaped
<1> HIDE DEF s
<1>4. /\ s.workers[w] = [r.workers[w] EXCEPT !.at = at] /\ r.workers[w] \in Worker
      /\ \A v \in Workers : v # w => s.workers[v] = r.workers[v]
  BY <1>2, <1>3
<1> QED
  BY <1>1, <1>2, <1>4 DEF Beside, Worker, s

LEMMA CountedIs ==
  ASSUME NEW r, Shaped(r), NEW w \in Workers
  PROVE  LET s == Counted(r, w)
             me == r.workers[w]
         IN  /\ Shaped(s) /\ s.workers = r.workers /\ s.next = r.next
             /\ s.budget = r.budget /\ s.results = r.results
             /\ s.tried = [r.tried EXCEPT ![me.unit] =
                             Append(@, AttemptReason(me.op, me.attempt))]
BY DEF Counted, Shaped

-----------------------------------------------------------------------------
(* The ledger stays whole.                                                 *)

LEMMA AppendIs ==
  ASSUME NEW S, NEW t \in Seq(S), NEW e \in S
  PROVE  /\ Append(t, e) \in Seq(S) /\ Append(t, e) # <<>>
         /\ Len(Append(t, e)) = Len(t) + 1 /\ Len(t) \in Nat /\ (t = <<>> <=> Len(t) = 0)
         /\ \A k \in DOMAIN Append(t, e) :
              \/ k \in DOMAIN t /\ Append(t, e)[k] = t[k]
              \/ k = Len(t) + 1 /\ Append(t, e)[k] = e
OBVIOUS

(* An attempt that has ended is put on record.                             *)
LEMMA CountWhole ==
  ASSUME NEW x \in Executions, NEW r, Whole(x, r), \A v \in Workers : Told(r, v),
         NEW w \in Workers, r.workers[w].at = "calling",
         NEW s, Counts(r, s, w)
  PROVE  /\ Whole(x, s) /\ \A v \in Workers : Told(s, v)
         /\ s.tried[s.workers[w].unit] # <<>>
<1> DEFINE u == r.workers[w].unit
           reason == AttemptReason(r.workers[w].op, r.workers[w].attempt)
<1>0. /\ Shaped(s) /\ Beside(r, s, w) /\ s.next = r.next /\ s.budget = r.budget
      /\ s.results = r.results /\ s.workers[w].at = "backoff"
      /\ s.workers[w].unit = r.workers[w].unit /\ s.workers[w].op = r.workers[w].op
      /\ s.workers[w].attempt = r.workers[w].attempt
      /\ s.tried = [r.tried EXCEPT ![u] = Append(@, reason)]
  BY DEF Counts
<1>1. /\ Units[x] \in Nat /\ r.next \in 1 .. Units[x] + 1 /\ Shaped(r)
      /\ r.tried \in [1 .. Units[x] -> Seq(Reasons)]
      /\ \A v \in Workers : r.workers[v] \in Worker /\ s.workers[v] \in Worker
  BY <1>0, ExecutorAssumption DEF Whole, Typed, Shaped
<1>2. u \in 1 .. r.next - 1 /\ u \notin Settled(r) /\ u \in 1 .. Units[x]
  BY <1>0, <1>1 DEF Whole, Apart, Busy
<1>3. /\ r.workers[w].op \in Nat /\ r.workers[w].attempt \in Nat
      /\ r.workers[w].op >= 1 /\ r.workers[w].attempt >= 1
      /\ r.tried[u] = <<>> <=> r.workers[w].op = 1 /\ r.workers[w].attempt = 1
  BY <1>0, <1>1 DEF Told, Worker
<1>4. /\ reason \in Reasons
      /\ reason = "normal" <=> r.tried[u] = <<>>
  BY <1>0, <1>3 DEF AttemptReason, Reasons
<1> DEFINE old == r.tried[u]
           new == Append(old, reason)
<1>5. /\ s.tried \in [1 .. Units[x] -> Seq(Reasons)]
      /\ s.tried[u] = new
      /\ \A v \in 1 .. Units[x] : v # u => s.tried[v] = r.tried[v]
  <2>1. s.tried = [r.tried EXCEPT ![u] = new]
    BY <1>0
  <2>2. old \in Seq(Reasons)
    BY <1>0, <1>1, <1>2
  <2> HIDE DEF old, reason, u
  <2>3. new \in Seq(Reasons)
    BY <1>0, <1>4, <2>2
  <2> HIDE DEF new
  <2> QED
    BY <1>0, <1>1, <1>2, <2>1, <2>3
<1>6. /\ Len(s.tried[u]) = Len(r.tried[u]) + 1 /\ s.tried[u] # <<>>
      /\ Len(r.tried[u]) \in Nat /\ Len(s.tried[u]) \in Nat
      /\ r.tried[u] = <<>> <=> Len(r.tried[u]) = 0
      /\ \A k \in DOMAIN s.tried[u] :
           \/ k \in DOMAIN r.tried[u] /\ s.tried[u][k] = r.tried[u][k]
           \/ k = Len(r.tried[u]) + 1 /\ s.tried[u][k] = reason
  <2>1. old \in Seq(Reasons)
    BY <1>0, <1>1, <1>2
  <2> HIDE DEF old, reason, u
  <2> SUFFICES /\ Len(new) = Len(old) + 1 /\ new # <<>>
               /\ Len(old) \in Nat /\ Len(new) \in Nat
               /\ old = <<>> <=> Len(old) = 0
               /\ \A k \in DOMAIN new :
                    \/ k \in DOMAIN old /\ new[k] = old[k]
                    \/ k = Len(old) + 1 /\ new[k] = reason
    BY <1>0, <1>5 DEF old
  <2> QED
    BY <1>0, <1>4, <2>1, AppendIs
<1> HIDE DEF reason, old, new
<1>7. ASSUME NEW v \in Workers, v # w, r.workers[v].at \in Busy
      PROVE  r.workers[v].unit # u /\ r.workers[v].unit \in 1 .. Units[x]
  BY <1>0, <1>1, <1>7 DEF Whole, Apart, UnitsApart, Busy
<1>8. \A v \in Workers : s.workers[v].at \in Busy <=> r.workers[v].at \in Busy
  BY <1>0 DEF Beside, Busy
<1>9. \A v \in Workers : s.workers[v].unit = r.workers[v].unit
  BY <1>0 DEF Beside
<1>10. Typed(x, s)
  BY <1>0, <1>5 DEF Whole, Typed
<1>11. Ordered(x, s)
  <2>1. ASSUME NEW k \in DOMAIN s.tried[u] PROVE s.tried[u][k] = "normal" <=> k = 1
    <3>1. CASE k \in DOMAIN r.tried[u] /\ s.tried[u][k] = r.tried[u][k]
      BY <1>0, <1>2, <3>1 DEF Whole, Ordered
    <3> HIDE DEF u
    <3>2. CASE k = Len(r.tried[u]) + 1 /\ s.tried[u][k] = reason
      <4> DEFINE n == Len(r.tried[u])
      <4>0. n \in Nat /\ k = n + 1 /\ (r.tried[u] = <<>> <=> n = 0)
        BY <1>0, <1>6, <3>2
      <4> HIDE DEF n
      <4>1. k = 1 <=> r.tried[u] = <<>>
        BY <1>0, <4>0
      <4> QED
        BY <1>0, <1>4, <3>2, <4>1
    <3> QED
      BY <1>0, <1>6, <3>1, <3>2
  <2>2. ~(u >= s.next)
    BY <1>0, <1>1, <1>2
  <2> HIDE DEF u
  <2>3. ASSUME NEW v \in 1 .. Units[x], v # u
        PROVE  /\ v >= s.next => s.tried[v] = <<>>
               /\ \A k \in DOMAIN s.tried[v] : s.tried[v][k] = "normal" <=> k = 1
    <3>1. /\ v >= r.next => r.tried[v] = <<>>
          /\ \A k \in DOMAIN r.tried[v] : r.tried[v][k] = "normal" <=> k = 1
      BY <1>0 DEF Whole, Ordered
    <3>2. s.tried[v] = r.tried[v]
      BY <1>0, <1>5, <2>3
    <3> QED
      BY <1>0, <3>1, <3>2
  <2> QED
    BY <1>0, <2>1, <2>2, <2>3 DEF Ordered
<1>12. Balanced(x, s)
  <2>1. ~Under(s, u) /\ Under(r, u)
    <3>1. \A v \in Workers : v # w /\ s.workers[v].at = "calling" => s.workers[v].unit # u
      BY <1>0, <1>7 DEF Beside, Busy
    <3>2. ~Under(s, u)
      BY <1>0, <3>1 DEF Under
    <3> QED
      BY <1>0, <3>2 DEF Under
  <2>2. Made(s, u) = Made(r, u)
    <3>1. Made(s, u) = Len(s.tried[u]) + 0 /\ Made(r, u) = Len(r.tried[u]) + 1
      BY <1>0, <2>1 DEF Made
    <3> DEFINE m == Len(s.tried[u])
               n == Len(r.tried[u])
    <3>2. m \in Nat /\ n \in Nat /\ m = n + 1 /\ Made(s, u) = m + 0 /\ Made(r, u) = n + 1
      BY <1>0, <1>6, <3>1
    <3> HIDE DEF m, n
    <3> QED
      BY <1>0, <3>2
  <2>3. \A v \in 1 .. Units[x] : v # u => (Under(s, v) <=> Under(r, v))
    BY <1>0, <1>9 DEF Under, Beside
  <2>4. \A v \in 1 .. Units[x] : Made(s, v) = Made(r, v)
    BY <1>0, <1>5, <2>2, <2>3 DEF Made
  <2>5. MadeBy(x, s) = MadeBy(x, r)
    BY <1>0, <2>4 DEF MadeBy
  <2> QED
    BY <1>0, <2>5 DEF Whole, Balanced
<1>13. Apart(x, s)
  <2>1. UnitsApart(s)
    BY <1>0, <1>8, <1>9 DEF Whole, Apart, UnitsApart
  <2> QED
    BY <1>0, <1>8, <1>9, <2>1 DEF Whole, Apart, Settled
<1>14. Recorded(x, s)
  <2>1. \A q \in r.results : q.unit # u /\ q.unit \in 1 .. Units[x]
    BY <1>0, <1>1, <1>2 DEF Settled, Whole, Recorded
  <2>2. \A q \in r.results : s.tried[q.unit] = r.tried[q.unit]
    BY <1>0, <1>5, <2>1
  <2>3. \A v \in Workers : r.workers[v].at = "failed" => s.workers[v].at = "failed"
    BY <1>0 DEF Beside
  <2> QED
    BY <1>0, <2>2, <2>3 DEF Whole, Recorded
<1>15. Covering(x, s)
  <2>1. \A v \in Workers : s.workers[v].at = "ended" => r.workers[v].at = "ended"
    BY <1>0 DEF Beside
  <2> QED
    BY <1>0, <1>8, <1>9, <2>1 DEF Whole, Covering, Settled
<1>16. ASSUME NEW v \in Workers PROVE Told(s, v)
  <2>1. CASE v = w
    BY <1>0, <1>3, <1>6, <2>1 DEF Told
  <2>2. CASE v # w /\ s.workers[v].at \in Busy
    <3>1. s.workers[v] = r.workers[v] /\ Told(r, v)
      BY <1>0, <2>2 DEF Beside
    <3>2. s.tried[r.workers[v].unit] = r.tried[r.workers[v].unit]
      BY <1>0, <1>5, <1>7, <1>8, <2>2
    <3> QED
      BY <1>0, <3>1, <3>2 DEF Told
  <2>3. CASE s.workers[v].at \notin Busy
    BY <1>0, <2>3 DEF Told, Busy
  <2> QED
    BY <1>0, <2>1, <2>2, <2>3
<1> QED
  BY <1>0, <1>6, <1>10, <1>11, <1>12, <1>13, <1>14, <1>15, <1>16 DEF Whole

(* A unit gets its result, and its worker leaves it.                       *)
LEMMA SettleWhole ==
  ASSUME NEW x \in Executions, NEW r, Whole(x, r),
         NEW w \in Workers, r.workers[w].at = "backoff",
         \A v \in Workers : v # w => Told(r, v),
         NEW error \in BOOLEAN, ~error => r.tried[r.workers[w].unit] # <<>>,
         NEW s, Shaped(s), Beside(r, s, w), s.next = r.next, s.budget = r.budget,
         s.tried = r.tried, s.results = r.results \cup {Result(r, w, error)},
         s.workers[w].at = IF error THEN "failed" ELSE "created"
  PROVE  Whole(x, s) /\ \A v \in Workers : Told(s, v)
<1> DEFINE u == r.workers[w].unit
           new == Result(r, w, error)
<1>1. /\ Units[x] \in Nat /\ r.next \in 1 .. Units[x] + 1 /\ Shaped(r)
      /\ r.tried \in [1 .. Units[x] -> Seq(Reasons)]
  BY ExecutorAssumption DEF Whole, Typed
<1>2. u \in 1 .. r.next - 1 /\ u \notin Settled(r) /\ u \in 1 .. Units[x]
  BY <1>1 DEF Whole, Apart, Busy
<1>3. /\ new.unit = u /\ new.error = error /\ new.attempts = r.tried[u]
      /\ new \in [unit : 1 .. r.next - 1, error : BOOLEAN, attempts : Seq(Reasons)]
  BY <1>1, <1>2 DEF Result
<1> HIDE DEF new
<1>4. Settled(s) = Settled(r) \cup {u}
  BY <1>3 DEF Settled, new
<1> HIDE DEF u
<1>5. s.workers[w].at \notin Busy /\ s.workers[w].at # "calling" /\ s.workers[w].at # "ended"
  BY DEF Busy
<1>6. \A v \in Workers : v # w /\ s.workers[v].at \in Busy =>
        r.workers[v].unit # u /\ r.workers[v].at \in Busy
  BY DEF Whole, Apart, UnitsApart, Beside, Busy, u
<1>7. Typed(x, s)
  BY DEF Whole, Typed
<1>8. Ordered(x, s)
  BY DEF Whole, Ordered
<1>9. Balanced(x, s)
  <2>1. \A v \in 1 .. Units[x] : Under(s, v) <=> Under(r, v)
    BY <1>5 DEF Under, Beside
  <2>2. MadeBy(x, s) = MadeBy(x, r)
    BY <2>1 DEF MadeBy, Made
  <2> QED
    BY <2>2 DEF Whole, Balanced
<1>10. Apart(x, s)
  <2>1. UnitsApart(s)
    BY <1>5 DEF Whole, Apart, UnitsApart, Beside
  <2>2. ASSUME NEW v \in Workers, s.workers[v].at \in Busy
        PROVE  s.workers[v].unit \in 1 .. s.next - 1 /\ s.workers[v].unit \notin Settled(s)
    <3>1. v # w /\ s.workers[v] = r.workers[v]
      BY <1>5, <2>2 DEF Beside
    <3>2. r.workers[v].unit \in 1 .. r.next - 1 /\ r.workers[v].unit \notin Settled(r)
      BY <2>2, <3>1 DEF Whole, Apart
    <3> QED
      BY <1>4, <1>6, <2>2, <3>1, <3>2
  <2> QED
    BY <2>1, <2>2 DEF Apart
<1>11. Recorded(x, s)
  <2>1. s.results = r.results \cup {new}
    BY DEF new
  <2>2. s.results \subseteq [unit : 1 .. s.next - 1, error : BOOLEAN, attempts : Seq(Reasons)]
    BY <1>3, <2>1 DEF Whole, Recorded
  <2>3. \A v \in Workers : r.workers[v].at = "failed" => s.workers[v].at = "failed"
    BY DEF Beside
  <2>4. ASSUME NEW q \in s.results
        PROVE  /\ q.attempts = s.tried[q.unit]
               /\ ~q.error => q.attempts # <<>>
               /\ q.error => \E v \in Workers : s.workers[v].at = "failed"
    <3>1. CASE q \in r.results
      BY <2>3, <3>1 DEF Whole, Recorded
    <3>2. CASE q = new
      BY <1>3, <3>2 DEF u
    <3> QED
      BY <2>1, <3>1, <3>2
  <2>5. \A q \in r.results : q.unit # u
    BY <1>2 DEF Settled
  <2>6. \A p, q \in s.results : p.unit = q.unit => p = q
    BY <1>3, <2>1, <2>5 DEF Whole, Recorded
  <2> QED
    BY <2>2, <2>4, <2>6 DEF Recorded
<1>12. Covering(x, s)
  <2>1. ASSUME NEW v \in 1 .. s.next - 1
        PROVE  \/ v \in Settled(s)
               \/ \E y \in Workers : s.workers[y].at \in Busy /\ s.workers[y].unit = v
    <3>1. CASE v = u
      BY <1>4, <3>1
    <3>2. CASE v # u
      <4>1. CASE v \in Settled(r)
        BY <1>4, <4>1
      <4>2. CASE v \notin Settled(r)
        <5>1. PICK y \in Workers : r.workers[y].at \in Busy /\ r.workers[y].unit = v
          BY <4>2 DEF Whole, Covering
        <5>2. y # w
          BY <3>2, <5>1 DEF u
        <5> QED
          BY <5>1, <5>2 DEF Beside
      <4> QED
        BY <4>1, <4>2
    <3> QED
      BY <3>1, <3>2
  <2>2. \A v \in Workers : s.workers[v].at = "ended" => r.workers[v].at = "ended"
    BY <1>5 DEF Beside
  <2> QED
    BY <2>1, <2>2 DEF Whole, Covering
<1>13. ASSUME NEW v \in Workers PROVE Told(s, v)
  BY <1>5 DEF Told, Beside, Busy
<1> QED
  BY <1>7, <1>8, <1>9, <1>10, <1>11, <1>12, <1>13 DEF Whole

(* An attempt begins, or the budget is spent.                              *)
LEMMA StartWhole ==
  ASSUME NEW x \in Executions, NEW r, Whole(x, r),
         NEW w \in Workers, r.workers[w].at = "backoff",
         \A v \in Workers : v # w => Told(r, v),
         NEW op \in Nat \ {0}, NEW attempt \in Nat \ {0},
         r.tried[r.workers[w].unit] = <<>> <=> op = 1 /\ attempt = 1,
         NEW s, Starts(r, s, w, op, attempt)
  PROVE  Whole(x, s) /\ \A v \in Workers : Told(s, v)
<1> DEFINE u == r.workers[w].unit
<1>1. /\ Shaped(s) /\ Beside(r, s, w) /\ s.next = r.next /\ s.tried = r.tried
      /\ s.workers[w].unit = u
  BY DEF Starts
<1>2. CASE s.workers[w].at = "failed"
  <2>1. s.budget = r.budget /\ s.results = r.results \cup {Result(r, w, TRUE)}
    BY <1>2 DEF Starts
  <2> QED
    BY <1>1, <1>2, <2>1, SettleWhole
<1>3. CASE s.workers[w].at # "failed"
  <2>1. /\ r.budget # 0 /\ s.budget = r.budget - 1 /\ s.results = r.results
        /\ s.workers[w].at = "calling" /\ s.workers[w].op = op
        /\ s.workers[w].attempt = attempt
    BY <1>3 DEF Starts
  <2>2. /\ Units[x] \in Nat /\ r.next \in 1 .. Units[x] + 1 /\ Shaped(r) /\ r.budget \in Nat
        /\ r.tried \in [1 .. Units[x] -> Seq(Reasons)]
    BY ExecutorAssumption DEF Whole, Typed
  <2>3. u \in 1 .. r.next - 1 /\ u \notin Settled(r) /\ u \in 1 .. Units[x]
    BY <2>2 DEF Whole, Apart, Busy
  <2>4. \A v \in Workers : /\ s.workers[v].at \in Busy <=> r.workers[v].at \in Busy
                           /\ s.workers[v].unit = r.workers[v].unit
    BY <1>1, <2>1 DEF Beside, Busy
  <2>5. Settled(s) = Settled(r)
    BY <2>1 DEF Settled
  <2> HIDE DEF u
  <2>6. Typed(x, s)
    BY <1>1, <2>1, <2>2 DEF Whole, Typed
  <2>7. Ordered(x, s)
    BY <1>1 DEF Whole, Ordered
  <2>8. Balanced(x, s)
    <3> DEFINE a == MadeBy(x, r)
               b == MadeBy(x, s)
    <3>1. \A v \in 1 .. Units[x] : Len(r.tried[v]) \in Nat
      BY <2>2
    <3>2. \A v \in 1 .. Units[x] : a[v] \in Int /\ b[v] \in Int
      BY <1>1, <3>1 DEF MadeBy, Made
    <3>3. ~Under(r, u) /\ Under(s, u)
      <4>1. \A v \in Workers : r.workers[v].at = "calling" => r.workers[v].unit # u
        BY DEF Whole, Apart, UnitsApart, Busy, u
      <4> QED
        BY <1>1, <2>1, <4>1 DEF Under
    <3>4. \A v \in 1 .. Units[x] : v # u => (Under(s, v) <=> Under(r, v))
      BY <1>1 DEF Under, Beside, u
    <3>5. \A v \in 1 .. Units[x] : v # u => b[v] = a[v]
      BY <1>1, <3>4 DEF MadeBy, Made
    <3>6. b[u] = a[u] + 1
      <4> DEFINE n == Len(r.tried[u])
      <4>1. n \in Nat /\ a[u] = n + 0 /\ b[u] = n + 1
        BY <1>1, <2>3, <3>1, <3>3 DEF MadeBy, Made
      <4> HIDE DEF n, a, b
      <4> QED
        BY <4>1
    <3> DEFINE S == 1 .. Units[x]
    <3>7. IsFiniteSet(S) /\ u \in S
      <4>1. 1 \in Int /\ Units[x] \in Int
        BY <2>2
      <4> QED
        BY <2>3, <4>1, FS_Interval
    <3> HIDE DEF a, b
    <3> DEFINE total == SumOver(a, S)
               later == SumOver(b, S)
    <3>8. /\ \A v \in S : a[v] \in Int /\ b[v] \in Int
          /\ \A v \in S : v # u => b[v] = a[v]
      BY <3>2, <3>5
    <3>9. r.budget + total = AttemptLimit[x]
      BY DEF Whole, Balanced, a
    <3> HIDE DEF S
    <3>10. later = total - a[u] + b[u] /\ total \in Int /\ a[u] \in Int
      BY <3>7, <3>8, SumMoved, SumInInt
    <3> DEFINE n == a[u]
               left == r.budget
    <3>11. /\ left \in Int /\ n \in Int /\ total \in Int /\ left + total = AttemptLimit[x]
           /\ later = total - n + b[u] /\ b[u] = n + 1 /\ s.budget = left - 1
      BY <2>1, <2>2, <3>6, <3>9, <3>10
    <3> HIDE DEF n, left, total
    <3>12. later = total + 1
      BY <3>11
    <3> HIDE DEF later
    <3>13. s.budget + later = AttemptLimit[x]
      BY <3>11, <3>12
    <3> QED
      BY <3>13 DEF Balanced, later, b, S
  <2>9. Apart(x, s)
    <3>1. UnitsApart(s)
      BY <1>1, <2>4 DEF Whole, Apart, UnitsApart
    <3> QED
      BY <1>1, <2>4, <2>5, <3>1 DEF Whole, Apart
  <2>10. Recorded(x, s)
    <3>1. \A v \in Workers : r.workers[v].at = "failed" => s.workers[v].at = "failed"
      BY <1>1 DEF Beside
    <3> QED
      BY <1>1, <2>1, <3>1 DEF Whole, Recorded
  <2>11. Covering(x, s)
    <3>1. \A v \in Workers : s.workers[v].at = "ended" => r.workers[v].at = "ended"
      BY <1>1, <2>1 DEF Beside
    <3> QED
      BY <1>1, <2>4, <2>5, <3>1 DEF Whole, Covering
  <2>12. ASSUME NEW v \in Workers PROVE Told(s, v)
    BY <1>1, <2>1 DEF Told, Beside, u
  <2> QED
    BY <2>6, <2>7, <2>8, <2>9, <2>10, <2>11, <2>12 DEF Whole
<1> QED
  BY <1>2, <1>3

(* A worker takes the next unit ...                                        *)
LEMMA NextUnitWhole ==
  ASSUME NEW x \in Executions, NEW r, Whole(x, r), \A v \in Workers : Told(r, v),
         NEW w \in Workers, r.workers[w].at = "created", r.next <= Units[x],
         NEW s, Shaped(s), Beside(r, s, w), s.next = r.next + 1, s.budget = r.budget,
         s.tried = r.tried, s.results = r.results,
         s.workers[w].at = "backoff", s.workers[w].unit = r.next
  PROVE  /\ Whole(x, s) /\ \A v \in Workers : v # w => Told(s, v)
         /\ s.tried[s.workers[w].unit] = <<>>
<1>1. /\ Units[x] \in Nat /\ r.next \in 1 .. Units[x] /\ Shaped(r)
      /\ r.tried \in [1 .. Units[x] -> Seq(Reasons)]
      /\ r.next - 1 \in Nat /\ s.next - 1 = r.next
      /\ s.next \in 1 .. Units[x] + 1
  <2>1. /\ Units[x] \in Nat /\ r.next \in 1 .. Units[x] + 1 /\ Shaped(r)
        /\ r.tried \in [1 .. Units[x] -> Seq(Reasons)]
    BY ExecutorAssumption DEF Whole, Typed
  <2> DEFINE n == r.next
             m == s.next
             k == Units[x]
  <2>2. k \in Nat /\ n \in 1 .. k + 1 /\ n <= k /\ m = n + 1
    BY <2>1
  <2> HIDE DEF n, m, k
  <2>3. n \in 1 .. k /\ n - 1 \in Nat /\ m - 1 = n /\ m \in 1 .. k + 1
    BY <2>2
  <2> QED
    BY <2>1, <2>3 DEF n, m, k
<1>2. \A q \in r.results : q.unit \in 1 .. r.next - 1
  BY DEF Whole, Recorded
<1>3. Settled(s) = Settled(r) /\ r.next \notin Settled(r)
  BY <1>1, <1>2 DEF Settled
<1>4. \A v \in Workers : r.workers[v].at \in Busy => v # w /\ s.workers[v] = r.workers[v]
  BY DEF Beside, Busy
<1>5. \A v \in Workers : v # w /\ s.workers[v].at \in Busy =>
        /\ r.workers[v].at \in Busy /\ s.workers[v] = r.workers[v]
        /\ r.workers[v].unit \in 1 .. r.next - 1 /\ r.workers[v].unit \notin Settled(r)
  BY DEF Beside, Whole, Apart
<1>6. Typed(x, s)
  BY <1>1 DEF Whole, Typed
<1>7. Ordered(x, s)
  BY <1>1 DEF Whole, Ordered
<1>8. Balanced(x, s)
  <2>1. \A v \in 1 .. Units[x] : Under(s, v) <=> Under(r, v)
    BY DEF Under, Beside
  <2>2. MadeBy(x, s) = MadeBy(x, r)
    BY <2>1 DEF MadeBy, Made
  <2> QED
    BY <2>2 DEF Whole, Balanced
<1>9. Apart(x, s)
  <2>1. ASSUME NEW v \in Workers, s.workers[v].at \in Busy
        PROVE  /\ s.workers[v].unit \in 1 .. s.next - 1 /\ s.workers[v].unit \notin Settled(s)
               /\ s.workers[v].unit < s.next
    <3>1. CASE v = w
      BY <1>1, <1>3, <3>1
    <3>2. CASE v # w
      BY <1>1, <1>3, <1>5, <2>1, <3>2
    <3> QED
      BY <3>1, <3>2
  <2>2. \A v \in Workers : v # w /\ s.workers[v].at \in Busy => s.workers[v].unit # r.next
    BY <1>1, <1>5
  <2>3. \A v, y \in Workers : v # y /\ s.workers[v].at \in Busy /\ s.workers[y].at \in Busy =>
          s.workers[v].unit # s.workers[y].unit
    BY <1>5, <2>2 DEF Whole, Apart, UnitsApart
  <2> QED
    BY <2>1, <2>3 DEF Apart, UnitsApart
<1>10. Recorded(x, s)
  <2>1. s.results \subseteq [unit : 1 .. s.next - 1, error : BOOLEAN, attempts : Seq(Reasons)]
    <3>1. 1 .. r.next - 1 \subseteq 1 .. s.next - 1
      BY <1>1
    <3> QED
      BY <3>1 DEF Whole, Recorded
  <2>2. \A v \in Workers : r.workers[v].at = "failed" => s.workers[v].at = "failed"
    BY DEF Beside
  <2> QED
    BY <2>1, <2>2 DEF Whole, Recorded
<1>11. Covering(x, s)
  <2>1. ASSUME NEW v \in 1 .. s.next - 1
        PROVE  \/ v \in Settled(s)
               \/ \E y \in Workers : s.workers[y].at \in Busy /\ s.workers[y].unit = v
    <3>1. CASE v = r.next
      BY <3>1 DEF Busy
    <3>2. CASE v # r.next
      <4>1. v \in 1 .. r.next - 1
        BY <1>1, <3>2
      <4> QED
        BY <1>3, <1>4, <4>1 DEF Whole, Covering
    <3> QED
      BY <3>1, <3>2
  <2>2. \A v \in Workers : s.workers[v].at = "ended" =>
          v # w /\ r.workers[v].at = "ended"
    BY DEF Beside
  <2> QED
    BY <1>1, <2>1, <2>2 DEF Whole, Covering
<1>12. ASSUME NEW v \in Workers, v # w PROVE Told(s, v)
  BY <1>12 DEF Told, Beside
<1> QED
  BY <1>1, <1>6, <1>7, <1>8, <1>9, <1>10, <1>11, <1>12 DEF Whole, Ordered

(* ... or ends, when there is none.                                        *)
LEMMA EndWhole ==
  ASSUME NEW x \in Executions, NEW r, Whole(x, r), \A v \in Workers : Told(r, v),
         NEW w \in Workers, r.workers[w].at = "created", r.next > Units[x],
         NEW s, Shaped(s), Beside(r, s, w), s.next = r.next, s.budget = r.budget,
         s.tried = r.tried, s.results = r.results, s.workers[w].at = "ended"
  PROVE  Whole(x, s) /\ \A v \in Workers : Told(s, v)
<1>1. Settled(s) = Settled(r)
  BY DEF Settled
<1>2. \A v \in Workers :
        /\ s.workers[v].at \in Busy <=> r.workers[v].at \in Busy
        /\ s.workers[v].at \in Busy => s.workers[v] = r.workers[v]
        /\ r.workers[v].at = "failed" => s.workers[v].at = "failed"
  BY DEF Beside, Busy
<1>3. Typed(x, s) /\ Ordered(x, s)
  BY DEF Whole, Typed, Ordered
<1>4. Balanced(x, s)
  <2>1. \A v \in 1 .. Units[x] : Under(s, v) <=> Under(r, v)
    BY DEF Under, Beside
  <2>2. MadeBy(x, s) = MadeBy(x, r)
    BY <2>1 DEF MadeBy, Made
  <2> QED
    BY <2>2 DEF Whole, Balanced
<1>5. Apart(x, s)
  BY <1>1, <1>2 DEF Whole, Apart, UnitsApart
<1>6. Recorded(x, s)
  BY <1>2 DEF Whole, Recorded
<1>7. Covering(x, s)
  BY <1>1, <1>2 DEF Whole, Covering
<1>8. \A v \in Workers : Told(s, v)
  BY DEF Told, Beside
<1> QED
  BY <1>3, <1>4, <1>5, <1>6, <1>7, <1>8 DEF Whole

(* A worker between two units, which it is called "created", goes on.      *)
LEMMA TakeWhole ==
  ASSUME NEW x \in Executions, NEW r, Whole(x, r), \A v \in Workers : Told(r, v),
         NEW w \in Workers, r.workers[w].at = "created",
         NEW p, Shaped(p), p.next = r.next, p.budget = r.budget, p.tried = r.tried,
         p.results = r.results, Beside(r, p, w)
  PROVE  LET s == TakeUnit(x, p, w)
         IN  Whole(x, s) /\ \A v \in Workers : Told(s, v)
<1> DEFINE s == TakeUnit(x, p, w)
<1>1. CASE p.next > Units[x]
  <2> DEFINE e == At(p, w, "ended")
  <2>0. /\ Shaped(e) /\ Beside(p, e, w) /\ e.next = p.next /\ e.tried = p.tried
        /\ e.budget = p.budget /\ e.results = p.results /\ e.workers[w].at = "ended"
    BY AtIs
  <2>1. s = e
    BY <1>1 DEF TakeUnit, At
  <2> HIDE DEF s, e
  <2>2. /\ Shaped(s) /\ Beside(p, s, w) /\ s.next = p.next /\ s.tried = p.tried
        /\ s.budget = p.budget /\ s.results = p.results /\ s.workers[w].at = "ended"
    BY <2>0, <2>1
  <2>3. Beside(r, s, w)
    BY <2>2 DEF Beside
  <2>4. Whole(x, s) /\ \A v \in Workers : Told(s, v)
    BY <1>1, <2>2, <2>3, EndWhole
  <2> QED
    BY <2>4 DEF s
<1>2. CASE ~(p.next > Units[x])
  <2> DEFINE q == [p EXCEPT !.next = @ + 1, !.workers[w].unit = p.next]
             b == At(q, w, "backoff")
             t == [p.workers[w] EXCEPT !.unit = p.next]
  <2>1. s = StartAttempt(q, w, 1, 1)
    BY <1>2 DEF TakeUnit
  <2>2. /\ q.workers = [p.workers EXCEPT ![w] = t] /\ q.next = p.next + 1
        /\ q.budget = p.budget /\ q.tried = p.tried /\ q.results = p.results
    BY DEF Shaped
  <2>3. Shaped(q)
    <3> DEFINE n == [p EXCEPT !.next = @ + 1]
    <3>1. Shaped(n) /\ t \in Worker
      BY DEF Shaped, Worker
    <3>2. q = [n EXCEPT !.workers[w] = t]
      BY DEF Shaped
    <3> HIDE DEF n, q, t
    <3> QED
      BY <3>1, <3>2, WorkerSet
  <2>4. t.unit = p.next
    BY DEF Shaped, Worker
  <2> HIDE DEF q, s, t
  <2>5. q.workers[w].unit = p.next /\ Beside(p, q, w)
    BY <2>2, <2>4 DEF Shaped, Beside
  <2>6. /\ Shaped(b) /\ Beside(q, b, w) /\ b.next = q.next /\ b.tried = q.tried
        /\ b.budget = q.budget /\ b.results = q.results
        /\ b.workers[w].at = "backoff" /\ b.workers[w].unit = q.workers[w].unit
    BY <2>3, AtIs
  <2> HIDE DEF b
  <2>7. Beside(r, b, w) /\ r.next <= Units[x]
    <3>1. r.next \in Nat /\ Units[x] \in Nat
      BY ExecutorAssumption DEF Whole, Typed
    <3> QED
      BY <1>2, <2>5, <2>6, <3>1 DEF Beside
  <2>8. b.next = r.next + 1 /\ b.workers[w].unit = r.next
    BY <2>2, <2>5, <2>6
  <2>9. /\ Whole(x, b) /\ \A v \in Workers : v # w => Told(b, v)
        /\ b.tried[b.workers[w].unit] = <<>>
    BY <2>2, <2>6, <2>7, <2>8, NextUnitWhole
  <2>10. Starts(q, s, w, 1, 1)
    BY <2>1, <2>3, StartsIs
  <2>11. Starts(b, s, w, 1, 1)
    BY <2>6, <2>10 DEF Starts, Beside, Result
  <2>12. Whole(x, s) /\ \A v \in Workers : Told(s, v)
    BY <2>6, <2>9, <2>11, StartWhole
  <2> QED
    BY <2>12 DEF s
<1> QED
  BY <1>1, <1>2

(* A call returns, raises or times out.                                    *)
LEMMA ReturnWhole ==
  ASSUME NEW x \in Executions, NEW r, Whole(x, r), \A v \in Workers : Told(r, v),
         NEW w \in Workers, r.workers[w].at = "calling",
         NEW s \in {Succeeds(x, r, w), Fails(x, r, w)}
  PROVE  Whole(x, s) /\ \A v \in Workers : Told(s, v)
<1> DEFINE c == Counted(r, w)
           b == At(c, w, "backoff")
           me == r.workers[w]
<1>1. Shaped(r)
  BY DEF Whole, Typed
<1>2. /\ Shaped(c) /\ c.workers = r.workers /\ c.next = r.next
      /\ c.budget = r.budget /\ c.results = r.results
      /\ c.tried = [r.tried EXCEPT ![me.unit] = Append(@, AttemptReason(me.op, me.attempt))]
  BY <1>1, CountedIs
<1> HIDE DEF c
<1>0. Shaped(c)
  BY <1>2
<1>3. /\ Shaped(b) /\ Beside(c, b, w) /\ b.next = c.next /\ b.tried = c.tried
      /\ b.budget = c.budget /\ b.results = c.results
      /\ b.workers[w].at = "backoff" /\ b.workers[w].unit = c.workers[w].unit
      /\ b.workers[w].op = c.workers[w].op /\ b.workers[w].attempt = c.workers[w].attempt
  BY <1>0, AtIs
<1> HIDE DEF b
<1>4. Counts(r, b, w)
  BY <1>2, <1>3 DEF Beside, Counts
<1>5. /\ Whole(x, b) /\ \A v \in Workers : Told(b, v)
      /\ b.tried[b.workers[w].unit] # <<>>
  BY <1>4, CountWhole
<1>6. me.op \in Nat /\ me.attempt \in Nat
  BY <1>1 DEF Shaped, Worker
<1>7. CASE s = Succeeds(x, r, w)
  <2> DEFINE z == UnitEnds(c, w, FALSE)
             d == At(z, w, "created")
  <2>1. /\ Shaped(z) /\ z.workers = c.workers /\ z.next = c.next /\ z.tried = c.tried
        /\ z.budget = c.budget /\ z.results = c.results \cup {Result(c, w, FALSE)}
    BY <1>0, EndsIs
  <2>2. s = TakeUnit(x, z, w)
    BY <1>7 DEF Succeeds, c
  <2> HIDE DEF z
  <2>0. Shaped(z)
    BY <2>1
  <2>3. /\ Shaped(d) /\ Beside(z, d, w) /\ d.next = z.next /\ d.tried = z.tried
        /\ d.budget = z.budget /\ d.results = z.results
        /\ d.workers[w].at = "created"
    BY <2>0, AtIs
  <2> HIDE DEF d
  <2>4. /\ Beside(b, d, w) /\ d.next = b.next /\ d.tried = b.tried /\ d.budget = b.budget
        /\ d.results = b.results \cup {Result(b, w, FALSE)}
    BY <1>3, <2>1, <2>3 DEF Beside, Result
  <2>5. Whole(x, d) /\ \A v \in Workers : Told(d, v)
    BY <1>3, <1>5, <2>3, <2>4, SettleWhole
  <2>6. Beside(d, z, w)
    BY <2>3 DEF Beside
  <2> QED
    BY <2>1, <2>2, <2>3, <2>5, <2>6, TakeWhole
<1>8. CASE s = Fails(x, r, w)
  <2>1. CASE s = [c EXCEPT !.workers[w].at = "backoff"]
    BY <1>5, <2>1 DEF b, At
  <2>2. CASE s = StartAttempt(c, w, me.op + 1, 1)
    <3>1. Starts(c, s, w, me.op + 1, 1)
      BY <1>2, <1>6, <2>2, StartsIs
    <3>2. Starts(b, s, w, me.op + 1, 1)
      BY <1>3, <3>1 DEF Starts, Beside, Result
    <3>3. me.op >= 1
      BY DEF Told
    <3>4. me.op + 1 \in Nat \ {0} /\ 1 \in Nat \ {0} /\ me.op + 1 # 1
      BY <1>6, <3>3
    <3> HIDE DEF me
    <3> QED
      BY <1>3, <1>5, <3>2, <3>4, StartWhole
  <2>3. CASE s = UnitFails(c, w)
    <3>1. /\ Shaped(s) /\ Beside(c, s, w) /\ s.next = c.next /\ s.tried = c.tried
          /\ s.workers[w].at = "failed"
          /\ s.budget = c.budget /\ s.results = c.results \cup {Result(c, w, TRUE)}
      BY <1>2, <2>3, FailsIs
    <3>2. /\ Beside(b, s, w) /\ s.next = b.next /\ s.tried = b.tried /\ s.budget = b.budget
          /\ s.results = b.results \cup {Result(b, w, TRUE)}
      BY <1>3, <3>1 DEF Beside, Result
    <3> QED
      BY <1>3, <1>5, <3>1, <3>2, SettleWhole
  <2> QED
    BY <1>8, <2>1, <2>2, <2>3 DEF Fails, c
<1> QED
  BY <1>7, <1>8

(* The pause before a retry is over.                                       *)
LEMMA RetryWhole ==
  ASSUME NEW x \in Executions, NEW r, Whole(x, r), \A v \in Workers : Told(r, v),
         NEW w \in Workers, r.workers[w].at = "backoff"
  PROVE  LET s == StartAttempt(r, w, r.workers[w].op, r.workers[w].attempt + 1)
         IN  Whole(x, s) /\ \A v \in Workers : Told(s, v)
<1> DEFINE op == r.workers[w].op
           attempt == r.workers[w].attempt + 1
           s == StartAttempt(r, w, op, attempt)
<1>1. Shaped(r) /\ r.workers[w].op \in Nat /\ r.workers[w].attempt \in Nat
  BY DEF Whole, Typed, Shaped, Worker
<1>2. r.workers[w].op >= 1 /\ r.workers[w].attempt >= 1 /\ r.tried[r.workers[w].unit] # <<>>
  BY DEF Told
<1>3. op \in Nat \ {0} /\ attempt \in Nat \ {0} /\ attempt # 1
  <2> DEFINE n == r.workers[w].op
             m == r.workers[w].attempt
  <2>1. n \in Nat /\ m \in Nat /\ n >= 1 /\ m >= 1
    BY <1>1, <1>2
  <2> HIDE DEF n, m
  <2>2. n \in Nat \ {0} /\ m + 1 \in Nat \ {0} /\ m + 1 # 1
    BY <2>1
  <2> QED
    BY <2>2 DEF n, m
<1> HIDE DEF op, attempt
<1>4. Starts(r, s, w, op, attempt)
  BY <1>1, <1>3, StartsIs
<1> HIDE DEF s
<1>5. Whole(x, s) /\ \A v \in Workers : Told(s, v)
  BY <1>2, <1>3, <1>4, StartWhole
<1> QED
  BY <1>5 DEF s, op, attempt

(* The units as they are prepared.                                         *)
LEMMA PreparedWhole ==
  ASSUME NEW x \in Executions,
         NEW r, r = [next |-> 1, budget |-> AttemptLimit[x],
                     workers |-> [w \in Workers |->
                       IF w <= Units[x] THEN [Idle EXCEPT !.at = "created"] ELSE Idle],
                     tried |-> [u \in 1 .. Units[x] |-> <<>>], results |-> {}]
  PROVE  Whole(x, r) /\ \A w \in Workers : Told(r, w)
<1>1. Units[x] \in Nat /\ AttemptLimit[x] \in Nat /\ Workers \subseteq Nat
  BY ExecutorAssumption DEF Workers
<1>2. /\ r.next = 1 /\ r.budget = AttemptLimit[x] /\ r.results = {}
      /\ \A u \in 1 .. Units[x] : r.tried[u] = <<>>
      /\ r.tried \in [1 .. Units[x] -> Seq(Reasons)]
  OBVIOUS
<1>3. \A w \in Workers :
        /\ r.workers[w] \in Worker
        /\ r.workers[w].at \in {"created", "ended"}
        /\ r.workers[w].at = "ended" => ~(w <= Units[x])
  BY DEF Idle, Worker
<1>4. Shaped(r)
  <2>1. r.workers \in [Workers -> Worker]
    BY <1>3
  <2> QED
    BY <2>1 DEF Shaped
<1>5. Typed(x, r) /\ Ordered(x, r)
  <2>1. r.next \in 1 .. Units[x] + 1
    BY <1>1, <1>2
  <2>2. \A u \in 1 .. Units[x] : DOMAIN r.tried[u] = {}
    BY <1>2
  <2> QED
    BY <1>1, <1>2, <1>4, <2>1, <2>2 DEF Typed, Ordered
<1>6. Balanced(x, r)
  <2>1. \A u \in 1 .. Units[x] : ~Under(r, u) /\ Len(r.tried[u]) = 0
    BY <1>2, <1>3 DEF Under
  <2>2. \A u \in 1 .. Units[x] : MadeBy(x, r)[u] = 0
    <3>1. ASSUME NEW u \in 1 .. Units[x] PROVE Made(r, u) = 0
      <4>1. ~Under(r, u) /\ Len(r.tried[u]) = 0
        BY <2>1
      <4>2. Made(r, u) = Len(r.tried[u]) + 0
        BY <4>1 DEF Made
      <4> QED
        BY <4>1, <4>2
    <3> QED
      BY <3>1 DEF MadeBy
  <2>3. IsFiniteSet(1 .. Units[x])
    <3>1. 1 \in Int /\ Units[x] \in Int
      BY <1>1
    <3> QED
      BY <3>1, FS_Interval
  <2>4. SumOver(MadeBy(x, r), 1 .. Units[x]) = 0
    BY <2>2, <2>3, SumOfZeros
  <2> QED
    BY <1>1, <1>2, <2>4 DEF Balanced
<1>7. \A w \in Workers : r.workers[w].at \notin Busy /\ r.workers[w].at # "failed"
  BY <1>3 DEF Busy
<1>8. Apart(x, r)
  BY <1>7 DEF Apart, UnitsApart
<1>9. Recorded(x, r)
  BY <1>2 DEF Recorded
<1>10. Covering(x, r)
  BY <1>2, <1>3 DEF Covering
<1>11. \A w \in Workers : Told(r, w)
  BY <1>7 DEF Told, Busy
<1> QED
  BY <1>5, <1>6, <1>8, <1>9, <1>10, <1>11 DEF Whole

(* The attempts of a unit, by their reasons.                               *)
Tally(t, reasons) == Cardinality({k \in DOMAIN t : t[k] \in reasons})
Tallies(results, reasons) == [q \in results |-> Tally(q.attempts, reasons)]

LEMMA TallyIs ==
  ASSUME NEW t \in Seq(Reasons), t # <<>>,
         \A k \in DOMAIN t : t[k] = "normal" <=> k = 1
  PROVE  /\ Tally(t, Reasons) = Len(t)
         /\ Tally(t, {"retry"}) \in Nat /\ Tally(t, {"fallback"}) \in Nat
         /\ Tally(t, Reasons) = 1 + Tally(t, {"retry"}) + Tally(t, {"fallback"})
<1> DEFINE D == 1 .. Len(t)
           A == {k \in DOMAIN t : t[k] \in {"retry"}}
           B == {k \in DOMAIN t : t[k] \in {"fallback"}}
           C == {k \in DOMAIN t : t[k] \in Reasons}
<1>1. DOMAIN t = D /\ Len(t) \in Nat /\ 1 \in D /\ \A k \in D : t[k] \in Reasons
  OBVIOUS
<1>2. IsFiniteSet(D) /\ Cardinality(D) = Len(t)
  <2>1. 1 \in Int /\ Len(t) \in Int /\ Len(t) >= 1
    BY <1>1
  <2>2. IsFiniteSet(D) /\ Cardinality(D) = Len(t) - 1 + 1
    BY <2>1, FS_Interval
  <2> QED
    BY <1>1, <2>2
<1>3. C = D
  BY <1>1
<1>4. A \in SUBSET D /\ B \in SUBSET D /\ A \cap B = {} /\ D \ {1} = A \cup B
  <2>1. \A k \in D : t[k] = "normal" \/ t[k] = "retry" \/ t[k] = "fallback"
    BY <1>1 DEF Reasons
  <2>2. \A k \in D : t[k] = "normal" <=> k = 1
    BY <1>1
  <2> QED
    BY <1>1, <2>1, <2>2
<1>5. A \cap B = {} /\ Tally(t, Reasons) = Cardinality(C)
      /\ Tally(t, {"retry"}) = Cardinality(A) /\ Tally(t, {"fallback"}) = Cardinality(B)
  BY <1>4 DEF Tally
<1> HIDE DEF A, B, C, D
<1>6. /\ IsFiniteSet(A) /\ IsFiniteSet(B)
      /\ Cardinality(A) \in Nat /\ Cardinality(B) \in Nat
  BY <1>2, <1>4, FS_Subset, FS_CardinalityType
<1>7. Cardinality(A \cup B) = Cardinality(A) + Cardinality(B) - 0
  <2>1. Cardinality(A \cap B) = 0
    BY <1>5, FS_EmptySet
  <2> QED
    BY <1>6, <2>1, FS_Union
<1>8. Cardinality(D \ {1}) = Cardinality(D) - 1
  BY <1>1, <1>2, FS_RemoveElement
<1> DEFINE a == Cardinality(A)
           b == Cardinality(B)
           n == Len(t)
<1>9. a \in Nat /\ b \in Nat /\ n \in Nat /\ n - 1 = a + b - 0
  BY <1>1, <1>2, <1>4, <1>6, <1>7, <1>8
<1> HIDE DEF a, b, n
<1>10. n = 1 + a + b
  BY <1>9
<1> QED
  BY <1>2, <1>3, <1>5, <1>9, <1>10 DEF a, b, n

(* What the ledger says when all workers have ended.                       *)
LEMMA EndedWhole ==
  ASSUME NEW x \in Executions, NEW r, Whole(x, r), AllEnded(r)
  PROVE  /\ Settled(r) = 1 .. Units[x] /\ IsFiniteSet(r.results)
         /\ Cardinality(r.results) = Units[x]
         /\ \A q \in r.results : q.error = FALSE
         /\ SumOver(Tallies(r.results, Reasons), r.results) = AttemptLimit[x] - r.budget
         /\ SumOver(Tallies(r.results, Reasons), r.results)
              = Units[x] + SumOver(Tallies(r.results, {"retry"}), r.results)
                  + SumOver(Tallies(r.results, {"fallback"}), r.results)
<1>1. /\ Units[x] \in Nat /\ r.next \in 1 .. Units[x] + 1 /\ r.budget \in Nat
      /\ r.tried \in [1 .. Units[x] -> Seq(Reasons)]
  BY ExecutorAssumption DEF Whole, Typed
<1>2. r.next - 1 = Units[x]
  <2>1. CASE Units[x] = 0
    BY <1>1, <2>1
  <2>2. CASE Units[x] # 0
    <3>1. 1 \in Workers
      BY ExecutorAssumption DEF Workers
    <3>2. r.workers[1].at = "ended" /\ 1 <= Units[x]
      BY <1>1, <2>2, <3>1 DEF AllEnded
    <3>3. r.next > Units[x]
      BY <3>1, <3>2 DEF Whole, Covering
    <3> QED
      BY <1>1, <3>3
  <2> QED
    BY <2>1, <2>2
<1>3. /\ \A q \in r.results :
           /\ q.unit \in 1 .. Units[x] /\ q.error \in BOOLEAN /\ q.attempts = r.tried[q.unit]
           /\ ~q.error => q.attempts # <<>>
           /\ q.error => \E w \in Workers : r.workers[w].at = "failed"
      /\ \A p, q \in r.results : p.unit = q.unit => p = q
  BY <1>2 DEF Whole, Recorded
<1>4. \A q \in r.results : q.error = FALSE /\ q.attempts # <<>>
  BY <1>3 DEF AllEnded
<1>5. Settled(r) = 1 .. Units[x]
  <2>1. \A u \in 1 .. r.next - 1 : u \in Settled(r)
    BY DEF Whole, Covering, AllEnded, Busy
  <2>2. Settled(r) \subseteq 1 .. Units[x]
    BY <1>3 DEF Settled
  <2> QED
    BY <1>2, <2>1, <2>2
<1> DEFINE R == r.results
           name == [q \in R |-> q.unit]
           U == 1 .. Units[x]
<1>6. IsFiniteSet(U) /\ Cardinality(U) = Units[x]
  <2>1. 1 \in Int /\ Units[x] \in Int
    BY <1>1
  <2>2. IsFiniteSet(U) /\ Cardinality(U) = IF 1 > Units[x] THEN 0 ELSE Units[x] - 1 + 1
    BY <2>1, FS_Interval
  <2> QED
    BY <1>1, <2>2
<1>7. name \in Injection(R, U) /\ name \in Surjection(R, U)
  <2>1. name \in [R -> U] /\ \A p, q \in R : name[p] = name[q] => p = q
    BY <1>3
  <2>2. \A u \in U : \E q \in R : name[q] = u
    BY <1>5 DEF Settled
  <2> HIDE DEF name, R, U
  <2> QED
    BY <2>1, <2>2 DEF Injection, Surjection, IsInjective
<1>8. IsFiniteSet(R) /\ Cardinality(R) = Units[x]
  <2> HIDE DEF name, R, U
  <2> QED
    BY <1>6, <1>7, FS_Injection
<1> DEFINE all == Tallies(R, Reasons)
           retries == Tallies(R, {"retry"})
           fallbacks == Tallies(R, {"fallback"})
<1>9. ASSUME NEW q \in R
      PROVE  /\ all[q] = Len(r.tried[q.unit]) /\ all[q] \in Int
             /\ retries[q] \in Int /\ fallbacks[q] \in Int
             /\ all[q] = 1 + retries[q] + fallbacks[q]
  <2> DEFINE t == r.tried[q.unit]
  <2>1. t \in Seq(Reasons) /\ t # <<>> /\ q.attempts = t /\ q.unit \in 1 .. Units[x]
    BY <1>1, <1>3, <1>4
  <2>2. \A k \in DOMAIN t : t[k] = "normal" <=> k = 1
    BY <2>1 DEF Whole, Ordered
  <2>3. /\ all[q] = Tally(t, Reasons) /\ retries[q] = Tally(t, {"retry"})
        /\ fallbacks[q] = Tally(t, {"fallback"})
    BY <2>1 DEF Tallies
  <2> HIDE DEF t
  <2>4. /\ Tally(t, Reasons) = Len(t) /\ Len(t) \in Nat
        /\ Tally(t, {"retry"}) \in Nat /\ Tally(t, {"fallback"}) \in Nat
        /\ Tally(t, Reasons) = 1 + Tally(t, {"retry"}) + Tally(t, {"fallback"})
    BY <2>1, <2>2, TallyIs
  <2> HIDE DEF all, retries, fallbacks
  <2> QED
    BY <2>3, <2>4 DEF t
<1>10. SumOver(all, R) = Cardinality(R) + SumOver(retries, R) + SumOver(fallbacks, R)
  <2> HIDE DEF all, retries, fallbacks, R
  <2> QED
    BY <1>8, <1>9, SumOfParts
<1>11. SumOver(MadeBy(x, r), U) = SumOver(all, R)
  <2> DEFINE v == MadeBy(x, r)
  <2>1. \A u \in U : ~Under(r, u)
    BY DEF Under, AllEnded
  <2>2. ASSUME NEW u \in U PROVE v[u] = Len(r.tried[u])
    <3>1. Made(r, u) = Len(r.tried[u]) + 0
      BY <2>1 DEF Made
    <3>2. Len(r.tried[u]) \in Nat
      BY <1>1
    <3> QED
      BY <3>1, <3>2 DEF MadeBy
  <2>3. \A q \in R : all[q] \in Int /\ v[name[q]] = all[q]
    <3> HIDE DEF v, all
    <3> QED
      BY <1>3, <1>9, <2>2
  <2>4. \A p, q \in R : name[p] = name[q] => p = q
    BY <1>3
  <2>5. {name[q] : q \in R} = U
    BY <1>5 DEF Settled
  <2> HIDE DEF v, all, name, R, U
  <2>6. SumOver(v, {name[q] : q \in R}) = SumOver(all, R)
    BY <1>8, <2>3, <2>4, SumRenamed
  <2> QED
    BY <2>5, <2>6 DEF v
<1>12. SumOver(all, R) \in Int
  <2> HIDE DEF all, R
  <2> QED
    BY <1>8, <1>9, SumInInt
<1>13. r.budget + SumOver(all, R) = AttemptLimit[x]
  BY <1>11 DEF Whole, Balanced
<1> DEFINE total == SumOver(all, R)
<1>14. total = AttemptLimit[x] - r.budget
  <2>1. total \in Int /\ r.budget \in Int /\ r.budget + total = AttemptLimit[x]
    BY <1>1, <1>12, <1>13
  <2> HIDE DEF total
  <2> QED
    BY <2>1
<1> QED
  BY <1>4, <1>5, <1>8, <1>10, <1>14

(* Nothing but the ledger of x changes, and its phase and answer.          *)
LEMMA LedgerMoves ==
  ASSUME LInv, QInv', NEW x \in Executions, NEW r, NEW p, NEW a,
         phase' = [phase EXCEPT ![x] = p], units' = [units EXCEPT ![x] = r],
         answer' = [answer EXCEPT ![x] = a],
         a \in {"none", "waiting", "failed", "completed", "cancelled"},
         p \in {"units", "aggregating"} => Whole(x, r) /\ \A w \in Workers : Told(r, w),
         p = "aggregating" => AllEnded(r),
         a = "completed" => p = "answered" /\ Whole(x, r) /\ AllEnded(r)
  PROVE  LInv'
<1>1. \A y \in Executions :
        /\ phase'[y] = IF y = x THEN p ELSE phase[y]
        /\ units'[y] = IF y = x THEN r ELSE units[y]
        /\ answer'[y] = IF y = x THEN a ELSE answer[y]
  BY DEF LInv, QInv
<1>2. answer' \in [Executions -> {"none", "waiting", "failed", "completed", "cancelled"}]
  BY DEF LInv
<1>3. ASSUME NEW y \in Executions
      PROVE  /\ phase'[y] \in {"units", "aggregating"} =>
                  Whole(y, units'[y]) /\ \A w \in Workers : Told(units'[y], w)
             /\ phase'[y] = "aggregating" => AllEnded(units'[y])
             /\ answer'[y] = "completed" =>
                  phase'[y] = "answered" /\ Whole(y, units'[y]) /\ AllEnded(units'[y])
  <2>1. CASE y = x
    <3>1. phase'[y] = p /\ units'[y] = r /\ answer'[y] = a
      BY <1>1, <2>1
    <3> QED
      BY <2>1, <3>1
  <2>2. CASE y # x
    <3>1. phase'[y] = phase[y] /\ units'[y] = units[y] /\ answer'[y] = answer[y]
      BY <1>1, <2>2
    <3> QED
      BY <3>1 DEF LInv
  <2> QED
    BY <2>1, <2>2
<1> QED
  BY <1>2, <1>3 DEF LInv

LEMMA LedgerInit == Init => LInv
<1> SUFFICES ASSUME Init PROVE LInv
  OBVIOUS
<1>1. QInv
  BY QuietInit
<1> QED
  BY <1>1 DEF Init, LInv

LEMMA LedgerNext == LInv /\ [Next]_vars => LInv'
<1> SUFFICES ASSUME LInv, [Next]_vars PROVE LInv'
  OBVIOUS
<1>0. QInv /\ QInv'
  BY QuietNext DEF LInv
<1>1. \A x \in Executions :
           /\ phase = [phase EXCEPT ![x] = phase[x]] /\ units = [units EXCEPT ![x] = units[x]]
           /\ answer = [answer EXCEPT ![x] = answer[x]]
           /\ answer[x] \in {"none", "waiting", "failed", "completed", "cancelled"}
           /\ answer[x] = "completed" => phase[x] = "answered"
  BY DEF LInv, QInv
<1>2. ASSUME NEW x \in Executions,
             ExecuteCommand(x) \/ AnswerAtOnce(x) \/ PrepareFails(x)
      PROVE  LInv'
  <2>1. PICK a \in {"waiting", "failed"} : Finish(x, a) /\ UNCHANGED units
    BY <1>2 DEF ExecuteCommand, AnswerAtOnce, PrepareFails
  <2> QED
    BY <1>0, <1>1, <2>1, LedgerMoves DEF Finish
<1>3. ASSUME NEW x \in Executions, Submit(x) \/ AcquireSlot(x) PROVE LInv'
  <2>1. PICK p \in {"slot", "preparing"} :
          phase' = [phase EXCEPT ![x] = p] /\ UNCHANGED <<units, answer>>
    BY <1>3 DEF Submit, AcquireSlot
  <2>2. answer[x] # "completed"
    BY <1>1, <1>3 DEF Submit, AcquireSlot
  <2>3. /\ units' = [units EXCEPT ![x] = units[x]]
        /\ answer' = [answer EXCEPT ![x] = answer[x]]
        /\ answer[x] \in {"none", "waiting", "failed", "completed", "cancelled"}
    BY <1>1, <2>1
  <2>4. p \notin {"units", "aggregating"}
    BY <2>1
  <2> QED
    BY <1>0, <2>1, <2>2, <2>3, <2>4, LedgerMoves
<1>4. ASSUME NEW x \in Executions, Prepare(x) PROVE LInv'
  <2> DEFINE r == [next |-> 1, budget |-> AttemptLimit[x],
                   workers |-> [w \in Workers |->
                     IF w <= Units[x] THEN [Idle EXCEPT !.at = "created"] ELSE Idle],
                   tried |-> [u \in 1 .. Units[x] |-> <<>>], results |-> {}]
  <2>1. /\ units' = [units EXCEPT ![x] = r] /\ phase' = [phase EXCEPT ![x] = "units"]
        /\ answer' = answer /\ answer[x] # "completed"
    BY <1>1, <1>4 DEF Prepare
  <2>2. Whole(x, r) /\ \A w \in Workers : Told(r, w)
    BY PreparedWhole
  <2> HIDE DEF r
  <2> QED
    BY <1>0, <1>1, <2>1, <2>2, LedgerMoves
<1>5. ASSUME NEW x \in Executions, NEW w \in Workers,
             \/ WorkerStarts(x, w) \/ TimesOut(x, w) \/ BackoffEnds(x, w)
             \/ HandlerReturns(x, w) \/ ThreadReturns(x, w)
      PROVE  LInv'
  <2> DEFINE r == units[x]
             me == r.workers[w]
  <2>1. phase' = phase /\ answer' = answer /\ units[x].workers[w].at \in Live
    BY <1>5 DEF WorkerStarts, TimesOut, BackoffEnds, HandlerReturns, ThreadReturns,
                Calling, Live
  <2>2. phase[x] = "units"
    BY <1>0, <2>1 DEF QInv
  <2>3. Whole(x, r) /\ (\A v \in Workers : Told(r, v)) /\ answer[x] # "completed"
    BY <1>1, <2>2 DEF LInv
  <2>4. Beside(r, r, w) /\ Shaped(r)
    BY <2>3 DEF Beside, Whole, Typed
  <2> HIDE DEF r
  <2>5. \E s : units' = [units EXCEPT ![x] = s] /\ Whole(x, s) /\ \A v \in Workers : Told(s, v)
    <3>1. CASE WorkerStarts(x, w)
      <4>1. me.at = "created" /\ units' = [units EXCEPT ![x] = TakeUnit(x, r, w)]
        BY <3>1 DEF WorkerStarts, Move, r
      <4>2. /\ Whole(x, TakeUnit(x, r, w))
            /\ \A v \in Workers : Told(TakeUnit(x, r, w), v)
        BY <2>3, <2>4, <4>1, TakeWhole
      <4> QED
        BY <4>1, <4>2
    <3>2. CASE BackoffEnds(x, w)
      <4> DEFINE s == StartAttempt(r, w, r.workers[w].op, r.workers[w].attempt + 1)
      <4>1. me.at = "backoff" /\ units' = [units EXCEPT ![x] = s]
        BY <3>2 DEF BackoffEnds, Move, r
      <4>2. Whole(x, s) /\ \A v \in Workers : Told(s, v)
        BY <2>3, <4>1, RetryWhole
      <4> HIDE DEF s
      <4> QED
        BY <4>1, <4>2
    <3>3. CASE TimesOut(x, w) \/ HandlerReturns(x, w) \/ ThreadReturns(x, w)
      <4>1. PICK s \in {Succeeds(x, r, w), Fails(x, r, w)} : units' = [units EXCEPT ![x] = s]
        BY <3>3 DEF TimesOut, HandlerReturns, ThreadReturns, Move, r
      <4>2. me.at = "calling"
        BY <3>3 DEF TimesOut, HandlerReturns, ThreadReturns, Calling, r
      <4>3. Whole(x, s) /\ \A v \in Workers : Told(s, v)
        BY <2>3, <4>2, ReturnWhole
      <4> QED
        BY <4>1, <4>3
    <3> QED
      BY <1>5, <3>1, <3>2, <3>3
  <2>6. PICK s : /\ units' = [units EXCEPT ![x] = s] /\ Whole(x, s)
                 /\ \A v \in Workers : Told(s, v)
    BY <2>5
  <2>7. /\ phase' = [phase EXCEPT ![x] = "units"]
        /\ answer' = [answer EXCEPT ![x] = answer[x]]
        /\ answer[x] \in {"none", "waiting", "failed", "completed", "cancelled"}
    BY <1>1, <2>1, <2>2
  <2> QED
    BY <1>0, <2>3, <2>6, <2>7, LedgerMoves
<1>6. ASSUME NEW x \in Executions, UnitsFail(x) \/ Abandon(x) PROVE LInv'
  <2>1. PICK a \in {"failed", "cancelled"} :
          Finish(x, a) /\ units' = [units EXCEPT ![x] = CancelWorkers(units[x])]
    BY <1>6 DEF UnitsFail, Abandon, Move
  <2> QED
    BY <1>0, <1>1, <2>1, LedgerMoves DEF Finish
<1>7. ASSUME NEW x \in Executions, UnitsEnd(x) PROVE LInv'
  <2>1. /\ units' = units /\ answer' = answer
        /\ phase[x] = "units" /\ phase' = [phase EXCEPT ![x] = "aggregating"]
        /\ AllEnded(units[x])
    BY <1>7 DEF UnitsEnd, AllEnded
  <2>2. Whole(x, units[x]) /\ \A w \in Workers : Told(units[x], w)
    BY <2>1 DEF LInv
  <2>3. /\ units' = [units EXCEPT ![x] = units[x]]
        /\ answer' = [answer EXCEPT ![x] = answer[x]]
        /\ answer[x] \in {"none", "waiting", "failed", "completed", "cancelled"}
        /\ answer[x] # "completed"
    BY <1>1, <2>1
  <2> QED
    BY <1>0, <2>1, <2>2, <2>3, LedgerMoves
<1>8. ASSUME NEW x \in Executions, Aggregate(x) PROVE LInv'
  <2>1. PICK a \in {"completed", "failed"} : Finish(x, a)
    BY <1>8 DEF Aggregate
  <2>2. units' = units /\ Whole(x, units[x]) /\ AllEnded(units[x])
    BY <1>8 DEF Aggregate, LInv
  <2> QED
    BY <1>0, <1>1, <2>1, <2>2, LedgerMoves DEF Finish
<1>9. ASSUME ThreadStarts \/ (\E c \in running : OrphanReturns(c)) \/ UNCHANGED vars
      PROVE  LInv'
  <2>1. UNCHANGED <<phase, units, answer>>
    BY <1>9 DEF ThreadStarts, OrphanReturns, vars
  <2> QED
    BY <1>0, <2>1 DEF LInv
<1> QED
  BY <1>2, <1>3, <1>4, <1>5, <1>6, <1>7, <1>8, <1>9 DEF Next, Works, Returns

(* A completed answer aggregates one output of every unit; all attempts     *)
(* that were paid from the budget are on record, and the summary adds up:   *)
(* for any number of units, workers and candidates, any limits, and any     *)
(* order in which the workers retry and fall back (_execute_unit,           *)
(* _parallel_execution).                                                   *)
THEOREM AnswersAreWhole == Spec => []CompletedWhole
<1>1. LInv => CompletedWhole
  <2> SUFFICES ASSUME LInv, NEW x \in Executions, answer[x] = "completed"
               PROVE  LET kept == Summary(x) IN
                      /\ {r.unit : r \in units[x].results} = 1 .. Units[x]
                      /\ kept.successes = kept.calls /\ kept.failures = 0
                      /\ kept.cancelled = 0
                      /\ kept.attempts = AttemptLimit[x] - units[x].budget
                      /\ kept.attempts = kept.calls + kept.retries + kept.fallbacks
    BY DEF CompletedWhole
  <2> DEFINE kept == Summary(x)
             R == units[x].results
  <2>1. Whole(x, units[x]) /\ AllEnded(units[x]) /\ Units[x] \in Nat
    BY ExecutorAssumption DEF LInv
  <2>2. /\ Settled(units[x]) = 1 .. Units[x] /\ Cardinality(R) = Units[x]
        /\ \A q \in R : q.error = FALSE
        /\ SumOver(Tallies(R, Reasons), R) = AttemptLimit[x] - units[x].budget
        /\ SumOver(Tallies(R, Reasons), R)
             = Units[x] + SumOver(Tallies(R, {"retry"}), R)
                 + SumOver(Tallies(R, {"fallback"}), R)
    BY <2>1, EndedWhole
  <2>3. \A reasons : Attempts(x, reasons) = SumOver(Tallies(R, reasons), R)
    BY DEF Attempts, SumOver, Tallies, Tally
  <2>4. Ended(x, FALSE) = Units[x] /\ Ended(x, TRUE) = 0
    <3>1. {r \in R : r.error = FALSE} = R /\ {r \in R : r.error = TRUE} = {}
      BY <2>2
    <3> QED
      BY <2>2, <3>1, FS_EmptySet DEF Ended
  <2>5. Max({0, Units[x] - Ended(x, FALSE) - Ended(x, TRUE)}) = 0
    <3>1. \A n \in Nat : n - n - 0 = 0
      OBVIOUS
    <3>2. Units[x] - Ended(x, FALSE) - Ended(x, TRUE) = 0
      BY ONLY <2>1, <2>4, <3>1
    <3>3. Max({0, 0}) = 0
      BY DEF Max
    <3> QED
      BY <3>2, <3>3
  <2>6. {"normal", "fallback", "retry"} = Reasons
    BY DEF Reasons
  <2>7. /\ kept.calls = Units[x] /\ kept.successes = Ended(x, FALSE)
        /\ kept.failures = Ended(x, TRUE) /\ kept.cancelled = 0
        /\ kept.attempts = Attempts(x, Reasons)
        /\ kept.retries = Attempts(x, {"retry"})
        /\ kept.fallbacks = Attempts(x, {"fallback"})
    BY <2>5, <2>6 DEF Summary
  <2>8. {q.unit : q \in units[x].results} = 1 .. Units[x]
    BY <2>2 DEF Settled
  <2>9. /\ kept.attempts = AttemptLimit[x] - units[x].budget
        /\ kept.attempts = kept.calls + kept.retries + kept.fallbacks
    BY <2>2, <2>3, <2>7
  <2> HIDE DEF kept
  <2>10. kept.successes = kept.calls /\ kept.failures = 0 /\ kept.cancelled = 0
    BY <2>4, <2>7
  <2> QED
    BY <2>8, <2>9, <2>10 DEF kept
<1> QED
  BY <1>1, LedgerInit, LedgerNext, PTL DEF Spec
=============================================================================
