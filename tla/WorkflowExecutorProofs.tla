------------------------ MODULE WorkflowExecutorProofs ------------------------
(***************************************************************************)
(* What the driver of an Invocation guarantees for every workflow, with    *)
(* whatever the methods of the Scheduler return: these are constants here. *)
(* Where a theorem needs that the Scheduler hands out each instance once,  *)
(* it says so ([]ScheduledOnce).                                           *)
(***************************************************************************)
EXTENDS WorkflowExecutor, CollectionProofs

-----------------------------------------------------------------------------
(* Invocations and accumulators, field by field.                           *)
Record(now) ==
  now \in [cursor : {now.cursor}, executions : {now.executions}, replays : {now.replays},
           transitions : {now.transitions}, waits : {now.waits}, state : {now.state},
           deferred : {now.deferred}, mode : {now.mode}, contexts : {now.contexts},
           bases : {now.bases}, commits : {now.commits}]

Accumulates(acc) ==
  /\ acc \in [inv : {acc.inv}, saved : {acc.saved}, jobs : {acc.jobs},
              returned : {acc.returned}]
  /\ Record(acc.inv)

(* A sequence, of whatever.                                                *)
Sequence(s) == s \in Seq(Range(s))

LEMMA SequenceIs ==
  ASSUME NEW s, Sequence(s)
  PROVE  /\ Len(s) \in Nat /\ DOMAIN s = 1 .. Len(s) /\ s = [k \in 1 .. Len(s) |-> s[k]]
         /\ Range(s) = {s[k] : k \in 1 .. Len(s)}
<1>1. /\ Len(s) \in Nat /\ DOMAIN s = 1 .. Len(s) /\ s \in [1 .. Len(s) -> Range(s)]
  BY DEF Sequence
<1> QED
  BY <1>1 DEF Range

LEMMA SequenceOfAny ==
  ASSUME NEW T, NEW s \in Seq(T)
  PROVE  Sequence(s) /\ Range(s) \subseteq T
<1>1. Len(s) \in Nat /\ s \in [1 .. Len(s) -> T] /\ DOMAIN s = 1 .. Len(s)
  OBVIOUS
<1>2. s \in [1 .. Len(s) -> Range(s)] /\ Range(s) \subseteq T
  BY <1>1 DEF Range
<1> QED
  BY <1>1, <1>2 DEF Sequence

LEMMA SequenceMade ==
  ASSUME NEW n \in Nat, NEW s, DOMAIN s = 1 .. n, s = [k \in 1 .. n |-> s[k]]
  PROVE  Sequence(s) /\ Len(s) = n
<1>1. s \in [1 .. n -> Range(s)]
  BY DEF Range
<1>2. s \in Seq(Range(s))
  BY <1>1
<1> QED
  BY <1>2 DEF Sequence

LEMMA SequenceAppend ==
  ASSUME NEW s, Sequence(s), NEW x
  PROVE  /\ Sequence(Append(s, x)) /\ Len(Append(s, x)) = Len(s) + 1
         /\ \A k \in 1 .. Len(s) : Append(s, x)[k] = s[k]
         /\ Append(s, x)[Len(s) + 1] = x
         /\ Range(Append(s, x)) = Range(s) \cup {x}
<1> DEFINE T == Range(s) \cup {x}
           r == Append(s, x)
<1>1. s \in Seq(T)
  <2>1. Len(s) \in Nat /\ s \in [1 .. Len(s) -> Range(s)] /\ DOMAIN s = 1 .. Len(s)
    BY DEF Sequence
  <2>2. s \in [1 .. Len(s) -> T]
    BY <2>1
  <2> QED
    BY <2>1, <2>2
<1>2. r \in Seq(T) /\ Len(r) = Len(s) + 1 /\ r[Len(s) + 1] = x
  BY <1>1
<1>3. \A k \in 1 .. Len(s) : r[k] = s[k]
  BY <1>1
<1>4. Sequence(r)
  BY <1>2, SequenceOfAny
<1> HIDE DEF r
<1>5. Range(r) = Range(s) \cup {x}
  <2>1. Range(r) = {r[k] : k \in 1 .. Len(s) + 1} /\ Range(s) = {s[k] : k \in 1 .. Len(s)}
    BY <1>2, <1>4, SequenceIs
  <2>2. Len(s) \in Nat
    BY <1>1
  <2>3. \A k \in 1 .. Len(s) + 1 : k \in 1 .. Len(s) \/ k = Len(s) + 1
    BY <2>2
  <2> QED
    BY <1>2, <1>3, <2>1, <2>2, <2>3
<1> QED
  BY <1>2, <1>3, <1>4, <1>5 DEF r

LEMMA SequenceConcat ==
  ASSUME NEW s, Sequence(s), NEW t, Sequence(t)
  PROVE  /\ Sequence(s \o t) /\ Range(s \o t) = Range(s) \cup Range(t)
         /\ Len(s \o t) = Len(s) + Len(t)
<1> DEFINE T == Range(s) \cup Range(t)
           r == s \o t
<1>1. s \in Seq(T) /\ t \in Seq(T)
  <2>1. /\ Len(s) \in Nat /\ s \in [1 .. Len(s) -> Range(s)]
        /\ Len(t) \in Nat /\ t \in [1 .. Len(t) -> Range(t)]
    BY DEF Sequence
  <2>2. s \in [1 .. Len(s) -> T] /\ t \in [1 .. Len(t) -> T]
    BY <2>1
  <2> QED
    BY <2>1, <2>2
<1>2. /\ r \in Seq(T) /\ Len(r) = Len(s) + Len(t)
      /\ \A k \in 1 .. Len(s) : r[k] = s[k]
      /\ \A k \in 1 .. Len(t) : r[Len(s) + k] = t[k]
  BY <1>1
<1>3. Sequence(r) /\ Range(r) \subseteq T
  BY <1>2, SequenceOfAny
<1> HIDE DEF r
<1>4. T \subseteq Range(r)
  <2>1. /\ Range(r) = {r[k] : k \in 1 .. Len(r)} /\ Range(s) = {s[k] : k \in 1 .. Len(s)}
        /\ Range(t) = {t[k] : k \in 1 .. Len(t)} /\ Len(s) \in Nat /\ Len(t) \in Nat
    BY <1>3, SequenceIs
  <2>2. /\ \A k \in 1 .. Len(s) : k \in 1 .. Len(r)
        /\ \A k \in 1 .. Len(t) : Len(s) + k \in 1 .. Len(r)
    BY <1>2, <2>1
  <2> QED
    BY <1>2, <2>1, <2>2
<1> QED
  BY <1>2, <1>3, <1>4 DEF r

(* The workflow of an Invocation is one of Workflows.                      *)
WorkflowKnown ==
  \E w \in Workflows : \E entry \in EntryNodes(w.graph) : workflow = Invoked(w, entry)

LEMMA PolicyIs ==
  ASSUME WorkflowKnown
  PROVE  /\ policy.failure \in {"fail_fast", "continue_active_branches"}
         /\ policy.events \in {"standard", "full"} /\ policy.crashes \in Nat
         /\ policy.mapping \subseteq {"mapped", "unmapped", "overspent"}
         /\ policy.binding \subseteq {"bound", "unbound", "overran"}
         /\ policy.outcomes \subseteq {"completed", "failed", "waiting"}
         /\ policy.asyncHooks => ~policy.cancellable
         /\ \A n \in NodeSet(workflow) : policy.recovery[n] \in Nat
<1>1. PICK w \in Workflows : \E entry \in EntryNodes(w.graph) : workflow = Invoked(w, entry)
  BY DEF WorkflowKnown
<1>2. PICK entry \in EntryNodes(w.graph) : workflow = Invoked(w, entry)
  BY <1>1
<1>3. policy = w.policy /\ workflow.nodes = w.graph.nodes
  BY <1>2 DEF policy, Invoked, Compiled
<1>4. NodeSet(workflow) = NodeSet(w.graph)
  BY <1>3 DEF NodeSet
<1> QED
  BY <1>3, <1>4, WorkflowsAssumption

-----------------------------------------------------------------------------
(* The operators of the driver, field by field.                            *)
Function(f) == f = [x \in DOMAIN f |-> f[x]]
Typed(now) ==
  /\ Record(now) /\ Function(now.executions) /\ Function(now.waits)
  /\ Sequence(now.transitions)

Replace(f, x, v) == [f EXCEPT ![x] = v]
In(now, s) == {i \in DOMAIN now.executions : now.executions[i] = s}

SameDocuments(new, now) ==
  new.contexts = now.contexts /\ new.bases = now.bases /\ new.commits = now.commits

(* What was recorded changes nothing else.                                 *)
SameButSaved(acc, before) ==
  Accumulates(acc) /\ acc.inv = before.inv /\ acc.jobs = before.jobs
  /\ acc.returned = before.returned

LEMMA SaveIs ==
  ASSUME NEW acc, Accumulates(acc), NEW changed
  PROVE  /\ SameButSaved(Save(acc, changed), acc)
         /\ SameButSaved(SaveIfFull(acc, changed), acc)
         /\ SameButSaved(SaveEach(acc, changed), acc)
         /\ SameButSaved(SaveSkipped(acc), acc)
<1> DEFINE image == Image(Last(acc.saved), acc.inv, changed)
<1>1. SameButSaved(acc, acc)
  BY DEF SameButSaved
<1>2. ASSUME NEW new PROVE SameButSaved([acc EXCEPT !.saved = new], acc)
  BY DEF SameButSaved, Accumulates
<1>3. \A more : SameButSaved(Save(acc, more), acc)
  BY <1>1, <1>2 DEF Save
<1>4. SameButSaved(SaveEach(acc, changed), acc)
  BY <1>1, <1>2 DEF SaveEach
<1> QED
  BY <1>1, <1>3, <1>4 DEF SaveIfFull, SaveSkipped

LEMMA SaveEdgesIs ==
  ASSUME NEW acc, Accumulates(acc), NEW i, NEW value
  PROVE  SameButSaved(SaveEdges(acc, i, value), acc)
<1>1. SameButSaved(acc, acc)
  BY DEF SameButSaved
<1>2. ASSUME NEW new PROVE SameButSaved([acc EXCEPT !.saved = new], acc)
  BY DEF SameButSaved, Accumulates
<1> QED
  BY <1>1, <1>2 DEF SaveEdges

LEMMA StartedIs ==
  ASSUME NEW now, Record(now)
  PROVE  /\ Accumulates(Started(now)) /\ Started(now).inv = now
         /\ Started(now).jobs = {} /\ ~Started(now).returned
BY DEF Accumulates, Started

(* The cursor.                                                             *)
LEMMA CursorIs ==
  ASSUME NEW c, NEW i, NEW code
  PROVE  /\ Fail(c, code).error = code /\ Unfailed(c).error = "none"
         /\ Cleared(c).ready = <<>> /\ Scheduled(c, i).error = "none"
BY DEF Fail, Unfailed, Cleared, Scheduled, Extend

Ends(after, now, i, end) ==
  /\ Typed(after)
  /\ after.cursor = now.cursor /\ after.replays = now.replays
  /\ after.state = now.state /\ after.deferred = now.deferred
  /\ after.mode = now.mode /\ after.contexts = now.contexts
  /\ after.bases = now.bases /\ after.commits = now.commits
  /\ after.executions = Replace(now.executions, i, end)
  /\ after.transitions = Append(now.transitions, i)
  /\ Range(after.transitions) = Range(now.transitions) \cup {i}
  /\ end = "waiting" => after.waits = Extend(now.waits, policy.keys[Node(i)], i)
  /\ end # "waiting" => after.waits = now.waits

LEMMA EndNodeIs ==
  ASSUME NEW now, Typed(now), NEW i, NEW end
  PROVE  Ends(EndNode(now, i, end), now, i, end)
<1> DEFINE after == EndNode(now, i, end)
<1>1. /\ Record(after)
      /\ after.cursor = now.cursor /\ after.replays = now.replays
      /\ after.state = now.state /\ after.deferred = now.deferred
      /\ after.mode = now.mode /\ after.contexts = now.contexts
      /\ after.bases = now.bases /\ after.commits = now.commits
      /\ after.executions = Replace(now.executions, i, end)
      /\ after.transitions = Append(now.transitions, i)
      /\ end = "waiting" => after.waits = Extend(now.waits, policy.keys[Node(i)], i)
      /\ end # "waiting" => after.waits = now.waits
  BY DEF EndNode, Typed, Record, Replace
<1> HIDE DEF after
<1>2. Sequence(after.transitions) /\ Range(after.transitions) = Range(now.transitions) \cup {i}
  BY <1>1, SequenceAppend DEF Typed
<1>3. Function(after.executions) /\ Function(after.waits)
  BY <1>1 DEF Typed, Function, Extend, Replace
<1>4. Typed(after)
  BY <1>1, <1>2, <1>3 DEF Typed
<1> QED
  BY <1>1, <1>2, <1>4 DEF after, Ends

-----------------------------------------------------------------------------
(* What happens to several instances or messages, one after the other.     *)

SubmitTrace(f, first, queue, fate) ==
  /\ f[0] = first /\ SubmitAll(first, queue, fate) = f[Len(queue)]
  /\ \A k \in 1 .. Len(queue) : f[k] = SubmitOne(f[k - 1], queue[k], fate[queue[k]])

LEMMA SubmitAllTrace ==
  ASSUME NEW first, NEW queue, Len(queue) \in Nat, NEW fate
  PROVE  \E f : SubmitTrace(f, first, queue, fate)
<1> DEFINE Step(g, k) == IF k = 0 THEN first ELSE SubmitOne(g[k - 1], queue[k], fate[queue[k]])
           Good(g, n) == g = [k \in 0 .. n |-> Step(g, k)]
           Bad == {n \in Nat : ~ \E g : Good(g, n)}
<1>1. Bad = {}
  <2> SUFFICES ASSUME Bad # {} PROVE FALSE
    OBVIOUS
  <2>1. PICK n \in Bad : \A m \in Bad : n <= m
    BY LeastExists
  <2>2. CASE n = 0
    <3> DEFINE g == [k \in 0 .. 0 |-> first]
    <3>1. \A k \in 0 .. 0 : Step(g, k) = first
      OBVIOUS
    <3>2. g = [k \in 0 .. 0 |-> Step(g, k)]
      BY <3>1
    <3> QED
      BY <2>1, <2>2, <3>2
  <2>3. CASE n # 0
    <3> HIDE DEF Good
    <3>1. n - 1 \in Nat /\ n - 1 \notin Bad
      BY <2>1, <2>3
    <3>2. PICK g : Good(g, n - 1)
      BY <3>1
    <3> DEFINE h == [k \in 0 .. n |-> Step(g, k)]
    <3> HIDE DEF Step
    <3>3. \A k \in 0 .. n - 1 : h[k] = g[k]
      <4>1. g = [k \in 0 .. n - 1 |-> Step(g, k)]
        BY <3>2 DEF Good
      <4>2. \A k \in 0 .. n - 1 : k \in 0 .. n
        BY <2>1
      <4> QED
        BY <4>1, <4>2
    <3>4. \A k \in 0 .. n : k # 0 => h[k - 1] = g[k - 1]
      <4>1. \A k \in 0 .. n : k # 0 => k - 1 \in 0 .. n - 1
        BY <2>1
      <4> HIDE DEF h
      <4> QED
        BY <3>3, <4>1
    <3>5. \A k \in 0 .. n : Step(h, k) = Step(g, k)
      <4> HIDE DEF h
      <4> QED
        BY <3>4 DEF Step
    <3>6. h = [k \in 0 .. n |-> Step(h, k)]
      BY <3>5
    <3> HIDE DEF h
    <3>7. Good(h, n)
      BY <3>6 DEF Good
    <3> QED
      BY <2>1, <3>7
  <2> QED
    BY <2>2, <2>3
<1> DEFINE after[k \in 0 .. Len(queue)] == Step(after, k)
<1>2. \E g : Good(g, Len(queue))
  BY <1>1
<1>3. after = [k \in 0 .. Len(queue) |-> Step(after, k)] /\ SubmitAll(first, queue, fate) = after[Len(queue)]
  BY <1>2 DEF SubmitAll
<1> HIDE DEF after
<1>4. /\ after[0] = first
      /\ \A k \in 1 .. Len(queue) : after[k] = Step(after, k) /\ k # 0
  BY <1>3
<1> QED
  BY <1>3, <1>4 DEF SubmitTrace

ApplyTrace(f, first, messages, fate) ==
  /\ f[0] = first /\ ApplyAll(first, messages, fate) = f[Len(messages)]
  /\ \A k \in 1 .. Len(messages) : f[k] = ApplyOne(f[k - 1], messages[k], fate[messages[k][1]])

LEMMA ApplyAllTrace ==
  ASSUME NEW first, NEW messages, Len(messages) \in Nat, NEW fate
  PROVE  \E f : ApplyTrace(f, first, messages, fate)
<1> DEFINE Step(g, k) == IF k = 0 THEN first ELSE ApplyOne(g[k - 1], messages[k], fate[messages[k][1]])
           Good(g, n) == g = [k \in 0 .. n |-> Step(g, k)]
           Bad == {n \in Nat : ~ \E g : Good(g, n)}
<1>1. Bad = {}
  <2> SUFFICES ASSUME Bad # {} PROVE FALSE
    OBVIOUS
  <2>1. PICK n \in Bad : \A m \in Bad : n <= m
    BY LeastExists
  <2>2. CASE n = 0
    <3> DEFINE g == [k \in 0 .. 0 |-> first]
    <3>1. \A k \in 0 .. 0 : Step(g, k) = first
      OBVIOUS
    <3>2. g = [k \in 0 .. 0 |-> Step(g, k)]
      BY <3>1
    <3> QED
      BY <2>1, <2>2, <3>2
  <2>3. CASE n # 0
    <3> HIDE DEF Good
    <3>1. n - 1 \in Nat /\ n - 1 \notin Bad
      BY <2>1, <2>3
    <3>2. PICK g : Good(g, n - 1)
      BY <3>1
    <3> DEFINE h == [k \in 0 .. n |-> Step(g, k)]
    <3> HIDE DEF Step
    <3>3. \A k \in 0 .. n - 1 : h[k] = g[k]
      <4>1. g = [k \in 0 .. n - 1 |-> Step(g, k)]
        BY <3>2 DEF Good
      <4>2. \A k \in 0 .. n - 1 : k \in 0 .. n
        BY <2>1
      <4> QED
        BY <4>1, <4>2
    <3>4. \A k \in 0 .. n : k # 0 => h[k - 1] = g[k - 1]
      <4>1. \A k \in 0 .. n : k # 0 => k - 1 \in 0 .. n - 1
        BY <2>1
      <4> HIDE DEF h
      <4> QED
        BY <3>3, <4>1
    <3>5. \A k \in 0 .. n : Step(h, k) = Step(g, k)
      <4> HIDE DEF h
      <4> QED
        BY <3>4 DEF Step
    <3>6. h = [k \in 0 .. n |-> Step(h, k)]
      BY <3>5
    <3> HIDE DEF h
    <3>7. Good(h, n)
      BY <3>6 DEF Good
    <3> QED
      BY <2>1, <3>7
  <2> QED
    BY <2>2, <2>3
<1> DEFINE after[k \in 0 .. Len(messages)] == Step(after, k)
<1>2. \E g : Good(g, Len(messages))
  BY <1>1
<1>3. after = [k \in 0 .. Len(messages) |-> Step(after, k)] /\ ApplyAll(first, messages, fate) = after[Len(messages)]
  BY <1>2 DEF ApplyAll
<1> HIDE DEF after
<1>4. /\ after[0] = first
      /\ \A k \in 1 .. Len(messages) : after[k] = Step(after, k) /\ k # 0
  BY <1>3
<1> QED
  BY <1>3, <1>4 DEF ApplyTrace

RecoverTrace(f, first, order) ==
  /\ f[0] = first /\ RecoverAll(first, order) = f[Len(order)]
  /\ \A k \in 1 .. Len(order) : f[k] = RecoverOne(f[k - 1], order[k])

LEMMA RecoverAllTrace ==
  ASSUME NEW first, NEW order, Len(order) \in Nat
  PROVE  \E f : RecoverTrace(f, first, order)
<1> DEFINE Step(g, k) == IF k = 0 THEN first ELSE RecoverOne(g[k - 1], order[k])
           Good(g, n) == g = [k \in 0 .. n |-> Step(g, k)]
           Bad == {n \in Nat : ~ \E g : Good(g, n)}
<1>1. Bad = {}
  <2> SUFFICES ASSUME Bad # {} PROVE FALSE
    OBVIOUS
  <2>1. PICK n \in Bad : \A m \in Bad : n <= m
    BY LeastExists
  <2>2. CASE n = 0
    <3> DEFINE g == [k \in 0 .. 0 |-> first]
    <3>1. \A k \in 0 .. 0 : Step(g, k) = first
      OBVIOUS
    <3>2. g = [k \in 0 .. 0 |-> Step(g, k)]
      BY <3>1
    <3> QED
      BY <2>1, <2>2, <3>2
  <2>3. CASE n # 0
    <3> HIDE DEF Good
    <3>1. n - 1 \in Nat /\ n - 1 \notin Bad
      BY <2>1, <2>3
    <3>2. PICK g : Good(g, n - 1)
      BY <3>1
    <3> DEFINE h == [k \in 0 .. n |-> Step(g, k)]
    <3> HIDE DEF Step
    <3>3. \A k \in 0 .. n - 1 : h[k] = g[k]
      <4>1. g = [k \in 0 .. n - 1 |-> Step(g, k)]
        BY <3>2 DEF Good
      <4>2. \A k \in 0 .. n - 1 : k \in 0 .. n
        BY <2>1
      <4> QED
        BY <4>1, <4>2
    <3>4. \A k \in 0 .. n : k # 0 => h[k - 1] = g[k - 1]
      <4>1. \A k \in 0 .. n : k # 0 => k - 1 \in 0 .. n - 1
        BY <2>1
      <4> HIDE DEF h
      <4> QED
        BY <3>3, <4>1
    <3>5. \A k \in 0 .. n : Step(h, k) = Step(g, k)
      <4> HIDE DEF h
      <4> QED
        BY <3>4 DEF Step
    <3>6. h = [k \in 0 .. n |-> Step(h, k)]
      BY <3>5
    <3> HIDE DEF h
    <3>7. Good(h, n)
      BY <3>6 DEF Good
    <3> QED
      BY <2>1, <3>7
  <2> QED
    BY <2>2, <2>3
<1> DEFINE after[k \in 0 .. Len(order)] == Step(after, k)
<1>2. \E g : Good(g, Len(order))
  BY <1>1
<1>3. after = [k \in 0 .. Len(order) |-> Step(after, k)] /\ RecoverAll(first, order) = after[Len(order)]
  BY <1>2 DEF RecoverAll
<1> HIDE DEF after
<1>4. /\ after[0] = first
      /\ \A k \in 1 .. Len(order) : after[k] = Step(after, k) /\ k # 0
  BY <1>3
<1> QED
  BY <1>3, <1>4 DEF RecoverTrace

-----------------------------------------------------------------------------
(* What the bindings publish.  Paths, by their prefixes:                   *)
LEMMA PrefixIs ==
  ASSUME NEW p \in Paths, NEW q \in Paths
  PROVE  /\ Len(p) \in Nat /\ Len(q) \in Nat
         /\ IsPrefix(p, q) <=> Len(p) <= Len(q) /\ \A i \in 1 .. Len(p) : p[i] = q[i]
<1>1. Len(p) \in Nat /\ Len(q) \in Nat
  BY DEF Paths
<1>2. SubSeq(p, 1, Len(p)) \in Paths /\ Len(SubSeq(p, 1, Len(p))) = Len(p)
      /\ \A i \in 1 .. Len(p) : SubSeq(p, 1, Len(p))[i] = p[i]
  BY DEF Paths
<1>3. ASSUME Len(p) <= Len(q)
      PROVE  /\ SubSeq(q, 1, Len(p)) \in Paths /\ Len(SubSeq(q, 1, Len(p))) = Len(p)
             /\ \A i \in 1 .. Len(p) : SubSeq(q, 1, Len(p))[i] = q[i]
  BY <1>3 DEF Paths
<1>4. ASSUME Len(p) <= Len(q)
      PROVE  SubSeq(p, 1, Len(p)) = SubSeq(q, 1, Len(p))
               <=> \A i \in 1 .. Len(p) : p[i] = q[i]
  <2> DEFINE r == SubSeq(p, 1, Len(p))
             s == SubSeq(q, 1, Len(p))
  <2>1. /\ r \in Paths /\ s \in Paths /\ Len(r) = Len(p) /\ Len(s) = Len(p)
        /\ \A i \in 1 .. Len(p) : r[i] = p[i] /\ s[i] = q[i]
    BY <1>2, <1>3, <1>4
  <2> HIDE DEF r, s
  <2>2. r = s <=> \A i \in 1 .. Len(p) : r[i] = s[i]
    BY <1>1, <2>1 DEF Paths
  <2> QED
    BY <2>1, <2>2 DEF r, s
<1> QED
  BY <1>1, <1>4 DEF IsPrefix

LEMMA CutIs ==
  ASSUME NEW p \in Paths, NEW n \in 0 .. Len(p)
  PROVE  /\ SubSeq(p, 1, n) \in Paths /\ Len(SubSeq(p, 1, n)) = n
         /\ \A i \in 1 .. n : SubSeq(p, 1, n)[i] = p[i]
         /\ IsPrefix(SubSeq(p, 1, n), p) /\ SubSeq(p, 1, Len(p)) = p
<1>1. /\ SubSeq(p, 1, n) \in Paths /\ Len(SubSeq(p, 1, n)) = n /\ Len(p) \in Nat
      /\ \A i \in 1 .. n : SubSeq(p, 1, n)[i] = p[i]
  BY DEF Paths
<1>2. SubSeq(p, 1, Len(p)) = p
  BY DEF Paths
<1>3. IsPrefix(SubSeq(p, 1, n), p)
  <2> DEFINE q == SubSeq(p, 1, n)
  <2>1. q \in Paths /\ Len(q) = n /\ n <= Len(p) /\ \A i \in 1 .. n : q[i] = p[i]
    BY <1>1
  <2> HIDE DEF q
  <2> QED
    BY <2>1, PrefixIs DEF q
<1> QED
  BY <1>1, <1>2, <1>3

LEMMA PrefixesAre ==
  ASSUME NEW p \in Paths, NEW q \in Paths
  PROVE  /\ IsPrefix(p, p)
         /\ IsPrefix(q, p) => q = SubSeq(p, 1, Len(q)) /\ Len(q) \in 0 .. Len(p)
         /\ IsPrefix(q, p) /\ q # p => Len(q) < Len(p)
         /\ IsPrefix(<<>>, p) /\ (Len(p) = 0 <=> p = <<>>)
         /\ \A r \in Paths : /\ IsPrefix(q, p) /\ IsPrefix(r, q) => IsPrefix(r, p)
                             /\ IsPrefix(q, p) /\ IsPrefix(r, p) => PathsOverlap(q, r)
<1>1. IsPrefix(p, p)
  BY PrefixIs
<1>2. ASSUME IsPrefix(q, p) PROVE q = SubSeq(p, 1, Len(q)) /\ Len(q) \in 0 .. Len(p)
  <2>1. Len(q) \in 0 .. Len(p) /\ \A i \in 1 .. Len(q) : q[i] = p[i]
    BY <1>2, PrefixIs
  <2> DEFINE r == SubSeq(p, 1, Len(q))
  <2>2. r \in Paths /\ Len(r) = Len(q) /\ \A i \in 1 .. Len(q) : r[i] = q[i]
    BY <2>1, CutIs
  <2> HIDE DEF r
  <2>3. q = r
    BY <2>2 DEF Paths
  <2> QED
    BY <2>1, <2>3 DEF r
<1>3. IsPrefix(q, p) /\ q # p => Len(q) < Len(p)
  <2> SUFFICES ASSUME IsPrefix(q, p), Len(q) = Len(p) PROVE q = p
    BY <1>2, PrefixIs
  <2> QED
    BY <1>2, CutIs
<1>4. Len(p) = 0 <=> p = <<>>
  BY DEF Paths
<1>5. IsPrefix(<<>>, p)
  <2>1. <<>> \in Paths /\ Len(<<>>) = 0
    BY DEF Paths
  <2> QED
    BY <2>1, PrefixIs
<1>6. ASSUME NEW r \in Paths, IsPrefix(q, p), IsPrefix(r, q) PROVE IsPrefix(r, p)
  BY <1>6, PrefixIs
<1>7. ASSUME NEW r \in Paths, IsPrefix(q, p), IsPrefix(r, p) PROVE PathsOverlap(q, r)
  <2>1. Len(q) <= Len(r) \/ Len(r) <= Len(q)
    BY PrefixIs
  <2> QED
    BY <1>7, <2>1, PrefixIs DEF PathsOverlap
<1> QED
  BY <1>1, <1>2, <1>3, <1>4, <1>5, <1>6, <1>7

LEMMA FrontIs ==
  ASSUME NEW p \in Paths, p # <<>>
  PROVE  /\ Len(p) \in Nat \ {0} /\ Front(p) = SubSeq(p, 1, Len(p) - 1)
         /\ Front(p) \in Paths /\ IsPrefix(Front(p), p) /\ Front(p) # p
         /\ Len(p) - 1 \in 0 .. Len(p)
         /\ \A n \in 1 .. Len(p) : Front(SubSeq(p, 1, n)) = SubSeq(p, 1, n - 1)
<1>1. Len(p) \in Nat \ {0} /\ Len(p) - 1 \in 0 .. Len(p) /\ Len(p) - 1 # Len(p)
  BY DEF Paths
<1>2. Front(p) = SubSeq(p, 1, Len(p) - 1)
  BY DEF Front
<1>3. ASSUME NEW n \in 1 .. Len(p) PROVE Front(SubSeq(p, 1, n)) = SubSeq(p, 1, n - 1)
  <2> DEFINE q == SubSeq(p, 1, n)
             r == SubSeq(p, 1, n - 1)
             s == SubSeq(q, 1, n - 1)
  <2>1. /\ n \in 0 .. Len(p) /\ n - 1 \in 0 .. Len(p) /\ n - 1 \in 0 .. n
        /\ \A i \in 1 .. n - 1 : i \in 1 .. n
    BY <1>1
  <2>2. /\ q \in Paths /\ Len(q) = n /\ r \in Paths /\ Len(r) = n - 1
        /\ \A i \in 1 .. n : q[i] = p[i]
        /\ \A i \in 1 .. n - 1 : r[i] = p[i]
    BY <2>1, CutIs
  <2> HIDE DEF q, r
  <2>3. s \in Paths /\ Len(s) = n - 1 /\ \A i \in 1 .. n - 1 : s[i] = q[i]
    BY <2>1, <2>2, CutIs
  <2>4. Front(q) = s
    BY <2>2 DEF Front
  <2> HIDE DEF s
  <2>5. s = r
    BY <2>1, <2>2, <2>3 DEF Paths
  <2> QED
    BY <2>4, <2>5 DEF q, r
<1>4. Front(p) \in Paths /\ IsPrefix(Front(p), p) /\ Len(Front(p)) = Len(p) - 1
  BY <1>1, <1>2, CutIs
<1> QED
  BY <1>1, <1>2, <1>3, <1>4

-----------------------------------------------------------------------------
(* Documents: what is above a path is a dictionary.                        *)
Tree(d) ==
  /\ d = [q \in DOMAIN d |-> d[q]] /\ DOMAIN d \subseteq Paths
  /\ <<>> \in DOMAIN d /\ d[<<>>] = Dict
  /\ \A q \in DOMAIN d : q # <<>> => IsDict(d, Front(q))

LEMMA TreeAbove ==
  ASSUME NEW d, Tree(d), NEW p \in DOMAIN d, NEW n \in 0 .. Len(p), n # Len(p)
  PROVE  IsDict(d, SubSeq(p, 1, n))
<1> DEFINE Bad == {k \in 0 .. Len(p) - 1 : ~IsDict(d, SubSeq(p, 1, Len(p) - 1 - k))}
<1>0. p \in Paths /\ Len(p) \in Nat
  BY DEF Tree, Paths
<1> SUFFICES ASSUME ~IsDict(d, SubSeq(p, 1, n)) PROVE FALSE
  OBVIOUS
<1>1. Len(p) - 1 - n \in Bad
  <2>1. Len(p) - 1 - n \in 0 .. Len(p) - 1 /\ Len(p) - 1 - (Len(p) - 1 - n) = n
    BY <1>0
  <2> QED
    BY <2>1
<1>2. PICK k \in Bad : \A m \in Bad : k <= m
  <2>1. Bad \in SUBSET Nat /\ Bad # {}
    <3>1. 0 .. Len(p) - 1 \subseteq Nat
      BY <1>0
    <3>2. Bad # {}
      BY <1>1
    <3> QED
      BY <3>1, <3>2
  <2> HIDE DEF Bad
  <2> QED
    BY <2>1, LeastExists
<1>3. k \in 0 .. Len(p) - 1 /\ ~IsDict(d, SubSeq(p, 1, Len(p) - 1 - k))
  OBVIOUS
<1> DEFINE m == Len(p) - k
           q == SubSeq(p, 1, m)
<1>4. m \in 1 .. Len(p) /\ m \in 0 .. Len(p) /\ m - 1 = Len(p) - 1 - k /\ p # <<>>
  BY <1>0, <1>3
<1>5. q \in DOMAIN d
  <2>1. CASE k = 0
    <3>1. m = Len(p)
      BY <1>0, <2>1
    <3> QED
      BY <1>0, <1>4, <3>1, CutIs
  <2>2. CASE k # 0
    <3>1. k - 1 \in 0 .. Len(p) - 1 /\ ~(k <= k - 1) /\ Len(p) - 1 - (k - 1) = m
      BY <1>0, <1>3, <2>2
    <3>2. k - 1 \notin Bad
      BY <1>2, <3>1
    <3> QED
      BY <3>1, <3>2 DEF IsDict
  <2> QED
    BY <2>1, <2>2
<1>6. q # <<>>
  <2>1. Len(q) = m /\ q \in Paths /\ m # 0
    <3>1. m \in 0 .. Len(p) /\ m # 0
      BY <1>4
    <3> HIDE DEF m
    <3> QED
      BY <1>0, <3>1, CutIs
  <2> HIDE DEF q, m
  <2> QED
    BY <2>1, PrefixesAre
<1>7. Front(q) = SubSeq(p, 1, Len(p) - 1 - k)
  BY <1>0, <1>4, FrontIs
<1> QED
  BY <1>3, <1>5, <1>6, <1>7 DEF Tree

Differs(d, w, p) ==
  p \in DOMAIN d \cup DOMAIN w /\ ~(p \in DOMAIN d /\ p \in DOMAIN w /\ d[p] = w[p])

(* Where two documents differ, a path above, or that one, has changed.     *)
LEMMA ChangedAbove ==
  ASSUME NEW d, Tree(d), NEW w, Tree(w), NEW p, Differs(d, w, p)
  PROVE  \E r \in ChangedPaths(d, w) : r \in Paths /\ IsPrefix(r, p)
<1>0. p \in Paths /\ Len(p) \in Nat
  BY DEF Differs, Tree, Paths
<1> DEFINE Bad == {n \in 0 .. Len(p) : Differs(d, w, SubSeq(p, 1, n))}
<1>1. Len(p) \in Bad
  <2>1. SubSeq(p, 1, Len(p)) = p /\ Len(p) \in 0 .. Len(p)
    BY <1>0, CutIs
  <2> QED
    BY <2>1
<1>2. PICK n \in Bad : \A m \in Bad : n <= m
  <2>1. Bad \in SUBSET Nat /\ Bad # {}
    BY <1>0, <1>1
  <2> HIDE DEF Bad
  <2> QED
    BY <2>1, LeastExists
<1> DEFINE r == SubSeq(p, 1, n)
           s == SubSeq(p, 1, n - 1)
<1>3. n \in 0 .. Len(p) /\ Differs(d, w, r)
  OBVIOUS
<1>4. r \in Paths /\ IsPrefix(r, p) /\ Len(r) = n
  BY <1>0, <1>3, CutIs
<1>5. r # <<>>
  BY <1>3 DEF Differs, Tree
<1>6. n # 0
  BY <1>4, <1>5, PrefixesAre
<1>7. n \in 1 .. Len(p) /\ n - 1 \in 0 .. Len(p) /\ n - 1 # Len(p) /\ ~(n <= n - 1)
  BY <1>0, <1>3, <1>6
<1>8. ~Differs(d, w, s)
  BY <1>2, <1>7
<1>9. Front(r) = s
  <2>1. p # <<>>
    BY <1>0, <1>7, PrefixesAre
  <2> QED
    BY <1>0, <1>7, <2>1, FrontIs
<1>10. IsDict(d, s) \/ IsDict(w, s)
  BY <1>7, TreeAbove DEF Differs
<1> HIDE DEF r, s
<1>11. IsDict(d, s) /\ IsDict(w, s)
  BY <1>8, <1>10 DEF Differs, IsDict
<1>12. r \in ChangedPaths(d, w)
  BY <1>3, <1>5, <1>9, <1>11 DEF ChangedPaths, Differs
<1> QED
  BY <1>4, <1>12

(* A commit compares the copy with the document as it is now, so what is   *)
(* published is the copy.                                                  *)
LEMMA MergeIs ==
  ASSUME NEW d, Tree(d), NEW w, Tree(w)
  PROVE  /\ Merge(d, w, ChangedPaths(d, w)) = w
         /\ ChangedPaths(d, w) = {} => d = w
<1> DEFINE changed == ChangedPaths(d, w)
           Below(q) == \E p \in changed : IsPrefix(p, q)
           kept == {q \in DOMAIN d : ~Below(q)}
           taken == {q \in DOMAIN w : Below(q)}
           value == [q \in kept \cup taken |-> IF q \in taken THEN w[q] ELSE d[q]]
<1>1. \A q : Differs(d, w, q) => Below(q)
  BY ChangedAbove
<1>2. Merge(d, w, changed) = value
  BY DEF Merge
<1> HIDE DEF Below
<1>3. kept \cup taken = DOMAIN w
  BY <1>1 DEF Differs
<1>4. \A q \in DOMAIN w : value[q] = w[q]
  BY <1>1, <1>3 DEF Differs
<1>5. value = w
  BY <1>3, <1>4 DEF Tree
<1>6. changed = {} => d = w
  <2> SUFFICES ASSUME changed = {} PROVE d = w
    OBVIOUS
  <2>1. \A q : ~Differs(d, w, q)
    BY <1>1 DEF Below
  <2>2. DOMAIN d = DOMAIN w /\ \A q \in DOMAIN d : d[q] = w[q]
    BY <2>1 DEF Differs
  <2> QED
    BY <2>2 DEF Tree
<1> QED
  BY <1>2, <1>5, <1>6

(* A context and the revisions of its paths.                               *)
IsContext(x) ==
  /\ x = [data |-> x.data, revision |-> x.revision, paths |-> x.paths]
  /\ Tree(x.data) /\ x.revision \in Nat
  /\ DOMAIN x.paths \subseteq Paths
  /\ \A q \in DOMAIN x.paths : x.paths[q] \in Nat /\ x.paths[q] <= x.revision

LEMMA CommitIs ==
  ASSUME NEW x, IsContext(x), NEW w, Tree(w)
  PROVE  LET new == CommitIsolated(x, w)
             changed == ChangedPaths(x.data, w)
         IN  /\ IsContext(new) /\ new.data = w
             /\ changed = {} => new = x
             /\ changed # {} => new.revision = x.revision + 1
             /\ \A q \in DOMAIN x.paths : q \in DOMAIN new.paths /\ new.paths[q] >= x.paths[q]
             /\ \A r \in changed : r \in DOMAIN new.paths /\ new.paths[r] = new.revision
<1> DEFINE new == CommitIsolated(x, w)
           changed == ChangedPaths(x.data, w)
           next == x.revision + 1
           paths == [p \in changed \cup DOMAIN x.paths |->
                        IF p \in changed THEN next ELSE x.paths[p]]
<1>1. Merge(x.data, w, changed) = w /\ (changed = {} => x.data = w)
  BY MergeIs DEF IsContext
<1>2. changed \subseteq Paths
  BY DEF ChangedPaths, IsContext, Tree
<1>3. CASE changed = {}
  <2>1. new = x
    BY <1>3 DEF CommitIsolated
  <2> HIDE DEF new, changed
  <2>2. \A q \in DOMAIN x.paths : x.paths[q] >= x.paths[q]
    BY DEF IsContext
  <2> QED
    BY <1>1, <1>3, <2>1, <2>2 DEF new, changed
<1>4. CASE changed # {}
  <2>1. new = [data |-> w, revision |-> next, paths |-> paths]
    BY <1>1, <1>4 DEF CommitIsolated
  <2> HIDE DEF new, changed
  <2>2. next \in Nat /\ next > x.revision
    BY DEF IsContext
  <2>3. /\ DOMAIN paths = changed \cup DOMAIN x.paths
        /\ \A r \in changed : paths[r] = next
        /\ \A q \in DOMAIN x.paths : paths[q] \in {next, x.paths[q]}
        /\ \A q \in DOMAIN paths : q \in changed \/ q \in DOMAIN x.paths
    OBVIOUS
  <2> HIDE DEF next, paths
  <2>4. /\ new.data = w /\ new.revision = next /\ new.paths = paths
        /\ new = [data |-> new.data, revision |-> new.revision, paths |-> new.paths]
    BY <2>1
  <2>5. \A q \in DOMAIN x.paths : paths[q] >= x.paths[q] /\ paths[q] \in Nat /\ paths[q] <= next
    BY <2>2, <2>3 DEF IsContext
  <2>6. \A r \in changed : paths[r] \in Nat /\ paths[r] <= next
    BY <2>2, <2>3
  <2>7. IsContext(new)
    BY <1>2, <2>2, <2>3, <2>4, <2>5, <2>6 DEF IsContext
  <2> QED
    BY <1>4, <2>3, <2>4, <2>5, <2>7 DEF new, changed, next
<1> QED
  BY <1>3, <1>4

(* What a binding writes.                                                  *)
Separate(paths) == \A p, q \in paths : PathsOverlap(p, q) => p = q
Puts(w, d, paths, value) ==
  /\ Tree(w)
  /\ \A p \in paths : p \in DOMAIN w /\ w[p] = <<value>>
  /\ \A q \in DOMAIN w : w[q] # Dict => q \in paths \/ (q \in DOMAIN d /\ w[q] = d[q])
  /\ \A q \in DOMAIN d : d[q] = Dict \/ (q \in DOMAIN w /\ w[q] = d[q])
                           \/ \E p \in paths : PathsOverlap(q, p)

LEMMA PutAllIs ==
  ASSUME NEW d, Tree(d), NEW paths, paths \subseteq Paths \ {<<>>}, Separate(paths), NEW value
  PROVE  Puts(PutAll(d, paths, value), d, paths, value)
<1> DEFINE above == UNION {{SubSeq(p, 1, k) : k \in 0 .. Len(p) - 1} : p \in paths}
           kept == {q \in DOMAIN d : ~\E p \in paths : IsPrefix(p, q)}
           w == [q \in kept \cup above \cup paths |->
                   IF q \in paths THEN <<value>> ELSE IF q \in above THEN Dict ELSE d[q]]
<1>1. PutAll(d, paths, value) = w
  BY DEF PutAll
<1>2. ASSUME NEW q \in above
      PROVE  \E p \in paths : \E k \in 0 .. Len(p) - 1 : q = SubSeq(p, 1, k)
  OBVIOUS
<1>3. ASSUME NEW p \in paths, NEW k \in 0 .. Len(p) - 1 PROVE SubSeq(p, 1, k) \in above
  OBVIOUS
<1> HIDE DEF above
<1>4. \A p \in paths : p \in Paths /\ p # <<>>
  OBVIOUS
<1>5. ASSUME NEW p \in paths, NEW k \in 0 .. Len(p) - 1
      PROVE  /\ SubSeq(p, 1, k) \in Paths \ paths /\ IsPrefix(SubSeq(p, 1, k), p)
             /\ k # 0 => SubSeq(p, 1, k) # <<>> /\ Front(SubSeq(p, 1, k)) = SubSeq(p, 1, k - 1)
  <2> DEFINE q == SubSeq(p, 1, k)
  <2>1. p \in Paths /\ p # <<>> /\ Len(p) \in Nat
    BY <1>4 DEF Paths
  <2>2. k \in 0 .. Len(p) /\ k # Len(p) /\ (k # 0 => k \in 1 .. Len(p))
    BY <2>1
  <2>3. q \in Paths /\ Len(q) = k /\ IsPrefix(q, p)
    BY <2>1, <2>2, CutIs
  <2>4. k # 0 => Front(q) = SubSeq(p, 1, k - 1)
    BY <2>1, <2>2, FrontIs
  <2> HIDE DEF q
  <2>5. k # 0 => q # <<>>
    BY <2>3, PrefixesAre
  <2>6. q # p
    BY <2>2, <2>3
  <2>7. q \notin paths
    BY <2>3, <2>6 DEF PathsOverlap, Separate
  <2> QED
    BY <2>3, <2>4, <2>5, <2>7 DEF q
<1>6. ASSUME NEW q \in above PROVE q \in Paths \ paths
  <2>1. PICK p \in paths : \E k \in 0 .. Len(p) - 1 : q = SubSeq(p, 1, k)
    BY <1>2
  <2>2. PICK k \in 0 .. Len(p) - 1 : q = SubSeq(p, 1, k)
    BY <2>1
  <2> QED
    BY <1>5, <2>2
<1>7. /\ DOMAIN w = kept \cup above \cup paths /\ w = [q \in DOMAIN w |-> w[q]]
      /\ \A q \in paths : w[q] = <<value>>
      /\ \A q \in above : w[q] = Dict
      /\ \A q \in kept : q \notin paths /\ q \notin above => w[q] = d[q]
      /\ kept \subseteq DOMAIN d
  <2>1. \A q \in above : q \notin paths
    BY <1>6
  <2> QED
    BY <2>1
<1>8. \A q \in kept : q \notin paths
  <2>1. \A p \in paths : IsPrefix(p, p)
    BY <1>4, PrefixesAre
  <2> QED
    BY <2>1
<1>9. ASSUME NEW q \in DOMAIN d, q \notin kept
      PROVE  \E p \in paths : PathsOverlap(q, p)
  BY <1>9 DEF PathsOverlap
<1>10. ASSUME NEW q \in kept, q # <<>>
       PROVE  Front(q) \in kept /\ d[Front(q)] = Dict
  <2>1. q \in Paths /\ IsDict(d, Front(q))
    BY <1>10 DEF Tree
  <2>2. IsPrefix(Front(q), q) /\ Front(q) \in Paths
    BY <1>10, <2>1, FrontIs
  <2>3. ASSUME NEW p \in paths, IsPrefix(p, Front(q)) PROVE FALSE
    <3>1. IsPrefix(p, q)
      BY <1>4, <2>1, <2>2, <2>3, PrefixesAre
    <3> QED
      BY <3>1
  <2> QED
    BY <2>1, <2>3 DEF IsDict
<1>11. <<>> \in kept
  <2>1. ASSUME NEW p \in paths PROVE ~IsPrefix(p, <<>>)
    <3>1. p \in Paths /\ p # <<>> /\ <<>> \in Paths /\ Len(<<>>) = 0 /\ Len(p) \in Nat
      BY <1>4 DEF Paths
    <3>2. Len(p) # 0
      BY <3>1, PrefixesAre
    <3> QED
      BY <3>1, <3>2, PrefixIs
  <2> QED
    BY <2>1 DEF Tree
<1> HIDE DEF kept, w
<1>12. Tree(w)
  <2>1. DOMAIN w \subseteq Paths
    BY <1>6, <1>7 DEF Tree
  <2>2. <<>> \in DOMAIN w /\ w[<<>>] = Dict
    <3>1. <<>> \notin paths /\ d[<<>>] = Dict
      BY DEF Tree
    <3> QED
      BY <1>7, <1>11, <3>1
  <2>3. ASSUME NEW q \in DOMAIN w, q # <<>> PROVE IsDict(w, Front(q))
    <3>1. ASSUME NEW p \in paths, NEW k \in 0 .. Len(p), k # 0, q = SubSeq(p, 1, k)
          PROVE  IsDict(w, Front(q))
      <4>1. p \in Paths /\ k \in 1 .. Len(p) /\ k - 1 \in 0 .. Len(p) - 1 /\ p # <<>>
        BY <1>4, <3>1 DEF Paths
      <4>2. Front(q) = SubSeq(p, 1, k - 1)
        BY <3>1, <4>1, FrontIs
      <4>3. Front(q) \in above
        BY <1>3, <4>1, <4>2
      <4> QED
        BY <1>7, <4>3 DEF IsDict
    <3>2. CASE q \in paths
      <4>1. q \in Paths /\ q = SubSeq(q, 1, Len(q)) /\ Len(q) \in 0 .. Len(q) /\ Len(q) # 0
        <5>1. q \in Paths /\ q # <<>> /\ Len(q) \in Nat
          BY <1>4, <3>2 DEF Paths
        <5> QED
          BY <5>1, PrefixesAre, CutIs
      <4> QED
        BY <3>1, <3>2, <4>1
    <3>3. CASE q \in above
      <4>1. PICK p \in paths : \E k \in 0 .. Len(p) - 1 : q = SubSeq(p, 1, k)
        BY <1>2, <3>3
      <4>2. PICK k \in 0 .. Len(p) - 1 : q = SubSeq(p, 1, k)
        BY <4>1
      <4>3. p \in Paths /\ Len(p) \in Nat
        BY <1>4 DEF Paths
      <4>4. k \in 0 .. Len(p)
        BY <4>3
      <4>5. k # 0
        <5> SUFFICES ASSUME k = 0 PROVE q = <<>>
          BY <2>3
        <5>1. q \in Paths /\ Len(q) = 0
          BY <4>2, <4>3, <4>4, CutIs
        <5> QED
          BY <5>1, PrefixesAre
      <4> QED
        BY <3>1, <4>2, <4>4, <4>5
    <3>4. CASE q \in kept
      <4>1. Front(q) \in kept /\ d[Front(q)] = Dict
        BY <1>10, <2>3, <3>4
      <4> QED
        BY <1>7, <1>8, <4>1 DEF IsDict
    <3> QED
      BY <1>7, <3>2, <3>3, <3>4
  <2> QED
    BY <1>7, <2>1, <2>2, <2>3 DEF Tree
<1>13. ASSUME NEW q \in DOMAIN w, w[q] # Dict PROVE q \in paths \/ (q \in DOMAIN d /\ w[q] = d[q])
  BY <1>7, <1>13
<1>14. ASSUME NEW q \in DOMAIN d, d[q] # Dict, ~\E p \in paths : PathsOverlap(q, p)
       PROVE  q \in DOMAIN w /\ w[q] = d[q]
  <2>1. q \in kept /\ q \notin paths
    BY <1>8, <1>9, <1>14
  <2>2. q \notin above
    <3> SUFFICES ASSUME q \in above PROVE FALSE
      OBVIOUS
    <3>1. PICK p \in paths : \E k \in 0 .. Len(p) - 1 : q = SubSeq(p, 1, k)
      BY <1>2
    <3>2. IsPrefix(q, p)
      BY <1>5, <3>1
    <3> QED
      BY <1>14, <3>2 DEF PathsOverlap
  <2> QED
    BY <1>7, <2>1, <2>2
<1> QED
  BY <1>1, <1>7, <1>12, <1>13, <1>14 DEF Puts

-----------------------------------------------------------------------------
(* The contexts of an Invocation, and the copies its bindings work on.     *)
Holds(d, p, i) == p \in DOMAIN d /\ d[p] = <<i>>
Writes(i, k) == policy.writes[Node(i)][k]

(* Above each value a path has the revision that brought it, or a later.   *)
Dated(x, p, revision) ==
  \E q \in DOMAIN x.paths : IsPrefix(q, p) /\ x.paths[q] >= revision

(* Which revisions the executions know and made.                           *)
Revised(now) ==
  /\ now.contexts = [k \in Contexts |-> now.contexts[k]]
  /\ \A k \in Contexts : IsContext(now.contexts[k])
  /\ DOMAIN now.executions \subseteq DOMAIN now.bases
  /\ \A i \in DOMAIN now.executions :
       /\ Node(i) \in NodeSet(workflow)
       /\ \A k \in Contexts : /\ now.bases[i][k] \in Nat
                              /\ now.bases[i][k] <= now.contexts[k].revision
  /\ DOMAIN now.commits \subseteq In(now, "completed")
  /\ \A i \in DOMAIN now.commits, k \in Contexts :
       now.commits[i][k] \in Nat /\ now.commits[i][k] <= now.contexts[k].revision
  /\ \A i \in In(now, "completed"), k \in Contexts :
       Writes(i, k) # {} => i \in DOMAIN now.commits

(* What is in a context was written by a binding, and what a binding wrote *)
(* is there unless one that began later wrote over it.                     *)
Wrote(now, k, p, i) ==
  i \in In(now, "completed") /\ i \in DOMAIN now.commits /\ p \in Writes(i, k)
Published(now) ==
  \A k \in Contexts :
    LET x == now.contexts[k] IN
    /\ \A p \in DOMAIN x.data : x.data[p] = Dict \/
         \E i \in DOMAIN now.commits :
           /\ x.data[p] = <<i>> /\ Wrote(now, k, p, i) /\ Dated(x, p, now.commits[i][k])
    /\ \A i \in In(now, "completed") : \A p \in Writes(i, k) :
         \/ Holds(x.data, p, i)
         \/ \E j \in DOMAIN now.commits :
              /\ now.commits[j][k] > now.commits[i][k]
              /\ now.bases[j][k] >= now.commits[i][k]
              /\ \E q \in Writes(j, k) : PathsOverlap(p, q)

(* The copies of a binding: its own writes; of others what it found and is *)
(* still there, or has been written over at a revision it does not know;   *)
(* and all that it knows, unless it has written over it.                   *)
Copied(now, j, w) ==
  \A k \in Contexts :
    LET x == now.contexts[k] IN
    /\ Tree(w[k])
    /\ \A p \in Writes(j, k) : Holds(w[k], p, j)
    /\ \A p \in DOMAIN w[k] : \/ w[k][p] = Dict
                              \/ p \in Writes(j, k)
                              \/ \E i \in DOMAIN now.commits :
                                   /\ w[k][p] = <<i>> /\ Wrote(now, k, p, i)
                                   /\ Holds(x.data, p, i) \/ Dated(x, p, now.bases[j][k] + 1)
    /\ \A i \in DOMAIN now.commits : \A p \in DOMAIN x.data :
         Holds(x.data, p, i) /\ now.commits[i][k] <= now.bases[j][k] =>
           Holds(w[k], p, i) \/ \E q \in Writes(j, k) : PathsOverlap(p, q)

Sane(now, copies) ==
  /\ Revised(now) /\ Published(now)
  /\ \A j \in DOMAIN copies : /\ j \in DOMAIN now.executions
                              /\ now.executions[j] # "completed"
                              /\ Copied(now, j, copies[j])

(* A binding is published: its copies are the documents, at revisions that *)
(* nobody knows yet.                                                       *)
Publishes(new, now, j, w) ==
  /\ new.contexts = Committed(now.contexts, w) /\ new.bases = now.bases
  /\ DOMAIN new.executions = DOMAIN now.executions
  /\ In(new, "completed") = In(now, "completed") \cup {j}
  /\ new.commits = IF new.contexts = now.contexts THEN now.commits
                   ELSE Extend(now.commits, j, Revisions(new.contexts))

(* For one of the two contexts.  A path that changes gets the new revision, *)
(* and the binding knew what was there before; nothing comes back that had *)
(* been written over.                                                      *)
Carries(new, now, j, w, k) ==
  LET x == now.contexts[k]
      y == new.contexts[k]
  IN  /\ IsContext(y) /\ y.data = w[k] /\ y.revision >= x.revision
      /\ \A p : \A r \in Nat : Dated(x, p, r) => Dated(y, p, r)
      /\ \A p : Differs(x.data, w[k], p) =>
           /\ y.revision = x.revision + 1 /\ Dated(y, p, y.revision)
           /\ j \in DOMAIN new.commits /\ new.commits[j][k] = y.revision
           /\ \A r \in Nat : Dated(x, p, r) => r <= now.bases[j][k]
      /\ \A p \in Writes(j, k) : Differs(x.data, w[k], p)
      /\ \A i \in DOMAIN now.commits : \A p :
           Wrote(now, k, p, i) /\ Holds(w[k], p, i) => Holds(x.data, p, i)

LEMMA PublishCarries ==
  ASSUME NEW now, Revised(now), Published(now), NEW j \in DOMAIN now.executions,
         now.executions[j] # "completed", NEW w, Copied(now, j, w),
         CanCommit(now.contexts, w, now.bases[j]), NEW new, Publishes(new, now, j, w),
         NEW k \in Contexts
  PROVE  Carries(new, now, j, w, k)
<1> DEFINE x == now.contexts[k]
           y == new.contexts[k]
           changed == ChangedPaths(x.data, w[k])
           base == now.bases[j][k]
<1>1. /\ IsContext(x) /\ base \in Nat /\ base <= x.revision /\ Tree(w[k])
      /\ x.revision \in Nat
  BY DEF Revised, Copied, IsContext
<1>2. y = CommitIsolated(x, w[k])
  BY DEF Publishes, Committed
<1>3. Conflicts(x, w[k], base) = {}
  BY DEF CanCommit
<1>4. j \notin In(now, "completed")
  BY DEF In
<1> HIDE DEF y
<1>5. /\ IsContext(y) /\ y.data = w[k]
      /\ changed = {} => y = x
      /\ changed # {} => y.revision = x.revision + 1
      /\ \A q \in DOMAIN x.paths : q \in DOMAIN y.paths /\ y.paths[q] >= x.paths[q]
      /\ \A r \in changed : r \in DOMAIN y.paths /\ y.paths[r] = y.revision
  BY <1>1, <1>2, CommitIs
<1>6. y.revision >= x.revision /\ y.revision \in Nat
  BY <1>1, <1>5 DEF IsContext
<1>7. ASSUME NEW p, NEW r \in Nat, Dated(x, p, r) PROVE Dated(y, p, r)
  <2>1. PICK q \in DOMAIN x.paths : IsPrefix(q, p) /\ x.paths[q] >= r
    BY <1>7 DEF Dated
  <2>2. /\ q \in DOMAIN y.paths /\ y.paths[q] >= x.paths[q]
        /\ x.paths[q] \in Nat /\ y.paths[q] \in Nat
    BY <1>1, <1>5 DEF IsContext
  <2>3. y.paths[q] >= r
    BY <2>1, <2>2
  <2> QED
    BY <2>1, <2>2, <2>3 DEF Dated
<1>8. ASSUME changed # {} PROVE j \in DOMAIN new.commits /\ new.commits[j][k] = y.revision
  <2>1. y # x
    BY <1>1, <1>5, <1>8
  <2>2. new.contexts # now.contexts
    BY <2>1 DEF y
  <2> QED
    BY <2>2 DEF Publishes, Extend, Revisions, y
<1>9. ASSUME NEW p, Differs(x.data, w[k], p)
      PROVE  /\ y.revision = x.revision + 1 /\ Dated(y, p, y.revision)
             /\ j \in DOMAIN new.commits /\ new.commits[j][k] = y.revision
             /\ \A r \in Nat : Dated(x, p, r) => r <= base
  <2>1. PICK r \in changed : r \in Paths /\ IsPrefix(r, p)
    BY <1>1, <1>9, ChangedAbove DEF IsContext
  <2>2. p \in Paths
    BY <1>1, <1>9 DEF Differs, Tree, IsContext
  <2>3. Dated(y, p, y.revision)
    BY <1>5, <1>6, <2>1 DEF Dated
  <2>4. ASSUME NEW s \in Nat, Dated(x, p, s) PROVE s <= base
    <3>1. PICK q \in DOMAIN x.paths : IsPrefix(q, p) /\ x.paths[q] >= s
      BY <2>4 DEF Dated
    <3>2. q \in Paths /\ x.paths[q] \in Nat
      BY <1>1 DEF IsContext
    <3>3. PathsOverlap(r, q)
      BY <2>1, <2>2, <3>1, <3>2, PrefixesAre
    <3>4. ~(x.paths[q] > base)
      BY <1>3, <2>1, <3>3 DEF Conflicts
    <3> HIDE DEF x, base
    <3> QED
      BY <1>1, <3>1, <3>2, <3>4
  <2> QED
    BY <1>5, <1>8, <2>1, <2>3, <2>4
<1>10. ASSUME NEW p \in Writes(j, k) PROVE Differs(x.data, w[k], p)
  <2>1. Holds(w[k], p, j)
    BY DEF Copied
  <2>2. ~Holds(x.data, p, j)
    <3> SUFFICES ASSUME Holds(x.data, p, j) PROVE FALSE
      OBVIOUS
    <3>1. x.data[p] # Dict /\ p \in DOMAIN x.data /\ x.data[p] = <<j>>
      BY DEF Holds, Dict
    <3>2. PICK i \in DOMAIN now.commits : x.data[p] = <<i>> /\ Wrote(now, k, p, i)
      BY <3>1 DEF Published
    <3>3. i = j
      BY <3>1, <3>2
    <3> QED
      BY <1>4, <3>2, <3>3 DEF Wrote
  <2> QED
    BY <2>1, <2>2 DEF Holds, Differs
<1>11. ASSUME NEW i \in DOMAIN now.commits, NEW p, Wrote(now, k, p, i), Holds(w[k], p, i)
       PROVE  Holds(x.data, p, i)
  <2> SUFFICES ASSUME ~Holds(x.data, p, i) PROVE FALSE
    OBVIOUS
  <2>1. i # j
    BY <1>4, <1>11 DEF Wrote
  <2>2. p \in DOMAIN w[k] /\ w[k][p] = <<i>> /\ w[k][p] # Dict
    BY <1>11 DEF Holds, Dict
  <2>3. p \notin Writes(j, k)
    <3> SUFFICES ASSUME p \in Writes(j, k) PROVE FALSE
      OBVIOUS
    <3>1. w[k][p] = <<j>>
      BY DEF Copied, Holds
    <3> QED
      BY <2>1, <2>2, <3>1
  <2>4. Dated(x, p, base + 1)
    <3>1. PICK m \in DOMAIN now.commits :
            w[k][p] = <<m>> /\ (Holds(x.data, p, m) \/ Dated(x, p, base + 1))
      BY <2>2, <2>3 DEF Copied
    <3>2. m = i
      BY <2>2, <3>1
    <3> QED
      BY <3>1, <3>2
  <2>5. Differs(x.data, w[k], p)
    BY <2>2 DEF Differs, Holds
  <2>6. base + 1 \in Nat /\ ~(base + 1 <= base)
    BY <1>1
  <2> QED
    BY <1>9, <2>4, <2>5, <2>6
<1> QED
  BY <1>5, <1>6, <1>7, <1>9, <1>10, <1>11 DEF Carries, y

LEMMA PublishCommits ==
  ASSUME NEW now, Revised(now), NEW j \in DOMAIN now.executions,
         now.executions[j] # "completed", NEW w, NEW new, Publishes(new, now, j, w)
  PROVE  /\ \A i \in DOMAIN now.commits : /\ i # j /\ i \in DOMAIN new.commits
                                          /\ new.commits[i] = now.commits[i]
         /\ \A i \in DOMAIN new.commits : \/ i \in DOMAIN now.commits
                                          \/ i = j /\ new.commits[i] = Revisions(new.contexts)
         /\ \A i, k, p : Wrote(now, k, p, i) => Wrote(new, k, p, i)
<1>1. j \notin DOMAIN now.commits
  BY DEF Revised, In
<1>2. \/ new.commits = now.commits
      \/ new.commits = Extend(now.commits, j, Revisions(new.contexts))
  BY DEF Publishes
<1>3. /\ \A i \in DOMAIN now.commits : /\ i # j /\ i \in DOMAIN new.commits
                                       /\ new.commits[i] = now.commits[i]
      /\ \A i \in DOMAIN new.commits : \/ i \in DOMAIN now.commits
                                       \/ i = j /\ new.commits[i] = Revisions(new.contexts)
  BY <1>1, <1>2 DEF Extend
<1> QED
  BY <1>3 DEF Wrote, Publishes

LEMMA PublishRevised ==
  ASSUME NEW now, Revised(now), Published(now), NEW j \in DOMAIN now.executions,
         now.executions[j] # "completed", NEW w, Copied(now, j, w),
         CanCommit(now.contexts, w, now.bases[j]), NEW new, Publishes(new, now, j, w)
  PROVE  Revised(new)
<1>1. \A k \in Contexts : /\ IsContext(new.contexts[k]) /\ new.contexts[k].revision \in Nat
                          /\ now.contexts[k].revision \in Nat
                          /\ new.contexts[k].revision >= now.contexts[k].revision
  <2> SUFFICES ASSUME NEW k \in Contexts
               PROVE  /\ IsContext(new.contexts[k]) /\ new.contexts[k].revision \in Nat
                      /\ now.contexts[k].revision \in Nat
                      /\ new.contexts[k].revision >= now.contexts[k].revision
    OBVIOUS
  <2>1. Carries(new, now, j, w, k)
    BY PublishCarries
  <2>2. IsContext(now.contexts[k])
    BY DEF Revised
  <2> QED
    BY <2>1, <2>2 DEF Carries, IsContext
<1>2. new.contexts = [k \in Contexts |-> new.contexts[k]]
  BY DEF Publishes, Committed
<1>3. \A i \in DOMAIN new.executions :
        /\ Node(i) \in NodeSet(workflow)
        /\ \A k \in Contexts : /\ new.bases[i][k] \in Nat
                               /\ new.bases[i][k] <= new.contexts[k].revision
  <2> SUFFICES ASSUME NEW i \in DOMAIN now.executions, NEW k \in Contexts
               PROVE  /\ Node(i) \in NodeSet(workflow) /\ now.bases[i][k] \in Nat
                      /\ now.bases[i][k] <= new.contexts[k].revision
    BY DEF Publishes, Revised
  <2>1. /\ Node(i) \in NodeSet(workflow) /\ now.bases[i][k] \in Nat
        /\ now.bases[i][k] <= now.contexts[k].revision
    BY DEF Revised
  <2> QED
    BY <1>1, <2>1
<1>4. \A i \in DOMAIN new.commits, k \in Contexts :
        new.commits[i][k] \in Nat /\ new.commits[i][k] <= new.contexts[k].revision
  <2> SUFFICES ASSUME NEW i \in DOMAIN new.commits, NEW k \in Contexts
               PROVE  new.commits[i][k] \in Nat /\ new.commits[i][k] <= new.contexts[k].revision
    OBVIOUS
  <2>1. CASE i \in DOMAIN now.commits
    <3>1. new.commits[i] = now.commits[i]
      BY <2>1, PublishCommits
    <3>2. now.commits[i][k] \in Nat /\ now.commits[i][k] <= now.contexts[k].revision
      BY <2>1 DEF Revised
    <3> QED
      BY <1>1, <3>1, <3>2
  <2>2. CASE new.commits[i] = Revisions(new.contexts)
    <3>1. new.commits[i][k] = new.contexts[k].revision
      BY <2>2 DEF Revisions
    <3> QED
      BY <1>1, <3>1
  <2> QED
    BY <2>1, <2>2, PublishCommits
<1>5. DOMAIN new.commits \subseteq In(new, "completed")
  <2>1. \A i \in DOMAIN new.commits : i \in DOMAIN now.commits \/ i = j
    BY PublishCommits
  <2> QED
    BY <2>1 DEF Revised, Publishes
<1>6. ASSUME NEW i \in In(new, "completed"), NEW k \in Contexts, Writes(i, k) # {}
      PROVE  i \in DOMAIN new.commits
  <2>1. CASE i \in In(now, "completed")
    <3>1. i \in DOMAIN now.commits
      BY <1>6, <2>1 DEF Revised
    <3> QED
      BY <3>1, PublishCommits
  <2>2. CASE i = j
    <3>1. PICK p \in Writes(j, k) : TRUE
      BY <1>6, <2>2
    <3> QED
      BY <2>2, <3>1, PublishCarries DEF Carries
  <2> QED
    BY <2>1, <2>2 DEF Publishes
<1>7. DOMAIN new.executions \subseteq DOMAIN new.bases
  BY DEF Revised, Publishes
<1> QED
  BY <1>1, <1>2, <1>3, <1>4, <1>5, <1>6, <1>7 DEF Revised

LEMMA PublishKeeps ==
  ASSUME NEW now, Revised(now), Published(now), NEW j \in DOMAIN now.executions,
         now.executions[j] # "completed", NEW w, Copied(now, j, w),
         CanCommit(now.contexts, w, now.bases[j]), NEW new, Publishes(new, now, j, w)
  PROVE  Published(new)
<1> SUFFICES ASSUME NEW k \in Contexts
             PROVE  LET y == new.contexts[k] IN
                    /\ \A p \in DOMAIN y.data : y.data[p] = Dict \/
                         \E i \in DOMAIN new.commits :
                           /\ y.data[p] = <<i>> /\ Wrote(new, k, p, i)
                           /\ Dated(y, p, new.commits[i][k])
                    /\ \A i \in In(new, "completed") : \A p \in Writes(i, k) :
                         \/ Holds(y.data, p, i)
                         \/ \E m \in DOMAIN new.commits :
                              /\ new.commits[m][k] > new.commits[i][k]
                              /\ new.bases[m][k] >= new.commits[i][k]
                              /\ \E q \in Writes(m, k) : PathsOverlap(p, q)
  BY DEF Published
<1> DEFINE x == now.contexts[k]
           y == new.contexts[k]
<1>1. Carries(new, now, j, w, k)
  BY PublishCarries
<1>2. y.data = w[k]
  BY <1>1 DEF Carries
<1>3. \A i \in DOMAIN now.commits :
        /\ i # j /\ i \in DOMAIN new.commits /\ new.commits[i] = now.commits[i]
        /\ now.commits[i][k] \in Nat /\ now.commits[i][k] <= x.revision
  BY PublishCommits DEF Revised
<1>4. x.revision \in Nat /\ new.bases = now.bases /\ now.bases[j][k] \in Nat
  BY DEF Revised, IsContext, Publishes
<1>5. ASSUME NEW p \in DOMAIN w[k], w[k][p] # Dict
      PROVE  \E i \in DOMAIN new.commits :
               /\ w[k][p] = <<i>> /\ Wrote(new, k, p, i) /\ Dated(y, p, new.commits[i][k])
  <2>1. CASE p \in Writes(j, k)
    <3>1. /\ j \in DOMAIN new.commits /\ new.commits[j][k] = y.revision
          /\ Dated(y, p, y.revision)
      BY <1>1, <2>1 DEF Carries
    <3>2. w[k][p] = <<j>>
      BY <2>1 DEF Copied, Holds
    <3>3. Wrote(new, k, p, j)
      BY <2>1, <3>1 DEF Wrote, Publishes
    <3> QED
      BY <3>1, <3>2, <3>3
  <2>2. CASE p \notin Writes(j, k)
    <3>1. PICK i \in DOMAIN now.commits : w[k][p] = <<i>> /\ Wrote(now, k, p, i)
      BY <1>5, <2>2 DEF Copied
    <3>2. Holds(x.data, p, i)
      BY <1>1, <3>1 DEF Carries, Holds
    <3>3. Dated(x, p, now.commits[i][k])
      <4>1. x.data[p] # Dict /\ p \in DOMAIN x.data /\ x.data[p] = <<i>>
        BY <3>2 DEF Holds, Dict
      <4>2. PICK m \in DOMAIN now.commits :
              x.data[p] = <<m>> /\ Dated(x, p, now.commits[m][k])
        BY <4>1 DEF Published
      <4>3. m = i
        BY <4>1, <4>2
      <4> QED
        BY <4>2, <4>3
    <3>4. Dated(y, p, now.commits[i][k])
      BY <1>1, <1>3, <3>3 DEF Carries
    <3> QED
      BY <1>3, <3>1, <3>4, PublishCommits
  <2> QED
    BY <2>1, <2>2
<1>6. ASSUME NEW i \in In(new, "completed"), NEW p \in Writes(i, k), ~Holds(y.data, p, i)
      PROVE  \E m \in DOMAIN new.commits :
               /\ new.commits[m][k] > new.commits[i][k] /\ new.bases[m][k] >= new.commits[i][k]
               /\ \E q \in Writes(m, k) : PathsOverlap(p, q)
  <2>1. i # j
    BY <1>2, <1>6 DEF Copied
  <2>2. i \in In(now, "completed") /\ i \in DOMAIN now.commits
    BY <2>1 DEF Publishes, Revised
  <2>3. CASE Holds(x.data, p, i)
    <3>1. Differs(x.data, w[k], p)
      BY <1>2, <1>6, <2>3 DEF Differs, Holds
    <3>2. Dated(x, p, now.commits[i][k])
      <4>1. x.data[p] # Dict /\ p \in DOMAIN x.data /\ x.data[p] = <<i>>
        BY <2>3 DEF Holds, Dict
      <4>2. PICK m \in DOMAIN now.commits :
              x.data[p] = <<m>> /\ Dated(x, p, now.commits[m][k])
        BY <4>1 DEF Published
      <4>3. m = i
        BY <4>1, <4>2
      <4> QED
        BY <4>2, <4>3
    <3>3. /\ y.revision = x.revision + 1 /\ j \in DOMAIN new.commits
          /\ new.commits[j][k] = y.revision /\ now.commits[i][k] <= now.bases[j][k]
      BY <1>1, <1>3, <2>2, <3>1, <3>2 DEF Carries
    <3>4. \E q \in Writes(j, k) : PathsOverlap(p, q)
      <4>1. p \in DOMAIN x.data /\ ~Holds(w[k], p, i)
        BY <1>2, <1>6, <2>3 DEF Holds
      <4> QED
        BY <2>2, <2>3, <3>3, <4>1 DEF Copied
    <3>5. new.commits[j][k] > new.commits[i][k] /\ new.bases[j][k] >= new.commits[i][k]
      <4>1. /\ new.commits[i][k] = now.commits[i][k] /\ now.commits[i][k] \in Nat
            /\ now.commits[i][k] <= x.revision
        BY <1>3, <2>2
      <4> HIDE DEF x, y
      <4> QED
        BY <1>4, <3>3, <4>1
    <3> QED
      BY <3>3, <3>4, <3>5
  <2>4. CASE ~Holds(x.data, p, i)
    <3>1. PICK m \in DOMAIN now.commits :
            /\ now.commits[m][k] > now.commits[i][k] /\ now.bases[m][k] >= now.commits[i][k]
            /\ \E q \in Writes(m, k) : PathsOverlap(p, q)
      BY <2>2, <2>4 DEF Published
    <3> QED
      BY <1>3, <1>4, <2>2, <3>1
  <2> QED
    BY <2>3, <2>4
<1> QED
  BY <1>2, <1>5, <1>6

(* The copies of other bindings stay what they are.                        *)
LEMMA PublishCopied ==
  ASSUME NEW now, Revised(now), Published(now), NEW j \in DOMAIN now.executions,
         now.executions[j] # "completed", NEW w, Copied(now, j, w),
         CanCommit(now.contexts, w, now.bases[j]), NEW new, Publishes(new, now, j, w),
         NEW m \in DOMAIN now.executions, NEW v, Copied(now, m, v)
  PROVE  Copied(new, m, v)
<1> SUFFICES ASSUME NEW k \in Contexts
    PROVE  LET y == new.contexts[k] IN
           /\ Tree(v[k])
           /\ \A p \in Writes(m, k) : Holds(v[k], p, m)
           /\ \A p \in DOMAIN v[k] : \/ v[k][p] = Dict
                                     \/ p \in Writes(m, k)
                                     \/ \E i \in DOMAIN new.commits :
                                          /\ v[k][p] = <<i>> /\ Wrote(new, k, p, i)
                                          /\ Holds(y.data, p, i) \/ Dated(y, p, new.bases[m][k] + 1)
           /\ \A i \in DOMAIN new.commits : \A p \in DOMAIN y.data :
                Holds(y.data, p, i) /\ new.commits[i][k] <= new.bases[m][k] =>
                  Holds(v[k], p, i) \/ \E q \in Writes(m, k) : PathsOverlap(p, q)
  BY DEF Copied
<1> DEFINE x == now.contexts[k]
           y == new.contexts[k]
           base == now.bases[m][k]
<1>1. Carries(new, now, j, w, k)
  BY PublishCarries
<1>2. y.data = w[k] /\ new.bases = now.bases
  BY <1>1 DEF Carries, Publishes
<1>3. base \in Nat /\ base <= x.revision /\ x.revision \in Nat
  BY DEF Revised, IsContext
<1>4. ASSUME NEW p \in DOMAIN v[k], v[k][p] # Dict, p \notin Writes(m, k)
      PROVE  \E i \in DOMAIN new.commits :
               /\ v[k][p] = <<i>> /\ Wrote(new, k, p, i)
               /\ Holds(w[k], p, i) \/ Dated(y, p, base + 1)
  <2>1. PICK i \in DOMAIN now.commits :
          /\ v[k][p] = <<i>> /\ Wrote(now, k, p, i)
          /\ Holds(x.data, p, i) \/ Dated(x, p, base + 1)
    BY <1>4 DEF Copied
  <2>2. ASSUME Dated(x, p, base + 1) PROVE Dated(y, p, base + 1)
    <3>1. base + 1 \in Nat
      BY <1>3
    <3> QED
      BY <1>1, <2>2, <3>1 DEF Carries
  <2>3. ASSUME Holds(x.data, p, i), ~Holds(w[k], p, i) PROVE Dated(y, p, base + 1)
    <3>1. Differs(x.data, w[k], p)
      BY <2>3 DEF Differs, Holds
    <3>2. y.revision = x.revision + 1 /\ Dated(y, p, y.revision)
      BY <1>1, <3>1 DEF Carries
    <3>3. PICK q \in DOMAIN y.paths : IsPrefix(q, p) /\ y.paths[q] >= y.revision
      BY <3>2 DEF Dated
    <3>4. y.paths[q] \in Nat
      BY <1>1 DEF Carries, IsContext
    <3>5. y.paths[q] >= base + 1
      <4> HIDE DEF x, y, base
      <4> QED
        BY <1>3, <3>2, <3>3, <3>4
    <3> QED
      BY <3>3, <3>5 DEF Dated
  <2>4. i \in DOMAIN new.commits /\ Wrote(new, k, p, i)
    BY <2>1, PublishCommits
  <2> QED
    BY <2>1, <2>2, <2>3, <2>4
<1>5. ASSUME NEW i \in DOMAIN new.commits, NEW p \in DOMAIN w[k], Holds(w[k], p, i),
             new.commits[i][k] <= base
      PROVE  Holds(v[k], p, i) \/ \E q \in Writes(m, k) : PathsOverlap(p, q)
  <2>1. p \notin Writes(j, k)
    <3> SUFFICES ASSUME p \in Writes(j, k) PROVE FALSE
      OBVIOUS
    <3>1. w[k][p] = <<j>> /\ w[k][p] = <<i>>
      BY <1>5 DEF Copied, Holds
    <3>2. i = j
      BY <3>1
    <3>3. y.revision = x.revision + 1 /\ new.commits[j][k] = y.revision
      BY <1>1 DEF Carries
    <3> HIDE DEF x, y, base
    <3> QED
      BY <1>3, <1>5, <3>2, <3>3
  <2>2. PICK n \in DOMAIN now.commits : w[k][p] = <<n>> /\ Wrote(now, k, p, n)
    <3>1. w[k][p] # Dict
      BY <1>5 DEF Holds, Dict
    <3> QED
      BY <2>1, <3>1 DEF Copied
  <2>3. n = i
    BY <1>5, <2>2 DEF Holds
  <2>4. Holds(x.data, p, i)
    BY <1>1, <1>5, <2>2, <2>3 DEF Carries
  <2>5. i \in DOMAIN now.commits /\ now.commits[i] = new.commits[i] /\ p \in DOMAIN x.data
    BY <2>2, <2>3, <2>4, PublishCommits DEF Holds
  <2> QED
    BY <1>5, <2>4, <2>5 DEF Copied
<1>6. Tree(v[k]) /\ \A p \in Writes(m, k) : Holds(v[k], p, m)
  BY DEF Copied
<1> QED
  BY <1>2, <1>4, <1>5, <1>6

LEMMA PublishSane ==
  ASSUME NEW now, NEW copies, Sane(now, copies), NEW j \in DOMAIN now.executions,
         now.executions[j] # "completed", j \notin DOMAIN copies, NEW w, Copied(now, j, w),
         CanCommit(now.contexts, w, now.bases[j]), NEW new, Publishes(new, now, j, w)
  PROVE  Sane(new, copies)
<1>1. Revised(now) /\ Published(now)
  BY DEF Sane
<1>2. Revised(new) /\ Published(new)
  BY <1>1, PublishRevised, PublishKeeps
<1>3. ASSUME NEW m \in DOMAIN copies
      PROVE  /\ m \in DOMAIN new.executions /\ new.executions[m] # "completed"
             /\ Copied(new, m, copies[m])
  <2>1. m \in DOMAIN now.executions /\ m \notin In(now, "completed") /\ m # j
    BY DEF Sane, In
  <2>2. m \in DOMAIN new.executions /\ m \notin In(new, "completed")
    BY <2>1 DEF Publishes
  <2>3. Copied(new, m, copies[m])
    BY <1>1, <2>1, PublishCopied DEF Sane
  <2> QED
    BY <2>2, <2>3 DEF In
<1> QED
  BY <1>2, <1>3 DEF Sane

(* A step that publishes nothing.                                          *)
Leaves(new, now) ==
  /\ new.contexts = now.contexts /\ new.commits = now.commits
  /\ In(new, "completed") = In(now, "completed")
  /\ DOMAIN now.executions \subseteq DOMAIN new.executions
  /\ DOMAIN now.executions \subseteq DOMAIN now.bases =>
       DOMAIN new.executions \subseteq DOMAIN new.bases
  /\ \A i \in DOMAIN now.executions : new.bases[i] = now.bases[i]
  /\ \A i \in DOMAIN new.executions \ DOMAIN now.executions :
       new.bases[i] = Revisions(now.contexts) /\ Node(i) \in NodeSet(workflow)

LEMMA LeavesSane ==
  ASSUME NEW now, NEW copies, Sane(now, copies), NEW new, Leaves(new, now)
  PROVE  Sane(new, copies)
<1>1. Revised(now) /\ Published(now)
  BY DEF Sane
<1>2. In(now, "completed") \subseteq DOMAIN now.executions
      /\ DOMAIN now.commits \subseteq DOMAIN now.executions
  BY <1>1 DEF Revised, In
<1>3. Revised(new)
  <2>1. ASSUME NEW i \in DOMAIN new.executions
        PROVE  /\ Node(i) \in NodeSet(workflow)
               /\ \A k \in Contexts : /\ new.bases[i][k] \in Nat
                                      /\ new.bases[i][k] <= new.contexts[k].revision
    <3>1. CASE i \in DOMAIN now.executions
      BY <1>1, <3>1 DEF Revised, Leaves
    <3>2. CASE i \notin DOMAIN now.executions
      <4>1. \A k \in Contexts : new.bases[i][k] = new.contexts[k].revision
        <5>1. new.bases[i] = Revisions(new.contexts)
          BY <3>2 DEF Leaves
        <5> QED
          BY <5>1 DEF Revisions
      <4>2. \A k \in Contexts : new.contexts[k].revision \in Nat
        BY <1>1 DEF Leaves, Revised, IsContext
      <4> QED
        BY <3>2, <4>1, <4>2 DEF Leaves
    <3> QED
      BY <3>1, <3>2
  <2> QED
    BY <1>1, <2>1 DEF Revised, Leaves
<1>4. \A i, k, p : Wrote(new, k, p, i) <=> Wrote(now, k, p, i)
  BY DEF Wrote, Leaves
<1>5. Published(new)
  <2>1. \A j \in DOMAIN now.commits : new.bases[j] = now.bases[j]
    BY <1>2 DEF Leaves
  <2> QED
    BY <1>1, <1>4, <2>1 DEF Published, Leaves
<1>6. ASSUME NEW m \in DOMAIN copies
      PROVE  /\ m \in DOMAIN new.executions /\ new.executions[m] # "completed"
             /\ Copied(new, m, copies[m])
  <2>1. /\ m \in DOMAIN now.executions /\ m \notin In(now, "completed")
        /\ Copied(now, m, copies[m])
    BY DEF Sane, In
  <2>2. m \in DOMAIN new.executions /\ new.executions[m] # "completed"
        /\ new.bases[m] = now.bases[m]
    <3>1. m \in DOMAIN new.executions /\ m \notin In(new, "completed")
      BY <2>1 DEF Leaves
    <3> QED
      BY <2>1, <3>1 DEF Leaves, In
  <2>3. Copied(new, m, copies[m])
    BY <1>4, <2>1, <2>2 DEF Copied, Leaves
  <2> QED
    BY <2>2, <2>3
<1> QED
  BY <1>3, <1>5, <1>6 DEF Sane

LEMMA WritesAre ==
  ASSUME WorkflowKnown, NEW n \in NodeSet(workflow), NEW k \in Contexts
  PROVE  /\ policy.writes[n][k] \subseteq Paths \ {<<>>}
         /\ Separate(policy.writes[n][k])
<1>1. PICK w \in Workflows : \E entry \in EntryNodes(w.graph) : workflow = Invoked(w, entry)
  BY DEF WorkflowKnown
<1>2. PICK entry \in EntryNodes(w.graph) : workflow = Invoked(w, entry)
  BY <1>1
<1>3. policy = w.policy /\ workflow.nodes = w.graph.nodes
  BY <1>2 DEF policy, Invoked, Compiled
<1>4. NodeSet(workflow) = NodeSet(w.graph)
  BY <1>3 DEF NodeSet
<1> QED
  BY <1>3, <1>4, WorkflowsAssumption DEF Separate

(* A binding begins with what is there.                                    *)
LEMMA CopiesCopied ==
  ASSUME WorkflowKnown, NEW now, Revised(now), Published(now),
         NEW i \in DOMAIN now.executions
  PROVE  Copied(now, i, Copies(now, i))
<1> DEFINE w == Copies(now, i)
<1> SUFFICES ASSUME NEW k \in Contexts
             PROVE  LET x == now.contexts[k] IN
                    /\ Tree(w[k])
                    /\ \A p \in Writes(i, k) : Holds(w[k], p, i)
                    /\ \A p \in DOMAIN w[k] :
                         \/ w[k][p] = Dict
                         \/ p \in Writes(i, k)
                         \/ \E j \in DOMAIN now.commits :
                              /\ w[k][p] = <<j>> /\ Wrote(now, k, p, j)
                              /\ Holds(x.data, p, j) \/ Dated(x, p, now.bases[i][k] + 1)
                    /\ \A j \in DOMAIN now.commits : \A p \in DOMAIN x.data :
                         Holds(x.data, p, j) /\ now.commits[j][k] <= now.bases[i][k] =>
                           Holds(w[k], p, j) \/ \E q \in Writes(i, k) : PathsOverlap(p, q)
  BY DEF Copied
<1> DEFINE d == now.contexts[k].data
           paths == Writes(i, k)
<1>1. w[k] = PutAll(d, paths, i)
  BY DEF Copies, Writes
<1>2. paths \subseteq Paths \ {<<>>} /\ Separate(paths)
  BY WritesAre DEF Revised, Writes
<1>3. Tree(d)
  BY DEF Revised, IsContext
<1> HIDE DEF w, paths, d
<1>4. Puts(w[k], d, paths, i)
  BY <1>1, <1>2, <1>3, PutAllIs
<1>5. ASSUME NEW p \in DOMAIN w[k], w[k][p] # Dict, p \notin paths
      PROVE  \E j \in DOMAIN now.commits :
               w[k][p] = <<j>> /\ Wrote(now, k, p, j) /\ Holds(d, p, j)
  <2>1. p \in DOMAIN d /\ w[k][p] = d[p]
    BY <1>4, <1>5 DEF Puts
  <2>2. PICK j \in DOMAIN now.commits : d[p] = <<j>> /\ Wrote(now, k, p, j)
    BY <1>5, <2>1 DEF Published, d
  <2> QED
    BY <2>1, <2>2 DEF Holds
<1>6. ASSUME NEW j \in DOMAIN now.commits, NEW p \in DOMAIN d, Holds(d, p, j)
      PROVE  Holds(w[k], p, j) \/ \E q \in paths : PathsOverlap(p, q)
  <2>1. d[p] = <<j>> /\ d[p] # Dict
    BY <1>6 DEF Holds, Dict
  <2> QED
    BY <1>4, <2>1 DEF Holds, Puts
<1>7. \A p \in paths : Holds(w[k], p, i)
  BY <1>4 DEF Holds, Puts
<1> QED
  BY <1>4, <1>5, <1>6, <1>7 DEF paths, d, Puts

LEMMA DocumentsLeave ==
  ASSUME NEW now, NEW new, SameDocuments(new, now),
         DOMAIN new.executions = DOMAIN now.executions,
         In(new, "completed") = In(now, "completed")
  PROVE  Leaves(new, now)
BY DEF Leaves, SameDocuments

LEMMA EndSane ==
  ASSUME NEW now, Typed(now), NEW copies, Sane(now, copies),
         NEW i \in DOMAIN now.executions, now.executions[i] # "completed",
         NEW end, end # "completed"
  PROVE  Sane(EndNode(now, i, end), copies)
<1> DEFINE new == EndNode(now, i, end)
<1>1. Ends(new, now, i, end)
  BY EndNodeIs
<1> HIDE DEF new
<1>2. new.executions = Replace(now.executions, i, end) /\ SameDocuments(new, now)
  BY <1>1 DEF Ends, SameDocuments
<1>3. In(new, "completed") = In(now, "completed") /\ DOMAIN new.executions = DOMAIN now.executions
  BY <1>2 DEF In, Replace
<1>4. Leaves(new, now)
  BY <1>2, <1>3, DocumentsLeave
<1> QED
  BY <1>4, LeavesSane DEF new

LEMMA ConcludeSane ==
  ASSUME NEW now, Typed(now), NEW copies, Sane(now, copies),
         NEW i \in DOMAIN now.executions, now.executions[i] # "completed",
         i \notin DOMAIN copies, NEW w, Copied(now, i, w), NEW fate
  PROVE  Sane(Conclude(now, i, w, fate), copies)
<1>1. CASE fate = "bound" /\ CanCommit(now.contexts, w, now.bases[i])
  <2> DEFINE all == Committed(now.contexts, w)
             made == IF all = now.contexts THEN now.commits
                     ELSE Extend(now.commits, i, Revisions(all))
             base == [now EXCEPT !.contexts = all, !.commits = made]
             new == EndNode(base, i, "completed")
  <2>1. Conclude(now, i, w, fate) = new
    <3>1. Bind(now, i, w) = base
      BY DEF Bind
    <3> HIDE DEF base
    <3> QED
      BY <1>1, <3>1 DEF Conclude
  <2> HIDE DEF all, made
  <2>3. /\ Typed(base) /\ base.contexts = all /\ base.commits = made
        /\ base.bases = now.bases /\ base.executions = now.executions
    BY DEF Typed, Record
  <2> HIDE DEF base
  <2>4. Ends(new, base, i, "completed")
    BY <2>3, EndNodeIs
  <2> HIDE DEF new
  <2>5. /\ new.contexts = all /\ new.commits = made /\ new.bases = now.bases
        /\ new.executions = Replace(now.executions, i, "completed")
    BY <2>3, <2>4 DEF Ends
  <2>6. In(new, "completed") = In(now, "completed") \cup {i}
        /\ DOMAIN new.executions = DOMAIN now.executions
    BY <2>5 DEF In, Replace
  <2>7. Publishes(new, now, i, w)
    BY <2>5, <2>6 DEF Publishes, all, made
  <2> QED
    BY <1>1, <2>1, <2>7, PublishSane
<1>2. CASE ~(fate = "bound" /\ CanCommit(now.contexts, w, now.bases[i]))
  <2>1. Conclude(now, i, w, fate) = EndNode(now, i, "failed")
    BY <1>2 DEF Conclude
  <2> QED
    BY <2>1, EndSane
<1> QED
  BY <1>1, <1>2

-----------------------------------------------------------------------------
(* Until the process crashes, the executions that run are those whose      *)
(* tasks are tracked or whose answers are in the mailbox, and those that   *)
(* wait are under a key or being resumed.                                  *)
Answered == {m[1] : m \in Range(mailbox)}

Tracked(now, tasks, resumed) ==
  /\ now.mode = "normal"
  /\ In(now, "running") = tasks
  /\ Range(now.waits) = In(now, "waiting") \ resumed
  /\ \A k, l \in DOMAIN now.waits : now.waits[k] = now.waits[l] => k = l
  /\ \A i \in resumed : i \in DOMAIN now.executions /\ now.executions[i] # "running"

(* A failure is still to be routed, or was put off.                        *)
Answers == {"running", "waiting", "completed", "failed"}
FailuresKept(now) ==
  \A i \in DOMAIN now.executions :
    /\ now.executions[i] \in Answers
    /\ now.executions[i] = "failed" =>
         i \in Range(now.transitions) \/ now.deferred = "failed"

AllCompleted(now) ==
  \A i \in now.cursor.scheduled :
    i \in DOMAIN now.executions /\ now.executions[i] = "completed"

(* What else holds where one driver runs at a time.                        *)
OneDriver ==
  /\ resuming = <<>> /\ drivers \in {0, 1}
  /\ state \in UnfinishedStates \cup TerminalStates
  /\ state = "created" => DOMAIN executions = {} /\ drivers = 1
  /\ state = "running" => drivers = 1
  /\ state = "waiting" => drivers = 1 \/ ~Failed(cursor)
  /\ state \in UnfinishedStates => Failed(cursor) \/ FailuresKept(inv)
  /\ state \in TerminalStates => drivers = 0 /\ TerminalQuiet
  /\ state = "completed" => AllCompleted(inv)

DriverHolds ==
  /\ Typed(inv) /\ Sequence(mailbox)
  /\ Tracked(inv, working \cup Answered, DOMAIN resuming)
  /\ working \cap Answered = {}
  /\ \A k, l \in DOMAIN mailbox : mailbox[k][1] = mailbox[l][1] => k = l
  /\ Sane(inv, resuming)
  /\ Exclusive => OneDriver

-----------------------------------------------------------------------------
(* Steps of the driver as long as no recovery has begun.                   *)

(* An execution is created, and runs or has failed at once.                *)
Begins(after, acc, i, fate) ==
  /\ Accumulates(after) /\ Typed(after.inv)
  /\ after.inv.mode = acc.inv.mode /\ after.inv.deferred = acc.inv.deferred
  /\ after.inv.waits = acc.inv.waits /\ after.inv.state = "running"
  /\ after.inv.cursor = Scheduled(acc.inv.cursor, i)
  /\ after.inv.replays = Extend(acc.inv.replays, i, Attempt(acc.inv, i))
  /\ after.inv.executions =
       Extend(acc.inv.executions, i, IF fate = "mapped" THEN "running" ELSE "failed")
  /\ Range(after.inv.transitions) =
       Range(acc.inv.transitions) \cup (IF fate = "mapped" THEN {} ELSE {i})
  /\ after.jobs = acc.jobs \cup (IF fate = "mapped" THEN {i} ELSE {})
  /\ after.returned = acc.returned
  /\ after.inv.contexts = acc.inv.contexts /\ after.inv.commits = acc.inv.commits
  /\ after.inv.bases = Extend(acc.inv.bases, i, Revisions(acc.inv.contexts))

LEMMA BeginIs ==
  ASSUME NEW acc, Accumulates(acc), Typed(acc.inv), NEW i,
         NEW fate \in {"mapped", "unmapped", "overspent"}
  PROVE  Begins(Begin(acc, i, fate), acc, i, fate)
<1> DEFINE first == [acc EXCEPT !.inv.executions = Extend(@, i, "running"),
                    !.inv.replays = Extend(@, i, Attempt(acc.inv, i)),
                    !.inv.bases = Extend(@, i, Revisions(acc.inv.contexts)),
                    !.inv.cursor = Scheduled(@, i),
                    !.inv.state = "running"]
           running == SaveIfFull(first, {i})
           failed == [running EXCEPT !.inv = EndNode(@, i, "failed")]
           after == Begin(acc, i, fate)
<1>1. /\ Accumulates(first) /\ first.jobs = acc.jobs /\ first.returned = acc.returned
      /\ first.inv.mode = acc.inv.mode /\ first.inv.deferred = acc.inv.deferred
      /\ first.inv.waits = acc.inv.waits /\ first.inv.state = "running"
      /\ first.inv.cursor = Scheduled(acc.inv.cursor, i)
      /\ first.inv.replays = Extend(acc.inv.replays, i, Attempt(acc.inv, i))
      /\ first.inv.executions = Extend(acc.inv.executions, i, "running")
      /\ first.inv.transitions = acc.inv.transitions
      /\ first.inv.contexts = acc.inv.contexts /\ first.inv.commits = acc.inv.commits
      /\ first.inv.bases = Extend(acc.inv.bases, i, Revisions(acc.inv.contexts))
  BY DEF Accumulates, Record
<1>3. after = CASE fate = "mapped" -> [running EXCEPT !.jobs = @ \cup {i}]
                [] fate = "unmapped" -> Save(failed, {i})
                [] fate = "overspent" -> failed
  BY DEF Begin
<1> HIDE DEF first, after
<1>2. Typed(first.inv)
  BY <1>1 DEF Typed, Accumulates, Function, Extend
<1>4. SameButSaved(running, first)
  BY <1>1, SaveIs
<1> HIDE DEF running
<1>5. Accumulates(running) /\ running.inv = first.inv /\ running.jobs = acc.jobs
      /\ running.returned = acc.returned
  BY <1>1, <1>4 DEF SameButSaved
<1>6. CASE fate = "mapped"
  <2>1. after = [running EXCEPT !.jobs = @ \cup {i}]
    BY <1>3, <1>6
  <2>2. /\ Accumulates(after) /\ after.inv = first.inv /\ after.jobs = acc.jobs \cup {i}
        /\ after.returned = acc.returned
    BY <1>5, <2>1 DEF Accumulates
  <2> QED
    BY <1>1, <1>2, <1>6, <2>2 DEF after, Begins
<1>7. CASE fate # "mapped"
  <2> DEFINE end == EndNode(first.inv, i, "failed")
  <2>1. /\ Typed(end) /\ end.cursor = first.inv.cursor /\ end.replays = first.inv.replays
        /\ end.state = first.inv.state /\ end.deferred = first.inv.deferred
        /\ end.mode = first.inv.mode /\ end.waits = first.inv.waits
        /\ end.executions = Replace(first.inv.executions, i, "failed")
        /\ Range(end.transitions) = Range(first.inv.transitions) \cup {i}
        /\ end.contexts = first.inv.contexts /\ end.commits = first.inv.commits
        /\ end.bases = first.inv.bases
    <3>1. Ends(end, first.inv, i, "failed")
      BY <1>2, EndNodeIs
    <3> QED
      BY <3>1 DEF Ends
  <2>2. end.executions = Extend(acc.inv.executions, i, "failed")
    BY <1>1, <2>1 DEF Extend, Replace
  <2> HIDE DEF end
  <2>3. failed = [running EXCEPT !.inv = end]
    BY <1>5 DEF end
  <2>4. /\ Accumulates(failed) /\ failed.inv = end /\ failed.jobs = acc.jobs
        /\ failed.returned = acc.returned
    BY <1>5, <2>1, <2>3 DEF Accumulates, Typed
  <2> HIDE DEF failed
  <2>5. SameButSaved(Save(failed, {i}), failed) /\ SameButSaved(failed, failed)
    BY <2>4, SaveIs DEF SameButSaved
  <2>6. after = Save(failed, {i}) \/ after = failed
    BY <1>3, <1>7
  <2>7. Accumulates(after) /\ after.inv = end /\ after.jobs = acc.jobs
        /\ after.returned = acc.returned
    BY <2>4, <2>5, <2>6 DEF SameButSaved
  <2> QED
    BY <1>1, <1>7, <2>1, <2>2, <2>7 DEF after, Begins
<1> QED
  BY <1>6, <1>7

(* A node that ends outside of a recovery: one that ran, or one resumed.   *)
LEMMA AnswerTracked ==
  ASSUME NEW now, Typed(now), NEW tasks, NEW resumed, Tracked(now, tasks, resumed),
         NEW i \in tasks, NEW end \in {"completed", "failed", "waiting"},
         end = "waiting" => ~KeyInUse(now, i)
  PROVE  Tracked(EndNode(now, i, end), tasks \ {i}, resumed)
<1> DEFINE after == EndNode(now, i, end)
<1>1. /\ after.executions = Replace(now.executions, i, end) /\ after.mode = now.mode
      /\ end = "waiting" => after.waits = Extend(now.waits, policy.keys[Node(i)], i)
      /\ end # "waiting" => after.waits = now.waits
  BY EndNodeIs DEF Ends
<1> HIDE DEF after
<1>2. i \in DOMAIN now.executions /\ now.executions[i] = "running"
  BY DEF Tracked, In
<1>3. /\ In(after, "running") = In(now, "running") \ {i}
      /\ In(after, "waiting") = In(now, "waiting") \cup (IF end = "waiting" THEN {i} ELSE {})
  BY <1>1, <1>2 DEF In, Replace
<1>4. i \notin resumed /\ i \notin Range(now.waits)
  BY <1>2 DEF Tracked, In
<1>5. /\ Range(after.waits) = In(after, "waiting") \ resumed
      /\ \A k, l \in DOMAIN after.waits : after.waits[k] = after.waits[l] => k = l
  <2>1. CASE end # "waiting"
    BY <1>1, <1>3, <2>1 DEF Tracked
  <2>2. CASE end = "waiting"
    <3> DEFINE key == policy.keys[Node(i)]
    <3>1. key \notin DOMAIN now.waits
      BY <2>2 DEF KeyInUse
    <3>2. after.waits = Extend(now.waits, key, i)
      BY <1>1, <2>2
    <3> HIDE DEF key
    <3>3. Range(after.waits) = Range(now.waits) \cup {i}
      BY <3>1, <3>2 DEF Range, Extend
    <3>4. \A k \in DOMAIN now.waits : now.waits[k] # i
      BY <1>4 DEF Range
    <3>5. \A k, l \in DOMAIN after.waits : after.waits[k] = after.waits[l] => k = l
      BY <3>1, <3>2, <3>4 DEF Extend, Tracked
    <3> QED
      BY <1>3, <1>4, <2>2, <3>3, <3>5 DEF Tracked
  <2> QED
    BY <2>1, <2>2
<1>6. \A j \in resumed : j \in DOMAIN after.executions /\ after.executions[j] # "running"
  BY <1>1, <1>4 DEF Tracked, Replace
<1> QED
  BY <1>1, <1>3, <1>5, <1>6 DEF Tracked, after

LEMMA ResumedTracked ==
  ASSUME NEW now, Typed(now), NEW tasks, NEW resumed, Tracked(now, tasks, resumed),
         NEW i \in resumed, NEW end \in {"completed", "failed"}
  PROVE  Tracked(EndNode(now, i, end), tasks, resumed \ {i})
<1> DEFINE after == EndNode(now, i, end)
<1>1. /\ after.executions = Replace(now.executions, i, end) /\ after.mode = now.mode
      /\ after.waits = now.waits
  BY EndNodeIs DEF Ends
<1> HIDE DEF after
<1>2. i \in DOMAIN now.executions /\ now.executions[i] # "running"
  BY DEF Tracked
<1>3. /\ In(after, "running") = In(now, "running")
      /\ In(after, "waiting") = In(now, "waiting") \ {i}
  BY <1>1, <1>2 DEF In, Replace
<1>4. \A j \in resumed : j \in DOMAIN after.executions
                          /\ (j # i => after.executions[j] # "running")
  BY <1>1 DEF Tracked, Replace
<1> QED
  BY <1>1, <1>3, <1>4 DEF Tracked, after

(* A request is submitted: before is the Invocation as the driver found    *)
(* it, rest are the instances that it has not handed out.                  *)
Submits(acc, before, tasks, copies, rest) ==
  /\ Accumulates(acc) /\ Typed(acc.inv)
  /\ Tracked(acc.inv, tasks \cup acc.jobs, DOMAIN copies)
  /\ acc.jobs \cap DOMAIN before.executions = {}
  /\ DOMAIN before.executions \subseteq DOMAIN acc.inv.executions
  /\ ~acc.returned => rest \cap DOMAIN acc.inv.executions = {}
  /\ acc.inv.state \in {before.state, "running"}
  /\ FailuresKept(before) => FailuresKept(acc.inv)
  /\ Sane(acc.inv, copies) /\ \A i \in rest : Node(i) \in NodeSet(workflow)

LEMMA SubmitOneIs ==
  ASSUME NEW acc, NEW before, NEW tasks, NEW copies, NEW rest,
         Submits(acc, before, tasks, copies, rest),
         NEW i \in rest, NEW fate \in {"mapped", "unmapped", "overspent"},
         NEW left, left \subseteq rest \ {i}
  PROVE  Submits(SubmitOne(acc, i, fate), before, tasks, copies, left)
<1> DEFINE after == SubmitOne(acc, i, fate)
<1>0. Accumulates(acc) /\ Typed(acc.inv) /\ Tracked(acc.inv, tasks \cup acc.jobs, DOMAIN copies)
  BY DEF Submits
<1>1. ~Forbidden(acc.inv, i)
  BY <1>0 DEF Forbidden, Tracked
<1>2. CASE acc.returned
  <2>1. after = acc
    BY <1>2 DEF SubmitOne
  <2> HIDE DEF after
  <2> QED
    BY <1>2, <2>1 DEF Submits, after
<1>3. CASE ~acc.returned /\ OverLimit(acc.inv, i)
  <2>1. after = [acc EXCEPT !.inv.cursor = Fail(@, "RESOURCE_LIMIT_EXCEEDED"), !.returned = TRUE]
    BY <1>1, <1>3 DEF SubmitOne
  <2> HIDE DEF after
  <2>2. /\ Accumulates(after) /\ after.jobs = acc.jobs /\ after.returned
        /\ after.inv.mode = acc.inv.mode /\ after.inv.executions = acc.inv.executions
        /\ after.inv.waits = acc.inv.waits /\ after.inv.state = acc.inv.state
        /\ after.inv.transitions = acc.inv.transitions /\ after.inv.deferred = acc.inv.deferred
        /\ SameDocuments(after.inv, acc.inv)
    BY <1>0, <2>1 DEF Accumulates, Record, SameDocuments
  <2>3. Typed(after.inv)
    BY <1>0, <2>2 DEF Typed, Accumulates
  <2>4. Tracked(after.inv, tasks \cup after.jobs, DOMAIN copies)
    BY <1>0, <2>2 DEF Tracked, In
  <2>5. FailuresKept(acc.inv) => FailuresKept(after.inv)
    BY <2>2 DEF FailuresKept
  <2>6. Sane(after.inv, copies)
    <3>1. Leaves(after.inv, acc.inv)
      BY <2>2, DocumentsLeave DEF In
    <3> QED
      BY <3>1, LeavesSane DEF Submits
  <2> QED
    BY <2>2, <2>3, <2>4, <2>5, <2>6 DEF Submits, after
<1>4. CASE ~acc.returned /\ ~OverLimit(acc.inv, i)
  <2>1. after = Begin(acc, i, fate)
    BY <1>1, <1>4 DEF SubmitOne
  <2> HIDE DEF after
  <2>2. Begins(after, acc, i, fate)
    BY <1>0, <2>1, BeginIs
  <2> DEFINE begun == IF fate = "mapped" THEN "running" ELSE "failed"
             new == IF fate = "mapped" THEN {i} ELSE {}
  <2>3. /\ Accumulates(after) /\ Typed(after.inv) /\ after.inv.mode = acc.inv.mode
        /\ after.inv.deferred = acc.inv.deferred /\ after.inv.waits = acc.inv.waits
        /\ after.inv.state = "running" /\ after.returned = acc.returned
        /\ after.inv.executions = Extend(acc.inv.executions, i, begun)
        /\ after.jobs = acc.jobs \cup new
        /\ Range(after.inv.transitions) =
             Range(acc.inv.transitions) \cup (IF fate = "mapped" THEN {} ELSE {i})
        /\ after.inv.contexts = acc.inv.contexts /\ after.inv.commits = acc.inv.commits
        /\ after.inv.bases = Extend(acc.inv.bases, i, Revisions(acc.inv.contexts))
    BY <2>2 DEF Begins
  <2>4. begun \in {"running", "failed"} /\ (begun = "running" <=> fate = "mapped")
    OBVIOUS
  <2>5. i \notin DOMAIN acc.inv.executions
    BY <1>4 DEF Submits
  <2>6. DOMAIN after.inv.executions = DOMAIN acc.inv.executions \cup {i}
    BY <2>3 DEF Extend
  <2>7. \A j \in DOMAIN after.inv.executions :
          after.inv.executions[j] = IF j = i THEN begun ELSE acc.inv.executions[j]
    BY <2>3 DEF Extend
  <2>8. /\ In(after.inv, "running") = In(acc.inv, "running") \cup new
        /\ In(after.inv, "waiting") = In(acc.inv, "waiting")
    <3> HIDE DEF begun
    <3> QED
      BY <2>4, <2>5, <2>6, <2>7 DEF In
  <2> HIDE DEF new
  <2>9. Tracked(after.inv, tasks \cup after.jobs, DOMAIN copies)
    BY <1>0, <2>3, <2>5, <2>6, <2>7, <2>8 DEF Tracked
  <2>10. after.jobs \cap DOMAIN before.executions = {}
    <3>1. i \notin DOMAIN before.executions
      BY <2>5 DEF Submits
    <3> QED
      BY <2>3, <3>1 DEF Submits, new
  <2>11. FailuresKept(acc.inv) => FailuresKept(after.inv)
    <3> HIDE DEF begun
    <3> SUFFICES ASSUME FailuresKept(acc.inv), NEW j \in DOMAIN after.inv.executions
                 PROVE  /\ after.inv.executions[j] \in Answers
                        /\ after.inv.executions[j] = "failed" =>
                             j \in Range(after.inv.transitions) \/ after.inv.deferred = "failed"
      BY DEF FailuresKept
    <3>1. CASE j = i
      BY <2>3, <2>4, <2>7, <3>1 DEF Answers
    <3>2. CASE j # i
      BY <2>3, <2>6, <2>7, <3>2 DEF FailuresKept
    <3> QED
      BY <3>1, <3>2
  <2>12. Sane(after.inv, copies)
    <3>1. In(after.inv, "completed") = In(acc.inv, "completed")
      <4> HIDE DEF begun
      <4> QED
        BY <2>4, <2>5, <2>6, <2>7 DEF In
    <3>2. /\ DOMAIN after.inv.bases = DOMAIN acc.inv.bases \cup {i}
          /\ after.inv.bases[i] = Revisions(acc.inv.contexts)
          /\ \A j \in DOMAIN acc.inv.bases : j # i => after.inv.bases[j] = acc.inv.bases[j]
      BY <2>3 DEF Extend
    <3>3. DOMAIN acc.inv.executions \subseteq DOMAIN acc.inv.bases
          /\ Sane(acc.inv, copies) /\ Node(i) \in NodeSet(workflow)
      BY DEF Submits, Sane, Revised
    <3>4. \A j \in DOMAIN acc.inv.executions : after.inv.bases[j] = acc.inv.bases[j]
      BY <2>5, <3>2, <3>3
    <3>5. Leaves(after.inv, acc.inv)
      BY <2>3, <2>6, <3>1, <3>2, <3>3, <3>4 DEF Leaves
    <3> QED
      BY <3>3, <3>5, LeavesSane
  <2> QED
    BY <1>4, <2>3, <2>6, <2>9, <2>10, <2>11, <2>12 DEF Submits, after
<1> QED
  BY <1>2, <1>3, <1>4

LEMMA SubmitAllIs ==
  ASSUME NEW first, NEW before, NEW tasks, NEW copies, NEW queue, NEW fate,
         Sequence(queue), IsInjective(queue),
         Submits(first, before, tasks, copies, Range(queue)),
         \A i \in Range(queue) : fate[i] \in {"mapped", "unmapped", "overspent"}
  PROVE  Submits(SubmitAll(first, queue, fate), before, tasks, copies, {})
<1>1. /\ Len(queue) \in Nat /\ DOMAIN queue = 1 .. Len(queue)
      /\ Range(queue) = {queue[k] : k \in 1 .. Len(queue)}
  BY SequenceIs
<1>2. PICK f : SubmitTrace(f, first, queue, fate)
  BY <1>1, SubmitAllTrace
<1> DEFINE Rest(k) == {queue[j] : j \in k + 1 .. Len(queue)}
           Good(k) == Submits(f[k], before, tasks, copies, Rest(k))
           Bad == {k \in 0 .. Len(queue) : ~Good(k)}
<1>3. Bad = {}
  <2> SUFFICES ASSUME Bad # {} PROVE FALSE
    OBVIOUS
  <2> HIDE DEF Good
  <2>0. Bad \in SUBSET Nat
    BY <1>1
  <2>1. PICK n \in Bad : \A m \in Bad : n <= m
    BY <2>0, LeastExists
  <2>2. n \in 0 .. Len(queue) /\ ~Good(n)
    OBVIOUS
  <2>3. CASE n = 0
    <3>1. Rest(0) = Range(queue)
      BY <1>1
    <3> HIDE DEF Rest
    <3> QED
      BY <1>2, <2>2, <2>3, <3>1 DEF Good, SubmitTrace
  <2>4. CASE n # 0
    <3>1. n \in 1 .. Len(queue) /\ n - 1 \in 0 .. Len(queue) /\ ~(n <= n - 1)
      BY <1>1, <2>2, <2>4
    <3>2. Good(n - 1)
      BY <2>1, <3>1
    <3>3. queue[n] \in Rest(n - 1) /\ queue[n] \in Range(queue)
      BY <1>1, <3>1
    <3>4. Rest(n) \subseteq Rest(n - 1) \ {queue[n]}
      <4> SUFFICES ASSUME NEW j \in n + 1 .. Len(queue)
                   PROVE  queue[j] \in Rest(n - 1) /\ queue[j] # queue[n]
        OBVIOUS
      <4>1. j \in (n - 1) + 1 .. Len(queue) /\ j \in DOMAIN queue /\ n \in DOMAIN queue /\ j # n
        BY <1>1, <3>1
      <4> QED
        BY <4>1 DEF IsInjective
    <3>5. f[n] = SubmitOne(f[n - 1], queue[n], fate[queue[n]])
      BY <1>2, <3>1 DEF SubmitTrace
    <3> DEFINE left == Rest(n)
               rest == Rest(n - 1)
    <3>6. Submits(f[n - 1], before, tasks, copies, rest)
      BY <3>2 DEF Good
    <3>7. queue[n] \in rest /\ left \subseteq rest \ {queue[n]}
      BY <3>3, <3>4
    <3> HIDE DEF left, rest
    <3>8. Submits(f[n], before, tasks, copies, left)
      BY <3>3, <3>5, <3>6, <3>7, SubmitOneIs
    <3> QED
      BY <2>2, <3>8 DEF Good, left
  <2> QED
    BY <2>3, <2>4
<1>4. Rest(Len(queue)) = {} /\ Len(queue) \in 0 .. Len(queue)
  BY <1>1
<1> HIDE DEF Rest
<1>5. Good(Len(queue))
  <2> HIDE DEF Good
  <2> QED
    BY <1>3, <1>4
<1> QED
  BY <1>2, <1>4, <1>5 DEF SubmitTrace

(* A binding changes the contexts and what it committed, then its node     *)
(* ends.                                                                   *)
SameButContexts(base, now) ==
  /\ Typed(base)
  /\ base.cursor = now.cursor /\ base.executions = now.executions
  /\ base.replays = now.replays /\ base.transitions = now.transitions
  /\ base.waits = now.waits /\ base.state = now.state /\ base.deferred = now.deferred
  /\ base.mode = now.mode

Concludes(after, now, i) ==
  \E base, end : /\ SameButContexts(base, now) /\ end \in {"completed", "failed"}
                 /\ after = EndNode(base, i, end)

LEMMA ConcludeIs ==
  ASSUME NEW now, Typed(now), NEW i, NEW copies, NEW fate
  PROVE  Concludes(Conclude(now, i, copies, fate), now, i)
<1> DEFINE bound == Bind(now, i, copies)
<1>1. SameButContexts(now, now)
  BY DEF SameButContexts
<1>2. SameButContexts(bound, now)
  <2>1. ASSUME NEW new, NEW made
        PROVE  SameButContexts([now EXCEPT !.contexts = new, !.commits = made], now)
    BY DEF SameButContexts, Typed, Record
  <2> QED
    BY <2>1 DEF Bind
<1> HIDE DEF bound
<1>3. \/ Conclude(now, i, copies, fate) = EndNode(bound, i, "completed")
      \/ Conclude(now, i, copies, fate) = EndNode(now, i, "failed")
  BY DEF Conclude, bound
<1> QED
  BY <1>1, <1>2, <1>3 DEF Concludes

(* The fields that a node's end leaves alone, and the failures it adds.    *)
Advances(now, before) ==
  /\ Typed(now) /\ now.state = before.state /\ now.deferred = before.deferred
  /\ now.cursor = before.cursor
  /\ FailuresKept(before) => FailuresKept(now)

LEMMA EndAdvances ==
  ASSUME NEW now, NEW before, Advances(now, before), NEW base, SameButContexts(base, now),
         NEW i, NEW end \in {"completed", "failed", "waiting"}
  PROVE  Advances(EndNode(base, i, end), before)
<1> DEFINE after == EndNode(base, i, end)
<1>1. Ends(after, base, i, end)
  BY EndNodeIs DEF SameButContexts
<1> HIDE DEF after
<1>2. /\ Typed(after) /\ after.state = now.state /\ after.deferred = now.deferred
      /\ after.cursor = now.cursor
      /\ after.executions = Replace(now.executions, i, end)
      /\ Range(after.transitions) = Range(now.transitions) \cup {i}
  BY <1>1 DEF Ends, SameButContexts
<1>3. /\ DOMAIN after.executions = DOMAIN now.executions
      /\ \A j \in DOMAIN now.executions :
           after.executions[j] = IF j = i THEN end ELSE now.executions[j]
  BY <1>2 DEF Replace
<1>4. FailuresKept(now) => FailuresKept(after)
  <2> SUFFICES ASSUME FailuresKept(now), NEW j \in DOMAIN now.executions
               PROVE  /\ after.executions[j] \in Answers
                      /\ after.executions[j] = "failed" =>
                           j \in Range(after.transitions) \/ after.deferred = "failed"
    BY <1>3 DEF FailuresKept
  <2>1. CASE j = i
    BY <1>2, <1>3, <2>1 DEF Answers
  <2>2. CASE j # i
    BY <1>2, <1>3, <2>2 DEF FailuresKept
  <2> QED
    BY <2>1, <2>2
<1> QED
  BY <1>2, <1>4 DEF Advances, after

LEMMA ConcludeAdvances ==
  ASSUME NEW now, NEW before, Advances(now, before), NEW i, NEW copies, NEW fate
  PROVE  Advances(Conclude(now, i, copies, fate), before)
<1>1. PICK base, end : /\ SameButContexts(base, now) /\ end \in {"completed", "failed"}
                       /\ Conclude(now, i, copies, fate) = EndNode(base, i, end)
  BY ConcludeIs DEF Concludes, Advances
<1> QED
  BY <1>1, EndAdvances

LEMMA ConcludeTracked ==
  ASSUME NEW now, Typed(now), NEW tasks, NEW resumed, Tracked(now, tasks, resumed),
         NEW i, NEW copies, NEW fate
  PROVE  LET after == Conclude(now, i, copies, fate) IN
         /\ i \in tasks => Tracked(after, tasks \ {i}, resumed)
         /\ i \in resumed => Tracked(after, tasks, resumed \ {i})
<1>1. PICK base, end : /\ SameButContexts(base, now) /\ end \in {"completed", "failed"}
                       /\ Conclude(now, i, copies, fate) = EndNode(base, i, end)
  BY ConcludeIs DEF Concludes
<1>2. Typed(base) /\ Tracked(base, tasks, resumed)
  BY <1>1 DEF SameButContexts, Tracked, In
<1>3. end \in {"completed", "failed", "waiting"} /\ end # "waiting"
  BY <1>1
<1>4. i \in tasks => Tracked(EndNode(base, i, end), tasks \ {i}, resumed)
  BY <1>2, <1>3, AnswerTracked
<1>5. i \in resumed => Tracked(EndNode(base, i, end), tasks, resumed \ {i})
  BY <1>1, <1>2, ResumedTracked
<1> QED
  BY <1>1, <1>4, <1>5

Applies(acc, before, tasks, copies) ==
  /\ Accumulates(acc) /\ Advances(acc.inv, before)
  /\ Tracked(acc.inv, tasks, DOMAIN copies) /\ Sane(acc.inv, copies)

LEMMA ApplyOneIs ==
  ASSUME WorkflowKnown, NEW acc, NEW before, NEW tasks, NEW copies, Applies(acc, before, tasks, copies),
         NEW message, message[1] \in tasks, NEW fate
  PROVE  Applies(ApplyOne(acc, message, fate), before, tasks \ {message[1]}, copies)
<1> DEFINE i == message[1]
           after == ApplyOne(acc, message, fate)
<1>0. Accumulates(acc) /\ Advances(acc.inv, before) /\ Tracked(acc.inv, tasks, DOMAIN copies)
      /\ Typed(acc.inv)
  BY DEF Applies, Advances
<1>1. \E now : /\ after.inv = now /\ Accumulates(after)
               /\ \/ now = Conclude(acc.inv, i, Copies(acc.inv, i), fate)
                  \/ now = EndNode(acc.inv, i, "waiting") /\ ~KeyInUse(acc.inv, i)
                  \/ now = EndNode(acc.inv, i, "failed")
  <2>1. ASSUME NEW now, Record(now)
        PROVE  /\ Accumulates([acc EXCEPT !.inv = now]) /\ [acc EXCEPT !.inv = now].inv = now
    BY <1>0, <2>1 DEF Accumulates
  <2>2. ASSUME NEW now, Record(now)
        PROVE  /\ Accumulates(Save([acc EXCEPT !.inv = now], {i}))
               /\ Save([acc EXCEPT !.inv = now], {i}).inv = now
               /\ Accumulates(SaveIfFull([acc EXCEPT !.inv = now], {i}))
               /\ SaveIfFull([acc EXCEPT !.inv = now], {i}).inv = now
    <3> DEFINE mid == [acc EXCEPT !.inv = now]
    <3>1. Accumulates(mid) /\ mid.inv = now
      BY <2>1, <2>2
    <3> HIDE DEF mid
    <3>2. SameButSaved(Save(mid, {i}), mid) /\ SameButSaved(SaveIfFull(mid, {i}), mid)
      BY <3>1, SaveIs
    <3> QED
      BY <3>1, <3>2 DEF SameButSaved, mid
  <2>3. Record(EndNode(acc.inv, i, "waiting")) /\ Record(EndNode(acc.inv, i, "failed"))
    BY <1>0, EndNodeIs DEF Ends, Typed
  <2>4. Record(Conclude(acc.inv, i, Copies(acc.inv, i), fate))
    <3>1. Advances(Conclude(acc.inv, i, Copies(acc.inv, i), fate), before)
      BY <1>0, ConcludeAdvances
    <3> QED
      BY <3>1 DEF Advances, Typed
  <2> DEFINE bound == Conclude(acc.inv, i, Copies(acc.inv, i), fate)
             waiting == EndNode(acc.inv, i, "waiting")
             failed == EndNode(acc.inv, i, "failed")
  <2>5. \/ after = Save([acc EXCEPT !.inv = bound], {i})
        \/ after = SaveIfFull([acc EXCEPT !.inv = waiting], {i}) /\ ~KeyInUse(acc.inv, i)
        \/ after = Save([acc EXCEPT !.inv = failed], {i})
    BY DEF ApplyOne
  <2> HIDE DEF bound, waiting, failed, after, i
  <2>6. Record(bound) /\ Record(waiting) /\ Record(failed)
    BY <2>3, <2>4 DEF bound, waiting, failed
  <2> QED
    BY <2>2, <2>5, <2>6 DEF bound, waiting, failed
<1>2. PICK now : /\ after.inv = now /\ Accumulates(after)
                 /\ \/ now = Conclude(acc.inv, i, Copies(acc.inv, i), fate)
                    \/ now = EndNode(acc.inv, i, "waiting") /\ ~KeyInUse(acc.inv, i)
                    \/ now = EndNode(acc.inv, i, "failed")
  BY <1>1
<1> HIDE DEF after
<1>3. Advances(now, before)
  <2>1. SameButContexts(acc.inv, acc.inv)
    BY <1>0 DEF SameButContexts
  <2>2. /\ Advances(EndNode(acc.inv, i, "waiting"), before)
        /\ Advances(EndNode(acc.inv, i, "failed"), before)
    BY <1>0, <2>1, EndAdvances
  <2>3. Advances(Conclude(acc.inv, i, Copies(acc.inv, i), fate), before)
    BY <1>0, ConcludeAdvances
  <2> QED
    BY <1>2, <2>2, <2>3
<1>4. Tracked(now, tasks \ {i}, DOMAIN copies)
  <2>1. Tracked(EndNode(acc.inv, i, "failed"), tasks \ {i}, DOMAIN copies)
    BY <1>0, AnswerTracked
  <2>2. ~KeyInUse(acc.inv, i) => Tracked(EndNode(acc.inv, i, "waiting"), tasks \ {i}, DOMAIN copies)
    BY <1>0, AnswerTracked
  <2>3. Tracked(Conclude(acc.inv, i, Copies(acc.inv, i), fate), tasks \ {i}, DOMAIN copies)
    BY <1>0, ConcludeTracked
  <2> QED
    BY <1>2, <2>1, <2>2, <2>3
<1>5. Sane(now, copies)
  <2>1. /\ i \in DOMAIN acc.inv.executions /\ acc.inv.executions[i] = "running"
        /\ i \notin DOMAIN copies
    BY <1>0 DEF Tracked, In
  <2>2. Sane(acc.inv, copies) /\ Copied(acc.inv, i, Copies(acc.inv, i))
    BY <2>1, CopiesCopied DEF Applies, Sane
  <2> HIDE DEF i
  <2>3. /\ Sane(EndNode(acc.inv, i, "waiting"), copies)
        /\ Sane(EndNode(acc.inv, i, "failed"), copies)
    BY <1>0, <2>1, <2>2, EndSane
  <2>4. Sane(Conclude(acc.inv, i, Copies(acc.inv, i), fate), copies)
    BY <1>0, <2>1, <2>2, ConcludeSane
  <2> QED
    BY <1>2, <2>3, <2>4
<1> QED
  BY <1>2, <1>3, <1>4, <1>5 DEF Applies, after

LEMMA ApplyAllIs ==
  ASSUME WorkflowKnown, NEW first, NEW before, NEW tasks, NEW copies, NEW messages, NEW fate,
         Sequence(messages),
         \A k, l \in DOMAIN messages : messages[k][1] = messages[l][1] => k = l,
         tasks \cap {m[1] : m \in Range(messages)} = {},
         Applies(first, before, tasks \cup {m[1] : m \in Range(messages)}, copies)
  PROVE  Applies(ApplyAll(first, messages, fate), before, tasks, copies)
<1>1. /\ Len(messages) \in Nat /\ DOMAIN messages = 1 .. Len(messages)
      /\ Range(messages) = {messages[k] : k \in 1 .. Len(messages)}
  BY SequenceIs
<1>2. PICK f : ApplyTrace(f, first, messages, fate)
  BY <1>1, ApplyAllTrace
<1> DEFINE Rest(k) == {messages[j][1] : j \in k + 1 .. Len(messages)}
           Good(k) == Applies(f[k], before, tasks \cup Rest(k), copies)
           Bad == {k \in 0 .. Len(messages) : ~Good(k)}
<1>3. Bad = {}
  <2> SUFFICES ASSUME Bad # {} PROVE FALSE
    OBVIOUS
  <2> HIDE DEF Good
  <2>0. Bad \in SUBSET Nat
    BY <1>1
  <2>1. PICK n \in Bad : \A m \in Bad : n <= m
    BY <2>0, LeastExists
  <2>2. n \in 0 .. Len(messages) /\ ~Good(n)
    OBVIOUS
  <2>3. CASE n = 0
    <3>1. Rest(0) = {m[1] : m \in Range(messages)}
      BY <1>1
    <3> HIDE DEF Rest
    <3> QED
      BY <1>2, <2>2, <2>3, <3>1 DEF Good, ApplyTrace
  <2>4. CASE n # 0
    <3>1. n \in 1 .. Len(messages) /\ n - 1 \in 0 .. Len(messages) /\ ~(n <= n - 1)
      BY <1>1, <2>2, <2>4
    <3>2. Good(n - 1)
      BY <2>1, <3>1
    <3> DEFINE i == messages[n][1]
               part == tasks \cup Rest(n - 1)
    <3>3. i \in part
      BY <1>1, <3>1
    <3>4. tasks \cup Rest(n) = part \ {i}
      <4>1. i \in {m[1] : m \in Range(messages)}
        BY <1>1, <3>1
      <4>2. i \notin tasks
        BY <4>1
      <4>3. \A j \in 1 .. Len(messages) : j # n => messages[j][1] # i
        BY <1>1, <3>1
      <4>4. \A j \in n + 1 .. Len(messages) :
              j \in 1 .. Len(messages) /\ j # n /\ j \in (n - 1) + 1 .. Len(messages)
        BY <1>1, <3>1
      <4>5. \A j \in (n - 1) + 1 .. Len(messages) : j = n \/ j \in n + 1 .. Len(messages)
        BY <1>1, <3>1
      <4> QED
        BY <4>2, <4>3, <4>4, <4>5
    <3>5. f[n] = ApplyOne(f[n - 1], messages[n], fate[i])
      BY <1>2, <3>1 DEF ApplyTrace
    <3>6. Applies(f[n - 1], before, part, copies)
      BY <3>2 DEF Good
    <3> HIDE DEF part
    <3>7. Applies(f[n], before, part \ {i}, copies)
      BY <3>3, <3>5, <3>6, ApplyOneIs
    <3> QED
      BY <2>2, <3>4, <3>7 DEF Good
  <2> QED
    BY <2>3, <2>4
<1>4. Rest(Len(messages)) = {} /\ Len(messages) \in 0 .. Len(messages)
  BY <1>1
<1> HIDE DEF Rest
<1>5. Good(Len(messages))
  <2> HIDE DEF Good
  <2> QED
    BY <1>3, <1>4
<1> QED
  BY <1>2, <1>4, <1>5 DEF ApplyTrace

-----------------------------------------------------------------------------
(* What the actions of the driver make of the Invocation.                  *)

(* The executions stay as they are.                                        *)
Steady(new, now) ==
  /\ Typed(new) /\ new.mode = now.mode /\ new.executions = now.executions
  /\ new.waits = now.waits /\ SameDocuments(new, now)

LEMMA SteadyTracked ==
  ASSUME NEW now, NEW new, Steady(new, now), NEW tasks, NEW resumed,
         Tracked(now, tasks, resumed)
  PROVE  Tracked(new, tasks, resumed)
BY DEF Steady, Tracked, In

LEMMA SteadySane ==
  ASSUME NEW now, NEW new, Steady(new, now), NEW copies, Sane(now, copies)
  PROVE  Sane(new, copies)
<1>1. Leaves(new, now)
  BY DocumentsLeave DEF Steady, In
<1> QED
  BY <1>1, LeavesSane

LEMMA StartIs ==
  ASSUME Typed(inv), Start
  PROVE  Steady(inv', inv) /\ inv'.state = "running"
<1> DEFINE begun == [inv EXCEPT !.state = "running"]
           first == Save(Started(begun), {})
           next == [first EXCEPT !.inv.cursor = SchedulerInitialize(workflow)]
<1>1. Steady(begun, inv) /\ begun.state = "running" /\ Record(begun)
  BY DEF Steady, Typed, Record, SameDocuments
<1>2. inv' = next.inv \/ inv' = Save(next, {}).inv
  BY DEF Start, Becomes
<1> HIDE DEF begun
<1>3. Accumulates(first) /\ first.inv = begun
  BY <1>1, StartedIs, SaveIs DEF SameButSaved
<1> HIDE DEF first
<1>4. /\ Accumulates(next) /\ next.inv.mode = begun.mode
      /\ next.inv.executions = begun.executions /\ next.inv.waits = begun.waits
      /\ next.inv.state = begun.state /\ next.inv.transitions = begun.transitions
      /\ SameDocuments(next.inv, begun)
  BY <1>3 DEF Accumulates, Record, SameDocuments
<1> HIDE DEF next
<1>5. inv' = next.inv
  BY <1>2, <1>4, SaveIs DEF SameButSaved
<1>6. Steady(next.inv, inv)
  BY <1>1, <1>4 DEF Steady, Typed, Accumulates, SameDocuments
<1> QED
  BY <1>1, <1>4, <1>5, <1>6

(* One transition is routed, and a failure puts off the end or fails the   *)
(* Invocation.                                                             *)
RoutesTo(new, now, i) ==
  /\ Steady(new, now) /\ new.state = now.state
  /\ new.transitions = Tail(now.transitions)
  /\ new.deferred = now.deferred \/ new.deferred = "failed"
  /\ now.executions[i] = "failed" => new.deferred = "failed" \/ Failed(new.cursor)

LEMMA RouteIs ==
  ASSUME WorkflowKnown, Typed(inv), NEW i, Route(i)
  PROVE  RoutesTo(inv', inv, i)
<1> DEFINE drained == [inv EXCEPT !.transitions = Tail(@)]
           rest == Started(drained)
<1>1. /\ Record(drained) /\ drained.mode = inv.mode /\ drained.executions = inv.executions
      /\ drained.waits = inv.waits /\ drained.state = inv.state
      /\ drained.deferred = inv.deferred /\ drained.transitions = Tail(inv.transitions)
      /\ SameDocuments(drained, inv)
  BY DEF Typed, Record, SameDocuments
<1>2. Sequence(drained.transitions)
  <2>1. Sequence(inv.transitions) /\ inv.transitions # <<>>
    BY DEF Typed, Route, transitions
  <2> DEFINE T == Range(inv.transitions)
  <2>2. inv.transitions \in Seq(T)
    BY <2>1 DEF Sequence
  <2> HIDE DEF T
  <2>3. Tail(inv.transitions) \in Seq(T)
    BY <2>1, <2>2
  <2> QED
    BY <1>1, <2>3, SequenceOfAny
<1>3. Steady(drained, inv)
  BY <1>1, <1>2 DEF Steady, Typed
<1> HIDE DEF drained
<1>4. Accumulates(rest) /\ rest.inv = drained
  BY <1>1, StartedIs
<1> HIDE DEF rest
(* Whatever becomes of the cursor and of the deferred state.               *)
<1> DEFINE Recast(acc, c, d) == [acc EXCEPT !.inv.cursor = c, !.inv.deferred = d]
<1>5. ASSUME NEW acc, Accumulates(acc), acc.inv = drained, NEW c, NEW d
      PROVE  LET new == Recast(acc, c, d) IN
             /\ Accumulates(new) /\ Steady(new.inv, inv) /\ new.inv.state = inv.state
             /\ new.inv.transitions = Tail(inv.transitions)
             /\ new.inv.cursor = c /\ new.inv.deferred = d
  <2> DEFINE new == Recast(acc, c, d)
  <2>1. /\ Accumulates(new) /\ new.inv.mode = drained.mode
        /\ new.inv.executions = drained.executions /\ new.inv.waits = drained.waits
        /\ new.inv.state = drained.state /\ new.inv.transitions = drained.transitions
        /\ new.inv.cursor = c /\ new.inv.deferred = d /\ SameDocuments(new.inv, drained)
    BY <1>5 DEF Accumulates, Record, SameDocuments
  <2> HIDE DEF new
  <2>2. Steady(new.inv, inv)
    BY <1>1, <1>3, <2>1 DEF Steady, Typed, Accumulates, SameDocuments
  <2> QED
    BY <1>1, <2>1, <2>2 DEF new
<1>6. ASSUME NEW acc, Accumulates(acc), acc.inv = drained, NEW c
      PROVE  LET new == [acc EXCEPT !.inv.cursor = c] IN
             /\ Accumulates(new) /\ Steady(new.inv, inv) /\ new.inv.state = inv.state
             /\ new.inv.transitions = Tail(inv.transitions)
             /\ new.inv.cursor = c /\ new.inv.deferred = inv.deferred
  <2> DEFINE new == [acc EXCEPT !.inv.cursor = c]
  <2>1. /\ Accumulates(new) /\ new.inv.mode = drained.mode
        /\ new.inv.executions = drained.executions /\ new.inv.waits = drained.waits
        /\ new.inv.state = drained.state /\ new.inv.transitions = drained.transitions
        /\ new.inv.cursor = c /\ new.inv.deferred = drained.deferred
        /\ SameDocuments(new.inv, drained)
    BY <1>6 DEF Accumulates, Record, SameDocuments
  <2> HIDE DEF new
  <2>2. Steady(new.inv, inv)
    BY <1>1, <1>3, <2>1 DEF Steady, Typed, Accumulates, SameDocuments
  <2> QED
    BY <1>1, <2>1, <2>2 DEF new
<1>7. CASE executions[i] = "completed"
  <2>1. PICK value :
          inv' = SaveSkipped([SaveEdges(rest, i, value) EXCEPT
                   !.inv.cursor = SchedulerCompleted(workflow, @, i, value)]).inv
    BY <1>7 DEF Route, Becomes, rest, drained
  <2> DEFINE acc == SaveEdges(rest, i, value)
             c == SchedulerCompleted(workflow, acc.inv.cursor, i, value)
             new == [acc EXCEPT !.inv.cursor = c]
  <2>2. Accumulates(acc) /\ acc.inv = drained
    BY <1>4, SaveEdgesIs DEF SameButSaved
  <2>3. inv' = SaveSkipped(new).inv
    BY <2>1
  <2> HIDE DEF acc, c
  <2>4. /\ Accumulates(new) /\ Steady(new.inv, inv) /\ new.inv.state = inv.state
        /\ new.inv.transitions = Tail(inv.transitions) /\ new.inv.deferred = inv.deferred
    BY <1>6, <2>2
  <2> HIDE DEF new
  <2>5. inv' = new.inv
    BY <2>3, <2>4, SaveIs DEF SameButSaved
  <2> QED
    BY <1>7, <2>4, <2>5 DEF RoutesTo, executions
<1>8. CASE executions[i] = "failed" /\ policy.failure = "fail_fast"
  <2> DEFINE c == Fail(rest.inv.cursor, "NODE_FAILED")
             new == [rest EXCEPT !.inv.cursor = c]
  <2>1. inv' = new.inv
    BY <1>8 DEF Route, Becomes, rest, drained
  <2>2. c.error = "NODE_FAILED"
    BY CursorIs
  <2> HIDE DEF c
  <2>3. /\ Steady(new.inv, inv) /\ new.inv.state = inv.state /\ new.inv.cursor = c
        /\ new.inv.transitions = Tail(inv.transitions) /\ new.inv.deferred = inv.deferred
    BY <1>4, <1>6
  <2> QED
    BY <2>1, <2>2, <2>3 DEF RoutesTo, Failed
<1>9. CASE executions[i] = "failed" /\ policy.failure = "continue_active_branches"
  <2> DEFINE c == SchedulerBlocked(workflow, rest.inv.cursor, i)
             new == Recast(rest, c, "failed")
  <2>1. inv' = SaveSkipped(new).inv
    BY <1>9 DEF Route, Becomes, rest, drained
  <2> HIDE DEF c, Recast
  <2>2. /\ Accumulates(new) /\ Steady(new.inv, inv) /\ new.inv.state = inv.state
        /\ new.inv.transitions = Tail(inv.transitions) /\ new.inv.deferred = "failed"
    BY <1>4, <1>5
  <2> HIDE DEF new
  <2>3. inv' = new.inv
    BY <2>1, <2>2, SaveIs DEF SameButSaved
  <2> QED
    BY <2>2, <2>3 DEF RoutesTo
<1>10. CASE executions[i] \notin {"completed", "failed"}
  <2>1. inv' = SaveSkipped(rest).inv
    BY <1>10 DEF Route, Becomes, rest, drained
  <2>2. inv' = drained
    BY <1>4, <2>1, SaveIs DEF SameButSaved
  <2> QED
    BY <1>1, <1>3, <1>10, <2>2 DEF RoutesTo, executions
<1>11. policy.failure \in {"fail_fast", "continue_active_branches"}
  BY PolicyIs
<1> QED
  BY <1>7, <1>8, <1>9, <1>10, <1>11

LEMMA StopIs ==
  ASSUME Typed(inv), NEW final, Stop(final)
  PROVE  /\ Steady(inv', inv) /\ inv'.state = final /\ inv'.cursor = inv.cursor
         /\ inv'.transitions = inv.transitions
         /\ final = "waiting" => inv'.deferred = inv.deferred
<1> DEFINE d == IF final = "waiting" THEN inv.deferred ELSE "none"
           new == [inv EXCEPT !.state = final, !.deferred = d]
<1>1. inv' = Save(Started(new), Range(waits)).inv
  BY DEF Stop, Becomes
<1>2. /\ Record(new) /\ new.mode = inv.mode /\ new.executions = inv.executions
      /\ new.waits = inv.waits /\ new.state = final /\ new.cursor = inv.cursor
      /\ new.transitions = inv.transitions /\ new.deferred = d /\ SameDocuments(new, inv)
  BY DEF Typed, Record, SameDocuments
<1> HIDE DEF new
<1>3. inv' = new
  BY <1>1, <1>2, StartedIs, SaveIs DEF SameButSaved
<1> QED
  BY <1>2, <1>3 DEF Steady, Typed

LEMMA FailWithIs ==
  ASSUME Typed(inv), NEW code, code # "none", FailWith(code)
  PROVE  Steady(inv', inv) /\ inv'.state = inv.state /\ Failed(inv'.cursor)
<1> DEFINE c == Fail(inv.cursor, code)
           new == [inv EXCEPT !.cursor = c, !.deferred = "none"]
<1>1. inv' = Started(new).inv
  BY DEF FailWith, Becomes
<1>2. Failed(c)
  BY CursorIs DEF Failed
<1> HIDE DEF c
<1>3. /\ Record(new) /\ new.mode = inv.mode /\ new.executions = inv.executions
      /\ new.waits = inv.waits /\ new.state = inv.state /\ new.cursor = c
      /\ new.transitions = inv.transitions /\ SameDocuments(new, inv)
  BY DEF Typed, Record, SameDocuments
<1> HIDE DEF new
<1>4. inv' = new
  BY <1>1, <1>3, StartedIs
<1> QED
  BY <1>2, <1>3, <1>4 DEF Steady, Typed

(* The Invocation is over, and none of its executions is active.           *)
Ended(new, now, final, end) ==
  /\ Typed(new) /\ new.mode = now.mode /\ new.state = final
  /\ new.waits = <<>> /\ new.transitions = <<>> /\ new.cursor.ready = <<>>
  /\ DOMAIN new.executions = DOMAIN now.executions
  /\ In(new, "running") = {} /\ In(new, "waiting") = {}
  /\ In(new, "completed") = In(now, "completed") /\ SameDocuments(new, now)

LEMMA QuietIs ==
  ASSUME NEW now, Typed(now), NEW end, end \notin {"running", "waiting", "completed"}
  PROVE  /\ Ended(Quiet(now, end), now, now.state, end)
         /\ Quiet(now, end).replays = now.replays
<1> DEFINE c == Cleared(now.cursor)
           ended == [i \in DOMAIN now.executions |->
                       IF i \in ActiveIn(now) THEN end ELSE now.executions[i]]
           new == [now EXCEPT !.executions = ended, !.cursor = c, !.waits = <<>>,
                              !.transitions = <<>>]
<1>1. Quiet(now, end) = new
  BY DEF Quiet
<1>2. c.ready = <<>>
  BY CursorIs
<1>3. /\ DOMAIN ended = DOMAIN now.executions /\ Function(ended)
      /\ \A i \in DOMAIN ended :
           /\ ended[i] # "running" /\ ended[i] # "waiting"
           /\ ended[i] = "completed" <=> now.executions[i] = "completed"
  BY DEF ActiveIn, Function
<1> HIDE DEF c, ended
<1>4. /\ Record(new) /\ new.mode = now.mode /\ new.executions = ended /\ new.waits = <<>>
      /\ new.state = now.state /\ new.cursor = c /\ new.transitions = <<>>
      /\ new.replays = now.replays /\ SameDocuments(new, now)
  BY DEF Typed, Record, SameDocuments
<1> HIDE DEF new
<1>5. Function(new.waits) /\ Sequence(new.transitions)
  <2>1. Sequence(<<>>)
    BY DEF Sequence
  <2>2. Function(<<>>)
    BY DEF Function
  <2> QED
    BY <1>4, <2>1, <2>2
<1>6. /\ In(new, "running") = {} /\ In(new, "waiting") = {}
      /\ In(new, "completed") = In(now, "completed")
  <2>1. new.executions = ended
    BY <1>4
  <2> QED
    BY <1>3, <2>1 DEF In
<1> QED
  BY <1>1, <1>2, <1>3, <1>4, <1>5, <1>6 DEF Ended, Typed

LEMMA AbandonIs ==
  ASSUME Typed(inv), NEW final, Abandon(final)
  PROVE  Ended(inv', inv, final, "cancelled")
<1> DEFINE marked == IF final = "failed" THEN [inv EXCEPT !.state = "failed"] ELSE inv
           q == Quiet(marked, "cancelled")
           quiet == SaveEach(Started(q), Active)
           last == [quiet EXCEPT !.inv.state = final, !.inv.deferred = "none"]
<1>1. /\ Typed(marked) /\ marked.mode = inv.mode /\ marked.executions = inv.executions
      /\ SameDocuments(marked, inv)
  BY DEF Typed, Record, SameDocuments
<1>2. inv' = Save(last, Active).inv
  BY DEF Abandon, Becomes
<1> HIDE DEF marked
<1>3. Ended(q, marked, marked.state, "cancelled")
  BY <1>1, QuietIs
<1> HIDE DEF q
<1>4. Accumulates(Started(q)) /\ Started(q).inv = q
  BY <1>3, StartedIs DEF Ended, Typed
<1>5. Accumulates(quiet) /\ quiet.inv = q
  <2> DEFINE s == Started(q)
  <2>1. Accumulates(s) /\ s.inv = q
    BY <1>4
  <2> HIDE DEF s
  <2>2. SameButSaved(SaveEach(s, Active), s)
    BY <2>1, SaveIs
  <2> QED
    BY <2>1, <2>2 DEF SameButSaved, s
<1> HIDE DEF quiet
<1>6. /\ Accumulates(last) /\ last.inv.mode = q.mode /\ last.inv.executions = q.executions
      /\ last.inv.waits = q.waits /\ last.inv.state = final /\ last.inv.cursor = q.cursor
      /\ last.inv.transitions = q.transitions /\ SameDocuments(last.inv, q)
  BY <1>5 DEF Accumulates, Record, SameDocuments
<1> HIDE DEF last
<1>7. inv' = last.inv
  BY <1>2, <1>6, SaveIs DEF SameButSaved
<1>8. Ended(last.inv, inv, final, "cancelled")
  BY <1>1, <1>3, <1>6 DEF Ended, Typed, Accumulates, In, SameDocuments
<1> QED
  BY <1>7, <1>8

-----------------------------------------------------------------------------
(* Each action keeps what holds until the process crashes.                 *)

(* A step of which workflow is no part.                                    *)
LEMMA SanePrime ==
  ASSUME UNCHANGED workflow, Sane(inv', resuming')
  PROVE  Sane(inv, resuming)'
BY DEF Sane, Revised, Published, Copied, Wrote, Writes, policy

LEMMA ActiveIs ==
  ASSUME NEW now
  PROVE  ActiveIn(now) = In(now, "running") \cup In(now, "waiting")
BY DEF ActiveIn, In

(* The actions that leave the workers and the resumes alone.               *)
LEMMA SteadyHolds ==
  ASSUME DriverHolds, Steady(inv', inv), UNCHANGED <<workflow, working, mailbox, resuming>>,
         Exclusive => OneDriver'
  PROVE  DriverHolds'
<1>1. Tracked(inv', working \cup Answered, DOMAIN resuming)
  BY SteadyTracked DEF DriverHolds
<1>2. Typed(inv') /\ Exclusive' = Exclusive /\ Answered' = Answered
  BY DEF Steady, Exclusive, policy, Answered
<1>3. Sane(inv, resuming)'
  BY SteadySane, SanePrime DEF DriverHolds
<1> QED
  BY <1>1, <1>2, <1>3 DEF DriverHolds

LEMMA StartHolds ==
  ASSUME WorkflowKnown, DriverHolds, Start
  PROVE  DriverHolds'
<1>1. Steady(inv', inv) /\ inv'.state = "running"
  BY StartIs DEF DriverHolds
<1>2. UNCHANGED <<workflow, working, mailbox, resuming, drivers>> /\ state = "created"
      /\ drivers > 0
  BY DEF Start
<1>3. ASSUME OneDriver PROVE OneDriver'
  <2>1. DOMAIN inv'.executions = {}
    BY <1>1, <1>2, <1>3 DEF OneDriver, Steady, executions
  <2>2. FailuresKept(inv')
    BY <2>1 DEF FailuresKept
  <2>3. resuming' = <<>> /\ drivers' = 1
    BY <1>2, <1>3 DEF OneDriver
  <2> QED
    BY <1>1, <2>2, <2>3 DEF OneDriver, state, UnfinishedStates, TerminalStates
<1> QED
  BY <1>1, <1>2, <1>3, SteadyHolds DEF DriverHolds

LEMMA RouteHolds ==
  ASSUME WorkflowKnown, DriverHolds, NEW i, Route(i)
  PROVE  DriverHolds'
<1>1. RoutesTo(inv', inv, i)
  BY RouteIs DEF DriverHolds
<1>2. /\ UNCHANGED <<workflow, working, mailbox, resuming, drivers>>
      /\ drivers > 0 /\ state # "created" /\ ~Failed(cursor)
      /\ inv.transitions # <<>> /\ i = Head(inv.transitions)
  BY DEF Route, Driving, transitions
<1>3. /\ Steady(inv', inv) /\ inv'.state = inv.state /\ inv'.transitions = Tail(inv.transitions)
      /\ inv'.deferred = inv.deferred \/ inv'.deferred = "failed"
      /\ inv.executions[i] = "failed" => inv'.deferred = "failed" \/ Failed(inv'.cursor)
  BY <1>1 DEF RoutesTo
<1>4. Range(inv.transitions) \subseteq {i} \cup Range(inv'.transitions)
  <2> DEFINE s == inv.transitions
             T == Range(s)
             t == Tail(s)
  <2>1. s \in Seq(T) /\ s # <<>> /\ Sequence(s)
    BY <1>2 DEF Sequence, DriverHolds, Typed
  <2>2. /\ Len(s) \in Nat /\ DOMAIN s = 1 .. Len(s) /\ Range(s) = {s[k] : k \in 1 .. Len(s)}
    BY <2>1, SequenceIs
  <2> HIDE DEF T
  <2>3. t \in Seq(T) /\ Len(t) = Len(s) - 1 /\ Head(s) = s[1]
        /\ \A k \in 1 .. Len(s) - 1 : t[k] = s[k + 1]
    BY <2>1
  <2>4. Len(t) \in Nat /\ Range(t) = {t[k] : k \in 1 .. Len(t)}
    BY <2>3, SequenceOfAny, SequenceIs
  <2> HIDE DEF s, t
  <2>5. ASSUME NEW k \in 1 .. Len(s) PROVE s[k] \in {Head(s)} \cup Range(t)
    <3>1. CASE k = 1
      BY <2>3, <3>1
    <3>2. CASE k # 1
      <4>1. k - 1 \in 1 .. Len(s) - 1 /\ (k - 1) + 1 = k
        BY <2>2, <3>2
      <4> QED
        BY <2>3, <2>4, <4>1
    <3> QED
      BY <3>1, <3>2
  <2>6. Range(s) \subseteq {Head(s)} \cup Range(t)
    BY <2>2, <2>5
  <2> QED
    BY <1>2, <1>3, <2>6 DEF s, t
<1>5. ASSUME OneDriver PROVE OneDriver'
  <2>1. resuming = <<>> /\ drivers = 1 /\ state \in UnfinishedStates
        /\ (Failed(cursor) \/ FailuresKept(inv))
    BY <1>2, <1>5 DEF OneDriver
  <2>2. Failed(inv'.cursor) \/ FailuresKept(inv')
    <3> SUFFICES ASSUME ~Failed(inv'.cursor) PROVE FailuresKept(inv')
      OBVIOUS
    <3>1. FailuresKept(inv)
      BY <1>2, <2>1
    <3> SUFFICES ASSUME NEW j \in DOMAIN inv'.executions
                 PROVE  /\ inv'.executions[j] \in Answers
                        /\ inv'.executions[j] = "failed" =>
                             j \in Range(inv'.transitions) \/ inv'.deferred = "failed"
      BY DEF FailuresKept
    <3>2. inv'.executions = inv.executions
      BY <1>3 DEF Steady
    <3>3. inv.executions[j] \in Answers
      BY <3>1, <3>2 DEF FailuresKept
    <3>4. ASSUME inv.executions[j] = "failed"
          PROVE  j \in Range(inv'.transitions) \/ inv'.deferred = "failed"
      <4>1. j \in Range(inv.transitions) \/ inv.deferred = "failed"
        BY <3>1, <3>2, <3>4 DEF FailuresKept
      <4> QED
        BY <1>3, <1>4, <3>4, <4>1
    <3> QED
      BY <3>2, <3>3, <3>4
  <2>3. inv'.state \in UnfinishedStates \ {"created"} /\ inv'.state = state
    BY <1>2, <1>3, <2>1 DEF state
  <2> QED
    BY <1>2, <2>1, <2>2, <2>3 DEF OneDriver, state, cursor, UnfinishedStates, TerminalStates
<1> QED
  BY <1>2, <1>3, <1>5, SteadyHolds DEF DriverHolds

LEMMA FailWithHolds ==
  ASSUME WorkflowKnown, DriverHolds, NEW code, code # "none", Stable, FailWith(code)
  PROVE  DriverHolds'
<1>1. Steady(inv', inv) /\ inv'.state = inv.state /\ Failed(inv'.cursor)
  BY FailWithIs DEF DriverHolds
<1>2. /\ UNCHANGED <<workflow, working, mailbox, resuming, drivers>>
      /\ drivers > 0 /\ state # "created"
  BY DEF FailWith, Stable, Driving
<1>3. ASSUME OneDriver PROVE OneDriver'
  <2>1. resuming = <<>> /\ drivers = 1 /\ state \in UnfinishedStates
    BY <1>2, <1>3 DEF OneDriver
  <2>2. inv'.state \in UnfinishedStates \ {"created"}
    BY <1>1, <1>2, <2>1 DEF state
  <2> QED
    BY <1>1, <1>2, <2>1, <2>2 DEF OneDriver, state, cursor, UnfinishedStates, TerminalStates
<1> QED
  BY <1>1, <1>2, <1>3, SteadyHolds DEF DriverHolds

(* Nothing is left to wait for.                                            *)
LEMMA StableIs ==
  ASSUME DriverHolds, Stable
  PROVE  /\ drivers > 0 /\ state # "created" /\ ~Failed(cursor) /\ working = {}
         /\ inv.transitions = <<>> /\ inv.cursor.ready = <<>> /\ In(inv, "running") = {}
<1>1. /\ drivers > 0 /\ state # "created" /\ ~Failed(cursor) /\ working = {}
      /\ inv.transitions = <<>> /\ inv.cursor.ready = <<>> /\ mailbox = <<>>
  BY DEF Stable, Driving, transitions, cursor
<1>2. Range(<<>>) = {}
  BY DEF Range
<1>3. Answered = {}
  BY <1>1, <1>2 DEF Answered
<1> QED
  BY <1>1, <1>3 DEF DriverHolds, Tracked

LEMMA ParkHolds ==
  ASSUME WorkflowKnown, DriverHolds, Park
  PROVE  DriverHolds'
<1>1. /\ Steady(inv', inv) /\ inv'.state = "waiting" /\ inv'.cursor = inv.cursor
      /\ inv'.transitions = inv.transitions /\ inv'.deferred = inv.deferred
  BY StopIs DEF Park, DriverHolds
<1>2. UNCHANGED <<workflow, working, mailbox, resuming>> /\ drivers' = drivers - 1
  BY DEF Park, Stop
<1>3. drivers > 0 /\ state # "created" /\ ~Failed(cursor)
  BY StableIs DEF Park
<1>4. ASSUME OneDriver PROVE OneDriver'
  <2>1. resuming = <<>> /\ drivers = 1 /\ FailuresKept(inv)
    BY <1>3, <1>4 DEF OneDriver
  <2>2. FailuresKept(inv')
    BY <1>1, <2>1 DEF FailuresKept, Steady
  <2> QED
    BY <1>1, <1>2, <1>3, <2>1, <2>2
    DEF OneDriver, state, cursor, UnfinishedStates, TerminalStates
<1> QED
  BY <1>1, <1>2, <1>4, SteadyHolds DEF DriverHolds

(* The Invocation ends with nothing to do.                                 *)
LEMMA EndHolds ==
  ASSUME WorkflowKnown, DriverHolds, ScheduledOnce, Stable, waits = <<>>,
         NEW final \in {"completed", "interrupted"}, Stop(final),
         final = "completed" => deferred = "none"
  PROVE  DriverHolds'
<1>1. /\ Steady(inv', inv) /\ inv'.state = final /\ inv'.cursor = inv.cursor
      /\ inv'.transitions = inv.transitions
  BY StopIs DEF DriverHolds
<1>2. UNCHANGED <<workflow, working, mailbox, resuming>> /\ drivers' = drivers - 1
  BY DEF Stop
<1>3. /\ drivers > 0 /\ state # "created" /\ ~Failed(cursor) /\ working = {}
      /\ inv.transitions = <<>> /\ inv.cursor.ready = <<>> /\ In(inv, "running") = {}
  BY StableIs
<1>4. Range(<<>>) = {} /\ DOMAIN <<>> = {}
  BY DEF Range
<1>5. ASSUME OneDriver PROVE OneDriver'
  <2>1. resuming = <<>> /\ drivers = 1 /\ state \in UnfinishedStates /\ FailuresKept(inv)
    BY <1>3, <1>5 DEF OneDriver
  <2>2. In(inv, "waiting") = {}
    <3>1. Range(inv.waits) = In(inv, "waiting") \ DOMAIN resuming
      BY DEF DriverHolds, Tracked
    <3> QED
      BY <1>4, <2>1, <3>1 DEF waits
  <2>3. TerminalQuiet'
    <3>1. ActiveIn(inv') = {}
      BY <1>1, <1>3, <2>2, ActiveIs DEF Steady, In
    <3>2. inv'.waits = <<>>
      BY <1>1 DEF Steady, waits
    <3> QED
      BY <1>1, <1>2, <1>3, <1>4, <2>1, <3>1, <3>2
      DEF TerminalQuiet, Pending, Active, cursor, transitions, waits
  <2>4. final = "completed" => AllCompleted(inv')
    <3> SUFFICES ASSUME final = "completed", NEW i \in inv.cursor.scheduled
                 PROVE  i \in DOMAIN inv.executions /\ inv.executions[i] = "completed"
      BY <1>1 DEF AllCompleted, Steady
    <3>1. i \in DOMAIN inv.executions
      <4>1. mode = "normal"
        BY DEF DriverHolds, Tracked, mode
      <4>2. cursor.scheduled \subseteq DOMAIN executions \cup Range(cursor.ready)
        BY <1>3, <2>1, <4>1 DEF ScheduledOnce
      <4> QED
        BY <1>3, <1>4, <4>2 DEF cursor, executions
    <3>2. inv.executions[i] \in Answers /\ inv.executions[i] # "failed"
      BY <1>3, <1>4, <2>1, <3>1 DEF FailuresKept, deferred
    <3>3. inv.executions[i] # "running" /\ inv.executions[i] # "waiting"
      BY <1>3, <2>2, <3>1 DEF In
    <3> QED
      BY <3>1, <3>2, <3>3 DEF Answers
  <2> QED
    BY <1>1, <1>2, <2>1, <2>3, <2>4
    DEF OneDriver, state, cursor, UnfinishedStates, TerminalStates
<1> QED
  BY <1>1, <1>2, <1>5, SteadyHolds DEF DriverHolds

LEMMA AbandonHolds ==
  ASSUME WorkflowKnown, DriverHolds, NEW final \in {"failed", "cancelled"}, Abandon(final)
  PROVE  DriverHolds'
<1>1. Ended(inv', inv, final, "cancelled")
  BY AbandonIs DEF DriverHolds
<1>2. /\ UNCHANGED <<workflow, resuming>> /\ working' = {} /\ mailbox' = <<>>
      /\ drivers' = IF drivers > 0 THEN drivers - 1 ELSE 0
  BY DEF Abandon
<1>3. Range(<<>>) = {} /\ DOMAIN <<>> = {} /\ Sequence(<<>>)
  BY DEF Range, Sequence
<1>4. Answered' = {}
  BY <1>2, <1>3 DEF Answered
<1>5. Tracked(inv', {}, DOMAIN resuming)
  <2>1. \A i \in DOMAIN resuming : i \in DOMAIN inv'.executions /\ inv'.executions[i] # "running"
    BY <1>1 DEF DriverHolds, Tracked, Ended, In
  <2> QED
    BY <1>1, <1>3, <2>1 DEF DriverHolds, Tracked, Ended
<1>6. ASSUME OneDriver PROVE OneDriver'
  <2>1. resuming = <<>> /\ drivers' = 0
    BY <1>2, <1>6 DEF OneDriver
  <2>2. TerminalQuiet'
    <3>1. ActiveIn(inv') = {}
      BY <1>1, ActiveIs DEF Ended
    <3> QED
      BY <1>1, <1>2, <1>3, <2>1, <3>1
      DEF TerminalQuiet, Pending, Active, cursor, transitions, waits, Ended
  <2> QED
    BY <1>1, <1>2, <2>1, <2>2 DEF OneDriver, state, Ended, UnfinishedStates, TerminalStates
<1>7. Exclusive' = Exclusive
  BY <1>2 DEF Exclusive, policy
<1>8. Sane(inv, resuming)'
  <2>1. Leaves(inv', inv)
    BY <1>1, DocumentsLeave DEF Ended
  <2> QED
    BY <1>2, <2>1, LeavesSane, SanePrime DEF DriverHolds
<1> QED
  BY <1>1, <1>2, <1>3, <1>4, <1>5, <1>6, <1>7, <1>8 DEF DriverHolds, Ended

LEMMA SubmitHolds ==
  ASSUME WorkflowKnown, DriverHolds, ScheduledOnce, Submit
  PROVE  DriverHolds'
<1> DEFINE first == Started([inv EXCEPT !.cursor = Cleared(@)])
           queue == cursor.ready
           tasks == working \cup Answered
           resumed == DOMAIN resuming
<1>1. PICK fate \in [Range(queue) -> policy.mapping] :
        /\ Becomes(SubmitAll(first, queue, fate))
        /\ working' = working \cup SubmitAll(first, queue, fate).jobs
        /\ drivers' = IF SubmitAll(first, queue, fate).inv.state = "interrupted"
                      THEN drivers - 1 ELSE drivers
  BY DEF Submit
<1> DEFINE after == SubmitAll(first, queue, fate)
<1>2. /\ UNCHANGED <<workflow, mailbox, resuming>> /\ drivers > 0 /\ state # "created"
      /\ ~Failed(cursor)
  BY DEF Submit, Driving
<1>3. Typed(inv) /\ Tracked(inv, tasks, resumed)
  BY DEF DriverHolds
<1>4. Sequence(queue) /\ IsInjective(queue)
  BY SequenceOfAny DEF ScheduledOnce
<1>5. Range(queue) \cap DOMAIN inv.executions = {}
  BY <1>3 DEF ScheduledOnce, Tracked, mode, executions
<1>6. \A i \in Range(queue) : fate[i] \in {"mapped", "unmapped", "overspent"}
  <2>1. policy.mapping \subseteq {"mapped", "unmapped", "overspent"}
    BY PolicyIs
  <2> QED
    BY <2>1
<1>7. Submits(first, inv, tasks, resuming, Range(queue))
  <2> DEFINE start == [inv EXCEPT !.cursor = Cleared(@)]
             c == Cleared(inv.cursor)
  <2>1. /\ Record(start) /\ start.mode = inv.mode /\ start.executions = inv.executions
        /\ start.waits = inv.waits /\ start.state = inv.state
        /\ start.transitions = inv.transitions /\ start.deferred = inv.deferred
        /\ SameDocuments(start, inv)
    <3> HIDE DEF c
    <3>1. start = [inv EXCEPT !.cursor = c]
      BY DEF c
    <3> QED
      BY <1>3, <3>1 DEF Typed, Record, SameDocuments
  <2> HIDE DEF start
  <2>2. Accumulates(first) /\ first.inv = start /\ first.jobs = {} /\ ~first.returned
    BY <2>1, StartedIs DEF start
  <2> HIDE DEF first
  <2>3. Typed(start) /\ Tracked(start, tasks, resumed) /\ tasks \cup {} = tasks
    BY <1>3, <2>1 DEF Typed, Tracked, In
  <2>4. FailuresKept(inv) => FailuresKept(start)
    BY <2>1 DEF FailuresKept
  <2>5. Leaves(start, inv)
    BY <2>1, DocumentsLeave DEF In
  <2>6. Sane(start, resuming)
    BY <2>5, LeavesSane DEF DriverHolds
  <2>7. \A i \in Range(queue) : Node(i) \in NodeSet(workflow)
    BY DEF ScheduledOnce
  <2> HIDE DEF tasks
  <2> QED
    BY <1>5, <2>1, <2>2, <2>3, <2>4, <2>6, <2>7 DEF Submits, resumed
<1> HIDE DEF first, queue, tasks, resumed
<1>8. Submits(after, inv, tasks, resuming, {})
  BY <1>4, <1>6, <1>7, SubmitAllIs
<1>9. inv' = after.inv /\ working' = working \cup after.jobs
      /\ drivers' = IF after.inv.state = "interrupted" THEN drivers - 1 ELSE drivers
  BY <1>1 DEF Becomes
<1> HIDE DEF after
<1>10. /\ Typed(inv') /\ Tracked(inv', tasks \cup after.jobs, resumed)
       /\ after.jobs \cap DOMAIN inv.executions = {}
       /\ inv'.state \in {inv.state, "running"}
       /\ FailuresKept(inv) => FailuresKept(inv')
       /\ Sane(inv', resuming)
  BY <1>8, <1>9 DEF Submits, resumed
<1>11. Answered' = Answered /\ Exclusive' = Exclusive
  BY <1>2 DEF Answered, Exclusive, policy
<1>12. working' \cup Answered = tasks \cup after.jobs /\ working' \cap Answered = {}
  <2>1. Answered \subseteq DOMAIN inv.executions
    BY <1>3 DEF Tracked, In, tasks
  <2> QED
    BY <1>9, <1>10, <2>1 DEF DriverHolds, tasks
<1>13. ASSUME OneDriver PROVE OneDriver'
  <2>1. resuming = <<>> /\ drivers = 1 /\ state \in UnfinishedStates /\ FailuresKept(inv)
    BY <1>2, <1>13 DEF OneDriver
  <2>2. inv'.state \in UnfinishedStates \ {"created"}
    BY <1>2, <1>10, <2>1 DEF state, UnfinishedStates
  <2>3. drivers' = 1
    BY <1>9, <2>1, <2>2 DEF UnfinishedStates
  <2> QED
    BY <1>2, <1>10, <2>1, <2>2, <2>3
    DEF OneDriver, state, cursor, UnfinishedStates, TerminalStates
<1>14. Sane(inv, resuming)'
  BY <1>2, <1>10, SanePrime
<1> QED
  BY <1>2, <1>10, <1>11, <1>12, <1>13, <1>14 DEF DriverHolds, resumed

LEMMA ReceiveHolds ==
  ASSUME WorkflowKnown, DriverHolds, Receive
  PROVE  DriverHolds'
<1> DEFINE first == Started(inv)
           resumed == DOMAIN resuming
<1>1. PICK fate : inv' = ApplyAll(first, mailbox, fate).inv
  BY DEF Receive, Becomes
<1>2. /\ UNCHANGED <<workflow, working, resuming, drivers>> /\ mailbox' = <<>>
      /\ drivers > 0 /\ state # "created" /\ ~Failed(cursor)
  BY DEF Receive, Driving
<1>3. Applies(first, inv, working \cup Answered, resuming)
  <2>1. Accumulates(first) /\ first.inv = inv
    BY StartedIs DEF DriverHolds, Typed
  <2> HIDE DEF first
  <2> QED
    BY <2>1 DEF Applies, Advances, DriverHolds
<1> HIDE DEF first, resumed
<1>4. /\ Sequence(mailbox) /\ working \cap {m[1] : m \in Range(mailbox)} = {}
      /\ \A k, l \in DOMAIN mailbox : mailbox[k][1] = mailbox[l][1] => k = l
      /\ Applies(first, inv, working \cup {m[1] : m \in Range(mailbox)}, resuming)
  BY <1>3 DEF DriverHolds, Answered
<1>5. Applies(ApplyAll(first, mailbox, fate), inv, working, resuming)
  BY <1>4, ApplyAllIs
<1>6. Advances(inv', inv) /\ Tracked(inv', working, resumed) /\ Sane(inv', resuming)
  BY <1>1, <1>5 DEF Applies, resumed
<1>7. Range(<<>>) = {} /\ DOMAIN <<>> = {} /\ Sequence(<<>>)
  BY DEF Range, Sequence
<1>8. Answered' = {} /\ Exclusive' = Exclusive
  BY <1>2, <1>7 DEF Answered, Exclusive, policy
<1>9. ASSUME OneDriver PROVE OneDriver'
  <2>1. resuming = <<>> /\ drivers = 1 /\ state \in UnfinishedStates /\ FailuresKept(inv)
    BY <1>2, <1>9 DEF OneDriver
  <2>2. inv'.state = state /\ inv'.cursor = cursor /\ FailuresKept(inv')
    BY <1>6, <2>1 DEF Advances, state, cursor
  <2> QED
    BY <1>2, <2>1, <2>2 DEF OneDriver, state, cursor, UnfinishedStates, TerminalStates
<1>10. Sane(inv, resuming)'
  BY <1>2, <1>6, SanePrime
<1> QED
  BY <1>2, <1>6, <1>7, <1>8, <1>9, <1>10 DEF DriverHolds, Advances, resumed

LEMMA AnswerHolds ==
  ASSUME WorkflowKnown, DriverHolds, NEW i, NEW answer, WorkerFinishes(i, answer)
  PROVE  DriverHolds'
<1>1. /\ i \in working /\ working' = working \ {i}
      /\ mailbox' = Append(mailbox, <<i, answer>>)
      /\ UNCHANGED <<workflow, inv, resuming, drivers>>
  BY DEF WorkerFinishes
<1>2. /\ Sequence(mailbox') /\ Len(mailbox') = Len(mailbox) + 1
      /\ \A k \in 1 .. Len(mailbox) : mailbox'[k] = mailbox[k]
      /\ mailbox'[Len(mailbox) + 1] = <<i, answer>>
      /\ Range(mailbox') = Range(mailbox) \cup {<<i, answer>>}
  BY <1>1, SequenceAppend DEF DriverHolds
<1>3. Answered' = Answered \cup {i}
  <2> DEFINE new == <<i, answer>>
  <2>1. new[1] = i /\ Range(mailbox') = Range(mailbox) \cup {new}
    BY <1>2
  <2> HIDE DEF new
  <2>2. Answered' = {m[1] : m \in Range(mailbox')}
    BY DEF Answered
  <2> QED
    BY <2>1, <2>2 DEF Answered
<1>4. /\ Len(mailbox) \in Nat /\ DOMAIN mailbox = 1 .. Len(mailbox)
      /\ DOMAIN mailbox' = 1 .. Len(mailbox')
  BY <1>2, SequenceIs DEF DriverHolds
<1>5. \A k \in DOMAIN mailbox : mailbox[k][1] \in Answered
  BY DEF Answered, Range
<1>6. i \notin Answered
  BY <1>1 DEF DriverHolds
<1>7. ASSUME NEW k \in DOMAIN mailbox', NEW l \in DOMAIN mailbox',
             mailbox'[k][1] = mailbox'[l][1]
      PROVE  k = l
  <2>1. \A m \in DOMAIN mailbox' : m \in DOMAIN mailbox \/ m = Len(mailbox) + 1
    BY <1>2, <1>4
  <2>2. \A m \in DOMAIN mailbox : mailbox'[m][1] = mailbox[m][1] /\ mailbox'[m][1] # i
    BY <1>2, <1>4, <1>5, <1>6
  <2>3. mailbox'[Len(mailbox) + 1][1] = i
    BY <1>2
  <2> QED
    BY <1>7, <2>1, <2>2, <2>3 DEF DriverHolds
<1>8. working' \cup Answered' = working \cup Answered /\ working' \cap Answered' = {}
  BY <1>1, <1>3 DEF DriverHolds
<1>9. Exclusive' = Exclusive
  BY <1>1 DEF Exclusive, policy
<1>10. ASSUME OneDriver PROVE OneDriver'
  <2>1. ~(state \in TerminalStates)
    BY <1>1, <1>10 DEF OneDriver, TerminalQuiet
  <2> QED
    BY <1>1, <1>10, <2>1 DEF OneDriver, state, cursor, executions, TerminalStates
<1>11. Sane(inv, resuming)'
  BY <1>1, SanePrime DEF DriverHolds
<1> QED
  BY <1>1, <1>2, <1>7, <1>8, <1>9, <1>10, <1>11 DEF DriverHolds

(* Taking a wait's key.                                                    *)
Unkeyed(now, key) == [now EXCEPT !.waits = [k \in DOMAIN @ \ {key} |-> @[k]]]

LEMMA ClaimedIs ==
  ASSUME WorkflowKnown, DriverHolds, NEW key \in DOMAIN waits
  PROVE  LET now == Unkeyed(inv, key)
             i == waits[key]
         IN
         /\ Accumulates(Claimed(key)) /\ Claimed(key).inv = now
         /\ Typed(now) /\ Advances(now, inv) /\ i \notin DOMAIN resuming
         /\ Tracked(now, working \cup Answered, DOMAIN resuming \cup {i})
         /\ i \in DOMAIN now.executions /\ now.executions[i] = "waiting"
         /\ Sane(now, resuming) /\ Copied(now, i, Copies(inv, i))
<1> DEFINE now == Unkeyed(inv, key)
           left == [k \in DOMAIN inv.waits \ {key} |-> inv.waits[k]]
           i == inv.waits[key]
<1>0. key \in DOMAIN inv.waits /\ waits[key] = i
  BY DEF waits
<1>1. now = [inv EXCEPT !.waits = left]
  BY DEF Unkeyed
<1>2. /\ Function(left) /\ DOMAIN left = DOMAIN inv.waits \ {key}
      /\ \A k \in DOMAIN left : left[k] = inv.waits[k]
  BY DEF Function
<1> HIDE DEF left, now
<1>3. /\ Record(now) /\ now.mode = inv.mode /\ now.executions = inv.executions
      /\ now.waits = left /\ now.state = inv.state /\ now.cursor = inv.cursor
      /\ now.transitions = inv.transitions /\ now.deferred = inv.deferred
      /\ SameDocuments(now, inv)
  BY <1>1 DEF DriverHolds, Typed, Record, SameDocuments
<1>4. Typed(now) /\ Advances(now, inv)
  BY <1>2, <1>3 DEF DriverHolds, Typed, Advances, FailuresKept
<1>5. Accumulates(Claimed(key)) /\ Claimed(key).inv = now
  <2>1. Claimed(key) = SaveIfFull(Started(now), {waits[key]})
    BY DEF Claimed, now, Unkeyed, waits
  <2> DEFINE s == Started(now)
  <2>2. Accumulates(s) /\ s.inv = now
    BY <1>3, StartedIs
  <2> HIDE DEF s
  <2>3. SameButSaved(SaveIfFull(s, {waits[key]}), s)
    BY <2>2, SaveIs
  <2> QED
    BY <2>1, <2>2, <2>3 DEF s, SameButSaved
<1>6. Range(inv.waits) = In(inv, "waiting") \ DOMAIN resuming /\ i \in Range(inv.waits)
  BY <1>0 DEF DriverHolds, Tracked, Range
<1>7. i \notin DOMAIN resuming /\ i \in DOMAIN inv.executions /\ inv.executions[i] = "waiting"
  BY <1>6 DEF In
<1>8. Range(now.waits) = Range(inv.waits) \ {i}
  <2>1. \A k \in DOMAIN inv.waits : inv.waits[k] = i => k = key
    BY <1>0 DEF DriverHolds, Tracked
  <2>2. \A k \in DOMAIN left : inv.waits[k] # i
    BY <1>2, <2>1
  <2>3. Range(left) \subseteq Range(inv.waits) \ {i}
    BY <1>2, <2>2 DEF Range
  <2>4. Range(inv.waits) \ {i} \subseteq Range(left)
    BY <1>2 DEF Range
  <2> QED
    BY <1>3, <2>3, <2>4
<1>9. \A k, l \in DOMAIN now.waits : now.waits[k] = now.waits[l] => k = l
  BY <1>2, <1>3 DEF DriverHolds, Tracked
<1>10. Tracked(now, working \cup Answered, DOMAIN resuming \cup {i})
  BY <1>3, <1>6, <1>7, <1>8, <1>9 DEF DriverHolds, Tracked, In
<1>11. Sane(now, resuming) /\ Copied(now, i, Copies(inv, i))
  <2>1. Leaves(now, inv)
    BY <1>3, DocumentsLeave DEF In
  <2>2. Sane(now, resuming)
    BY <2>1, LeavesSane DEF DriverHolds
  <2>3. Copied(now, i, Copies(now, i))
    BY <1>3, <1>7, <2>2, CopiesCopied DEF Sane
  <2>4. Copies(now, i) = Copies(inv, i)
    BY <1>3 DEF Copies, SameDocuments
  <2> QED
    BY <2>2, <2>3, <2>4
<1> QED
  BY <1>0, <1>3, <1>4, <1>5, <1>7, <1>10, <1>11 DEF now

(* The resumed node ends, and the Invocation goes on or still waits.       *)
LEMMA ContinuedIs ==
  ASSUME NEW acc, Accumulates(acc), NEW before, Advances(acc.inv, before),
         NEW tasks, NEW resumed, Tracked(acc.inv, tasks, resumed),
         NEW i \in resumed, NEW copies, NEW fate,
         NEW others, Sane(acc.inv, others), i \notin DOMAIN others,
         acc.inv.executions[i] # "completed", Copied(acc.inv, i, copies)
  PROVE  LET new == Continued(acc, i, copies, fate).inv IN
         /\ Typed(new) /\ Tracked(new, tasks, resumed \ {i})
         /\ new.state \in {before.state, "running"}
         /\ FailuresKept(before) => FailuresKept(new)
         /\ new.cursor \in {before.cursor, Unfailed(before.cursor)}
         /\ Sane(new, others)
<1> DEFINE now == Conclude(acc.inv, i, copies, fate)
           mid == [acc EXCEPT !.inv = now]
           ended == Save(mid, {i})
           last == [ended EXCEPT !.inv.state = "running", !.inv.cursor = Unfailed(@)]
           new == Continued(acc, i, copies, fate).inv
<1>1. new = ended.inv \/ new = Save(last, {}).inv
  BY DEF Continued
<1>2. Advances(now, before)
  BY ConcludeAdvances
<1>3. Tracked(now, tasks, resumed \ {i})
  BY ConcludeTracked DEF Advances
<1>11. Sane(now, others)
  BY ConcludeSane DEF Tracked, Advances
<1> HIDE DEF now
<1>4. Accumulates(mid) /\ mid.inv = now
  BY <1>2 DEF Accumulates, Advances, Typed
<1> HIDE DEF mid
<1>5. Accumulates(ended) /\ ended.inv = now
  BY <1>4, SaveIs DEF SameButSaved
<1> HIDE DEF ended
<1> DEFINE c == Unfailed(ended.inv.cursor)
<1> HIDE DEF c
<1>6. last = [ended EXCEPT !.inv.state = "running", !.inv.cursor = c]
  BY DEF c
<1>7. /\ Accumulates(last) /\ last.inv.mode = now.mode
      /\ last.inv.executions = now.executions /\ last.inv.waits = now.waits
      /\ last.inv.state = "running" /\ last.inv.transitions = now.transitions
      /\ last.inv.deferred = now.deferred /\ last.inv.cursor = c
      /\ SameDocuments(last.inv, now)
  BY <1>5, <1>6 DEF Accumulates, Record, SameDocuments
<1> HIDE DEF last
<1>8. new = now \/ new = last.inv
  BY <1>1, <1>5, <1>7, SaveIs DEF SameButSaved
<1> HIDE DEF new
<1>9. CASE new = now
  BY <1>2, <1>3, <1>9, <1>11 DEF Advances, new
<1>10. CASE new = last.inv
  <2>1. Typed(new) /\ Tracked(new, tasks, resumed \ {i})
    BY <1>2, <1>3, <1>7, <1>10 DEF Advances, Typed, Accumulates, Tracked, In
  <2>2. FailuresKept(now) => FailuresKept(new)
    BY <1>7, <1>10 DEF FailuresKept
  <2>3. new.cursor = Unfailed(before.cursor)
    BY <1>2, <1>5, <1>7, <1>10 DEF Advances, c
  <2>4. Leaves(new, now)
    BY <1>7, <1>10, DocumentsLeave DEF In
  <2>5. Sane(new, others)
    BY <1>11, <2>4, LeavesSane
  <2> QED
    BY <1>2, <1>7, <1>10, <2>1, <2>2, <2>3, <2>5 DEF Advances, new
<1> QED
  BY <1>8, <1>9, <1>10

LEMMA ResumeHolds ==
  ASSUME WorkflowKnown, DriverHolds, NEW key \in DOMAIN waits, Resume(key)
  PROVE  DriverHolds'
<1> DEFINE i == waits[key]
           resumed == DOMAIN resuming
           tasks == working \cup Answered
           acc == Claimed(key)
           copies == Copies(inv, i)
<1>1. PICK fate : inv' = Continued(acc, i, copies, fate).inv
  BY DEF Resume, Continue, Becomes
<1>2. /\ UNCHANGED <<workflow, working, mailbox, resuming>> /\ drivers' = drivers + 1
      /\ Exclusive /\ drivers = 0 /\ state = "waiting"
  BY DEF Resume, Continue, Exclusive
<1>3. /\ Accumulates(acc) /\ Advances(acc.inv, inv) /\ i \notin resumed
      /\ Tracked(acc.inv, tasks, resumed \cup {i}) /\ i \notin DOMAIN resuming
      /\ Sane(acc.inv, resuming) /\ acc.inv.executions[i] # "completed"
      /\ Copied(acc.inv, i, copies)
  BY ClaimedIs
<1> HIDE DEF i, acc, copies, resumed, tasks
<1>4. i \in resumed \cup {i} /\ (resumed \cup {i}) \ {i} = resumed
  BY <1>3
<1>5. /\ Typed(inv') /\ Tracked(inv', tasks, (resumed \cup {i}) \ {i})
      /\ inv'.state \in {inv.state, "running"}
      /\ FailuresKept(inv) => FailuresKept(inv')
      /\ inv'.cursor \in {inv.cursor, Unfailed(inv.cursor)}
      /\ Sane(inv', resuming)
  BY <1>1, <1>3, <1>4, ContinuedIs
<1>6. Answered' = Answered /\ Exclusive' = Exclusive
  BY <1>2 DEF Answered, Exclusive, policy
<1>7. OneDriver'
  <2>1. resuming = <<>> /\ FailuresKept(inv)
    BY <1>2 DEF OneDriver, DriverHolds, UnfinishedStates
  <2>2. inv'.state \in {"waiting", "running"} /\ FailuresKept(inv') /\ drivers' = 1
    BY <1>2, <1>5, <2>1 DEF state
  <2> QED
    BY <1>2, <2>1, <2>2 DEF OneDriver, state, UnfinishedStates, TerminalStates
<1>8. Sane(inv, resuming)'
  BY <1>2, <1>5, SanePrime
<1> QED
  BY <1>2, <1>4, <1>5, <1>6, <1>7, <1>8 DEF DriverHolds, resumed, tasks

LEMMA ResumeSuspendsHolds ==
  ASSUME WorkflowKnown, DriverHolds, NEW key \in DOMAIN waits, ResumeSuspends(key)
  PROVE  DriverHolds'
<1> DEFINE i == waits[key]
           now == Unkeyed(inv, key)
<1>1. /\ inv' = Claimed(key).inv /\ ~Exclusive
      /\ UNCHANGED <<workflow, working, mailbox, drivers>>
      /\ resuming' = Extend(resuming, i, Copies(inv, i))
  BY DEF ResumeSuspends, Claim, Becomes, Exclusive
<1>2. /\ inv' = now /\ Typed(now)
      /\ Tracked(now, working \cup Answered, DOMAIN resuming \cup {i})
      /\ Sane(now, resuming) /\ Copied(now, i, Copies(inv, i))
      /\ i \in DOMAIN now.executions /\ now.executions[i] # "completed"
  BY <1>1, ClaimedIs
<1>3. DOMAIN resuming' = DOMAIN resuming \cup {i}
  BY <1>1 DEF Extend
<1>4. Answered' = Answered /\ Exclusive' = Exclusive
  BY <1>1 DEF Answered, Exclusive, policy
<1>5. Sane(inv, resuming)'
  <2>1. resuming'[i] = Copies(inv, i) /\ \A j \in DOMAIN resuming : j # i => resuming'[j] = resuming[j]
    BY <1>1 DEF Extend
  <2> HIDE DEF i, now
  <2>2. \A j \in DOMAIN resuming' : /\ j \in DOMAIN now.executions
                                   /\ now.executions[j] # "completed"
                                   /\ Copied(now, j, resuming'[j])
    BY <1>2, <1>3, <2>1 DEF Sane
  <2>3. Sane(inv', resuming')
    BY <1>2, <2>2 DEF Sane
  <2> QED
    BY <1>1, <2>3, SanePrime
<1> QED
  BY <1>1, <1>2, <1>3, <1>4, <1>5 DEF DriverHolds

LEMMA ResumeContinuesHolds ==
  ASSUME WorkflowKnown, DriverHolds, NEW i, ResumeContinues(i)
  PROVE  DriverHolds'
<1> DEFINE resumed == DOMAIN resuming
           tasks == working \cup Answered
           acc == Started(inv)
           copies == resuming[i]
<1>1. i \in resumed /\ resuming' = [j \in resumed \ {i} |-> resuming[j]]
      /\ UNCHANGED <<workflow, working, mailbox>>
  BY DEF ResumeContinues, Continue
<1>2. PICK fate : inv' = Continued(acc, i, copies, fate).inv
  BY DEF ResumeContinues, Continue, Becomes
<1>3. Exclusive => resumed = {}
  BY DEF DriverHolds, OneDriver
<1>4. /\ Accumulates(acc) /\ Advances(acc.inv, inv) /\ Tracked(acc.inv, tasks, resumed)
      /\ Sane(acc.inv, resuming)
  <2>1. Accumulates(acc) /\ acc.inv = inv
    BY StartedIs DEF DriverHolds, Typed
  <2> HIDE DEF acc
  <2> QED
    BY <2>1 DEF Advances, DriverHolds
<1>5. DOMAIN resuming' = resumed \ {i}
  BY <1>1
<1>8. /\ Sane(acc.inv, resuming') /\ i \notin DOMAIN resuming'
      /\ acc.inv.executions[i] # "completed" /\ Copied(acc.inv, i, copies)
  <2>1. \A j \in DOMAIN resuming' : j \in DOMAIN resuming /\ resuming'[j] = resuming[j]
    BY <1>1
  <2> HIDE DEF acc
  <2> QED
    BY <1>1, <1>4, <1>5, <2>1 DEF Sane
<1> HIDE DEF acc, copies, resumed, tasks
<1>6. Typed(inv') /\ Tracked(inv', tasks, resumed \ {i}) /\ Sane(inv', resuming')
  BY <1>1, <1>2, <1>4, <1>8, ContinuedIs
<1>9. Sane(inv, resuming)'
  BY <1>1, <1>6, SanePrime
<1>7. Answered' = Answered /\ Exclusive' = Exclusive
  BY <1>1 DEF Answered, Exclusive, policy
<1> QED
  BY <1>1, <1>3, <1>5, <1>6, <1>7, <1>9 DEF DriverHolds, tasks

-----------------------------------------------------------------------------
(* The invariant, and what follows from it.                                *)

DriverInv ==
  /\ WorkflowKnown /\ crashes \in Nat
  /\ crashes = 0 => DriverHolds

LEMMA DriverInit ==
  ASSUME Init
  PROVE  DriverInv
<1>1. /\ WorkflowKnown /\ inv = NewInvocation(workflow.entry)
      /\ working = {} /\ mailbox = <<>> /\ resuming = <<>> /\ drivers = 1 /\ crashes = 0
  BY DEF Init, WorkflowKnown
<1>2. Range(<<>>) = {} /\ DOMAIN <<>> = {} /\ Sequence(<<>>) /\ Function(<<>>)
  BY DEF Range, Sequence, Function
<1> DEFINE c == Genesis(workflow.entry)
           x == [k \in Contexts |-> Empty]
<1> HIDE DEF c, x
<1>3. inv = [cursor |-> c, executions |-> <<>>, replays |-> <<>>,
             transitions |-> <<>>, waits |-> <<>>, state |-> "created",
             deferred |-> "none", mode |-> "normal",
             contexts |-> x, bases |-> <<>>, commits |-> <<>>]
  BY <1>1 DEF NewInvocation, c, x
<1>4. /\ Record(inv) /\ inv.executions = <<>> /\ inv.waits = <<>> /\ inv.transitions = <<>>
      /\ inv.state = "created" /\ inv.mode = "normal"
  BY <1>3 DEF Record
<1>8. Sane(inv, resuming)
  <2>1. \A k \in Contexts : IsContext(inv.contexts[k])
    <3>1. <<>> \in Paths
      BY DEF Paths
    <3> DEFINE d == [p \in {<<>>} |-> Dict]
    <3>2. DOMAIN d = {<<>>} /\ d[<<>>] = Dict /\ d = [p \in DOMAIN d |-> d[p]]
      OBVIOUS
    <3> HIDE DEF d
    <3>3. Tree(d)
      BY <3>1, <3>2 DEF Tree
    <3>4. Empty = [data |-> d, revision |-> 0, paths |-> <<>>]
      BY DEF Empty, d
    <3>5. IsContext(Empty)
      BY <1>2, <3>3, <3>4 DEF IsContext
    <3> QED
      BY <1>3, <3>5 DEF x
  <2>2. \A k \in Contexts : \A p \in DOMAIN inv.contexts[k].data : inv.contexts[k].data[p] = Dict
    BY <1>3 DEF x, Empty
  <2>3. /\ inv.contexts = [k \in Contexts |-> inv.contexts[k]]
        /\ inv.commits = <<>>
    BY <1>3 DEF x
  <2>4. In(inv, "completed") = {}
    BY <1>2, <1>4 DEF In
  <2>5. Revised(inv)
    BY <1>2, <1>4, <2>1, <2>3, <2>4 DEF Revised
  <2>6. Published(inv)
    BY <2>2, <2>4 DEF Published
  <2> QED
    BY <1>1, <1>2, <2>5, <2>6 DEF Sane
<1>5. In(inv, "running") = {} /\ In(inv, "waiting") = {} /\ Answered = {}
  BY <1>1, <1>2, <1>4 DEF In, Answered
<1>6. Typed(inv) /\ Tracked(inv, {}, {})
  BY <1>2, <1>4, <1>5 DEF Typed, Tracked
<1>7. OneDriver
  <2>1. FailuresKept(inv)
    BY <1>2, <1>4 DEF FailuresKept
  <2> QED
    BY <1>1, <1>2, <1>4, <2>1
    DEF OneDriver, state, executions, UnfinishedStates, TerminalStates
<1> QED
  BY <1>1, <1>2, <1>5, <1>6, <1>7, <1>8 DEF DriverInv, DriverHolds

LEMMA DriverStep ==
  ASSUME DriverInv, ScheduledOnce, [Next]_vars
  PROVE  DriverInv'
<1>1. CASE UNCHANGED vars
  <2>1. UNCHANGED <<workflow, inv, working, mailbox, resuming, drivers, saved, crashes>>
    BY <1>1 DEF vars
  <2>2. Sane(inv, resuming) => Sane(inv, resuming)'
    BY <2>1, SanePrime
  <2> HIDE DEF Sane
  <2> QED
    BY <2>1, <2>2 DEF DriverInv, WorkflowKnown, DriverHolds, Answered, OneDriver, Exclusive,
       policy, state, executions, cursor, TerminalQuiet, Pending, Active, transitions, waits
<1>2. CASE \E image \in Range(saved) : Crash(image)
  <2>1. workflow' = workflow /\ crashes' = crashes + 1
    BY <1>2 DEF Crash
  <2> QED
    BY <2>1 DEF DriverInv, WorkflowKnown
<1>3. CASE Drive \/ Answer \/ Cancel
           \/ (\E key \in DOMAIN waits : Resume(key) \/ ResumeSuspends(key))
           \/ (\E i \in DOMAIN resuming : ResumeContinues(i))
  <2>1. workflow' = workflow /\ crashes' = crashes
    BY <1>3 DEF Drive, Answer, Cancel, Resume, ResumeSuspends, ResumeContinues, Continue, Start,
       Route, Submit, Receive, Park, TerminateFailed, TerminateInterrupted, Complete, DeadEnd,
       FinishFailed, Raise, Stop, FailWith, Abandon, WorkerFinishes
  <2> SUFFICES ASSUME DriverHolds PROVE DriverHolds'
    BY <2>1 DEF DriverInv, WorkflowKnown
  <2>0. WorkflowKnown
    BY DEF DriverInv
  <2>2. CASE Start
    BY <2>0, <2>2, StartHolds
  <2>3. CASE \E i \in DOMAIN executions : Route(i)
    BY <2>0, <2>3, RouteHolds
  <2>4. CASE Submit
    BY <2>0, <2>4, SubmitHolds
  <2>5. CASE Receive
    BY <2>0, <2>5, ReceiveHolds
  <2>6. CASE Park
    BY <2>0, <2>6, ParkHolds
  <2>7. CASE TerminateFailed
    <3>1. Stable /\ FailWith("DEFERRED_BRANCH_FAILURE")
      BY <2>7 DEF TerminateFailed
    <3> QED
      BY <2>0, <3>1, FailWithHolds
  <2>8. CASE DeadEnd
    <3>1. Stable /\ FailWith("WORKFLOW_DEAD_END")
      BY <2>8 DEF DeadEnd
    <3> QED
      BY <2>0, <3>1, FailWithHolds
  <2>9. CASE TerminateInterrupted
    <3>1. Stable /\ waits = <<>> /\ Stop("interrupted")
      BY <2>9 DEF TerminateInterrupted
    <3> QED
      BY <2>0, <3>1, EndHolds
  <2>10. CASE Complete
    <3>1. Stable /\ waits = <<>> /\ Stop("completed") /\ deferred = "none"
      BY <2>10 DEF Complete
    <3> QED
      BY <2>0, <3>1, EndHolds
  <2>11. CASE FinishFailed \/ Raise
    BY <2>0, <2>11, AbandonHolds DEF FinishFailed, Raise
  <2>12. CASE Cancel
    BY <2>0, <2>12, AbandonHolds DEF Cancel
  <2>13. CASE Answer
    BY <2>0, <2>13, AnswerHolds DEF Answer
  <2>14. CASE \E key \in DOMAIN waits : Resume(key) \/ ResumeSuspends(key)
    BY <2>0, <2>14, ResumeHolds, ResumeSuspendsHolds
  <2>15. CASE \E i \in DOMAIN resuming : ResumeContinues(i)
    BY <2>0, <2>15, ResumeContinuesHolds
  <2> QED
    BY <1>3, <2>2, <2>3, <2>4, <2>5, <2>6, <2>7, <2>8, <2>9, <2>10, <2>11, <2>12, <2>13,
       <2>14, <2>15 DEF Drive
<1> QED
  BY <1>1, <1>2, <1>3 DEF Next, Finished, Stranded

LEMMA DriverMeans ==
  ASSUME DriverInv, crashes = 0
  PROVE  WaitsExact /\ QuietAtEnd /\ NothingLost /\ ContextsExact
<1>1. DriverHolds
  BY DEF DriverInv
<1>2. WaitsExact
  <2>1. In(inv, "waiting") = {i \in DOMAIN executions : executions[i] = "waiting"}
    BY DEF In, executions
  <2> QED
    BY <1>1, <2>1 DEF DriverHolds, Tracked, WaitsExact, waits
<1>3. QuietAtEnd
  BY <1>1 DEF DriverHolds, OneDriver, QuietAtEnd, TerminalQuiet
<1>4. NothingLost
  BY <1>1 DEF DriverHolds, OneDriver, NothingLost, AllCompleted, cursor, executions
<1>5. ContextsExact
  <2>1. Revised(inv) /\ Published(inv)
    BY <1>1 DEF DriverHolds, Sane
  <2>2. ASSUME NEW k \in Contexts, NEW p \in DOMAIN contexts[k].data,
               contexts[k].data[p] # Dict
        PROVE  LET i == contexts[k].data[p][1]
               IN  executions[i] = "completed" /\ p \in policy.writes[Node(i)][k]
    <3>1. PICK i \in DOMAIN inv.commits :
            contexts[k].data[p] = <<i>> /\ Wrote(inv, k, p, i)
      BY <2>1, <2>2 DEF Published, contexts
    <3>2. contexts[k].data[p][1] = i
      BY <3>1
    <3> QED
      BY <3>1, <3>2 DEF Wrote, In, Writes, executions
  <2>3. ASSUME NEW i \in DOMAIN executions, executions[i] = "completed",
               NEW k \in Contexts, NEW p \in policy.writes[Node(i)][k]
        PROVE  \/ p \in DOMAIN contexts[k].data /\ contexts[k].data[p] = <<i>>
               \/ \E j \in DOMAIN commits :
                    /\ commits[j][k] > commits[i][k] /\ bases[j][k] >= commits[i][k]
                    /\ \E q \in policy.writes[Node(j)][k] : PathsOverlap(p, q)
    <3>1. i \in In(inv, "completed") /\ p \in Writes(i, k)
      BY <2>3 DEF In, Writes, executions
    <3> QED
      BY <2>1, <3>1 DEF Published, Holds, Writes, contexts, commits, bases
  <2> QED
    BY <2>2, <2>3 DEF ContextsExact
<1> QED
  BY <1>2, <1>3, <1>4, <1>5

LEMMA DriverKept ==
  Spec /\ []ScheduledOnce => []DriverInv
<1>1. Init => DriverInv
  BY DriverInit
<1>2. DriverInv /\ ScheduledOnce /\ [Next]_vars => DriverInv'
  BY DriverStep
<1> QED
  BY <1>1, <1>2, PTL DEF Spec

(* Until the process crashes, and whatever else its Scheduler does as long *)
(* as it hands out each instance once, each waiting execution can be       *)
(* resumed under one key of its own that nothing else holds, also while    *)
(* several drivers share the Invocation.                                   *)
THEOREM WaitsStayExact ==
  Spec /\ []ScheduledOnce => [](crashes = 0 => WaitsExact)
<1>1. DriverInv => (crashes = 0 => WaitsExact)
  BY DriverMeans
<1> QED
  BY <1>1, DriverKept, PTL

(* Until the process crashes, an Invocation that is over is at rest: no    *)
(* execution, worker, wait, resume or queue of it is left, where one       *)
(* driver runs at a time.                                                  *)
THEOREM EndIsQuiet ==
  Spec /\ []ScheduledOnce => [](crashes = 0 => QuietAtEnd)
<1>1. DriverInv => (crashes = 0 => QuietAtEnd)
  BY DriverMeans
<1> QED
  BY <1>1, DriverKept, PTL

(* Until the process crashes, an Invocation completes only when everything *)
(* that its Scheduler selected has completed: no failure is forgotten, and *)
(* no branch is dropped.                                                   *)
THEOREM CompletionLosesNothing ==
  Spec /\ []ScheduledOnce => [](crashes = 0 => NothingLost)
<1>1. DriverInv => (crashes = 0 => NothingLost)
  BY DriverMeans
<1> QED
  BY <1>1, DriverKept, PTL

(* Until the process crashes, the contexts are what the bindings of the    *)
(* completed nodes made of them, whichever branches ran side by side and   *)
(* whatever was resumed meanwhile: commit_isolated loses no update but one *)
(* that a later node wrote over knowingly, and _run_output_binding leaves  *)
(* nothing of a binding that failed in either context.                     *)
THEOREM ContextsStayExact ==
  Spec /\ []ScheduledOnce => [](crashes = 0 => ContextsExact)
<1>1. DriverInv => (crashes = 0 => ContextsExact)
  BY DriverMeans
<1> QED
  BY <1>1, DriverKept, PTL

-----------------------------------------------------------------------------
(* The replays of a recovery.  What the RecoveryPolicy of w permits holds  *)
(* of the Invocation and of every image of it that a crash may leave.      *)
Gated(now, w) ==
  /\ Typed(now) /\ IsFiniteSet(DOMAIN now.executions)
  /\ DOMAIN now.executions \subseteq DOMAIN now.replays
  /\ \A i \in DOMAIN now.replays :
       now.replays[i] \in Nat /\ now.replays[i] <= w.policy.recovery[Node(i)]

AllGated(images, w) ==
  /\ Sequence(images) /\ \A image \in Range(images) : Gated(image, w)
  /\ w.policy.crashes # 0 => images # <<>>

(* Only what may run again in a recovery is handed to a worker.            *)
Replayable(tasks, now, w) ==
  /\ tasks \subseteq DOMAIN now.executions
  /\ now.mode = "recovery" => \A i \in tasks : w.policy.recovery[Node(i)] > 0

RecoveryInv ==
  /\ WorkflowKnown /\ Gated(inv, workflow) /\ AllGated(saved, workflow)
  /\ Replayable(working, inv, workflow) /\ Sequence(mailbox)
  /\ Answered \subseteq DOMAIN inv.executions
  /\ DOMAIN resuming \subseteq DOMAIN inv.executions

(* An accumulator of which this holds, in an Invocation that had before    *)
(* its step the executions and the mode of before.                         *)
Guarded(acc, before, w) ==
  /\ Accumulates(acc) /\ Gated(acc.inv, w) /\ AllGated(acc.saved, w)
  /\ acc.inv.mode = before.mode
  /\ DOMAIN before.executions \subseteq DOMAIN acc.inv.executions

LEMMA ImageGated ==
  ASSUME NEW w, NEW previous, Gated(previous, w), NEW now, Gated(now, w),
         NEW changed, changed \subseteq DOMAIN now.executions
  PROVE  Gated(Image(previous, now, changed), w)
<1> DEFINE image == Image(previous, now, changed)
           e == Written(previous.executions, now.executions, changed)
           r == Written(previous.replays, now.replays, changed)
           b == Written(previous.bases, now.bases, changed)
<1>1. image = [now EXCEPT !.executions = e, !.replays = r, !.bases = b]
  BY DEF Image
<1>2. /\ DOMAIN e = DOMAIN previous.executions \cup changed /\ Function(e)
      /\ DOMAIN r = DOMAIN previous.replays \cup changed
      /\ \A i \in DOMAIN r :
           r[i] = IF i \in changed THEN now.replays[i] ELSE previous.replays[i]
  BY DEF Written, Function
<1> HIDE DEF image, e, r, b
<1>3. /\ Record(image) /\ image.executions = e /\ image.replays = r
      /\ image.waits = now.waits /\ image.transitions = now.transitions
  BY <1>1 DEF Gated, Typed, Record
<1>4. Typed(image)
  BY <1>2, <1>3 DEF Gated, Typed
<1>5. IsFiniteSet(DOMAIN e)
  <2>1. IsFiniteSet(changed) /\ IsFiniteSet(DOMAIN previous.executions)
    BY FS_Subset DEF Gated
  <2>2. IsFiniteSet(DOMAIN previous.executions \cup changed)
    BY <2>1, FS_Union
  <2> QED
    BY <1>2, <2>2
<1>6. DOMAIN e \subseteq DOMAIN r
  BY <1>2 DEF Gated
<1>7. \A i \in DOMAIN r : r[i] \in Nat /\ r[i] <= w.policy.recovery[Node(i)]
  BY <1>2 DEF Gated
<1> QED
  BY <1>3, <1>4, <1>5, <1>6, <1>7 DEF Gated, image

LEMMA LastGated ==
  ASSUME NEW w, NEW images, AllGated(images, w), w.policy.crashes # 0
  PROVE  Gated(Last(images), w)
<1>1. /\ Len(images) \in Nat /\ DOMAIN images = 1 .. Len(images) /\ images # <<>>
      /\ images = [k \in 1 .. Len(images) |-> images[k]]
  BY SequenceIs DEF AllGated
<1>2. Len(images) # 0
  <2> DEFINE T == Range(images)
  <2>1. images \in Seq(T) /\ images # <<>>
    BY <1>1 DEF AllGated, Sequence
  <2> HIDE DEF T
  <2> QED
    BY <2>1
<1>3. Last(images) = images[Len(images)] /\ Len(images) \in DOMAIN images
  BY <1>1, <1>2 DEF Last
<1>4. Last(images) \in Range(images)
  BY <1>3 DEF Range
<1> QED
  BY <1>4 DEF AllGated

(* More images after those there are.                                      *)
LEMMA MoreGated ==
  ASSUME NEW w, NEW images, AllGated(images, w), NEW more, Sequence(more),
         \A image \in Range(more) : Gated(image, w)
  PROVE  AllGated(images \o more, w)
<1>1. Sequence(images)
  BY DEF AllGated
<1>2. /\ Sequence(images \o more) /\ Range(images \o more) = Range(images) \cup Range(more)
      /\ Len(images \o more) = Len(images) + Len(more)
  BY <1>1, SequenceConcat
<1>3. images # <<>> => images \o more # <<>>
  <2> DEFINE T == Range(images)
             r == images \o more
  <2>1. images \in Seq(T) /\ Len(more) \in Nat /\ Len(r) = Len(images) + Len(more)
    BY <1>1, <1>2, SequenceIs DEF Sequence
  <2> HIDE DEF T, r
  <2>2. images # <<>> => Len(images) # 0 /\ Len(images) \in Nat
    BY <2>1
  <2>3. Len(<<>>) = 0
    OBVIOUS
  <2>4. images # <<>> => r # <<>>
    BY <2>1, <2>2, <2>3
  <2> QED
    BY <2>4 DEF r
<1> QED
  BY <1>2, <1>3 DEF AllGated

LEMMA OneGated ==
  ASSUME NEW w, NEW image, Gated(image, w)
  PROVE  AllGated(<<image>>, w)
<1>1. <<image>> \in Seq({image}) /\ <<image>> # <<>>
  OBVIOUS
<1>2. Sequence(<<image>>) /\ Range(<<image>>) \subseteq {image}
  BY <1>1, SequenceOfAny
<1> QED
  BY <1>1, <1>2 DEF AllGated

LEMMA StartedGuarded ==
  ASSUME AllGated(saved, workflow), NEW now, Gated(now, workflow)
  PROVE  Guarded(Started(now), now, workflow)
<1> DEFINE acc == Started(now)
<1>1. Accumulates(acc) /\ acc.inv = now
  BY StartedIs DEF Gated, Typed
<1>2. acc.saved = IF saved = <<>> THEN <<>> ELSE <<Last(saved)>>
  BY DEF Started
<1> HIDE DEF acc
<1>3. AllGated(acc.saved, workflow)
  <2>1. CASE saved = <<>>
    BY <1>2, <2>1
  <2>2. CASE saved # <<>>
    <3>1. Gated(Last(saved), workflow)
      <4>1. /\ Len(saved) \in Nat /\ DOMAIN saved = 1 .. Len(saved)
        BY SequenceIs DEF AllGated
      <4>2. Len(saved) # 0
        <5> DEFINE T == Range(saved)
        <5>1. saved \in Seq(T)
          BY DEF AllGated, Sequence
        <5> HIDE DEF T
        <5> QED
          BY <2>2, <5>1
      <4>3. Last(saved) = saved[Len(saved)] /\ Len(saved) \in DOMAIN saved
        BY <4>1, <4>2 DEF Last
      <4>4. Last(saved) \in Range(saved)
        BY <4>3 DEF Range
      <4> QED
        BY <4>4 DEF AllGated
    <3> QED
      BY <1>2, <2>2, <3>1, OneGated
  <2> QED
    BY <2>1, <2>2
<1> QED
  BY <1>1, <1>3 DEF Guarded, acc

LEMMA SaveGuarded ==
  ASSUME NEW acc, NEW before, Guarded(acc, before, workflow),
         NEW changed, changed \subseteq DOMAIN acc.inv.executions
  PROVE  /\ Guarded(Save(acc, changed), before, workflow)
         /\ Guarded(SaveIfFull(acc, changed), before, workflow)
         /\ Guarded(SaveEach(acc, changed), before, workflow)
         /\ Guarded(SaveSkipped(acc), before, workflow)
<1>1. Accumulates(acc) /\ Gated(acc.inv, workflow) /\ AllGated(acc.saved, workflow)
  BY DEF Guarded
<1>2. ASSUME NEW new, AllGated(new, workflow)
      PROVE  Guarded([acc EXCEPT !.saved = new], before, workflow)
  <2> DEFINE next == [acc EXCEPT !.saved = new]
  <2>1. Accumulates(next) /\ next.inv = acc.inv /\ next.saved = new
    BY <1>1 DEF Accumulates
  <2> HIDE DEF next
  <2>2. Guarded(next, before, workflow)
    BY <1>2, <2>1 DEF Guarded
  <2> QED
    BY <2>2 DEF next
<1>3. ASSUME NEW some, some \subseteq DOMAIN acc.inv.executions
      PROVE  Guarded(Save(acc, some), before, workflow)
  <2>1. CASE policy.crashes = 0
    BY <2>1 DEF Save
  <2>2. CASE policy.crashes # 0
    <3> DEFINE image == Image(Last(acc.saved), acc.inv, some)
               new == Append(acc.saved, image)
    <3>1. Gated(Last(acc.saved), workflow)
      BY <1>1, <2>2, LastGated DEF policy
    <3>2. Gated(image, workflow)
      BY <1>1, <1>3, <3>1, ImageGated
    <3> HIDE DEF image
    <3>3. /\ Sequence(new) /\ Range(new) = Range(acc.saved) \cup {image}
          /\ Len(new) = Len(acc.saved) + 1 /\ Len(acc.saved) \in Nat
      BY <1>1, SequenceAppend, SequenceIs DEF AllGated
    <3>4. new # <<>>
      <4>1. Len(<<>>) = 0
        OBVIOUS
      <4> HIDE DEF new
      <4> QED
        BY <3>3, <4>1
    <3> HIDE DEF new
    <3>5. AllGated(new, workflow)
      BY <1>1, <3>2, <3>3, <3>4 DEF AllGated
    <3>6. Save(acc, some) = [acc EXCEPT !.saved = new]
      BY <2>2 DEF Save, new, image
    <3> QED
      BY <1>2, <3>5, <3>6
  <2> QED
    BY <2>1, <2>2
<1>4. Guarded(SaveEach(acc, changed), before, workflow)
  <2>1. CASE policy.crashes = 0
    BY <2>1 DEF SaveEach
  <2>2. CASE policy.crashes # 0
    <3> DEFINE order == SetToSeq(changed)
               some(k) == {order[j] : j \in 1 .. k}
               image(k) == Image(Last(acc.saved), acc.inv, some(k))
               more == [k \in DOMAIN order |-> image(k)]
               new == acc.saved \o more
    <3>1. Gated(Last(acc.saved), workflow)
      BY <1>1, <2>2, LastGated DEF policy
    <3>2. IsFiniteSet(changed)
      BY <1>1, FS_Subset DEF Gated
    <3>3. order \in Seq(changed) /\ Len(order) \in Nat /\ DOMAIN order = 1 .. Len(order)
          /\ \A k \in 1 .. Len(order) : order[k] \in changed
      BY <3>2, SequenceOf
    <3>4. ASSUME NEW k \in 1 .. Len(order) PROVE Gated(image(k), workflow)
      <4>1. some(k) \subseteq DOMAIN acc.inv.executions
        <5> SUFFICES ASSUME NEW j \in 1 .. k PROVE order[j] \in changed
          OBVIOUS
        <5>1. j \in 1 .. Len(order)
          BY <3>3
        <5> QED
          BY <3>3, <5>1
      <4> HIDE DEF some
      <4> QED
        BY <1>1, <3>1, <4>1, ImageGated
    <3> HIDE DEF order, image
    <3>5. DOMAIN more = 1 .. Len(order) /\ more = [k \in 1 .. Len(order) |-> more[k]]
          /\ \A k \in 1 .. Len(order) : more[k] = image(k)
      BY <3>3
    <3> HIDE DEF more
    <3>6. Sequence(more)
      BY <3>3, <3>5, SequenceMade
    <3>7. \A x \in Range(more) : Gated(x, workflow)
      BY <3>4, <3>5 DEF Range
    <3>8. AllGated(new, workflow)
      BY <1>1, <3>6, <3>7, MoreGated
    <3> HIDE DEF new
    <3>9. SaveEach(acc, changed) = [acc EXCEPT !.saved = new]
      BY <2>2 DEF SaveEach, new, more, image, order
    <3> QED
      BY <1>2, <3>8, <3>9
  <2> QED
    BY <2>1, <2>2
<1>5. Guarded(Save(acc, {}), before, workflow)
  BY <1>3
<1> QED
  BY <1>3, <1>4, <1>5 DEF SaveIfFull, SaveSkipped

(* What the replays depend on is as it was.                                *)
SameReplays(after, now) ==
  /\ Typed(after) /\ DOMAIN after.executions = DOMAIN now.executions
  /\ after.replays = now.replays /\ after.mode = now.mode
Moves(after, acc) ==
  Accumulates(after) /\ after.saved = acc.saved /\ SameReplays(after.inv, acc.inv)

LEMMA SameGated ==
  ASSUME NEW w, NEW now, Gated(now, w), NEW after, SameReplays(after, now)
  PROVE  Gated(after, w)
BY DEF Gated, SameReplays

LEMMA MovesGuarded ==
  ASSUME NEW w, NEW acc, NEW before, Guarded(acc, before, w), NEW after, Moves(after, acc)
  PROVE  Guarded(after, before, w)
<1>1. Gated(after.inv, w)
  BY SameGated DEF Guarded, Moves
<1> QED
  BY <1>1 DEF Guarded, Moves, SameReplays

LEMMA EndMoves ==
  ASSUME NEW now, Typed(now), NEW i, NEW end
  PROVE  SameReplays(EndNode(now, i, end), now)
<1> DEFINE after == EndNode(now, i, end)
<1>1. Ends(after, now, i, end)
  BY EndNodeIs
<1> HIDE DEF after
<1>2. SameReplays(after, now)
  BY <1>1 DEF Ends, SameReplays, Replace
<1> QED
  BY <1>2 DEF after

LEMMA ConcludeMoves ==
  ASSUME NEW now, Typed(now), NEW i, NEW copies, NEW fate
  PROVE  SameReplays(Conclude(now, i, copies, fate), now)
<1>1. Concludes(Conclude(now, i, copies, fate), now, i)
  BY ConcludeIs
<1>2. PICK base, end : /\ SameButContexts(base, now) /\ end \in {"completed", "failed"}
                       /\ Conclude(now, i, copies, fate) = EndNode(base, i, end)
  BY <1>1 DEF Concludes
<1>3. SameReplays(EndNode(base, i, end), base)
  BY <1>2, EndMoves DEF SameButContexts
<1> QED
  BY <1>2, <1>3 DEF SameReplays, SameButContexts

LEMMA QuietMoves ==
  ASSUME NEW now, Typed(now), NEW end
  PROVE  SameReplays(Quiet(now, end), now)
<1> DEFINE after == Quiet(now, end)
<1>1. /\ Record(after) /\ after.replays = now.replays /\ after.mode = now.mode
      /\ after.waits = <<>> /\ after.transitions = <<>>
      /\ after.executions = [i \in DOMAIN now.executions |->
                               IF i \in ActiveIn(now) THEN end ELSE now.executions[i]]
  BY DEF Quiet, Typed, Record
<1> HIDE DEF after
<1>2. Function(after.executions) /\ DOMAIN after.executions = DOMAIN now.executions
  BY <1>1 DEF Function
<1>3. Function(after.waits)
  BY <1>1 DEF Function
<1>4. Sequence(after.transitions)
  <2>1. <<>> \in Seq(Range(<<>>))
    OBVIOUS
  <2> QED
    BY <1>1, <2>1 DEF Sequence
<1>5. SameReplays(after, now)
  BY <1>1, <1>2, <1>3, <1>4 DEF SameReplays, Typed
<1> QED
  BY <1>5 DEF after

(* Nothing is handed out.                                                  *)
Rests(after, acc) ==
  after.jobs = acc.jobs /\ DOMAIN after.inv.executions = DOMAIN acc.inv.executions

LEMMA InterruptGuarded ==
  ASSUME NEW acc, NEW before, Guarded(acc, before, workflow)
  PROVE  /\ Guarded(InterruptRecovery(acc), before, workflow)
         /\ Rests(InterruptRecovery(acc), acc)
<1> DEFINE gone == ActiveIn(acc.inv)
           now == Quiet(acc.inv, "interrupted")
           first == [acc EXCEPT !.inv = now]
           quiet == SaveEach(first, gone)
           ended == [quiet EXCEPT !.inv.state = "interrupted", !.inv.deferred = "none"]
           last == Save(ended, gone)
           after == [last EXCEPT !.returned = TRUE]
<1>1. Accumulates(acc) /\ Typed(acc.inv) /\ gone \subseteq DOMAIN acc.inv.executions
  BY DEF Guarded, Gated, ActiveIn
<1>2. SameReplays(now, acc.inv)
  BY <1>1, QuietMoves
<1>3. after = InterruptRecovery(acc)
  BY DEF InterruptRecovery, InterruptUnfinished
<1> HIDE DEF now
<1>4. Moves(first, acc)
  BY <1>1, <1>2 DEF Moves, Accumulates, SameReplays, Typed
<1>5. /\ Guarded(first, before, workflow) /\ gone \subseteq DOMAIN first.inv.executions
      /\ Rests(first, acc)
  <2>1. first.jobs = acc.jobs
    BY <1>1 DEF Accumulates
  <2> HIDE DEF first
  <2> QED
    BY <1>1, <1>4, <2>1, MovesGuarded DEF Moves, SameReplays, Rests
<1> HIDE DEF first
<1>6. Guarded(quiet, before, workflow) /\ quiet.inv = first.inv /\ quiet.jobs = first.jobs
  BY <1>5, SaveGuarded, SaveIs DEF Guarded, SameButSaved
<1> HIDE DEF quiet
<1>7. Moves(ended, quiet) /\ ended.jobs = quiet.jobs
  <2>1. Accumulates(quiet) /\ Typed(quiet.inv)
    BY <1>6 DEF Guarded, Gated
  <2>2. /\ Accumulates(ended) /\ ended.saved = quiet.saved /\ ended.jobs = quiet.jobs
        /\ ended.inv.executions = quiet.inv.executions /\ ended.inv.waits = quiet.inv.waits
        /\ ended.inv.transitions = quiet.inv.transitions
        /\ ended.inv.replays = quiet.inv.replays /\ ended.inv.mode = quiet.inv.mode
    BY <2>1 DEF Accumulates, Record
  <2> HIDE DEF ended
  <2> QED
    BY <2>1, <2>2 DEF Moves, SameReplays, Typed, Accumulates
<1>8. /\ Guarded(ended, before, workflow) /\ gone \subseteq DOMAIN ended.inv.executions
      /\ Rests(ended, acc)
  BY <1>5, <1>6, <1>7, MovesGuarded DEF Moves, SameReplays, Rests
<1> HIDE DEF ended
<1>9. Guarded(last, before, workflow) /\ Rests(last, acc)
  BY <1>8, SaveGuarded, SaveIs DEF Guarded, SameButSaved, Rests
<1> HIDE DEF last
<1>10. Moves(after, last) /\ after.jobs = last.jobs
  <2>1. Accumulates(after) /\ after.inv = last.inv /\ after.saved = last.saved
        /\ after.jobs = last.jobs
    BY <1>9 DEF Guarded, Accumulates
  <2> HIDE DEF after
  <2> QED
    BY <1>9, <2>1 DEF Moves, SameReplays, Guarded, Gated
<1> HIDE DEF after
<1>11. Guarded(after, before, workflow) /\ Rests(after, acc)
  BY <1>9, <1>10, MovesGuarded DEF Rests, Moves, SameReplays
<1> QED
  BY <1>3, <1>11

LEMMA SkipGuarded ==
  ASSUME NEW acc, NEW before, Guarded(acc, before, workflow), NEW i
  PROVE  /\ Guarded(SkipRejected(acc, i), before, workflow)
         /\ Rests(SkipRejected(acc, i), acc) /\ SkipRejected(acc, i).returned = acc.returned
<1> DEFINE after == SkipRejected(acc, i)
<1>1. Accumulates(acc) /\ Typed(acc.inv)
  BY DEF Guarded, Gated
<1>2. /\ Accumulates(after) /\ after.saved = acc.saved /\ after.jobs = acc.jobs
      /\ after.returned = acc.returned
      /\ after.inv.executions = acc.inv.executions /\ after.inv.waits = acc.inv.waits
      /\ after.inv.transitions = acc.inv.transitions
      /\ after.inv.replays = acc.inv.replays /\ after.inv.mode = acc.inv.mode
  BY <1>1 DEF SkipRejected, Accumulates, Record
<1> HIDE DEF after
<1>3. Moves(after, acc)
  BY <1>1, <1>2 DEF Moves, SameReplays, Typed, Accumulates
<1>4. Guarded(after, before, workflow) /\ Rests(after, acc)
  BY <1>2, <1>3, MovesGuarded DEF Rests
<1> QED
  BY <1>2, <1>4 DEF after

LEMMA RejectGuarded ==
  ASSUME NEW acc, NEW before, Guarded(acc, before, workflow), NEW i
  PROVE  Guarded(Reject(acc, i), before, workflow) /\ Rests(Reject(acc, i), acc)
<1> DEFINE skipped == SkipRejected(acc, i)
<1>1. Guarded(skipped, before, workflow) /\ Rests(skipped, acc)
  BY SkipGuarded
<1> HIDE DEF skipped
<1>2. Guarded(Save(skipped, {}), before, workflow) /\ Rests(Save(skipped, {}), acc)
  BY <1>1, SaveGuarded, SaveIs DEF Guarded, SameButSaved, Rests
<1> QED
  BY <1>2, InterruptGuarded DEF Reject, skipped

LEMMA BeginGuarded ==
  ASSUME NEW acc, NEW before, Guarded(acc, before, workflow), NEW i,
         NEW fate \in {"mapped", "unmapped", "overspent"},
         Attempt(acc.inv, i) \in Nat, Attempt(acc.inv, i) <= policy.recovery[Node(i)]
  PROVE  Guarded(Begin(acc, i, fate), before, workflow)
<1> DEFINE first == [acc EXCEPT !.inv.executions = Extend(@, i, "running"),
                    !.inv.replays = Extend(@, i, Attempt(acc.inv, i)),
                    !.inv.bases = Extend(@, i, Revisions(acc.inv.contexts)),
                    !.inv.cursor = Scheduled(@, i),
                    !.inv.state = "running"]
           running == SaveIfFull(first, {i})
           failed == [running EXCEPT !.inv = EndNode(@, i, "failed")]
           after == Begin(acc, i, fate)
<1>0. Accumulates(acc) /\ Gated(acc.inv, workflow) /\ Typed(acc.inv)
  BY DEF Guarded, Gated
<1>1. /\ Accumulates(first) /\ first.saved = acc.saved
      /\ first.inv.mode = acc.inv.mode /\ first.inv.waits = acc.inv.waits
      /\ first.inv.replays = Extend(acc.inv.replays, i, Attempt(acc.inv, i))
      /\ first.inv.executions = Extend(acc.inv.executions, i, "running")
      /\ first.inv.transitions = acc.inv.transitions
  BY <1>0 DEF Accumulates, Record
<1>3. after = CASE fate = "mapped" -> [running EXCEPT !.jobs = @ \cup {i}]
                [] fate = "unmapped" -> Save(failed, {i})
                [] fate = "overspent" -> failed
  BY DEF Begin
<1> HIDE DEF first, after
<1>2. Guarded(first, before, workflow) /\ i \in DOMAIN first.inv.executions
  <2>1. Typed(first.inv)
    BY <1>0, <1>1 DEF Typed, Accumulates, Function, Extend
  <2>2. /\ DOMAIN first.inv.executions = DOMAIN acc.inv.executions \cup {i}
        /\ DOMAIN first.inv.replays = DOMAIN acc.inv.replays \cup {i}
        /\ \A j \in DOMAIN first.inv.replays : first.inv.replays[j] =
             IF j = i THEN Attempt(acc.inv, i) ELSE acc.inv.replays[j]
    BY <1>1 DEF Extend
  <2>3. IsFiniteSet(DOMAIN first.inv.executions)
    BY <1>0, <2>2, FS_AddElement DEF Gated
  <2>4. Gated(first.inv, workflow)
    BY <1>0, <2>1, <2>2, <2>3 DEF Gated, policy
  <2> QED
    BY <1>1, <2>2, <2>4 DEF Guarded
<1>4. /\ Guarded(running, before, workflow) /\ running.inv = first.inv
  BY <1>2, SaveGuarded, SaveIs DEF Guarded, SameButSaved
<1> HIDE DEF running
<1>5. Accumulates(running) /\ Typed(running.inv)
  BY <1>4 DEF Guarded, Gated
<1>6. CASE fate = "mapped"
  <2>1. after = [running EXCEPT !.jobs = @ \cup {i}]
    BY <1>3, <1>6
  <2>2. Accumulates(after) /\ after.inv = running.inv /\ after.saved = running.saved
    BY <1>5, <2>1 DEF Accumulates
  <2>3. Moves(after, running)
    BY <1>5, <2>2 DEF Moves, SameReplays
  <2>4. Guarded(after, before, workflow)
    BY <1>4, <2>3, MovesGuarded
  <2> QED
    BY <2>4 DEF after
<1>7. CASE fate # "mapped"
  <2> DEFINE end == EndNode(running.inv, i, "failed")
  <2>1. SameReplays(end, running.inv)
    BY <1>5, EndMoves
  <2> HIDE DEF end
  <2>2. failed = [running EXCEPT !.inv = end]
    BY DEF end
  <2>3. Accumulates(failed) /\ failed.inv = end /\ failed.saved = running.saved
    BY <1>5, <2>1, <2>2 DEF Accumulates, SameReplays, Typed
  <2> HIDE DEF failed
  <2>4. Guarded(failed, before, workflow) /\ i \in DOMAIN failed.inv.executions
    BY <1>2, <1>4, <2>1, <2>3, MovesGuarded DEF Moves, SameReplays
  <2>5. Guarded(Save(failed, {i}), before, workflow)
    BY <2>4, SaveGuarded
  <2>6. after = Save(failed, {i}) \/ after = failed
    BY <1>3, <1>7
  <2> QED
    BY <2>4, <2>5, <2>6 DEF after
<1> QED
  BY <1>6, <1>7

(* Instances are handed out: rest are those that still may be.             *)
Hands(acc, before, rest) ==
  /\ Guarded(acc, before, workflow) /\ acc.jobs \subseteq DOMAIN acc.inv.executions
  /\ acc.inv.mode = "recovery" => \A j \in acc.jobs : policy.recovery[Node(j)] > 0
  /\ \A j \in rest : policy.recovery[Node(j)] \in Nat
  /\ acc.inv.mode # "recovery" /\ ~acc.returned => rest \cap DOMAIN acc.inv.executions = {}

LEMMA HandOne ==
  ASSUME NEW acc, NEW before, NEW rest, Hands(acc, before, rest),
         NEW i \in rest, NEW fate \in {"mapped", "unmapped", "overspent"},
         NEW left, left \subseteq rest \ {i}
  PROVE  Hands(SubmitOne(acc, i, fate), before, left)
<1> DEFINE after == SubmitOne(acc, i, fate)
<1>0. Guarded(acc, before, workflow) /\ Accumulates(acc) /\ Gated(acc.inv, workflow)
  BY DEF Hands, Guarded
<1>1. CASE acc.returned
  <2>1. after = acc
    BY <1>1 DEF SubmitOne
  <2> HIDE DEF after
  <2> QED
    BY <1>1, <2>1 DEF Hands, after
<1>2. CASE ~acc.returned /\ Forbidden(acc.inv, i)
  <2>1. after = Reject(acc, i)
    BY <1>2 DEF SubmitOne
  <2>2. Guarded(after, before, workflow) /\ Rests(after, acc)
    BY <1>0, <2>1, RejectGuarded
  <2>3. after.inv.mode = acc.inv.mode /\ acc.inv.mode = "recovery"
    BY <1>0, <1>2, <2>2 DEF Guarded, Forbidden
  <2> HIDE DEF after
  <2> QED
    BY <2>2, <2>3 DEF Hands, Rests, after
<1>3. CASE ~acc.returned /\ ~Forbidden(acc.inv, i) /\ OverLimit(acc.inv, i)
  <2>1. after = [acc EXCEPT !.inv.cursor = Fail(@, "RESOURCE_LIMIT_EXCEEDED"), !.returned = TRUE]
    BY <1>3 DEF SubmitOne
  <2> HIDE DEF after
  <2>2. /\ Accumulates(after) /\ after.jobs = acc.jobs /\ after.returned
        /\ after.saved = acc.saved /\ after.inv.replays = acc.inv.replays
        /\ after.inv.mode = acc.inv.mode /\ after.inv.executions = acc.inv.executions
        /\ after.inv.waits = acc.inv.waits /\ after.inv.transitions = acc.inv.transitions
    BY <1>0, <2>1 DEF Accumulates, Record
  <2>3. Moves(after, acc)
    BY <1>0, <2>2 DEF Moves, SameReplays, Gated, Typed, Accumulates
  <2>4. Guarded(after, before, workflow)
    BY <1>0, <2>3, MovesGuarded
  <2> QED
    BY <2>2, <2>4 DEF Hands, after
<1>4. CASE ~acc.returned /\ ~Forbidden(acc.inv, i) /\ ~OverLimit(acc.inv, i)
  <2>1. after = Begin(acc, i, fate)
    BY <1>4 DEF SubmitOne
  <2>2. policy.recovery[Node(i)] \in Nat
    BY DEF Hands
  <2>3. /\ Attempt(acc.inv, i) \in Nat /\ Attempt(acc.inv, i) <= policy.recovery[Node(i)]
        /\ acc.inv.mode = "recovery" => policy.recovery[Node(i)] > 0
    <3>1. CASE acc.inv.mode = "recovery"
      <4>1. /\ policy.recovery[Node(i)] # 0
            /\ ~(Attempt(acc.inv, i) > policy.recovery[Node(i)])
        BY <1>4, <3>1 DEF Forbidden
      <4>2. Attempt(acc.inv, i) \in Nat
        BY <1>0 DEF Attempt, Gated
      <4> QED
        BY <2>2, <4>1, <4>2
    <3>2. CASE acc.inv.mode # "recovery"
      <4>1. Attempt(acc.inv, i) = 0
        BY <1>4, <3>2 DEF Hands, Attempt
      <4> QED
        BY <2>2, <3>2, <4>1
    <3> QED
      BY <3>1, <3>2
  <2>4. Guarded(after, before, workflow)
    BY <1>0, <2>1, <2>3, BeginGuarded
  <2>5. Begins(after, acc, i, fate)
    BY <1>0, <2>1, BeginIs DEF Gated
  <2> HIDE DEF after
  <2>6. /\ after.inv.mode = acc.inv.mode /\ after.returned = acc.returned
        /\ DOMAIN after.inv.executions = DOMAIN acc.inv.executions \cup {i}
        /\ after.jobs \subseteq acc.jobs \cup {i}
    BY <2>5 DEF Begins, Extend
  <2> QED
    BY <2>3, <2>4, <2>6 DEF Hands, after
<1> QED
  BY <1>1, <1>2, <1>3, <1>4

LEMMA HandAll ==
  ASSUME NEW first, NEW before, NEW queue, NEW fate, Sequence(queue), IsInjective(queue),
         Hands(first, before, Range(queue)),
         \A i \in Range(queue) : fate[i] \in {"mapped", "unmapped", "overspent"}
  PROVE  Hands(SubmitAll(first, queue, fate), before, {})
<1>1. /\ Len(queue) \in Nat /\ DOMAIN queue = 1 .. Len(queue)
      /\ Range(queue) = {queue[k] : k \in 1 .. Len(queue)}
  BY SequenceIs
<1>2. PICK f : SubmitTrace(f, first, queue, fate)
  BY <1>1, SubmitAllTrace
<1> DEFINE Rest(k) == {queue[j] : j \in k + 1 .. Len(queue)}
           Good(k) == Hands(f[k], before, Rest(k))
           Bad == {k \in 0 .. Len(queue) : ~Good(k)}
<1>3. Bad = {}
  <2> SUFFICES ASSUME Bad # {} PROVE FALSE
    OBVIOUS
  <2> HIDE DEF Good
  <2>0. Bad \in SUBSET Nat
    BY <1>1
  <2>1. PICK n \in Bad : \A m \in Bad : n <= m
    BY <2>0, LeastExists
  <2>2. n \in 0 .. Len(queue) /\ ~Good(n)
    OBVIOUS
  <2>3. CASE n = 0
    <3>1. Rest(0) = Range(queue)
      BY <1>1
    <3> HIDE DEF Rest
    <3> QED
      BY <1>2, <2>2, <2>3, <3>1 DEF Good, SubmitTrace
  <2>4. CASE n # 0
    <3>1. n \in 1 .. Len(queue) /\ n - 1 \in 0 .. Len(queue) /\ ~(n <= n - 1)
      BY <1>1, <2>2, <2>4
    <3>2. Good(n - 1)
      BY <2>1, <3>1
    <3>3. queue[n] \in Rest(n - 1) /\ queue[n] \in Range(queue)
      BY <1>1, <3>1
    <3>4. Rest(n) \subseteq Rest(n - 1) \ {queue[n]}
      <4> SUFFICES ASSUME NEW j \in n + 1 .. Len(queue)
                   PROVE  queue[j] \in Rest(n - 1) /\ queue[j] # queue[n]
        OBVIOUS
      <4>1. j \in (n - 1) + 1 .. Len(queue) /\ j \in DOMAIN queue /\ n \in DOMAIN queue /\ j # n
        BY <1>1, <3>1
      <4> QED
        BY <4>1 DEF IsInjective
    <3>5. f[n] = SubmitOne(f[n - 1], queue[n], fate[queue[n]])
      BY <1>2, <3>1 DEF SubmitTrace
    <3> DEFINE left == Rest(n)
               rest == Rest(n - 1)
    <3>6. Hands(f[n - 1], before, rest)
      BY <3>2 DEF Good
    <3>7. queue[n] \in rest /\ left \subseteq rest \ {queue[n]}
      BY <3>3, <3>4
    <3> HIDE DEF left, rest
    <3>8. Hands(f[n], before, left)
      BY <3>3, <3>5, <3>6, <3>7, HandOne
    <3> QED
      BY <2>2, <3>8 DEF Good, left
  <2> QED
    BY <2>3, <2>4
<1>4. Rest(Len(queue)) = {} /\ Len(queue) \in 0 .. Len(queue)
  BY <1>1
<1> HIDE DEF Rest
<1>5. Good(Len(queue))
  <2> HIDE DEF Good
  <2> QED
    BY <1>3, <1>4
<1> QED
  BY <1>2, <1>4, <1>5 DEF SubmitTrace

LEMMA ApplyOneGuarded ==
  ASSUME NEW acc, NEW before, Guarded(acc, before, workflow), NEW message, NEW fate,
         message[1] \in DOMAIN before.executions
  PROVE  Guarded(ApplyOne(acc, message, fate), before, workflow)
<1> DEFINE i == message[1]
           conclusion == Conclude(acc.inv, i, Copies(acc.inv, i), fate)
           after == ApplyOne(acc, message, fate)
<1>1. /\ Accumulates(acc) /\ Typed(acc.inv) /\ i \in DOMAIN acc.inv.executions
  BY DEF Guarded, Gated
<1>2. ASSUME NEW now, SameReplays(now, acc.inv)
      PROVE  LET next == [acc EXCEPT !.inv = now] IN
             Guarded(Save(next, {i}), before, workflow)
               /\ Guarded(SaveIfFull(next, {i}), before, workflow)
  <2> DEFINE next == [acc EXCEPT !.inv = now]
  <2>1. Moves(next, acc)
    BY <1>1, <1>2 DEF Moves, Accumulates, SameReplays, Typed
  <2> HIDE DEF next
  <2>2. Guarded(next, before, workflow) /\ {i} \subseteq DOMAIN next.inv.executions
    BY <1>1, <2>1, MovesGuarded DEF Moves, SameReplays
  <2>3. Guarded(Save(next, {i}), before, workflow)
        /\ Guarded(SaveIfFull(next, {i}), before, workflow)
    BY <2>2, SaveGuarded
  <2> QED
    BY <2>3 DEF next
<1>3. SameReplays(conclusion, acc.inv)
  BY <1>1, ConcludeMoves
<1>4. \A end : SameReplays(EndNode(acc.inv, i, end), acc.inv)
  BY <1>1, EndMoves
<1>5. \/ after = Save([acc EXCEPT !.inv = conclusion], {i})
      \/ after = SaveIfFull([acc EXCEPT !.inv = EndNode(acc.inv, i, "waiting")], {i})
      \/ after = Save([acc EXCEPT !.inv = EndNode(acc.inv, i, "failed")], {i})
  BY DEF ApplyOne
<1> HIDE DEF conclusion, after
<1>6. Guarded(after, before, workflow)
  BY <1>2, <1>3, <1>4, <1>5
<1> QED
  BY <1>6 DEF after

LEMMA ApplyAllGuarded ==
  ASSUME NEW first, NEW before, Guarded(first, before, workflow),
         NEW messages, Sequence(messages), NEW fate,
         \A m \in Range(messages) : m[1] \in DOMAIN before.executions
  PROVE  Guarded(ApplyAll(first, messages, fate), before, workflow)
<1>1. /\ Len(messages) \in Nat
      /\ Range(messages) = {messages[k] : k \in 1 .. Len(messages)}
  BY SequenceIs
<1>2. PICK f : ApplyTrace(f, first, messages, fate)
  BY <1>1, ApplyAllTrace
<1> DEFINE Good(k) == Guarded(f[k], before, workflow)
           Bad == {k \in 0 .. Len(messages) : ~Good(k)}
<1>3. Bad = {}
  <2> SUFFICES ASSUME Bad # {} PROVE FALSE
    OBVIOUS
  <2> HIDE DEF Good
  <2>0. Bad \in SUBSET Nat
    BY <1>1
  <2>1. PICK n \in Bad : \A m \in Bad : n <= m
    BY <2>0, LeastExists
  <2>2. n \in 0 .. Len(messages) /\ ~Good(n)
    OBVIOUS
  <2>3. n # 0
    BY <1>2, <2>2 DEF Good, ApplyTrace
  <2>4. n \in 1 .. Len(messages) /\ n - 1 \in 0 .. Len(messages) /\ ~(n <= n - 1)
    BY <1>1, <2>2, <2>3
  <2>5. Good(n - 1)
    BY <2>1, <2>4
  <2>6. messages[n][1] \in DOMAIN before.executions
    BY <1>1, <2>4
  <2>7. f[n] = ApplyOne(f[n - 1], messages[n], fate[messages[n][1]])
    BY <1>2, <2>4 DEF ApplyTrace
  <2>8. Good(n)
    BY <2>5, <2>6, <2>7, ApplyOneGuarded DEF Good
  <2> QED
    BY <2>2, <2>8
<1>4. Len(messages) \in 0 .. Len(messages)
  BY <1>1
<1>5. Good(Len(messages))
  <2> HIDE DEF Good
  <2> QED
    BY <1>3, <1>4
<1> QED
  BY <1>2, <1>5 DEF ApplyTrace

LEMMA RecoverOneGuarded ==
  ASSUME NEW acc, NEW before, Guarded(acc, before, workflow),
         NEW i \in DOMAIN before.executions
  PROVE  Guarded(RecoverOne(acc, i), before, workflow)
<1> DEFINE first == [acc EXCEPT !.inv.executions[i] = "interrupted"]
           lost == Save(first, {i})
           queued == [lost EXCEPT !.inv.cursor = Queued(@, i)]
           after == RecoverOne(acc, i)
<1>1. Accumulates(acc) /\ Typed(acc.inv) /\ i \in DOMAIN acc.inv.executions
  BY DEF Guarded, Gated
<1>2. Moves(first, acc)
  <2>1. /\ Accumulates(first) /\ first.saved = acc.saved
        /\ first.inv.executions = Replace(acc.inv.executions, i, "interrupted")
        /\ first.inv.waits = acc.inv.waits /\ first.inv.transitions = acc.inv.transitions
        /\ first.inv.replays = acc.inv.replays /\ first.inv.mode = acc.inv.mode
    BY <1>1 DEF Accumulates, Record, Replace
  <2> HIDE DEF first
  <2>2. /\ Function(first.inv.executions)
        /\ DOMAIN first.inv.executions = DOMAIN acc.inv.executions
    BY <1>1, <2>1 DEF Replace, Function, Typed
  <2> QED
    BY <1>1, <2>1, <2>2 DEF Moves, SameReplays, Typed, Accumulates
<1>3. \/ after = acc \/ after = queued \/ after = InterruptRecovery(lost)
      \/ after = SkipRejected(lost, i)
  BY DEF RecoverOne
<1> HIDE DEF first
<1>4. Guarded(lost, before, workflow)
  <2>1. Guarded(first, before, workflow) /\ {i} \subseteq DOMAIN first.inv.executions
    BY <1>1, <1>2, MovesGuarded DEF Moves, SameReplays
  <2> QED
    BY <2>1, SaveGuarded
<1> HIDE DEF lost
<1>5. Moves(queued, lost)
  <2>1. Accumulates(lost) /\ Typed(lost.inv)
    BY <1>4 DEF Guarded, Gated
  <2>2. /\ Accumulates(queued) /\ queued.saved = lost.saved
        /\ queued.inv.executions = lost.inv.executions
        /\ queued.inv.waits = lost.inv.waits
        /\ queued.inv.transitions = lost.inv.transitions
        /\ queued.inv.replays = lost.inv.replays /\ queued.inv.mode = lost.inv.mode
    BY <2>1 DEF Accumulates, Record
  <2> HIDE DEF queued
  <2> QED
    BY <2>1, <2>2 DEF Moves, SameReplays, Typed, Accumulates
<1> HIDE DEF queued, after
<1>6. Guarded(after, before, workflow)
  BY <1>3, <1>4, <1>5, MovesGuarded, InterruptGuarded, SkipGuarded
<1> QED
  BY <1>6 DEF after

LEMMA RecoverAllGuarded ==
  ASSUME NEW first, NEW before, Guarded(first, before, workflow),
         NEW order, Sequence(order), Range(order) \subseteq DOMAIN before.executions
  PROVE  Guarded(RecoverAll(first, order), before, workflow)
<1>1. /\ Len(order) \in Nat /\ Range(order) = {order[k] : k \in 1 .. Len(order)}
  BY SequenceIs
<1>2. PICK f : RecoverTrace(f, first, order)
  BY <1>1, RecoverAllTrace
<1> DEFINE Good(k) == Guarded(f[k], before, workflow)
           Bad == {k \in 0 .. Len(order) : ~Good(k)}
<1>3. Bad = {}
  <2> SUFFICES ASSUME Bad # {} PROVE FALSE
    OBVIOUS
  <2> HIDE DEF Good
  <2>0. Bad \in SUBSET Nat
    BY <1>1
  <2>1. PICK n \in Bad : \A m \in Bad : n <= m
    BY <2>0, LeastExists
  <2>2. n \in 0 .. Len(order) /\ ~Good(n)
    OBVIOUS
  <2>3. n # 0
    BY <1>2, <2>2 DEF Good, RecoverTrace
  <2>4. n \in 1 .. Len(order) /\ n - 1 \in 0 .. Len(order) /\ ~(n <= n - 1)
    BY <1>1, <2>2, <2>3
  <2>5. Good(n - 1)
    BY <2>1, <2>4
  <2>6. order[n] \in DOMAIN before.executions
    BY <1>1, <2>4
  <2>7. f[n] = RecoverOne(f[n - 1], order[n])
    BY <1>2, <2>4 DEF RecoverTrace
  <2>8. Good(n)
    BY <2>5, <2>6, <2>7, RecoverOneGuarded DEF Good
  <2> QED
    BY <2>2, <2>8
<1>4. Len(order) \in 0 .. Len(order)
  BY <1>1
<1>5. Good(Len(order))
  <2> HIDE DEF Good
  <2> QED
    BY <1>3, <1>4
<1> QED
  BY <1>2, <1>5 DEF RecoverTrace

LEMMA SaveEdgesGuarded ==
  ASSUME WorkflowKnown, NEW acc, NEW before, Guarded(acc, before, workflow),
         NEW i \in DOMAIN acc.inv.executions, NEW value
  PROVE  Guarded(SaveEdges(acc, i, value), before, workflow)
<1> DEFINE ids == IdsInOrder(workflow, Outgoing(workflow, Node(i)))
           after(k) == SchedulerEvaluate(workflow, acc.inv.cursor, i, value, SubSeq(ids, 1, k))
           edges == Cardinality(Outgoing(workflow, Node(i)))
           evaluated == {k \in 1 .. edges : ~Failed(after(k))}
           n == Cardinality(evaluated)
           routed(k) == [acc.inv EXCEPT !.cursor = after(k), !.transitions = <<>>]
           image(k) == Image(Last(acc.saved), routed(k), {i})
           more == [k \in 1 .. n |-> image(k)]
           new == acc.saved \o more
<1>1. Accumulates(acc) /\ Gated(acc.inv, workflow) /\ AllGated(acc.saved, workflow)
  BY DEF Guarded
<1>2. n \in Nat
  <2>1. PICK w \in Workflows : \E entry \in EntryNodes(w.graph) : workflow = Invoked(w, entry)
    BY DEF WorkflowKnown
  <2>2. workflow.edges = w.graph.edges
    BY <2>1 DEF Invoked, Compiled
  <2>3. IsFiniteSet(EdgeIds(workflow))
    BY <2>2, WorkflowsAssumption DEF EdgeIds
  <2>4. IsFiniteSet(Outgoing(workflow, Node(i)))
    BY <2>3, FS_Subset DEF Outgoing
  <2>5. edges \in Nat
    BY <2>4, FS_CardinalityType
  <2>6. IsFiniteSet(1 .. edges)
    BY <2>5, FS_Interval
  <2>7. evaluated \subseteq 1 .. edges
    OBVIOUS
  <2> HIDE DEF evaluated, edges
  <2>8. IsFiniteSet(evaluated)
    BY <2>6, <2>7, FS_Subset
  <2> QED
    BY <2>8, FS_CardinalityType
<1>3. CASE policy.crashes = 0 \/ policy.events # "full"
  <2>1. SaveEdges(acc, i, value) = acc
    BY <1>3 DEF SaveEdges
  <2> QED
    BY <2>1
<1>4. CASE policy.crashes # 0 /\ policy.events = "full"
  <2>1. SaveEdges(acc, i, value) = [acc EXCEPT !.saved = new]
    BY <1>4 DEF SaveEdges
  <2> HIDE DEF n, after
  <2>2. Gated(Last(acc.saved), workflow)
    BY <1>1, <1>4, LastGated DEF policy
  <2>3. ASSUME NEW k \in 1 .. n PROVE Gated(image(k), workflow)
    <3> DEFINE now == routed(k)
    <3>1. /\ Record(now) /\ now.executions = acc.inv.executions
          /\ now.waits = acc.inv.waits /\ now.transitions = <<>>
          /\ now.replays = acc.inv.replays /\ now.mode = acc.inv.mode
      BY <1>1 DEF Gated, Typed, Record
    <3>2. Sequence(<<>>)
      <4>1. <<>> \in Seq(Range(<<>>))
        OBVIOUS
      <4> QED
        BY <4>1 DEF Sequence
    <3> HIDE DEF now
    <3>3. Gated(now, workflow)
      <4>1. SameReplays(now, acc.inv)
        BY <1>1, <3>1, <3>2 DEF SameReplays, Gated, Typed
      <4> QED
        BY <1>1, <4>1, SameGated
    <3>4. Gated(Image(Last(acc.saved), now, {i}), workflow)
      BY <2>2, <3>1, <3>3, ImageGated
    <3> QED
      BY <3>4 DEF now
  <2> HIDE DEF image
  <2>4. /\ DOMAIN more = 1 .. n /\ more = [k \in 1 .. n |-> more[k]]
        /\ \A k \in 1 .. n : more[k] = image(k)
    OBVIOUS
  <2> HIDE DEF more
  <2>5. Sequence(more)
    BY <1>2, <2>4, SequenceMade
  <2>6. \A x \in Range(more) : Gated(x, workflow)
    BY <2>3, <2>4 DEF Range
  <2>7. AllGated(new, workflow)
    BY <1>1, <2>5, <2>6, MoreGated
  <2> HIDE DEF new
  <2> DEFINE next == [acc EXCEPT !.saved = new]
  <2>8. Accumulates(next) /\ next.inv = acc.inv /\ next.saved = new
    BY <1>1 DEF Accumulates
  <2> HIDE DEF next
  <2>9. Guarded(next, before, workflow)
    BY <2>7, <2>8 DEF Guarded
  <2> QED
    BY <2>1, <2>9 DEF next
<1> QED
  BY <1>3, <1>4

-----------------------------------------------------------------------------
(* The steps.                                                              *)
LEMMA BeginsGuarded ==
  ASSUME RecoveryInv, NEW now, SameReplays(now, inv)
  PROVE  Guarded(Started(now), inv, workflow)
<1>1. Gated(now, workflow)
  BY SameGated DEF RecoveryInv
<1>2. Guarded(Started(now), now, workflow)
  BY <1>1, StartedGuarded DEF RecoveryInv
<1> QED
  BY <1>2 DEF Guarded, SameReplays

LEMMA BecomesKept ==
  ASSUME RecoveryInv, NEW acc, Guarded(acc, inv, workflow), Becomes(acc), workflow' = workflow,
         Replayable(working', inv', workflow), mailbox' = mailbox \/ mailbox' = <<>>,
         DOMAIN resuming' \subseteq DOMAIN inv'.executions
  PROVE  RecoveryInv'
<1>1. /\ Gated(inv', workflow') /\ AllGated(saved', workflow')
      /\ inv'.mode = inv.mode /\ DOMAIN inv.executions \subseteq DOMAIN inv'.executions
  BY DEF Guarded, Becomes
<1>2. WorkflowKnown'
  BY DEF RecoveryInv, WorkflowKnown
<1>3. Replayable(working', inv', workflow')
  OBVIOUS
<1>4. Sequence(mailbox') /\ Answered' \subseteq DOMAIN inv'.executions
  <2>1. CASE mailbox' = mailbox
    BY <1>1, <2>1 DEF RecoveryInv, Answered
  <2>2. CASE mailbox' = <<>>
    <3>1. <<>> \in Seq(Range(<<>>)) /\ Range(<<>>) = {}
      BY DEF Range
    <3>2. Answered' = {}
      BY <2>2, <3>1 DEF Answered
    <3> QED
      BY <2>2, <3>1, <3>2 DEF Sequence
  <2> QED
    BY <2>1, <2>2
<1> QED
  BY <1>1, <1>2, <1>3, <1>4 DEF RecoveryInv

LEMMA BecomesGated ==
  ASSUME RecoveryInv, NEW acc, Guarded(acc, inv, workflow), Becomes(acc), workflow' = workflow,
         working' \subseteq working, mailbox' = mailbox \/ mailbox' = <<>>,
         DOMAIN resuming' \subseteq DOMAIN resuming
  PROVE  RecoveryInv'
<1>1. inv'.mode = inv.mode /\ DOMAIN inv.executions \subseteq DOMAIN inv'.executions
  BY DEF Guarded, Becomes
<1>2. Replayable(working', inv', workflow)
  BY <1>1 DEF RecoveryInv, Replayable
<1>3. DOMAIN resuming' \subseteq DOMAIN inv'.executions
  BY <1>1 DEF RecoveryInv
<1> QED
  BY <1>2, <1>3, BecomesKept

LEMMA StartGated ==
  ASSUME RecoveryInv, Start
  PROVE  RecoveryInv'
<1> DEFINE begun == [inv EXCEPT !.state = "running"]
           first == Save(Started(begun), {})
           next == [first EXCEPT !.inv.cursor = SchedulerInitialize(workflow)]
<1>1. SameReplays(begun, inv)
  BY DEF RecoveryInv, Gated, SameReplays, Typed, Record
<1>2. Becomes(next) \/ Becomes(Save(next, {}))
  BY DEF Start
<1> HIDE DEF begun
<1>3. Guarded(first, inv, workflow)
  <2>1. Guarded(Started(begun), inv, workflow)
    BY <1>1, BeginsGuarded
  <2> QED
    BY <2>1, SaveGuarded
<1> HIDE DEF first
<1>4. Moves(next, first)
  <2>1. Accumulates(first) /\ Typed(first.inv)
    BY <1>3 DEF Guarded, Gated
  <2>2. /\ Accumulates(next) /\ next.saved = first.saved /\ next.inv.mode = first.inv.mode
        /\ next.inv.executions = first.inv.executions /\ next.inv.waits = first.inv.waits
        /\ next.inv.replays = first.inv.replays
        /\ next.inv.transitions = first.inv.transitions
    BY <2>1 DEF Accumulates, Record
  <2> HIDE DEF next
  <2> QED
    BY <2>1, <2>2 DEF Moves, SameReplays, Typed, Accumulates
<1> HIDE DEF next
<1>5. Guarded(next, inv, workflow)
  BY <1>3, <1>4, MovesGuarded
<1>6. Guarded(Save(next, {}), inv, workflow)
  BY <1>5, SaveGuarded
<1> QED
  BY <1>2, <1>5, <1>6, BecomesGated DEF Start

LEMMA RouteGated ==
  ASSUME RecoveryInv, NEW i \in DOMAIN executions, Route(i)
  PROVE  RecoveryInv'
<1> DEFINE drained == [inv EXCEPT !.transitions = Tail(@)]
           rest == Started(drained)
<1>1. SameReplays(drained, inv) /\ drained.executions = inv.executions
  <2>1. /\ Record(drained) /\ drained.mode = inv.mode /\ drained.executions = inv.executions
        /\ drained.waits = inv.waits /\ drained.replays = inv.replays
        /\ drained.transitions = Tail(inv.transitions)
    BY DEF RecoveryInv, Gated, Typed, Record
  <2>2. Sequence(drained.transitions)
    <3>1. Sequence(inv.transitions) /\ inv.transitions # <<>>
      BY DEF RecoveryInv, Gated, Typed, Route, transitions
    <3> DEFINE T == Range(inv.transitions)
    <3>2. inv.transitions \in Seq(T)
      BY <3>1 DEF Sequence
    <3> HIDE DEF T
    <3>3. Tail(inv.transitions) \in Seq(T)
      BY <3>1, <3>2
    <3> QED
      BY <2>1, <3>3, SequenceOfAny
  <2> HIDE DEF drained
  <2> QED
    BY <2>1, <2>2 DEF SameReplays, RecoveryInv, Gated, Typed
<1> HIDE DEF drained
<1>2. Guarded(rest, inv, workflow) /\ i \in DOMAIN rest.inv.executions
  <2>1. Record(drained)
    BY <1>1 DEF SameReplays, Typed
  <2> QED
    BY <1>1, <2>1, BeginsGuarded, StartedIs DEF executions
<1> HIDE DEF rest
<1>3. ASSUME NEW acc, Guarded(acc, inv, workflow), NEW c
      PROVE  Guarded([acc EXCEPT !.inv.cursor = c], inv, workflow)
  <2> DEFINE next == [acc EXCEPT !.inv.cursor = c]
  <2>1. Accumulates(acc) /\ Typed(acc.inv)
    BY <1>3 DEF Guarded, Gated
  <2>2. /\ Accumulates(next) /\ next.saved = acc.saved /\ next.inv.mode = acc.inv.mode
        /\ next.inv.executions = acc.inv.executions /\ next.inv.waits = acc.inv.waits
        /\ next.inv.replays = acc.inv.replays /\ next.inv.transitions = acc.inv.transitions
    BY <2>1 DEF Accumulates, Record
  <2> HIDE DEF next
  <2>3. Moves(next, acc)
    BY <2>1, <2>2 DEF Moves, SameReplays, Typed, Accumulates
  <2>4. Guarded(next, inv, workflow)
    BY <1>3, <2>3, MovesGuarded
  <2> QED
    BY <2>4 DEF next
<1>4. ASSUME NEW acc, Guarded(acc, inv, workflow), NEW c, NEW d
      PROVE  Guarded([acc EXCEPT !.inv.cursor = c, !.inv.deferred = d], inv, workflow)
  <2> DEFINE next == [acc EXCEPT !.inv.cursor = c, !.inv.deferred = d]
  <2>1. Accumulates(acc) /\ Typed(acc.inv)
    BY <1>4 DEF Guarded, Gated
  <2>2. /\ Accumulates(next) /\ next.saved = acc.saved /\ next.inv.mode = acc.inv.mode
        /\ next.inv.executions = acc.inv.executions /\ next.inv.waits = acc.inv.waits
        /\ next.inv.replays = acc.inv.replays /\ next.inv.transitions = acc.inv.transitions
    BY <2>1 DEF Accumulates, Record
  <2> HIDE DEF next
  <2>3. Moves(next, acc)
    BY <2>1, <2>2 DEF Moves, SameReplays, Typed, Accumulates
  <2>4. Guarded(next, inv, workflow)
    BY <1>4, <2>3, MovesGuarded
  <2> QED
    BY <2>4 DEF next
<1>5. ASSUME NEW acc, Guarded(acc, inv, workflow), Becomes(acc) \/ Becomes(SaveSkipped(acc))
      PROVE  RecoveryInv'
  <2>1. Guarded(SaveSkipped(acc), inv, workflow)
    BY <1>5, SaveGuarded
  <2> QED
    BY <1>5, <2>1, BecomesGated DEF Route
<1>6. CASE executions[i] = "completed"
  <2>1. PICK value :
          Becomes(SaveSkipped([SaveEdges(rest, i, value) EXCEPT
                   !.inv.cursor = SchedulerCompleted(workflow, @, i, value)]))
    BY <1>6 DEF Route, rest, drained
  <2> DEFINE acc == SaveEdges(rest, i, value)
             c == SchedulerCompleted(workflow, acc.inv.cursor, i, value)
             new == [acc EXCEPT !.inv.cursor = c]
  <2>2. Guarded(acc, inv, workflow)
    BY <1>2, SaveEdgesGuarded DEF RecoveryInv
  <2>3. Becomes(SaveSkipped(new))
    BY <2>1
  <2> HIDE DEF acc, c
  <2>4. Guarded(new, inv, workflow)
    BY <1>3, <2>2
  <2> HIDE DEF new
  <2> QED
    BY <1>5, <2>3, <2>4
<1>7. CASE executions[i] = "failed" /\ policy.failure = "fail_fast"
  <2> DEFINE c == Fail(rest.inv.cursor, "NODE_FAILED")
             new == [rest EXCEPT !.inv.cursor = c]
  <2>1. Becomes(new)
    BY <1>7 DEF Route, rest, drained
  <2> HIDE DEF c
  <2>2. Guarded(new, inv, workflow)
    BY <1>2, <1>3
  <2> HIDE DEF new
  <2> QED
    BY <1>5, <2>1, <2>2
<1>8. CASE executions[i] = "failed" /\ policy.failure = "continue_active_branches"
  <2> DEFINE c == SchedulerBlocked(workflow, rest.inv.cursor, i)
             new == [rest EXCEPT !.inv.cursor = c, !.inv.deferred = "failed"]
  <2>1. Becomes(SaveSkipped(new))
    BY <1>8 DEF Route, rest, drained
  <2> HIDE DEF c
  <2>2. Guarded(new, inv, workflow)
    BY <1>2, <1>4
  <2> HIDE DEF new
  <2> QED
    BY <1>5, <2>1, <2>2
<1>9. CASE executions[i] \notin {"completed", "failed"}
  <2>1. Becomes(SaveSkipped(rest))
    BY <1>9 DEF Route, rest, drained
  <2> QED
    BY <1>2, <1>5, <2>1
<1>10. policy.failure \in {"fail_fast", "continue_active_branches"}
  BY PolicyIs DEF RecoveryInv
<1> QED
  BY <1>6, <1>7, <1>8, <1>9, <1>10

LEMMA FailWithGated ==
  ASSUME RecoveryInv, NEW code, FailWith(code)
  PROVE  RecoveryInv'
<1> DEFINE now == [inv EXCEPT !.cursor = Fail(@, code), !.deferred = "none"]
<1>1. SameReplays(now, inv)
  BY DEF RecoveryInv, Gated, SameReplays, Typed, Record
<1>2. Becomes(Started(now))
  BY DEF FailWith
<1> HIDE DEF now
<1> QED
  BY <1>1, <1>2, BeginsGuarded, BecomesGated DEF FailWith

LEMMA StopGated ==
  ASSUME RecoveryInv, Range(waits) \subseteq DOMAIN executions, NEW final, Stop(final)
  PROVE  RecoveryInv'
<1> DEFINE now == [inv EXCEPT !.state = final, !.deferred =
                     IF final = "waiting" THEN @ ELSE "none"]
           first == Started(now)
<1>1. SameReplays(now, inv) /\ now.executions = inv.executions /\ Record(now)
  BY DEF RecoveryInv, Gated, SameReplays, Typed, Record
<1>2. Becomes(Save(first, Range(waits)))
  BY DEF Stop
<1> HIDE DEF now
<1>3. Guarded(first, inv, workflow) /\ first.inv = now
  BY <1>1, BeginsGuarded, StartedIs
<1> HIDE DEF first
<1>4. Guarded(Save(first, Range(waits)), inv, workflow)
  BY <1>1, <1>3, SaveGuarded DEF executions
<1> QED
  BY <1>2, <1>4, BecomesGated DEF Stop

LEMMA AbandonGated ==
  ASSUME RecoveryInv, NEW final, Abandon(final)
  PROVE  RecoveryInv'
<1> DEFINE marked == IF final = "failed" THEN [inv EXCEPT !.state = "failed"] ELSE inv
           now == Quiet(marked, "cancelled")
           first == Started(now)
           quiet == SaveEach(first, Active)
           ended == [quiet EXCEPT !.inv.state = final, !.inv.deferred = "none"]
<1>1. SameReplays(marked, inv)
  <2>1. SameReplays([inv EXCEPT !.state = "failed"], inv)
    BY DEF RecoveryInv, Gated, SameReplays, Typed, Record
  <2>2. SameReplays(inv, inv)
    BY DEF RecoveryInv, Gated, SameReplays
  <2> QED
    BY <2>1, <2>2
<1>2. Becomes(Save(ended, Active))
  BY DEF Abandon
<1> HIDE DEF marked
<1>3. SameReplays(now, inv) /\ Record(now)
  <2>1. SameReplays(now, marked)
    BY <1>1, QuietMoves DEF SameReplays
  <2> HIDE DEF now
  <2> QED
    BY <1>1, <2>1 DEF SameReplays, Typed
<1> HIDE DEF now
<1>4. Guarded(first, inv, workflow) /\ first.inv = now /\ Active \subseteq DOMAIN now.executions
  <2>1. Active \subseteq DOMAIN inv.executions
    BY DEF Active, ActiveIn
  <2> QED
    BY <1>3, <2>1, BeginsGuarded, StartedIs DEF SameReplays
<1> HIDE DEF first
<1>5. Guarded(quiet, inv, workflow) /\ quiet.inv = now
  BY <1>4, SaveGuarded, SaveIs DEF Guarded, SameButSaved
<1> HIDE DEF quiet
<1>6. Moves(ended, quiet) /\ ended.inv.executions = quiet.inv.executions
  <2>1. Accumulates(quiet) /\ Typed(quiet.inv)
    BY <1>5 DEF Guarded, Gated
  <2>2. /\ Accumulates(ended) /\ ended.saved = quiet.saved /\ ended.inv.mode = quiet.inv.mode
        /\ ended.inv.executions = quiet.inv.executions /\ ended.inv.waits = quiet.inv.waits
        /\ ended.inv.replays = quiet.inv.replays
        /\ ended.inv.transitions = quiet.inv.transitions
    BY <2>1 DEF Accumulates, Record
  <2> HIDE DEF ended
  <2> QED
    BY <2>1, <2>2 DEF Moves, SameReplays, Typed, Accumulates
<1> HIDE DEF ended
<1>7. Guarded(ended, inv, workflow)
  BY <1>5, <1>6, MovesGuarded
<1>8. Guarded(Save(ended, Active), inv, workflow)
  BY <1>4, <1>5, <1>6, <1>7, SaveGuarded
<1> QED
  BY <1>2, <1>8, BecomesGated DEF Abandon

LEMMA SubmitGated ==
  ASSUME RecoveryInv, ScheduledOnce, Submit
  PROVE  RecoveryInv'
<1> DEFINE now == [inv EXCEPT !.cursor = Cleared(@)]
           first == Started(now)
<1>1. SameReplays(now, inv) /\ Record(now)
  BY DEF RecoveryInv, Gated, SameReplays, Typed, Record
<1>2. PICK fate \in [Range(cursor.ready) -> policy.mapping] :
        /\ Becomes(SubmitAll(first, cursor.ready, fate))
        /\ working' = working \cup SubmitAll(first, cursor.ready, fate).jobs
  BY DEF Submit
<1> HIDE DEF now
<1>3. /\ Guarded(first, inv, workflow) /\ first.inv = now /\ first.jobs = {}
  BY <1>1, BeginsGuarded, StartedIs
<1> HIDE DEF first
<1> DEFINE T == cursor.scheduled \cup {<<workflow.entry, <<>>>>}
<1>4. cursor.ready \in Seq(T) /\ IsInjective(cursor.ready)
  BY DEF ScheduledOnce
<1> HIDE DEF T
<1>5. Sequence(cursor.ready)
  BY <1>4, SequenceOfAny
<1>6. \A i \in Range(cursor.ready) : policy.recovery[Node(i)] \in Nat
  BY PolicyIs DEF RecoveryInv, ScheduledOnce
<1>7. now.mode # "recovery" => Range(cursor.ready) \cap DOMAIN now.executions = {}
  BY <1>1 DEF ScheduledOnce, SameReplays, executions, mode
<1>8. Hands(first, inv, Range(cursor.ready))
  BY <1>3, <1>6, <1>7 DEF Hands
<1>9. \A i \in Range(cursor.ready) : fate[i] \in {"mapped", "unmapped", "overspent"}
  BY PolicyIs DEF RecoveryInv
<1> DEFINE after == SubmitAll(first, cursor.ready, fate)
<1>10. Hands(after, inv, {})
  BY <1>4, <1>5, <1>8, <1>9, HandAll
<1>11. Becomes(after) /\ working' = working \cup after.jobs
  BY <1>2
<1> HIDE DEF after
<1>12. /\ Guarded(after, inv, workflow) /\ inv' = after.inv /\ inv'.mode = inv.mode
       /\ DOMAIN inv.executions \subseteq DOMAIN inv'.executions
  BY <1>10, <1>11 DEF Hands, Guarded, Becomes
<1>13. Replayable(working', inv', workflow)
  BY <1>10, <1>11, <1>12 DEF RecoveryInv, Replayable, Hands, policy
<1>14. DOMAIN resuming' \subseteq DOMAIN inv'.executions
  BY <1>12 DEF Submit, RecoveryInv
<1> QED
  BY <1>11, <1>12, <1>13, <1>14, BecomesKept DEF Submit

LEMMA ReceiveGated ==
  ASSUME RecoveryInv, Receive
  PROVE  RecoveryInv'
<1>1. PICK fate : Becomes(ApplyAll(Started(inv), mailbox, fate))
  BY DEF Receive
<1> DEFINE first == Started(inv)
           after == ApplyAll(first, mailbox, fate)
<1>2. SameReplays(inv, inv)
  BY DEF RecoveryInv, Gated, SameReplays
<1>3. Guarded(first, inv, workflow)
  BY <1>2, BeginsGuarded
<1> HIDE DEF first
<1>4. Sequence(mailbox) /\ \A m \in Range(mailbox) : m[1] \in DOMAIN inv.executions
  BY DEF RecoveryInv, Answered
<1>5. Guarded(after, inv, workflow)
  BY <1>3, <1>4, ApplyAllGuarded
<1>6. Becomes(after)
  BY <1>1 DEF first
<1> HIDE DEF after
<1> QED
  BY <1>5, <1>6, BecomesGated DEF Receive

LEMMA AnswerGated ==
  ASSUME RecoveryInv, NEW i, NEW answer, WorkerFinishes(i, answer)
  PROVE  RecoveryInv'
<1>1. /\ i \in working /\ working' \subseteq working /\ inv' = inv /\ saved' = saved
      /\ workflow' = workflow /\ resuming' = resuming
      /\ mailbox' = Append(mailbox, <<i, answer>>)
  BY DEF WorkerFinishes
<1>2. WorkflowKnown'
  BY <1>1 DEF RecoveryInv, WorkflowKnown
<1>3. Sequence(mailbox') /\ Range(mailbox') = Range(mailbox) \cup {<<i, answer>>}
  BY <1>1, SequenceAppend DEF RecoveryInv
<1>4. i \in DOMAIN inv.executions
  BY <1>1 DEF RecoveryInv, Replayable
<1>5. Answered' \subseteq DOMAIN inv.executions
  <2>1. Answered' = {m[1] : m \in Range(mailbox')}
    BY DEF Answered
  <2> QED
    BY <1>3, <1>4, <2>1 DEF RecoveryInv, Answered
<1>6. Replayable(working', inv, workflow)
  BY <1>1 DEF RecoveryInv, Replayable
<1> QED
  BY <1>1, <1>2, <1>3, <1>5, <1>6 DEF RecoveryInv

LEMMA ClaimedGuarded ==
  ASSUME RecoveryInv, Range(waits) \subseteq DOMAIN executions, NEW key \in DOMAIN waits
  PROVE  Guarded(Claimed(key), inv, workflow) /\ waits[key] \in DOMAIN inv.executions
<1> DEFINE now == Unkeyed(inv, key)
           left == [k \in DOMAIN inv.waits \ {key} |-> inv.waits[k]]
           first == Started(now)
<1>0. waits[key] \in DOMAIN inv.executions
  BY DEF Range, executions
<1>1. now = [inv EXCEPT !.waits = left]
  BY DEF Unkeyed
<1>2. Function(left)
  BY DEF Function
<1> HIDE DEF left, now
<1>3. SameReplays(now, inv) /\ Record(now) /\ now.executions = inv.executions
  BY <1>1, <1>2 DEF RecoveryInv, Gated, SameReplays, Typed, Record
<1>4. Claimed(key) = SaveIfFull(first, {waits[key]})
  BY DEF Claimed, now, Unkeyed, waits
<1>5. Guarded(first, inv, workflow) /\ first.inv = now
  BY <1>3, BeginsGuarded, StartedIs
<1> HIDE DEF first
<1>6. Guarded(SaveIfFull(first, {waits[key]}), inv, workflow)
  BY <1>0, <1>3, <1>5, SaveGuarded
<1> QED
  BY <1>0, <1>4, <1>6

LEMMA ContinueGated ==
  ASSUME RecoveryInv, NEW acc, Guarded(acc, inv, workflow), NEW i \in DOMAIN inv.executions,
         NEW copies, Continue(acc, i, copies), DOMAIN resuming' \subseteq DOMAIN resuming
  PROVE  RecoveryInv'
<1>1. PICK fate : Becomes(Continued(acc, i, copies, fate))
  BY DEF Continue
<1> DEFINE concluded == Conclude(acc.inv, i, copies, fate)
           first == [acc EXCEPT !.inv = concluded]
           ended == Save(first, {i})
           running == [ended EXCEPT !.inv.state = "running", !.inv.cursor = Unfailed(@)]
<1>2. Becomes(ended) \/ Becomes(Save(running, {}))
  BY <1>1 DEF Continued
<1>3. Accumulates(acc) /\ Typed(acc.inv) /\ i \in DOMAIN acc.inv.executions
  BY DEF Guarded, Gated
<1>4. SameReplays(concluded, acc.inv)
  BY <1>3, ConcludeMoves
<1> HIDE DEF concluded
<1>5. Moves(first, acc)
  BY <1>3, <1>4 DEF Moves, Accumulates, SameReplays, Typed
<1>6. Guarded(first, inv, workflow) /\ i \in DOMAIN first.inv.executions
  BY <1>3, <1>5, MovesGuarded DEF Moves, SameReplays
<1> HIDE DEF first
<1>7. Guarded(ended, inv, workflow)
  BY <1>6, SaveGuarded
<1> HIDE DEF ended
<1>8. Moves(running, ended)
  <2>1. Accumulates(ended) /\ Typed(ended.inv)
    BY <1>7 DEF Guarded, Gated
  <2>2. /\ Accumulates(running) /\ running.saved = ended.saved
        /\ running.inv.mode = ended.inv.mode /\ running.inv.replays = ended.inv.replays
        /\ running.inv.executions = ended.inv.executions
        /\ running.inv.waits = ended.inv.waits
        /\ running.inv.transitions = ended.inv.transitions
    BY <2>1 DEF Accumulates, Record
  <2> HIDE DEF running
  <2> QED
    BY <2>1, <2>2 DEF Moves, SameReplays, Typed, Accumulates
<1> HIDE DEF running
<1>9. Guarded(Save(running, {}), inv, workflow)
  <2>1. Guarded(running, inv, workflow)
    BY <1>7, <1>8, MovesGuarded
  <2> QED
    BY <2>1, SaveGuarded
<1> QED
  BY <1>2, <1>7, <1>9, BecomesGated DEF Continue

LEMMA ResumeGated ==
  ASSUME RecoveryInv, Range(waits) \subseteq DOMAIN executions,
         \/ \E key \in DOMAIN waits : Resume(key) \/ ResumeSuspends(key)
         \/ \E i \in DOMAIN resuming : ResumeContinues(i)
  PROVE  RecoveryInv'
<1>1. CASE \E key \in DOMAIN waits : Resume(key)
  <2>1. PICK key \in DOMAIN waits : Resume(key)
    BY <1>1
  <2>2. Guarded(Claimed(key), inv, workflow) /\ waits[key] \in DOMAIN inv.executions
    BY ClaimedGuarded
  <2>3. Continue(Claimed(key), waits[key], Copies(inv, waits[key])) /\ resuming' = resuming
    BY <2>1 DEF Resume
  <2> QED
    BY <2>2, <2>3, ContinueGated
<1>2. CASE \E key \in DOMAIN waits : ResumeSuspends(key)
  <2>1. PICK key \in DOMAIN waits : ResumeSuspends(key)
    BY <1>2
  <2>2. Guarded(Claimed(key), inv, workflow) /\ waits[key] \in DOMAIN inv.executions
    BY ClaimedGuarded
  <2> DEFINE acc == Claimed(key)
  <2>3. /\ Becomes(acc) /\ workflow' = workflow /\ working' = working /\ mailbox' = mailbox
        /\ DOMAIN resuming' = DOMAIN resuming \cup {waits[key]}
    BY <2>1 DEF ResumeSuspends, Claim, Extend
  <2> HIDE DEF acc
  <2>4. inv'.mode = inv.mode /\ DOMAIN inv.executions \subseteq DOMAIN inv'.executions
    BY <2>2, <2>3 DEF Guarded, Becomes, acc
  <2>5. Replayable(working', inv', workflow)
    BY <2>3, <2>4 DEF RecoveryInv, Replayable
  <2>6. DOMAIN resuming' \subseteq DOMAIN inv'.executions
    BY <2>2, <2>3, <2>4 DEF RecoveryInv
  <2> QED
    BY <2>2, <2>3, <2>5, <2>6, BecomesKept DEF acc
<1>3. CASE \E i \in DOMAIN resuming : ResumeContinues(i)
  <2>1. PICK i \in DOMAIN resuming : ResumeContinues(i)
    BY <1>3
  <2>2. SameReplays(inv, inv)
    BY DEF RecoveryInv, Gated, SameReplays
  <2>3. Guarded(Started(inv), inv, workflow)
    BY <2>2, BeginsGuarded
  <2>4. Continue(Started(inv), i, resuming[i]) /\ DOMAIN resuming' \subseteq DOMAIN resuming
    BY <2>1 DEF ResumeContinues
  <2>5. i \in DOMAIN inv.executions
    BY DEF RecoveryInv
  <2> QED
    BY <2>3, <2>4, <2>5, ContinueGated
<1> QED
  BY <1>1, <1>2, <1>3

(* The process starts again with an image that the crash left.             *)
LEMMA RestartGated ==
  ASSUME RecoveryInv, NEW image, Gated(image, workflow),
         RestartWaiting(image) \/ RestartCreated(image) \/ RestartRunning(image)
  PROVE  Gated(inv', workflow) /\ AllGated(saved', workflow)
<1> DEFINE now == [image EXCEPT !.mode = "recovery"]
<1>1. Gated(now, workflow) /\ Record(now) /\ now.executions = image.executions
  <2>1. /\ Record(now) /\ now.executions = image.executions /\ now.waits = image.waits
        /\ now.transitions = image.transitions /\ now.replays = image.replays
    BY DEF Gated, Typed, Record
  <2> HIDE DEF now
  <2> QED
    BY <2>1 DEF Gated, Typed
<1>2. AllGated(<<image>>, workflow)
  BY OneGated
<1>3. CASE RestartWaiting(image)
  BY <1>2, <1>3 DEF RestartWaiting
<1>4. CASE RestartCreated(image)
  BY <1>1, <1>2, <1>4 DEF RestartCreated
<1>5. CASE RestartRunning(image)
  <2> DEFINE active == {i \in DOMAIN image.executions : image.executions[i] = "running"}
             start == Started(now)
             first == [start EXCEPT !.saved = <<image>>]
  <2>1. PICK order \in SetToSeqs(active) :
          LET after == RecoverAll(first, order)
              running == [after EXCEPT !.inv.state = "running", !.inv.cursor = Unfailed(@)]
          IN  Becomes(after) \/ Becomes(running) \/ Becomes(Save(running, active))
    BY <1>5 DEF RestartRunning
  <2> HIDE DEF now
  <2>2. Guarded(first, now, workflow)
    <3>1. Accumulates(start) /\ start.inv = now
      BY <1>1, StartedIs
    <3> HIDE DEF start
    <3>2. Accumulates(first) /\ first.inv = now /\ first.saved = <<image>>
      BY <3>1 DEF Accumulates
    <3> HIDE DEF first
    <3> QED
      BY <1>1, <1>2, <3>2 DEF Guarded
  <2> HIDE DEF first
  <2>3. Sequence(order) /\ Range(order) \subseteq DOMAIN now.executions
        /\ active \subseteq DOMAIN now.executions
    <3>1. active \subseteq DOMAIN image.executions
      OBVIOUS
    <3>2. IsFiniteSet(active)
      BY <3>1, FS_Subset DEF Gated
    <3>3. order \in [1 .. Cardinality(active) -> active]
      BY DEF SetToSeqs
    <3> HIDE DEF active
    <3>4. Cardinality(active) \in Nat
      BY <3>2, FS_CardinalityType
    <3>5. order \in Seq(active)
      BY <3>3, <3>4
    <3> QED
      BY <1>1, <3>1, <3>5, SequenceOfAny
  <2> DEFINE after == RecoverAll(first, order)
             running == [after EXCEPT !.inv.state = "running", !.inv.cursor = Unfailed(@)]
  <2> HIDE DEF active
  <2>4. Guarded(after, now, workflow)
    BY <2>2, <2>3, RecoverAllGuarded
  <2>5. Becomes(after) \/ Becomes(running) \/ Becomes(Save(running, active))
    BY <2>1
  <2> HIDE DEF after
  <2>6. Moves(running, after)
    <3>1. Accumulates(after) /\ Typed(after.inv)
      BY <2>4 DEF Guarded, Gated
    <3>2. /\ Accumulates(running) /\ running.saved = after.saved
          /\ running.inv.mode = after.inv.mode /\ running.inv.replays = after.inv.replays
          /\ running.inv.executions = after.inv.executions
          /\ running.inv.waits = after.inv.waits
          /\ running.inv.transitions = after.inv.transitions
      BY <3>1 DEF Accumulates, Record
    <3> HIDE DEF running
    <3> QED
      BY <3>1, <3>2 DEF Moves, SameReplays, Typed, Accumulates
  <2> HIDE DEF running
  <2>7. Guarded(running, now, workflow)
    BY <2>4, <2>6, MovesGuarded
  <2>8. Guarded(Save(running, active), now, workflow)
    <3>1. active \subseteq DOMAIN running.inv.executions
      BY <2>3, <2>7 DEF Guarded
    <3> QED
      BY <2>7, <3>1, SaveGuarded
  <2>9. PICK acc : Guarded(acc, now, workflow) /\ Becomes(acc)
    BY <2>4, <2>5, <2>7, <2>8
  <2> QED
    BY <2>9 DEF Guarded, Becomes
<1> QED
  BY <1>3, <1>4, <1>5

LEMMA CrashGated ==
  ASSUME RecoveryInv, NEW image \in Range(saved), Crash(image)
  PROVE  RecoveryInv'
<1>1. Gated(image, workflow)
  BY DEF RecoveryInv, AllGated
<1>2. /\ workflow' = workflow /\ working' = {} /\ mailbox' = <<>> /\ resuming' = <<>>
      /\ RestartWaiting(image) \/ RestartCreated(image) \/ RestartRunning(image)
  BY DEF Crash
<1>3. Gated(inv', workflow) /\ AllGated(saved', workflow)
  BY <1>1, <1>2, RestartGated
<1>4. WorkflowKnown'
  BY <1>2 DEF RecoveryInv, WorkflowKnown
<1>5. <<>> \in Seq(Range(<<>>)) /\ Range(<<>>) = {} /\ DOMAIN <<>> = {}
  BY DEF Range
<1>6. Answered' = {}
  BY <1>2, <1>5 DEF Answered
<1>7. Replayable({}, inv', workflow)
  BY DEF Replayable
<1> QED
  BY <1>2, <1>3, <1>4, <1>5, <1>6, <1>7 DEF RecoveryInv, Sequence

LEMMA RecoveryInit ==
  ASSUME Init
  PROVE  RecoveryInv
<1>1. /\ WorkflowKnown /\ inv = NewInvocation(workflow.entry)
      /\ saved = (IF policy.crashes = 0 THEN <<>> ELSE <<inv>>)
      /\ working = {} /\ mailbox = <<>> /\ resuming = <<>>
  BY DEF Init, WorkflowKnown
<1>2. /\ Range(<<>>) = {} /\ DOMAIN <<>> = {} /\ <<>> \in Seq(Range(<<>>))
      /\ Sequence(<<>>) /\ Function(<<>>) /\ IsFiniteSet({})
  BY FS_EmptySet DEF Range, Sequence, Function
<1> DEFINE c == Genesis(workflow.entry)
           x == [k \in Contexts |-> Empty]
<1> HIDE DEF c, x
<1>3. inv = [cursor |-> c, executions |-> <<>>, replays |-> <<>>,
             transitions |-> <<>>, waits |-> <<>>, state |-> "created",
             deferred |-> "none", mode |-> "normal",
             contexts |-> x, bases |-> <<>>, commits |-> <<>>]
  BY <1>1 DEF NewInvocation, c, x
<1>4. /\ Record(inv) /\ inv.executions = <<>> /\ inv.waits = <<>> /\ inv.transitions = <<>>
      /\ inv.replays = <<>>
  BY <1>3 DEF Record
<1>5. Gated(inv, workflow)
  BY <1>2, <1>4 DEF Gated, Typed
<1>6. AllGated(saved, workflow)
  <2>1. CASE policy.crashes = 0
    BY <1>1, <1>2, <2>1 DEF AllGated, policy
  <2>2. CASE policy.crashes # 0
    BY <1>1, <1>5, <2>2, OneGated
  <2> QED
    BY <2>1, <2>2
<1>7. Answered = {}
  BY <1>1, <1>2 DEF Answered
<1>8. Replayable({}, inv, workflow)
  BY DEF Replayable
<1> QED
  BY <1>1, <1>2, <1>5, <1>6, <1>7, <1>8 DEF RecoveryInv

LEMMA RecoveryStep ==
  ASSUME RecoveryInv, ScheduledOnce, WaitsExact, [Next]_vars
  PROVE  RecoveryInv'
<1>0. Range(waits) \subseteq DOMAIN executions
  BY DEF WaitsExact
<1>1. CASE UNCHANGED vars
  BY <1>1 DEF RecoveryInv, vars, WorkflowKnown, Answered
<1>2. CASE \E image \in Range(saved) : Crash(image)
  BY <1>2, CrashGated
<1>3. CASE Drive
  <2>1. CASE Start
    BY <2>1, StartGated
  <2>2. CASE \E i \in DOMAIN executions : Route(i)
    BY <2>2, RouteGated
  <2>3. CASE Submit
    BY <2>3, SubmitGated
  <2>4. CASE Receive
    BY <2>4, ReceiveGated
  <2>5. CASE Park \/ TerminateInterrupted \/ Complete
    BY <1>0, <2>5, StopGated DEF Park, TerminateInterrupted, Complete
  <2>6. CASE TerminateFailed \/ DeadEnd
    BY <2>6, FailWithGated DEF TerminateFailed, DeadEnd
  <2>7. CASE FinishFailed \/ Raise
    BY <2>7, AbandonGated DEF FinishFailed, Raise
  <2> QED
    BY <1>3, <2>1, <2>2, <2>3, <2>4, <2>5, <2>6, <2>7 DEF Drive
<1>4. CASE Answer
  BY <1>4, AnswerGated DEF Answer
<1>5. CASE \/ \E key \in DOMAIN waits : Resume(key) \/ ResumeSuspends(key)
           \/ \E i \in DOMAIN resuming : ResumeContinues(i)
  BY <1>0, <1>5, ResumeGated
<1>6. CASE Cancel
  BY <1>6, AbandonGated DEF Cancel
<1> QED
  BY <1>1, <1>2, <1>3, <1>4, <1>5, <1>6 DEF Next, Finished, Stranded

(* However often the process crashes, in whichever image, what a recovery  *)
(* runs its RecoveryPolicy permits, and no instance is replayed more often *)
(* than that allows.  The Scheduler has to hand out each instance once,    *)
(* and no crash may leave a wait whose execution it lost.                  *)
THEOREM ReplaysStayGated ==
  Spec /\ []ScheduledOnce /\ []WaitsExact => []RecoveryGated
<1>1. Init => RecoveryInv
  BY RecoveryInit
<1>2. RecoveryInv /\ ScheduledOnce /\ WaitsExact /\ [Next]_vars => RecoveryInv'
  BY RecoveryStep
<1>3. RecoveryInv => RecoveryGated
  BY DEF RecoveryInv, RecoveryGated, Replayable, Gated, mode, replays, policy
<1> QED
  BY <1>1, <1>2, <1>3, PTL DEF Spec
=============================================================================
