-------------------- MODULE PersistenceCoordinatorProofs --------------------
(* What the coordinator guarantees to any client, for any set of envelopes, *)
(* any watermarks and any take limit: of its deques and its ledger, of the  *)
(* memory it accounts for and of the recovery snapshots it keeps.           *)
EXTENDS PersistenceCoordinator, CollectionProofs

-----------------------------------------------------------------------------
(* The inductive invariant: the deques, the round-robin order, the memory  *)
(* ledger and the client protocol agree with one another.                  *)
IInv == TypeOK /\ ReadyExact /\ QueuedExact /\ OutstandingExact

(* What the assumptions on the envelopes say of each field.                *)
LEMMA EnvelopeFields ==
  ASSUME NEW e \in Envelopes
  PROVE  /\ e.kind \in Kinds /\ e.key \in Keys
         /\ e.inv \in Invocations \cup {NoInvocation}
         /\ e.seq \in Nat /\ e.bytes \in Nat /\ e.snapshot \in Nat
         /\ e.exact \in Nat
         /\ e.kind # "workflow_version" => e.inv \in Invocations
BY EnvelopesAssumption DEF Envelope

(* A new coordinator satisfies the inductive invariant.                    *)
LEMMA InitEstablishes == Init => IInv
<1> SUFFICES ASSUME Init PROVE IInv
  OBVIOUS
<1>1. TypeOK
  <2>1. /\ incoming \in [Keys -> Seq(Envelopes)]
        /\ ready \in Seq(Keys) /\ stage \in [Envelopes -> Stages]
    BY DEF Init, Stages
  <2>2. /\ size \in [Envelopes -> Nat] /\ pendingBytes \in Int
        /\ durableSeq \in [Invocations -> Nat]
        /\ durableUserSeq \in [Invocations -> Nat]
        /\ budget \in Nat
    BY DEF Init
  <2> QED
    BY <2>1, <2>2, Zenon DEF Init, TypeOK, HealthStates
<1>2. ReadyExact
  BY DEF Init, ReadyExact
<1>3. QueuedExact
  BY DEF Init, QueuedExact
<1>4. OutstandingExact
  BY DEF Init, OutstandingExact
<1> QED
  BY <1>1, <1>2, <1>3, <1>4 DEF IInv

-----------------------------------------------------------------------------
(* Parts of a step.                                                        *)

(* _remove_outstanding removes exactly its envelope from the ledger.       *)
LEMMA RemoveOutstandingEffect ==
  ASSUME TypeOK, NEW e \in Envelopes, RemoveOutstanding(e)
  PROVE  /\ outstanding' = outstanding \ {e}
         /\ size' \in [Envelopes -> Nat]
         /\ pendingBytes' \in Int
BY DEF TypeOK, RemoveOutstanding, ledgerVars

(* A step that leaves the deques and the order alone keeps them in step.   *)
LEMMA ReadyUnchanged ==
  ASSUME ReadyExact, UNCHANGED <<incoming, ready, readySet>>
  PROVE  ReadyExact'
BY DEF ReadyExact

(* Moving an envelope between two stages outside the deques.               *)
LEMMA QueuedUnchanged ==
  ASSUME TypeOK, QueuedExact, UNCHANGED incoming,
         NEW e \in Envelopes, stage[e] # "queued",
         NEW s \in Stages, s # "queued", MoveTo(e, s)
  PROVE  QueuedExact' /\ stage' \in [Envelopes -> Stages]
<1>1. stage' \in [Envelopes -> Stages]
  BY DEF TypeOK, MoveTo
<1>2. \A f \in Envelopes : stage'[f] = "queued" <=> stage[f] = "queued"
  BY DEF TypeOK, MoveTo
<1>3. \A k \in Keys : \A n \in 1 .. Len(incoming[k]) :
        incoming[k][n] \in Envelopes
  BY DEF TypeOK
<1> QED
  BY <1>1, <1>2, <1>3 DEF QueuedExact

(* The ledger after an envelope changed stage without leaving it.          *)
LEMMA OutstandingKept ==
  ASSUME TypeOK, OutstandingExact, UNCHANGED outstanding,
         NEW e \in Envelopes, NEW s, MoveTo(e, s),
         s \in {"reserved", "queued", "taken"}
           <=> stage[e] \in {"reserved", "queued", "taken"}
  PROVE  OutstandingExact'
BY DEF TypeOK, OutstandingExact, MoveTo

(* The ledger after a settled envelope left it.                            *)
LEMMA OutstandingReleased ==
  ASSUME TypeOK, OutstandingExact, NEW e \in Envelopes,
         RemoveOutstanding(e), MoveTo(e, "settled")
  PROVE  OutstandingExact'
<1>1. outstanding' = outstanding \ {e}
  BY RemoveOutstandingEffect
<1> QED
  BY <1>1 DEF TypeOK, OutstandingExact, MoveTo

(* The oldest envelope of the first ready Session exists.                  *)
LEMMA HeadExists ==
  ASSUME IInv, ready # <<>>
  PROVE  /\ Head(ready) \in Keys
         /\ incoming[Head(ready)] \in Seq(Envelopes)
         /\ incoming[Head(ready)] # <<>>
         /\ NextToTake \in Envelopes
         /\ NextToTake = incoming[Head(ready)][1]
         /\ stage[NextToTake] = "queued"
<1>1. Head(ready) = ready[1] /\ 1 \in 1 .. Len(ready)
  BY DEF IInv, TypeOK
<1>2. Head(ready) \in Keys /\ incoming[Head(ready)] # <<>>
  BY <1>1 DEF IInv, ReadyExact
<1>3. incoming[Head(ready)] \in Seq(Envelopes)
  BY <1>2 DEF IInv, TypeOK
<1>4. /\ NextToTake = incoming[Head(ready)][1]
      /\ 1 \in 1 .. Len(incoming[Head(ready)])
  BY <1>2, <1>3 DEF NextToTake
<1>5. NextToTake \in Envelopes
  BY <1>3, <1>4
<1>6. stage[NextToTake] = "queued"
  BY <1>2, <1>4 DEF IInv, QueuedExact
<1> QED
  BY <1>2, <1>3, <1>4, <1>5, <1>6

(* Popping the head of a deque keeps the order and the deque in step.      *)
LEMMA PopHeadReady ==
  ASSUME IInv, ready # <<>>, PopHead(Head(ready))
  PROVE  /\ incoming' \in [Keys -> Seq(Envelopes)]
         /\ ready' \in Seq(Keys) /\ readySet' \subseteq Keys
         /\ ReadyExact'
<1> DEFINE k == Head(ready)
<1>1. /\ k \in Keys /\ incoming[k] \in Seq(Envelopes)
      /\ incoming[k] # <<>>
  BY HeadExists
<1>2. ready \in Seq(Keys) /\ incoming \in [Keys -> Seq(Envelopes)]
  BY DEF IInv, TypeOK
<1>3. incoming' = [incoming EXCEPT ![k] = Tail(@)]
  BY DEF PopHead
<1>4. incoming' \in [Keys -> Seq(Envelopes)]
  BY <1>1, <1>2, <1>3
<1>5. \A x \in Keys : x # k => incoming'[x] = incoming[x]
  BY <1>1, <1>2, <1>3
<1>6. incoming'[k] # <<>> <=> Len(incoming[k]) > 1
  <2>1. /\ Tail(incoming[k]) \in Seq(Envelopes)
        /\ Len(Tail(incoming[k])) = Len(incoming[k]) - 1
    BY <1>1
  <2>2. incoming'[k] = Tail(incoming[k])
    BY <1>1, <1>2, <1>3
  <2>3. Tail(incoming[k]) # <<>> <=> Len(Tail(incoming[k])) > 0
    BY <2>1, NonEmptyLength
  <2>4. Len(incoming[k]) \in Nat
    BY <1>1
  <2> QED
    BY <2>1, <2>2, <2>3, <2>4
<1>7. /\ Tail(ready) \in Seq(Keys) /\ Len(Tail(ready)) = Len(ready) - 1
      /\ \A n \in 1 .. Len(ready) - 1 : Tail(ready)[n] = ready[n + 1]
      /\ ready[1] = k /\ Len(ready) \in Nat \ {0}
  BY <1>2
<1>8. CASE Len(incoming[k]) > 1
  <2>1. ready' = Append(Tail(ready), k) /\ readySet' = readySet
    BY <1>8 DEF PopHead
  <2>2. /\ ready' \in Seq(Keys) /\ Len(ready') = Len(ready)
        /\ ready'[Len(ready)] = k
        /\ \A n \in 1 .. Len(ready) - 1 : ready'[n] = ready[n + 1]
    BY <2>1, <1>7, <1>1
  <2>3. readySet' = {x \in Keys : incoming'[x] # <<>>}
    BY <2>1, <1>1, <1>5, <1>6, <1>8 DEF IInv, ReadyExact
  <2>4. \A x \in readySet' : \E n \in 1 .. Len(ready') : ready'[n] = x
    <3>1. SUFFICES ASSUME NEW x \in readySet
                   PROVE  \E n \in 1 .. Len(ready') : ready'[n] = x
      BY <2>1
    <3>2. PICK n \in 1 .. Len(ready) : ready[n] = x
      BY DEF IInv, ReadyExact
    <3>3. CASE n = 1
      BY <3>2, <3>3, <2>2, <1>7
    <3>4. CASE n # 1
      <4>1. n - 1 \in 1 .. Len(ready) - 1
        BY <3>4, <1>7
      <4>2. ready'[n - 1] = ready[(n - 1) + 1] /\ (n - 1) + 1 = n
        BY <4>1, <2>2
      <4>3. n - 1 \in 1 .. Len(ready')
        BY <4>1, <2>2
      <4> QED
        BY <3>2, <4>2, <4>3
    <3> QED
      BY <3>3, <3>4
  <2>5. \A n \in 1 .. Len(ready') : ready'[n] \in readySet'
    <3>1. SUFFICES ASSUME NEW n \in 1 .. Len(ready)
                   PROVE  ready'[n] \in readySet
      BY <2>1, <2>2
    <3>2. CASE n = Len(ready)
      BY <3>2, <2>2, <1>1 DEF IInv, ReadyExact
    <3>3. CASE n # Len(ready)
      <4>1. ready'[n] = ready[n + 1] /\ n + 1 \in 1 .. Len(ready)
        BY <3>3, <2>2, <1>7
      <4> QED
        BY <4>1 DEF IInv, ReadyExact
    <3> QED
      BY <3>2, <3>3
  <2>6. \A m, n \in 1 .. Len(ready') : ready'[m] = ready'[n] => m = n
    BY <2>2, <1>7 DEF IInv, ReadyExact
  <2> QED
    BY <1>4, <2>1, <2>2, <2>3, <2>4, <2>5, <2>6 DEF IInv, TypeOK, ReadyExact
<1>9. CASE ~(Len(incoming[k]) > 1)
  <2>1. ready' = Tail(ready) /\ readySet' = readySet \ {k}
    BY <1>9 DEF PopHead
  <2>2. readySet' = {x \in Keys : incoming'[x] # <<>>}
    BY <2>1, <1>1, <1>5, <1>6, <1>9 DEF IInv, ReadyExact
  <2>3. \A x \in readySet' : \E n \in 1 .. Len(ready') : ready'[n] = x
    <3>1. SUFFICES ASSUME NEW x \in readySet, x # k
                   PROVE  \E n \in 1 .. Len(ready') : ready'[n] = x
      BY <2>1
    <3>2. PICK n \in 1 .. Len(ready) : ready[n] = x
      BY DEF IInv, ReadyExact
    <3>3. n - 1 \in 1 .. Len(ready) - 1 /\ ready'[n - 1] = x
      BY <3>1, <3>2, <2>1, <1>7
    <3> QED
      BY <3>3, <2>1, <1>7
  <2>4. \A n \in 1 .. Len(ready') : ready'[n] \in readySet'
    BY <2>1, <1>7 DEF IInv, ReadyExact
  <2>5. \A m, n \in 1 .. Len(ready') : ready'[m] = ready'[n] => m = n
    BY <2>1, <1>7 DEF IInv, ReadyExact
  <2> QED
    BY <1>4, <2>1, <1>7, <2>2, <2>3, <2>4, <2>5 DEF IInv, TypeOK, ReadyExact
<1> QED
  BY <1>8, <1>9

(* Popping the head of a deque removes that envelope, and only it, from    *)
(* the queued ones.                                                        *)
LEMMA PopHeadQueued ==
  ASSUME IInv, ready # <<>>, PopHead(Head(ready)),
         NEW s \in Stages, s # "queued", MoveTo(NextToTake, s)
  PROVE  QueuedExact' /\ stage' \in [Envelopes -> Stages]
<1> DEFINE k == Head(ready)
           e == NextToTake
<1>1. /\ k \in Keys /\ incoming[k] \in Seq(Envelopes)
      /\ incoming[k] # <<>> /\ e \in Envelopes /\ e = incoming[k][1]
      /\ stage[e] = "queued"
  BY HeadExists
<1>2. /\ incoming \in [Keys -> Seq(Envelopes)]
      /\ stage \in [Envelopes -> Stages]
  BY DEF IInv, TypeOK
<1>3. stage' = [stage EXCEPT ![e] = s]
  BY DEF MoveTo
<1>4. incoming' = [incoming EXCEPT ![k] = Tail(@)]
  BY DEF PopHead
<1>5. e.key = k
  <2>1. 1 \in 1 .. Len(incoming[k])
    BY <1>1
  <2> QED
    BY <2>1, <1>1 DEF IInv, QueuedExact
<1> HIDE DEF k, e
<1>6. stage' \in [Envelopes -> Stages]
  BY <1>1, <1>2, <1>3
<1>7. /\ Len(incoming'[k]) = Len(incoming[k]) - 1
      /\ \A n \in 1 .. Len(incoming[k]) - 1 :
           incoming'[k][n] = incoming[k][n + 1]
      /\ Len(incoming[k]) \in Nat \ {0}
  BY <1>1, <1>2, <1>4
<1>8. \A x \in Keys : x # k => incoming'[x] = incoming[x]
  BY <1>2, <1>4
<1>9. ASSUME NEW x \in Keys, NEW n \in 1 .. Len(incoming'[x])
      PROVE  /\ incoming'[x][n].key = x
             /\ stage'[incoming'[x][n]] = "queued"
             /\ \A m \in 1 .. Len(incoming'[x]) :
                  incoming'[x][m] = incoming'[x][n] => m = n
  <2>1. CASE x = k
    <3>1. /\ n + 1 \in 1 .. Len(incoming[k])
          /\ incoming'[k][n] = incoming[k][n + 1]
      BY <1>7, <2>1
    <3>2. /\ incoming[k][n + 1].key = k
          /\ stage[incoming[k][n + 1]] = "queued"
          /\ \A m \in 1 .. Len(incoming[k]) :
               incoming[k][m] = incoming[k][n + 1] => m = n + 1
      BY <3>1, <1>1 DEF IInv, QueuedExact
    <3>3. incoming[k][n + 1] # e /\ incoming[k][n + 1] \in Envelopes
      BY <3>1, <3>2, <1>1
    <3>4. stage'[incoming'[k][n]] = "queued"
      BY <3>1, <3>2, <3>3, <1>2, <1>3
    <3>5. ASSUME NEW m \in 1 .. Len(incoming'[k]),
                 incoming'[k][m] = incoming'[k][n]
          PROVE  m = n
      <4>1. /\ m + 1 \in 1 .. Len(incoming[k])
            /\ incoming'[k][m] = incoming[k][m + 1]
        BY <1>7
      <4>2. m + 1 = n + 1
        BY <4>1, <3>1, <3>2, <3>5
      <4> QED
        BY <4>2
    <3> QED
      BY <2>1, <3>1, <3>2, <3>4, <3>5
  <2>2. CASE x # k
    <3>1. incoming'[x] = incoming[x] /\ incoming[x][n] \in Envelopes
      BY <2>2, <1>2, <1>8
    <3>2. /\ incoming[x][n].key = x /\ stage[incoming[x][n]] = "queued"
          /\ \A m \in 1 .. Len(incoming[x]) :
               incoming[x][m] = incoming[x][n] => m = n
      BY <3>1 DEF IInv, QueuedExact
    <3>3. incoming[x][n] # e
      BY <3>2, <2>2, <1>5
    <3> QED
      BY <3>1, <3>2, <3>3, <1>2, <1>3
  <2> QED
    BY <2>1, <2>2
<1>10. ASSUME NEW f \in Envelopes, stage'[f] = "queued"
       PROVE  \E n \in 1 .. Len(incoming'[f.key]) : incoming'[f.key][n] = f
  <2>1. f # e /\ stage[f] = "queued"
    BY <1>10, <1>1, <1>2, <1>3
  <2>2. PICK n \in 1 .. Len(incoming[f.key]) : incoming[f.key][n] = f
    BY <2>1 DEF IInv, QueuedExact
  <2>3. CASE f.key = k
    <3>1. n # 1
      BY <2>1, <2>2, <2>3, <1>1
    <3>2. n - 1 \in 1 .. Len(incoming'[k]) /\ (n - 1) + 1 = n
      BY <3>1, <2>2, <2>3, <1>7
    <3>3. incoming'[k][n - 1] = f
      BY <3>2, <2>2, <2>3, <1>7
    <3> QED
      BY <2>3, <3>2, <3>3
  <2>4. CASE f.key # k
    BY <2>2, <2>4, <1>8, EnvelopeFields
  <2> QED
    BY <2>3, <2>4
<1> QED
  BY <1>6, <1>9, <1>10 DEF QueuedExact

-----------------------------------------------------------------------------
(* publish.                                                                *)

(* Coalescing touches sizes and snapshots only.                            *)
LEMMA CoalesceEffect ==
  ASSUME TypeOK, NEW e \in Envelopes, Coalesce(e)
  PROVE  /\ UNCHANGED outstanding
         /\ size' \in [Envelopes -> Nat] /\ pendingBytes' \in Int
         /\ stripped' \subseteq Envelopes
<1> DEFINE slots == SnapshotSlots(incoming[e.key], e.inv)
           strips == e.kind = "event" /\ e.snapshot > 0 /\ slots # {}
<1>1. CASE strips
  <2>1. PICK j \in Newest(slots) : StripSnapshot(incoming[e.key][j])
    BY <1>1 DEF Coalesce
  <2> DEFINE old == incoming[e.key][j]
  <2>2. incoming[e.key] \in Seq(Envelopes) /\ j \in 1 .. Len(incoming[e.key])
    BY <2>1, EnvelopeFields DEF TypeOK, Newest, SnapshotSlots
  <2>3. old \in Envelopes
    BY <2>2
  <2>4. old.bytes \in Nat /\ old.snapshot \in Nat
    BY <2>3, EnvelopeFields
  <2>5. ReducedBytes(old) \in Nat
    BY <2>4, LimitAssumption DEF ReducedBytes, Larger
  <2> QED
    BY <2>1, <2>3, <2>5 DEF StripSnapshot, TypeOK
<1>2. CASE ~strips
  BY <1>2 DEF Coalesce, TypeOK, ledgerVars
<1> QED
  BY <1>1, <1>2

(* publish, with or without coalescing, preserves the inductive invariant. *)
LEMMA PublishPreserves ==
  ASSUME IInv, NEW e \in Envelopes, Publish(e)
  PROVE  IInv'
<1> DEFINE k == e.key
<1>1. /\ k \in Keys /\ incoming \in [Keys -> Seq(Envelopes)]
      /\ ready \in Seq(Keys) /\ readySet \subseteq Keys
      /\ stage \in [Envelopes -> Stages] /\ stage[e] = "reserved"
  BY EnvelopeFields DEF IInv, TypeOK, Publish
<1>2. /\ incoming' = [incoming EXCEPT ![k] = Append(@, e)]
      /\ stage' = [stage EXCEPT ![e] = "queued"]
  BY DEF Publish, MoveTo
<1>3. /\ incoming' \in [Keys -> Seq(Envelopes)]
      /\ stage' \in [Envelopes -> Stages]
  BY <1>1, <1>2 DEF Stages
<1>4. /\ incoming'[k] \in Seq(Envelopes)
      /\ Len(incoming'[k]) = Len(incoming[k]) + 1
      /\ Len(incoming[k]) \in Nat
      /\ incoming'[k][Len(incoming[k]) + 1] = e
      /\ \A n \in 1 .. Len(incoming[k]) : incoming'[k][n] = incoming[k][n]
  BY <1>1, <1>2
<1>5. \A x \in Keys : x # k => incoming'[x] = incoming[x]
  BY <1>1, <1>2
<1>6. incoming'[k] # <<>>
  BY <1>4, NonEmptyLength
<1>7. ready' \in Seq(Keys) /\ readySet' \subseteq Keys
  <2>1. CASE k \in readySet
    BY <2>1, <1>1 DEF Publish
  <2>2. CASE k \notin readySet
    <3>1. ready' = Append(ready, k) /\ readySet' = readySet \cup {k}
      BY <2>2 DEF Publish
    <3> QED
      BY <3>1, <1>1
  <2> QED
    BY <2>1, <2>2
<1> HIDE DEF k
<1>8. TypeOK'
  <2>1. /\ UNCHANGED outstanding
        /\ size' \in [Envelopes -> Nat] /\ pendingBytes' \in Int
        /\ stripped' \subseteq Envelopes
    BY CoalesceEffect DEF IInv, Publish
  <2>2. waking' \subseteq Envelopes
    BY DEF IInv, TypeOK, Publish
  <2> QED
    BY <1>3, <1>7, <2>1, <2>2
    DEF IInv, TypeOK, Publish, faultVars, durableVars, controlVars, lockVars
<1>9. ReadyExact'
  <2>1. readySet' = {x \in Keys : incoming'[x] # <<>>}
    <3>1. readySet' = readySet \cup {k}
      BY DEF Publish, k
    <3> QED
      BY <3>1, <1>1, <1>5, <1>6 DEF IInv, ReadyExact
  <2>2. CASE k \in readySet
    <3>1. ready' = ready /\ readySet' = readySet
      BY <2>2 DEF Publish, k
    <3> QED
      BY <2>1, <3>1 DEF IInv, ReadyExact
  <2>3. CASE k \notin readySet
    <3>1. ready' = Append(ready, k) /\ readySet' = readySet \cup {k}
      BY <2>3 DEF Publish, k
    <3>2. /\ Len(ready') = Len(ready) + 1 /\ Len(ready) \in Nat
          /\ ready'[Len(ready) + 1] = k
          /\ \A n \in 1 .. Len(ready) : ready'[n] = ready[n]
      BY <3>1, <1>1
    <3>3. \A x \in readySet' : \E n \in 1 .. Len(ready') : ready'[n] = x
      BY <3>1, <3>2 DEF IInv, ReadyExact
    <3>4. \A n \in 1 .. Len(ready') : ready'[n] \in readySet'
      BY <3>1, <3>2 DEF IInv, ReadyExact
    <3>5. \A m, n \in 1 .. Len(ready') : ready'[m] = ready'[n] => m = n
      BY <3>2, <2>3 DEF IInv, ReadyExact
    <3> QED
      BY <2>1, <3>3, <3>4, <3>5 DEF ReadyExact
  <2> QED
    BY <2>2, <2>3
<1>10. QueuedExact'
  <2>1. ASSUME NEW x \in Keys, NEW n \in 1 .. Len(incoming[x])
        PROVE  /\ incoming[x][n] \in Envelopes /\ incoming[x][n] # e
               /\ incoming[x][n].key = x
               /\ stage'[incoming[x][n]] = "queued"
               /\ \A m \in 1 .. Len(incoming[x]) :
                    incoming[x][m] = incoming[x][n] => m = n
    <3>1. incoming[x][n] \in Envelopes
      BY <1>1
    <3> QED
      BY <3>1, <1>1, <1>2 DEF IInv, QueuedExact
  <2>2. stage'[e] = "queued"
    BY <1>1, <1>2
  <2>3. ASSUME NEW x \in Keys, NEW n \in 1 .. Len(incoming'[x])
        PROVE  /\ incoming'[x][n].key = x
               /\ stage'[incoming'[x][n]] = "queued"
               /\ \A m \in 1 .. Len(incoming'[x]) :
                    incoming'[x][m] = incoming'[x][n] => m = n
    <3>1. CASE x # k
      BY <3>1, <1>5, <2>1
    <3>2. CASE x = k /\ n \in 1 .. Len(incoming[k])
      <4>1. /\ incoming'[k][n] = incoming[k][n]
            /\ incoming[k][n] # e /\ incoming[k][n].key = k
            /\ stage'[incoming[k][n]] = "queued"
            /\ \A m \in 1 .. Len(incoming[k]) :
                 incoming[k][m] = incoming[k][n] => m = n
        BY <3>2, <1>4, <2>1
      <4>2. ASSUME NEW m \in 1 .. Len(incoming'[k]),
                   incoming'[k][m] = incoming'[k][n]
            PROVE  m = n
        BY <4>1, <4>2, <1>4
      <4> QED
        BY <3>2, <4>1, <4>2
    <3>3. CASE x = k /\ n = Len(incoming[k]) + 1
      <4>1. incoming'[k][n] = e /\ e.key = k
        BY <3>3, <1>4 DEF k
      <4>2. ASSUME NEW m \in 1 .. Len(incoming'[k]),
                   incoming'[k][m] = incoming'[k][n]
            PROVE  m = n
        <5>1. m \notin 1 .. Len(incoming[k])
          <6>1. SUFFICES ASSUME m \in 1 .. Len(incoming[k]) PROVE FALSE
            OBVIOUS
          <6>2. incoming'[k][m] = incoming[k][m]
            BY <6>1, <1>4
          <6>3. incoming[k][m] # e
            BY <6>1, <1>1, <2>1
          <6> QED
            BY <6>2, <6>3, <4>1, <4>2
        <5> QED
          BY <5>1, <1>4, <3>3
      <4> QED
        BY <3>3, <4>1, <4>2, <2>2
    <3> QED
      BY <3>1, <3>2, <3>3, <1>4
  <2>4. ASSUME NEW f \in Envelopes, stage'[f] = "queued"
        PROVE  \E n \in 1 .. Len(incoming'[f.key]) : incoming'[f.key][n] = f
    <3>1. CASE f = e
      BY <3>1, <1>4 DEF k
    <3>2. CASE f # e
      <4>1. stage[f] = "queued" /\ f.key \in Keys
        BY <2>4, <3>2, <1>1, <1>2, EnvelopeFields
      <4>2. PICK n \in 1 .. Len(incoming[f.key]) : incoming[f.key][n] = f
        BY <4>1 DEF IInv, QueuedExact
      <4>3. /\ n \in 1 .. Len(incoming'[f.key])
            /\ incoming'[f.key][n] = incoming[f.key][n]
        BY <4>1, <4>2, <1>4, <1>5
      <4> QED
        BY <4>2, <4>3
    <3> QED
      BY <3>1, <3>2
  <2> QED
    BY <2>3, <2>4 DEF QueuedExact
<1>11. OutstandingExact'
  <2>1. UNCHANGED outstanding
    BY CoalesceEffect DEF IInv, Publish
  <2>2. /\ MoveTo(e, "queued") /\ stage[e] \in {"reserved", "queued", "taken"}
        /\ TypeOK /\ OutstandingExact
    BY DEF Publish, IInv
  <2> QED
    BY <2>1, <2>2, OutstandingKept
<1> QED
  BY <1>8, <1>9, <1>10, <1>11 DEF IInv

-----------------------------------------------------------------------------
(* fail_invocation: one turn of the purge.                                 *)

(* Taking an emptied Session out of the order.                             *)
LEMMA RebuildReadyEffect ==
  ASSUME IInv, NEW k \in readySet, Len(incoming[k]) = 1,
         RebuildReady(k)
  PROVE  /\ ready' \in Seq(Keys) /\ readySet' = readySet \ {k}
         /\ \A x \in readySet' : \E n \in 1 .. Len(ready') : ready'[n] = x
         /\ \A n \in 1 .. Len(ready') : ready'[n] \in readySet'
         /\ \A m, n \in 1 .. Len(ready') : ready'[m] = ready'[n] => m = n
<1> DEFINE p == CHOOSE n \in 1 .. Len(ready) : ready[n] = k
<1>1. p \in 1 .. Len(ready) /\ ready[p] = k
  BY DEF IInv, ReadyExact
<1> HIDE DEF p
<1>2. ready' = RemoveAt(ready, p) /\ readySet' = readySet \ {k}
  BY DEF RebuildReady, p
<1>3. ready \in Seq(Keys) /\ Len(ready) \in Nat
  BY DEF IInv, TypeOK
<1>4. /\ ready' \in Seq(Keys) /\ Len(ready') = Len(ready) - 1
      /\ \A n \in 1 .. Len(ready) - 1 :
           ready'[n] = IF n < p THEN ready[n] ELSE ready[n + 1]
  BY <1>1, <1>2, <1>3, RemoveAtProperties
<1>5. ASSUME NEW x \in readySet, x # k
      PROVE  \E n \in 1 .. Len(ready') : ready'[n] = x
  <2>1. PICK n \in 1 .. Len(ready) : ready[n] = x
    BY DEF IInv, ReadyExact
  <2>2. n # p
    BY <2>1, <1>1, <1>5
  <2>3. CASE n < p
    <3>1. n \in 1 .. Len(ready) - 1
      BY <2>3, <1>1, <1>3
    <3> QED
      BY <3>1, <2>1, <2>3, <1>4
  <2>4. CASE n > p
    <3>1. n - 1 \in 1 .. Len(ready) - 1 /\ ~(n - 1 < p) /\ (n - 1) + 1 = n
      BY <2>4, <1>1, <1>3
    <3>2. ready'[n - 1] = x
      BY <3>1, <2>1, <1>4
    <3> QED
      BY <3>1, <3>2, <1>4
  <2> QED
    BY <2>2, <2>3, <2>4, <1>1
<1>6. ASSUME NEW n \in 1 .. Len(ready')
      PROVE  ready'[n] \in readySet /\ ready'[n] # k
  <2>1. CASE n < p
    <3>1. ready'[n] = ready[n] /\ n \in 1 .. Len(ready)
      BY <2>1, <1>1, <1>3, <1>4
    <3> QED
      BY <3>1, <2>1, <1>1 DEF IInv, ReadyExact
  <2>2. CASE ~(n < p)
    <3>1. ready'[n] = ready[n + 1] /\ n + 1 \in 1 .. Len(ready) /\ n + 1 # p
      BY <2>2, <1>1, <1>3, <1>4
    <3> QED
      BY <3>1, <1>1 DEF IInv, ReadyExact
  <2> QED
    BY <2>1, <2>2
<1>7. ASSUME NEW m \in 1 .. Len(ready'), NEW n \in 1 .. Len(ready'),
             ready'[m] = ready'[n]
      PROVE  m = n
  <2> DEFINE old(x) == IF x < p THEN x ELSE x + 1
  <2>1. \A x \in 1 .. Len(ready') :
          old(x) \in 1 .. Len(ready) /\ ready'[x] = ready[old(x)]
    BY <1>1, <1>3, <1>4
  <2>2. old(m) = old(n)
    BY <2>1, <1>7 DEF IInv, ReadyExact
  <2> QED
    BY <2>2, <1>1, <1>3
<1> QED
  BY <1>2, <1>4, <1>5, <1>6, <1>7

(* A step of the purge of fail_invocation preserves it.                    *)
LEMMA PurgePreserves ==
  ASSUME IInv, NEW k \in Keys, PurgeOne(k)
  PROVE  IInv'
<1>1. PICK j \in Doomed(k) :
        /\ incoming' = [incoming EXCEPT ![k] = RemoveAt(@, j)]
        /\ RemoveOutstanding(incoming[k][j])
        /\ MoveTo(incoming[k][j], "settled")
  BY DEF PurgeOne
<1> DEFINE e == incoming[k][j]
<1>2. /\ incoming \in [Keys -> Seq(Envelopes)]
      /\ incoming[k] \in Seq(Envelopes) /\ j \in 1 .. Len(incoming[k])
      /\ Len(incoming[k]) \in Nat
      /\ stage \in [Envelopes -> Stages]
  BY <1>1 DEF IInv, TypeOK, Doomed
<1>3. e \in Envelopes /\ stage[e] = "queued" /\ e.key = k
  BY <1>2 DEF IInv, QueuedExact
<1>4. stage' = [stage EXCEPT ![e] = "settled"]
  BY <1>1 DEF MoveTo
<1>5. /\ incoming'[k] = RemoveAt(incoming[k], j)
      /\ incoming' \in [Keys -> Seq(Envelopes)]
      /\ \A x \in Keys : x # k => incoming'[x] = incoming[x]
  <2>1. RemoveAt(incoming[k], j) \in Seq(Envelopes)
    BY <1>2, RemoveAtProperties
  <2> QED
    BY <2>1, <1>1, <1>2
<1>6. /\ Len(incoming'[k]) = Len(incoming[k]) - 1
      /\ \A n \in 1 .. Len(incoming[k]) - 1 :
           incoming'[k][n] = IF n < j THEN incoming[k][n]
                                      ELSE incoming[k][n + 1]
  BY <1>2, <1>5, RemoveAtProperties
<1>7. k \in readySet
  <2>1. incoming[k] # <<>>
    BY <1>2
  <2> QED
    BY <2>1 DEF IInv, ReadyExact
<1>8. RebuildReady(k)
  BY DEF PurgeOne
<1>9. incoming'[k] # <<>> <=> Len(incoming[k]) > 1
  <2>1. incoming'[k] # <<>> <=> Len(incoming'[k]) > 0
    BY <1>5, NonEmptyLength
  <2> QED
    BY <2>1, <1>2, <1>6
<1>10. ready' \in Seq(Keys) /\ readySet' \subseteq Keys /\ ReadyExact'
  <2>1. CASE Len(incoming[k]) > 1
    <3>1. ready' = ready /\ readySet' = readySet
      BY <2>1, <1>8 DEF RebuildReady
    <3>2. readySet' = {x \in Keys : incoming'[x] # <<>>}
      BY <3>1, <2>1, <1>5, <1>7, <1>9 DEF IInv, ReadyExact
    <3> QED
      BY <3>1, <3>2 DEF IInv, TypeOK, ReadyExact
  <2>2. CASE ~(Len(incoming[k]) > 1)
    <3>1. Len(incoming[k]) = 1
      <4> DEFINE n == Len(incoming[k])
      <4>1. n \in Nat /\ j \in 1 .. n /\ ~(n > 1)
        BY <2>2, <1>2
      <4> HIDE DEF n
      <4>2. n = 1
        BY <4>1
      <4> QED
        BY <4>2 DEF n
    <3>2. /\ ready' \in Seq(Keys) /\ readySet' = readySet \ {k}
          /\ \A x \in readySet' : \E n \in 1 .. Len(ready') : ready'[n] = x
          /\ \A n \in 1 .. Len(ready') : ready'[n] \in readySet'
          /\ \A m, n \in 1 .. Len(ready') : ready'[m] = ready'[n] => m = n
      BY <3>1, <1>7, <1>8, RebuildReadyEffect
    <3>3. readySet' = {x \in Keys : incoming'[x] # <<>>}
      BY <3>2, <2>2, <1>5, <1>9 DEF IInv, ReadyExact
    <3> QED
      BY <3>2, <3>3 DEF ReadyExact
  <2> QED
    BY <2>1, <2>2
<1> HIDE DEF e
<1>11. TypeOK'
  <2>1. /\ outstanding' = outstanding \ {e}
        /\ size' \in [Envelopes -> Nat] /\ pendingBytes' \in Int
    BY <1>1, <1>3, RemoveOutstandingEffect DEF IInv, e
  <2>2. stage' \in [Envelopes -> Stages]
    BY <1>2, <1>3, <1>4 DEF Stages
  <2> QED
    BY <1>5, <1>10, <2>1, <2>2
    DEF IInv, TypeOK, PurgeOne, faultVars, durableVars, controlVars, lockVars
<1>12. QueuedExact'
  <2>1. ASSUME NEW x \in Keys, NEW n \in 1 .. Len(incoming[x]),
               x # k \/ n # j
        PROVE  /\ incoming[x][n] \in Envelopes /\ incoming[x][n].key = x
               /\ stage'[incoming[x][n]] = "queued"
               /\ \A m \in 1 .. Len(incoming[x]) :
                    incoming[x][m] = incoming[x][n] => m = n
    <3>1. /\ incoming[x][n] \in Envelopes /\ incoming[x][n].key = x
          /\ stage[incoming[x][n]] = "queued"
          /\ \A m \in 1 .. Len(incoming[x]) :
               incoming[x][m] = incoming[x][n] => m = n
      BY <1>2 DEF IInv, QueuedExact
    <3>2. incoming[x][n] # e
      BY <2>1, <3>1, <1>2, <1>3 DEF e
    <3> QED
      BY <3>1, <3>2, <1>2, <1>4
  <2>2. ASSUME NEW x \in Keys, NEW n \in 1 .. Len(incoming'[x])
        PROVE  /\ incoming'[x][n].key = x
               /\ stage'[incoming'[x][n]] = "queued"
               /\ \A m \in 1 .. Len(incoming'[x]) :
                    incoming'[x][m] = incoming'[x][n] => m = n
    <3>1. CASE x # k
      BY <3>1, <1>5, <2>1
    <3>2. CASE x = k
      <4> DEFINE old(y) == IF y < j THEN y ELSE y + 1
      <4>1. \A y \in 1 .. Len(incoming'[k]) :
              /\ old(y) \in 1 .. Len(incoming[k]) /\ old(y) # j
              /\ incoming'[k][y] = incoming[k][old(y)]
        BY <1>2, <1>6
      <4>2. n \in 1 .. Len(incoming'[k])
        BY <3>2
      <4>3. /\ incoming'[k][n].key = k
            /\ stage'[incoming'[k][n]] = "queued"
            /\ \A m \in 1 .. Len(incoming[k]) :
                 incoming[k][m] = incoming[k][old(n)] => m = old(n)
        BY <4>1, <4>2, <2>1
      <4>4. ASSUME NEW m \in 1 .. Len(incoming'[k]),
                   incoming'[k][m] = incoming'[k][n]
            PROVE  m = n
        <5>1. old(m) = old(n)
          BY <4>1, <4>2, <4>3, <4>4
        <5> QED
          BY <5>1, <4>2, <1>2, <1>6
      <4> QED
        BY <3>2, <4>3, <4>4
    <3> QED
      BY <3>1, <3>2
  <2>3. ASSUME NEW f \in Envelopes, stage'[f] = "queued"
        PROVE  \E n \in 1 .. Len(incoming'[f.key]) : incoming'[f.key][n] = f
    <3>1. f # e /\ stage[f] = "queued" /\ f.key \in Keys
      BY <2>3, <1>2, <1>3, <1>4, EnvelopeFields
    <3>2. PICK n \in 1 .. Len(incoming[f.key]) : incoming[f.key][n] = f
      BY <3>1 DEF IInv, QueuedExact
    <3>3. CASE f.key # k
      BY <3>1, <3>2, <3>3, <1>5
    <3>4. CASE f.key = k /\ n < j
      <4>1. n \in 1 .. Len(incoming[k]) - 1
        BY <3>2, <3>4, <1>2
      <4>2. incoming'[k][n] = f
        BY <4>1, <3>2, <3>4, <1>6
      <4> QED
        BY <4>1, <4>2, <3>4, <1>6
    <3>5. CASE f.key = k /\ n > j
      <4>1. /\ n - 1 \in 1 .. Len(incoming[k]) - 1
            /\ ~(n - 1 < j) /\ (n - 1) + 1 = n
        BY <3>2, <3>5, <1>2
      <4>2. incoming'[k][n - 1] = f
        BY <4>1, <3>2, <3>5, <1>6
      <4> QED
        BY <4>1, <4>2, <3>5, <1>6
    <3>6. ~(f.key = k /\ n = j)
      BY <3>1, <3>2 DEF e
    <3> QED
      BY <3>2, <3>3, <3>4, <3>5, <3>6, <1>2
  <2> QED
    BY <2>2, <2>3 DEF QueuedExact
<1>13. OutstandingExact'
  BY <1>1, <1>3, OutstandingReleased DEF IInv, e
<1> QED
  BY <1>10, <1>11, <1>12, <1>13 DEF IInv

-----------------------------------------------------------------------------
(* Every step keeps the inductive invariant.                               *)

(* Steps that leave the deques and the ledger alone.                       *)
LEMMA BookkeepingPreserves ==
  ASSUME IInv, UNCHANGED <<queueVars, stage, outstanding>>,
         size' \in [Envelopes -> Nat], pendingBytes' \in Int,
         errors' \subseteq Invocations, gaps' \subseteq Invocations,
         userGaps' \subseteq Invocations, admitted' \subseteq Invocations,
         durableSeq' \in [Invocations -> Nat],
         durableUserSeq' \in [Invocations -> Nat],
         health' \in HealthStates, pressure' \in BOOLEAN,
         budget' \in Nat, failing' \in Invocations \cup {NoInvocation},
         budget' = 0 \/ failing' = NoInvocation,
         waking' \subseteq Envelopes
  PROVE  IInv'
<1>1. TypeOK'
  BY DEF IInv, TypeOK, queueVars
<1>2. ReadyExact'
  BY ReadyUnchanged DEF IInv, queueVars
<1>3. QueuedExact' /\ OutstandingExact'
  BY DEF IInv, QueuedExact, OutstandingExact, queueVars
<1> QED
  BY <1>1, <1>2, <1>3 DEF IInv

(* Steps that settle an envelope which is not queued.                      *)
LEMMA SettlePreserves ==
  ASSUME IInv, NEW e \in Envelopes, stage[e] \in {"reserved", "taken"},
         RemoveOutstanding(e), MoveTo(e, "settled"),
         UNCHANGED <<queueVars, faultVars, controlVars, lockVars, waking>>,
         admitted' \subseteq Invocations,
         durableSeq' \in [Invocations -> Nat],
         durableUserSeq' \in [Invocations -> Nat]
  PROVE  IInv'
<1>1. /\ outstanding' = outstanding \ {e}
      /\ size' \in [Envelopes -> Nat] /\ pendingBytes' \in Int
  BY RemoveOutstandingEffect DEF IInv
<1>2. QueuedExact' /\ stage' \in [Envelopes -> Stages]
  BY QueuedUnchanged DEF IInv, Stages, queueVars
<1>3. ReadyExact'
  BY ReadyUnchanged DEF IInv, queueVars
<1>4. OutstandingExact'
  BY OutstandingReleased DEF IInv
<1>5. TypeOK'
  BY <1>1, <1>2
  DEF IInv, TypeOK, queueVars, faultVars, controlVars, lockVars
<1> QED
  BY <1>2, <1>3, <1>4, <1>5 DEF IInv

(* The larger of two sequences is a sequence.                              *)
LEMMA LargerInNat ==
  ASSUME NEW m \in Nat, NEW n \in Nat
  PROVE  Larger(m, n) \in Nat
BY DEF Larger

(* Every call about one envelope preserves the inductive invariant.        *)
LEMMA EnvelopeStepPreserves ==
  ASSUME IInv, NEW e \in Envelopes, EnvelopeStep(e)
  PROVE  IInv'
<1> USE EnvelopeFields
<1>0. TypeOK
  BY DEF IInv
<1>1. CASE Reserve(e)
  <2>1. QueuedExact' /\ stage' \in [Envelopes -> Stages]
    BY <1>1, QueuedUnchanged DEF IInv, Reserve, Stages, queueVars
  <2>2. ReadyExact'
    BY <1>1, ReadyUnchanged DEF IInv, Reserve, queueVars
  <2>3. OutstandingExact'
    BY <1>0, <1>1 DEF IInv, TypeOK, Reserve, MoveTo, OutstandingExact
  <2>4. size' \in [Envelopes -> Nat] /\ pendingBytes' \in Int
    BY <1>0, <1>1 DEF Reserve, TypeOK
  <2>5. TypeOK'
    BY <1>0, <1>1, <2>1, <2>4
    DEF TypeOK, Reserve, queueVars, faultVars, durableVars, controlVars,
        lockVars
  <2> QED
    BY <2>1, <2>2, <2>3, <2>5 DEF IInv
<1>2. CASE Refuse(e)
  <2>1. QueuedExact' /\ stage' \in [Envelopes -> Stages]
    BY <1>2, QueuedUnchanged DEF IInv, Refuse, Stages, queueVars
  <2>2. ReadyExact'
    BY <1>2, ReadyUnchanged DEF IInv, Refuse, queueVars
  <2>3. OutstandingExact'
    BY <1>0, <1>2, OutstandingKept DEF IInv, Refuse, ledgerVars
  <2>4. TypeOK'
    BY <1>0, <1>2, <2>1
    DEF TypeOK, Refuse, queueVars, ledgerVars, faultVars, durableVars,
        controlVars, lockVars
  <2> QED
    BY <2>1, <2>2, <2>3, <2>4 DEF IInv
<1>3. CASE Publish(e)
  BY <1>3, PublishPreserves
<1>4. CASE Cancel(e)
  BY <1>0, <1>4, SettlePreserves DEF Cancel, durableVars, TypeOK
<1>5. CASE Wake(e)
  BY <1>0, <1>5, BookkeepingPreserves
  DEF Wake, TypeOK, ledgerVars, faultVars, durableVars, controlVars, lockVars
<1>6. CASE WakeFails(e)
  BY <1>0, <1>6, BookkeepingPreserves
  DEF WakeFails, TypeOK, ledgerVars, faultVars, durableVars, lockVars,
      HealthStates
<1>7. CASE AdjustSize(e)
  <2>1. size' \in [Envelopes -> Nat] /\ pendingBytes' \in Int
    BY <1>0, <1>7 DEF AdjustSize, TypeOK
  <2> QED
    BY <1>0, <1>7, <2>1, BookkeepingPreserves
    DEF AdjustSize, TypeOK, faultVars, durableVars, controlVars, lockVars
<1>8. CASE Discard(e)
  BY <1>0, <1>8, SettlePreserves DEF Discard, Settle, durableVars, TypeOK
<1>9. CASE MarkDurable(e)
  <2>1. durableSeq' \in [Invocations -> Nat]
    BY <1>0, <1>9, LargerInNat DEF MarkDurable, TypeOK
  <2> QED
    BY <1>0, <1>9, <2>1, SettlePreserves DEF MarkDurable, Settle, TypeOK
<1>10. CASE MarkUserEventsDurable(e)
  <2>1. durableUserSeq' \in [Invocations -> Nat]
    BY <1>0, <1>10, LargerInNat DEF MarkUserEventsDurable, TypeOK
  <2> QED
    BY <1>0, <1>10, <2>1, SettlePreserves
    DEF MarkUserEventsDurable, Settle, TypeOK
<1>11. CASE MarkAdmissionDurable(e)
  BY <1>0, <1>11, SettlePreserves DEF MarkAdmissionDurable, Settle, TypeOK
<1> QED
  BY <1>1, <1>2, <1>3, <1>4, <1>5, <1>6, <1>7, <1>8, <1>9, <1>10, <1>11
  DEF EnvelopeStep

(* Every call about one Invocation preserves it.                           *)
LEMMA InvocationStepPreserves ==
  ASSUME IInv, NEW i \in Invocations, InvocationStep(i)
  PROVE  IInv'
<1>0. TypeOK
  BY DEF IInv
<1>1. CASE BeginFail(i)
  BY <1>0, <1>1, BookkeepingPreserves
  DEF BeginFail, LockFree, TypeOK, ledgerVars, durableVars, controlVars
<1>2. CASE DegradeInvocation(i)
  BY <1>0, <1>2, BookkeepingPreserves
  DEF DegradeInvocation, TypeOK, ledgerVars, durableVars, controlVars,
      lockVars
<1>3. CASE DegradeUserEvents(i)
  BY <1>0, <1>3, BookkeepingPreserves
  DEF DegradeUserEvents, TypeOK, ledgerVars, durableVars, controlVars,
      lockVars
<1>4. CASE ReleaseTracking(i)
  <2>1. /\ durableSeq' \in [Invocations -> Nat]
        /\ durableUserSeq' \in [Invocations -> Nat]
    BY <1>0, <1>4 DEF ReleaseTracking, TypeOK
  <2> QED
    BY <1>0, <1>4, <2>1, BookkeepingPreserves
    DEF ReleaseTracking, TypeOK, ledgerVars, controlVars, lockVars
<1>5. ASSUME NEW n \in Sequences, Remember(i, n)
      PROVE  IInv'
  <2>1. n \in Nat
    BY SequencesAssumption
  <2>2. /\ durableSeq' \in [Invocations -> Nat]
        /\ durableUserSeq' \in [Invocations -> Nat]
        /\ admitted' \subseteq Invocations
    <3>1. /\ Larger(durableSeq[i], n) \in Nat
          /\ Larger(durableUserSeq[i], n) \in Nat
      BY <1>0, <2>1, LargerInNat DEF TypeOK
    <3> QED
      BY <1>0, <1>5, <3>1 DEF Remember, TypeOK
  <2> QED
    BY <1>0, <1>5, <2>2, BookkeepingPreserves
    DEF Remember, TypeOK, ledgerVars, faultVars, controlVars, lockVars
<1> QED
  BY <1>1, <1>2, <1>3, <1>4, <1>5 DEF InvocationStep

(* Every step of take preserves it.                                        *)
LEMMA TakePreserves ==
  ASSUME IInv, TakeOne \/ TakeDropsFailed
  PROVE  IInv'
<1> DEFINE e == NextToTake
<1>1. ready # <<>> /\ PopHead(Head(ready))
  BY DEF TakeOne, TakeDropsFailed
<1>2. e \in Envelopes /\ stage[e] = "queued" /\ TypeOK
  BY <1>1, HeadExists DEF IInv
<1>3. /\ incoming' \in [Keys -> Seq(Envelopes)]
      /\ ready' \in Seq(Keys) /\ readySet' \subseteq Keys
      /\ ReadyExact'
  BY <1>1, PopHeadReady
<1>4. UNCHANGED stripped
  BY <1>1 DEF PopHead
<1>5. CASE TakeOne
  <2>1. QueuedExact' /\ stage' \in [Envelopes -> Stages]
    BY <1>1, <1>5, PopHeadQueued DEF TakeOne, Stages
  <2>2. OutstandingExact'
    BY <1>2, <1>5, OutstandingKept DEF TakeOne, IInv, ledgerVars
  <2>3. budget' \in Nat /\ failing' = NoInvocation
    BY <1>2, <1>5 DEF TakeOne, TypeOK
  <2>4. TypeOK'
    BY <1>2, <1>3, <1>4, <1>5, <2>1, <2>3
    DEF TypeOK, TakeOne, ledgerVars, faultVars, durableVars, controlVars
  <2> QED
    BY <1>3, <2>1, <2>2, <2>4 DEF IInv
<1>6. CASE TakeDropsFailed
  <2>1. QueuedExact' /\ stage' \in [Envelopes -> Stages]
    BY <1>1, <1>6, PopHeadQueued DEF TakeDropsFailed, Stages
  <2>2. OutstandingExact'
    BY <1>2, <1>6, OutstandingReleased DEF TakeDropsFailed, IInv
  <2>3. /\ outstanding' = outstanding \ {e}
        /\ size' \in [Envelopes -> Nat] /\ pendingBytes' \in Int
    BY <1>2, <1>6, RemoveOutstandingEffect DEF TakeDropsFailed
  <2>4. TypeOK'
    BY <1>2, <1>3, <1>4, <1>6, <2>1, <2>3
    DEF TypeOK, TakeDropsFailed, faultVars, durableVars, controlVars,
        lockVars
  <2> QED
    BY <1>3, <2>1, <2>2, <2>4 DEF IInv
<1> QED
  BY <1>5, <1>6

(* The invariant is inductive: every step of the coordinator preserves it. *)
LEMMA StepPreserves == IInv /\ [Next]_coordinatorVars => IInv'
<1> SUFFICES ASSUME IInv, [Next]_coordinatorVars PROVE IInv'
  OBVIOUS
<1>0. TypeOK
  BY DEF IInv
<1>1. ASSUME NEW e \in Envelopes, EnvelopeStep(e) PROVE IInv'
  BY <1>1, EnvelopeStepPreserves
<1>2. ASSUME NEW i \in Invocations, InvocationStep(i) PROVE IInv'
  BY <1>2, InvocationStepPreserves
<1>3. ASSUME NEW k \in Keys, PurgeOne(k) PROVE IInv'
  BY <1>3, PurgePreserves
<1>4. ASSUME NEW h \in HealthStates, SetHealth(h) PROVE IInv'
  BY <1>0, <1>4, BookkeepingPreserves
  DEF SetHealth, TypeOK, ledgerVars, faultVars, durableVars, lockVars
<1>5. CASE BeginTake
  BY <1>0, <1>5, LimitAssumption, BookkeepingPreserves
  DEF BeginTake, LockFree, TypeOK, ledgerVars, faultVars, durableVars,
      controlVars
<1>6. CASE TakeOne \/ TakeDropsFailed
  BY <1>6, TakePreserves
<1>7. CASE EndTake
  BY <1>0, <1>7, BookkeepingPreserves
  DEF EndTake, TypeOK, ledgerVars, faultVars, durableVars, controlVars
<1>8. CASE EndFail
  BY <1>0, <1>8, BookkeepingPreserves
  DEF EndFail, TypeOK, ledgerVars, faultVars, durableVars, controlVars
<1>9. CASE PollAdmission
  BY <1>0, <1>9, BookkeepingPreserves
  DEF PollAdmission, TypeOK, ledgerVars, faultVars, durableVars, lockVars
<1>10. CASE UNCHANGED coordinatorVars
  BY <1>0, <1>10, BookkeepingPreserves
  DEF coordinatorVars, TypeOK, ledgerVars, faultVars, durableVars,
      controlVars, lockVars
<1> QED
  BY <1>1, <1>2, <1>3, <1>4, <1>5, <1>6, <1>7, <1>8, <1>9, <1>10 DEF Next

-----------------------------------------------------------------------------
(* The deques, the order and the ledger of the coordinator stay well       *)
(* formed under every client.                                              *)
THEOREM TypeCorrect == Spec => []TypeOK
<1>1. IInv => TypeOK
  BY DEF IInv
<1> QED
  BY <1>1, InitEstablishes, StepPreserves, PTL DEF Spec

(* No Session with a queued envelope ever drops out of the round-robin     *)
(* order, and none is in it twice.                                         *)
THEOREM RoundRobinExact == Spec => []ReadyExact
<1>1. IInv => ReadyExact
  BY DEF IInv
<1> QED
  BY <1>1, InitEstablishes, StepPreserves, PTL DEF Spec

(* Every published envelope waits in one place until it is taken or        *)
(* purged.                                                                 *)
THEOREM DequesExact == Spec => []QueuedExact
<1>1. IInv => QueuedExact
  BY DEF IInv
<1> QED
  BY <1>1, InitEstablishes, StepPreserves, PTL DEF Spec

(* The memory ledger holds exactly the envelopes that were reserved and    *)
(* not yet settled.                                                        *)
THEOREM LedgerExact == Spec => []OutstandingExact
<1>1. IInv => OutstandingExact
  BY DEF IInv
<1> QED
  BY <1>1, InitEstablishes, StepPreserves, PTL DEF Spec

-----------------------------------------------------------------------------
(* The memory ledger.                                                      *)

(* What a call does to the ledger: nothing, a reservation, a release or a  *)
(* new size of one envelope.                                               *)
LEMMA LedgerSteps ==
  ASSUME IInv, [Next]_coordinatorVars
  PROVE  \/ UNCHANGED ledgerVars
         \/ \E e \in Envelopes :
              /\ e \notin outstanding /\ outstanding' = outstanding \cup {e}
              /\ size' = [size EXCEPT ![e] = e.bytes]
              /\ pendingBytes' = pendingBytes + e.bytes
         \/ \E e \in outstanding : RemoveOutstanding(e)
         \/ \E e \in outstanding, n \in Nat :
              /\ UNCHANGED outstanding /\ size' = [size EXCEPT ![e] = n]
              /\ pendingBytes' = pendingBytes + n - size[e]
<1> DEFINE Goal ==
      \/ UNCHANGED ledgerVars
      \/ \E e \in Envelopes :
           /\ e \notin outstanding /\ outstanding' = outstanding \cup {e}
           /\ size' = [size EXCEPT ![e] = e.bytes]
           /\ pendingBytes' = pendingBytes + e.bytes
      \/ \E e \in outstanding : RemoveOutstanding(e)
      \/ \E e \in outstanding, n \in Nat :
           /\ UNCHANGED outstanding /\ size' = [size EXCEPT ![e] = n]
           /\ pendingBytes' = pendingBytes + n - size[e]
<1>0. TypeOK /\ OutstandingExact /\ QueuedExact
  BY DEF IInv
<1>1. ASSUME NEW e, RemoveOutstanding(e) PROVE Goal
  <2>1. CASE e \in outstanding
    BY <1>1, <2>1
  <2>2. CASE e \notin outstanding
    BY <1>1, <2>2 DEF RemoveOutstanding
  <2> QED
    BY <2>1, <2>2
<1>2. ASSUME NEW e \in Envelopes, Reserve(e) PROVE Goal
  BY <1>0, <1>2 DEF Reserve, OutstandingExact
<1>3. ASSUME NEW e \in Envelopes, Publish(e) PROVE Goal
  <2> DEFINE q == incoming[e.key]
  <2>1. Coalesce(e) /\ q \in Seq(Envelopes) /\ e.key \in Keys
    BY <1>0, <1>3, EnvelopeFields DEF Publish, TypeOK
  <2>2. CASE e.kind = "event" /\ e.snapshot > 0 /\ SnapshotSlots(q, e.inv) # {}
    <3>1. PICK j \in Newest(SnapshotSlots(q, e.inv)) : StripSnapshot(q[j])
      BY <2>1, <2>2 DEF Coalesce
    <3>2. j \in 1 .. Len(q)
      BY <3>1 DEF Newest, SnapshotSlots
    <3>3. q[j] \in Envelopes /\ stage[q[j]] = "queued"
      BY <1>0, <2>1, <3>2 DEF QueuedExact
    <3>4. q[j] \in outstanding
      BY <1>0, <3>3 DEF OutstandingExact
    <3>5. ReducedBytes(q[j]) \in Nat
      BY <3>3, EnvelopeFields, LimitAssumption DEF ReducedBytes, Larger
    <3>6. /\ UNCHANGED outstanding /\ size' = [size EXCEPT ![q[j]] = ReducedBytes(q[j])]
          /\ pendingBytes' = pendingBytes + ReducedBytes(q[j]) - size[q[j]]
      BY <3>1 DEF StripSnapshot
    <3> QED
      BY <3>4, <3>5, <3>6
  <2>3. CASE ~(e.kind = "event" /\ e.snapshot > 0 /\ SnapshotSlots(q, e.inv) # {})
    BY <2>1, <2>3 DEF Coalesce
  <2> QED
    BY <2>2, <2>3
<1>4. ASSUME NEW e \in Envelopes, AdjustSize(e) PROVE Goal
  BY <1>0, <1>4, EnvelopeFields DEF AdjustSize, OutstandingExact
<1> HIDE DEF Goal
<1>5. ASSUME NEW e \in Envelopes, EnvelopeStep(e) PROVE Goal
  <2>1. CASE Cancel(e)
    BY <1>1, <2>1 DEF Cancel
  <2>2. CASE \/ Discard(e) \/ MarkDurable(e) \/ MarkUserEventsDurable(e)
             \/ MarkAdmissionDurable(e)
    BY <1>1, <2>2 DEF Discard, MarkDurable, MarkUserEventsDurable,
                      MarkAdmissionDurable, Settle
  <2>3. CASE Refuse(e) \/ Wake(e) \/ WakeFails(e)
    BY <2>3 DEF Goal, Refuse, Wake, WakeFails
  <2> QED
    BY <1>2, <1>3, <1>4, <1>5, <2>1, <2>2, <2>3 DEF EnvelopeStep
<1>6. ASSUME NEW i \in Invocations, InvocationStep(i) PROVE Goal
  BY <1>6 DEF Goal, InvocationStep, BeginFail, DegradeInvocation,
              DegradeUserEvents, ReleaseTracking, Remember
<1>7. ASSUME NEW k \in Keys, PurgeOne(k) PROVE Goal
  BY <1>1, <1>7 DEF PurgeOne
<1>8. ASSUME TakeDropsFailed PROVE Goal
  BY <1>1, <1>8 DEF TakeDropsFailed
<1>9. ASSUME \/ BeginTake \/ TakeOne \/ EndTake \/ EndFail \/ PollAdmission
             \/ \E h \in HealthStates : SetHealth(h)
             \/ UNCHANGED coordinatorVars
      PROVE  Goal
  BY <1>9 DEF Goal, BeginTake, TakeOne, EndTake, EndFail, PollAdmission,
              SetHealth, coordinatorVars
<1>10. Goal
  BY <1>5, <1>6, <1>7, <1>8, <1>9 DEF Next
<1> QED
  BY <1>10 DEF Goal

Ledger == IsFiniteSet(outstanding) /\ pendingBytes = SumOver(size, outstanding)

LEMMA LedgerPreserved ==
  ASSUME IInv, Ledger, [Next]_coordinatorVars
  PROVE  Ledger'
<1>1. /\ outstanding \subseteq Envelopes /\ size \in [Envelopes -> Nat]
      /\ IsFiniteSet(outstanding) /\ pendingBytes = SumOver(size, outstanding)
  BY DEF IInv, TypeOK, Ledger
<1>2. CASE UNCHANGED ledgerVars
  BY <1>1, <1>2 DEF Ledger, ledgerVars
<1>3. ASSUME NEW e \in Envelopes, e \notin outstanding,
             outstanding' = outstanding \cup {e},
             size' = [size EXCEPT ![e] = e.bytes],
             pendingBytes' = pendingBytes + e.bytes
      PROVE  Ledger'
  <2>1. /\ \A x \in outstanding : size[x] \in Int /\ size'[x] = size[x]
        /\ size'[e] = e.bytes /\ e.bytes \in Int
    BY <1>1, <1>3, EnvelopeFields
  <2>2. SumOver(size', outstanding \cup {e}) = SumOver(size, outstanding) + size'[e]
    <3>1. IsFiniteSet(outstanding) /\ e \notin outstanding /\ size'[e] \in Int
      BY <1>1, <1>3, <2>1
    <3>2. \A x \in outstanding : size[x] \in Int /\ size'[x] = size[x]
      BY <2>1
    <3> QED
      BY <3>1, <3>2, SumAdd
  <2>3. IsFiniteSet(outstanding')
    BY <1>1, <1>3, FS_AddElement
  <2> QED
    BY <1>1, <1>3, <2>1, <2>2, <2>3 DEF Ledger
<1>4. ASSUME NEW e \in outstanding, RemoveOutstanding(e) PROVE Ledger'
  <2>1. /\ outstanding' = outstanding \ {e}
        /\ pendingBytes' = pendingBytes - size[e]
        /\ size' = [size EXCEPT ![e] = 0]
    BY <1>4 DEF RemoveOutstanding
  <2> DEFINE rest == outstanding \ {e}
  <2>2. IsFiniteSet(rest) /\ e \notin rest /\ rest \cup {e} = outstanding
    BY <1>1, FS_RemoveElement
  <2>3. /\ \A x \in rest : size'[x] \in Int /\ size[x] = size'[x]
        /\ size[e] \in Int
    BY <1>1, <2>1
  <2> HIDE DEF rest
  <2>4. SumOver(size, rest \cup {e}) = SumOver(size', rest) + size[e]
    BY <2>2, <2>3, SumAdd
  <2>5. SumOver(size', rest) \in Int
    BY <2>2, <2>3, SumInInt
  <2>6. pendingBytes' = SumOver(size', rest)
    <3>1. pendingBytes = SumOver(size', rest) + size[e]
      BY <1>1, <2>2, <2>4
    <3>2. pendingBytes' = pendingBytes - size[e]
      BY <2>1
    <3> QED
      BY <2>3, <2>5, <3>1, <3>2
  <2>7. outstanding' = rest
    BY <2>1 DEF rest
  <2> QED
    BY <2>2, <2>6, <2>7 DEF Ledger
<1>5. ASSUME NEW e \in outstanding, NEW n \in Nat, UNCHANGED outstanding,
             size' = [size EXCEPT ![e] = n],
             pendingBytes' = pendingBytes + n - size[e]
      PROVE  Ledger'
  <2> DEFINE rest == outstanding \ {e}
  <2>1. IsFiniteSet(rest) /\ e \notin rest /\ rest \cup {e} = outstanding
    BY <1>1, FS_RemoveElement
  <2>2. /\ \A x \in rest : size[x] \in Int /\ size'[x] = size[x]
        /\ size[e] \in Int /\ size'[e] = n
    BY <1>1, <1>5
  <2> HIDE DEF rest
  <2>3. SumOver(size, rest \cup {e}) = SumOver(size, rest) + size[e]
    BY <2>1, <2>2, SumAdd
  <2>4. SumOver(size', rest \cup {e}) = SumOver(size, rest) + size'[e]
    BY <2>1, <2>2, SumAdd
  <2>5. SumOver(size, rest) \in Int
    BY <2>1, <2>2, SumInInt
  <2>6. pendingBytes' = SumOver(size', outstanding)
    <3>1. pendingBytes = SumOver(size, rest) + size[e]
      BY <1>1, <2>1, <2>3
    <3>2. SumOver(size', outstanding) = SumOver(size, rest) + n
      BY <2>1, <2>2, <2>4
    <3>3. pendingBytes' = pendingBytes + n - size[e]
      BY <1>5
    <3> QED
      BY <2>2, <2>5, <3>1, <3>2, <3>3
  <2> QED
    BY <1>1, <1>5, <2>6 DEF Ledger
<1> QED
  BY <1>2, <1>3, <1>4, <1>5, LedgerSteps

LEMMA LedgerInit == Init => Ledger
BY SumEmpty, FS_EmptySet DEF Init, Ledger

(* Whatever was reserved, refused, coalesced, corrected, purged or settled *)
(* in whatever order: the bytes the coordinator counts as pending, on      *)
(* which admission pauses and reservations are refused, are the sum of the *)
(* sizes of what is outstanding.                                           *)
THEOREM MemoryExact == Spec => []BytesExact
<1>1. IInv /\ Ledger /\ [Next]_coordinatorVars => (IInv /\ Ledger)'
  BY StepPreserves, LedgerPreserved
<1>2. Ledger => BytesExact
  BY DEF Ledger, BytesExact, SumOver
<1> QED
  BY <1>1, <1>2, InitEstablishes, LedgerInit, PTL DEF Spec

(* _pending_bytes never becomes negative, and it is zero again once        *)
(* nothing is outstanding: no reservation leaks.                           *)
MemoryReturns == pendingBytes >= 0 /\ (outstanding = {} => pendingBytes = 0)

THEOREM NoReservationLeaks == Spec => []MemoryReturns
<1>1. IInv /\ Ledger /\ [Next]_coordinatorVars => (IInv /\ Ledger)'
  BY StepPreserves, LedgerPreserved
<1>2. IInv /\ Ledger => MemoryReturns
  <2> SUFFICES ASSUME IInv, Ledger PROVE MemoryReturns
    OBVIOUS
  <2>1. /\ IsFiniteSet(outstanding) /\ pendingBytes = SumOver(size, outstanding)
        /\ \A e \in outstanding : size[e] \in Nat
    BY DEF IInv, TypeOK, Ledger
  <2>2. SumOver(size, outstanding) \in Nat
    BY <2>1, SumOfNats
  <2> QED
    BY <2>1, <2>2, SumEmpty DEF MemoryReturns
<1> QED
  BY <1>1, <1>2, InitEstablishes, LedgerInit, PTL DEF Spec

-----------------------------------------------------------------------------
(* The recovery snapshots in a deque q, those of the envelopes in gone     *)
(* having been coalesced away.                                             *)

Carries(e, gone) == e.snapshot > 0 /\ e \notin gone

Coalesced(q, gone) ==
  \A n \in 1 .. Len(q) :
    IF q[n] \in gone
    THEN \E m \in n + 1 .. Len(q) : q[m].inv = q[n].inv /\ Carries(q[m], gone)
    ELSE Carries(q[n], gone) =>
           \A m \in n + 1 .. Len(q) : ~(q[m].inv = q[n].inv /\ Carries(q[m], gone))

(* The oldest envelope leaves.                                             *)
LEMMA CoalescedTail ==
  ASSUME NEW q \in Seq(Envelopes), NEW gone, q # <<>>, Coalesced(q, gone)
  PROVE  Coalesced(Tail(q), gone)
<1>1. /\ Len(q) \in Nat \ {0} /\ Len(Tail(q)) = Len(q) - 1
      /\ \A n \in 1 .. Len(q) - 1 : Tail(q)[n] = q[n + 1]
  OBVIOUS
<1> DEFINE t == Tail(q)
<1> HIDE DEF t
<1>2. ASSUME NEW n \in 1 .. Len(t)
      PROVE  IF t[n] \in gone
             THEN \E m \in n + 1 .. Len(t) : t[m].inv = t[n].inv /\ Carries(t[m], gone)
             ELSE Carries(t[n], gone) =>
                    \A m \in n + 1 .. Len(t) : ~(t[m].inv = t[n].inv /\ Carries(t[m], gone))
  <2>1. n + 1 \in 1 .. Len(q) /\ t[n] = q[n + 1]
    BY <1>1 DEF t
  <2>2. CASE t[n] \in gone
    <3>1. PICK m \in (n + 1) + 1 .. Len(q) : q[m].inv = q[n + 1].inv /\ Carries(q[m], gone)
      BY <2>1, <2>2 DEF Coalesced
    <3>2. m - 1 \in n + 1 .. Len(t) /\ m - 1 \in 1 .. Len(q) - 1 /\ (m - 1) + 1 = m
      BY <1>1 DEF t
    <3>3. t[m - 1] = q[m]
      BY <1>1, <3>2 DEF t
    <3> QED
      BY <2>1, <2>2, <3>1, <3>2, <3>3
  <2>3. CASE t[n] \notin gone /\ Carries(t[n], gone)
    <3>1. ASSUME NEW m \in n + 1 .. Len(t)
          PROVE  ~(t[m].inv = t[n].inv /\ Carries(t[m], gone))
      <4>1. m + 1 \in (n + 1) + 1 .. Len(q) /\ m \in 1 .. Len(q) - 1
        BY <1>1 DEF t
      <4>2. t[m] = q[m + 1]
        BY <1>1, <4>1 DEF t
      <4> QED
        BY <2>1, <2>3, <4>1, <4>2 DEF Coalesced
    <3> QED
      BY <2>3, <3>1
  <2> QED
    BY <2>2, <2>3
<1>3. Coalesced(t, gone)
  BY <1>2 DEF Coalesced
<1> QED
  BY <1>3 DEF t

(* An envelope leaves which is the newest of none that waits before it.    *)
LEMMA CoalescedRemoveAt ==
  ASSUME NEW q \in Seq(Envelopes), NEW gone, Coalesced(q, gone),
         NEW j \in 1 .. Len(q),
         \A n \in 1 .. j - 1 : q[n] \in gone => q[n].inv # q[j].inv
  PROVE  Coalesced(RemoveAt(q, j), gone)
<1> DEFINE r == RemoveAt(q, j)
           old(n) == IF n < j THEN n ELSE n + 1
<1>1. Len(r) = Len(q) - 1 /\ \A n \in 1 .. Len(q) - 1 : r[n] = q[old(n)]
  BY RemoveAtProperties
<1>2. Len(q) \in Nat /\ j \in Nat
  OBVIOUS
<1> HIDE DEF r
<1>3. \A n \in 1 .. Len(r) : old(n) \in 1 .. Len(q) /\ old(n) # j /\ r[n] = q[old(n)]
  BY <1>1, <1>2
<1>4. \A m, n \in 1 .. Len(r) : m < n <=> old(m) < old(n)
  BY <1>2
<1>5. \A x \in 1 .. Len(q) : x # j => \E m \in 1 .. Len(r) : old(m) = x
  <2> SUFFICES ASSUME NEW x \in 1 .. Len(q), x # j
               PROVE  \E m \in 1 .. Len(r) : old(m) = x
    OBVIOUS
  <2>1. CASE x < j
    <3>1. x \in 1 .. Len(r) /\ old(x) = x
      BY <1>1, <1>2, <2>1
    <3> QED
      BY <3>1
  <2>2. CASE x > j
    <3>1. x - 1 \in 1 .. Len(r) /\ old(x - 1) = x
      BY <1>1, <1>2, <2>2
    <3> QED
      BY <3>1
  <2> QED
    BY <1>2, <2>1, <2>2
<1> HIDE DEF old
<1>6. ASSUME NEW n \in 1 .. Len(r)
      PROVE  IF r[n] \in gone
             THEN \E m \in n + 1 .. Len(r) : r[m].inv = r[n].inv /\ Carries(r[m], gone)
             ELSE Carries(r[n], gone) =>
                    \A m \in n + 1 .. Len(r) : ~(r[m].inv = r[n].inv /\ Carries(r[m], gone))
  <2>1. old(n) \in 1 .. Len(q) /\ r[n] = q[old(n)] /\ Len(r) \in Int
    BY <1>1, <1>2, <1>3
  <2>2. CASE r[n] \in gone
    <3>1. PICK x \in old(n) + 1 .. Len(q) :
            q[x].inv = q[old(n)].inv /\ Carries(q[x], gone)
      BY <2>1, <2>2 DEF Coalesced
    <3>2. x # j
      <4>1. ASSUME x = j PROVE FALSE
        <5>1. old(n) \in 1 .. j - 1
          BY <1>2, <2>1, <3>1, <4>1
        <5> QED
          BY <2>1, <2>2, <3>1, <4>1, <5>1
      <4> QED
        BY <4>1
    <3>3. x \in 1 .. Len(q) /\ old(n) < x
      BY <2>1, <3>1
    <3>4. PICK m \in 1 .. Len(r) : old(m) = x
      BY <1>5, <3>2, <3>3
    <3>5. m \in n + 1 .. Len(r)
      <4>1. n < m
        BY <1>4, <3>3, <3>4
      <4> QED
        BY <2>1, <4>1
    <3> QED
      BY <1>3, <2>1, <2>2, <3>1, <3>4, <3>5
  <2>3. CASE r[n] \notin gone /\ Carries(r[n], gone)
    <3>1. ASSUME NEW m \in n + 1 .. Len(r)
          PROVE  ~(r[m].inv = r[n].inv /\ Carries(r[m], gone))
      <4>1. m \in 1 .. Len(r) /\ n < m
        BY <2>1
      <4>2. old(n) < old(m) /\ old(m) \in 1 .. Len(q) /\ r[m] = q[old(m)]
        BY <1>3, <1>4, <4>1
      <4>3. old(m) \in old(n) + 1 .. Len(q)
        BY <2>1, <4>2
      <4> QED
        BY <2>1, <2>3, <4>2, <4>3 DEF Coalesced
    <3> QED
      BY <2>3, <3>1
  <2> QED
    BY <2>2, <2>3
<1>7. Coalesced(r, gone)
  BY <1>6 DEF Coalesced
<1> QED
  BY <1>7 DEF r

(* An envelope comes that carries no snapshot, or the only one of its      *)
(* Invocation.                                                             *)
LEMMA CoalescedAppend ==
  ASSUME NEW q \in Seq(Envelopes), NEW gone, Coalesced(q, gone),
         NEW e \in Envelopes, e \notin gone,
         Carries(e, gone) =>
           \A n \in 1 .. Len(q) : ~(q[n].inv = e.inv /\ Carries(q[n], gone))
  PROVE  Coalesced(Append(q, e), gone)
<1> DEFINE a == Append(q, e)
<1>1. /\ Len(q) \in Nat /\ Len(a) = Len(q) + 1 /\ a[Len(q) + 1] = e
      /\ \A n \in 1 .. Len(q) : a[n] = q[n]
  OBVIOUS
<1> HIDE DEF a
<1>2. ASSUME NEW n \in 1 .. Len(a)
      PROVE  IF a[n] \in gone
             THEN \E m \in n + 1 .. Len(a) : a[m].inv = a[n].inv /\ Carries(a[m], gone)
             ELSE Carries(a[n], gone) =>
                    \A m \in n + 1 .. Len(a) : ~(a[m].inv = a[n].inv /\ Carries(a[m], gone))
  <2>1. CASE n = Len(q) + 1
    <3>1. a[n] = e /\ \A m \in n + 1 .. Len(a) : FALSE
      BY <1>1, <2>1
    <3> QED
      BY <3>1
  <2>2. CASE n # Len(q) + 1
    <3>1. n \in 1 .. Len(q) /\ a[n] = q[n]
      BY <1>1, <2>2
    <3>2. CASE a[n] \in gone
      <4>1. PICK m \in n + 1 .. Len(q) : q[m].inv = q[n].inv /\ Carries(q[m], gone)
        BY <3>1, <3>2 DEF Coalesced
      <4>2. m \in n + 1 .. Len(a) /\ a[m] = q[m]
        BY <1>1, <3>1, <4>1
      <4> QED
        BY <3>1, <3>2, <4>1, <4>2
    <3>3. CASE a[n] \notin gone /\ Carries(a[n], gone)
      <4>1. ASSUME NEW m \in n + 1 .. Len(a)
            PROVE  ~(a[m].inv = a[n].inv /\ Carries(a[m], gone))
        <5>1. CASE m = Len(q) + 1
          BY <1>1, <3>1, <3>3, <5>1
        <5>2. CASE m # Len(q) + 1
          <6>1. m \in n + 1 .. Len(q) /\ a[m] = q[m]
            BY <1>1, <3>1, <5>2
          <6> QED
            BY <3>1, <3>3, <6>1 DEF Coalesced
        <5> QED
          BY <5>1, <5>2
      <4> QED
        BY <3>3, <4>1
    <3> QED
      BY <3>2, <3>3
  <2> QED
    BY <2>1, <2>2
<1>3. Coalesced(a, gone)
  BY <1>2 DEF Coalesced
<1> QED
  BY <1>3 DEF a

(* A newer snapshot comes, and the newest one in the deque is coalesced    *)
(* away for it.                                                            *)
LEMMA CoalescedReplace ==
  ASSUME NEW q \in Seq(Envelopes), NEW gone, Coalesced(q, gone),
         NEW e \in Envelopes, e.snapshot > 0, e \notin gone,
         \A n \in 1 .. Len(q) : q[n] # e,
         \A m, n \in 1 .. Len(q) : q[m] = q[n] => m = n,
         NEW j \in 1 .. Len(q), q[j].inv = e.inv, Carries(q[j], gone),
         \A n \in 1 .. Len(q) : q[n].inv = e.inv /\ Carries(q[n], gone) => n <= j
  PROVE  Coalesced(Append(q, e), gone \cup {q[j]})
<1> DEFINE a == Append(q, e)
           now == gone \cup {q[j]}
<1>1. /\ Len(q) \in Nat /\ Len(a) = Len(q) + 1 /\ a[Len(q) + 1] = e
      /\ \A n \in 1 .. Len(q) : a[n] = q[n]
  OBVIOUS
<1> HIDE DEF a
<1>2. Carries(e, now) /\ e \notin now
  BY DEF Carries
<1>3. \A n \in 1 .. Len(q) : /\ Carries(q[n], now) <=> Carries(q[n], gone) /\ n # j
                             /\ q[n] \in now <=> q[n] \in gone \/ n = j
  BY DEF Carries
<1> HIDE DEF now
<1>4. ASSUME NEW n \in 1 .. Len(a)
      PROVE  IF a[n] \in now
             THEN \E m \in n + 1 .. Len(a) : a[m].inv = a[n].inv /\ Carries(a[m], now)
             ELSE Carries(a[n], now) =>
                    \A m \in n + 1 .. Len(a) : ~(a[m].inv = a[n].inv /\ Carries(a[m], now))
  <2>1. CASE n = Len(q) + 1
    <3>1. a[n] = e /\ \A m \in n + 1 .. Len(a) : FALSE
      BY <1>1, <2>1
    <3> QED
      BY <1>2, <3>1
  <2>2. CASE n # Len(q) + 1
    <3>1. n \in 1 .. Len(q) /\ a[n] = q[n] /\ Len(q) + 1 \in n + 1 .. Len(a)
      BY <1>1, <2>2
    <3>2. CASE a[n] \in now
      <4>1. CASE q[n].inv = e.inv
        BY <1>1, <1>2, <3>1, <3>2, <4>1
      <4>2. CASE q[n].inv # e.inv
        <5>1. q[n] \in gone
          BY <1>3, <3>1, <3>2, <4>2
        <5>2. PICK m \in n + 1 .. Len(q) : q[m].inv = q[n].inv /\ Carries(q[m], gone)
          BY <3>1, <5>1 DEF Coalesced
        <5>3. /\ m \in n + 1 .. Len(a) /\ m \in 1 .. Len(q)
              /\ a[m] = q[m] /\ m # j
          BY <1>1, <3>1, <4>2, <5>2
        <5>4. Carries(q[m], now)
          BY <1>3, <5>2, <5>3
        <5> QED
          BY <3>1, <3>2, <5>2, <5>3, <5>4
      <4> QED
        BY <4>1, <4>2
    <3>3. CASE a[n] \notin now /\ Carries(a[n], now)
      <4>1. q[n] \notin gone /\ Carries(q[n], gone) /\ n # j
        BY <1>3, <3>1, <3>3
      <4>2. ASSUME NEW m \in n + 1 .. Len(a), a[m].inv = a[n].inv, Carries(a[m], now)
            PROVE  FALSE
        <5>1. CASE m = Len(q) + 1
          <6>1. q[n].inv = e.inv
            BY <1>1, <3>1, <4>2, <5>1
          <6>2. n <= j
            BY <3>1, <4>1, <6>1
          <6>3. j \in n + 1 .. Len(q)
            BY <3>1, <4>1, <6>2
          <6> QED
            BY <3>1, <4>1, <6>1, <6>3 DEF Coalesced
        <5>2. CASE m # Len(q) + 1
          <6>1. m \in n + 1 .. Len(q) /\ m \in 1 .. Len(q) /\ a[m] = q[m]
            BY <1>1, <3>1, <5>2
          <6>2. Carries(q[m], gone)
            BY <1>3, <4>2, <6>1
          <6> QED
            BY <3>1, <4>1, <4>2, <6>1, <6>2 DEF Coalesced
        <5> QED
          BY <5>1, <5>2
      <4> QED
        BY <3>3, <4>2
    <3> QED
      BY <3>2, <3>3
  <2> QED
    BY <2>1, <2>2
<1>5. Coalesced(a, now)
  BY <1>4 DEF Coalesced
<1> QED
  BY <1>5 DEF a, now

LEMMA CoalescedElsewhere ==
  ASSUME NEW q \in Seq(Envelopes), NEW gone, Coalesced(q, gone),
         NEW x, \A n \in 1 .. Len(q) : q[n] # x
  PROVE  Coalesced(q, gone \cup {x})
<1>1. \A n \in 1 .. Len(q) : /\ q[n] \in gone \cup {x} <=> q[n] \in gone
                             /\ Carries(q[n], gone \cup {x}) <=> Carries(q[n], gone)
  BY DEF Carries
<1>2. \A n \in 1 .. Len(q) : \A m \in n + 1 .. Len(q) : m \in 1 .. Len(q)
  OBVIOUS
<1> QED
  BY <1>1, <1>2, Zenon DEF Coalesced

-----------------------------------------------------------------------------
(* The recovery snapshots the coordinator holds.                           *)

SnapshotsKept ==
  /\ \A k \in Keys : Coalesced(incoming[k], stripped)
  /\ \A e \in stripped : e.snapshot > 0 /\ stage[e] \notin {"new", "reserved"}

(* A published envelope is never offered or reserved again.                *)
LEMMA NeverUnpublished ==
  ASSUME IInv, [Next]_coordinatorVars, NEW e \in Envelopes,
         stage[e] \notin {"new", "reserved"}
  PROVE  stage'[e] \notin {"new", "reserved"}
<1>0. TypeOK
  BY DEF IInv
<1>1. ASSUME NEW f, NEW s, MoveTo(f, s), s \notin {"new", "reserved"} \/ stage[f] = "new"
      PROVE  stage'[e] \notin {"new", "reserved"}
  <2>1. stage'[e] = IF f = e THEN s ELSE stage[e]
    BY <1>0, <1>1 DEF MoveTo, TypeOK
  <2> QED
    BY <1>1, <2>1
<1>2. ASSUME NEW f \in Envelopes, EnvelopeStep(f)
      PROVE  stage'[e] \notin {"new", "reserved"}
  <2>1. CASE Reserve(f)
    BY <1>1, <2>1 DEF Reserve
  <2>2. CASE Refuse(f)
    BY <1>1, <2>2 DEF Refuse
  <2>3. CASE Publish(f)
    BY <1>1, <2>3 DEF Publish
  <2>4. CASE Cancel(f)
    BY <1>1, <2>4 DEF Cancel
  <2>5. CASE Wake(f) \/ WakeFails(f) \/ AdjustSize(f)
    BY <2>5 DEF Wake, WakeFails, AdjustSize
  <2>6. CASE \/ Discard(f) \/ MarkDurable(f) \/ MarkUserEventsDurable(f)
             \/ MarkAdmissionDurable(f)
    <3>1. MoveTo(f, "settled")
      BY <2>6 DEF Discard, MarkDurable, MarkUserEventsDurable,
                  MarkAdmissionDurable, Settle
    <3> QED
      BY <1>1, <3>1
  <2> QED
    BY <1>2, <2>1, <2>2, <2>3, <2>4, <2>5, <2>6 DEF EnvelopeStep
<1>3. ASSUME NEW i \in Invocations, InvocationStep(i)
      PROVE  stage'[e] \notin {"new", "reserved"}
  BY <1>3 DEF InvocationStep, BeginFail, DegradeInvocation, DegradeUserEvents,
              ReleaseTracking, Remember
<1>4. ASSUME NEW k \in Keys, PurgeOne(k)
      PROVE  stage'[e] \notin {"new", "reserved"}
  <2>1. PICK j \in Doomed(k) : MoveTo(incoming[k][j], "settled")
    BY <1>4 DEF PurgeOne
  <2> QED
    BY <1>1, <2>1
<1>5. CASE TakeOne
  BY <1>1, <1>5 DEF TakeOne
<1>6. CASE TakeDropsFailed
  BY <1>1, <1>6 DEF TakeDropsFailed
<1>7. CASE \/ BeginTake \/ EndTake \/ EndFail \/ PollAdmission
           \/ \E h \in HealthStates : SetHealth(h)
           \/ UNCHANGED coordinatorVars
  BY <1>7 DEF BeginTake, EndTake, EndFail, PollAdmission, SetHealth, coordinatorVars
<1> QED
  BY <1>2, <1>3, <1>4, <1>5, <1>6, <1>7 DEF Next

(* The coalescing of publish.                                              *)
LEMMA PublishCoalesces ==
  ASSUME IInv, SnapshotsKept, NEW e \in Envelopes, Publish(e)
  PROVE  /\ \A k \in Keys : Coalesced(incoming'[k], stripped')
         /\ \A old \in stripped' \ stripped :
              old \in Envelopes /\ old.snapshot > 0 /\ stage[old] = "queued"
<1> DEFINE q == incoming[e.key]
           slots == SnapshotSlots(q, e.inv)
<1>1. /\ incoming \in [Keys -> Seq(Envelopes)] /\ e.key \in Keys
      /\ q \in Seq(Envelopes) /\ stripped \subseteq Envelopes /\ QueuedExact
  BY EnvelopeFields DEF IInv, TypeOK
<1>2. /\ stage[e] = "reserved" /\ e \notin stripped /\ Coalesce(e)
      /\ incoming' = [incoming EXCEPT ![e.key] = Append(@, e)]
  BY DEF Publish, SnapshotsKept
<1>3. /\ incoming'[e.key] = Append(q, e)
      /\ \A k \in Keys : k # e.key => incoming'[k] = incoming[k]
  BY <1>1, <1>2
<1>4. \A k \in Keys : Coalesced(incoming[k], stripped)
  BY DEF SnapshotsKept
<1>5. CASE e.kind = "event" /\ e.snapshot > 0 /\ slots # {}
  <2>1. PICK j \in Newest(slots) : StripSnapshot(q[j])
    BY <1>2, <1>5 DEF Coalesce
  <2>2. /\ j \in 1 .. Len(q) /\ q[j].inv = e.inv
        /\ q[j].snapshot > 0 /\ q[j] \notin stripped
        /\ \A n \in 1 .. Len(q) : q[n].inv = e.inv /\ Carries(q[n], stripped) => n <= j
    BY <2>1 DEF Newest, SnapshotSlots, HasSnapshot, Carries
  <2>3. stripped' = stripped \cup {q[j]}
    BY <2>1 DEF StripSnapshot
  <2>4. /\ q[j] \in Envelopes /\ stage[q[j]] = "queued" /\ q[j].key = e.key
        /\ \A n \in 1 .. Len(q) : q[n] # e
        /\ \A m, n \in 1 .. Len(q) : q[m] = q[n] => m = n
    <3>1. \A n \in 1 .. Len(q) :
            /\ q[n].key = e.key /\ stage[q[n]] = "queued"
            /\ \A m \in 1 .. Len(q) : q[m] = q[n] => m = n
      BY <1>1 DEF QueuedExact
    <3>2. q[j] \in Envelopes
      BY <1>1, <2>2
    <3> HIDE DEF q
    <3>3. \A n \in 1 .. Len(q) : q[n] # e
      BY <1>2, <3>1
    <3> QED
      BY <2>2, <3>1, <3>2, <3>3
  <2> HIDE DEF q
  <2>5. Coalesced(incoming'[e.key], stripped')
    <3>1. Coalesced(q, stripped) /\ Carries(q[j], stripped)
      BY <1>1, <1>4, <2>2 DEF Carries, q
    <3> QED
      BY <1>1, <1>2, <1>3, <1>5, <2>2, <2>3, <2>4, <3>1, CoalescedReplace
  <2>6. ASSUME NEW k \in Keys, k # e.key PROVE Coalesced(incoming'[k], stripped')
    <3>1. \A n \in 1 .. Len(incoming[k]) : incoming[k][n] # q[j]
      BY <1>1, <2>4, <2>6 DEF QueuedExact
    <3>2. incoming[k] \in Seq(Envelopes)
      BY <1>1
    <3> QED
      BY <1>3, <1>4, <2>3, <2>6, <3>1, <3>2, CoalescedElsewhere
  <2> QED
    BY <2>2, <2>3, <2>4, <2>5, <2>6
<1>6. CASE ~(e.kind = "event" /\ e.snapshot > 0 /\ slots # {})
  <2>1. UNCHANGED stripped
    BY <1>2, <1>6 DEF Coalesce
  <2>2. Carries(e, stripped) =>
          \A n \in 1 .. Len(q) : ~(q[n].inv = e.inv /\ Carries(q[n], stripped))
    BY <1>6, EnvelopesAssumption DEF Carries, SnapshotSlots, HasSnapshot
  <2> HIDE DEF q
  <2>3. Coalesced(q, stripped)
    BY <1>1, <1>4 DEF q
  <2>4. Coalesced(Append(q, e), stripped)
    BY <1>1, <1>2, <2>2, <2>3, CoalescedAppend
  <2> QED
    BY <1>3, <1>4, <2>1, <2>4
<1> QED
  BY <1>5, <1>6

LEMMA SnapshotsPreserved ==
  ASSUME IInv, SnapshotsKept, [Next]_coordinatorVars
  PROVE  SnapshotsKept'
<1>1. /\ incoming \in [Keys -> Seq(Envelopes)] /\ stripped \subseteq Envelopes
      /\ \A k \in Keys : Coalesced(incoming[k], stripped)
      /\ \A e \in stripped : e.snapshot > 0 /\ stage[e] \notin {"new", "reserved"}
  BY DEF IInv, TypeOK, SnapshotsKept
<1>2. ASSUME \A k \in Keys : Coalesced(incoming'[k], stripped'),
             \A e \in stripped' \ stripped :
               e \in Envelopes /\ e.snapshot > 0 /\ stage[e] = "queued"
      PROVE  SnapshotsKept'
  <2>1. ASSUME NEW e \in stripped'
        PROVE  e.snapshot > 0 /\ stage'[e] \notin {"new", "reserved"}
    <3>1. e \in Envelopes /\ e.snapshot > 0 /\ stage[e] \notin {"new", "reserved"}
      BY <1>1, <1>2
    <3> QED
      BY <3>1, NeverUnpublished
  <2> QED
    BY <1>2, <2>1 DEF SnapshotsKept
<1>3. ASSUME UNCHANGED <<incoming, stripped>> PROVE SnapshotsKept'
  BY <1>1, <1>2, <1>3
<1>4. ASSUME NEW e \in Envelopes, Publish(e) PROVE SnapshotsKept'
  BY <1>2, <1>4, PublishCoalesces
<1>5. ASSUME TakeOne \/ TakeDropsFailed PROVE SnapshotsKept'
  <2> DEFINE k == Head(ready)
  <2>1. ready # <<>> /\ PopHead(k)
    BY <1>5 DEF TakeOne, TakeDropsFailed
  <2>2. k \in Keys /\ incoming[k] \in Seq(Envelopes) /\ incoming[k] # <<>>
    BY <2>1, HeadExists
  <2>3. incoming' = [incoming EXCEPT ![k] = Tail(@)] /\ UNCHANGED stripped
    BY <2>1 DEF PopHead
  <2> HIDE DEF k
  <2>4. Coalesced(Tail(incoming[k]), stripped)
    BY <1>1, <2>2, CoalescedTail
  <2>5. \A x \in Keys : incoming'[x] = IF x = k THEN Tail(incoming[k]) ELSE incoming[x]
    BY <1>1, <2>3
  <2>6. \A x \in Keys : Coalesced(incoming'[x], stripped')
    BY <1>1, <2>3, <2>4, <2>5
  <2> QED
    BY <1>2, <2>3, <2>6
<1>6. ASSUME NEW k \in Keys, PurgeOne(k) PROVE SnapshotsKept'
  <2>1. PICK j \in Doomed(k) :
          /\ \A other \in Doomed(k) : j <= other
          /\ incoming' = [incoming EXCEPT ![k] = RemoveAt(@, j)]
    BY <1>6 DEF PurgeOne
  <2> DEFINE q == incoming[k]
  <2>2. /\ UNCHANGED stripped /\ q \in Seq(Envelopes) /\ j \in 1 .. Len(q)
        /\ q[j].inv = failing
    BY <1>1, <1>6, <2>1 DEF PurgeOne, Doomed
  <2>3. ASSUME NEW n \in 1 .. j - 1, q[n] \in stripped, q[n].inv = q[j].inv
        PROVE  FALSE
    <3>1. n \in 1 .. Len(q) /\ ~(j <= n)
      BY <2>2
    <3>2. q[n].kind = "event"
      BY <1>1, <2>3, EnvelopesAssumption
    <3>3. n \in Doomed(k)
      BY <2>2, <2>3, <3>1, <3>2 DEF Doomed, IsJournal
    <3> QED
      BY <2>1, <3>1, <3>3
  <2> HIDE DEF q
  <2>4. Coalesced(q, stripped)
    BY <1>1 DEF q
  <2>5. Coalesced(RemoveAt(q, j), stripped)
    BY <2>2, <2>3, <2>4, CoalescedRemoveAt
  <2>6. \A x \in Keys : incoming'[x] = IF x = k THEN RemoveAt(q, j) ELSE incoming[x]
    BY <1>1, <2>1 DEF q
  <2>7. \A x \in Keys : Coalesced(incoming'[x], stripped')
    BY <1>1, <2>2, <2>5, <2>6
  <2> QED
    BY <1>2, <2>2, <2>7
<1>7. ASSUME NEW e \in Envelopes, EnvelopeStep(e) PROVE SnapshotsKept'
  <2>1. CASE ~Publish(e)
    <3>1. UNCHANGED <<incoming, stripped>>
      BY <1>7, <2>1 DEF EnvelopeStep, Reserve, Refuse, Cancel, Wake, WakeFails,
                        AdjustSize, Discard, MarkDurable, MarkUserEventsDurable,
                        MarkAdmissionDurable, Settle, queueVars
    <3> QED
      BY <1>3, <3>1
  <2> QED
    BY <1>4, <2>1
<1>8. ASSUME NEW i \in Invocations, InvocationStep(i) PROVE SnapshotsKept'
  <2>1. UNCHANGED <<incoming, stripped>>
    BY <1>8 DEF InvocationStep, BeginFail, DegradeInvocation, DegradeUserEvents,
                ReleaseTracking, Remember, queueVars
  <2> QED
    BY <1>3, <2>1
<1>9. ASSUME \/ BeginTake \/ EndTake \/ EndFail \/ PollAdmission
             \/ \E h \in HealthStates : SetHealth(h)
             \/ UNCHANGED coordinatorVars
      PROVE  SnapshotsKept'
  <2>1. UNCHANGED <<incoming, stripped>>
    BY <1>9 DEF BeginTake, EndTake, EndFail, PollAdmission, SetHealth,
                coordinatorVars, queueVars
  <2> QED
    BY <1>3, <2>1
<1> QED
  BY <1>5, <1>6, <1>7, <1>8, <1>9 DEF Next

LEMMA SnapshotsInit == Init => SnapshotsKept
BY DEF Init, SnapshotsKept, Coalesced

(* However publications, takes and the purge of a failed Invocation        *)
(* interleave: a queued record lost its recovery snapshot only to a newer  *)
(* one of the same Invocation waiting behind it, and of the queued records *)
(* of an Invocation one at most carries a snapshot, so that memory is not  *)
(* spent on superseded snapshots and the newest one always reaches the     *)
(* database.                                                               *)
THEOREM CoalescingExact == Spec => []NewestSnapshotKept
<1>1. IInv /\ SnapshotsKept /\ [Next]_coordinatorVars => (IInv /\ SnapshotsKept)'
  BY StepPreserves, SnapshotsPreserved
<1>2. SnapshotsKept => NewestSnapshotKept
  BY DEF SnapshotsKept, NewestSnapshotKept, Coalesced, Carries, HasSnapshot
<1> QED
  BY <1>1, <1>2, InitEstablishes, SnapshotsInit, PTL DEF Spec
=============================================================================
