-------------------------- MODULE UserEventStreamProofs --------------------------
(***************************************************************************)
(* What the batcher of streamed UserEvents guarantees for any number of     *)
(* nodes, attempts and chunks, any interleaving of threads and loops, and   *)
(* any size of a batch; and what a follower of the server is promised, for  *)
(* any number of UserEvents, any past in the database and any limit of a    *)
(* page.                                                                   *)
(***************************************************************************)
EXTENDS UserEventStream, FiniteSetTheorems, WellFoundedInduction, TLAPS

--------------------------------------------------------------------------------
(* Sequences.                                                              *)

(* What a sequence holds after it grew.                                    *)
LEMMA ToSetConcat ==
    ASSUME NEW S, NEW s \in Seq(S), NEW t \in Seq(S)
    PROVE  ToSet(s) \subseteq ToSet(s \o t) /\ ToSet(t) \subseteq ToSet(s \o t)
<1>1. ASSUME NEW i \in DOMAIN s PROVE (s \o t)[i] = s[i] /\ i \in DOMAIN (s \o t)
    OBVIOUS
<1>2. ASSUME NEW i \in DOMAIN t
      PROVE  (s \o t)[Len(s) + i] = t[i] /\ Len(s) + i \in DOMAIN (s \o t)
    OBVIOUS
<1> QED
    BY <1>1, <1>2 DEF ToSet

LEMMA ToSetAppend ==
    ASSUME NEW S, NEW s \in Seq(S), NEW x \in S
    PROVE  ToSet(s) \subseteq ToSet(Append(s, x)) /\ x \in ToSet(Append(s, x))
<1>1. ASSUME NEW i \in DOMAIN s
      PROVE  Append(s, x)[i] = s[i] /\ i \in DOMAIN Append(s, x)
    OBVIOUS
<1>2. Append(s, x)[Len(s) + 1] = x /\ Len(s) + 1 \in DOMAIN Append(s, x)
    OBVIOUS
<1> QED
    BY <1>1, <1>2 DEF ToSet

(* What leaves a queue is its head; the rest is in its tail.                *)
LEMMA ToSetTail ==
    ASSUME NEW S, NEW s \in Seq(S), s # <<>>
    PROVE  /\ Head(s) \in S /\ Tail(s) \in Seq(S)
           /\ ToSet(s) \subseteq {Head(s)} \cup ToSet(Tail(s))
<1>1. ASSUME NEW i \in DOMAIN s, i # 1
      PROVE  i - 1 \in DOMAIN Tail(s) /\ Tail(s)[i - 1] = s[i]
    BY <1>1
<1>2. Head(s) = s[1] /\ Head(s) \in S /\ Tail(s) \in Seq(S)
    OBVIOUS
<1> QED
    BY <1>1, <1>2 DEF ToSet

LEMMA Single ==
    ASSUME NEW S, NEW x \in S
    PROVE  <<x>> \in Seq(S) /\ x \in ToSet(<<x>>)
BY DEF ToSet

--------------------------------------------------------------------------------
(* The inductive invariant: a batch that is not empty has its deadline, and *)
(* whatever is handed to the loop is a callback.                            *)
Types == STRING \cup {"user_event_mapping_failed", Aborted, "output", "agent_failed"}
Specs == [call : Nodes \X Nat, item : Nat, type : Types]
Callbacks ==
    [do : {"put"}, message : [kind : {"user_event"}, specs : Seq(Specs)]]
    \cup [do : {"deadline"}, call : Calls, gen : Nat]
    \cup [do : {"ended"}, call : Calls, ok : BOOLEAN]
Batches == [specs : Seq(Specs), gen : Nat]

BatcherTypeOK ==
    /\ scenario \in Scenarios
    /\ position \in [Calls -> Nat]
    /\ batch \in [Calls -> Batches]
    /\ posts \in [Calls -> Seq(Callbacks)]
    /\ ready \in Seq(Callbacks)

IInv == BatcherTypeOK /\ NoChunkStuck

(* The deadline of batch b of call c is set or on its way.                 *)
Covered(c, b) ==
    \/ <<c, b.gen>> \in timers
    \/ Deadline(c, b.gen) \in ToSet(ready) \cup ToSet(posts[c])

(* The operations of the batcher on a batch.                               *)
LEMMA TakenBatch ==
    ASSUME NEW b \in Batches
    PROVE  Taken(b) \in Batches /\ Taken(b).specs = <<>>
BY DEF Taken, Batches

LEMMA GrownBatch ==
    ASSUME NEW b \in Batches, NEW specs \in Seq(Specs)
    PROVE  /\ Grown(b, specs) \in Batches
           /\ Grown(b, specs).specs # <<>> /\ b.specs # <<>>
                 => Grown(b, specs).gen = b.gen
           /\ Grown(b, specs).specs # <<>> /\ b.specs = <<>> => specs # <<>>
BY DEF Grown, Batches

(* A new batch comes with the deadline of its generation.                  *)
LEMMA DeadlinesOfNewBatch ==
    ASSUME NEW c \in Calls, NEW b \in Batches, NEW specs \in Seq(Specs)
    PROVE  /\ Deadlines(c, b, specs) \in Seq(Callbacks)
           /\ b.specs = <<>> /\ specs # <<>>
                 => Deadline(c, Grown(b, specs).gen) \in ToSet(Deadlines(c, b, specs))
<1>1. Grown(b, specs).gen \in Nat
    BY GrownBatch DEF Batches
<1>2. Deadline(c, Grown(b, specs).gen) \in Callbacks
    BY <1>1 DEF Deadline, Callbacks
<1> QED
    BY <1>2, Single DEF Deadlines

LEMMA PublishedBatch ==
    ASSUME NEW b \in Batches
    PROVE  [k \in DOMAIN Published(b) |-> Put(Published(b)[k])] \in Seq(Callbacks)
<1>1. Events_(b.specs) \in [kind : {"user_event"}, specs : Seq(Specs)]
    BY DEF Events_, Batches
<1>2. Put(Events_(b.specs)) \in Callbacks
    BY <1>1 DEF Put, Callbacks
<1>3. CASE Full(b)
    <2>1. Published(b) = <<Events_(b.specs)>>
        BY <1>3 DEF Published
    <2>2. [k \in DOMAIN Published(b) |-> Put(Published(b)[k])] \in [1..1 -> Callbacks]
        BY <2>1, <1>2
    <2> QED
        BY <2>2
<1>4. CASE ~Full(b)
    <2>1. Published(b) = <<>>
        BY <1>4 DEF Published
    <2>2. [k \in DOMAIN Published(b) |-> Put(Published(b)[k])] \in [1..0 -> Callbacks]
        BY <2>1
    <2> QED
        BY <2>2
<1> QED
    BY <1>3, <1>4

(* What a mapping says of a chunk.                                         *)
LEMMA MappedSpecs ==
    ASSUME scenario \in Scenarios, NEW c \in Calls, NEW i \in 1..Len(Chunks(c))
    PROVE  Mapped(c, i) \in Seq(Specs)
<1>1. c[1] \in Nodes
    BY DEF Calls
<1>2. Chunks(c) \in Seq(STRING)
    BY <1>1, ScenarioAssumption DEF Chunks, Nodes
<1>3. Chunks(c)[i] \in STRING
    BY <1>2
<1>4. \A t \in Types : Spec_(c, i, t) \in Specs
    <2>1. c \in Nodes \X Nat
        BY ScenarioAssumption DEF Calls, Nodes
    <2> QED
        BY <1>2, <2>1 DEF Spec_, Specs
<1>5. \A t \in Types : <<Spec_(c, i, t)>> \in Seq(Specs)
    BY <1>4, Single
<1>6. /\ <<>> \in Seq(Specs)
      /\ <<Spec_(c, i, "user_event_mapping_failed")>> \in Seq(Specs)
      /\ <<Spec_(c, i, Chunks(c)[i])>> \in Seq(Specs)
    <2>1. "user_event_mapping_failed" \in Types /\ Chunks(c)[i] \in Types
        BY <1>3 DEF Types
    <2>2. <<>> \in Seq(Specs)
        OBVIOUS
    <2> QED
        BY <1>5, <2>1, <2>2
<1>7. \/ Mapped(c, i) = <<>>
      \/ Mapped(c, i) = <<Spec_(c, i, "user_event_mapping_failed")>>
      \/ Mapped(c, i) = <<Spec_(c, i, Chunks(c)[i])>>
    BY DEF Mapped
<1> QED
    BY <1>6, <1>7

--------------------------------------------------------------------------------
(* Every step preserves it.                                                *)
batcherVars == <<scenario, position, posts, batch, ready, timers>>

LEMMA InitEstablishes == Init => IInv
<1> SUFFICES ASSUME Init PROVE IInv
    OBVIOUS
<1>1. batch \in [Calls -> Batches]
    BY DEF Init, Batches
<1>2. BatcherTypeOK
    BY <1>1 DEF Init, BatcherTypeOK
<1>3. NoChunkStuck
    BY DEF Init, NoChunkStuck
<1> QED
    BY <1>2, <1>3 DEF IInv

LEMMA OthersPreserve == IInv /\ UNCHANGED batcherVars => IInv'
<1> SUFFICES ASSUME IInv, UNCHANGED batcherVars PROVE IInv'
    OBVIOUS
<1>1. Calls' = Calls /\ Callbacks' = Callbacks /\ Batches' = Batches
    BY DEF batcherVars, Calls, Nodes, Callbacks, Batches, Specs
<1>2. BatcherTypeOK'
    BY <1>1 DEF IInv, BatcherTypeOK, batcherVars
<1>3. NoChunkStuck'
    BY <1>1 DEF IInv, NoChunkStuck, batcherVars
<1> QED
    BY <1>2, <1>3 DEF IInv

(* A deadline that stays where it was or comes closer covers its batch.    *)
LEMMA CoverMoves ==
    ASSUME IInv, UNCHANGED scenario,
           \A d \in Calls :
              \/ batch'[d].specs = <<>>
              \/ batch'[d] = batch[d] /\ (Covered(d, batch[d]) => Covered(d, batch[d])')
    PROVE  NoChunkStuck'
<1>1. Calls' = Calls
    BY DEF Calls, Nodes
<1>2. ASSUME NEW d \in Calls, batch'[d].specs # <<>> PROVE Covered(d, batch[d])'
    BY <1>2 DEF IInv, NoChunkStuck, Covered
<1> QED
    BY <1>1, <1>2 DEF NoChunkStuck, Covered, Deadline

(* The handler produces a chunk.                                           *)
LEMMA NextChunkPreserves ==
    ASSUME IInv, NEW c \in Calls, NextChunk(c)
    PROVE  IInv'
<1> DEFINE specs == Mapped(c, position[c] + 1)
           b == batch[c]
           grown == Grown(b, specs)
           deadlines == Deadlines(c, b, specs)
           published == [k \in DOMAIN Published(grown) |-> Put(Published(grown)[k])]
<1>1. Calls' = Calls /\ scenario' = scenario /\ timers' = timers
    BY DEF NextChunk, Calls, Nodes
<1>2. c[1] \in Nodes /\ Chunks(c) \in Seq(STRING)
    BY ScenarioAssumption DEF Calls, Chunks, Nodes, IInv, BatcherTypeOK
<1>3. position[c] + 1 \in 1..Len(Chunks(c)) /\ posts[c] = <<>>
    BY <1>2 DEF NextChunk, IInv, BatcherTypeOK
<1>4. specs \in Seq(Specs)
    BY <1>3, MappedSpecs DEF IInv, BatcherTypeOK
<1>5. b \in Batches /\ grown \in Batches
    BY <1>4, GrownBatch DEF IInv, BatcherTypeOK
<1>6. batch' = [batch EXCEPT ![c] = IF Full(grown) THEN Taken(grown) ELSE grown]
    BY DEF NextChunk
<1>7. position' = [position EXCEPT ![c] = @ + 1]
    BY DEF NextChunk
<1>8. \/ posts' = [posts EXCEPT ![c] = deadlines \o published] /\ ready' = ready
      \/ posts' = posts /\ ready' = ready \o deadlines
    BY DEF NextChunk
<1>9. deadlines \in Seq(Callbacks) /\ published \in Seq(Callbacks)
    BY <1>4, <1>5, DeadlinesOfNewBatch, PublishedBatch
<1>10. b.specs = <<>> /\ specs # <<>> => Deadline(c, grown.gen) \in ToSet(deadlines)
    BY <1>4, <1>5, DeadlinesOfNewBatch
<1>11. /\ grown.specs # <<>> /\ b.specs # <<>> => grown.gen = b.gen
       /\ grown.specs # <<>> /\ b.specs = <<>> => specs # <<>>
    BY <1>4, <1>5, GrownBatch
<1>12. Taken(grown) \in Batches /\ Taken(grown).specs = <<>>
    BY <1>5, TakenBatch
<1> HIDE DEF specs, b, grown, deadlines, published
<1>13. BatcherTypeOK'
    <2>1. /\ Callbacks' = Callbacks /\ Batches' = Batches
        BY <1>1 DEF Callbacks, Batches, Specs, Nodes
    <2>2. batch' \in [Calls -> Batches]
        BY <1>5, <1>6, <1>12 DEF IInv, BatcherTypeOK
    <2>3. position' \in [Calls -> Nat]
        BY <1>7 DEF IInv, BatcherTypeOK
    <2>4. posts' \in [Calls -> Seq(Callbacks)] /\ ready' \in Seq(Callbacks)
        <3>1. posts \in [Calls -> Seq(Callbacks)] /\ ready \in Seq(Callbacks)
            BY DEF IInv, BatcherTypeOK
        <3>2. deadlines \o published \in Seq(Callbacks) /\ ready \o deadlines \in Seq(Callbacks)
            BY <3>1, <1>9
        <3> QED
            BY <1>8, <3>1, <3>2
    <2> QED
        BY <1>1, <2>1, <2>2, <2>3, <2>4 DEF IInv, BatcherTypeOK
<1>14. /\ ToSet(ready) \subseteq ToSet(ready')
       /\ ToSet(deadlines) \subseteq ToSet(ready') \cup ToSet(posts'[c])
       /\ \A d \in Calls \ {c} : posts'[d] = posts[d]
    <2>1. ready \in Seq(Callbacks) /\ posts \in [Calls -> Seq(Callbacks)]
        BY DEF IInv, BatcherTypeOK
    <2>2. CASE posts' = [posts EXCEPT ![c] = deadlines \o published] /\ ready' = ready
        <3>1. posts'[c] = deadlines \o published
            BY <2>1, <2>2
        <3> QED
            BY <2>1, <2>2, <3>1, <1>9, ToSetConcat
    <2>3. CASE posts' = posts /\ ready' = ready \o deadlines
        BY <2>1, <2>3, <1>9, ToSetConcat
    <2> QED
        BY <1>8, <2>2, <2>3
<1>15. NoChunkStuck'
    <2> SUFFICES ASSUME NEW d \in Calls, batch'[d].specs # <<>>
                 PROVE  \/ <<d, batch'[d].gen>> \in timers'
                        \/ Deadline(d, batch'[d].gen) \in ToSet(ready') \cup ToSet(posts'[d])
        BY <1>1 DEF NoChunkStuck, Deadline
    <2>1. CASE d # c
        <3>1. batch'[d] = batch[d]
            BY <2>1, <1>6 DEF IInv, BatcherTypeOK
        <3> QED
            BY <2>1, <3>1, <1>1, <1>14 DEF IInv, NoChunkStuck
    <2>2. CASE d = c
        <3>1. batch'[c] = grown /\ grown.specs # <<>>
            BY <2>2, <1>6, <1>12 DEF IInv, BatcherTypeOK
        <3>2. CASE b.specs = <<>>
            BY <3>1, <3>2, <2>2, <1>10, <1>11, <1>14
        <3>3. CASE b.specs # <<>>
            <4>1. grown.gen = b.gen
                BY <3>1, <3>3, <1>11
            <4>2. ToSet(posts[c]) = {}
                BY <1>3 DEF ToSet
            <4>3. \/ <<c, b.gen>> \in timers
                  \/ Deadline(c, b.gen) \in ToSet(ready)
                BY <3>3, <4>2 DEF b, IInv, NoChunkStuck
            <4> QED
                BY <2>2, <3>1, <4>1, <4>3, <1>1, <1>14
        <3> QED
            BY <3>2, <3>3
    <2> QED
        BY <2>1, <2>2
<1> QED
    BY <1>13, <1>15 DEF IInv

(* A thread hands its next callback over.                                  *)
LEMMA PostPreserves ==
    ASSUME IInv, NEW c \in Calls, Post(c)
    PROVE  IInv'
<1>1. /\ scenario' = scenario /\ position' = position /\ batch' = batch
      /\ timers' = timers /\ posts[c] # <<>>
      /\ ready' = Append(ready, Head(posts[c]))
      /\ posts' = [posts EXCEPT ![c] = Tail(@)]
    BY DEF Post
<1>2. posts[c] \in Seq(Callbacks) /\ ready \in Seq(Callbacks)
    BY DEF IInv, BatcherTypeOK
<1>3. /\ Head(posts[c]) \in Callbacks /\ Tail(posts[c]) \in Seq(Callbacks)
      /\ ToSet(posts[c]) \subseteq {Head(posts[c])} \cup ToSet(Tail(posts[c]))
    BY <1>1, <1>2, ToSetTail
<1>4. /\ ToSet(ready) \subseteq ToSet(ready')
      /\ Head(posts[c]) \in ToSet(ready') /\ ready' \in Seq(Callbacks)
    BY <1>1, <1>2, <1>3, ToSetAppend
<1>5. BatcherTypeOK'
    <2>1. Calls' = Calls /\ Callbacks' = Callbacks /\ Batches' = Batches
        BY <1>1 DEF Calls, Nodes, Callbacks, Batches, Specs
    <2> QED
        BY <1>1, <1>3, <1>4, <2>1 DEF IInv, BatcherTypeOK
<1>6. \A d \in Calls : ToSet(posts[d]) \subseteq ToSet(posts'[d]) \cup ToSet(ready')
    BY <1>1, <1>3, <1>4 DEF IInv, BatcherTypeOK
<1>7. \A d \in Calls : Covered(d, batch[d]) => Covered(d, batch[d])'
    BY <1>1, <1>4, <1>6 DEF Covered, Deadline
<1>8. NoChunkStuck'
    BY <1>1, <1>7, CoverMoves
<1> QED
    BY <1>5, <1>8 DEF IInv

(* A handler ends: its thread has nothing left to hand over.               *)
LEMMA EndStreamPreserves ==
    ASSUME IInv, NEW c \in Calls, NEW ok \in BOOLEAN, EndStream(c, ok)
    PROVE  IInv'
<1>1. /\ scenario' = scenario /\ position' = position /\ ready' = ready
      /\ timers' = timers /\ posts[c] = <<>>
      /\ batch' = batch \/ batch' = [batch EXCEPT ![c] = Taken(@)]
      /\ posts' = posts \/ posts' = [posts EXCEPT ![c] = <<Ended(c, ok)>>]
    BY DEF EndStream, Conclude, loopVars
<1>2. <<Ended(c, ok)>> \in Seq(Callbacks)
    <2>1. Ended(c, ok) \in Callbacks
        BY DEF Ended, Callbacks
    <2> QED
        BY <2>1, Single
<1>3. Taken(batch[c]) \in Batches /\ Taken(batch[c]).specs = <<>>
    BY TakenBatch DEF IInv, BatcherTypeOK
<1>4. BatcherTypeOK'
    <2>1. Calls' = Calls /\ Callbacks' = Callbacks /\ Batches' = Batches
        BY <1>1 DEF Calls, Nodes, Callbacks, Batches, Specs
    <2>2. batch' \in [Calls -> Batches]
        BY <1>1, <1>3 DEF IInv, BatcherTypeOK
    <2>3. posts' \in [Calls -> Seq(Callbacks)]
        BY <1>1, <1>2 DEF IInv, BatcherTypeOK
    <2> QED
        BY <1>1, <2>1, <2>2, <2>3 DEF IInv, BatcherTypeOK
<1>5. \A d \in Calls : ToSet(posts[d]) \subseteq ToSet(posts'[d])
    <2>1. ToSet(posts[c]) = {}
        BY <1>1 DEF ToSet
    <2> QED
        BY <1>1, <2>1 DEF IInv, BatcherTypeOK
<1>6. \A d \in Calls : batch'[d].specs = <<>> \/ batch'[d] = batch[d]
    BY <1>1, <1>3 DEF IInv, BatcherTypeOK
<1>7. \A d \in Calls : batch'[d] = batch[d] =>
          (Covered(d, batch[d]) => Covered(d, batch[d])')
    BY <1>1, <1>5 DEF Covered, Deadline
<1>8. NoChunkStuck'
    BY <1>1, <1>6, <1>7, CoverMoves
<1> QED
    BY <1>4, <1>8 DEF IInv

(* The loop runs the callback at the head of its queue.                    *)
LEMMA RunCallbackPreserves ==
    ASSUME IInv, RunCallback
    PROVE  IInv'
<1> DEFINE callback == Head(ready)
<1>1. /\ scenario' = scenario /\ position' = position /\ posts' = posts
      /\ ready # <<>> /\ ready' = Tail(ready)
    BY DEF RunCallback, handlerVars
<1>2. /\ callback \in Callbacks /\ ready' \in Seq(Callbacks)
      /\ ToSet(ready) \subseteq {callback} \cup ToSet(ready')
    BY <1>1, ToSetTail DEF IInv, BatcherTypeOK
<1>3. \/ batch' = batch
      \/ callback.do = "ended" /\ batch' = [batch EXCEPT ![callback.call] = Taken(@)]
    BY DEF RunCallback, Conclude
<1>4. /\ timers \subseteq timers'
      /\ callback.do = "deadline" => <<callback.call, callback.gen>> \in timers'
    BY DEF RunCallback
<1>5. callback.do = "ended" => callback.call \in Calls
    BY <1>2 DEF Callbacks
<1> HIDE DEF callback
<1>6. \A d \in Calls : batch'[d] \in Batches /\ (batch'[d].specs = <<>> \/ batch'[d] = batch[d])
    BY <1>3, <1>5, TakenBatch DEF IInv, BatcherTypeOK
<1>7. BatcherTypeOK'
    <2>1. Calls' = Calls /\ Callbacks' = Callbacks /\ Batches' = Batches
        BY <1>1 DEF Calls, Nodes, Callbacks, Batches, Specs
    <2>2. batch' \in [Calls -> Batches]
        BY <1>3, <1>5, <1>6 DEF IInv, BatcherTypeOK
    <2> QED
        BY <1>1, <1>2, <2>1, <2>2 DEF IInv, BatcherTypeOK
<1>8. ASSUME NEW d \in Calls, batch'[d] = batch[d], Covered(d, batch[d])
      PROVE  Covered(d, batch[d])'
    <2>1. CASE Deadline(d, batch[d].gen) = callback
        <3>1. callback.do = "deadline" /\ callback.call = d /\ callback.gen = batch[d].gen
            BY <2>1 DEF Deadline
        <3>2. <<d, batch[d].gen>> \in timers'
            BY <3>1, <1>4
        <3> QED
            BY <3>2, <1>8 DEF Covered
    <2>2. CASE Deadline(d, batch[d].gen) # callback
        BY <2>2, <1>8, <1>1, <1>2, <1>4 DEF Covered, Deadline
    <2> QED
        BY <2>1, <2>2
<1>9. NoChunkStuck'
    BY <1>1, <1>6, <1>8, CoverMoves
<1> QED
    BY <1>7, <1>9 DEF IInv

(* A deadline passes: it may go, its batch being flushed or another one.   *)
LEMMA FlushGenerationPreserves ==
    ASSUME IInv, NEW c \in Calls, NEW g \in Nat, FlushGeneration(c, g)
    PROVE  IInv'
<1>1. /\ scenario' = scenario /\ position' = position /\ posts' = posts
      /\ ready' = ready /\ timers' = timers \ {<<c, g>>}
      /\ IF batch[c].gen = g THEN batch' = [batch EXCEPT ![c] = Taken(@)]
         ELSE batch' = batch
    BY DEF FlushGeneration, handlerVars
<1>2. Taken(batch[c]) \in Batches /\ Taken(batch[c]).specs = <<>>
    BY TakenBatch DEF IInv, BatcherTypeOK
<1>3. BatcherTypeOK'
    <2>1. Calls' = Calls /\ Callbacks' = Callbacks /\ Batches' = Batches
        BY <1>1 DEF Calls, Nodes, Callbacks, Batches, Specs
    <2>2. batch' \in [Calls -> Batches]
        BY <1>1, <1>2 DEF IInv, BatcherTypeOK
    <2> QED
        BY <1>1, <2>1, <2>2 DEF IInv, BatcherTypeOK
<1>4. ASSUME NEW d \in Calls
      PROVE  \/ batch'[d].specs = <<>>
             \/ batch'[d] = batch[d] /\ <<d, batch[d].gen>> # <<c, g>>
    BY <1>1, <1>2 DEF IInv, BatcherTypeOK
<1>5. \A d \in Calls : batch'[d] = batch[d] /\ <<d, batch[d].gen>> # <<c, g>>
          => (Covered(d, batch[d]) => Covered(d, batch[d])')
    BY <1>1 DEF Covered, Deadline
<1>6. NoChunkStuck'
    BY <1>1, <1>4, <1>5, CoverMoves
<1> QED
    BY <1>3, <1>6 DEF IInv

(* The task of a node learns the end of its stream, or gives it up.        *)
LEMMA ConcludePreserves ==
    ASSUME IInv, NEW c \in Calls, GiveUp(c) \/ CloseSource(c)
    PROVE  IInv'
<1>1. /\ scenario' = scenario /\ position' = position /\ posts' = posts
      /\ ready' = ready /\ timers' = timers
      /\ batch' = batch \/ batch' = [batch EXCEPT ![c] = Taken(@)]
    BY DEF GiveUp, CloseSource, Conclude, handlerVars, loopVars
<1>2. Taken(batch[c]) \in Batches /\ Taken(batch[c]).specs = <<>>
    BY TakenBatch DEF IInv, BatcherTypeOK
<1>3. BatcherTypeOK'
    <2>1. Calls' = Calls /\ Callbacks' = Callbacks /\ Batches' = Batches
        BY <1>1 DEF Calls, Nodes, Callbacks, Batches, Specs
    <2>2. batch' \in [Calls -> Batches]
        BY <1>1, <1>2 DEF IInv, BatcherTypeOK
    <2> QED
        BY <1>1, <2>1, <2>2 DEF IInv, BatcherTypeOK
<1>4. \A d \in Calls : batch'[d].specs = <<>> \/ batch'[d] = batch[d]
    BY <1>1, <1>2 DEF IInv, BatcherTypeOK
<1>5. \A d \in Calls : batch'[d] = batch[d] =>
          (Covered(d, batch[d]) => Covered(d, batch[d])')
    BY <1>1 DEF Covered, Deadline
<1>6. NoChunkStuck'
    BY <1>1, <1>4, <1>5, CoverMoves
<1> QED
    BY <1>3, <1>6 DEF IInv

(* The driver, the tasks and the follower leave the batcher alone.         *)
LEMMA OthersLeaveBatcher ==
    ASSUME \/ \E n \in Nodes : ContinueTask(n)
           \/ DriverStep \/ CancelInvocation \/ Commit
           \/ FollowerStep \/ Heartbeat \/ UNCHANGED vars
    PROVE  UNCHANGED batcherVars
<1>1. ASSUME \E n \in Nodes : ContinueTask(n) PROVE UNCHANGED batcherVars
    BY <1>1 DEF ContinueTask, batcherVars, handlerVars, loopVars
<1>2. ASSUME DriverStep PROVE UNCHANGED batcherVars
    BY <1>2 DEF DriverStep, Take, RecordUserEvents, Notify, ApplyResult, FailInvocation,
                AbandonWork, SkipResult, Complete, RecordEnd, Close, Settle, batcherVars,
                handlerVars, loopVars
<1>3. ASSUME CancelInvocation \/ Commit \/ UNCHANGED vars PROVE UNCHANGED batcherVars
    BY <1>3 DEF CancelInvocation, Commit, vars, batcherVars, handlerVars, loopVars
<1>4. ASSUME FollowerStep \/ Heartbeat PROVE UNCHANGED batcherVars
    BY <1>4 DEF FollowerStep, Wake, Clear, ListUserEvents, LoadUserEvents, SendPage,
                ReadDetail, Continue, Heartbeat, OnlyFollower, batcherVars,
                handlerVars, loopVars
<1> QED
    BY <1>1, <1>2, <1>3, <1>4

LEMMA NextPreserves == IInv /\ [Next]_vars => IInv'
<1> SUFFICES ASSUME IInv, [Next]_vars PROVE IInv'
    OBVIOUS
<1>1. ASSUME NEW c \in Calls, NextChunk(c) PROVE IInv'
    BY <1>1, NextChunkPreserves
<1>2. ASSUME NEW c \in Calls, Post(c) PROVE IInv'
    BY <1>2, PostPreserves
<1>3. ASSUME NEW c \in Calls, EndStream(c, TRUE) \/ EndStream(c, FALSE) PROVE IInv'
    BY <1>3, EndStreamPreserves
<1>4. ASSUME RunCallback PROVE IInv'
    BY <1>4, RunCallbackPreserves
<1>5. ASSUME NEW c \in Calls, NEW g \in 1..batch[c].gen, FlushGeneration(c, g) PROVE IInv'
    <2>1. g \in Nat
        BY DEF IInv, BatcherTypeOK, Batches
    <2> QED
        BY <1>5, <2>1, FlushGenerationPreserves
<1>6. ASSUME NEW c \in Calls, GiveUp(c) \/ CloseSource(c) PROVE IInv'
    BY <1>6, ConcludePreserves
<1>7. ASSUME \/ \E n \in Nodes : ContinueTask(n)
             \/ DriverStep \/ CancelInvocation \/ Commit
             \/ FollowerStep \/ Heartbeat \/ UNCHANGED vars
      PROVE  IInv'
    BY <1>7, OthersLeaveBatcher, OthersPreserve
<1> QED
    BY <1>1, <1>2, <1>3, <1>4, <1>5, <1>6, <1>7 DEF Next, HandlerStep, LoopStep

--------------------------------------------------------------------------------
(* Whatever is streamed, by threads or on the loop, is recorded without     *)
(* waiting for the end of its stream: a batch always has the deadline of    *)
(* its own generation ahead, so that a flush can only be skipped for one    *)
(* that was already taken (node_executor.py:182-222).                      *)
THEOREM ChunksFlow == StreamSpec => []NoChunkStuck
<1>1. IInv => NoChunkStuck
    BY DEF IInv
<1> QED
    BY <1>1, InitEstablishes, NextPreserves, PTL DEF StreamSpec

--------------------------------------------------------------------------------
(* Sets of numbers.                                                        *)

(* A set of numbers that is not empty has a least one.                      *)
LEMMA Least ==
    ASSUME NEW S \in SUBSET Nat, S # {}
    PROVE  \E x \in S : \A y \in S : x <= y
<1>1. PICK x \in S : \A y \in S : ~(<<y, x>> \in OpToRel(<, Nat))
    BY NatLessThanWellFounded, WFMin
<1>2. \A y \in S : ~(y < x)
    BY <1>1 DEF OpToRel
<1> QED
    BY <1>2

(* If it has a bound, it has a greatest one.                                *)
LEMMA GreatestOfBounded ==
    ASSUME NEW n \in Nat, NEW S \in SUBSET (0..n), S # {}, NEW default
    PROVE  /\ Greatest(S, default) \in S
           /\ \A y \in S : y <= Greatest(S, default)
<1> DEFINE T == {m \in Nat : \A y \in S : y <= m}
<1>1. n \in T
    OBVIOUS
<1>2. PICK x \in T : \A m \in T : x <= m
    BY <1>1, Least
<1>3. x \in S
    <2> SUFFICES ASSUME x \notin S PROVE FALSE
        OBVIOUS
    <2>1. x \in Nat /\ \A y \in S : y \in Nat /\ y < x
        BY <1>2
    <2>2. x - 1 \in Nat
        <3>1. PICK y \in S : TRUE
            OBVIOUS
        <3> QED
            BY <2>1, <3>1
    <2>3. \A y \in S : y <= x - 1
        BY <2>1, <2>2
    <2> QED
        BY <2>1, <2>2, <2>3, <1>2
<1>4. \E z \in S : \A y \in S : y <= z
    BY <1>2, <1>3
<1> QED
    BY <1>4 DEF Greatest

LEMMA BoundedIsFinite ==
    ASSUME NEW n \in Nat, NEW S \in SUBSET (0..n)
    PROVE  IsFiniteSet(S) /\ Cardinality(S) \in Nat
<1>1. IsFiniteSet(0..n)
    BY FS_Interval
<1>2. IsFiniteSet(S)
    BY <1>1, FS_Subset
<1> QED
    BY <1>2, FS_CardinalityType

(* The first few of a set of numbers: at most that many, and all if there   *)
(* are fewer.                                                              *)
LEMMA FirstFewBound ==
    ASSUME NEW n \in Nat, NEW S \in SUBSET (0..n), NEW k \in Nat
    PROVE  /\ FirstFew(S, k) \subseteq S
           /\ Cardinality(FirstFew(S, k)) \in Nat
           /\ Cardinality(FirstFew(S, k)) <= k
<1> DEFINE F == FirstFew(S, k)
<1>1. F \in SUBSET (0..n) /\ F \subseteq S
    BY DEF FirstFew
<1>2. CASE F = {}
    BY <1>2, <1>1, FS_EmptySet
<1>3. CASE F # {}
    <2>1. PICK x \in F : \A y \in F : y <= x
        BY <1>1, <1>3, GreatestOfBounded
    <2> DEFINE B == {y \in S : y <= x}
    <2>2. Cardinality(B) <= k
        BY <2>1 DEF FirstFew
    <2>3. F \subseteq B /\ B \in SUBSET (0..n)
        BY <2>1, <1>1
    <2>4. IsFiniteSet(B) /\ Cardinality(B) \in Nat /\ Cardinality(F) \in Nat
        BY <2>3, <1>1, BoundedIsFinite
    <2>5. Cardinality(F) <= Cardinality(B)
        BY <2>3, <2>4, FS_Subset
    <2> QED
        BY <1>1, <2>2, <2>4, <2>5
<1> QED
    BY <1>2, <1>3

LEMMA FirstFewAll ==
    ASSUME NEW n \in Nat, NEW S \in SUBSET (0..n), NEW k \in Nat,
           Cardinality(FirstFew(S, k)) < k
    PROVE  FirstFew(S, k) = S
<1> DEFINE F == FirstFew(S, k)
<1>1. F \subseteq S /\ Cardinality(F) \in Nat /\ F \in SUBSET (0..n)
    <2>1. F \subseteq S /\ Cardinality(F) \in Nat
        BY FirstFewBound
    <2> QED
        BY <2>1
<1> SUFFICES ASSUME S \ F # {} PROVE FALSE
    BY <1>1
<1>2. PICK z \in S \ F : \A y \in S \ F : z <= y
    <2>1. (S \ F) \in SUBSET Nat
        <3>1. \A y \in S : y \in Nat
            OBVIOUS
        <3> QED
            BY <3>1
    <2> QED
        BY <2>1, Least
<1> DEFINE B == {y \in S : y <= z}
<1>3. B \subseteq F \cup {z}
    <2> SUFFICES ASSUME NEW y \in S, y <= z, y \notin F PROVE y = z
        OBVIOUS
    <2>1. z <= y /\ y \in Nat /\ z \in Nat
        BY <1>2
    <2> QED
        BY <2>1
<1>4. IsFiniteSet(F) /\ IsFiniteSet(F \cup {z}) /\ Cardinality(F \cup {z}) = Cardinality(F) + 1
    BY <1>1, <1>2, BoundedIsFinite, FS_AddElement
<1>5. Cardinality(B) <= Cardinality(F) + 1 /\ Cardinality(B) \in Nat
    BY <1>3, <1>4, FS_Subset, FS_CardinalityType
<1>6. Cardinality(B) <= k
    BY <1>1, <1>5
<1>7. z \in F
    BY <1>2, <1>6 DEF FirstFew
<1> QED
    BY <1>2, <1>7

--------------------------------------------------------------------------------
(* What a page holds.                                                      *)

(* The greatest number of a set that has it.                               *)
LEMMA GreatestIs ==
    ASSUME NEW n \in Nat, NEW S \in SUBSET (0..n), NEW default \in Nat,
           n \in S \/ (S = {} /\ default = n)
    PROVE  Greatest(S, default) = n
<1>1. CASE n \in S
    <2> DEFINE g == Greatest(S, default)
    <2>1. g \in S /\ n <= g
        BY <1>1, GreatestOfBounded
    <2> HIDE DEF g
    <2>2. g \in 0..n
        BY <2>1
    <2>3. g = n
        BY <2>1, <2>2
    <2> QED
        BY <2>3 DEF g
<1>2. CASE S = {} /\ default = n
    BY <1>2 DEF Greatest
<1> QED
    BY <1>1, <1>2

(* A page of memory and the database that is not full reaches the latest    *)
(* event, if memory has all behind the base and the database the base.      *)
LEMMA MergedReaches ==
    ASSUME NEW cursor \in Nat, NEW base \in Nat, NEW latest \in Nat,
           cursor <= latest, base <= latest,
           NEW stored \in SUBSET ((cursor + 1)..latest),
           base > cursor => base \in stored,
           NEW memory \in SUBSET ((cursor + 1)..latest)
    PROVE  /\ Merged(stored, memory) \subseteq (cursor + 1)..latest
           /\ memory = {x \in (base + 1)..latest : x > cursor} =>
                 \/ Cardinality(Merged(stored, memory)) = PageLimit
                 \/ Greatest(Merged(stored, memory), cursor) = latest
<1> DEFINE prefix == FirstFew(stored, PageLimit)
           last == Greatest(prefix, 0)
           room == PageLimit - Cardinality(prefix)
           rest == FirstFew(After(memory, last), room)
           page == Merged(stored, memory)
<1>0. PageLimit \in Nat \ {0}
    BY ScenarioAssumption
<1>1. stored \in SUBSET (0..latest) /\ memory \in SUBSET (0..latest)
    OBVIOUS
<1>2. /\ prefix \subseteq stored /\ Cardinality(prefix) \in Nat
      /\ Cardinality(prefix) <= PageLimit
      /\ Cardinality(prefix) < PageLimit => prefix = stored
    BY <1>0, <1>1, FirstFewBound, FirstFewAll
<1>3. CASE Cardinality(prefix) >= PageLimit
    <2>1. page = prefix /\ Cardinality(prefix) = PageLimit
        BY <1>0, <1>2, <1>3 DEF Merged
    <2> QED
        BY <2>1, <1>2
<1>4. CASE ~(Cardinality(prefix) >= PageLimit)
    <2>1. prefix = stored /\ room \in Nat \ {0} /\ page = prefix \cup rest
        BY <1>0, <1>2, <1>4 DEF Merged
    <2>2. /\ prefix = {} => last = 0
          /\ prefix # {} => last \in prefix /\ \A x \in prefix : x <= last
        <3>1. prefix \in SUBSET (0..latest)
            BY <1>1, <1>2
        <3>2. prefix = {} => last = 0
            BY DEF Greatest
        <3> QED
            BY <3>1, <3>2, GreatestOfBounded
    <2>3. last \in Nat /\ last <= latest
        <3>1. CASE prefix = {}
            BY <3>1, <2>2
        <3>2. CASE prefix # {}
            <4>1. last \in stored
                BY <3>2, <2>2, <1>2
            <4> HIDE DEF last
            <4>2. last \in 0..latest
                BY <4>1
            <4> QED
                BY <4>2
        <3> QED
            BY <3>1, <3>2
    <2> DEFINE behind == After(memory, last)
    <2>4. behind \subseteq memory /\ \A x \in behind : x > last
        BY DEF After
    <2>5. behind \in SUBSET (0..latest)
        BY <2>4, <1>1
    <2>6. /\ rest \subseteq behind /\ Cardinality(rest) \in Nat
          /\ Cardinality(rest) <= room
          /\ Cardinality(rest) < room => rest = behind
        BY <2>1, <2>5, FirstFewBound, FirstFewAll
    <2> HIDE DEF last, rest, behind, room, prefix
    <2>7. page \subseteq (cursor + 1)..latest
        BY <2>1, <2>4, <2>6
    <2>8. ASSUME memory = {x \in (base + 1)..latest : x > cursor},
                 Cardinality(page) # PageLimit
          PROVE  Greatest(page, cursor) = latest
        <3>1. prefix \cap rest = {}
            <4>1. ASSUME NEW x \in prefix, x \in rest PROVE FALSE
                <5>1. x <= last /\ x > last
                    BY <4>1, <2>2, <2>4, <2>6
                <5>2. x \in Nat
                    BY <1>1, <2>1
                <5> QED
                    BY <5>1, <5>2, <2>3
            <4> QED
                BY <4>1
        <3>2. Cardinality(page) = Cardinality(prefix) + Cardinality(rest)
            <4>1. prefix \in SUBSET (0..latest) /\ rest \in SUBSET (0..latest)
                BY <1>1, <2>1, <2>5, <2>6
            <4>2. IsFiniteSet(prefix) /\ IsFiniteSet(rest)
                BY <4>1, BoundedIsFinite
            <4>3. Cardinality(prefix \cup rest)
                    = Cardinality(prefix) + Cardinality(rest) - Cardinality({})
                BY <4>2, <3>1, FS_Union
            <4> QED
                BY <4>3, <2>1, <2>6, <1>2, FS_EmptySet
        <3>3. rest = behind
            <4>1. Cardinality(rest) # room
                BY <2>8, <3>2, <1>0, <1>2, <2>6 DEF room
            <4> QED
                BY <4>1, <2>1, <2>6
        <3>4. CASE cursor = latest
            <4>1. page = {}
                BY <3>4, <2>7
            <4> QED
                BY <3>4, <4>1 DEF Greatest
        <3>5. CASE cursor < latest
            <4>1. latest \in page
                <5>1. CASE base = latest
                    BY <5>1, <3>5, <2>1
                <5>2. CASE base < latest
                    <6>1. latest \in memory
                        BY <5>2, <3>5, <2>8
                    <6>2. CASE last = latest
                        <7>1. prefix # {}
                            BY <6>2, <3>5, <2>2
                        <7> QED
                            BY <7>1, <6>2, <2>1, <2>2
                    <6>3. CASE last < latest
                        BY <6>1, <6>3, <3>3, <2>1 DEF behind, After
                    <6> QED
                        BY <6>2, <6>3, <2>3
                <5> QED
                    BY <5>1, <5>2
            <4>2. page \in SUBSET (0..latest)
                BY <2>7
            <4> HIDE DEF page
            <4> QED
                BY <4>1, <4>2, GreatestIs
        <3> QED
            BY <3>4, <3>5
    <2> QED
        BY <2>7, <2>8
<1> QED
    BY <1>3, <1>4

--------------------------------------------------------------------------------
(* Whatever waits for the driver is a message, and what it records are      *)
(* specs: the number of events only grows.                                 *)
Messages ==
    [kind : {"user_event"}, specs : Seq(Specs)]
    \cup [kind : {"result"}, node : Nodes, ok : BOOLEAN]

MailInv ==
    /\ attempt \in [Nodes -> Nat]
    /\ mailbox \in Seq(Messages)
    /\ todo \in Seq(Messages)
    /\ events \in Seq(Specs)

LEMMA ConstantSets ==
    ASSUME scenario' = scenario
    PROVE  /\ Nodes' = Nodes /\ Calls' = Calls /\ Specs' = Specs
           /\ Messages' = Messages /\ Callbacks' = Callbacks /\ Batches' = Batches
BY DEF Nodes, Calls, Specs, Messages, Callbacks, Batches

LEMMA MailTyped ==
    ASSUME MailInv, NEW messages \in Seq(Messages)
    PROVE  Mail(messages) \in Seq(Messages)
BY DEF Mail, MailInv

LEMMA FlushedTyped ==
    ASSUME NEW b \in Batches
    PROVE  Flushed(b) \in Seq(Messages) /\ Published(b) \in Seq(Messages)
<1>1. Events_(b.specs) \in Messages
    BY DEF Events_, Messages, Batches
<1>2. <<Events_(b.specs)>> \in Seq(Messages) /\ <<>> \in Seq(Messages)
    BY <1>1, Single
<1> QED
    BY <1>2 DEF Flushed, Published

LEMMA RecordedTyped ==
    ASSUME NEW specs \in Seq(Specs)
    PROVE  /\ Recorded(specs) \in Seq(Specs)
           /\ specs = <<>> => Recorded(specs) = <<>>
<1>1. ASSUME NEW i \in 1..Len(specs) PROVE Recorded(specs)[i] \in Specs
    <2>1. specs[i] \in Specs
        OBVIOUS
    <2>2. [specs[i] EXCEPT !.type = "user_event_mapping_failed"] \in Specs
        BY <2>1 DEF Specs, Types
    <2> QED
        BY <2>1, <2>2 DEF Recorded
<1>2. Recorded(specs) = [i \in 1..Len(specs) |-> Recorded(specs)[i]]
    BY DEF Recorded
<1>3. Len(specs) \in Nat
    OBVIOUS
<1>4. Recorded(specs) \in [1..Len(specs) -> Specs]
    BY <1>1, <1>2
<1>5. Recorded(specs) \in Seq(Specs)
    BY <1>3, <1>4
<1>6. specs = <<>> => Recorded(specs) = <<>>
    <2> SUFFICES ASSUME specs = <<>> PROVE Recorded(specs) = <<>>
        OBVIOUS
    <2>1. DOMAIN specs = 1..0
        OBVIOUS
    <2>2. Recorded(specs) \in [1..0 -> Specs]
        BY <2>1 DEF Recorded
    <2> QED
        BY <2>2
<1> QED
    BY <1>5, <1>6

(* The specs of the end of a node and of an Invocation.                    *)
LEMMA LastSpecs ==
    ASSUME MailInv
    PROVE  /\ \A n \in Nodes : <<Spec_(<<n, attempt[n]>>, 0, "output")>> \in Seq(Specs)
           /\ LastWords \in Seq(Specs)
<1>1. ASSUME NEW n \in Nodes, NEW type \in {"output", "agent_failed"}
      PROVE  <<Spec_(<<n, attempt[n]>>, 0, type)>> \in Seq(Specs)
    <2>1. Spec_(<<n, attempt[n]>>, 0, type) \in Specs
        BY DEF MailInv, Spec_, Specs, Types
    <2> QED
        BY <2>1, Single
<1>2. LastWords \in Seq(Specs)
    <2>1. CASE state = "failed" /\ \E n \in Nodes : scenario.nodes[n].message
        <3> DEFINE n == CHOOSE m \in Nodes : scenario.nodes[m].message
        <3>1. n \in Nodes
            BY <2>1
        <3>2. LastWords = <<Spec_(<<n, attempt[n]>>, 0, "agent_failed")>>
            BY <2>1 DEF LastWords
        <3> QED
            BY <3>1, <3>2, <1>1
    <2>2. CASE ~(state = "failed" /\ \E n \in Nodes : scenario.nodes[n].message)
        <3>1. LastWords = <<>>
            BY <2>2 DEF LastWords
        <3> QED
            BY <3>1
    <2> QED
        BY <2>1, <2>2
<1> QED
    BY <1>1, <1>2

LEMMA ConcludeTyped ==
    ASSUME IInv, MailInv, NEW c \in Calls, NEW ok \in BOOLEAN, Conclude(c, ok)
    PROVE  mailbox' \in Seq(Messages)
<1>1. Flushed(batch[c]) \in Seq(Messages)
    BY FlushedTyped DEF IInv, BatcherTypeOK
<1>2. <<Spec_(c, 0, Aborted)>> \in Seq(Specs)
    <2>1. c \in Nodes \X Nat
        BY ScenarioAssumption DEF Calls, Nodes, IInv, BatcherTypeOK
    <2>2. Spec_(c, 0, Aborted) \in Specs
        BY <2>1 DEF Spec_, Specs, Types
    <2> QED
        BY <2>2, Single
<1>3. <<Events_(<<Spec_(c, 0, Aborted)>>)>> \in Seq(Messages)
    <2>1. Events_(<<Spec_(c, 0, Aborted)>>) \in Messages
        BY <1>2 DEF Events_, Messages
    <2> QED
        BY <2>1, Single
<1> DEFINE last == IF ~ok /\ scenario.nodes[c[1]].message
                   THEN <<Events_(<<Spec_(c, 0, Aborted)>>)>> ELSE <<>>
<1>4. last \in Seq(Messages)
    BY <1>3
<1>5. mailbox' = Mail(Flushed(batch[c]) \o last)
    BY DEF Conclude
<1> HIDE DEF last
<1>6. Flushed(batch[c]) \o last \in Seq(Messages)
    BY <1>1, <1>4
<1> QED
    BY <1>5, <1>6, MailTyped

(* The loop and the handlers only add to the mailbox.                      *)
LEMMA MailGrowsTyped ==
    ASSUME IInv, MailInv,
           \/ HandlerStep \/ LoopStep
           \/ \E c \in Calls : EndStream(c, FALSE) \/ GiveUp(c)
    PROVE  MailInv'
<1>1. \A b \in Batches : Published(b) \in Seq(Messages) /\ Flushed(b) \in Seq(Messages)
    BY FlushedTyped
<1>2. ASSUME NEW c \in Calls, NextChunk(c) PROVE MailInv'
    <2>1. \/ mailbox' = mailbox
          \/ mailbox' = Mail(Published(Grown(batch[c], Mapped(c, position[c] + 1))))
        BY <1>2 DEF NextChunk
    <2>2. position[c] + 1 \in 1..Len(Chunks(c))
        <3>1. c[1] \in Nodes /\ Chunks(c) \in Seq(STRING)
            BY ScenarioAssumption DEF Calls, Chunks, Nodes, IInv, BatcherTypeOK
        <3> QED
            BY <1>2, <3>1 DEF NextChunk, IInv, BatcherTypeOK
    <2>3. Grown(batch[c], Mapped(c, position[c] + 1)) \in Batches
        BY <2>2, MappedSpecs, GrownBatch DEF IInv, BatcherTypeOK
    <2>4. mailbox' \in Seq(Messages)
        BY <2>1, <2>3, <1>1, MailTyped DEF MailInv
    <2> QED
        BY <1>2, <2>4, ConstantSets DEF NextChunk, MailInv, driverVars
<1>3. ASSUME NEW c \in Calls, Post(c) PROVE MailInv'
    BY <1>3, ConstantSets DEF Post, MailInv, driverVars
<1>4. ASSUME NEW c \in Calls, NEW ok \in BOOLEAN, EndStream(c, ok) PROVE MailInv'
    <2>1. mailbox' \in Seq(Messages)
        BY <1>4, ConcludeTyped DEF EndStream, MailInv
    <2> QED
        BY <1>4, <2>1, ConstantSets DEF EndStream, MailInv, driverVars
<1>5. ASSUME RunCallback PROVE MailInv'
    <2> DEFINE callback == Head(ready)
    <2>1. callback \in Callbacks
        BY <1>5, ToSetTail DEF RunCallback, IInv, BatcherTypeOK
    <2>2. CASE callback.do = "put" /\ mailbox' = Mail(<<callback.message>>)
        <3>1. callback.message \in Messages
            BY <2>1, <2>2 DEF Callbacks, Messages
        <3>2. <<callback.message>> \in Seq(Messages)
            BY <3>1, Single
        <3> QED
            BY <1>5, <2>2, <3>2, MailTyped, ConstantSets DEF RunCallback, MailInv, driverVars
    <2>3. CASE callback.do = "ended" /\ Conclude(callback.call, callback.ok)
        <3>1. callback.call \in Calls /\ callback.ok \in BOOLEAN
            BY <2>1, <2>3 DEF Callbacks
        <3>2. mailbox' \in Seq(Messages)
            BY <2>3, <3>1, ConcludeTyped
        <3> QED
            BY <1>5, <3>2, ConstantSets DEF RunCallback, MailInv, driverVars
    <2>4. CASE mailbox' = mailbox
        BY <1>5, <2>4, ConstantSets DEF RunCallback, MailInv, driverVars
    <2> QED
        BY <1>5, <2>2, <2>3, <2>4 DEF RunCallback
<1>6. ASSUME NEW c \in Calls, NEW g \in 1..batch[c].gen, FlushGeneration(c, g) PROVE MailInv'
    <2>1. mailbox' = mailbox \/ mailbox' = Mail(Flushed(batch[c]))
        BY <1>6 DEF FlushGeneration
    <2>2. mailbox' \in Seq(Messages)
        BY <2>1, <1>1, MailTyped DEF MailInv, IInv, BatcherTypeOK
    <2> QED
        BY <1>6, <2>2, ConstantSets DEF FlushGeneration, MailInv, driverVars
<1>7. ASSUME NEW c \in Calls, GiveUp(c) PROVE MailInv'
    <2>1. mailbox' \in Seq(Messages)
        BY <1>7, ConcludeTyped DEF GiveUp, MailInv
    <2> QED
        BY <1>7, <2>1, ConstantSets DEF GiveUp, MailInv, driverVars
<1>8. ASSUME NEW c \in Calls, CloseSource(c) PROVE MailInv'
    <2>1. mailbox' \in Seq(Messages)
        BY <1>8, ConcludeTyped DEF CloseSource, MailInv
    <2> QED
        BY <1>8, <2>1, ConstantSets DEF CloseSource, MailInv, driverVars
<1>9. ASSUME NEW n \in Nodes, ContinueTask(n) PROVE MailInv'
    <2>1. CASE UNCHANGED mailbox /\ attempt' = [attempt EXCEPT ![n] = @ + 1]
        <3>1. attempt' \in [Nodes -> Nat]
            BY <2>1 DEF MailInv
        <3>2. scenario' = scenario /\ todo' = todo /\ events' = events
            BY <1>9 DEF ContinueTask, driverVars
        <3> QED
            BY <2>1, <3>1, <3>2, ConstantSets DEF MailInv
    <2>2. CASE /\ UNCHANGED attempt
               /\ mailbox' = Mail(<<Result(n, task[n] = "succeeded" /\ drive # "abandon")>>)
        <3>1. Result(n, task[n] = "succeeded" /\ drive # "abandon") \in Messages
            BY DEF Result, Messages
        <3>2. mailbox' \in Seq(Messages)
            BY <2>2, <3>1, Single, MailTyped
        <3> QED
            BY <1>9, <2>2, <3>2, ConstantSets DEF ContinueTask, MailInv, driverVars
    <2> QED
        BY <1>9, <2>1, <2>2 DEF ContinueTask
<1> QED
    BY <1>2, <1>3, <1>4, <1>5, <1>6, <1>7, <1>8, <1>9 DEF HandlerStep, LoopStep

(* What is recorded.                                                       *)
LEMMA AppendTyped ==
    ASSUME MailInv, NEW specs \in Seq(Specs), Append_(specs)
    PROVE  /\ events' \in Seq(Specs) /\ Len(events') >= Len(events)
           /\ owed' \in BOOLEAN /\ (~owed' => events' = events)
<1>1. Recorded(specs) \in Seq(Specs) /\ (specs = <<>> => Recorded(specs) = <<>>)
    BY RecordedTyped
<1>2. events' = events \o Recorded(specs) /\ owed' = (specs # <<>>)
    BY DEF Append_
<1>3. events \in Seq(Specs)
    BY DEF MailInv
<1>4. events' \in Seq(Specs) /\ Len(events') >= Len(events)
    BY <1>1, <1>2, <1>3
<1>5. specs = <<>> => events' = events
    BY <1>1, <1>2, <1>3
<1> QED
    BY <1>2, <1>4, <1>5

--------------------------------------------------------------------------------
(* The follower.  It is quiet when no notification is due or on its way;    *)
(* nothing can have been recorded between two states in which it is.        *)
Quiet == ~follower.changed /\ ~follower.wake /\ ~owed
AtEnd == {"close", "closed", "settled"}

FollowerTypeOK ==
    /\ follower \in [at : {"none", "clear", "list", "load", "latest", "detail",
                           "wait", "ended"},
                     changed : BOOLEAN, wake : BOOLEAN, cursor : Nat,
                     page : SUBSET Nat, snap : SUBSET Nat, live : Nat,
                     full : BOOLEAN, got : SUBSET Nat]
    /\ owed \in BOOLEAN
    /\ committed \in 0..Len(events)

(* It never is ahead of what was recorded.                                 *)
WithinEvents ==
    /\ follower.cursor <= Latest
    /\ follower.at = "load" =>
          scenario.past # <<>> /\ follower.snap \subseteq (follower.cursor + 1)..Latest
    /\ follower.at = "latest" => follower.page \subseteq (follower.cursor + 1)..Latest

(* While it is quiet, what it holds leads to the latest event.              *)
LeadsToLatest ==
    Quiet =>
      /\ follower.at = "load" =>
            follower.snap = {x \in (Base + 1)..Latest : x > follower.cursor}
      /\ follower.at = "latest" /\ Cardinality(follower.page) # PageLimit =>
            Greatest(follower.page, follower.cursor) = Latest
      /\ follower.at = "detail" /\ ~follower.full =>
            follower.cursor = Latest /\ follower.live = Latest

EndIsTerminal == drive \in AtEnd => Terminal

FInv == FollowerTypeOK /\ WithinEvents /\ LeadsToLatest /\ EndIsTerminal /\ NoLostWakeup

(* The past.                                                               *)
LEMMA PastNumbers ==
    ASSUME scenario \in Scenarios
    PROVE  /\ Base \in Nat /\ ToSet(scenario.past) \subseteq 1..Base
           /\ scenario.past # <<>> => Base \in ToSet(scenario.past)
<1> DEFINE past == scenario.past
<1>1. /\ past \in Seq(Nat \ {0})
      /\ \A i, j \in DOMAIN past : i < j => past[i] < past[j]
    BY ScenarioAssumption
<1> HIDE DEF past
<1>2. CASE past = <<>>
    BY <1>2 DEF Base, ToSet, past
<1>3. CASE past # <<>>
    <2>1. Len(past) \in DOMAIN past /\ DOMAIN past = 1..Len(past)
        BY <1>1, <1>3
    <2>2. Base = past[Len(past)]
        BY <1>3 DEF Base, Last, past
    <2>3. Base \in Nat
        BY <1>1, <2>1, <2>2
    <2>4. ASSUME NEW i \in DOMAIN past PROVE past[i] \in 1..Base
        <3>1. past[i] \in Nat \ {0}
            BY <1>1
        <3>2. i = Len(past) \/ i < Len(past)
            BY <2>1
        <3>3. past[i] <= Base
            BY <1>1, <2>1, <2>2, <2>3, <3>1, <3>2
        <3> QED
            BY <2>3, <3>1, <3>3
    <2> QED
        BY <2>1, <2>2, <2>3, <2>4 DEF ToSet, past
<1> QED
    BY <1>2, <1>3

LEMMA LatestTyped ==
    ASSUME scenario \in Scenarios, MailInv
    PROVE  Base \in Nat /\ Latest \in Nat /\ Base <= Latest /\ Latest = Base + Len(events)
           /\ Len(events) \in Nat
BY PastNumbers DEF Latest, MailInv

(* Steps that leave the follower alone.                                    *)
LEMMA BesideFollower ==
    ASSUME IInv, MailInv, FInv, scenario' = scenario, follower' = follower,
           events' \in Seq(Specs), Len(events') >= Len(events),
           owed' \in BOOLEAN, committed' \in 0..Len(events'),
           ~owed' => ~owed /\ events' = events,
           ~owed' /\ drive' = "settled" => drive = "settled",
           drive' \in AtEnd => Terminal'
    PROVE  FInv'
<1>1. Base' = Base /\ Base \in Nat /\ Latest \in Nat
    BY LatestTyped DEF Base, IInv, BatcherTypeOK
<1>2. Latest' \in Nat /\ Latest <= Latest' /\ (~owed' => Latest' = Latest)
    BY <1>1 DEF Latest, MailInv
<1>3. Quiet' => Quiet
    BY DEF Quiet
<1>4. FollowerTypeOK'
    BY DEF FInv, FollowerTypeOK
<1>5. WithinEvents'
    <2>1. \A x \in Nat : (x + 1)..Latest \subseteq (x + 1)..(Latest')
        BY <1>1, <1>2
    <2>2. follower.cursor \in Nat
        BY DEF FInv, FollowerTypeOK
    <2> QED
        BY <1>1, <1>2, <2>1, <2>2 DEF FInv, WithinEvents
<1>6. LeadsToLatest'
    <2> SUFFICES ASSUME Quiet' PROVE LeadsToLatest'
        BY DEF LeadsToLatest
    <2>1. Latest' = Latest /\ Quiet
        BY <1>2, <1>3 DEF Quiet
    <2> QED
        BY <1>1, <2>1 DEF FInv, LeadsToLatest
<1>7. EndIsTerminal'
    BY DEF EndIsTerminal
<1>8. NoLostWakeup'
    <2> SUFFICES ASSUME follower.at = "wait", ~follower.changed, ~follower.wake, ~owed',
                        ~follower.full
                 PROVE  follower.cursor = Latest' /\ drive' # "settled"
        BY DEF NoLostWakeup
    <2>1. follower.cursor = Latest /\ drive # "settled"
        BY DEF FInv, NoLostWakeup
    <2> QED
        BY <1>2, <2>1
<1> QED
    BY <1>4, <1>5, <1>6, <1>7, <1>8 DEF FInv

(* Steps that leave everything a follower sees alone.                      *)
LEMMA UnseenPreserves ==
    ASSUME IInv, MailInv, FInv,
           UNCHANGED <<scenario, follower, events, owed, committed, drive, state>>
    PROVE  FInv'
<1>1. events \in Seq(Specs) /\ Len(events) \in Nat
    BY DEF MailInv
<1>2. owed \in BOOLEAN /\ committed \in 0..Len(events) /\ (drive \in AtEnd => Terminal)
    BY DEF FInv, FollowerTypeOK, EndIsTerminal
<1>3. Terminal' <=> Terminal
    BY DEF Terminal
<1> QED
    BY <1>1, <1>2, <1>3, BesideFollower

(* The driver takes, records and announces.                                *)
LEMMA DriverPreserves ==
    ASSUME IInv, MailInv, FInv, DriverStep \/ CancelInvocation
    PROVE  MailInv' /\ FInv'
<1>0. /\ events \in Seq(Specs) /\ todo \in Seq(Messages) /\ mailbox \in Seq(Messages)
      /\ Len(events) \in Nat /\ owed \in BOOLEAN /\ committed \in 0..Len(events)
    BY DEF MailInv, FInv, FollowerTypeOK
<1>1. ASSUME Take \/ SkipResult PROVE MailInv' /\ FInv'
    <2>1. todo' \in Seq(Messages) /\ mailbox' \in Seq(Messages)
        BY <1>0, <1>1, ToSetTail DEF Take, SkipResult
    <2>2. UNCHANGED <<scenario, attempt, follower, events, owed, committed, drive, state>>
        BY <1>1 DEF Take, SkipResult
    <2> QED
        BY <2>1, <2>2, ConstantSets, UnseenPreserves DEF MailInv
<1>2. ASSUME RecordUserEvents PROVE MailInv' /\ FInv'
    <2>1. Head(todo) \in Messages /\ todo' \in Seq(Messages)
        BY <1>0, <1>2, ToSetTail DEF RecordUserEvents
    <2>2. Head(todo).specs \in Seq(Specs)
        BY <1>2, <2>1 DEF RecordUserEvents, IsEvents, Messages
    <2>3. /\ events' \in Seq(Specs) /\ Len(events') >= Len(events)
          /\ owed' \in BOOLEAN /\ (~owed' => events' = events)
        BY <1>2, <2>2, AppendTyped DEF RecordUserEvents
    <2>4. UNCHANGED <<scenario, attempt, mailbox, follower, committed, drive, state>> /\ ~owed
        BY <1>2 DEF RecordUserEvents
    <2>5. MailInv'
        BY <2>1, <2>3, <2>4, ConstantSets DEF MailInv
    <2>6. committed' \in 0..Len(events') /\ (drive' \in AtEnd => Terminal')
        <3>1. Len(events') \in Nat
            BY <2>3
        <3> QED
            BY <1>0, <2>3, <2>4, <3>1 DEF FInv, EndIsTerminal, Terminal
    <2> QED
        BY <2>3, <2>4, <2>5, <2>6, BesideFollower
<1>3. ASSUME Notify PROVE MailInv' /\ FInv'
    <2>1. /\ owed /\ owed' = FALSE
          /\ follower' = [follower EXCEPT !.wake = follower.at \notin {"none", "ended"}]
          /\ UNCHANGED <<scenario, attempt, mailbox, todo, events, committed, drive, state>>
        BY <1>3 DEF Notify, driverVars
    <2>2. MailInv'
        BY <2>1, ConstantSets DEF MailInv
    <2>3. /\ follower'.at = follower.at /\ follower'.changed = follower.changed
          /\ follower'.cursor = follower.cursor /\ follower'.page = follower.page
          /\ follower'.snap = follower.snap /\ follower'.live = follower.live
          /\ follower'.wake = (follower.at \notin {"none", "ended"})
        BY <2>1 DEF FInv, FollowerTypeOK
    <2>4. FollowerTypeOK'
        BY <2>1 DEF FInv, FollowerTypeOK
    <2>5. WithinEvents' /\ EndIsTerminal'
        BY <2>1, <2>3 DEF FInv, WithinEvents, EndIsTerminal, Latest, Base, Terminal
    <2>6. LeadsToLatest' /\ NoLostWakeup'
        BY <2>1, <2>3 DEF LeadsToLatest, NoLostWakeup, Quiet
    <2> QED
        BY <2>2, <2>4, <2>5, <2>6 DEF FInv
<1>4. ASSUME ApplyResult PROVE MailInv' /\ FInv'
    <2>1. Head(todo) \in Messages /\ todo' \in Seq(Messages)
        BY <1>0, <1>4, ToSetTail DEF ApplyResult
    <2>2. Head(todo).node \in Nodes
        BY <1>4, <2>1 DEF ApplyResult, IsEvents, Messages
    <2>3. UNCHANGED <<scenario, attempt, mailbox, follower, committed, drive, state>> /\ ~owed
        BY <1>4 DEF ApplyResult
    <2>4. /\ events' \in Seq(Specs) /\ Len(events') >= Len(events)
          /\ owed' \in BOOLEAN /\ (~owed' => events' = events)
        <3>1. CASE Append_(<<Spec_(<<Head(todo).node, attempt[Head(todo).node]>>, 0, "output")>>)
            BY <2>2, <3>1, LastSpecs, AppendTyped
        <3>2. CASE UNCHANGED <<events, owed>>
            BY <1>0, <3>2
        <3> QED
            BY <1>4, <3>1, <3>2 DEF ApplyResult
    <2>5. MailInv'
        BY <2>1, <2>3, <2>4, ConstantSets DEF MailInv
    <2>6. committed' \in 0..Len(events') /\ (drive' \in AtEnd => Terminal')
        <3>1. Len(events') \in Nat
            BY <2>4
        <3> QED
            BY <1>0, <2>3, <2>4, <3>1 DEF FInv, EndIsTerminal, Terminal
    <2> QED
        BY <2>3, <2>4, <2>5, <2>6, BesideFollower
<1>5. ASSUME FailInvocation \/ CancelInvocation \/ AbandonWork \/ Complete \/ RecordEnd \/ Settle
      PROVE  MailInv' /\ FInv'
    <2>1. /\ UNCHANGED <<scenario, attempt, follower, events, committed>>
          /\ todo' \in {todo, mailbox, <<>>} /\ mailbox' \in {mailbox, <<>>}
        BY <1>5 DEF FailInvocation, CancelInvocation, AbandonWork, Complete, RecordEnd, Settle
    <2>2. /\ owed' \in BOOLEAN /\ (~owed' => ~owed)
          /\ ~owed' /\ drive' = "settled" => drive = "settled"
        BY <1>0, <1>5 DEF FailInvocation, CancelInvocation, AbandonWork, Complete, RecordEnd, Settle
    <2>3. drive' \in AtEnd => Terminal'
        BY <1>5 DEF FailInvocation, CancelInvocation, AbandonWork, Complete, RecordEnd, Settle,
                    FInv, EndIsTerminal, AtEnd, Terminal
    <2>4. MailInv'
        <3>1. <<>> \in Seq(Messages)
            OBVIOUS
        <3>2. todo' \in Seq(Messages) /\ mailbox' \in Seq(Messages)
            BY <1>0, <2>1, <3>1
        <3> QED
            BY <2>1, <3>2, ConstantSets DEF MailInv
    <2> QED
        BY <1>0, <2>1, <2>2, <2>3, <2>4, BesideFollower
<1>6. ASSUME Close PROVE MailInv' /\ FInv'
    <2>1. UNCHANGED <<scenario, attempt, mailbox, todo, follower, committed, state>>
        BY <1>6 DEF Close
    <2>2. drive = "close" /\ ~owed /\ drive' = "closed" /\ Append_(LastWords)
        BY <1>6 DEF Close
    <2>3. /\ events' \in Seq(Specs) /\ Len(events') >= Len(events)
          /\ owed' \in BOOLEAN /\ (~owed' => events' = events)
        BY <2>2, LastSpecs, AppendTyped
    <2>4. MailInv'
        BY <2>1, <2>3, ConstantSets DEF MailInv
    <2>5. committed' \in 0..Len(events') /\ Terminal'
        <3>1. Len(events') \in Nat
            BY <2>3
        <3> QED
            BY <1>0, <2>1, <2>2, <2>3, <3>1 DEF FInv, EndIsTerminal, AtEnd, Terminal
    <2> QED
        BY <2>1, <2>2, <2>3, <2>4, <2>5, BesideFollower
<1> QED
    BY <1>1, <1>2, <1>3, <1>4, <1>5, <1>6 DEF DriverStep

(* The follower reads, and waits.                                          *)
LEMMA FollowerPreserves ==
    ASSUME IInv, MailInv, FInv, FollowerStep \/ Heartbeat
    PROVE  MailInv' /\ FInv'
<1>0. /\ scenario \in Scenarios /\ UNCHANGED <<scenario, events, owed, committed, drive, state>>
      /\ MailInv'
    <2>1. OnlyFollower
        BY DEF FollowerStep, Wake, Clear, ListUserEvents, LoadUserEvents, SendPage,
               ReadDetail, Continue, Heartbeat
    <2> QED
        BY <2>1, ConstantSets DEF OnlyFollower, driverVars, MailInv, IInv, BatcherTypeOK
<1>1. /\ Base' = Base /\ Latest' = Latest /\ EndIsTerminal'
      /\ Base \in Nat /\ Latest \in Nat /\ Base <= Latest
      /\ Latest = Base + Len(events) /\ Len(events) \in Nat
    BY <1>0, LatestTyped DEF Base, Latest, FInv, EndIsTerminal, Terminal
<1>2. /\ follower.cursor \in Nat /\ follower.cursor <= Latest /\ FollowerTypeOK
      /\ follower.page \in SUBSET Nat /\ follower.snap \in SUBSET Nat /\ follower.live \in Nat
    BY DEF FInv, FollowerTypeOK, WithinEvents
<1>3. ASSUME Wake \/ Clear \/ Continue \/ Heartbeat PROVE FInv'
    <2>1. /\ FollowerTypeOK'
          /\ \/ follower'.at \in {"clear", "list"}
             \/ follower'.changed /\ follower'.at = follower.at
          /\ follower'.cursor = follower.cursor /\ follower'.page = follower.page
          /\ follower'.snap = follower.snap
        BY <1>0, <1>2, <1>3 DEF Wake, Clear, Continue, Heartbeat, FollowerTypeOK
    <2>2. WithinEvents'
        BY <1>0, <1>1, <2>1 DEF FInv, WithinEvents
    <2>3. LeadsToLatest' /\ NoLostWakeup'
        BY <2>1 DEF LeadsToLatest, NoLostWakeup, Quiet
    <2> QED
        BY <1>1, <2>1, <2>2, <2>3 DEF FInv
<1>4. ASSUME ListUserEvents PROVE FInv'
    <2> DEFINE values == After(InMemory, follower.cursor)
    <2>1. values = {x \in (Base + 1)..Latest : x > follower.cursor}
        BY DEF After, InMemory
    <2>2. /\ values \subseteq (follower.cursor + 1)..Latest /\ values \in SUBSET (0..Latest)
          /\ values \in SUBSET Nat
        BY <1>1, <1>2, <2>1
    <2> HIDE DEF values
    <2>3. CASE NeedsPrefix
        <3>1. follower' = [follower EXCEPT !.at = "load", !.snap = values]
            BY <1>4, <2>3 DEF ListUserEvents, values
        <3>2. /\ FollowerTypeOK' /\ follower'.at = "load" /\ follower'.snap = values
              /\ follower'.cursor = follower.cursor
            BY <1>0, <1>2, <2>2, <3>1 DEF FollowerTypeOK
        <3>3. WithinEvents'
            BY <1>0, <1>1, <1>2, <2>2, <2>3, <3>2 DEF WithinEvents, NeedsPrefix
        <3>4. LeadsToLatest' /\ NoLostWakeup'
            BY <1>1, <2>1, <3>2 DEF LeadsToLatest, NoLostWakeup
        <3> QED
            BY <1>1, <3>2, <3>3, <3>4 DEF FInv
    <2>4. CASE ~NeedsPrefix
        <3> DEFINE page == FirstFew(values, PageLimit)
        <3>1. follower' = [follower EXCEPT !.at = "latest", !.page = page]
            BY <1>4, <2>4 DEF ListUserEvents, values
        <3>2. /\ page \subseteq values /\ Cardinality(page) \in Nat
              /\ Cardinality(page) <= PageLimit /\ PageLimit \in Nat
              /\ Cardinality(page) < PageLimit => page = values
            BY <1>1, <2>2, FirstFewBound, FirstFewAll, ScenarioAssumption
        <3>3. Base <= follower.cursor
            <4>1. CASE scenario.past = <<>>
                BY <4>1, <1>2 DEF Base
            <4>2. CASE scenario.past # <<>>
                BY <4>2, <2>4, <1>1, <1>2 DEF NeedsPrefix
            <4> QED
                BY <4>1, <4>2
        <3>4. Cardinality(page) # PageLimit => Greatest(page, follower.cursor) = Latest
            <4> SUFFICES ASSUME Cardinality(page) # PageLimit
                         PROVE  Greatest(page, follower.cursor) = Latest
                OBVIOUS
            <4>1. page = values
                BY <3>2
            <4>2. Latest \in values \/ (values = {} /\ follower.cursor = Latest)
                BY <1>1, <1>2, <2>1, <3>3
            <4> QED
                BY <4>1, <4>2, <1>1, <1>2, <2>2, GreatestIs
        <3>0. page \in SUBSET Nat
            BY <2>2, <3>2
        <3> HIDE DEF page
        <3>5. /\ FollowerTypeOK' /\ follower'.at = "latest" /\ follower'.page = page
              /\ follower'.cursor = follower.cursor
            BY <1>0, <1>2, <3>0, <3>1 DEF FollowerTypeOK
        <3>6. WithinEvents'
            BY <1>1, <1>2, <2>2, <3>2, <3>5 DEF WithinEvents
        <3>7. LeadsToLatest' /\ NoLostWakeup'
            BY <1>1, <3>4, <3>5 DEF LeadsToLatest, NoLostWakeup
        <3> QED
            BY <1>1, <3>5, <3>6, <3>7 DEF FInv
    <2> QED
        BY <2>3, <2>4
<1>5. ASSUME LoadUserEvents PROVE FInv'
    <2> DEFINE stored == After(Stored, follower.cursor)
               page == Merged(stored, follower.snap)
    <2>1. follower.at = "load" /\ follower' = [follower EXCEPT !.at = "latest", !.snap = {}, !.page = page]
        BY <1>5 DEF LoadUserEvents
    <2>2. scenario.past # <<>> /\ follower.snap \subseteq (follower.cursor + 1)..Latest
        BY <2>1 DEF FInv, WithinEvents
    <2>3. Stored \subseteq 1..Latest /\ Base \in Stored
        <3>1. ToSet(scenario.past) \subseteq 1..Base /\ Base \in ToSet(scenario.past)
            BY <1>0, <2>2, PastNumbers
        <3>2. \A j \in 1..committed : Base + j \in 1..Latest
            BY <1>1, <1>2 DEF FollowerTypeOK
        <3> QED
            BY <1>1, <3>1, <3>2 DEF Stored
    <2>4. /\ stored \in SUBSET ((follower.cursor + 1)..Latest)
          /\ Base > follower.cursor => Base \in stored
        <3>1. \A x \in Stored : x > follower.cursor => x \in (follower.cursor + 1)..Latest
            BY <1>1, <1>2, <2>3
        <3> QED
            BY <2>3, <3>1 DEF After
    <2>5. Quiet => follower.snap = {x \in (Base + 1)..Latest : x > follower.cursor}
        BY <2>1 DEF FInv, LeadsToLatest
    <2> HIDE DEF stored
    <2>6. /\ page \subseteq (follower.cursor + 1)..Latest
          /\ Quiet /\ Cardinality(page) # PageLimit => Greatest(page, follower.cursor) = Latest
        <3>1. follower.snap \in SUBSET ((follower.cursor + 1)..Latest)
            BY <2>2
        <3>2. /\ page \subseteq (follower.cursor + 1)..Latest
              /\ follower.snap = {x \in (Base + 1)..Latest : x > follower.cursor} =>
                    \/ Cardinality(page) = PageLimit
                    \/ Greatest(page, follower.cursor) = Latest
            BY <1>1, <1>2, <2>4, <3>1, MergedReaches
        <3> QED
            BY <2>5, <3>2
    <2>10. page \in SUBSET Nat
        BY <1>1, <1>2, <2>6
    <2> HIDE DEF page
    <2>7. /\ FollowerTypeOK' /\ follower'.at = "latest" /\ follower'.page = page
          /\ follower'.cursor = follower.cursor
          /\ follower'.changed = follower.changed /\ follower'.wake = follower.wake
        BY <1>0, <1>2, <2>1, <2>10 DEF FollowerTypeOK
    <2>8. WithinEvents'
        BY <1>1, <1>2, <2>6, <2>7 DEF WithinEvents
    <2>9. LeadsToLatest' /\ NoLostWakeup'
        BY <1>0, <1>1, <2>6, <2>7 DEF LeadsToLatest, NoLostWakeup, Quiet
    <2> QED
        BY <1>1, <2>7, <2>8, <2>9 DEF FInv
<1>6. ASSUME SendPage PROVE FInv'
    <2> DEFINE cursor == Greatest(follower.page, follower.cursor)
    <2>1. /\ follower.at = "latest"
          /\ follower' = [follower EXCEPT !.at = "detail", !.live = Latest, !.page = {},
                              !.cursor = cursor,
                              !.full = Cardinality(follower.page) = PageLimit,
                              !.got = @ \cup follower.page]
        BY <1>6 DEF SendPage
    <2>2. follower.page \in SUBSET (0..Latest)
        BY <1>1, <1>2, <2>1 DEF FInv, WithinEvents
    <2>3. cursor \in Nat /\ cursor <= Latest
        <3>1. CASE follower.page = {}
            BY <3>1, <1>2 DEF Greatest
        <3>2. CASE follower.page # {}
            <4>1. cursor \in follower.page
                BY <1>1, <2>2, <3>2, GreatestOfBounded
            <4> QED
                BY <1>1, <2>2, <4>1
        <3> QED
            BY <3>1, <3>2
    <2>4. Quiet /\ Cardinality(follower.page) # PageLimit => cursor = Latest
        BY <2>1 DEF FInv, LeadsToLatest
    <2> HIDE DEF cursor
    <2>5. /\ FollowerTypeOK' /\ follower'.at = "detail" /\ follower'.cursor = cursor
          /\ follower'.live = Latest /\ follower'.changed = follower.changed
          /\ follower'.wake = follower.wake
          /\ follower'.full = (Cardinality(follower.page) = PageLimit)
        BY <1>0, <1>1, <1>2, <2>1, <2>3 DEF FollowerTypeOK
    <2>6. WithinEvents'
        BY <1>1, <2>3, <2>5 DEF WithinEvents
    <2>7. LeadsToLatest' /\ NoLostWakeup'
        BY <1>0, <1>1, <2>4, <2>5 DEF LeadsToLatest, NoLostWakeup, Quiet
    <2> QED
        BY <1>1, <2>5, <2>6, <2>7 DEF FInv
<1>7. ASSUME ReadDetail PROVE FInv'
    <2> DEFINE ends == Terminal /\ follower.cursor >= follower.live
    <2>1. /\ follower.at = "detail"
          /\ follower' = [follower EXCEPT !.live = 0, !.at = IF ends THEN "ended" ELSE "wait"]
        BY <1>7 DEF ReadDetail
    <2>2. Quiet /\ ~follower.full => follower.cursor = Latest /\ follower.live = Latest
        BY <2>1 DEF FInv, LeadsToLatest
    <2>3. drive = "settled" => Terminal
        BY DEF FInv, EndIsTerminal, AtEnd
    <2>4. Quiet /\ ~follower.full /\ ~ends => follower.cursor = Latest /\ drive # "settled"
        BY <1>1, <2>2, <2>3
    <2> HIDE DEF ends
    <2>5. /\ FollowerTypeOK' /\ follower'.at \in {"ended", "wait"}
          /\ follower'.at = "wait" => ~ends
          /\ follower'.cursor = follower.cursor /\ follower'.changed = follower.changed
          /\ follower'.wake = follower.wake /\ follower'.full = follower.full
        BY <1>0, <1>2, <2>1 DEF FollowerTypeOK
    <2>6. WithinEvents' /\ LeadsToLatest'
        BY <1>1, <1>2, <2>5 DEF WithinEvents, LeadsToLatest
    <2>7. NoLostWakeup'
        BY <1>0, <1>1, <2>4, <2>5 DEF NoLostWakeup, Quiet
    <2> QED
        BY <1>1, <2>5, <2>6, <2>7 DEF FInv
<1> QED
    BY <1>0, <1>3, <1>4, <1>5, <1>6, <1>7 DEF FollowerStep

LEMMA InitFollows == Init => MailInv /\ FInv
<1> SUFFICES ASSUME Init PROVE MailInv /\ FInv
    OBVIOUS
<1>1. scenario \in Scenarios /\ Base \in Nat /\ Latest = Base + Len(events) /\ events = <<>>
    BY PastNumbers DEF Init, Latest
<1>2. MailInv
    BY DEF Init, MailInv
<1>3. FollowerTypeOK
    <2>1. committed \in 0..Len(events) /\ owed \in BOOLEAN
        <3>1. committed = 0 /\ owed = FALSE /\ events = <<>>
            BY DEF Init
        <3>2. Len(events) = 0
            BY <3>1
        <3>3. 0 \in 0..0 /\ FALSE \in BOOLEAN
            OBVIOUS
        <3> QED
            BY <3>1, <3>2, <3>3
    <2>2. PICK at \in {"none", "clear"} :
             follower = [at |-> at, changed |-> FALSE, wake |-> FALSE, cursor |-> 0,
                         page |-> {}, snap |-> {}, live |-> 0, full |-> FALSE, got |-> {}]
        BY DEF Init
    <2> QED
        BY <2>1, <2>2 DEF FollowerTypeOK
<1>4. follower.at \in {"none", "clear"} /\ follower.cursor = 0 /\ follower.cursor <= Latest
    BY <1>1 DEF Init
<1>5. WithinEvents /\ LeadsToLatest /\ NoLostWakeup
    BY <1>4 DEF WithinEvents, LeadsToLatest, NoLostWakeup
<1>6. EndIsTerminal
    BY DEF Init, EndIsTerminal, AtEnd
<1> QED
    BY <1>2, <1>3, <1>5, <1>6 DEF FInv

(* What the loop, the handlers and a caller who gives up do is unseen.      *)
LEMMA WorkIsUnseen ==
    ASSUME \/ HandlerStep \/ LoopStep
           \/ \E c \in Calls : EndStream(c, FALSE) \/ GiveUp(c)
    PROVE  UNCHANGED <<scenario, follower, events, owed, committed, drive, state>>
<1>1. ASSUME HandlerStep PROVE UNCHANGED <<scenario, follower, events, owed, committed, drive, state>>
    BY <1>1 DEF HandlerStep, NextChunk, Post, EndStream, driverVars
<1>2. ASSUME LoopStep PROVE UNCHANGED <<scenario, follower, events, owed, committed, drive, state>>
    BY <1>2 DEF LoopStep, RunCallback, FlushGeneration, CloseSource, ContinueTask, driverVars
<1>3. ASSUME \E c \in Calls : EndStream(c, FALSE) \/ GiveUp(c)
      PROVE  UNCHANGED <<scenario, follower, events, owed, committed, drive, state>>
    BY <1>3 DEF EndStream, GiveUp, driverVars
<1> QED
    BY <1>1, <1>2, <1>3

LEMMA NextFollows == IInv /\ MailInv /\ FInv /\ [Next]_vars => MailInv' /\ FInv'
<1> SUFFICES ASSUME IInv, MailInv, FInv, [Next]_vars PROVE MailInv' /\ FInv'
    OBVIOUS
<1>1. ASSUME \/ HandlerStep \/ LoopStep
             \/ \E c \in Calls : EndStream(c, FALSE) \/ GiveUp(c)
      PROVE  MailInv' /\ FInv'
    BY <1>1, MailGrowsTyped, WorkIsUnseen, UnseenPreserves
<1>2. ASSUME DriverStep \/ CancelInvocation PROVE MailInv' /\ FInv'
    BY <1>2, DriverPreserves
<1>3. ASSUME FollowerStep \/ Heartbeat PROVE MailInv' /\ FInv'
    BY <1>3, FollowerPreserves
<1>4. ASSUME Commit PROVE MailInv' /\ FInv'
    <2>1. UNCHANGED <<scenario, attempt, mailbox, todo, follower, events, owed, drive, state>>
        BY <1>4 DEF Commit, driverVars
    <2>2. committed' \in 0..Len(events')
        BY <1>4, <2>1 DEF Commit, FInv, FollowerTypeOK, MailInv
    <2>3. MailInv'
        BY <2>1, ConstantSets DEF MailInv
    <2>4. events' \in Seq(Specs) /\ Len(events') >= Len(events) /\ owed' \in BOOLEAN
        BY <2>1 DEF MailInv, FInv, FollowerTypeOK
    <2>5. drive' \in AtEnd => Terminal'
        BY <2>1 DEF FInv, EndIsTerminal, Terminal
    <2> QED
        BY <2>1, <2>2, <2>3, <2>4, <2>5, BesideFollower
<1>5. ASSUME UNCHANGED vars PROVE MailInv' /\ FInv'
    <2>1. UNCHANGED <<scenario, attempt, mailbox, todo, follower, events, owed, committed, drive, state>>
        BY <1>5 DEF vars, driverVars
    <2> QED
        BY <2>1, ConstantSets, UnseenPreserves DEF MailInv
<1> QED
    BY <1>1, <1>2, <1>3, <1>4, <1>5 DEF Next

--------------------------------------------------------------------------------
(* "no wakeup can be lost" (server/app.py:862-864), for any number of       *)
(* events, any past in the database and any limit of a page: a follower     *)
(* that waits with no notification on its way, its last page not being      *)
(* full, has everything that was recorded, of an Invocation that was not    *)
(* settled.                                                                *)
THEOREM WakeupsArrive == StreamSpec => []NoLostWakeup
<1>1. Init => IInv /\ MailInv /\ FInv
    BY InitEstablishes, InitFollows
<1>2. IInv /\ MailInv /\ FInv /\ [Next]_vars => (IInv /\ MailInv /\ FInv)'
    BY NextPreserves, NextFollows
<1>3. IInv /\ MailInv /\ FInv => NoLostWakeup
    BY DEF FInv
<1> QED
    BY <1>1, <1>2, <1>3, PTL DEF StreamSpec
--------------------------------------------------------------------------------
(* What a follower is sent.  Wanted: what it must have been sent once its   *)
(* cursor has passed it.                                                   *)
Wanted ==
    ToSet(scenario.past) \cup
    {Base + i : i \in {j \in DOMAIN events : scenario.past = <<>> \/ Durable(events[j].type)}}

GotExact ==
    /\ follower.got \subseteq 1..follower.cursor
    /\ \A x \in Wanted : x <= follower.cursor => x \in follower.got

(* A page leaves out nothing it should have on its way to its last event;   *)
(* what was read of memory is an interval behind the cursor and the base.   *)
PageWhole ==
    follower.at = "latest" =>
        \A x \in Wanted :
            follower.cursor < x /\ x <= Greatest(follower.page, follower.cursor) =>
                x \in follower.page
SnapWhole ==
    follower.at = "load" =>
        \A x \in follower.snap, y \in Nat :
            Base < y /\ follower.cursor < y /\ y <= x => y \in follower.snap

GInv == GotExact /\ PageWhole /\ SnapWhole

LEMMA WantedIs ==
    ASSUME scenario \in Scenarios, MailInv
    PROVE  /\ Wanted \subseteq 1..Latest
           /\ \A x \in Wanted : x <= Base => x \in ToSet(scenario.past)
           /\ scenario.past = <<>> => Base = 0
<1>1. /\ Base \in Nat /\ ToSet(scenario.past) \subseteq 1..Base /\ Latest = Base + Len(events)
      /\ Len(events) \in Nat /\ DOMAIN events = 1..Len(events)
    BY PastNumbers, LatestTyped DEF MailInv
<1>2. scenario.past = <<>> => Base = 0
    BY DEF Base
<1>3. ASSUME NEW x \in Wanted
      PROVE  x \in 1..Latest /\ (x <= Base => x \in ToSet(scenario.past))
    <2>1. CASE x \in ToSet(scenario.past)
        BY <1>1, <2>1
    <2>2. CASE x \notin ToSet(scenario.past)
        <3>1. PICK i \in 1..Len(events) : x = Base + i
            BY <1>1, <1>3, <2>2 DEF Wanted
        <3> QED
            BY <1>1, <3>1
    <2> QED
        BY <2>1, <2>2
<1> QED
    BY <1>2, <1>3

(* What is recorded later has a greater number.                            *)
LEMMA WantedGrows ==
    ASSUME scenario \in Scenarios, MailInv, MailInv', scenario' = scenario,
           \A i \in DOMAIN events : i \in DOMAIN events' /\ events'[i] = events[i]
    PROVE  \A x \in Wanted' : x \in Nat /\ (x \in Wanted \/ x > Latest)
<1>1. /\ Base \in Nat /\ Base' = Base /\ Latest = Base + Len(events) /\ Len(events) \in Nat
      /\ DOMAIN events = 1..Len(events) /\ DOMAIN events' = 1..Len(events') /\ Len(events') \in Nat
    BY LatestTyped DEF MailInv, Base
<1>0. Wanted \subseteq Nat
    BY <1>1, WantedIs, LatestTyped
<1> SUFFICES ASSUME NEW x \in Wanted', x \notin Wanted PROVE x \in Nat /\ x > Latest
    BY <1>0
<1>2. PICK i \in DOMAIN events' :
          x = Base + i /\ (scenario.past = <<>> \/ Durable(events'[i].type))
    BY <1>1 DEF Wanted
<1>3. i \notin DOMAIN events
    <2> SUFFICES ASSUME i \in DOMAIN events PROVE FALSE
        OBVIOUS
    <2>1. events'[i] = events[i]
        OBVIOUS
    <2>2. x \in Wanted
        BY <1>2, <2>1 DEF Wanted
    <2> QED
        BY <2>2
<1> QED
    BY <1>1, <1>2, <1>3

(* The first few of a set leave out nothing before the last of them.       *)
LEMMA FirstFewClosed ==
    ASSUME NEW n \in Nat, NEW S \in SUBSET (0..n), NEW k \in Nat,
           NEW x \in FirstFew(S, k), NEW y \in S, y <= x
    PROVE  y \in FirstFew(S, k)
<1> DEFINE A == {z \in S : z <= y}
           B == {z \in S : z <= x}
<1>1. x \in 0..n /\ Cardinality(B) <= k
    BY DEF FirstFew
<1>2. A \subseteq B /\ B \in SUBSET (0..n) /\ A \in SUBSET (0..n)
    <2>1. \A z \in S : z \in 0..n /\ (z <= y => z <= x)
        BY <1>1
    <2> QED
        BY <2>1
<1>3. IsFiniteSet(B) /\ Cardinality(B) \in Nat /\ Cardinality(A) \in Nat
    BY <1>2, BoundedIsFinite
<1>4. Cardinality(A) <= Cardinality(B)
    BY <1>2, <1>3, FS_Subset
<1>5. Cardinality(A) <= k
    BY <1>1, <1>3, <1>4
<1> QED
    BY <1>5 DEF FirstFew

(* The page of memory alone.                                               *)
LEMMA MemoryWhole ==
    ASSUME NEW n \in Nat, NEW S \in SUBSET (0..n), NEW cursor \in Nat,
           NEW x \in S, x > cursor, x <= Greatest(FirstFew(S, PageLimit), cursor)
    PROVE  x \in FirstFew(S, PageLimit)
<1> DEFINE page == FirstFew(S, PageLimit)
<1>1. PageLimit \in Nat /\ page \in SUBSET (0..n) /\ x \in 0..n
    BY ScenarioAssumption DEF FirstFew
<1>2. page # {}
    <2> SUFFICES ASSUME page = {} PROVE FALSE
        OBVIOUS
    <2>1. Greatest(page, cursor) = cursor
        BY DEF Greatest
    <2> QED
        BY <1>1, <2>1
<1>3. Greatest(page, cursor) \in page
    BY <1>1, <1>2, GreatestOfBounded
<1> QED
    BY <1>1, <1>3, FirstFewClosed

(* The page of the database and of memory.  wanted: what it must not leave  *)
(* out.                                                                    *)
LEMMA MergedWhole ==
    ASSUME NEW cursor \in Nat, NEW base \in Nat, NEW latest \in Nat,
           NEW wanted \in SUBSET (1..latest),
           NEW stored \in SUBSET ((cursor + 1)..latest),
           NEW memory \in SUBSET ((cursor + 1)..latest),
           \A x \in wanted, z \in stored : cursor < x /\ x <= z => x \in stored,
           \A x \in wanted : cursor < x /\ x <= base => x \in stored,
           \A z \in memory, y \in Nat : base < y /\ cursor < y /\ y <= z => y \in memory,
           NEW x \in wanted, cursor < x, x <= Greatest(Merged(stored, memory), cursor)
    PROVE  x \in Merged(stored, memory)
<1> DEFINE prefix == FirstFew(stored, PageLimit)
           last == Greatest(prefix, 0)
           room == PageLimit - Cardinality(prefix)
           rest == FirstFew(After(memory, last), room)
           page == Merged(stored, memory)
<1>0. PageLimit \in Nat \ {0} /\ x \in Nat
    BY ScenarioAssumption
<1>1. stored \in SUBSET (0..latest) /\ memory \in SUBSET (0..latest)
    OBVIOUS
<1>2. /\ prefix \subseteq stored /\ Cardinality(prefix) \in Nat
      /\ Cardinality(prefix) < PageLimit => prefix = stored
      /\ prefix \in SUBSET (0..latest)
    <2>1. /\ prefix \subseteq stored /\ Cardinality(prefix) \in Nat
          /\ Cardinality(prefix) < PageLimit => prefix = stored
        BY <1>0, <1>1, FirstFewBound, FirstFewAll
    <2> QED
        BY <1>1, <2>1
(* What stands before an element of the prefix is in it.                   *)
<1>3. ASSUME NEW z \in prefix, x <= z PROVE x \in prefix
    <2>1. x \in stored
        BY <1>2, <1>3
    <2> QED
        BY <1>0, <1>1, <1>3, <2>1, FirstFewClosed
<1>4. page \in SUBSET (0..latest) /\ prefix \subseteq page
    <2>1. rest \subseteq memory
        BY DEF FirstFew, After
    <2> QED
        BY <1>1, <1>2, <2>1 DEF Merged
<1>5. PICK z \in page : x <= z
    <2>1. page # {}
        <3> SUFFICES ASSUME page = {} PROVE FALSE
            OBVIOUS
        <3>1. Greatest(page, cursor) = cursor
            BY DEF Greatest
        <3> QED
            BY <1>0, <3>1
    <2>2. Greatest(page, cursor) \in page
        BY <1>4, <2>1, GreatestOfBounded
    <2> QED
        BY <2>2
<1>6. CASE z \in prefix
    BY <1>3, <1>4, <1>5, <1>6
<1>7. CASE z \notin prefix
    <2>1. /\ ~(Cardinality(prefix) >= PageLimit) /\ z \in rest /\ rest \subseteq page
        BY <1>5, <1>7 DEF Merged
    <2>2. prefix = stored /\ room \in Nat
        BY <1>0, <1>2, <2>1
    <2>3. CASE x <= base
        BY <1>4, <2>2, <2>3
    <2>4. CASE ~(x <= base)
        <3> DEFINE behind == After(memory, last)
        <3>1. z \in memory /\ z \in behind /\ behind \in SUBSET (0..latest)
            BY <1>1, <2>1 DEF FirstFew, After
        <3>2. x \in memory
            BY <1>0, <1>5, <2>4, <3>1
        <3>3. CASE x \in prefix
            BY <1>4, <3>3
        <3>4. CASE x \notin prefix
            <4>1. x > last
                <5>1. CASE prefix = {}
                    BY <1>0, <5>1 DEF Greatest
                <5>2. CASE prefix # {}
                    <6>1. last \in prefix
                        BY <1>2, <5>2, GreatestOfBounded
                    <6> HIDE DEF last, prefix
                    <6>2. ~(x <= last) /\ last \in 0..latest
                        BY <1>2, <1>3, <3>4, <6>1
                    <6> QED
                        BY <1>0, <6>2
                <5> QED
                    BY <5>1, <5>2
            <4>2. x \in behind
                BY <3>2, <4>1 DEF After
            <4> HIDE DEF behind
            <4>3. rest = FirstFew(behind, room)
                BY DEF behind
            <4> HIDE DEF rest, room
            <4>4. x \in rest
                BY <1>5, <2>1, <2>2, <3>1, <4>2, <4>3, FirstFewClosed
            <4> QED
                BY <2>1, <4>4
        <3> QED
            BY <3>3, <3>4
    <2> QED
        BY <1>0, <2>3, <2>4
<1> QED
    BY <1>6, <1>7
(* Whatever else happens leaves what the follower has alone, and only adds  *)
(* to what is recorded.                                                    *)
SameFollower ==
    /\ scenario' = scenario /\ follower'.at = follower.at /\ follower'.cursor = follower.cursor
    /\ follower'.page = follower.page /\ follower'.snap = follower.snap
    /\ follower'.got = follower.got
    /\ \A i \in DOMAIN events : i \in DOMAIN events' /\ events'[i] = events[i]

LEMMA AppendGrows ==
    ASSUME MailInv, NEW specs \in Seq(Specs), Append_(specs)
    PROVE  \A i \in DOMAIN events : i \in DOMAIN events' /\ events'[i] = events[i]
<1>1. Recorded(specs) \in Seq(Specs) /\ events \in Seq(Specs)
    BY RecordedTyped DEF MailInv
<1>2. events' = events \o Recorded(specs)
    BY DEF Append_
<1> QED
    BY <1>1, <1>2

LEMMA BesideIsSame ==
    ASSUME MailInv, FInv, [Next]_vars, ~FollowerStep, ~Heartbeat
    PROVE  SameFollower
<1>1. ASSUME UNCHANGED <<scenario, follower, events>> PROVE SameFollower
    BY <1>1 DEF SameFollower
<1>2. ASSUME \/ HandlerStep \/ LoopStep
             \/ \E c \in Calls : EndStream(c, FALSE) \/ GiveUp(c)
      PROVE  SameFollower
    BY <1>1, <1>2, WorkIsUnseen
<1>3. ASSUME Notify PROVE SameFollower
    BY <1>3 DEF Notify, SameFollower, FInv, FollowerTypeOK
<1>4. ASSUME NEW specs \in Seq(Specs), Append_(specs), UNCHANGED <<scenario, follower>>
      PROVE  SameFollower
    BY <1>4, AppendGrows DEF SameFollower
<1>5. ASSUME RecordUserEvents PROVE SameFollower
    <2>1. Head(todo) \in Messages /\ IsEvents(Head(todo))
        BY <1>5, ToSetTail DEF RecordUserEvents, MailInv
    <2>2. Head(todo).specs \in Seq(Specs)
        BY <2>1 DEF IsEvents, Messages
    <2> QED
        BY <1>4, <1>5, <2>2 DEF RecordUserEvents
<1>6. ASSUME ApplyResult PROVE SameFollower
    <2>1. Head(todo) \in Messages /\ ~IsEvents(Head(todo))
        BY <1>6, ToSetTail DEF ApplyResult, MailInv
    <2>2. Head(todo).node \in Nodes
        BY <2>1 DEF IsEvents, Messages
    <2>3. <<Spec_(<<Head(todo).node, attempt[Head(todo).node]>>, 0, "output")>> \in Seq(Specs)
        BY <2>2, LastSpecs
    <2> QED
        BY <1>1, <1>4, <1>6, <2>3 DEF ApplyResult
<1>7. ASSUME Close PROVE SameFollower
    BY <1>4, <1>7, LastSpecs DEF Close
<1>8. ASSUME \/ Take \/ SkipResult \/ FailInvocation \/ CancelInvocation \/ AbandonWork
             \/ Complete \/ RecordEnd \/ Settle
      PROVE  SameFollower
    BY <1>1, <1>8 DEF Take, SkipResult, FailInvocation, CancelInvocation, AbandonWork,
                      Complete, RecordEnd, Settle
<1>9. ASSUME Commit \/ UNCHANGED vars PROVE SameFollower
    BY <1>1, <1>9 DEF Commit, vars
<1> QED
    BY <1>2, <1>3, <1>5, <1>6, <1>7, <1>8, <1>9 DEF Next, DriverStep

LEMMA BesideGets ==
    ASSUME IInv, MailInv, MailInv', FInv, GInv, SameFollower
    PROVE  GInv'
<1>1. /\ scenario \in Scenarios /\ scenario' = scenario
      /\ Base \in Nat /\ Base' = Base /\ Latest \in Nat
    BY LatestTyped DEF IInv, BatcherTypeOK, SameFollower, Base
<1>2. \A x \in Wanted' : x \in Nat /\ (x \in Wanted \/ x > Latest)
    BY <1>1, WantedGrows DEF SameFollower
<1>3. follower.cursor \in Nat /\ follower.cursor <= Latest /\ Wanted' \subseteq Nat
    BY <1>2 DEF FInv, FollowerTypeOK, WithinEvents
<1>4. GotExact'
    <2>1. ASSUME NEW x \in Wanted', x <= follower.cursor PROVE x \in follower.got
        <3>1. x \in Wanted
            BY <1>1, <1>2, <1>3, <2>1
        <3> QED
            BY <2>1, <3>1 DEF GInv, GotExact
    <2> QED
        BY <2>1 DEF SameFollower, GInv, GotExact
<1>5. PageWhole'
    <2>1. ASSUME follower.at = "latest", NEW x \in Wanted', follower.cursor < x,
                 x <= Greatest(follower.page, follower.cursor)
          PROVE  x \in follower.page
        <3> DEFINE g == Greatest(follower.page, follower.cursor)
        <3>1. g \in Nat /\ g <= Latest
            <4>1. follower.page \in SUBSET (0..Latest)
                BY <1>1, <1>3, <2>1 DEF FInv, WithinEvents
            <4>2. CASE follower.page = {}
                BY <1>3, <4>2 DEF Greatest
            <4>3. CASE follower.page # {}
                <5>1. g \in follower.page
                    BY <1>1, <4>1, <4>3, GreatestOfBounded
                <5> HIDE DEF g
                <5>2. g \in 0..Latest
                    BY <4>1, <5>1
                <5> QED
                    BY <1>1, <5>2
            <4> QED
                BY <4>2, <4>3
        <3> HIDE DEF g
        <3>2. x <= g
            BY <2>1 DEF g
        <3>3. x \in Wanted
            BY <1>1, <1>2, <1>3, <3>1, <3>2
        <3> QED
            BY <2>1, <3>3 DEF GInv, PageWhole
    <2> QED
        BY <2>1 DEF SameFollower, PageWhole
<1>6. SnapWhole'
    BY <1>1 DEF SameFollower, GInv, SnapWhole
<1> QED
    BY <1>4, <1>5, <1>6 DEF GInv

(* The follower reads, and is sent what it read.                           *)
LEMMA FollowerGets ==
    ASSUME IInv, MailInv, FInv, GInv, FollowerStep \/ Heartbeat
    PROVE  GInv'
<1>0. scenario \in Scenarios /\ UNCHANGED <<scenario, events, committed>>
    <2>1. OnlyFollower
        BY DEF FollowerStep, Wake, Clear, ListUserEvents, LoadUserEvents, SendPage,
               ReadDetail, Continue, Heartbeat
    <2> QED
        BY <2>1 DEF OnlyFollower, IInv, BatcherTypeOK
<1>1. /\ Base' = Base /\ Wanted' = Wanted
      /\ Base \in Nat /\ Latest \in Nat /\ Base <= Latest
      /\ Latest = Base + Len(events) /\ Len(events) \in Nat /\ DOMAIN events = 1..Len(events)
    BY <1>0, LatestTyped DEF Base, Wanted, MailInv
<1>2. /\ follower.cursor \in Nat /\ follower.cursor <= Latest /\ FollowerTypeOK
      /\ follower.page \in SUBSET Nat /\ follower.snap \in SUBSET Nat
    BY DEF FInv, FollowerTypeOK, WithinEvents
<1>3. /\ Wanted \subseteq 1..Latest /\ \A x \in Wanted : x \in Nat
      /\ \A x \in Wanted : x <= Base => x \in ToSet(scenario.past)
      /\ scenario.past = <<>> => Base = 0
    <2>1. /\ Wanted \subseteq 1..Latest
          /\ \A x \in Wanted : x <= Base => x \in ToSet(scenario.past)
          /\ scenario.past = <<>> => Base = 0
        BY <1>0, WantedIs
    <2> QED
        BY <1>1, <2>1
<1>4. ASSUME Wake \/ Clear \/ Continue \/ Heartbeat \/ ReadDetail PROVE GInv'
    <2>1. /\ follower'.at \in {"clear", "list", "wait", "ended"} \/ follower'.at = follower.at
          /\ follower'.cursor = follower.cursor /\ follower'.page = follower.page
          /\ follower'.snap = follower.snap /\ follower'.got = follower.got
        BY <1>2, <1>4 DEF Wake, Clear, Continue, Heartbeat, ReadDetail, FollowerTypeOK
    <2> QED
        BY <1>1, <2>1 DEF GInv, GotExact, PageWhole, SnapWhole
<1>5. ASSUME ListUserEvents PROVE GInv'
    <2> DEFINE values == After(InMemory, follower.cursor)
               page == FirstFew(values, PageLimit)
    <2>1. values = {x \in (Base + 1)..Latest : x > follower.cursor}
        BY DEF After, InMemory
    <2>2. values \in SUBSET (0..Latest)
        BY <1>1, <1>2, <2>1
    <2> HIDE DEF values
    <2>3. CASE NeedsPrefix
        <3>1. follower' = [follower EXCEPT !.at = "load", !.snap = values]
            BY <1>5, <2>3 DEF ListUserEvents, values
        <3>2. /\ follower'.at = "load" /\ follower'.snap = values
              /\ follower'.cursor = follower.cursor /\ follower'.got = follower.got
            BY <1>2, <3>1 DEF FollowerTypeOK
        <3>3. \A x \in values, y \in Nat :
                  Base < y /\ follower.cursor < y /\ y <= x => y \in values
            BY <1>1, <1>2, <2>1
        <3> QED
            BY <1>1, <3>2, <3>3 DEF GInv, GotExact, PageWhole, SnapWhole
    <2>4. CASE ~NeedsPrefix
        <3>1. follower' = [follower EXCEPT !.at = "latest", !.page = page]
            BY <1>5, <2>4 DEF ListUserEvents, values
        <3>2. /\ follower'.at = "latest" /\ follower'.page = page
              /\ follower'.cursor = follower.cursor /\ follower'.got = follower.got
            BY <1>2, <3>1 DEF FollowerTypeOK
        <3>3. Base <= follower.cursor \/ scenario.past = <<>> \/ events # <<>>
            BY <1>1, <1>2, <2>4 DEF NeedsPrefix
        <3>4. ASSUME NEW x \in Wanted, follower.cursor < x,
                     x <= Greatest(page, follower.cursor)
              PROVE  x \in page
            <4>1. Base < x
                <5>1. CASE scenario.past = <<>>
                    BY <1>3, <5>1
                <5>2. CASE scenario.past # <<>>
                    <6>1. Base <= follower.cursor
                        BY <1>1, <1>2, <2>4, <5>2 DEF NeedsPrefix
                    <6> QED
                        BY <1>1, <1>2, <1>3, <3>4, <6>1
                <5> QED
                    BY <5>1, <5>2
            <4>2. x \in values
                BY <1>1, <1>2, <1>3, <2>1, <3>4, <4>1
            <4> QED
                BY <1>1, <1>2, <2>2, <3>4, <4>2, MemoryWhole
        <3> HIDE DEF page
        <3> QED
            BY <1>1, <3>2, <3>4 DEF GInv, GotExact, PageWhole, SnapWhole
    <2> QED
        BY <2>3, <2>4
<1>6. ASSUME LoadUserEvents PROVE GInv'
    <2> DEFINE cursor == follower.cursor
               memory == follower.snap
               stored == After(Stored, cursor)
               page == Merged(stored, memory)
    <2>1. /\ follower.at = "load"
          /\ follower' = [follower EXCEPT !.at = "latest", !.snap = {}, !.page = page]
        BY <1>6 DEF LoadUserEvents
    <2>2. /\ scenario.past # <<>> /\ memory \in SUBSET ((cursor + 1)..Latest)
          /\ \A z \in memory, y \in Nat : Base < y /\ cursor < y /\ y <= z => y \in memory
        BY <2>1 DEF FInv, WithinEvents, GInv, SnapWhole
    <2>3. \A z \in Stored : z \in ToSet(scenario.past) \/ \E j \in 1..committed : z = Base + j
        BY DEF Stored
    <2>4. /\ ToSet(scenario.past) \subseteq 1..Base /\ ToSet(scenario.past) \subseteq Stored
          /\ committed \in 0..Len(events)
        BY <1>0, <1>2, PastNumbers DEF Stored, FollowerTypeOK
    <2>5. \A z \in Stored : z \in 1..Latest
        BY <1>1, <2>3, <2>4
    <2>6. stored \in SUBSET ((cursor + 1)..Latest)
        BY <1>1, <1>2, <2>5 DEF After
    <2>7. \A x \in Wanted : cursor < x /\ x <= Base => x \in stored
        BY <1>3, <2>4 DEF After
    <2>8. ASSUME NEW x \in Wanted, NEW z \in stored, cursor < x, x <= z PROVE x \in stored
        <3>1. CASE x <= Base
            BY <2>7, <2>8, <3>1
        <3>2. CASE ~(x <= Base)
            <4>1. z \in Stored
                BY DEF After
            <4>2. PICK j \in 1..committed : z = Base + j
                <5>1. z \notin 1..Base
                    BY <1>1, <1>3, <2>5, <2>8, <3>2, <4>1
                <5> QED
                    BY <2>3, <2>4, <4>1, <5>1
            <4>3. x \notin ToSet(scenario.past)
                BY <1>1, <2>4, <3>2
            <4>4. PICK i \in DOMAIN events : x = Base + i /\ Durable(events[i].type)
                BY <2>2, <4>3 DEF Wanted
            <4>5. i \in 1..committed
                BY <1>1, <2>4, <2>8, <4>2, <4>4
            <4>6. x \in Stored
                BY <4>4, <4>5 DEF Stored
            <4> QED
                BY <2>8, <4>6 DEF After
        <3> QED
            BY <3>1, <3>2
    <2> HIDE DEF stored
    <2>9. ASSUME NEW x \in Wanted, cursor < x, x <= Greatest(page, cursor) PROVE x \in page
        <3>1. Wanted \in SUBSET (1..Latest) /\ cursor \in Nat
            BY <1>2, <1>3
        <3> HIDE DEF memory, cursor
        <3> QED
            BY <1>1, <2>2, <2>6, <2>7, <2>8, <2>9, <3>1, MergedWhole
    <2> HIDE DEF page
    <2>10. /\ follower'.at = "latest" /\ follower'.page = page
           /\ follower'.cursor = cursor /\ follower'.got = follower.got
        BY <1>2, <2>1 DEF FollowerTypeOK
    <2> QED
        BY <1>1, <2>9, <2>10 DEF GInv, GotExact, PageWhole, SnapWhole
<1>7. ASSUME SendPage PROVE GInv'
    <2> DEFINE cursor == Greatest(follower.page, follower.cursor)
    <2>1. /\ follower.at = "latest"
          /\ follower' = [follower EXCEPT !.at = "detail", !.live = Latest, !.page = {},
                              !.cursor = cursor,
                              !.full = Cardinality(follower.page) = PageLimit,
                              !.got = @ \cup follower.page]
        BY <1>7 DEF SendPage
    <2>2. follower.page \in SUBSET ((follower.cursor + 1)..Latest)
        BY <2>1 DEF FInv, WithinEvents
    <2>3. cursor \in Nat /\ follower.cursor <= cursor /\ follower.page \subseteq 1..cursor
        <3>1. CASE follower.page = {}
            BY <3>1, <1>2 DEF Greatest
        <3>2. CASE follower.page # {}
            <4>1. follower.page \in SUBSET (0..Latest)
                BY <1>2, <2>2
            <4>2. cursor \in follower.page /\ \A y \in follower.page : y <= cursor
                BY <1>1, <3>2, <4>1, GreatestOfBounded
            <4> HIDE DEF cursor
            <4>3. cursor \in (follower.cursor + 1)..Latest
                BY <2>2, <4>2
            <4>4. ASSUME NEW y \in follower.page PROVE y \in 1..cursor
                <5>1. y \in (follower.cursor + 1)..Latest /\ y <= cursor
                    BY <2>2, <4>2
                <5> QED
                    BY <1>2, <4>3, <5>1
            <4> QED
                BY <1>1, <1>2, <4>3, <4>4
        <3> QED
            BY <3>1, <3>2
    <2>4. \A x \in Wanted : follower.cursor < x /\ x <= cursor => x \in follower.page
        BY <2>1 DEF GInv, PageWhole
    <2> HIDE DEF cursor
    <2>5. /\ follower'.at = "detail" /\ follower'.cursor = cursor
          /\ follower'.got = follower.got \cup follower.page
        BY <1>2, <2>1 DEF FollowerTypeOK
    <2>6. \A x \in Wanted : x <= cursor => x \in follower'.got
        <3> SUFFICES ASSUME NEW x \in Wanted, x <= cursor PROVE x \in follower'.got
            OBVIOUS
        <3>1. CASE x <= follower.cursor
            BY <2>5, <3>1 DEF GInv, GotExact
        <3>2. CASE ~(x <= follower.cursor)
            BY <1>2, <1>3, <2>4, <2>5, <3>2
        <3> QED
            BY <3>1, <3>2
    <2>7. follower'.got \subseteq 1..cursor
        <3>1. 1..follower.cursor \subseteq 1..cursor
            BY <1>2, <2>3
        <3> QED
            BY <2>3, <2>5, <3>1 DEF GInv, GotExact
    <2> QED
        BY <1>1, <2>5, <2>6, <2>7 DEF GInv, GotExact, PageWhole, SnapWhole
<1> QED
    BY <1>4, <1>5, <1>6, <1>7 DEF FollowerStep

LEMMA InitGets ==
    ASSUME Init
    PROVE  GInv
<1>1. scenario \in Scenarios /\ Base \in Nat /\ ToSet(scenario.past) \subseteq 1..Base
    BY PastNumbers DEF Init
<1>2. follower.at \in {"none", "clear"} /\ follower.cursor = 0 /\ follower.got = {}
    BY DEF Init
<1>3. \A x \in Wanted : x \in Nat /\ x > 0
    <2>1. scenario \in Scenarios /\ MailInv
        BY InitFollows, <1>1
    <2>2. Wanted \subseteq 1..Latest /\ Latest \in Nat
        BY <2>1, WantedIs, LatestTyped
    <2> QED
        BY <2>2
<1> QED
    BY <1>2, <1>3 DEF GInv, GotExact, PageWhole, SnapWhole

(* A follower is sent every UserEvent of this process that its cursor has    *)
(* passed, once, and every one an earlier process stored; while it reads    *)
(* memory and database at different moments, at least all that are to be    *)
(* stored (store.py:1433-1490).  For any past, any limit of a page and any  *)
(* progress of the writer in between.                                      *)
THEOREM FollowerIsComplete == StreamSpec => []FollowerExact
<1>1. Init => IInv /\ MailInv /\ FInv /\ GInv
    BY InitEstablishes, InitFollows, InitGets
<1>2. IInv /\ MailInv /\ FInv /\ GInv /\ [Next]_vars => (IInv /\ MailInv /\ FInv /\ GInv)'
    <2> SUFFICES ASSUME IInv, MailInv, FInv, GInv, [Next]_vars
                 PROVE  (IInv /\ MailInv /\ FInv /\ GInv)'
        OBVIOUS
    <2>1. IInv' /\ MailInv' /\ FInv'
        BY NextPreserves, NextFollows
    <2> QED
        BY <2>1, FollowerGets, BesideIsSame, BesideGets
<1>3. IInv /\ MailInv /\ FInv /\ GInv => FollowerExact
    <2> SUFFICES ASSUME IInv, MailInv, FInv, GInv PROVE FollowerExact
        OBVIOUS
    <2>1. scenario \in Scenarios /\ Base \in Nat /\ ToSet(scenario.past) \subseteq 1..Base
        BY PastNumbers DEF IInv, BatcherTypeOK
    <2>2. ASSUME NEW x \in ToSet(scenario.past) \cap (1..follower.cursor)
          PROVE  x \in follower.got
        <3>1. x \in Wanted /\ x <= follower.cursor
            BY DEF Wanted, FInv, FollowerTypeOK
        <3> QED
            BY <3>1 DEF GInv, GotExact
    <2>3. ASSUME NEW i \in DOMAIN events, Base + i <= follower.cursor,
                 scenario.past = <<>> \/ Durable(events[i].type)
          PROVE  Base + i \in follower.got
        <3>1. Base + i \in Wanted
            BY <2>3 DEF Wanted
        <3> QED
            BY <2>3, <3>1 DEF GInv, GotExact
    <2> QED
        BY <2>2, <2>3 DEF FollowerExact, GInv, GotExact
<1> QED
    BY <1>1, <1>2, <1>3, PTL DEF StreamSpec
================================================================================
