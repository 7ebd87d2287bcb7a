------------------------ MODULE DatabaseBackendProofs ------------------------
(* What the persistence pipeline guarantees for any Invocations, journals,  *)
(* faults and calls, any memory limits and any batch limits: an Invocation  *)
(* is never reported durable while a part of it is missing, and a flush     *)
(* that succeeds tells the truth.                                           *)
EXTENDS DatabaseBackend, PersistenceCoordinatorProofs

-----------------------------------------------------------------------------
(* The lines of envelopes.                                                 *)

(* e and f belong to the journal, or to the UserEvents, of one Invocation. *)
SameLine(e, f) ==
  /\ e.inv = f.inv /\ e.inv \in Invocations
  /\ IsJournal(e) <=> IsJournal(f)

(* The Runtime recorded e before f.                                        *)
Before(e, f) == SameLine(e, f) /\ e.seq < f.seq

(* f may be handed on after e.                                             *)
MayFollow(e, f) == e # f /\ ~Before(f, e)

InLine(s) == \A m, n \in 1 .. Len(s) : m < n => MayFollow(s[m], s[n])
AllBefore(S, T) == \A e \in S, f \in T : MayFollow(e, f)

(* Where envelopes wait: in a deque of the coordinator (QueuedExact),      *)
(* imported, prepared and in the batch in hand.                            *)
AtCoordinator == {e \in Envelopes : stage[e] = "queued"}
Imports == Range(inbox)
Prepared == UNION {Range(queues[k]) : k \in Keys}
InHand == Range(batch)

-----------------------------------------------------------------------------
(* The inductive invariant.                                                *)

PipelineTypeOK ==
  /\ inbox \in Seq(Envelopes) /\ batch \in Seq(Envelopes)
  /\ queues \in [Keys -> Seq(Envelopes)] /\ dbReady \in Seq(Keys)
  /\ reporting \subseteq Envelopes /\ userFailed \subseteq Envelopes
  /\ stored \subseteq Envelopes /\ abandoned \subseteq Envelopes
  /\ flushed \subseteq Envelopes

(* The round-robin order of the prepared items names no empty queue and no *)
(* queue twice.                                                            *)
OrderExact ==
  /\ \A n \in 1 .. Len(dbReady) : queues[dbReady[n]] # <<>>
  /\ \A m, n \in 1 .. Len(dbReady) : dbReady[m] = dbReady[n] => m = n

(* The writer has a batch when it stores or settles one.                   *)
BatchExact ==
  /\ pc \in {"collect", "batch"} => dbReady # <<>> \/ batch # <<>>
  /\ pc \in {"persist", "persistUsers", "backoff", "committed", "settle"} =>
       batch # <<>>

(* What the writer holds was taken, and until it exits it holds all that   *)
(* was taken.                                                              *)
Held ==
  /\ \A e \in Imports \cup Prepared \cup InHand : stage[e] = "taken"
  /\ pc # "exited" =>
       \A e \in Envelopes : stage[e] = "taken" => e \in Imports \cup Prepared \cup InHand

(* Nothing overtakes anything of its line, from the deque to the batch.    *)
InOrder ==
  /\ \A k \in Keys : InLine(incoming[k]) /\ InLine(queues[k])
  /\ InLine(inbox) /\ InLine(batch)
  /\ \A k \in Keys : \A e \in Range(queues[k]) : e.key = k
  /\ AllBefore(InHand, Prepared \cup Imports \cup AtCoordinator)
  /\ AllBefore(Prepared, Imports \cup AtCoordinator)
  /\ AllBefore(Imports, AtCoordinator)

(* A line is offered in order.                                             *)
OfferedInOrder ==
  \A e, f \in Envelopes : Before(e, f) /\ Offered(f) => Returned(e)

(* Faults are known.                                                       *)
Excused(e) ==
  IF IsJournal(e) THEN e.inv \in errors \cup gaps ELSE e.inv \in userGaps

AbandonedExcused ==
  \A e \in abandoned :
    /\ stage[e] \in {"new", "refused"}
    /\ e.inv \in Invocations => Excused(e)

(* Behind a record that was refused, or given up at once, its journal is   *)
(* never handed over.                                                      *)
RefusedCuts ==
  \A e, f \in Envelopes :
    /\ Before(e, f) /\ IsJournal(e)
    /\ e \in abandoned \/ stage[e] = "refused"
    => stage[f] \in {"new", "refused"}

(* Where the writer is when it has something to report.                    *)
ReportingWhere ==
  /\ \A e \in reporting :
       \/ stage[e] = "settled" /\ Importing
       \/ stage[e] = "taken" /\ ~IsJournal(e) /\ e \in userFailed
            /\ pc \in {"persistUsers", "exited"}
  /\ \A e \in userFailed : ~IsJournal(e) /\ (e \in reporting \/ e.inv \in userGaps)

(* A settled envelope is in the database, or its failure is known, or is   *)
(* about to be.                                                            *)
SettledExcused ==
  \A e \in Envelopes :
    stage[e] = "settled" /\ e \notin stored /\ e.inv \in Invocations =>
      e \in reporting \/ (IF IsJournal(e) THEN e.inv \in errors ELSE e.inv \in userGaps)

FailingKnown == failing # NoInvocation => failing \in errors

(* What is in the database was in the hands of the writer.                                  *)
StoredWhere ==
  /\ \A e \in stored : stage[e] \in {"taken", "settled"}
  /\ pc \in {"persistUsers", "committed", "settle"} => RuntimeItems \subseteq stored
  /\ pc \in {"committed", "settle"} => UserItems \ userFailed \subseteq stored

(* The rows of a journal are a prefix of what was recorded.                *)
PrefixStored ==
  \A e, f \in Envelopes :
    Before(e, f) /\ IsJournal(e) /\ f \in stored => e \in stored

(* What follows a stored envelope is not waiting before it.                *)
StoredAhead ==
  \A e, f \in Envelopes :
    Before(e, f) /\ f \in stored =>
      e \notin Prepared \cup Imports \cup AtCoordinator

(* What follows a lost envelope has not passed the preparation.            *)
LostBehind ==
  \A e, f \in Envelopes :
    /\ Before(e, f) /\ stage[e] = "settled" /\ e \notin stored
    /\ IsJournal(e) \/ e \in reporting
    => f \notin stored \cup Prepared \cup InHand

(* The durable sequences are those of rows.                                *)
SequencesStored ==
  \A i \in Invocations :
    /\ durableSeq[i] # 0 =>
         \E e \in Journal(i) \cap stored : e.seq = durableSeq[i]
    /\ durableUserSeq[i] # 0 =>
         \E e \in UserBatches(i) \cap stored : e.seq = durableUserSeq[i]
    /\ i \in admitted => \E e \in Journal(i) \cap stored : e.kind = "admission"

(* What a flush found handed over is stored, or its failure is known.      *)
FlushKnows ==
  \A e \in flushed :
    e.inv \in Invocations =>
      /\ flush = "checking" =>
           e \in stored \/ e.inv \in errors \cup gaps \cup userGaps
      /\ flush = "ok" => e \in stored

PlacesInv ==
  PipelineTypeOK /\ OrderExact /\ BatchExact /\ Held /\ InOrder
FatesInv ==
  /\ OfferedInOrder /\ AbandonedExcused /\ RefusedCuts /\ ReportingWhere
  /\ SettledExcused /\ FailingKnown /\ StoredWhere /\ PrefixStored
  /\ StoredAhead /\ LostBehind /\ SequencesStored /\ FlushKnows
PInv == IInv /\ PlacesInv /\ FatesInv

-----------------------------------------------------------------------------
(* Sequences.                                                              *)

(* The elements of a sequence.                                             *)
LEMMA RangeOf ==
  ASSUME NEW S, NEW s \in Seq(S)
  PROVE  /\ Range(s) = {s[n] : n \in 1 .. Len(s)}
         /\ Range(s) \subseteq S
BY DEF Range

LEMMA RangeAppend ==
  ASSUME NEW S, NEW s \in Seq(S), NEW x \in S
  PROVE  /\ Append(s, x) \in Seq(S)
         /\ Range(Append(s, x)) = Range(s) \cup {x}
<1>1. /\ Append(s, x) \in Seq(S)
      /\ Len(Append(s, x)) = Len(s) + 1
      /\ Append(s, x)[Len(s) + 1] = x
      /\ \A n \in 1 .. Len(s) : Append(s, x)[n] = s[n]
  OBVIOUS
<1>2. ASSUME NEW y \in Range(s) \cup {x}
      PROVE  \E n \in 1 .. Len(s) + 1 : Append(s, x)[n] = y
  <2>1. CASE y = x
    BY <2>1, <1>1
  <2>2. CASE y # x
    <3>1. PICK n \in 1 .. Len(s) : y = s[n]
      BY <2>2, RangeOf
    <3> QED
      BY <3>1, <1>1
  <2> QED
    BY <2>1, <2>2
<1>3. ASSUME NEW n \in 1 .. Len(s) + 1
      PROVE  Append(s, x)[n] \in Range(s) \cup {x}
  <2>1. n \in 1 .. Len(s) \/ n = Len(s) + 1
    OBVIOUS
  <2> QED
    BY <2>1, <1>1, RangeOf
<1>4. Range(Append(s, x)) = {Append(s, x)[n] : n \in 1 .. Len(s) + 1}
  BY <1>1, RangeOf
<1> QED
  BY <1>1, <1>2, <1>3, <1>4

(* In a line, nothing occurs twice: a head leaves for good.                *)
LEMMA LineTail ==
  ASSUME NEW S, NEW s \in Seq(S), s # <<>>, InLine(s)
  PROVE  /\ Head(s) \in S /\ Head(s) \in Range(s) /\ Tail(s) \in Seq(S)
         /\ InLine(Tail(s))
         /\ Range(Tail(s)) = Range(s) \ {Head(s)}
         /\ \A x \in Range(Tail(s)) : MayFollow(Head(s), x)
<1>1. /\ Head(s) = s[1] /\ Len(s) \in Nat \ {0}
      /\ Tail(s) \in Seq(S) /\ Len(Tail(s)) = Len(s) - 1
      /\ \A n \in 1 .. Len(s) - 1 : Tail(s)[n] = s[n + 1]
  OBVIOUS
<1>2. \A n \in 1 .. Len(s) : n # 1 => MayFollow(s[1], s[n])
  BY <1>1 DEF InLine
<1>3. InLine(Tail(s))
  BY <1>1 DEF InLine
<1>4. Range(Tail(s)) = {s[n + 1] : n \in 1 .. Len(s) - 1}
  <2>1. Range(Tail(s)) = {Tail(s)[n] : n \in 1 .. Len(s) - 1}
    BY <1>1, RangeOf
  <2> QED
    BY <2>1, <1>1
<1>5. Range(s) = {s[n] : n \in 1 .. Len(s)}
  BY RangeOf
<1>6. \A n \in 1 .. Len(s) : n # 1 => n - 1 \in 1 .. Len(s) - 1 /\ (n - 1) + 1 = n
  BY <1>1
<1>7. ASSUME NEW x \in Range(Tail(s))
      PROVE  x \in Range(s) /\ MayFollow(s[1], x) /\ x # s[1]
  <2>1. PICK n \in 1 .. Len(s) - 1 : x = s[n + 1]
    BY <1>4
  <2>2. n + 1 \in 1 .. Len(s) /\ n + 1 # 1
    BY <1>1
  <2> QED
    BY <2>1, <2>2, <1>2, <1>5 DEF MayFollow
<1>8. ASSUME NEW x \in Range(s), x # s[1]
      PROVE  x \in Range(Tail(s))
  BY <1>4, <1>5, <1>6, <1>8
<1>9. s[1] \in Range(s) /\ s[1] \in S
  BY <1>1, <1>5
<1> QED
  BY <1>1, <1>3, <1>7, <1>8, <1>9

LEMMA LineAppend ==
  ASSUME NEW S, NEW s \in Seq(S), NEW x \in S, InLine(s),
         \A y \in Range(s) : MayFollow(y, x)
  PROVE  InLine(Append(s, x))
<1>1. /\ Len(Append(s, x)) = Len(s) + 1
      /\ Append(s, x)[Len(s) + 1] = x
      /\ \A n \in 1 .. Len(s) : Append(s, x)[n] = s[n]
  OBVIOUS
<1>2. \A n \in 1 .. Len(s) : MayFollow(s[n], x)
  BY RangeOf
<1> SUFFICES ASSUME NEW m \in 1 .. Len(s) + 1, NEW n \in 1 .. Len(s) + 1, m < n
             PROVE  MayFollow(Append(s, x)[m], Append(s, x)[n])
  BY <1>1 DEF InLine
<1>3. m \in 1 .. Len(s)
  OBVIOUS
<1>4. CASE n = Len(s) + 1
  BY <1>1, <1>2, <1>3, <1>4
<1>5. CASE n \in 1 .. Len(s)
  BY <1>1, <1>3, <1>5 DEF InLine
<1> QED
  BY <1>4, <1>5

LEMMA LineRemoveAt ==
  ASSUME NEW S, NEW s \in Seq(S), NEW j \in 1 .. Len(s), InLine(s)
  PROVE  InLine(RemoveAt(s, j))
<1>1. /\ Len(RemoveAt(s, j)) = Len(s) - 1
      /\ \A n \in 1 .. Len(s) - 1 :
           RemoveAt(s, j)[n] = IF n < j THEN s[n] ELSE s[n + 1]
  BY RemoveAtProperties
<1> SUFFICES ASSUME NEW m \in 1 .. Len(s) - 1, NEW n \in 1 .. Len(s) - 1, m < n
             PROVE  MayFollow(RemoveAt(s, j)[m], RemoveAt(s, j)[n])
  BY <1>1 DEF InLine
<1> DEFINE old(x) == IF x < j THEN x ELSE x + 1
<1>2. /\ old(m) \in 1 .. Len(s) /\ old(n) \in 1 .. Len(s) /\ old(m) < old(n)
      /\ RemoveAt(s, j)[m] = s[old(m)] /\ RemoveAt(s, j)[n] = s[old(n)]
  BY <1>1
<1> QED
  BY <1>2 DEF InLine

-----------------------------------------------------------------------------
(* The heads of what the writer holds.                                     *)

LEMMA InboxHead ==
  ASSUME PlacesInv, inbox # <<>>
  PROVE  /\ Head(inbox) \in Envelopes /\ Head(inbox) \in Imports
         /\ stage[Head(inbox)] = "taken"
         /\ Tail(inbox) \in Seq(Envelopes) /\ InLine(Tail(inbox))
         /\ Range(Tail(inbox)) = Imports \ {Head(inbox)}
         /\ \A f \in Range(Tail(inbox)) : MayFollow(Head(inbox), f)
BY LineTail DEF PlacesInv, PipelineTypeOK, InOrder, Held, Imports

LEMMA BatchHead ==
  ASSUME PlacesInv, batch # <<>>
  PROVE  /\ Head(batch) \in Envelopes /\ Head(batch) \in InHand
         /\ stage[Head(batch)] = "taken"
         /\ Tail(batch) \in Seq(Envelopes) /\ InLine(Tail(batch))
         /\ Range(Tail(batch)) = InHand \ {Head(batch)}
         /\ \A f \in Range(Tail(batch)) : MayFollow(Head(batch), f)
BY LineTail DEF PlacesInv, PipelineTypeOK, InOrder, Held, InHand

LEMMA EnvelopeKinds ==
  ASSUME NEW e \in Envelopes
  PROVE  /\ ~IsJournal(e) => e.inv \in Invocations
         /\ e.kind = "event" => IsJournal(e) /\ e.inv \in Invocations
         /\ e.kind = "admission" => IsJournal(e) /\ e.inv \in Invocations
         /\ e.kind = "user_event_batch" <=> ~IsJournal(e)
         /\ e.inv \notin Invocations => e.inv = NoInvocation
BY EnvelopeFields DEF IsJournal

(* Whatever the store and the writer do with the coordinator, they do by   *)
(* its methods.                                                            *)
LEMMA ByItsMethods ==
  ASSUME IInv, PlacesInv, [DatabaseNext]_vars
  PROVE  [Next]_coordinatorVars
<1> USE DEF Next, EnvelopeStep, InvocationStep
<1>1. ASSUME NEW e \in Envelopes, Producer(e) PROVE [Next]_coordinatorVars
  <2>1. CASE ReportRefusal(e)
    BY <2>1, EnvelopeKinds DEF ReportRefusal
  <2>2. CASE ~ReportRefusal(e)
    BY <1>1, <2>2 DEF Producer, DropFaulted, OfferReserves, OfferRefused,
                      StorePublish, StoreWake
  <2> QED
    BY <2>1, <2>2
<1>2. CASE PrepareDropped \/ PrepareFails
  BY <1>2, InboxHead DEF PrepareDropped, PrepareFails, CanPrepare
<1>3. CASE PrepareSucceeds
  BY <1>3, InboxHead DEF PrepareSucceeds, CanPrepare
<1>4. ASSUME NEW e \in Envelopes, Report(e) PROVE [Next]_coordinatorVars
  BY <1>4, EnvelopeKinds DEF Report, HealthStates
<1>5. CASE Top \/ ImportTake \/ Purge \/ ImportDone \/ RecheckDone \/ WakeUp
  BY <1>5 DEF Top, ImportTake, Purge, ImportDone, RecheckDone, WakeUp
<1>6. CASE SettleOne
  <2>1. Head(batch) \in Envelopes
    BY <1>6, BatchHead DEF SettleOne, PlacesInv, BatchExact
  <2> QED
    BY <1>6, <2>1 DEF SettleOne
<1>7. CASE Write /\ ~SettleOne
  BY <1>7 DEF Write, Collect, BatchOne, BatchDone, CommitRuntime,
              CommitUsers, Backoff, MarkHealthy, HealthStates
<1>8. CASE Fault
  BY <1>8 DEF Fault, RetryRuntime, RetryUsers, Retry, RejectUsers, Halt, HealthStates
<1>9. CASE Flush
  BY <1>9 DEF Flush, FlushBegins, FlushDrained, FlushChecked, FlushEnds,
              CloseStops, NoneButFlush
<1>10. CASE Signal
  BY <1>10 DEF Signal
<1>11. CASE UNCHANGED vars
  BY <1>11 DEF vars
<1> QED
  BY <1>1, <1>2, <1>3, <1>4, <1>5, <1>6, <1>7, <1>8, <1>9, <1>10, <1>11
  DEF DatabaseNext, Import

-----------------------------------------------------------------------------
(* The steps, by what they do to envelopes.                                *)

held == <<inbox, queues, dbReady, batch>>
fates == <<scenario, incoming, stage, abandoned, stored, errors, gaps,
           userGaps, durableVars, reporting, userFailed>>

(* No envelope moves and no fate is decided; only the writer may.          *)
Quiet ==
  /\ UNCHANGED <<held, fates>> /\ waking' \subseteq waking
  /\ failing' \in {failing, NoInvocation}
  /\ \/ pc' = pc
     \/ /\ pc # "exited" /\ (Importing => reporting = {})
        /\ pc = "persistUsers" => pc' = "exited"
        /\ pc' \in {"persistUsers", "committed", "settle"} =>
             pc = "committed" /\ pc' = "settle"

Taking == Importing /\ (TakeOne \/ TakeDropsFailed) /\ ImportTake
Purging == \E k \in Keys : Purge /\ PurgeOne(k)
Storing == CommitRuntime \/ RetryRuntime \/ CommitUsers \/ RetryUsers

Loud ==
  \/ \E e \in Envelopes :
       \/ DropFaulted(e) \/ OfferReserves(e) \/ OfferRefused(e)
       \/ ReportRefusal(e) \/ StorePublish(e) \/ Report(e)
  \/ Taking \/ Purging
  \/ PrepareDropped \/ PrepareFails \/ PrepareSucceeds
  \/ BatchOne \/ Storing \/ RejectUsers \/ Halt \/ SettleOne

LEMMA QuietOrLoud ==
  ASSUME [DatabaseNext]_vars
  PROVE  Quiet \/ Loud
<1> USE DEF producerVars, writerVars, backendVars, loopVars, flushVars,
            coordinatorVars, queueVars, faultVars, lockVars, held, fates,
            NoneButWriter, NoneButProducer, NoneButFlush, GoTo
<1>1. ASSUME NEW e \in Envelopes, Producer(e) PROVE Quiet \/ Loud
  BY <1>1 DEF Producer, Loud, StoreWake, Wake, Quiet
<1>2. CASE Signal \/ WakeUp \/ Collect \/ BatchDone \/ Backoff \/ RecheckDone
  BY <1>2 DEF Signal, WakeUp, Collect, BatchDone, Backoff, RecheckDone, Quiet,
              Importing, Imported
<1>3. CASE Top \/ ImportDone
  BY <1>3 DEF Top, ImportDone, BeginTake, Quiet, Importing, Imported
<1>4. CASE ImportTake
  <2>1. CASE EndTake
    BY <1>4, <2>1 DEF ImportTake, EndTake, TakeOne, TakeDropsFailed, Quiet
  <2>2. CASE ~EndTake
    BY <1>4, <2>2 DEF ImportTake, Taking, Loud
  <2> QED
    BY <2>1, <2>2
<1>5. CASE Purge
  <2>1. CASE \E k \in Keys : PurgeOne(k)
    BY <1>5, <2>1 DEF Purging, Loud
  <2>2. CASE EndFail
    BY <1>5, <2>2 DEF Purge, EndFail, Quiet
  <2> QED
    BY <1>5, <2>1, <2>2 DEF Purge
<1>6. CASE MarkHealthy
  BY <1>6 DEF MarkHealthy, SetHealth, Quiet, Importing
<1>7. CASE Flush
  BY <1>7 DEF Flush, FlushBegins, FlushDrained, FlushChecked, FlushEnds,
              CloseStops, Awaiting, Quiet, Importing
<1>8. CASE UNCHANGED vars
  BY <1>8 DEF vars, Quiet
<1>9. CASE Fault \/ (\E e \in Envelopes : Report(e))
  BY <1>9 DEF Fault, Loud, Storing
<1>10. CASE CommitRuntime \/ CommitUsers \/ BatchOne \/ SettleOne \/
            PrepareDropped \/ PrepareFails \/ PrepareSucceeds
  BY <1>10 DEF Loud, Storing
<1> QED
  BY <1>1, <1>2, <1>3, <1>4, <1>5, <1>6, <1>7, <1>8, <1>9, <1>10
  DEF DatabaseNext, Import, Write

-----------------------------------------------------------------------------
(* Nothing is lost, doubled or overtaken between the deques and the batch. *)

LEMMA StageMove ==
  ASSUME TypeOK, NEW e \in Envelopes, NEW s, MoveTo(e, s)
  PROVE  /\ stage'[e] = s
         /\ \A f \in Envelopes : f # e => stage'[f] = stage[f]
BY DEF TypeOK, MoveTo

LEMMA KeysApart ==
  ASSUME NEW e \in Envelopes, NEW f \in Envelopes, e.key # f.key
  PROVE  MayFollow(e, f) /\ MayFollow(f, e)
BY EnvelopesAssumption DEF MayFollow, Before, SameLine

LEMMA QueuedAre ==
  ASSUME IInv, NEW k \in Keys
  PROVE  /\ incoming[k] \in Seq(Envelopes)
         /\ \A e \in Range(incoming[k]) : e \in AtCoordinator /\ e.key = k
<1>1. incoming[k] \in Seq(Envelopes)
  BY DEF IInv, TypeOK
<1>2. ASSUME NEW e \in Range(incoming[k])
      PROVE  e \in AtCoordinator /\ e.key = k
  <2>1. PICK n \in 1 .. Len(incoming[k]) : e = incoming[k][n]
    BY <1>1, RangeOf
  <2> QED
    BY <2>1, <1>1 DEF IInv, QueuedExact, AtCoordinator
<1> QED
  BY <1>1, <1>2

(* A record that is still reserved precedes nothing that was handed over.  *)
LEMMA ReservedLast ==
  ASSUME FatesInv, NEW e \in Envelopes, NEW f \in Envelopes,
         stage[e] = "reserved", stage[f] \in {"queued", "taken", "settled"}
  PROVE  MayFollow(f, e)
<1>1. Offered(f) /\ e # f
  BY DEF Offered
<1>2. e \notin abandoned
  BY DEF FatesInv, AbandonedExcused
<1>3. ~Returned(e)
  BY <1>2 DEF Returned
<1>4. ~Before(e, f)
  BY <1>1, <1>3 DEF FatesInv, OfferedInOrder
<1> QED
  BY <1>1, <1>4 DEF MayFollow

(* The oldest envelope of a Session is the first of its line.              *)
LEMMA HeadFirst ==
  ASSUME IInv, PlacesInv, ready # <<>>
  PROVE  /\ NextToTake \in AtCoordinator
         /\ \A f \in AtCoordinator \ {NextToTake} : MayFollow(NextToTake, f)
<1> DEFINE e == NextToTake
           k == Head(ready)
<1>1. /\ k \in Keys /\ e \in Envelopes /\ incoming[k] \in Seq(Envelopes)
      /\ e = incoming[k][1] /\ stage[e] = "queued" /\ incoming[k] # <<>>
  BY HeadExists
<1>2. 1 \in 1 .. Len(incoming[k]) /\ e.key = k
  <2>1. 1 \in 1 .. Len(incoming[k])
    BY <1>1
  <2> QED
    BY <2>1, <1>1 DEF IInv, QueuedExact
<1>3. ASSUME NEW f \in AtCoordinator, f # e
      PROVE  MayFollow(e, f)
  <2>1. CASE f.key = k
    <3>1. PICK n \in 1 .. Len(incoming[k]) : incoming[k][n] = f
      BY <1>3, <2>1 DEF AtCoordinator, IInv, QueuedExact
    <3>2. n # 1 /\ 1 < n
      BY <1>1, <1>3, <3>1
    <3> QED
      BY <1>1, <1>2, <3>1, <3>2 DEF PlacesInv, InOrder, InLine
  <2>2. CASE f.key # k
    BY <1>1, <1>2, <2>2, KeysApart DEF AtCoordinator
  <2> QED
    BY <2>1, <2>2
<1> QED
  BY <1>1, <1>3 DEF AtCoordinator

(* Steps that move no envelope from one place to another.                  *)
LEMMA PlacesKept ==
  ASSUME PlacesInv, UNCHANGED <<held, incoming>>,
         pc = "exited" => pc' = "exited",
         \A e \in Envelopes : /\ stage'[e] = "taken" <=> stage[e] = "taken"
                              /\ stage'[e] = "queued" <=> stage[e] = "queued"
  PROVE  OrderExact' /\ Held' /\ InOrder'
<1>1. /\ Imports' = Imports /\ Prepared' = Prepared /\ InHand' = InHand
      /\ AtCoordinator' = AtCoordinator
  BY DEF held, Imports, Prepared, InHand, AtCoordinator
<1>2. OrderExact'
  BY DEF PlacesInv, OrderExact, held
<1>3. Imports \cup Prepared \cup InHand \subseteq Envelopes
  <2>1. \A k \in Keys : Range(queues[k]) \subseteq Envelopes
    BY RangeOf DEF PlacesInv, PipelineTypeOK
  <2> QED
    BY <2>1, RangeOf DEF PlacesInv, PipelineTypeOK, Imports, Prepared, InHand
<1>4. Held'
  BY <1>1, <1>3 DEF PlacesInv, Held
<1>5. InOrder'
  BY <1>1 DEF PlacesInv, InOrder, held
<1> QED
  BY <1>2, <1>4, <1>5

(* publish.                                                                *)
LEMMA PublishKeepsPlaces ==
  ASSUME IInv, PlacesInv, FatesInv, NEW e \in Envelopes, StorePublish(e)
  PROVE  OrderExact' /\ Held' /\ InOrder'
<1>1. /\ UNCHANGED <<held, pc>> /\ stage[e] = "reserved" /\ MoveTo(e, "queued")
      /\ incoming' = [incoming EXCEPT ![e.key] = Append(@, e)]
  BY DEF StorePublish, Publish, held, NoneButProducer, writerVars, backendVars
<1>2. /\ Imports' = Imports /\ Prepared' = Prepared /\ InHand' = InHand
  BY <1>1 DEF held, Imports, Prepared, InHand
<1>3. /\ stage'[e] = "queued"
      /\ \A f \in Envelopes : f # e => stage'[f] = stage[f]
  BY <1>1, StageMove DEF IInv
<1>4. AtCoordinator' = AtCoordinator \cup {e}
  BY <1>3 DEF AtCoordinator
<1>5. \A f \in Envelopes : stage[f] \in {"queued", "taken"} => MayFollow(f, e)
  BY <1>1, ReservedLast
<1>6. /\ Imports \cup Prepared \cup InHand \subseteq Envelopes
      /\ \A f \in Imports \cup Prepared \cup InHand : stage[f] = "taken"
  <2>1. \A k \in Keys : Range(queues[k]) \subseteq Envelopes
    BY RangeOf DEF PlacesInv, PipelineTypeOK
  <2> QED
    BY <2>1, RangeOf
    DEF PlacesInv, PipelineTypeOK, Imports, Prepared, InHand, Held
<1>7. OrderExact'
  BY <1>1 DEF PlacesInv, OrderExact, held
<1>8. Held'
  BY <1>1, <1>2, <1>3, <1>6 DEF PlacesInv, Held
<1>9. ASSUME NEW k \in Keys PROVE InLine(incoming'[k])
  <2>1. CASE k = e.key
    <3>1. incoming'[k] = Append(incoming[k], e)
      BY <1>1, <2>1 DEF IInv, TypeOK
    <3>2. \A f \in Range(incoming[k]) : MayFollow(f, e)
      BY <1>5, QueuedAre DEF AtCoordinator
    <3>3. InLine(incoming[k]) /\ incoming[k] \in Seq(Envelopes)
      BY QueuedAre DEF PlacesInv, InOrder
    <3> QED
      BY <3>1, <3>2, <3>3, LineAppend
  <2>2. CASE k # e.key
    BY <1>1, <2>2 DEF IInv, TypeOK, PlacesInv, InOrder
  <2> QED
    BY <2>1, <2>2
<1>10. /\ AllBefore(InHand, Prepared \cup Imports \cup AtCoordinator \cup {e})
       /\ AllBefore(Prepared, Imports \cup AtCoordinator \cup {e})
       /\ AllBefore(Imports, AtCoordinator \cup {e})
  BY <1>5, <1>6 DEF PlacesInv, InOrder, AllBefore
<1>11. InOrder'
  BY <1>1, <1>2, <1>4, <1>9, <1>10 DEF PlacesInv, InOrder, held, AllBefore
<1> QED
  BY <1>7, <1>8, <1>11

(* What the writer holds are envelopes that were taken.                    *)
LEMMA HeldAre ==
  ASSUME PlacesInv
  PROVE  /\ Imports \cup Prepared \cup InHand \subseteq Envelopes
         /\ \A f \in Imports \cup Prepared \cup InHand : stage[f] = "taken"
         /\ \A k \in Keys : /\ queues[k] \in Seq(Envelopes)
                            /\ Range(queues[k]) \subseteq Prepared
<1>1. \A k \in Keys : /\ queues[k] \in Seq(Envelopes)
                      /\ Range(queues[k]) \subseteq Envelopes
  BY RangeOf DEF PlacesInv, PipelineTypeOK
<1>2. Imports \cup Prepared \cup InHand \subseteq Envelopes
  BY <1>1, RangeOf DEF PlacesInv, PipelineTypeOK, Imports, Prepared, InHand
<1> QED
  BY <1>1, <1>2 DEF PlacesInv, Held, Prepared

(* An envelope leaves a deque: dropped by take or by the purge.            *)
LEMMA DropKeepsPlaces ==
  ASSUME PlacesInv, UNCHANGED <<held, pc>>,
         NEW e \in AtCoordinator, AtCoordinator' = AtCoordinator \ {e},
         \A f \in Envelopes : stage'[f] = "taken" <=> stage[f] = "taken",
         \A k \in Keys : InLine(incoming'[k])
  PROVE  OrderExact' /\ Held' /\ InOrder'
<1>1. /\ Imports' = Imports /\ Prepared' = Prepared /\ InHand' = InHand
  BY DEF held, Imports, Prepared, InHand
<1>2. OrderExact'
  BY DEF PlacesInv, OrderExact, held
<1>3. Held'
  BY <1>1, HeldAre DEF PlacesInv, Held
<1>4. InOrder'
  BY <1>1 DEF PlacesInv, InOrder, held, AllBefore
<1> QED
  BY <1>2, <1>3, <1>4

(* take: the head of a deque becomes the last import, or is dropped.       *)
LEMMA TakeKeepsPlaces ==
  ASSUME IInv, PlacesInv, Taking
  PROVE  OrderExact' /\ Held' /\ InOrder'
<1> DEFINE e == NextToTake
           k == Head(ready)
<1>1. /\ ready # <<>> /\ incoming' = [incoming EXCEPT ![k] = Tail(@)]
      /\ UNCHANGED <<pc, queues, dbReady, batch>>
  BY DEF Taking, ImportTake, TakeOne, TakeDropsFailed, PopHead, backendVars
<1>2. /\ k \in Keys /\ incoming[k] \in Seq(Envelopes) /\ incoming[k] # <<>>
      /\ e \in Envelopes /\ stage[e] = "queued" /\ TypeOK
  BY <1>1, HeadExists DEF IInv
<1>3. \A x \in Keys : InLine(incoming'[x])
  <2>1. InLine(Tail(incoming[k]))
    BY <1>2, LineTail DEF PlacesInv, InOrder
  <2> QED
    BY <2>1, <1>1, <1>2 DEF TypeOK, PlacesInv, InOrder
<1>4. e \in AtCoordinator /\ \A f \in AtCoordinator \ {e} : MayFollow(e, f)
  BY <1>1, HeadFirst
<1>5. CASE TakeDropsFailed
  <2>1. UNCHANGED inbox /\ MoveTo(e, "settled")
    BY <1>5 DEF Taking, ImportTake, TakeDropsFailed, TakeOne
  <2>2. stage'[e] = "settled" /\ \A f \in Envelopes : f # e => stage'[f] = stage[f]
    BY <1>2, <2>1, StageMove
  <2>3. AtCoordinator' = AtCoordinator \ {e}
    BY <1>2, <2>2 DEF AtCoordinator
  <2>4. UNCHANGED <<held, pc>>
    BY <1>1, <2>1 DEF held
  <2>5. \A f \in Envelopes : stage'[f] = "taken" <=> stage[f] = "taken"
    BY <1>2, <2>2
  <2> QED
    BY <1>3, <1>4, <2>3, <2>4, <2>5, DropKeepsPlaces
<1>6. CASE TakeOne
  <2>1. inbox' = Append(inbox, e) /\ MoveTo(e, "taken")
    BY <1>6 DEF Taking, ImportTake, TakeDropsFailed, TakeOne, EndTake
  <2>2. stage'[e] = "taken" /\ \A f \in Envelopes : f # e => stage'[f] = stage[f]
    BY <1>2, <2>1, StageMove
  <2>3. AtCoordinator' = AtCoordinator \ {e}
    BY <1>2, <2>2 DEF AtCoordinator
  <2>4. Imports' = Imports \cup {e} /\ Prepared' = Prepared /\ InHand' = InHand
    BY <1>1, <1>2, <2>1, RangeAppend
    DEF Imports, Prepared, InHand, PlacesInv, PipelineTypeOK
  <2>5. InLine(inbox')
    BY <1>2, <1>4, <2>1, LineAppend
    DEF PlacesInv, InOrder, PipelineTypeOK, AllBefore, Imports
  <2>6. OrderExact'
    BY <1>1 DEF PlacesInv, OrderExact
  <2>7. Held'
    BY <1>1, <1>2, <2>2, <2>4, HeldAre DEF PlacesInv, Held
  <2>8. /\ AllBefore(InHand', Prepared' \cup Imports' \cup AtCoordinator')
        /\ AllBefore(Prepared', Imports' \cup AtCoordinator')
        /\ AllBefore(Imports', AtCoordinator')
    BY <1>4, <2>3, <2>4 DEF PlacesInv, InOrder, AllBefore
  <2>9. InOrder'
    BY <1>1, <1>3, <2>5, <2>8 DEF PlacesInv, InOrder, AllBefore
  <2> QED
    BY <2>6, <2>7, <2>9
<1> QED
  BY <1>5, <1>6 DEF Taking

(* The purge of fail_invocation.                                           *)
LEMMA PurgeKeepsPlaces ==
  ASSUME IInv, PlacesInv, Purging
  PROVE  OrderExact' /\ Held' /\ InOrder'
<1>1. PICK k \in Keys : Purge /\ PurgeOne(k)
  BY DEF Purging
<1>2. PICK j \in Doomed(k) :
        /\ incoming' = [incoming EXCEPT ![k] = RemoveAt(@, j)]
        /\ MoveTo(incoming[k][j], "settled")
  BY <1>1 DEF PurgeOne
<1> DEFINE e == incoming[k][j]
<1>3. j \in 1 .. Len(incoming[k]) /\ incoming[k] \in Seq(Envelopes)
  BY QueuedAre DEF Doomed
<1>4. e \in Envelopes /\ e \in AtCoordinator /\ stage[e] = "queued"
  BY <1>3, QueuedAre, RangeOf DEF AtCoordinator
<1>5. stage'[e] = "settled" /\ \A f \in Envelopes : f # e => stage'[f] = stage[f]
  BY <1>2, <1>4, StageMove DEF IInv
<1>6. AtCoordinator' = AtCoordinator \ {e}
  BY <1>4, <1>5 DEF AtCoordinator
<1>7. \A x \in Keys : InLine(incoming'[x])
  <2>1. InLine(RemoveAt(incoming[k], j))
    BY <1>3, LineRemoveAt DEF PlacesInv, InOrder
  <2> QED
    BY <2>1, <1>2 DEF IInv, TypeOK, PlacesInv, InOrder
<1>8. UNCHANGED <<held, pc>>
  BY <1>1 DEF Purge, held, writerVars, backendVars
<1>9. \A f \in Envelopes : stage'[f] = "taken" <=> stage[f] = "taken"
  BY <1>4, <1>5
<1> HIDE DEF e
<1> QED
  BY <1>4, <1>6, <1>7, <1>8, <1>9, DropKeepsPlaces

(* An import that is dropped or cannot be prepared.                        *)
LEMMA GiveUpKeepsPlaces ==
  ASSUME IInv, PlacesInv, PrepareDropped \/ PrepareFails
  PROVE  OrderExact' /\ Held' /\ InOrder'
<1> DEFINE e == Head(inbox)
<1>1. /\ inbox # <<>> /\ inbox' = Tail(inbox) /\ MoveTo(e, "settled")
      /\ UNCHANGED <<incoming, pc, queues, dbReady, batch>>
  BY DEF PrepareDropped, PrepareFails, CanPrepare, Discard, Settle,
         backendVars, queueVars
<1>2. /\ e \in Envelopes /\ e \in Imports /\ stage[e] = "taken"
      /\ InLine(inbox') /\ Imports' = Imports \ {e}
  BY <1>1, InboxHead DEF Imports
<1>3. stage'[e] = "settled" /\ \A f \in Envelopes : f # e => stage'[f] = stage[f]
  BY <1>1, <1>2, StageMove DEF IInv
<1>4. /\ Prepared' = Prepared /\ InHand' = InHand /\ AtCoordinator' = AtCoordinator
  BY <1>1, <1>2, <1>3 DEF Prepared, InHand, AtCoordinator
<1>5. OrderExact'
  BY <1>1 DEF PlacesInv, OrderExact
<1>6. e \notin Prepared \cup InHand
  BY <1>2 DEF PlacesInv, InOrder, AllBefore, MayFollow
<1> HIDE DEF e
<1>7. Held'
  BY <1>1, <1>2, <1>3, <1>4, <1>6, HeldAre DEF PlacesInv, Held
<1>8. InOrder'
  BY <1>1, <1>2, <1>4 DEF PlacesInv, InOrder, AllBefore
<1> QED
  BY <1>5, <1>7, <1>8

(* A prepared import joins the queue of its Session.                       *)
LEMMA PrepareKeepsPlaces ==
  ASSUME IInv, PlacesInv, PrepareSucceeds
  PROVE  /\ OrderExact' /\ Held' /\ InOrder'
         /\ Imports' = Imports \ {Head(inbox)}
         /\ Prepared' = Prepared \cup {Head(inbox)}
         /\ InHand' = InHand /\ AtCoordinator' = AtCoordinator
<1> DEFINE e == Head(inbox)
<1>1. /\ inbox # <<>> /\ inbox' = Tail(inbox)
      /\ queues' = [queues EXCEPT ![e.key] = Append(@, e)]
      /\ dbReady' = IF queues[e.key] = <<>> THEN Append(dbReady, e.key) ELSE dbReady
      /\ UNCHANGED <<incoming, stage, pc, batch>>
  BY DEF PrepareSucceeds, CanPrepare, AdjustSize, queueVars
<1>2. /\ e \in Envelopes /\ e \in Imports /\ e.key \in Keys
      /\ InLine(inbox') /\ Imports' = Imports \ {e}
      /\ \A f \in Imports \ {e} : MayFollow(e, f)
  BY <1>1, InboxHead, EnvelopeFields DEF Imports
<1>3. /\ queues \in [Keys -> Seq(Envelopes)] /\ dbReady \in Seq(Keys)
  BY DEF PlacesInv, PipelineTypeOK
<1> HIDE DEF e
<1>4. /\ queues'[e.key] = Append(queues[e.key], e)
      /\ \A k \in Keys : k # e.key => queues'[k] = queues[k]
      /\ queues[e.key] \in Seq(Envelopes)
  BY <1>1, <1>2, <1>3
<1>5. /\ Range(queues'[e.key]) = Range(queues[e.key]) \cup {e}
      /\ queues'[e.key] # <<>>
  <2>1. Append(queues[e.key], e) # <<>>
    BY <1>2, <1>4
  <2>2. Range(Append(queues[e.key], e)) = Range(queues[e.key]) \cup {e}
    BY <1>2, <1>4, RangeAppend
  <2> QED
    BY <1>4, <2>1, <2>2
<1>6. Prepared' = Prepared \cup {e}
  <2>1. \A k \in Keys : /\ Range(queues[k]) \subseteq Range(queues'[k])
                        /\ Range(queues'[k]) \subseteq Range(queues[k]) \cup {e}
    BY <1>4, <1>5
  <2>2. e \in Range(queues'[e.key])
    BY <1>5
  <2> QED
    BY <1>2, <2>1, <2>2 DEF Prepared
<1>7. InHand' = InHand /\ AtCoordinator' = AtCoordinator
  BY <1>1 DEF InHand, AtCoordinator
<1>8. OrderExact'
  <2>1. CASE queues[e.key] = <<>>
    <3>1. /\ Len(dbReady') = Len(dbReady) + 1 /\ dbReady'[Len(dbReady) + 1] = e.key
          /\ \A n \in 1 .. Len(dbReady) : dbReady'[n] = dbReady[n]
      BY <1>1, <1>2, <1>3, <2>1
    <3>2. \A n \in 1 .. Len(dbReady) : dbReady[n] # e.key /\ dbReady[n] \in Keys
      BY <1>3, <2>1 DEF PlacesInv, OrderExact
    <3>3. \A n \in 1 .. Len(dbReady') : n \in 1 .. Len(dbReady) \/ n = Len(dbReady) + 1
      BY <1>3, <3>1
    <3>4. \A n \in 1 .. Len(dbReady') : queues'[dbReady'[n]] # <<>>
      BY <1>4, <1>5, <3>1, <3>2, <3>3 DEF PlacesInv, OrderExact
    <3>5. \A m, n \in 1 .. Len(dbReady') : dbReady'[m] = dbReady'[n] => m = n
      BY <3>1, <3>2, <3>3 DEF PlacesInv, OrderExact
    <3> QED
      BY <3>4, <3>5 DEF OrderExact
  <2>2. CASE queues[e.key] # <<>>
    <3>1. dbReady' = dbReady
      BY <1>1, <2>2
    <3>2. \A n \in 1 .. Len(dbReady) : dbReady[n] \in Keys
      BY <1>3
    <3> QED
      BY <1>4, <1>5, <3>1, <3>2 DEF PlacesInv, OrderExact
  <2> QED
    BY <2>1, <2>2
<1>9. Held'
  BY <1>1, <1>2, <1>6, <1>7 DEF PlacesInv, Held
<1>10. InLine(queues'[e.key])
  <2>1. \A f \in Range(queues[e.key]) : MayFollow(f, e)
    BY <1>2, HeldAre DEF PlacesInv, InOrder, AllBefore
  <2> QED
    BY <1>2, <1>4, <2>1, LineAppend DEF PlacesInv, InOrder
<1>11. \A k \in Keys : /\ InLine(incoming'[k]) /\ InLine(queues'[k])
                       /\ \A f \in Range(queues'[k]) : f.key = k
  BY <1>1, <1>4, <1>5, <1>10 DEF PlacesInv, InOrder
<1>12. /\ AllBefore(InHand', Prepared' \cup Imports' \cup AtCoordinator')
       /\ AllBefore(Prepared', Imports' \cup AtCoordinator')
       /\ AllBefore(Imports', AtCoordinator')
  BY <1>2, <1>6, <1>7 DEF PlacesInv, InOrder, AllBefore
<1>13. InOrder'
  BY <1>1, <1>2, <1>11, <1>12 DEF PlacesInv, InOrder, AllBefore
<1> QED
  BY <1>2, <1>6, <1>7, <1>8, <1>9, <1>13 DEF e

(* One turn of _take_batch.                                                *)
LEMMA BatchKeepsPlaces ==
  ASSUME IInv, PlacesInv, BatchOne
  PROVE  /\ OrderExact' /\ Held' /\ InOrder'
         /\ Imports' = Imports /\ AtCoordinator' = AtCoordinator
         /\ InHand' \subseteq InHand \cup Prepared
         /\ Prepared' \subseteq Prepared
<1> DEFINE k == Head(dbReady)
           e == Head(queues[k])
           deferred == batch # <<>> /\ BytesOf(batch) + e.exact > BatchBytes
<1>1. /\ dbReady # <<>> /\ UNCHANGED <<incoming, stage, inbox>> /\ pc # "exited"
      /\ IF deferred THEN UNCHANGED <<batch, queues>>
         ELSE /\ batch' = Append(batch, e)
              /\ queues' = [queues EXCEPT ![k] = Tail(@)]
      /\ dbReady' = IF queues'[k] # <<>> THEN Append(Tail(dbReady), k)
                    ELSE Tail(dbReady)
  BY DEF BatchOne, coordinatorVars, queueVars
<1>2. /\ queues \in [Keys -> Seq(Envelopes)] /\ dbReady \in Seq(Keys)
      /\ batch \in Seq(Envelopes)
  BY DEF PlacesInv, PipelineTypeOK
<1>3. /\ k = dbReady[1] /\ k \in Keys /\ Len(dbReady) \in Nat \ {0}
      /\ Tail(dbReady) \in Seq(Keys) /\ Len(Tail(dbReady)) = Len(dbReady) - 1
      /\ \A n \in 1 .. Len(dbReady) - 1 : Tail(dbReady)[n] = dbReady[n + 1]
  BY <1>1, <1>2
<1>4. queues[k] # <<>> /\ queues[k] \in Seq(Envelopes) /\ InLine(queues[k])
  BY <1>2, <1>3 DEF PlacesInv, OrderExact, InOrder
<1>5. /\ e \in Envelopes /\ e \in Range(queues[k])
      /\ Tail(queues[k]) \in Seq(Envelopes) /\ InLine(Tail(queues[k]))
      /\ Range(Tail(queues[k])) = Range(queues[k]) \ {e}
      /\ \A f \in Range(queues[k]) \ {e} : MayFollow(e, f)
  BY <1>4, LineTail
<1>6. e.key = k /\ e \in Prepared
  BY <1>3, <1>5, HeldAre DEF PlacesInv, InOrder
<1> HIDE DEF k, e, deferred
<1>7. \A x \in Keys : x # k => queues'[x] = queues[x]
  BY <1>1, <1>2
<1>8. OrderExact'
  <2>1. \A n \in 1 .. Len(dbReady) - 1 :
          /\ dbReady[n + 1] # k /\ dbReady[n + 1] \in Keys
          /\ queues'[dbReady[n + 1]] # <<>>
    BY <1>2, <1>3, <1>7 DEF PlacesInv, OrderExact
  <2>2. \A m, n \in 1 .. Len(dbReady) - 1 : dbReady[m + 1] = dbReady[n + 1] => m = n
    BY <1>3 DEF PlacesInv, OrderExact
  <2>3. CASE queues'[k] # <<>>
    <3>1. /\ Len(dbReady') = Len(dbReady) /\ dbReady'[Len(dbReady)] = k
          /\ \A n \in 1 .. Len(dbReady) - 1 : dbReady'[n] = dbReady[n + 1]
      BY <1>1, <1>3, <2>3
    <3>2. \A n \in 1 .. Len(dbReady) : n \in 1 .. Len(dbReady) - 1 \/ n = Len(dbReady)
      <4>1. Len(dbReady) \in Nat
        BY <1>3
      <4> QED
        BY <4>1
    <3>3. \A n \in 1 .. Len(dbReady') : queues'[dbReady'[n]] # <<>>
      BY <2>1, <2>3, <3>1, <3>2
    <3>4. \A m, n \in 1 .. Len(dbReady') : dbReady'[m] = dbReady'[n] => m = n
      BY <2>1, <2>2, <3>1, <3>2
    <3> QED
      BY <3>3, <3>4 DEF OrderExact
  <2>4. CASE queues'[k] = <<>>
    <3>1. dbReady' = Tail(dbReady)
      BY <1>1, <2>4
    <3>2. /\ Len(dbReady') = Len(dbReady) - 1
          /\ \A n \in 1 .. Len(dbReady) - 1 : dbReady'[n] = dbReady[n + 1]
      BY <1>3, <3>1
    <3> QED
      BY <2>1, <2>2, <3>2 DEF OrderExact
  <2> QED
    BY <2>3, <2>4
<1>9. Imports' = Imports /\ AtCoordinator' = AtCoordinator
  BY <1>1 DEF Imports, AtCoordinator
<1>10. CASE deferred
  <2>1. UNCHANGED <<batch, queues>>
    BY <1>1, <1>10
  <2>2. InHand' = InHand /\ Prepared' = Prepared
    BY <2>1 DEF InHand, Prepared
  <2>3. Held'
    BY <1>1, <1>9, <2>2 DEF PlacesInv, Held
  <2>4. InOrder'
    BY <1>1, <1>9, <2>1, <2>2 DEF PlacesInv, InOrder
  <2> QED
    BY <1>8, <1>9, <2>2, <2>3, <2>4
<1>11. CASE ~deferred
  <2>1. batch' = Append(batch, e) /\ queues' = [queues EXCEPT ![k] = Tail(@)]
    BY <1>1, <1>11
  <2>2. queues'[k] = Tail(queues[k])
    BY <1>2, <1>3, <2>1
  <2>3. InHand' = InHand \cup {e}
    BY <1>2, <1>5, <2>1, RangeAppend DEF InHand
  <2>4. \A x \in Keys : /\ Range(queues'[x]) \subseteq Range(queues[x])
                        /\ Range(queues[x]) \subseteq Range(queues'[x]) \cup {e}
                        /\ InLine(queues'[x])
                        /\ e \notin Range(queues'[x])
    BY <1>3, <1>5, <1>6, <1>7, <2>2 DEF PlacesInv, InOrder
  <2>5. Prepared' \subseteq Prepared \ {e} /\ Prepared \subseteq Prepared' \cup {e}
    BY <2>4 DEF Prepared
  <2>6. Held'
    BY <1>1, <1>6, <1>9, <2>3, <2>5 DEF PlacesInv, Held
  <2>7. InLine(batch')
    BY <1>2, <1>5, <1>6, <2>1, LineAppend DEF PlacesInv, InOrder, AllBefore, InHand
  <2>8. \A f \in Prepared' : MayFollow(e, f)
    <3>1. SUFFICES ASSUME NEW x \in Keys, NEW f \in Range(queues'[x])
                   PROVE  MayFollow(e, f)
      BY DEF Prepared
    <3>2. f \in Range(queues[x]) /\ f # e /\ f.key = x /\ f \in Envelopes
      BY <2>4, HeldAre DEF PlacesInv, InOrder
    <3>3. CASE x = k
      BY <1>5, <3>2, <3>3
    <3>4. CASE x # k
      BY <1>5, <1>6, <3>2, <3>4, KeysApart
    <3> QED
      BY <3>3, <3>4
  <2>9. /\ AllBefore(InHand', Prepared' \cup Imports' \cup AtCoordinator')
        /\ AllBefore(Prepared', Imports' \cup AtCoordinator')
        /\ AllBefore(Imports', AtCoordinator')
    BY <1>6, <1>9, <2>3, <2>5, <2>8 DEF PlacesInv, InOrder, AllBefore
  <2>10. InOrder'
    BY <1>1, <2>4, <2>7, <2>9 DEF PlacesInv, InOrder, AllBefore
  <2>11. InHand' \subseteq InHand \cup Prepared /\ Prepared' \subseteq Prepared
    BY <1>6, <2>3, <2>5
  <2> QED
    BY <1>8, <1>9, <2>3, <2>6, <2>10, <2>11
<1> QED
  BY <1>10, <1>11

(* The settlement of the first item of the batch.                          *)
LEMMA SettleKeepsPlaces ==
  ASSUME IInv, PlacesInv, SettleOne
  PROVE  /\ OrderExact' /\ Held' /\ InOrder'
         /\ Imports' = Imports /\ Prepared' = Prepared
         /\ AtCoordinator' = AtCoordinator
         /\ InHand' = InHand \ {Head(batch)}
<1> DEFINE e == Head(batch)
<1>1. /\ batch # <<>> /\ batch' = Tail(batch) /\ MoveTo(e, "settled")
      /\ UNCHANGED <<incoming, inbox, queues, dbReady>> /\ pc # "exited"
  <2>1. batch # <<>>
    BY DEF SettleOne, PlacesInv, BatchExact
  <2> QED
    BY <2>1 DEF SettleOne, MarkDurable, MarkAdmissionDurable,
                MarkUserEventsDurable, Discard, Settle, backendVars, queueVars
<1>2. /\ e \in Envelopes /\ e \in InHand /\ stage[e] = "taken"
      /\ InLine(batch') /\ InHand' = InHand \ {e}
  BY <1>1, BatchHead DEF InHand
<1>3. stage'[e] = "settled" /\ \A f \in Envelopes : f # e => stage'[f] = stage[f]
  BY <1>1, <1>2, StageMove DEF IInv
<1>4. /\ Prepared' = Prepared /\ Imports' = Imports /\ AtCoordinator' = AtCoordinator
  BY <1>1, <1>2, <1>3 DEF Prepared, Imports, AtCoordinator
<1>5. OrderExact'
  BY <1>1 DEF PlacesInv, OrderExact
<1>6. e \notin Prepared \cup Imports
  BY <1>2 DEF PlacesInv, InOrder, AllBefore, MayFollow
<1> HIDE DEF e
<1>7. Held'
  BY <1>1, <1>2, <1>3, <1>4, <1>6, HeldAre DEF PlacesInv, Held
<1>8. InOrder'
  BY <1>1, <1>2, <1>4 DEF PlacesInv, InOrder, AllBefore
<1> QED
  BY <1>2, <1>4, <1>5, <1>7, <1>8 DEF e

(* The writer stops for good.                                              *)
LEMMA HaltKeepsPlaces ==
  ASSUME PlacesInv, Halt
  PROVE  /\ OrderExact' /\ Held' /\ InOrder'
         /\ Imports' = Imports /\ AtCoordinator' = AtCoordinator
         /\ Prepared' = {} /\ InHand' = {}
<1>1. /\ batch' = <<>> /\ queues' = [k \in Keys |-> <<>>] /\ dbReady' = <<>>
      /\ pc' = "exited" /\ UNCHANGED <<inbox, incoming, stage>>
  BY DEF Halt, SetHealth, GoTo, queueVars
<1>2. Imports' = Imports /\ AtCoordinator' = AtCoordinator
  BY <1>1 DEF Imports, AtCoordinator
<1>3. \A x : x \notin Range(<<>>)
  BY DEF Range
<1>4. Prepared' = {} /\ InHand' = {}
  BY <1>1, <1>3 DEF Prepared, InHand
<1>5. OrderExact'
  BY <1>1 DEF OrderExact
<1>6. Held'
  BY <1>1, <1>2, <1>4 DEF PlacesInv, Held
<1>7. InLine(<<>>)
  BY DEF InLine
<1>8. InOrder'
  BY <1>1, <1>2, <1>3, <1>4, <1>7 DEF PlacesInv, InOrder, AllBefore
<1> QED
  BY <1>2, <1>4, <1>5, <1>6, <1>8

(* Every step keeps the places exact and in order.                         *)
LEMMA PlacesPreserved ==
  ASSUME IInv, PlacesInv, FatesInv, [DatabaseNext]_vars
  PROVE  OrderExact' /\ Held' /\ InOrder'
<1>1. CASE Quiet
  BY <1>1, PlacesKept DEF Quiet, held, fates
<1>2. ASSUME NEW e \in Envelopes, OfferReserves(e) \/ OfferRefused(e)
      PROVE  OrderExact' /\ Held' /\ InOrder'
  <2>1. /\ UNCHANGED <<held, incoming, pc>> /\ stage[e] = "new"
        /\ \E s \in {"reserved", "refused"} : MoveTo(e, s)
    BY <1>2 DEF OfferReserves, OfferRefused, Reserve, Refuse, held, queueVars,
                NoneButProducer, writerVars, backendVars
  <2>2. \A f \in Envelopes : /\ stage'[f] = "taken" <=> stage[f] = "taken"
                             /\ stage'[f] = "queued" <=> stage[f] = "queued"
    BY <2>1, StageMove DEF IInv
  <2> QED
    BY <2>1, <2>2, PlacesKept
<1>3. ASSUME NEW e \in Envelopes, DropFaulted(e) \/ ReportRefusal(e) \/ Report(e)
      PROVE  OrderExact' /\ Held' /\ InOrder'
  <2>1. UNCHANGED <<held, incoming, pc, stage>>
    BY <1>3 DEF DropFaulted, ReportRefusal, Report, DegradeInvocation,
                DegradeUserEvents, BeginFail, SetHealth, held, coordinatorVars,
                queueVars, NoneButProducer, writerVars, backendVars
  <2> QED
    BY <2>1, PlacesKept
<1>4. CASE Storing \/ RejectUsers
  <2>1. UNCHANGED <<held, incoming, stage>> /\ pc # "exited"
    BY <1>4 DEF Storing, CommitRuntime, CommitUsers, RetryRuntime, RetryUsers,
                Retry, RejectUsers, SetHealth, held, coordinatorVars,
                queueVars, backendVars
  <2> QED
    BY <2>1, PlacesKept
<1> QED
  BY <1>1, <1>2, <1>3, <1>4, QuietOrLoud, PublishKeepsPlaces, TakeKeepsPlaces,
     PurgeKeepsPlaces, GiveUpKeepsPlaces, PrepareKeepsPlaces, BatchKeepsPlaces,
     SettleKeepsPlaces, HaltKeepsPlaces
  DEF Loud

(* The batch, while it is used, is not empty.                              *)
LEMMA BatchExactPreserved ==
  ASSUME PlacesInv, [DatabaseNext]_vars
  PROVE  BatchExact'
<1> USE DEF BatchExact, PlacesInv, NoneButWriter, GoTo, writerVars, backendVars
<1>1. ASSUME NEW e \in Envelopes, Producer(e) PROVE BatchExact'
  BY <1>1 DEF Producer, DropFaulted, OfferReserves, OfferRefused,
              ReportRefusal, StorePublish, StoreWake, NoneButProducer
<1>2. CASE ImportTake \/ Purge \/ \E e \in Envelopes : Report(e)
  BY <1>2 DEF ImportTake, Purge, Report
<1>3. CASE Top \/ ImportDone \/ RecheckDone \/ WakeUp
  BY <1>3 DEF Top, ImportDone, RecheckDone, WakeUp
<1>4. CASE PrepareDropped \/ PrepareFails \/ PrepareSucceeds
  BY <1>4 DEF PrepareDropped, PrepareFails, PrepareSucceeds, CanPrepare, Importing
<1>5. CASE BatchOne
  <2>1. \/ batch # <<>> /\ batch' = batch
        \/ batch' = Append(batch, Head(queues[Head(dbReady)]))
    BY <1>5 DEF BatchOne
  <2>2. \A x : Append(batch, x) # <<>>
    BY DEF PipelineTypeOK
  <2> QED
    BY <1>5, <2>1, <2>2 DEF BatchOne
<1>6. CASE SettleOne
  <2>1. batch \in Seq(Envelopes) /\ batch # <<>>
    BY <1>6 DEF SettleOne, PipelineTypeOK
  <2>2. Len(batch) # 1 => Tail(batch) # <<>>
    <3>1. Len(Tail(batch)) = Len(batch) - 1 /\ Tail(batch) \in Seq(Envelopes)
      BY <2>1
    <3>2. Len(batch) > 0 /\ Len(batch) \in Nat
      BY <2>1, NonEmptyLength
    <3> QED
      BY <3>1, <3>2, NonEmptyLength
  <2> QED
    BY <1>6, <2>2 DEF SettleOne
<1>7. CASE BatchDone
  <2>1. Len(batch) = TakeLimit => batch # <<>>
    BY LimitAssumption
  <2> QED
    BY <1>7, <2>1 DEF BatchDone
<1>8. CASE Collect \/ CommitRuntime \/ CommitUsers \/ Backoff \/ MarkHealthy
  BY <1>8 DEF Collect, CommitRuntime, CommitUsers, Backoff, MarkHealthy
<1>9. CASE Fault
  BY <1>9 DEF Fault, RetryRuntime, RetryUsers, Retry, RejectUsers, Halt
<1>10. CASE Flush
  BY <1>10 DEF Flush, FlushBegins, FlushDrained, FlushChecked, FlushEnds,
               CloseStops, NoneButFlush
<1>11. CASE Signal \/ UNCHANGED vars
  BY <1>11 DEF Signal, vars
<1> QED
  BY <1>1, <1>2, <1>3, <1>4, <1>5, <1>6, <1>7, <1>8, <1>9, <1>10, <1>11
  DEF DatabaseNext, Import, Write

(* The state of the pipeline stays well formed.                            *)
LEMMA FlushedStep ==
  ASSUME [DatabaseNext]_vars
  PROVE  \/ UNCHANGED <<flush, flushed>>
         \/ UNCHANGED <<flushed, coordinatorVars, stored>> /\ pc \in Awaiting
              /\ flush' \in {"draining", "closed"}
         \/ flushed' = {}
         \/ FlushDrained \/ FlushChecked
<1> USE DEF flushVars
<1>1. ASSUME NEW e \in Envelopes, Producer(e) PROVE UNCHANGED <<flush, flushed>>
  BY <1>1 DEF Producer, DropFaulted, OfferReserves, OfferRefused,
              ReportRefusal, StorePublish, StoreWake, NoneButProducer
<1>2. CASE Import \/ Write \/ Fault \/ Signal
  BY <1>2
  DEF Import, Write, Fault, Signal, Top, ImportTake, PrepareDropped,
      PrepareFails, PrepareSucceeds, Purge, ImportDone, RecheckDone, WakeUp,
      Report, Collect, BatchOne, BatchDone, CommitRuntime, CommitUsers,
      Backoff, MarkHealthy, SettleOne, RetryRuntime, RetryUsers, Retry,
      RejectUsers, Halt, NoneButWriter
<1>3. CASE Flush
  BY <1>3 DEF Flush, FlushBegins, FlushEnds, CloseStops, NoneButFlush
<1>4. CASE UNCHANGED vars
  BY <1>4 DEF vars
<1> QED
  BY <1>1, <1>2, <1>3, <1>4 DEF DatabaseNext

LEMMA PipelineTyped ==
  ASSUME IInv, PlacesInv, [DatabaseNext]_vars
  PROVE  PipelineTypeOK'
<1> DEFINE HeldTyped ==
      /\ inbox' \in Seq(Envelopes) /\ batch' \in Seq(Envelopes)
      /\ queues' \in [Keys -> Seq(Envelopes)] /\ dbReady' \in Seq(Keys)
    SetsTyped ==
      /\ reporting' \subseteq Envelopes /\ userFailed' \subseteq Envelopes
      /\ stored' \subseteq Envelopes /\ abandoned' \subseteq Envelopes
<1>0. PipelineTypeOK
  BY DEF PlacesInv
<1>1. flushed' \subseteq Envelopes
  BY <1>0, FlushedStep
  DEF PipelineTypeOK, FlushDrained, FlushChecked, flushVars
<1>2. CASE Quiet
  <2>1. HeldTyped /\ SetsTyped
    BY <1>0, <1>2 DEF Quiet, held, fates, PipelineTypeOK
  <2> QED
    BY <1>1, <2>1 DEF PipelineTypeOK
<1>3. ASSUME NEW e \in Envelopes,
             \/ DropFaulted(e) \/ OfferReserves(e) \/ OfferRefused(e)
             \/ ReportRefusal(e) \/ StorePublish(e) \/ Report(e)
      PROVE  PipelineTypeOK'
  <2>1. HeldTyped /\ SetsTyped
    BY <1>0, <1>3
    DEF PipelineTypeOK, DropFaulted, OfferReserves, OfferRefused,
        ReportRefusal, StorePublish, Report, NoneButProducer, NoneButWriter,
        producerVars, writerVars, backendVars
  <2> QED
    BY <1>1, <2>1 DEF PipelineTypeOK
<1>4. CASE Taking
  <2>1. NextToTake \in Envelopes
    BY <1>4, HeadExists DEF Taking, TakeOne, TakeDropsFailed
  <2>2. /\ inbox' \in {inbox, Append(inbox, NextToTake)}
        /\ UNCHANGED <<batch, queues, dbReady, reporting, userFailed, stored, abandoned>>
    BY <1>4 DEF Taking, ImportTake, NoneButWriter, producerVars, backendVars
  <2>3. inbox' \in Seq(Envelopes)
    <3>1. inbox \in Seq(Envelopes)
      BY <1>0 DEF PipelineTypeOK
    <3>2. Append(inbox, NextToTake) \in Seq(Envelopes)
      BY <2>1, <3>1, RangeAppend
    <3> QED
      BY <2>2, <3>1, <3>2
  <2>4. HeldTyped /\ SetsTyped
    BY <1>0, <2>2, <2>3 DEF PipelineTypeOK
  <2> QED
    BY <1>1, <2>4 DEF PipelineTypeOK
<1>5. CASE Purging
  <2>1. HeldTyped /\ SetsTyped
    BY <1>0, <1>5
    DEF PipelineTypeOK, Purging, Purge, NoneButWriter, producerVars,
        writerVars, backendVars
  <2> QED
    BY <1>1, <2>1 DEF PipelineTypeOK
<1>6. CASE PrepareDropped \/ PrepareFails
  <2>1. Head(inbox) \in Envelopes /\ Tail(inbox) \in Seq(Envelopes)
    BY <1>6, InboxHead DEF PrepareDropped, PrepareFails, CanPrepare
  <2>2. HeldTyped /\ SetsTyped
    BY <1>0, <1>6, <2>1
    DEF PipelineTypeOK, PrepareDropped, PrepareFails, NoneButWriter,
        producerVars, backendVars
  <2> QED
    BY <1>1, <2>2 DEF PipelineTypeOK
<1>7. CASE PrepareSucceeds
  <2> DEFINE e == Head(inbox)
  <2>1. e \in Envelopes /\ Tail(inbox) \in Seq(Envelopes) /\ e.key \in Keys
    BY <1>7, InboxHead, EnvelopeFields DEF PrepareSucceeds, CanPrepare
  <2>2. /\ inbox' = Tail(inbox)
        /\ queues' = [queues EXCEPT ![e.key] = Append(@, e)]
        /\ dbReady' = IF queues[e.key] = <<>> THEN Append(dbReady, e.key) ELSE dbReady
        /\ UNCHANGED <<reporting, batch, userFailed, stored, abandoned>>
    BY <1>7 DEF PrepareSucceeds, NoneButWriter, producerVars
  <2> HIDE DEF e
  <2>3. Append(queues[e.key], e) \in Seq(Envelopes)
    BY <1>0, <2>1 DEF PipelineTypeOK
  <2>4. HeldTyped /\ SetsTyped
    BY <1>0, <2>1, <2>2, <2>3 DEF PipelineTypeOK
  <2> QED
    BY <1>1, <2>4 DEF PipelineTypeOK
<1>8. CASE BatchOne
  <2> DEFINE k == Head(dbReady)
             e == Head(queues[k])
  <2>1. /\ k \in Keys /\ k = dbReady[1] /\ 1 \in 1 .. Len(dbReady)
        /\ Tail(dbReady) \in Seq(Keys)
    BY <1>0, <1>8 DEF PipelineTypeOK, BatchOne
  <2>2. queues[k] \in Seq(Envelopes) /\ queues[k] # <<>>
    BY <1>0, <2>1 DEF PipelineTypeOK, PlacesInv, OrderExact
  <2>3. e \in Envelopes /\ Tail(queues[k]) \in Seq(Envelopes)
    BY <2>2
  <2>4. /\ \/ UNCHANGED <<batch, queues>>
           \/ /\ batch' = Append(batch, e)
              /\ queues' = [queues EXCEPT ![k] = Tail(@)]
        /\ dbReady' \in {Append(Tail(dbReady), k), Tail(dbReady)}
        /\ UNCHANGED <<inbox, reporting, userFailed, stored, abandoned>>
    BY <1>8 DEF BatchOne, NoneButWriter, producerVars
  <2> HIDE DEF k, e
  <2>5. batch' \in Seq(Envelopes)
    <3>1. batch \in Seq(Envelopes)
      BY <1>0 DEF PipelineTypeOK
    <3>2. Append(batch, e) \in Seq(Envelopes)
      BY <2>3, <3>1, RangeAppend
    <3> QED
      BY <2>4, <3>1, <3>2
  <2>6. queues' \in [Keys -> Seq(Envelopes)]
    BY <1>0, <2>1, <2>3, <2>4 DEF PipelineTypeOK
  <2>7. dbReady' \in Seq(Keys)
    BY <2>1, <2>4
  <2>8. HeldTyped /\ SetsTyped
    BY <1>0, <2>4, <2>5, <2>6, <2>7 DEF PipelineTypeOK
  <2> QED
    BY <1>1, <2>8 DEF PipelineTypeOK
<1>9. CASE Storing \/ RejectUsers
  <2>1. RuntimeItems \subseteq Envelopes /\ UserItems \subseteq Envelopes
    BY HeldAre DEF RuntimeItems, UserItems, InHand
  <2>2. HeldTyped /\ SetsTyped
    BY <1>0, <1>9, <2>1
    DEF PipelineTypeOK, Storing, CommitRuntime, CommitUsers, RetryRuntime,
        RetryUsers, Retry, RejectUsers, NoneButWriter, producerVars, backendVars
  <2> QED
    BY <1>1, <2>2 DEF PipelineTypeOK
<1>10. CASE Halt
  <2>1. HeldTyped /\ SetsTyped
    BY <1>0, <1>10 DEF PipelineTypeOK, Halt, NoneButWriter, producerVars
  <2> QED
    BY <1>1, <2>1 DEF PipelineTypeOK
<1>11. CASE SettleOne
  <2>1. Tail(batch) \in Seq(Envelopes)
    BY <1>11, BatchHead DEF SettleOne, PlacesInv, BatchExact
  <2>2. HeldTyped /\ SetsTyped
    BY <1>0, <1>11, <2>1
    DEF PipelineTypeOK, SettleOne, NoneButWriter, producerVars, backendVars
  <2> QED
    BY <1>1, <2>2 DEF PipelineTypeOK
<1> QED
  BY <1>2, <1>3, <1>4, <1>5, <1>6, <1>7, <1>8, <1>9, <1>10, <1>11, QuietOrLoud
  DEF Loud

-----------------------------------------------------------------------------
(* What a step may do to an envelope.                                      *)

OfferedNow(e) ==
  /\ stage[e] = "new" /\ stage'[e] \in {"reserved", "refused"} /\ CanOffer(e)
  /\ stage'[e] = "reserved" => CanReserve(e)
GivenUp(e) ==
  /\ stage'[e] = "settled" /\ stage[e] \in {"queued", "taken"}
  /\ e \in AtCoordinator \cup Imports
  /\ UNCHANGED <<stored, queues, batch>>
  /\ \/ IsJournal(e) /\ e.inv \in errors /\ UNCHANGED reporting
     \/ reporting = {} /\ reporting' = {e}
SettledNow(e) ==
  stage[e] = "taken" /\ stage'[e] = "settled" /\ SettleOne /\ e = Head(batch)

LEMMA StageSteps ==
  ASSUME IInv, PlacesInv, FailingKnown, [DatabaseNext]_vars, NEW f \in Envelopes
  PROVE  \/ stage'[f] = stage[f]
         \/ OfferedNow(f)
         \/ stage[f] = "reserved" /\ stage'[f] = "queued"
         \/ stage[f] = "queued" /\ stage'[f] = "taken"
         \/ GivenUp(f) \/ SettledNow(f)
<1> DEFINE Moves(e) ==
      /\ \/ OfferedNow(e)
         \/ stage[e] = "reserved" /\ stage'[e] = "queued"
         \/ stage[e] = "queued" /\ stage'[e] = "taken"
         \/ GivenUp(e) \/ SettledNow(e)
      /\ f # e => stage'[f] = stage[f]
<1>0. TypeOK
  BY DEF IInv
<1>1. CASE UNCHANGED stage
  BY <1>1
<1>2. ASSUME NEW e \in Envelopes, OfferReserves(e) \/ OfferRefused(e) PROVE Moves(e)
  <2>1. /\ CanOffer(e) /\ stage[e] = "new"
        /\ (MoveTo(e, "reserved") /\ CanReserve(e)) \/ MoveTo(e, "refused")
    BY <1>2 DEF OfferReserves, OfferRefused, Reserve, Refuse
  <2>2. OfferedNow(e) /\ (f # e => stage'[f] = stage[f])
    BY <1>0, <2>1, StageMove DEF OfferedNow
  <2> QED
    BY <2>2
<1>3. ASSUME NEW e \in Envelopes, StorePublish(e) PROVE Moves(e)
  BY <1>0, <1>3, StageMove DEF StorePublish, Publish
<1>4. CASE Taking
  <2>1. NextToTake \in Envelopes /\ stage[NextToTake] = "queued"
    BY <1>4, HeadExists DEF Taking, TakeOne, TakeDropsFailed
  <2>2. CASE TakeOne
    BY <1>0, <2>1, <2>2, StageMove DEF TakeOne
  <2>3. CASE TakeDropsFailed
    <3>1. MoveTo(NextToTake, "settled")
      BY <2>3 DEF TakeDropsFailed
    <3>2. UNCHANGED <<stored, queues, batch, reporting>>
      BY <1>4 DEF Taking, ImportTake, backendVars
    <3>3. GivenUp(NextToTake)
      BY <1>0, <2>1, <2>3, <3>1, <3>2, StageMove
      DEF GivenUp, TakeDropsFailed, Purged, AtCoordinator
    <3> QED
      BY <1>0, <2>1, <3>1, <3>3, StageMove
  <2> QED
    BY <1>4, <2>2, <2>3 DEF Taking
<1>5. CASE Purging
  <2>1. PICK k \in Keys : Purge /\ PurgeOne(k)
    BY <1>5 DEF Purging
  <2>2. PICK j \in Doomed(k) : MoveTo(incoming[k][j], "settled")
    BY <2>1 DEF PurgeOne
  <2> DEFINE e == incoming[k][j]
  <2>3. j \in 1 .. Len(incoming[k]) /\ incoming[k] \in Seq(Envelopes)
    BY QueuedAre DEF Doomed
  <2>4. e \in Envelopes /\ e \in AtCoordinator /\ stage[e] = "queued"
    BY <2>3, QueuedAre, RangeOf DEF AtCoordinator
  <2>5. IsJournal(e) /\ e.inv \in errors
    BY <2>1, <2>2 DEF Doomed, PurgeOne, FailingKnown
  <2>6. UNCHANGED <<stored, queues, batch, reporting>>
    BY <2>1 DEF Purge, writerVars, backendVars
  <2> HIDE DEF e
  <2>7. GivenUp(e)
    BY <1>0, <2>2, <2>4, <2>5, <2>6, StageMove DEF GivenUp, e
  <2> QED
    BY <1>0, <2>2, <2>4, <2>7, StageMove DEF e
<1>6. CASE PrepareDropped \/ PrepareFails
  <2> DEFINE e == Head(inbox)
  <2>1. e \in Envelopes /\ e \in Imports /\ stage[e] = "taken"
    BY <1>6, InboxHead DEF PrepareDropped, PrepareFails, CanPrepare
  <2>2. MoveTo(e, "settled") /\ UNCHANGED <<stored, queues, batch>>
    BY <1>6 DEF PrepareDropped, PrepareFails, Discard, Settle, backendVars
  <2>3. \/ IsJournal(e) /\ e.inv \in errors /\ UNCHANGED reporting
        \/ reporting = {} /\ reporting' = {e}
    BY <1>6 DEF PrepareDropped, PrepareFails, CanPrepare, Purged
  <2> HIDE DEF e
  <2>4. GivenUp(e)
    BY <1>0, <2>1, <2>2, <2>3, StageMove DEF GivenUp
  <2> QED
    BY <1>0, <2>1, <2>2, <2>4, StageMove
<1>7. CASE SettleOne
  <2> DEFINE e == Head(batch)
  <2>1. e \in Envelopes /\ stage[e] = "taken"
    BY <1>7, BatchHead DEF SettleOne, PlacesInv, BatchExact
  <2>2. MoveTo(e, "settled")
    BY <1>7 DEF SettleOne, MarkDurable, MarkAdmissionDurable,
                MarkUserEventsDurable, Discard, Settle
  <2>3. SettledNow(e)
    BY <1>0, <1>7, <2>1, <2>2, StageMove DEF SettledNow
  <2> HIDE DEF e
  <2> QED
    BY <1>0, <2>1, <2>2, <2>3, StageMove
<1>8. CASE Quiet
  BY <1>1, <1>8 DEF Quiet, fates
<1>9. ASSUME NEW e \in Envelopes, DropFaulted(e) \/ ReportRefusal(e) \/ Report(e)
      PROVE  UNCHANGED stage
  BY <1>9 DEF DropFaulted, ReportRefusal, Report, DegradeInvocation,
              DegradeUserEvents, BeginFail, SetHealth, coordinatorVars
<1>10. CASE Storing \/ RejectUsers \/ PrepareSucceeds \/ BatchOne \/ Halt
  <2>1. UNCHANGED stage
    BY <1>10 DEF Storing, CommitRuntime, CommitUsers, RetryRuntime, RetryUsers,
                 Retry, RejectUsers, PrepareSucceeds, BatchOne, Halt, SetHealth,
                 AdjustSize, coordinatorVars
  <2> QED
    BY <1>1, <2>1
<1> HIDE DEF Moves
<1>11. ASSUME NEW e \in Envelopes, Moves(e)
       PROVE  \/ stage'[f] = stage[f]
              \/ OfferedNow(f)
              \/ stage[f] = "reserved" /\ stage'[f] = "queued"
              \/ stage[f] = "queued" /\ stage'[f] = "taken"
              \/ GivenUp(f) \/ SettledNow(f)
  BY <1>11 DEF Moves
<1> QED
  BY <1>1, <1>2, <1>3, <1>4, <1>5, <1>6, <1>7, <1>8, <1>9, <1>10, <1>11, QuietOrLoud
  DEF Loud

(* Rows, faults and refusals are never taken back.                         *)
LEMMA NothingTakenBack ==
  ASSUME [DatabaseNext]_vars
  PROVE  /\ errors \subseteq errors' /\ gaps \subseteq gaps'
         /\ userGaps \subseteq userGaps'
         /\ stored \subseteq stored' /\ abandoned \subseteq abandoned'
<1> USE DEF faultVars, NoneButWriter, NoneButProducer, producerVars, coordinatorVars
<1>1. CASE Quiet
  BY <1>1 DEF Quiet, fates
<1>2. ASSUME NEW e \in Envelopes,
             \/ DropFaulted(e) \/ OfferReserves(e) \/ OfferRefused(e)
             \/ ReportRefusal(e) \/ StorePublish(e) \/ Report(e)
      PROVE  /\ errors \subseteq errors' /\ gaps \subseteq gaps'
             /\ userGaps \subseteq userGaps'
             /\ stored \subseteq stored' /\ abandoned \subseteq abandoned'
  BY <1>2 DEF DropFaulted, OfferReserves, OfferRefused, ReportRefusal,
              StorePublish, Report, Reserve, Refuse, Publish,
              DegradeInvocation, DegradeUserEvents, BeginFail, SetHealth
<1>3. CASE Taking \/ Purging
  BY <1>3 DEF Taking, Purging, ImportTake, Purge, TakeOne, TakeDropsFailed, PurgeOne
<1>4. CASE PrepareDropped \/ PrepareFails \/ PrepareSucceeds
  BY <1>4 DEF PrepareDropped, PrepareFails, PrepareSucceeds, Discard, Settle, AdjustSize
<1>5. CASE BatchOne \/ Storing \/ RejectUsers \/ Halt
  BY <1>5 DEF BatchOne, Storing, CommitRuntime, CommitUsers, RetryRuntime,
              RetryUsers, Retry, RejectUsers, Halt, SetHealth
<1>6. CASE SettleOne
  BY <1>6 DEF SettleOne, MarkDurable, MarkAdmissionDurable,
              MarkUserEventsDurable, Discard, Settle
<1> QED
  BY <1>1, <1>2, <1>3, <1>4, <1>5, <1>6, QuietOrLoud DEF Loud

(* A record is only given up by the store if its Invocation, or its        *)
(* UserEvents, is known to be faulty.                                      *)
LEMMA AbandonedSteps ==
  ASSUME IInv, [DatabaseNext]_vars, NEW e \in abandoned' \ abandoned
  PROVE  /\ stage[e] \in {"new", "refused"} /\ UNCHANGED stage
         /\ e \in Envelopes
         /\ stage[e] = "new" => CanOffer(e)
         /\ e.inv \in Invocations => Excused(e)'
<1> USE DEF NoneButWriter, NoneButProducer, producerVars, coordinatorVars
<1>1. CASE ~ \E f \in Envelopes : DropFaulted(f) \/ ReportRefusal(f)
  <2>1. UNCHANGED abandoned
    <3>1. CASE Quiet
      BY <3>1 DEF Quiet, fates
    <3>2. CASE Loud
      BY <1>1, <3>2 DEF Loud, OfferReserves, OfferRefused, StorePublish, Report,
                  Taking, ImportTake, Purging, Purge, PrepareDropped, PrepareFails,
                  PrepareSucceeds, BatchOne, Storing, CommitRuntime, CommitUsers,
                  RetryRuntime, RetryUsers, Retry, RejectUsers, Halt, SettleOne
    <3> QED
      BY <3>1, <3>2, QuietOrLoud
  <2> QED
    BY <2>1
<1>2. ASSUME NEW f \in Envelopes, DropFaulted(f)
      PROVE  /\ stage[e] \in {"new", "refused"} /\ UNCHANGED stage
             /\ e \in Envelopes
             /\ stage[e] = "new" => CanOffer(e)
             /\ e.inv \in Invocations => Excused(e)'
  <2>1. e = f /\ CanOffer(e) /\ stage[e] = "new" /\ UNCHANGED coordinatorVars
    BY <1>2 DEF DropFaulted, CanOffer
  <2>2. IsJournal(e) /\ e.inv \in (errors \cup gaps)'
    BY <1>2, <2>1 DEF DropFaulted, Faulted, faultVars
  <2> QED
    BY <2>1, <2>2 DEF Excused
<1>3. ASSUME NEW f \in Envelopes, ReportRefusal(f)
      PROVE  /\ stage[e] \in {"new", "refused"} /\ UNCHANGED stage
             /\ e \in Envelopes
             /\ stage[e] = "new" => CanOffer(e)
             /\ e.inv \in Invocations => Excused(e)'
  <2>1. e = f /\ stage[e] = "refused"
    BY <1>3 DEF ReportRefusal
  <2>2. UNCHANGED stage
    BY <1>3 DEF ReportRefusal, DegradeInvocation, DegradeUserEvents
  <2>3. CASE e.inv \in Invocations /\ IsJournal(e)
    BY <1>3, <2>1, <2>3 DEF ReportRefusal, DegradeInvocation, Excused
  <2>4. CASE e.inv \in Invocations /\ ~IsJournal(e)
    BY <1>3, <2>1, <2>4 DEF ReportRefusal, DegradeUserEvents, Excused
  <2> QED
    BY <2>1, <2>2, <2>3, <2>4
<1> QED
  BY <1>1, <1>2, <1>3

(* What a transaction adds to the database.                                *)
LEMMA StoredSteps ==
  ASSUME ReportingWhere, [DatabaseNext]_vars
  PROVE  \/ UNCHANGED stored
         \/ /\ UNCHANGED <<held, stage, reporting, userFailed>> /\ reporting = {}
            /\ \/ pc = "persist" /\ stored' = stored \cup RuntimeItems
                    /\ pc' \in {"persistUsers", "backoff"}
               \/ pc = "persistUsers" /\ stored' = stored \cup (UserItems \ userFailed)
                    /\ pc' \in {"committed", "backoff"}
<1> USE DEF NoneButWriter, NoneButProducer, writerVars, backendVars, held,
            coordinatorVars
<1>1. CASE CommitRuntime
  BY <1>1 DEF CommitRuntime, ReportingWhere, Importing, GoTo
<1>2. CASE CommitUsers
  BY <1>2 DEF CommitUsers, GoTo
<1>3. CASE RetryRuntime
  BY <1>3 DEF RetryRuntime, Retry, SetHealth, ReportingWhere, Importing, GoTo
<1>4. CASE RetryUsers
  <2>1. reporting = {} /\ userFailed = {}
    BY <1>4 DEF RetryUsers, ReportingWhere, Importing
  <2> QED
    BY <1>4, <2>1 DEF RetryUsers, Retry, SetHealth, GoTo
<1>5. CASE Quiet
  BY <1>5 DEF Quiet, fates
<1>6. CASE Loud /\ ~Storing
  <2>1. UNCHANGED stored
    BY <1>6
    DEF Loud, DropFaulted, OfferReserves, OfferRefused, ReportRefusal,
        StorePublish, Report, Taking, ImportTake, Purging, Purge,
        PrepareDropped, PrepareFails, PrepareSucceeds, BatchOne, RejectUsers,
        Halt, SettleOne
  <2> QED
    BY <2>1
<1> QED
  BY <1>1, <1>2, <1>3, <1>4, <1>5, <1>6, QuietOrLoud DEF Storing

(* Where a line may have reached is never taken back either.               *)
LEMMA ReturnedStays ==
  ASSUME IInv, PlacesInv, FailingKnown, [DatabaseNext]_vars,
         NEW e \in Envelopes, Returned(e)
  PROVE  Returned(e)'
<1>1. CASE e \in abandoned
  BY <1>1, NothingTakenBack DEF Returned
<1>2. CASE e \notin abandoned
  <2>1. stage[e] \in {"queued", "taken", "settled"} /\ e \notin waking
    BY <1>2 DEF Returned
  <2>2. stage'[e] \in {"queued", "taken", "settled"}
    BY <2>1, StageSteps DEF OfferedNow, GivenUp, SettledNow
  <2>3. e \notin waking'
    <3>1. CASE Quiet
      BY <2>1, <3>1 DEF Quiet
    <3>2. ASSUME NEW f \in Envelopes, StorePublish(f) PROVE e \notin waking'
      BY <2>1, <3>2 DEF StorePublish, Publish
    <3>3. CASE Loud /\ ~ \E f \in Envelopes : StorePublish(f)
      <4>1. UNCHANGED waking
        <5> USE DEF coordinatorVars
        <5>1. ASSUME NEW f \in Envelopes,
                     \/ DropFaulted(f) \/ OfferReserves(f) \/ OfferRefused(f)
                     \/ ReportRefusal(f) \/ Report(f)
              PROVE  UNCHANGED waking
          BY <5>1 DEF DropFaulted, OfferReserves, OfferRefused, ReportRefusal,
                      Report, Reserve, Refuse, DegradeInvocation,
                      DegradeUserEvents, BeginFail, SetHealth
        <5>2. CASE Taking \/ Purging
          BY <5>2 DEF Taking, TakeOne, TakeDropsFailed, Purging, PurgeOne
        <5>3. CASE PrepareDropped \/ PrepareFails \/ PrepareSucceeds \/ SettleOne
          BY <5>3 DEF PrepareDropped, PrepareFails, PrepareSucceeds, SettleOne,
                      MarkDurable, MarkAdmissionDurable, MarkUserEventsDurable,
                      Discard, Settle, AdjustSize
        <5>4. CASE BatchOne \/ Storing \/ RejectUsers \/ Halt
          BY <5>4 DEF BatchOne, Storing, CommitRuntime, CommitUsers,
                      RetryRuntime, RetryUsers, Retry, RejectUsers, Halt, SetHealth
        <5> QED
          BY <3>3, <5>1, <5>2, <5>3, <5>4 DEF Loud
      <4> QED
        BY <2>1, <4>1
    <3> QED
      BY <3>1, <3>2, <3>3, QuietOrLoud
  <2> QED
    BY <2>2, <2>3 DEF Returned
<1> QED
  BY <1>1, <1>2

-----------------------------------------------------------------------------
(* Every step keeps the fates of the records.                              *)

LEMMA BeforePrecedes ==
  ASSUME NEW e \in Envelopes, NEW f \in Envelopes, Before(e, f)
  PROVE  e \in Predecessors(f)
<1>1. IsJournal(e) = IsJournal(f)
  BY DEF Before, SameLine, IsJournal
<1> QED
  BY <1>1 DEF Before, SameLine, Predecessors

(* A record that is offered now, or given up before it was offered, has    *)
(* its predecessors behind it.                                             *)
LEMMA OfferedAfter ==
  ASSUME IInv, PlacesInv, FatesInv, [DatabaseNext]_vars,
         NEW e \in Envelopes, NEW f \in Envelopes, Before(e, f), Offered(f)'
  PROVE  Returned(e)
<1>1. CASE Offered(f)
  BY <1>1 DEF FatesInv, OfferedInOrder
<1>2. CASE ~Offered(f)
  <2>1. CanOffer(f)
    <3>1. CASE f \in abandoned'
      BY <1>2, <3>1, AbandonedSteps DEF Offered
    <3>2. CASE stage'[f] # "new"
      BY <1>2, <3>2, StageSteps DEF Offered, OfferedNow, GivenUp, SettledNow, FatesInv
    <3> QED
      BY <3>1, <3>2 DEF Offered
  <2>2. e \in Predecessors(f)
    BY BeforePrecedes
  <2> QED
    BY <2>1, <2>2 DEF CanOffer
<1> QED
  BY <1>1, <1>2

LEMMA OfferedInOrderPreserved ==
  ASSUME IInv, PlacesInv, FatesInv, [DatabaseNext]_vars
  PROVE  OfferedInOrder'
BY OfferedAfter, ReturnedStays DEF OfferedInOrder, FatesInv

LEMMA AbandonedExcusedPreserved ==
  ASSUME IInv, PlacesInv, FatesInv, [DatabaseNext]_vars
  PROVE  AbandonedExcused'
<1> SUFFICES ASSUME NEW e \in abandoned'
             PROVE  /\ stage'[e] \in {"new", "refused"}
                    /\ e.inv \in Invocations => Excused(e)'
  BY DEF AbandonedExcused
<1>1. CASE e \in abandoned
  <2>1. stage[e] \in {"new", "refused"} /\ (e.inv \in Invocations => Excused(e))
    BY <1>1 DEF FatesInv, AbandonedExcused
  <2>2. stage'[e] = stage[e]
    <3>1. e \in Envelopes
      BY <1>1 DEF PlacesInv, PipelineTypeOK
    <3>2. ~CanOffer(e)
      BY <1>1 DEF CanOffer
    <3> QED
      BY <2>1, <3>1, <3>2, StageSteps DEF OfferedNow, GivenUp, SettledNow, FatesInv
  <2> QED
    BY <2>1, <2>2, NothingTakenBack DEF Excused
<1>2. CASE e \notin abandoned
  BY <1>2, AbandonedSteps
<1> QED
  BY <1>1, <1>2

LEMMA RefusedCutsPreserved ==
  ASSUME IInv, PlacesInv, FatesInv, [DatabaseNext]_vars
  PROVE  RefusedCuts'
<1> SUFFICES ASSUME NEW e \in Envelopes, NEW f \in Envelopes,
                    Before(e, f), IsJournal(e),
                    e \in abandoned' \/ stage'[e] = "refused"
             PROVE  stage'[f] \in {"new", "refused"}
  BY DEF RefusedCuts
<1>1. CASE e \in abandoned \/ stage[e] = "refused"
  <2>1. stage[f] \in {"new", "refused"}
    BY <1>1 DEF FatesInv, RefusedCuts
  <2>2. ASSUME OfferedNow(f), stage'[f] = "reserved" PROVE FALSE
    <3>1. CanReserve(f) /\ CanOffer(f)
      BY <2>2 DEF OfferedNow
    <3>2. Returned(e)
      BY <3>1, BeforePrecedes DEF CanOffer
    <3>3. e \in abandoned
      BY <1>1, <3>2 DEF Returned
    <3>4. f.inv \in errors \cup gaps /\ f.inv \in Invocations /\ IsJournal(f)
      BY <3>3 DEF FatesInv, AbandonedExcused, Excused, Before, SameLine
    <3> QED
      BY <3>1, <3>4, InvocationsAssumption DEF CanReserve, Faulted
  <2> QED
    BY <2>1, <2>2, StageSteps DEF OfferedNow, GivenUp, SettledNow, FatesInv
<1>2. CASE ~(e \in abandoned \/ stage[e] = "refused")
  <2>1. stage[e] = "new"
    BY <1>2, AbandonedSteps, StageSteps DEF OfferedNow, GivenUp, SettledNow, FatesInv
  <2>2. ~Returned(e)
    BY <1>2, <2>1 DEF Returned
  <2>3. ~Offered(f)'
    BY <2>2, OfferedAfter
  <2> QED
    BY <2>3 DEF Offered
<1> QED
  BY <1>1, <1>2

LEMMA FailingKnownPreserved ==
  ASSUME FatesInv, [DatabaseNext]_vars
  PROVE  FailingKnown'
<1> USE DEF FatesInv, FailingKnown, lockVars, coordinatorVars
<1>0. errors \subseteq errors'
  BY NothingTakenBack
<1>1. CASE Quiet
  BY <1>0, <1>1 DEF Quiet
<1>2. ASSUME NEW e \in Envelopes,
             \/ DropFaulted(e) \/ OfferReserves(e) \/ OfferRefused(e)
             \/ ReportRefusal(e) \/ StorePublish(e)
      PROVE  UNCHANGED failing
  BY <1>2 DEF DropFaulted, OfferReserves, OfferRefused, ReportRefusal,
              StorePublish, Reserve, Refuse, Publish, DegradeInvocation,
              DegradeUserEvents
<1>3. ASSUME NEW e \in Envelopes, Report(e)
      PROVE  UNCHANGED failing \/ failing' \in errors'
  BY <1>3 DEF Report, DegradeUserEvents, BeginFail, SetHealth
<1>4. CASE Taking \/ Purging
  BY <1>0, <1>4 DEF Taking, Purging, TakeOne, TakeDropsFailed, PurgeOne
<1>5. CASE PrepareDropped \/ PrepareFails \/ PrepareSucceeds
  BY <1>0, <1>5 DEF PrepareDropped, PrepareFails, PrepareSucceeds, Discard,
                    Settle, AdjustSize
<1>6. CASE BatchOne \/ Storing \/ RejectUsers \/ Halt
  BY <1>0, <1>6 DEF BatchOne, Storing, CommitRuntime, CommitUsers, RetryRuntime,
                    RetryUsers, Retry, RejectUsers, Halt, SetHealth
<1>7. CASE SettleOne
  BY <1>0, <1>7 DEF SettleOne, MarkDurable, MarkAdmissionDurable,
                    MarkUserEventsDurable, Discard, Settle
<1> QED
  BY <1>0, <1>1, <1>2, <1>3, <1>4, <1>5, <1>6, <1>7, QuietOrLoud DEF Loud

(* The reports the writer owes.                                            *)
LEMMA ReportingWherePreserved ==
  ASSUME IInv, PlacesInv, FatesInv, [DatabaseNext]_vars
  PROVE  ReportingWhere'
<1> DEFINE Owed(e) ==
             \/ stage[e] = "settled" /\ Importing
             \/ stage[e] = "taken" /\ ~IsJournal(e) /\ e \in userFailed
                  /\ pc \in {"persistUsers", "exited"}
           Failed(e) == ~IsJournal(e) /\ (e \in reporting \/ e.inv \in userGaps)
<1>0. /\ \A e \in reporting : Owed(e) /\ e \in Envelopes
      /\ \A e \in userFailed : Failed(e) /\ e \in Envelopes
      /\ FailingKnown /\ userGaps \subseteq userGaps'
  BY NothingTakenBack DEF FatesInv, ReportingWhere, PlacesInv, PipelineTypeOK
<1> SUFFICES /\ \A e \in reporting' : Owed(e)'
             /\ \A e \in userFailed' : Failed(e)'
  BY DEF ReportingWhere, Importing
<1>1. CASE /\ UNCHANGED <<reporting, userFailed, stage, pc>>
  BY <1>0, <1>1 DEF Importing
<1>2. CASE Quiet
  BY <1>0, <1>2 DEF Quiet, fates, Importing
<1>3. ASSUME NEW e \in Envelopes,
             \/ DropFaulted(e) \/ OfferReserves(e) \/ OfferRefused(e)
             \/ ReportRefusal(e) \/ StorePublish(e)
      PROVE  ReportingWhere'
  <2>1. UNCHANGED <<reporting, userFailed, pc>>
    BY <1>3 DEF DropFaulted, OfferReserves, OfferRefused, ReportRefusal,
                StorePublish, NoneButProducer, writerVars
  <2>2. \A f \in Envelopes : stage[f] \in {"taken", "settled"} => stage'[f] = stage[f]
    <3>1. \/ UNCHANGED stage
          \/ stage[e] \in {"new", "reserved"} /\ \E s : MoveTo(e, s)
      BY <1>3 DEF DropFaulted, OfferReserves, OfferRefused, ReportRefusal,
                  StorePublish, Reserve, Refuse, Publish, DegradeInvocation,
                  DegradeUserEvents, coordinatorVars
    <3> QED
      BY <3>1, StageMove DEF IInv
  <2> QED
    BY <1>0, <2>1, <2>2 DEF ReportingWhere, Importing
<1>4. ASSUME NEW e \in Envelopes, Report(e) PROVE ReportingWhere'
  <2>1. /\ reporting' = reporting \ {e} /\ UNCHANGED <<userFailed, pc, stage>>
        /\ ~IsJournal(e) => e.inv \in userGaps'
    BY <1>4 DEF Report, DegradeUserEvents, BeginFail, SetHealth
  <2>2. \A f \in userFailed : Failed(f)'
    BY <1>0, <2>1
  <2> QED
    BY <1>0, <2>1, <2>2 DEF ReportingWhere, Importing
<1>5. CASE Taking \/ Purging
  <2>1. UNCHANGED <<reporting, userFailed, pc>>
    BY <1>5 DEF Taking, ImportTake, Purging, Purge, writerVars
  <2>2. \A f \in Envelopes : stage[f] \in {"taken", "settled"} => stage'[f] = stage[f]
    <3>1. CASE Taking
      <4>1. NextToTake \in Envelopes /\ stage[NextToTake] = "queued" /\ TypeOK
        BY <3>1, HeadExists DEF Taking, TakeOne, TakeDropsFailed, IInv
      <4> QED
        BY <3>1, <4>1, StageMove DEF Taking, TakeOne, TakeDropsFailed
    <3>2. CASE Purging
      <4>0. PICK k \in Keys : PurgeOne(k)
        BY <3>2 DEF Purging
      <4>1. PICK j \in Doomed(k) : MoveTo(incoming[k][j], "settled")
        BY <4>0 DEF PurgeOne
      <4>2. j \in 1 .. Len(incoming[k]) /\ incoming[k] \in Seq(Envelopes)
        BY QueuedAre DEF Doomed
      <4>3. incoming[k][j] \in Envelopes /\ stage[incoming[k][j]] = "queued"
        BY <4>2, QueuedAre, RangeOf DEF AtCoordinator
      <4> QED
        BY <4>1, <4>3, StageMove DEF IInv
    <3> QED
      BY <1>5, <3>1, <3>2
  <2> QED
    BY <1>0, <2>1, <2>2 DEF ReportingWhere, Importing
<1>6. CASE PrepareDropped \/ PrepareFails \/ PrepareSucceeds
  <2> DEFINE h == Head(inbox)
  <2>1. h \in Envelopes /\ stage[h] = "taken" /\ TypeOK
    BY <1>6, InboxHead
    DEF PrepareDropped, PrepareFails, PrepareSucceeds, CanPrepare, IInv
  <2>2. /\ reporting = {} /\ UNCHANGED <<userFailed, pc>> /\ Importing
        /\ \/ reporting' = {}
           \/ reporting' = {h} /\ MoveTo(h, "settled")
    BY <1>6 DEF PrepareDropped, PrepareFails, PrepareSucceeds, CanPrepare,
                Discard, Settle
  <2> HIDE DEF h
  <2>3. reporting' = {} \/ (reporting' = {h} /\ stage'[h] = "settled")
    BY <2>1, <2>2, StageMove
  <2> QED
    BY <1>0, <2>2, <2>3 DEF ReportingWhere, Importing
<1>7. CASE BatchOne \/ Storing \/ Halt
  <2>1. /\ UNCHANGED <<reporting, userFailed, stage>>
        /\ reporting = {}
    BY <1>0, <1>7
    DEF BatchOne, Storing, CommitRuntime, CommitUsers, RetryRuntime, RetryUsers,
        Retry, Halt, SetHealth, Importing, coordinatorVars
  <2> QED
    BY <1>0, <2>1 DEF ReportingWhere, Importing
<1>8. CASE RejectUsers
  <2>1. /\ reporting' = UserItems /\ userFailed' = UserItems
        /\ UNCHANGED <<stage, pc>> /\ pc = "persistUsers"
    BY <1>8 DEF RejectUsers, coordinatorVars
  <2>2. \A e \in UserItems : ~IsJournal(e) /\ stage[e] = "taken"
    BY HeldAre DEF UserItems, RuntimeItems, InHand
  <2> QED
    BY <2>1, <2>2 DEF ReportingWhere, Importing
<1>9. CASE SettleOne
  <2>1. /\ reporting = {} /\ UNCHANGED reporting
        /\ userFailed' \subseteq userFailed
    BY <1>0, <1>9 DEF SettleOne, Importing
  <2> QED
    BY <1>0, <2>1 DEF ReportingWhere, Importing
<1> QED
  BY <1>1, <1>2, <1>3, <1>4, <1>5, <1>6, <1>7, <1>8, <1>9, QuietOrLoud
  DEF Loud, ReportingWhere, Importing

(* Where envelopes come from.                                              *)
LEMMA PlacesSteps ==
  ASSUME IInv, PlacesInv, FatesInv, [DatabaseNext]_vars
  PROVE  /\ \A e \in Prepared' \cup Imports' \cup AtCoordinator' :
              e \in Prepared \cup Imports \cup AtCoordinator \/ stage[e] = "reserved"
         /\ \A f \in Prepared' \cup InHand' :
              \/ f \in Prepared \cup InHand
              \/ PrepareSucceeds /\ f = Head(inbox)
<1>1. \A e \in AtCoordinator' : e \in AtCoordinator \/ stage[e] = "reserved"
  BY StageSteps DEF AtCoordinator, OfferedNow, GivenUp, SettledNow, FatesInv
<1>2. CASE UNCHANGED held
  BY <1>1, <1>2 DEF held, Imports, Prepared, InHand
<1>3. CASE Taking
  <2>1. NextToTake \in AtCoordinator
    BY <1>3, HeadFirst DEF Taking, TakeOne, TakeDropsFailed
  <2>2. /\ inbox' \in {inbox, Append(inbox, NextToTake)}
        /\ UNCHANGED <<queues, batch>>
    BY <1>3 DEF Taking, ImportTake, backendVars
  <2>3. Imports' \subseteq Imports \cup {NextToTake}
    BY <2>1, <2>2, RangeAppend
    DEF Imports, AtCoordinator, PlacesInv, PipelineTypeOK
  <2>4. Prepared' = Prepared /\ InHand' = InHand
    BY <2>2 DEF Prepared, InHand
  <2> QED
    BY <1>1, <2>1, <2>3, <2>4
<1>4. CASE PrepareDropped \/ PrepareFails
  <2>1. Imports' \subseteq Imports
    BY <1>4, InboxHead DEF PrepareDropped, PrepareFails, CanPrepare, Imports
  <2>2. UNCHANGED <<queues, batch>>
    BY <1>4 DEF PrepareDropped, PrepareFails, backendVars
  <2> QED
    BY <1>1, <2>1, <2>2 DEF Prepared, InHand
<1>5. CASE PrepareSucceeds
  <2>1. Head(inbox) \in Imports
    BY <1>5, InboxHead DEF PrepareSucceeds, CanPrepare
  <2> QED
    BY <1>1, <1>5, <2>1, PrepareKeepsPlaces
<1>6. CASE BatchOne
  <2>1. /\ Imports' = Imports
        /\ InHand' \subseteq InHand \cup Prepared
        /\ Prepared' \subseteq Prepared
    BY <1>6, BatchKeepsPlaces
  <2> QED
    BY <1>1, <2>1
<1>7. CASE SettleOne
  BY <1>1, <1>7, SettleKeepsPlaces
<1>8. CASE Halt
  BY <1>1, <1>8, HaltKeepsPlaces
<1>9. CASE Quiet
  BY <1>2, <1>9 DEF Quiet
<1>10. ASSUME NEW e \in Envelopes,
             \/ DropFaulted(e) \/ OfferReserves(e) \/ OfferRefused(e)
             \/ ReportRefusal(e) \/ StorePublish(e) \/ Report(e)
       PROVE UNCHANGED held
  BY <1>10 DEF DropFaulted, OfferReserves, OfferRefused, ReportRefusal,
               StorePublish, Report, NoneButProducer, writerVars, backendVars, held
<1>11. CASE Purging \/ Storing \/ RejectUsers
  BY <1>2, <1>11 DEF Purging, Purge, Storing, CommitRuntime, CommitUsers,
               RetryRuntime, RetryUsers, Retry, RejectUsers, writerVars,
               backendVars, held
<1> QED
  BY <1>2, <1>3, <1>4, <1>5, <1>6, <1>7, <1>8, <1>9, <1>10, <1>11, QuietOrLoud DEF Loud

(* A report that is done made the failure known; a report that is owed now *)
(* is of an envelope the writer held.                                      *)
LEMMA ReportingSteps ==
  ASSUME IInv, PlacesInv, FatesInv, [DatabaseNext]_vars, NEW e
  PROVE  /\ e \in reporting \ reporting' /\ e.inv \in Invocations =>
              IF IsJournal(e) THEN e.inv \in errors' ELSE e.inv \in userGaps'
         /\ e \in reporting' \ reporting => stage[e] = "taken"
<1> DEFINE Goal ==
         /\ e \in reporting \ reporting' /\ e.inv \in Invocations =>
              IF IsJournal(e) THEN e.inv \in errors' ELSE e.inv \in userGaps'
         /\ e \in reporting' \ reporting => stage[e] = "taken"
<1>1. CASE UNCHANGED reporting
  BY <1>1
<1>2. ASSUME NEW f \in Envelopes, Report(f) PROVE Goal
  <2>1. reporting' = reporting \ {f}
    BY <1>2 DEF Report
  <2>2. f.inv \in Invocations =>
          IF IsJournal(f) THEN f.inv \in errors' ELSE f.inv \in userGaps'
    BY <1>2 DEF Report, DegradeUserEvents, BeginFail
  <2> QED
    BY <2>1, <2>2
<1>3. CASE PrepareDropped \/ PrepareFails \/ PrepareSucceeds
  <2>1. stage[Head(inbox)] = "taken"
    BY <1>3, InboxHead DEF PrepareDropped, PrepareFails, PrepareSucceeds, CanPrepare
  <2>2. reporting = {} /\ reporting' \subseteq {Head(inbox)}
    BY <1>3 DEF PrepareDropped, PrepareFails, PrepareSucceeds, CanPrepare
  <2> QED
    BY <2>1, <2>2
<1>4. CASE RejectUsers
  <2>1. reporting = {} /\ reporting' = UserItems
    BY <1>4 DEF RejectUsers, FatesInv, ReportingWhere, Importing
  <2>2. \A f \in UserItems : stage[f] = "taken"
    BY HeldAre DEF UserItems, InHand
  <2> QED
    BY <2>1, <2>2
<1>5. CASE Quiet
  BY <1>1, <1>5 DEF Quiet, fates
<1>6. ASSUME NEW f \in Envelopes,
             \/ DropFaulted(f) \/ OfferReserves(f) \/ OfferRefused(f)
             \/ ReportRefusal(f) \/ StorePublish(f)
      PROVE  UNCHANGED reporting
  BY <1>6 DEF DropFaulted, OfferReserves, OfferRefused, ReportRefusal,
               StorePublish, NoneButProducer, writerVars
<1>7. CASE Taking \/ Purging \/ BatchOne \/ Storing \/ Halt \/ SettleOne
  BY <1>1, <1>7 DEF Taking, ImportTake, Purging, Purge, BatchOne, Storing,
        CommitRuntime, CommitUsers, RetryRuntime, RetryUsers, Retry, Halt,
        SettleOne, writerVars
<1> QED
  BY <1>1, <1>2, <1>3, <1>4, <1>5, <1>6, <1>7, QuietOrLoud DEF Loud

(* What is settled without being stored is known to have failed.           *)
LEMMA SettledExcusedPreserved ==
  ASSUME IInv, PlacesInv, FatesInv, [DatabaseNext]_vars
  PROVE  SettledExcused'
<1> SUFFICES ASSUME NEW e \in Envelopes, stage'[e] = "settled", e \notin stored',
                    e.inv \in Invocations, e \notin reporting'
             PROVE  IF IsJournal(e) THEN e.inv \in errors' ELSE e.inv \in userGaps'
  BY DEF SettledExcused
<1>0. /\ errors \subseteq errors' /\ userGaps \subseteq userGaps'
      /\ stored \subseteq stored'
  BY NothingTakenBack
<1>1. CASE stage[e] = "settled"
  <2>1. CASE e \in reporting
    BY <2>1, ReportingSteps
  <2>2. CASE e \notin reporting
    BY <1>0, <1>1, <2>2 DEF FatesInv, SettledExcused
  <2> QED
    BY <2>1, <2>2
<1>2. CASE GivenUp(e)
  BY <1>0, <1>2 DEF GivenUp
<1>3. CASE SettledNow(e)
  <2>1. e \in InHand /\ pc = "settle"
    BY <1>3, BatchHead DEF SettledNow, SettleOne, PlacesInv, BatchExact
  <2>2. e \notin stored
    BY <1>0
  <2>3. e \in UserItems /\ e \in userFailed
    BY <2>1, <2>2 DEF FatesInv, StoredWhere, RuntimeItems, UserItems, InHand
  <2>4. ~IsJournal(e) /\ e \notin reporting
    BY <2>1, <2>3 DEF FatesInv, ReportingWhere, Importing
  <2>5. e.inv \in userGaps
    BY <2>3, <2>4 DEF FatesInv, ReportingWhere
  <2> QED
    BY <1>0, <2>4, <2>5
<1> QED
  BY <1>1, <1>2, <1>3, StageSteps DEF OfferedNow, FatesInv

LEMMA StoredWherePreserved ==
  ASSUME IInv, PlacesInv, FatesInv, [DatabaseNext]_vars
  PROVE  StoredWhere'
<1>0. /\ \A e \in InHand : e \in Envelopes /\ stage[e] = "taken"
      /\ RuntimeItems \subseteq InHand /\ UserItems \subseteq InHand
  BY HeldAre DEF RuntimeItems, UserItems, InHand
<1>1. ASSUME NEW e \in stored' PROVE stage'[e] \in {"taken", "settled"}
  <2>1. stage[e] \in {"taken", "settled"} /\ e \in Envelopes
    BY <1>0, StoredSteps
    DEF FatesInv, StoredWhere, PlacesInv, PipelineTypeOK
  <2> QED
    BY <2>1, StageSteps DEF OfferedNow, GivenUp, SettledNow, FatesInv
<1>2. CASE UNCHANGED <<batch, userFailed>> /\
           \/ pc' = pc
           \/ pc' \in {"persistUsers", "committed", "settle"} =>
                pc = "committed" /\ pc' = "settle"
  BY <1>1, <1>2, NothingTakenBack DEF FatesInv, StoredWhere, RuntimeItems, UserItems
<1>3. CASE Quiet
  <2>1. /\ UNCHANGED <<batch, userFailed>>
        /\ \/ pc' = pc
           \/ pc' \in {"persistUsers", "committed", "settle"} =>
                pc = "committed" /\ pc' = "settle"
    BY <1>3 DEF Quiet, held, fates
  <2> QED
    BY <1>2, <2>1
<1>4. ASSUME NEW e \in Envelopes,
             \/ DropFaulted(e) \/ OfferReserves(e) \/ OfferRefused(e)
             \/ ReportRefusal(e) \/ StorePublish(e) \/ Report(e)
      PROVE  UNCHANGED <<batch, userFailed, pc>>
  BY <1>4 DEF DropFaulted, OfferReserves, OfferRefused, ReportRefusal,
               StorePublish, Report, NoneButProducer, writerVars
<1>5. CASE \/ Taking \/ Purging \/ PrepareDropped \/ PrepareFails \/ PrepareSucceeds
           \/ RetryRuntime \/ RetryUsers \/ Halt
  <2>1. \/ UNCHANGED <<batch, userFailed, pc>>
        \/ UNCHANGED <<batch, userFailed>> /\ pc' = "backoff"
        \/ pc' = "exited"
    BY <1>5 DEF Taking, ImportTake, Purging, Purge, PrepareDropped, PrepareFails,
                PrepareSucceeds, RetryRuntime, RetryUsers, Retry, Halt,
                writerVars, GoTo
  <2> QED
    BY <1>1, <1>2, <2>1 DEF StoredWhere
<1>6. CASE BatchOne
  <2>1. pc' \in {"persist", "batch"}
    BY <1>6 DEF BatchOne, GoTo
  <2> QED
    BY <1>1, <2>1 DEF StoredWhere
<1>7. CASE CommitRuntime
  <2>1. /\ UNCHANGED batch /\ pc' = "persistUsers"
        /\ stored' = stored \cup RuntimeItems
    BY <1>7 DEF CommitRuntime, GoTo
  <2> QED
    BY <1>1, <2>1 DEF StoredWhere, RuntimeItems
<1>8. CASE CommitUsers
  <2>1. /\ UNCHANGED <<batch, userFailed>> /\ pc = "persistUsers"
        /\ stored' = stored \cup (UserItems \ userFailed)
    BY <1>8 DEF CommitUsers, GoTo
  <2> QED
    BY <1>1, <2>1 DEF FatesInv, StoredWhere, RuntimeItems, UserItems
<1>9. CASE RejectUsers
  <2>1. UNCHANGED <<batch, stored>> /\ pc = "persistUsers" /\ pc' = pc
    BY <1>9 DEF RejectUsers, GoTo
  <2> QED
    BY <1>1, <2>1 DEF FatesInv, StoredWhere, RuntimeItems, UserItems
<1>10. CASE SettleOne
  <2>1. /\ UNCHANGED stored /\ pc = "settle"
        /\ userFailed' = userFailed \ {Head(batch)}
        /\ InHand' = InHand \ {Head(batch)}
    BY <1>10, SettleKeepsPlaces DEF SettleOne
  <2> QED
    BY <1>1, <2>1 DEF FatesInv, StoredWhere, RuntimeItems, UserItems, InHand
<1> QED
  BY <1>2, <1>3, <1>4, <1>5, <1>6, <1>7, <1>8, <1>9, <1>10, QuietOrLoud
  DEF Loud, Storing

(* The rows of a line are never ahead of what is still on its way, and a   *)
(* journal never has a row behind a hole.                                  *)
LEMMA PrefixStoredPreserved ==
  ASSUME IInv, PlacesInv, FatesInv, [DatabaseNext]_vars
  PROVE  PrefixStored'
<1> SUFFICES ASSUME NEW e \in Envelopes, NEW f \in Envelopes, Before(e, f),
                    IsJournal(e), f \in stored'
             PROVE  e \in stored'
  BY DEF PrefixStored
<1>0. stored \subseteq stored' /\ IsJournal(f)
  BY NothingTakenBack DEF Before, SameLine
<1>1. CASE f \in stored
  BY <1>0, <1>1 DEF FatesInv, PrefixStored
<1>2. CASE f \notin stored /\ e \notin stored
  <2>1. /\ pc = "persist" /\ stored' = stored \cup RuntimeItems /\ f \in InHand
    BY <1>0, <1>2, StoredSteps
    DEF FatesInv, RuntimeItems, UserItems, InHand
  <2>2. stage[f] = "taken"
    BY <2>1, HeldAre
  <2>3. Returned(e)
    BY <2>2 DEF FatesInv, OfferedInOrder, Offered
  <2>4. e \notin abandoned
    BY <2>2 DEF FatesInv, RefusedCuts
  <2>5. stage[e] # "queued"
    BY <2>1 DEF PlacesInv, InOrder, AllBefore, MayFollow, AtCoordinator
  <2>6. stage[e] # "settled"
    BY <1>2, <2>1 DEF FatesInv, LostBehind
  <2>7. stage[e] = "taken"
    BY <2>3, <2>4, <2>5, <2>6 DEF Returned
  <2>8. e \in Imports \cup Prepared \cup InHand
    BY <2>1, <2>7 DEF PlacesInv, Held
  <2>9. e \in InHand
    BY <2>1, <2>8 DEF PlacesInv, InOrder, AllBefore, MayFollow
  <2> QED
    BY <2>1, <2>9 DEF RuntimeItems, InHand
<1> QED
  BY <1>0, <1>1, <1>2

LEMMA StoredAheadPreserved ==
  ASSUME IInv, PlacesInv, FatesInv, [DatabaseNext]_vars
  PROVE  StoredAhead'
<1> SUFFICES ASSUME NEW e \in Envelopes, NEW f \in Envelopes, Before(e, f),
                    f \in stored', e \in (Prepared \cup Imports \cup AtCoordinator)'
             PROVE  FALSE
  BY DEF StoredAhead
<1>1. f \in stored \cup InHand
  BY StoredSteps DEF FatesInv, RuntimeItems, UserItems, InHand
<1>2. stage[f] \in {"taken", "settled"}
  BY <1>1, HeldAre DEF FatesInv, StoredWhere
<1>3. CASE e \in Prepared \cup Imports \cup AtCoordinator
  BY <1>1, <1>3 DEF FatesInv, StoredAhead, PlacesInv, InOrder, AllBefore, MayFollow
<1>4. CASE stage[e] = "reserved"
  BY <1>2, <1>4, ReservedLast DEF MayFollow
<1> QED
  BY <1>3, <1>4, PlacesSteps

LEMMA LostBehindPreserved ==
  ASSUME IInv, PlacesInv, FatesInv, [DatabaseNext]_vars
  PROVE  LostBehind'
<1> SUFFICES ASSUME NEW e \in Envelopes, NEW f \in Envelopes, Before(e, f),
                    stage'[e] = "settled", e \notin stored',
                    IsJournal(e) \/ e \in reporting',
                    f \in (stored \cup Prepared \cup InHand)'
             PROVE  FALSE
  BY DEF LostBehind
<1>0. /\ e \notin stored /\ e.inv \in Invocations /\ e.inv = f.inv
      /\ IsJournal(e) <=> IsJournal(f)
  BY NothingTakenBack DEF Before, SameLine
<1>1. CASE stage[e] = "settled"
  <2>1. IsJournal(e) \/ e \in reporting
    BY <1>1, ReportingSteps
  <2>2. f \notin stored \cup Prepared \cup InHand
    BY <1>0, <1>1, <2>1 DEF FatesInv, LostBehind
  <2>3. f \in (Prepared \cup InHand)'
    BY <2>2, StoredSteps DEF FatesInv, RuntimeItems, UserItems, InHand, held
  <2>4. PrepareSucceeds /\ f = Head(inbox)
    BY <2>2, <2>3, PlacesSteps
  <2>5. reporting = {} /\ ~Purged(f)
    BY <2>4 DEF PrepareSucceeds, CanPrepare
  <2> QED
    BY <1>0, <1>1, <2>1, <2>5 DEF FatesInv, SettledExcused, Purged
<1>2. CASE GivenUp(e)
  <2>1. f \in stored \cup Prepared \cup InHand
    BY <1>2 DEF GivenUp, Prepared, InHand
  <2>2. f \notin stored
    BY <1>2 DEF GivenUp, FatesInv, StoredAhead
  <2> QED
    BY <1>2, <2>1, <2>2 DEF GivenUp, PlacesInv, InOrder, AllBefore, MayFollow
<1>3. CASE SettledNow(e)
  <2>1. e \in InHand /\ pc = "settle" /\ UNCHANGED reporting
    BY <1>3, BatchHead DEF SettledNow, SettleOne, PlacesInv, BatchExact
  <2>2. e \in UserItems
    BY <1>0, <2>1 DEF FatesInv, StoredWhere, RuntimeItems, UserItems, InHand
  <2>3. ~IsJournal(e)
    BY <2>2 DEF RuntimeItems, UserItems
  <2> QED
    BY <2>1, <2>3 DEF FatesInv, ReportingWhere, Importing
<1> QED
  BY <1>1, <1>2, <1>3, StageSteps DEF OfferedNow, FatesInv

(* Only the settlement of a stored item moves a durable sequence.          *)
LEMMA SequencesStoredPreserved ==
  ASSUME IInv, PlacesInv, FatesInv, [DatabaseNext]_vars
  PROVE  SequencesStored'
<1> USE DEF coordinatorVars
<1>0. stored \subseteq stored' /\ SequencesStored
  BY NothingTakenBack DEF FatesInv
<1>1. CASE UNCHANGED durableVars
  BY <1>0, <1>1 DEF SequencesStored, durableVars
<1>2. CASE Quiet
  BY <1>1, <1>2 DEF Quiet, fates
<1>3. ASSUME NEW e \in Envelopes,
             \/ DropFaulted(e) \/ OfferReserves(e) \/ OfferRefused(e)
             \/ ReportRefusal(e) \/ StorePublish(e) \/ Report(e)
      PROVE  UNCHANGED durableVars
  BY <1>3 DEF DropFaulted, OfferReserves, OfferRefused, ReportRefusal,
              StorePublish, Report, Reserve, Refuse, Publish,
              DegradeInvocation, DegradeUserEvents, BeginFail, SetHealth
<1>4. CASE Taking \/ Purging
  BY <1>1, <1>4 DEF Taking, Purging, TakeOne, TakeDropsFailed, PurgeOne
<1>5. CASE PrepareDropped \/ PrepareFails \/ PrepareSucceeds
  BY <1>1, <1>5 DEF PrepareDropped, PrepareFails, PrepareSucceeds, Discard,
                    Settle, AdjustSize
<1>6. CASE BatchOne \/ Storing \/ RejectUsers \/ Halt
  BY <1>1, <1>6 DEF BatchOne, Storing, CommitRuntime, CommitUsers, RetryRuntime,
                    RetryUsers, Retry, RejectUsers, Halt, SetHealth
<1>7. CASE SettleOne
  <2> DEFINE e == Head(batch)
  <2>1. e \in Envelopes /\ e \in InHand /\ pc = "settle" /\ UNCHANGED stored
    BY <1>7, BatchHead DEF SettleOne, PlacesInv, BatchExact
  <2>2. IsJournal(e) => e \in stored
    BY <2>1 DEF FatesInv, StoredWhere, RuntimeItems, InHand
  <2>3. ~IsJournal(e) /\ e \notin userFailed => e \in stored
    BY <2>1 DEF FatesInv, StoredWhere, RuntimeItems, UserItems, InHand
  <2>4. TypeOK
    BY DEF IInv
  <2>5. \/ Discard(e)
        \/ MarkDurable(e)
        \/ MarkAdmissionDurable(e)
        \/ MarkUserEventsDurable(e) /\ e \notin userFailed
    BY <1>7 DEF SettleOne
  <2> HIDE DEF e
  <2>6. CASE Discard(e)
    BY <1>1, <2>6 DEF Discard
  <2>7. CASE MarkDurable(e)
    <3>1. /\ e \in stored' /\ e.inv \in Invocations /\ IsJournal(e)
          /\ durableSeq' = [durableSeq EXCEPT ![e.inv] = Larger(@, e.seq)]
          /\ UNCHANGED <<durableUserSeq, admitted>>
      BY <2>1, <2>2, <2>7, EnvelopeKinds DEF MarkDurable
    <3>2. ASSUME NEW i \in Invocations, durableSeq'[i] # 0
          PROVE  \E x \in (Journal(i) \cap stored)' : x.seq = durableSeq'[i]
      <4>1. CASE durableSeq'[i] = durableSeq[i]
        BY <1>0, <3>2, <4>1 DEF SequencesStored, Journal
      <4>2. CASE durableSeq'[i] # durableSeq[i]
        <5>1. i = e.inv /\ durableSeq'[i] = e.seq
          BY <2>4, <3>1, <4>2 DEF TypeOK, Larger
        <5> QED
          BY <2>1, <3>1, <5>1 DEF Journal
      <4> QED
        BY <4>1, <4>2
    <3> QED
      BY <1>0, <2>1, <3>1, <3>2 DEF SequencesStored
  <2>8. CASE MarkAdmissionDurable(e)
    <3>1. /\ e \in stored' /\ e.inv \in Invocations /\ IsJournal(e)
          /\ e.kind = "admission" /\ admitted' = admitted \cup {e.inv}
          /\ UNCHANGED <<durableUserSeq, durableSeq>>
      BY <2>1, <2>2, <2>8, EnvelopeKinds DEF MarkAdmissionDurable
    <3>2. ASSUME NEW i \in admitted'
          PROVE  \E x \in (Journal(i) \cap stored)' : x.kind = "admission"
      <4>1. CASE i \in admitted
        BY <1>0, <2>1, <2>4, <4>1 DEF SequencesStored, Journal, TypeOK
      <4>2. CASE i = e.inv
        BY <2>1, <3>1, <4>2 DEF Journal
      <4> QED
        BY <3>1, <4>1, <4>2
    <3> QED
      BY <1>0, <2>1, <3>1, <3>2 DEF SequencesStored
  <2>9. CASE MarkUserEventsDurable(e) /\ e \notin userFailed
    <3>1. /\ e \in stored' /\ e.inv \in Invocations /\ ~IsJournal(e)
          /\ durableUserSeq' = [durableUserSeq EXCEPT ![e.inv] = Larger(@, e.seq)]
          /\ UNCHANGED <<durableSeq, admitted>>
      BY <2>1, <2>3, <2>9, EnvelopeKinds DEF MarkUserEventsDurable
    <3>2. ASSUME NEW i \in Invocations, durableUserSeq'[i] # 0
          PROVE  \E x \in (UserBatches(i) \cap stored)' : x.seq = durableUserSeq'[i]
      <4>1. CASE durableUserSeq'[i] = durableUserSeq[i]
        BY <1>0, <3>2, <4>1 DEF SequencesStored, UserBatches
      <4>2. CASE durableUserSeq'[i] # durableUserSeq[i]
        <5>1. i = e.inv /\ durableUserSeq'[i] = e.seq
          BY <2>4, <3>1, <4>2 DEF TypeOK, Larger
        <5> QED
          BY <2>1, <3>1, <5>1 DEF UserBatches
      <4> QED
        BY <4>1, <4>2
    <3> QED
      BY <1>0, <2>1, <3>1, <3>2 DEF SequencesStored
  <2> QED
    BY <2>5, <2>6, <2>7, <2>8, <2>9
<1> QED
  BY <1>1, <1>2, <1>3, <1>4, <1>5, <1>6, <1>7, QuietOrLoud DEF Loud

(* What the flush found is stored when it returns normally.                *)
LEMMA FlushKnowsPreserved ==
  ASSUME IInv, PlacesInv, FatesInv, [DatabaseNext]_vars
  PROVE  FlushKnows'
<1>0. /\ stored \subseteq stored' /\ errors \subseteq errors' /\ gaps \subseteq gaps'
      /\ userGaps \subseteq userGaps' /\ FlushKnows
  BY NothingTakenBack DEF FatesInv
<1>1. CASE UNCHANGED <<flush, flushed>>
  BY <1>0, <1>1 DEF FlushKnows
<1>2. CASE UNCHANGED flushed /\ flush' \in {"draining", "closed"}
  BY <1>2 DEF FlushKnows
<1>3. CASE flushed' = {}
  BY <1>3 DEF FlushKnows
<1>4. CASE FlushDrained
  <2>1. /\ flushed' = {e \in Envelopes : Returned(e)} /\ pc \in Awaiting
        /\ \/ outstanding = {} /\ flush' = "checking"
           \/ flush' = "error"
        /\ UNCHANGED <<stored, errors, gaps, userGaps>>
    BY <1>4 DEF FlushDrained, NoneButFlush, coordinatorVars, faultVars
  <2>2. CASE outstanding = {} /\ flush' = "checking"
    <3>1. ASSUME NEW e \in Envelopes, Returned(e), e.inv \in Invocations
          PROVE  e \in stored \/ e.inv \in errors \cup gaps \cup userGaps
      <4>1. CASE e \in abandoned
        BY <3>1, <4>1 DEF FatesInv, AbandonedExcused, Excused
      <4>2. CASE stage[e] = "settled"
        <5>1. e \notin reporting
          BY <2>1, <4>2 DEF FatesInv, ReportingWhere, Importing, Awaiting
        <5> QED
          BY <3>1, <4>2, <5>1 DEF FatesInv, SettledExcused
      <4>3. ~(stage[e] \in {"queued", "taken"})
        BY <2>2 DEF IInv, OutstandingExact
      <4> QED
        BY <3>1, <4>1, <4>2, <4>3 DEF Returned
    <3> QED
      BY <2>1, <2>2, <3>1 DEF FlushKnows
  <2>3. CASE flush' = "error"
    BY <2>3 DEF FlushKnows
  <2> QED
    BY <2>1, <2>2, <2>3
<1>5. CASE FlushChecked
  <2>1. /\ flush = "checking" /\ UNCHANGED <<flushed, stored>>
        /\ flush' = IF errors \cup gaps \cup userGaps = {} THEN "ok" ELSE "error"
    BY <1>5 DEF FlushChecked, NoneButFlush
  <2> QED
    BY <1>0, <2>1 DEF FlushKnows
<1> QED
  BY <1>1, <1>2, <1>3, <1>4, <1>5, FlushedStep

-----------------------------------------------------------------------------
(* The invariant is inductive.                                             *)

LEMMA PipelineInit == DatabaseInit => PInv
<1> SUFFICES ASSUME DatabaseInit PROVE PInv
  OBVIOUS
<1> USE DEF DatabaseInit
<1>1. IInv
  BY InitEstablishes
<1>2. /\ \A e \in Envelopes : stage[e] = "new"
      /\ \A i \in Invocations : durableSeq[i] = 0 /\ durableUserSeq[i] = 0
      /\ incoming = [k \in Keys |-> <<>>] /\ admitted = {} /\ failing = NoInvocation
  BY DEF Init
<1>3. Range(<<>>) = {}
  BY DEF Range
<1>4. Imports = {} /\ Prepared = {} /\ InHand = {} /\ AtCoordinator = {}
  BY <1>2, <1>3 DEF Imports, Prepared, InHand, AtCoordinator
<1>5. PipelineTypeOK
  BY DEF PipelineTypeOK
<1>6. OrderExact /\ BatchExact
  BY DEF OrderExact, BatchExact
<1>7. Held
  BY <1>2, <1>4 DEF Held
<1>8. InOrder
  <2>1. InLine(<<>>)
    BY DEF InLine
  <2> QED
    BY <1>2, <1>3, <1>4, <2>1 DEF InOrder, AllBefore
<1>9. ~ \E e \in Envelopes : Offered(e)
  BY <1>2 DEF Offered
<1>10. OfferedInOrder /\ AbandonedExcused /\ RefusedCuts /\ ReportingWhere
  BY <1>2, <1>9 DEF OfferedInOrder, AbandonedExcused, RefusedCuts, ReportingWhere
<1>11. SettledExcused /\ FailingKnown /\ StoredWhere /\ PrefixStored
  BY <1>2 DEF SettledExcused, FailingKnown, StoredWhere, PrefixStored
<1>12. StoredAhead /\ LostBehind /\ SequencesStored /\ FlushKnows
  BY <1>2, <1>4 DEF StoredAhead, LostBehind, SequencesStored, FlushKnows
<1> QED
  BY <1>1, <1>5, <1>6, <1>7, <1>8, <1>10, <1>11, <1>12
  DEF PInv, PlacesInv, FatesInv

LEMMA PipelineStep == PInv /\ [DatabaseNext]_vars => PInv'
<1> SUFFICES ASSUME IInv, PlacesInv, FatesInv, [DatabaseNext]_vars PROVE PInv'
  BY DEF PInv
<1>1. IInv'
  BY ByItsMethods, StepPreserves
<1>2. PlacesInv'
  BY PipelineTyped, PlacesPreserved, BatchExactPreserved DEF PlacesInv
<1>3. FatesInv'
  BY OfferedInOrderPreserved, AbandonedExcusedPreserved, RefusedCutsPreserved,
     ReportingWherePreserved, SettledExcusedPreserved, FailingKnownPreserved,
     StoredWherePreserved, PrefixStoredPreserved, StoredAheadPreserved,
     LostBehindPreserved, SequencesStoredPreserved, FlushKnowsPreserved
  DEF FatesInv
<1> QED
  BY <1>1, <1>2, <1>3 DEF PInv

-----------------------------------------------------------------------------
(* Sets of numbers.                                                        *)

(* A finite set of numbers has a bound: of its enumeration, so has every   *)
(* initial part.                                                           *)
LEMMA FiniteHasBound ==
  ASSUME NEW S \in SUBSET Nat, IsFiniteSet(S)
  PROVE  \E b \in Nat : \A x \in S : x <= b
<1> DEFINE n == Cardinality(S)
<1>1. n \in Nat /\ ExistsBijection(1 .. n, S)
  BY FS_CardinalityType
<1>2. PICK f : f \in [1 .. n -> S] /\ \A x \in S : \E m \in 1 .. n : f[m] = x
  BY <1>1 DEF ExistsBijection, Bijection, Injection, Surjection
<1> HIDE DEF n
<1> DEFINE Bounds(m, b) == \A k \in 1 .. m : f[k] <= b
           Bad == {m \in 0 .. n : ~ \E b \in Nat : Bounds(m, b)}
<1>3. Bad = {}
  <2> SUFFICES ASSUME Bad # {} PROVE FALSE
    OBVIOUS
  <2>1. Bad \in SUBSET Nat
    BY <1>1
  <2>2. PICK m \in Bad : \A y \in Bad : m <= y
    BY <2>1, LeastExists
  <2>3. m \in 0 .. n /\ m # 0
    <3>1. Bounds(0, 0)
      OBVIOUS
    <3> QED
      BY <3>1
  <2>4. m - 1 \in 0 .. n /\ m - 1 \notin Bad
    <3> HIDE DEF Bad
    <3>1. m \in Nat /\ m - 1 \in 0 .. n
      BY <1>1, <2>3
    <3>2. m - 1 \in Bad => m <= m - 1
      BY <2>2
    <3> QED
      BY <3>1, <3>2
  <2>5. PICK b \in Nat : Bounds(m - 1, b)
    BY <2>4
  <2>6. m \in 1 .. n /\ f[m] \in Nat
    <3> HIDE DEF Bad
    <3>1. m \in 1 .. n
      BY <1>1, <2>3
    <3> QED
      BY <1>2, <3>1
  <2>7. PICK c \in Nat : b <= c /\ f[m] <= c
    <3> HIDE DEF Bad, Bounds
    <3>1. b <= b + f[m] /\ f[m] <= b + f[m] /\ b + f[m] \in Nat
      BY <2>5, <2>6
    <3> QED
      BY <3>1
  <2>8. ASSUME NEW k \in 1 .. m PROVE f[k] <= c
    <3>1. k \in 1 .. n /\ f[k] \in Nat
      <4> HIDE DEF Bad, Bounds
      <4>1. k \in 1 .. n
        BY <1>1, <2>6
      <4> QED
        BY <1>2, <4>1
    <3>2. CASE k = m
      BY <2>7, <3>2
    <3>3. CASE k # m
      <4>1. k \in 1 .. m - 1
        BY <3>3, <2>6
      <4> QED
        BY <2>5, <2>7, <3>1, <4>1
    <3> QED
      BY <3>2, <3>3
  <2> QED
    BY <2>2, <2>8
<1>4. PICK b \in Nat : Bounds(n, b)
  <2>1. n \in 0 .. n
    BY <1>1
  <2> QED
    BY <2>1, <1>3
<1> QED
  BY <1>2, <1>4

(* Max and Min of a finite set of numbers are its largest and its smallest *)
(* element.                                                                *)
LEMMA MaxMin ==
  ASSUME NEW S \in SUBSET Nat, IsFiniteSet(S), S # {}
  PROVE  /\ Max(S) \in S /\ \A x \in S : x <= Max(S)
         /\ Min(S) \in S /\ \A x \in S : Min(S) <= x
<1>1. PICK b \in Nat : \A x \in S : x <= b
  BY FiniteHasBound
<1> DEFINE T == {m \in Nat : \A y \in S : y <= m}
<1>2. PICK t \in T : \A m \in T : t <= m
  <2>1. b \in T
    BY <1>1
  <2> QED
    BY <2>1, LeastExists
<1>3. t \in S
  <2> SUFFICES ASSUME t \notin S PROVE FALSE
    OBVIOUS
  <2>1. t \in Nat /\ \A y \in S : y \in Nat /\ y < t
    BY <1>2
  <2>2. t - 1 \in Nat
    <3>1. PICK y \in S : TRUE
      OBVIOUS
    <3> QED
      BY <2>1, <3>1
  <2>3. t - 1 \in T
    BY <2>1, <2>2
  <2> QED
    BY <2>1, <2>3, <1>2
<1>4. \E x \in S : \A y \in S : x >= y
  <2>1. \A y \in S : t >= y
    BY <1>2
  <2> QED
    BY <2>1, <1>3
<1>5. \E x \in S : \A y \in S : x <= y
  BY LeastExists
<1>6. Max(S) \in S /\ \A y \in S : Max(S) >= y
  BY <1>4 DEF Max
<1>7. Min(S) \in S /\ \A y \in S : Min(S) <= y
  BY <1>5 DEF Min
<1> QED
  BY <1>6, <1>7

-----------------------------------------------------------------------------
(* The reports.                                                            *)

(* What was recorded last is not before anything that was recorded.        *)
LEMMA LastIsLast ==
  ASSUME NEW S \in SUBSET Envelopes
  PROVE  /\ Max({0} \cup {f.seq : f \in S}) \in Nat
         /\ \A e \in S : Max({0} \cup {f.seq : f \in S}) >= e.seq
<1> DEFINE N == {0} \cup {f.seq : f \in S}
<1>1. N \in SUBSET Nat
  BY EnvelopeFields
<1>2. IsFiniteSet(N)
  <2>1. IsFiniteSet(S)
    BY JournalsAssumption, FS_Subset
  <2>2. IsFiniteSet({f.seq : f \in S})
    <3> DEFINE g == [f \in S |-> f.seq]
    <3>1. g \in Surjection(S, {f.seq : f \in S})
      BY DEF Surjection
    <3> QED
      BY <2>1, <3>1, FS_Surjection
  <2> QED
    BY <2>2, FS_AddElement
<1>3. Max(N) \in N /\ \A n \in N : n <= Max(N)
  BY <1>1, <1>2, MaxMin
<1>4. \A e \in S : e.seq \in N
  OBVIOUS
<1> HIDE DEF N
<1>5. Max(N) \in Nat /\ \A e \in S : Max(N) >= e.seq
  BY <1>1, <1>3, <1>4
<1> QED
  BY <1>5 DEF N

-----------------------------------------------------------------------------
(* What is reported.                                                       *)

(* LastRecorded and LastUserEvent.                                         *)
LEMMA RecordedIsLast ==
  ASSUME NEW i \in Invocations, NEW e \in Envelopes, e.inv = i, Offered(e)
  PROVE  /\ IsJournal(e) => LastRecorded(i) >= e.seq
         /\ ~IsJournal(e) => LastUserEvent(i) >= e.seq
<1>1. ASSUME IsJournal(e) PROVE LastRecorded(i) >= e.seq
  <2>1. e \in {f \in Journal(i) : Offered(f)}
    BY <1>1 DEF Journal
  <2>2. {f \in Journal(i) : Offered(f)} \in SUBSET Envelopes
    BY DEF Journal
  <2> QED
    BY <2>1, <2>2, LastIsLast DEF LastRecorded
<1>2. ASSUME ~IsJournal(e) PROVE LastUserEvent(i) >= e.seq
  <2>1. e \in {f \in UserBatches(i) : Offered(f)}
    BY <1>2 DEF UserBatches
  <2>2. {f \in UserBatches(i) : Offered(f)} \in SUBSET Envelopes
    BY DEF UserBatches
  <2> QED
    BY <2>1, <2>2, LastIsLast DEF LastUserEvent
<1> QED
  BY <1>1, <1>2

LEMMA RecordedInNat ==
  ASSUME NEW i \in Invocations
  PROVE  LastRecorded(i) \in Nat /\ LastUserEvent(i) \in Nat
<1>1. /\ {f \in Journal(i) : Offered(f)} \in SUBSET Envelopes
      /\ {f \in UserBatches(i) : Offered(f)} \in SUBSET Envelopes
  BY DEF Journal, UserBatches
<1> QED
  BY <1>1, LastIsLast DEF LastRecorded, LastUserEvent

(* A journal reported durable.                                             *)
LEMMA JournalTruthful ==
  ASSUME PInv, NEW i \in Invocations, NEW e \in Journal(i), Offered(e),
         Status(i, LastRecorded(i)) = "durable"
  PROVE  e \in stored
<1>1. i \in admitted /\ durableSeq[i] >= LastRecorded(i)
  BY DEF Status, Undecided
<1>2. e \in Envelopes /\ e.inv = i /\ IsJournal(e) /\ e.seq \in Nat
  BY EnvelopeFields DEF Journal
<1>3. LastRecorded(i) >= e.seq
  BY <1>2, RecordedIsLast
<1>4. durableSeq[i] \in Nat /\ stored \subseteq Envelopes
  BY DEF PInv, IInv, TypeOK, PlacesInv, PipelineTypeOK
<1>5. SequencesStored /\ PrefixStored
  BY DEF PInv, FatesInv
<1>6. ASSUME NEW f \in Journal(i) \cap stored, e.seq <= f.seq PROVE e \in stored
  <2>1. f \in Envelopes /\ f.inv = i /\ IsJournal(f) /\ f.seq \in Nat
    BY EnvelopeFields DEF Journal
  <2>2. CASE f.seq = e.seq
    BY <1>2, <2>1, <2>2, JournalsAssumption
  <2>3. CASE e.seq < f.seq
    <3>1. Before(e, f)
      BY <1>2, <2>1, <2>3 DEF Before, SameLine
    <3> QED
      BY <1>2, <1>5, <2>1, <3>1 DEF PrefixStored
  <2> QED
    BY <1>2, <1>6, <2>1, <2>2, <2>3
<1>7. CASE e.seq = 0
  <2>1. PICK a \in Journal(i) \cap stored : a.kind = "admission"
    BY <1>1, <1>5 DEF SequencesStored
  <2>2. e.seq <= a.seq
    BY <1>7, EnvelopeFields DEF Journal
  <2> QED
    BY <1>6, <2>2
<1>8. CASE e.seq # 0
  <2>1. durableSeq[i] >= e.seq
    BY <1>1, <1>2, <1>3, <1>4, RecordedInNat
  <2>2. durableSeq[i] # 0
    BY <1>2, <1>4, <1>8, <2>1
  <2>3. PICK f \in Journal(i) \cap stored : f.seq = durableSeq[i]
    BY <1>5, <2>2 DEF SequencesStored
  <2> QED
    BY <1>2, <1>4, <1>6, <2>1, <2>3
<1> QED
  BY <1>7, <1>8

(* UserEvents reported durable.                                            *)
LEMMA UserEventsTruthful ==
  ASSUME PInv, NEW i \in Invocations, NEW e \in UserBatches(i), Offered(e),
         UserEventStatus(i, LastUserEvent(i)) = "durable"
  PROVE  e \in stored
<1> SUFFICES ASSUME e \notin stored PROVE FALSE
  OBVIOUS
<1>1. i \notin userGaps /\ durableUserSeq[i] >= LastUserEvent(i) /\ ~UserEventsPending(i)
  BY DEF UserEventStatus, Undecided
<1>2. e \in Envelopes /\ e.inv = i /\ ~IsJournal(e) /\ e.seq \in Nat /\ e.seq # 0
  BY EnvelopeFields, JournalsAssumption DEF UserBatches
<1>3. LastUserEvent(i) >= e.seq
  BY <1>2, RecordedIsLast
<1>4. /\ durableUserSeq[i] \in Nat /\ stage \in [Envelopes -> Stages]
      /\ OutstandingExact
      /\ SequencesStored /\ OfferedInOrder /\ AbandonedExcused /\ SettledExcused
      /\ LostBehind
  BY DEF PInv, IInv, TypeOK, FatesInv
<1>5. durableUserSeq[i] # 0 /\ durableUserSeq[i] >= e.seq
  BY <1>1, <1>2, <1>3, <1>4, RecordedInNat
<1>6. PICK f \in UserBatches(i) \cap stored : f.seq = durableUserSeq[i]
  BY <1>4, <1>5 DEF SequencesStored
<1>7. f \in Envelopes /\ f.inv = i /\ ~IsJournal(f) /\ f.seq \in Nat /\ f \in stored
  BY <1>6, EnvelopeFields DEF UserBatches
<1>8. f # e /\ f.seq # e.seq
  BY <1>2, <1>7, JournalsAssumption
<1>9. Before(e, f)
  BY <1>2, <1>5, <1>6, <1>7, <1>8 DEF Before, SameLine
<1>10. Offered(f)
  <2>1. stage[f] # "new"
    BY <1>7 DEF PInv, FatesInv, StoredWhere
  <2> QED
    BY <2>1 DEF Offered
<1>11. Returned(e)
  BY <1>2, <1>4, <1>7, <1>9, <1>10 DEF OfferedInOrder
<1>12. e \notin abandoned
  BY <1>1, <1>2, <1>4 DEF AbandonedExcused, Excused
<1>13. stage[e] = "settled"
  <2>1. e \notin outstanding
    BY <1>1, <1>2 DEF UserEventsPending
  <2> QED
    BY <1>2, <1>4, <1>11, <1>12, <2>1 DEF Returned, OutstandingExact
<1>14. e \in reporting
  BY <1>1, <1>2, <1>4, <1>13 DEF SettledExcused
<1> QED
  BY <1>2, <1>4, <1>7, <1>9, <1>13, <1>14 DEF LostBehind

LEMMA TruthfulByPlaces == PInv => ReportsTruthful
<1> SUFFICES ASSUME PInv PROVE ReportsTruthful
  OBVIOUS
<1>1. ASSUME NEW i \in Invocations, Status(i, LastRecorded(i)) = "durable",
             NEW e \in Journal(i), Offered(e)
      PROVE  e \in stored
  BY <1>1, JournalTruthful
<1>2. ASSUME NEW i \in Invocations, UserEventStatus(i, LastUserEvent(i)) = "durable",
             NEW e \in UserBatches(i), Offered(e)
      PROVE  e \in stored
  BY <1>2, UserEventsTruthful
<1>3. flush = "ok" => \A e \in flushed : e.inv \in Invocations => e \in stored
  BY DEF PInv, FatesInv, FlushKnows
<1> QED
  BY <1>1, <1>2, <1>3 DEF ReportsTruthful

(* What the writer holds, gives up and reports agrees with the database:   *)
(* nothing overtakes anything of its journal from the deque to the batch,  *)
(* an envelope is settled only if it is stored or its failure is known or  *)
(* being reported, and the rows of a journal are a prefix of its records.  *)
THEOREM PipelineInvariant == DatabaseSpec => []PInv
  BY PipelineInit, PipelineStep, PTL DEF DatabaseSpec

(* What the store and the writer do with the coordinator they do by its    *)
(* methods, under its lock and in their order: whatever is proved of every *)
(* client of the coordinator holds in the pipeline.                        *)
THEOREM PipelineUsesCoordinator == DatabaseSpec => Spec
<1>1. PInv /\ [DatabaseNext]_vars => [Next]_coordinatorVars
  BY ByItsMethods DEF PInv
<1>2. DatabaseInit => Init
  BY DEF DatabaseInit
<1> QED
  BY <1>1, <1>2, PipelineInvariant, PTL DEF DatabaseSpec, Spec

(* Whatever is refused, fails to encode, is rejected or retried, and       *)
(* wherever the threads of the Runtime interleave with the writer:         *)
(* persistence_status and user_event_persistence_status say "durable" only *)
(* of an Invocation whose recorded journal, or UserEvents, are all in the  *)
(* database, and aflush or aclose returns normally only when everything    *)
(* handed over before it is.                                               *)
THEOREM StatusTruthful == DatabaseSpec => []ReportsTruthful
  BY PipelineInvariant, TruthfulByPlaces, PTL

-----------------------------------------------------------------------------
(* The pipeline implements the abstract journal, for any Invocations and     *)
(* journals of any length: every step of the producers, of the coordinator   *)
(* and of the writer is a step of DurableJournal or leaves its variables     *)
(* alone.                                                                    *)

(* The variables of the abstract journal.                                  *)

Records(i) == {e \in Journal(i) : Offered(e)}
Rows(i) == Journal(i) \cap stored
Losses(i) == {e \in Journal(i) : Lost(e)}

CutAt(S) == Min({LongestJournal} \cup {e.seq : e \in S})

recorded == [i \in Invocations |-> Cardinality(Records(i))]
rows == [i \in Invocations |-> {e.seq + 1 : e \in Rows(i)}]
cut == [i \in Invocations |-> CutAt(Losses(i))]

LEMMA AbstractSteps ==
  /\ /\ recorded = [i \in Invocations |-> 0]
     /\ rows = [i \in Invocations |-> {}]
     /\ cut = [i \in Invocations |-> LongestJournal]
     => Abstract!JournalInit
  /\ UNCHANGED <<recorded, rows, cut>> => UNCHANGED Abstract!journalVars
  /\ \A i \in Invocations :
       /\ recorded[i] < LongestJournal
       /\ recorded' = [recorded EXCEPT ![i] = @ + 1]
       /\ UNCHANGED <<rows, cut>>
       => Abstract!Record(i)
  /\ \A i \in Invocations :
       /\ recorded[i] < LongestJournal
       /\ recorded' = [recorded EXCEPT ![i] = @ + 1]
       /\ cut' = [cut EXCEPT ![i] = IF @ <= recorded[i] THEN @ ELSE recorded[i]]
       /\ UNCHANGED rows
       => Abstract!RecordLost(i)
  /\ \A i \in Invocations :
       /\ \E n \in 1 .. recorded[i] :
            /\ rows[i] \subseteq 1 .. (n - 1) /\ n - 1 < cut[i]
            /\ cut' = [cut EXCEPT ![i] = n - 1]
       /\ UNCHANGED <<recorded, rows>>
       => Abstract!Lose(i)
  /\ /\ rows' = [i \in Invocations |-> rows'[i]]
     /\ \A i \in Invocations : \E n \in (1 .. LongestJournal) \cup {0} :
          /\ rows[i] \subseteq 1 .. n /\ rows'[i] = 1 .. n
          /\ n <= recorded[i] /\ n <= cut[i]
     /\ UNCHANGED <<recorded, cut>>
     => Abstract!Commit
BY DEF Abstract!JournalInit, Abstract!journalVars, Abstract!Record,
       Abstract!RecordLost, Abstract!Lose, Abstract!Commit, Abstract!Prefix,
       recorded, rows, cut, Records, Rows, Losses, CutAt

-----------------------------------------------------------------------------
(* Prefixes of a journal.                                                  *)

IsInitial(S, i) == \A e \in S, f \in Journal(i) : f.seq < e.seq => f \in S

LEMMA JournalOf ==
  ASSUME NEW i \in Invocations
  PROVE  /\ Journal(i) \in SUBSET Envelopes /\ IsFiniteSet(Journal(i))
         /\ \A e \in Journal(i) : e.inv = i /\ IsJournal(e) /\ e.seq \in Nat
         /\ \A e, f \in Journal(i) : e.seq = f.seq => e = f
         /\ \A e \in Journal(i) : \A n \in 0 .. e.seq :
              \E f \in Journal(i) : f.seq = n
<1>1. /\ Journal(i) \in SUBSET Envelopes
      /\ \A e \in Journal(i) : e.inv = i /\ IsJournal(e) /\ e.seq \in Nat
  BY EnvelopeFields DEF Journal
<1>2. IsFiniteSet(Journal(i))
  BY <1>1, JournalsAssumption, FS_Subset
<1>3. \A e, f \in Journal(i) : e.seq = f.seq => e = f
  BY <1>1, JournalsAssumption
<1>4. \A e \in Journal(i) : \A n \in 0 .. e.seq : \E f \in Journal(i) : f.seq = n
  BY <1>1, JournalsAssumption DEF Journal
<1> QED
  BY <1>1, <1>2, <1>3, <1>4

LEMMA LongestIs ==
  /\ LongestJournal \in Nat
  /\ \A i \in Invocations : JournalLength(i) <= LongestJournal
<1> DEFINE L == {JournalLength(i) : i \in Invocations}
           g == [i \in Invocations |-> JournalLength(i)]
<1>1. L \in SUBSET Nat
  BY JournalOf, FS_CardinalityType DEF JournalLength
<1>2. IsFiniteSet(L)
  <2>1. g \in Surjection(Invocations, L)
    BY DEF Surjection
  <2> QED
    BY <2>1, JournalsAssumption, FS_Surjection
<1>3. IsFiniteSet({0} \cup L) /\ {0} \cup L \in SUBSET Nat /\ {0} \cup L # {}
  BY <1>1, <1>2, FS_AddElement
<1>4. Max({0} \cup L) \in {0} \cup L /\ \A n \in {0} \cup L : n <= Max({0} \cup L)
  BY <1>3, MaxMin
<1> QED
  BY <1>3, <1>4 DEF LongestJournal

(* The first n records of a journal are those of sequence 0 to n - 1.      *)
LEMMA PrefixCount ==
  ASSUME NEW i \in Invocations, NEW S \in SUBSET Journal(i), IsInitial(S, i)
  PROVE  /\ Cardinality(S) \in Nat /\ Cardinality(S) <= LongestJournal
         /\ \A e \in S : e.seq < Cardinality(S)
         /\ \A n \in 0 .. Cardinality(S) - 1 : \E e \in S : e.seq = n
<1> DEFINE T == {e.seq : e \in S}
           g == [e \in S |-> e.seq]
<1>1. S \in SUBSET Envelopes /\ IsFiniteSet(S) /\ \A e \in S : e.seq \in Nat
  BY JournalOf, FS_Subset
<1>2. IsFiniteSet(T) /\ Cardinality(T) = Cardinality(S) /\ Cardinality(S) \in Nat
  <2>1. g \in Bijection(S, T)
    BY JournalOf DEF Bijection, Injection, Surjection, IsInjective
  <2> QED
    BY <1>1, <2>1, FS_Bijection, FS_CardinalityType DEF ExistsBijection
<1>3. T \in SUBSET Nat
  BY <1>1
<1>4. \A t \in T : \A n \in 0 .. t : n \in T
  <2> SUFFICES ASSUME NEW e \in S, NEW n \in 0 .. e.seq PROVE n \in T
    OBVIOUS
  <2>1. PICK f \in Journal(i) : f.seq = n
    BY JournalOf
  <2>2. f \in S
    <3>1. CASE n < e.seq
      BY <2>1, <3>1 DEF IsInitial
    <3>2. CASE n = e.seq
      BY <2>1, <3>2, JournalOf
    <3> QED
      BY <1>1, <3>1, <3>2
  <2> QED
    BY <2>1, <2>2
<1>5. T = 0 .. (Cardinality(S) - 1)
  <2>1. CASE T = {}
    <3>1. Cardinality(S) = 0
      BY <1>2, <2>1, FS_EmptySet
    <3> QED
      BY <2>1, <3>1
  <2>2. CASE T # {}
    <3>1. Max(T) \in T /\ \A t \in T : t <= Max(T)
      BY <1>2, <1>3, <2>2, MaxMin
    <3> HIDE DEF T
    <3>2. Max(T) \in Nat /\ T = 0 .. Max(T)
      <4>1. Max(T) \in Nat
        BY <1>3, <3>1
      <4>2. \A n \in T : n \in 0 .. Max(T)
        BY <1>3, <3>1, <4>1
      <4>3. \A n \in 0 .. Max(T) : n \in T
        BY <1>4, <3>1
      <4> QED
        BY <4>1, <4>2, <4>3
    <3>3. Cardinality(0 .. Max(T)) = Max(T) + 1
      BY <3>2, FS_Interval
    <3> QED
      BY <1>2, <3>2, <3>3
  <2> QED
    BY <2>1, <2>2
<1>6. Cardinality(S) <= LongestJournal
  <2>1. Cardinality(S) <= JournalLength(i) /\ JournalLength(i) \in Nat
    BY JournalOf, FS_Subset, FS_CardinalityType DEF JournalLength
  <2>2. LongestJournal \in Nat /\ JournalLength(i) <= LongestJournal
    BY LongestIs
  <2> QED
    BY <1>2, <2>1, <2>2
<1>7. \A e \in S : e.seq \in T
  OBVIOUS
<1>8. \A n \in T : \E e \in S : e.seq = n
  OBVIOUS
<1> HIDE DEF T
<1>9. \A e \in S : e.seq < Cardinality(S)
  BY <1>2, <1>5, <1>7
<1> QED
  BY <1>2, <1>5, <1>6, <1>8, <1>9

(* What is recorded and what is stored of a journal are prefixes of it,    *)
(* and nothing that was lost is stored.                                    *)
JournalShape ==
  \A i \in Invocations :
    /\ IsInitial(Records(i), i) /\ IsInitial(Rows(i), i)
    /\ Rows(i) \subseteq Records(i)
    /\ Losses(i) \cap stored = {}

LEMMA ShapeKept == PInv => JournalShape
<1> SUFFICES ASSUME PInv, NEW i \in Invocations
             PROVE  /\ IsInitial(Records(i), i) /\ IsInitial(Rows(i), i)
                    /\ Rows(i) \subseteq Records(i)
                    /\ Losses(i) \cap stored = {}
  BY DEF JournalShape
<1>1. /\ OfferedInOrder /\ AbandonedExcused /\ StoredWhere /\ PrefixStored
      /\ stage \in [Envelopes -> Stages]
  BY DEF PInv, FatesInv, IInv, TypeOK
<1>2. \A e, f \in Journal(i) :
        /\ e \in Envelopes /\ f \in Envelopes /\ IsJournal(f)
        /\ f.seq < e.seq => Before(f, e)
  BY JournalOf DEF Before, SameLine
<1>3. IsInitial(Records(i), i)
  BY <1>1, <1>2 DEF IsInitial, Records, OfferedInOrder, Returned, Offered
<1>4. IsInitial(Rows(i), i)
  BY <1>1, <1>2 DEF IsInitial, Rows, PrefixStored
<1>5. Rows(i) \subseteq Records(i)
  BY <1>1 DEF Rows, Records, Offered, StoredWhere
<1>6. Losses(i) \cap stored = {}
  BY <1>1 DEF Losses, Lost, StoredWhere, AbandonedExcused
<1> QED
  BY <1>3, <1>4, <1>5, <1>6

(* Where a journal is cut.                                                 *)
LEMMA CutOf ==
  ASSUME NEW i \in Invocations, NEW S \in SUBSET Journal(i)
  PROVE  /\ CutAt(S) \in Nat
         /\ \A e \in S : CutAt(S) <= e.seq
         /\ CutAt(S) = LongestJournal \/ \E e \in S : CutAt(S) = e.seq
         /\ CutAt(S) <= LongestJournal
<1> DEFINE N == {LongestJournal} \cup {e.seq : e \in S}
<1>1. N \in SUBSET Nat /\ LongestJournal \in N /\ \A e \in S : e.seq \in N
  BY JournalOf, LongestIs
<1>2. IsFiniteSet(N)
  <2> DEFINE g == [e \in S |-> e.seq]
  <2>1. g \in Surjection(S, {e.seq : e \in S})
    BY DEF Surjection
  <2>2. IsFiniteSet(S)
    BY JournalOf, FS_Subset
  <2>3. IsFiniteSet({e.seq : e \in S})
    BY <2>1, <2>2, FS_Surjection
  <2> QED
    BY <2>3, FS_AddElement
<1>3. Min(N) \in N /\ \A n \in N : Min(N) <= n
  BY <1>1, <1>2, MaxMin
<1> QED
  BY <1>1, <1>3 DEF CutAt

LEMMA CutMoves ==
  ASSUME NEW i \in Invocations, NEW S \in SUBSET Journal(i), NEW e \in Journal(i)
  PROVE  CutAt(S \cup {e}) = IF CutAt(S) <= e.seq THEN CutAt(S) ELSE e.seq
<1> DEFINE T == S \cup {e}
<1>1. T \in SUBSET Journal(i) /\ e \in T /\ S \subseteq T
  OBVIOUS
<1>2. e.seq \in Nat /\ LongestJournal \in Nat /\ \A f \in T : f.seq \in Nat
  BY <1>1, JournalOf, LongestIs
<1>3. /\ CutAt(T) \in Nat /\ CutAt(T) <= LongestJournal
      /\ \A f \in T : CutAt(T) <= f.seq
      /\ CutAt(T) = LongestJournal \/ \E f \in T : CutAt(T) = f.seq
  BY <1>1, CutOf
<1>4. /\ CutAt(S) \in Nat /\ CutAt(S) <= LongestJournal
      /\ \A f \in S : CutAt(S) <= f.seq
      /\ CutAt(S) = LongestJournal \/ \E f \in S : CutAt(S) = f.seq
  BY CutOf
<1>5. CutAt(T) <= CutAt(S)
  BY <1>1, <1>3, <1>4
<1>6. CutAt(T) = e.seq \/ CutAt(T) >= CutAt(S)
  BY <1>2, <1>3, <1>4
<1>7. CutAt(T) <= e.seq
  BY <1>1, <1>3
<1> HIDE DEF T
<1>8. CutAt(T) = IF CutAt(S) <= e.seq THEN CutAt(S) ELSE e.seq
  BY <1>2, <1>3, <1>4, <1>5, <1>6, <1>7
<1> QED
  BY <1>8 DEF T

(* The rows of a journal, counted from 1.                                  *)
LEMMA RowsOf ==
  ASSUME NEW i \in Invocations, NEW S \in SUBSET Journal(i), IsInitial(S, i)
  PROVE  {e.seq + 1 : e \in S} = 1 .. Cardinality(S)
<1>1. /\ Cardinality(S) \in Nat
      /\ \A e \in S : e.seq < Cardinality(S) /\ e.seq \in Nat
      /\ \A n \in 0 .. Cardinality(S) - 1 : \E e \in S : e.seq = n
  BY PrefixCount, JournalOf
<1>2. ASSUME NEW n \in 1 .. Cardinality(S)
      PROVE  \E e \in S : n = e.seq + 1
  <2>1. n - 1 \in 0 .. Cardinality(S) - 1
    BY <1>1
  <2>2. PICK e \in S : e.seq = n - 1
    BY <1>1, <2>1
  <2> QED
    BY <2>2
<1>3. \A e \in S : e.seq + 1 \in 1 .. Cardinality(S)
  BY <1>1
<1> QED
  BY <1>2, <1>3

-----------------------------------------------------------------------------
(* The steps.                                                              *)

(* A step moves or abandons one envelope, or stores and does neither.      *)
LEMMA OneAtATime ==
  ASSUME IInv, PlacesInv, [DatabaseNext]_vars
  PROVE  \/ Storing /\ UNCHANGED <<stage, abandoned>>
         \/ /\ UNCHANGED stored
            /\ \E e : \/ (\E s : MoveTo(e, s)) /\ UNCHANGED abandoned
                      \/ UNCHANGED stage /\ abandoned' \in {abandoned, abandoned \cup {e}}
<1> DEFINE Goal ==
      /\ UNCHANGED stored
      /\ \E e : \/ (\E s : MoveTo(e, s)) /\ UNCHANGED abandoned
                \/ UNCHANGED stage /\ abandoned' \in {abandoned, abandoned \cup {e}}
<1> USE DEF NoneButWriter, NoneButProducer, producerVars, coordinatorVars
<1>1. CASE Quiet
  BY <1>1 DEF Quiet, fates
<1>2. CASE Storing
  BY <1>2 DEF Storing, CommitRuntime, CommitUsers, RetryRuntime, RetryUsers,
              Retry, SetHealth
<1>3. ASSUME NEW e \in Envelopes,
             OfferReserves(e) \/ OfferRefused(e) \/ StorePublish(e)
      PROVE  Goal
  BY <1>3 DEF OfferReserves, OfferRefused, StorePublish, Reserve, Refuse, Publish
<1>4. ASSUME NEW e \in Envelopes, DropFaulted(e) \/ ReportRefusal(e) \/ Report(e)
      PROVE  Goal
  BY <1>4 DEF DropFaulted, ReportRefusal, Report, DegradeInvocation,
              DegradeUserEvents, BeginFail, SetHealth
<1>5. CASE Taking
  BY <1>5 DEF Taking, ImportTake, TakeOne, TakeDropsFailed
<1>6. CASE Purging
  <2>1. PICK k \in Keys : Purge /\ PurgeOne(k)
    BY <1>6 DEF Purging
  <2>2. PICK j \in Doomed(k) : MoveTo(incoming[k][j], "settled")
    BY <2>1 DEF PurgeOne
  <2>3. UNCHANGED <<stored, abandoned>>
    BY <2>1 DEF Purge
  <2> QED
    BY <2>2, <2>3
<1>7. CASE PrepareDropped \/ PrepareFails
  BY <1>7 DEF PrepareDropped, PrepareFails, Discard, Settle
<1>8. CASE SettleOne
  <2>1. MoveTo(Head(batch), "settled") /\ UNCHANGED <<stored, abandoned>>
    BY <1>8 DEF SettleOne, MarkDurable, MarkAdmissionDurable,
                MarkUserEventsDurable, Discard, Settle
  <2> QED
    BY <2>1
<1>9. CASE PrepareSucceeds \/ BatchOne \/ RejectUsers \/ Halt
  BY <1>9 DEF PrepareSucceeds, AdjustSize, BatchOne, RejectUsers, Halt, SetHealth
<1> QED
  BY <1>1, <1>2, <1>3, <1>4, <1>5, <1>6, <1>7, <1>8, <1>9, QuietOrLoud DEF Loud

(* A transaction stores a longer prefix of each journal.                   *)
LEMMA StoringCommits ==
  ASSUME PInv, JournalShape, JournalShape', [DatabaseNext]_vars,
         UNCHANGED <<stage, abandoned>>
  PROVE  Abstract!Commit
<1>1. \A i \in Invocations : Rows(i) \subseteq Rows(i)' /\ Records(i)' = Records(i)
  BY NothingTakenBack DEF Rows, Records, Journal, Offered
<1>2. \A i \in Invocations : Losses(i)' = Losses(i)
  <2>1. stage \in [Envelopes -> Stages] /\ ReportingWhere /\ Held /\ StoredWhere
    BY DEF PInv, FatesInv, PlacesInv, IInv, TypeOK
  <2>2. ASSUME NEW e \in Envelopes, e \in stored', e \notin stored
        PROVE  stage[e] = "taken"
    <3>1. e \in InHand
      BY <2>1, <2>2, StoredSteps DEF RuntimeItems, UserItems, InHand
    <3> QED
      BY <2>1, <3>1 DEF Held
  <2>3. \A e \in Envelopes : Lost(e)' <=> Lost(e)
    BY <2>2, NothingTakenBack DEF Lost
  <2> QED
    BY <2>3, JournalOf DEF Losses, Journal
<1>3. UNCHANGED <<recorded, cut>>
  BY <1>1, <1>2 DEF recorded, cut, CutAt
<1>4. ASSUME NEW i \in Invocations
      PROVE  \E n \in (1 .. LongestJournal) \cup {0} :
               /\ rows[i] \subseteq 1 .. n /\ rows'[i] = 1 .. n
               /\ n <= recorded[i] /\ n <= cut[i]
  <2> DEFINE n == Cardinality(Rows(i)')
  <2>1. /\ Rows(i)' \in SUBSET Journal(i) /\ IsInitial(Rows(i)', i)
        /\ Records(i) \in SUBSET Journal(i) /\ Rows(i)' \subseteq Records(i)
        /\ Losses(i) \in SUBSET Journal(i) /\ Losses(i) \cap Rows(i)' = {}
    BY <1>1, <1>2 DEF JournalShape, IsInitial, Rows, Records, Losses, Journal
  <2>2. rows'[i] = {e.seq + 1 : e \in Rows(i)'} /\ rows[i] = {e.seq + 1 : e \in Rows(i)}
    BY DEF rows
  <2>3. rows'[i] = 1 .. n /\ rows[i] \subseteq rows'[i]
    BY <1>1, <2>1, <2>2, RowsOf
  <2>4. n \in Nat /\ n <= LongestJournal
    BY <2>1, PrefixCount
  <2>5. n <= Cardinality(Records(i))
    BY <2>1, JournalOf, FS_Subset
  <2>6. n <= CutAt(Losses(i))
    <3>1. ASSUME NEW e \in Losses(i) PROVE n <= e.seq
      <4>1. e \in Journal(i) /\ e.seq \in Nat /\ e \notin Rows(i)'
        BY <2>1, JournalOf
      <4>2. ~(e.seq < n)
        <5>1. \A m \in 0 .. n - 1 : \E f \in Rows(i)' : f.seq = m
          BY <2>1, PrefixCount
        <5> HIDE DEF n
        <5>2. ASSUME e.seq < n PROVE FALSE
          <6>1. PICK f \in Rows(i)' : f.seq = e.seq
            BY <2>4, <4>1, <5>1, <5>2
          <6> QED
            BY <2>1, <4>1, <6>1, JournalOf
        <5> QED
          BY <5>2
      <4> QED
        BY <2>4, <4>1, <4>2
    <3>2. CutAt(Losses(i)) = LongestJournal \/ \E e \in Losses(i) : CutAt(Losses(i)) = e.seq
      BY <2>1, CutOf
    <3> QED
      BY <2>4, <3>1, <3>2
  <2> HIDE DEF n
  <2>7. recorded[i] = Cardinality(Records(i)) /\ cut[i] = CutAt(Losses(i))
    BY DEF recorded, cut
  <2> QED
    BY <2>3, <2>4, <2>5, <2>6, <2>7
<1>5. rows' = [i \in Invocations |-> rows'[i]]
  BY DEF rows
<1> QED
  BY <1>3, <1>4, <1>5, AbstractSteps

(* What happens to the record that moves: nothing, it is made, it is made  *)
(* and lost at once, or it is lost later and was not stored.               *)
LEMMA RecordFates ==
  ASSUME PInv, [DatabaseNext]_vars, UNCHANGED stored,
         NEW e \in Envelopes, IsJournal(e)
  PROVE  \/ (Offered(e)' <=> Offered(e)) /\ (Lost(e)' <=> Lost(e))
         \/ ~Offered(e) /\ Offered(e)' /\ (Lost(e)' <=> Lost(e))
         \/ ~Offered(e) /\ Offered(e)' /\ ~Lost(e) /\ Lost(e)'
         \/ Offered(e) /\ Offered(e)' /\ ~Lost(e) /\ Lost(e)' /\ e \notin stored
<1>1. /\ IInv /\ PlacesInv /\ FatesInv
      /\ stage \in [Envelopes -> Stages] /\ FailingKnown /\ AbandonedExcused
      /\ StoredWhere
  BY DEF PInv, FatesInv, IInv, TypeOK
<1>2. abandoned \subseteq abandoned'
  BY NothingTakenBack
<1>3. CASE e \in abandoned' \ abandoned
  <2>1. UNCHANGED stage /\ stage[e] \in {"new", "refused"}
    BY <1>1, <1>3, AbandonedSteps
  <2> QED
    BY <1>3, <2>1 DEF Offered, Lost
<1>4. CASE e \in abandoned' <=> e \in abandoned
  <2>1. CASE stage'[e] = stage[e]
    BY <1>4, <2>1 DEF Offered, Lost
  <2>2. CASE OfferedNow(e)
    BY <1>4, <2>2 DEF OfferedNow, CanOffer, Offered, Lost
  <2>3. CASE \/ stage[e] = "reserved" /\ stage'[e] = "queued"
             \/ stage[e] = "queued" /\ stage'[e] = "taken"
    BY <1>4, <2>3 DEF Offered, Lost
  <2>4. CASE GivenUp(e)
    BY <1>4, <2>4 DEF GivenUp, Offered, Lost
  <2>5. CASE SettledNow(e)
    <3>1. pc = "settle" /\ e = Head(batch) /\ batch # <<>>
      BY <1>1, <2>5 DEF SettledNow, SettleOne, PlacesInv, BatchExact
    <3>2. e \in Range(batch)
      BY <1>1, <3>1, BatchHead DEF InHand
    <3>3. e \in stored
      BY <1>1, <3>1, <3>2 DEF StoredWhere, RuntimeItems
    <3> QED
      BY <1>4, <2>5, <3>3 DEF SettledNow, Offered, Lost
  <2> QED
    BY <1>1, <2>1, <2>2, <2>3, <2>4, <2>5, StageSteps
<1> QED
  BY <1>2, <1>3, <1>4

(* The record made now is the next one of its journal.                     *)
LEMMA NextRecord ==
  ASSUME JournalShape, JournalShape', NEW i \in Invocations, NEW e \in Journal(i),
         e \notin Records(i), Records(i)' = Records(i) \cup {e}
  PROVE  /\ Cardinality(Records(i)) = e.seq /\ e.seq < LongestJournal
         /\ Cardinality(Records(i)') = Cardinality(Records(i)) + 1
<1>1. /\ Records(i) \in SUBSET Journal(i) /\ IsInitial(Records(i), i)
      /\ Records(i)' \in SUBSET Journal(i) /\ IsInitial(Records(i)', i)
      /\ e.seq \in Nat
  BY JournalOf DEF JournalShape, IsInitial, Records, Journal
<1> DEFINE n == Cardinality(Records(i))
<1>2. Cardinality(Records(i)') = n + 1
  <2>1. IsFiniteSet(Records(i))
    BY <1>1, JournalOf, FS_Subset
  <2> QED
    BY <2>1, FS_AddElement
<1>3. /\ n \in Nat /\ Cardinality(Records(i)') <= LongestJournal
      /\ \A f \in Records(i) : f.seq < n
      /\ \A m \in 0 .. Cardinality(Records(i)') - 1 : \E f \in Records(i)' : f.seq = m
  BY <1>1, PrefixCount
<1> HIDE DEF n
<1>4. PICK f \in Records(i) \cup {e} : f.seq = n
  BY <1>2, <1>3
<1>5. f = e
  BY <1>3, <1>4
<1> QED
  BY <1>2, <1>3, <1>4, <1>5, LongestIs DEF n

LEMMA RecordImplements ==
  ASSUME PInv, JournalShape, JournalShape', [DatabaseNext]_vars, UNCHANGED stored,
         NEW i \in Invocations, NEW e \in Journal(i),
         \A f \in Envelopes : f # e => /\ stage'[f] = stage[f]
                                       /\ f \in abandoned' <=> f \in abandoned
  PROVE  Abstract!JournalNext \/ UNCHANGED Abstract!journalVars
<1>1. /\ \A j \in Invocations : Journal(j) \in SUBSET Envelopes
      /\ \A j \in Invocations : j # i => e \notin Journal(j)
      /\ e \in Envelopes /\ IsJournal(e) /\ e.seq \in Nat
  BY JournalOf
<1>2. \A f \in Envelopes : f # e => (Offered(f)' <=> Offered(f)) /\ (Lost(f)' <=> Lost(f))
  BY DEF Offered, Lost
<1>3. \A j \in Invocations :
        j # i => Records(j)' = Records(j) /\ Losses(j)' = Losses(j)
  BY <1>1, <1>2 DEF Records, Losses, Journal
<1>4. UNCHANGED rows
  BY DEF rows, Rows, Journal
<1>5. /\ (Offered(e)' <=> Offered(e)) => Records(i)' = Records(i)
      /\ ~Offered(e) /\ Offered(e)' =>
           e \notin Records(i) /\ Records(i)' = Records(i) \cup {e}
      /\ (Lost(e)' <=> Lost(e)) => Losses(i)' = Losses(i)
      /\ ~Lost(e) /\ Lost(e)' => Losses(i)' = Losses(i) \cup {e}
  BY <1>1, <1>2 DEF Records, Losses, Journal
<1>6. /\ recorded = [j \in Invocations |-> Cardinality(Records(j))]
      /\ recorded' = [j \in Invocations |-> Cardinality(Records(j)')]
      /\ cut = [j \in Invocations |-> CutAt(Losses(j))]
      /\ cut' = [j \in Invocations |-> CutAt(Losses(j)')]
  BY DEF recorded, cut, CutAt
<1>7. Records(i)' = Records(i) => UNCHANGED recorded
  BY <1>3, <1>6
<1>8. Losses(i)' = Losses(i) => UNCHANGED cut
  BY <1>3, <1>6
<1>9. Losses(i)' = Losses(i) \cup {e} =>
        cut' = [cut EXCEPT ![i] = IF @ <= e.seq THEN @ ELSE e.seq]
  <2>1. CutAt(Losses(i) \cup {e}) =
          IF CutAt(Losses(i)) <= e.seq THEN CutAt(Losses(i)) ELSE e.seq
    BY CutMoves DEF Losses
  <2> QED
    BY <1>3, <1>6, <2>1
<1>10. ~Offered(e) /\ Offered(e)' =>
         /\ recorded[i] = e.seq /\ recorded[i] < LongestJournal
         /\ recorded' = [recorded EXCEPT ![i] = @ + 1]
  <2> SUFFICES ASSUME ~Offered(e), Offered(e)'
               PROVE  /\ recorded[i] = e.seq /\ recorded[i] < LongestJournal
                      /\ recorded' = [recorded EXCEPT ![i] = @ + 1]
    OBVIOUS
  <2>1. /\ Cardinality(Records(i)) = e.seq /\ e.seq < LongestJournal
        /\ Cardinality(Records(i)') = Cardinality(Records(i)) + 1
    BY <1>5, NextRecord
  <2> QED
    BY <1>3, <1>6, <2>1
<1>11. CASE (Offered(e)' <=> Offered(e)) /\ (Lost(e)' <=> Lost(e))
  BY <1>4, <1>5, <1>7, <1>8, <1>11, AbstractSteps
<1>12. CASE ~Offered(e) /\ Offered(e)' /\ (Lost(e)' <=> Lost(e))
  <2>1. Abstract!Record(i)
    BY <1>4, <1>5, <1>8, <1>10, <1>12, AbstractSteps
  <2> QED
    BY <2>1 DEF Abstract!JournalNext
<1>13. CASE ~Offered(e) /\ Offered(e)' /\ ~Lost(e) /\ Lost(e)'
  <2>1. cut' = [cut EXCEPT ![i] = IF @ <= recorded[i] THEN @ ELSE recorded[i]]
    BY <1>5, <1>9, <1>10, <1>13
  <2>2. Abstract!RecordLost(i)
    BY <1>4, <1>10, <1>13, <2>1, AbstractSteps
  <2> QED
    BY <2>2 DEF Abstract!JournalNext
<1>14. CASE Offered(e) /\ Offered(e)' /\ ~Lost(e) /\ Lost(e)' /\ e \notin stored
  <2>1. UNCHANGED <<recorded, rows>>
    BY <1>4, <1>5, <1>7, <1>14
  <2>2. cut' = [cut EXCEPT ![i] = IF @ <= e.seq THEN @ ELSE e.seq]
    BY <1>5, <1>9, <1>14
  <2>3. CASE cut[i] <= e.seq
    <3>1. UNCHANGED cut
      BY <1>6, <2>2, <2>3
    <3> QED
      BY <2>1, <3>1, AbstractSteps
  <2>4. CASE ~(cut[i] <= e.seq)
    <3>1. /\ Records(i) \in SUBSET Journal(i) /\ IsInitial(Records(i), i)
          /\ Rows(i) \in SUBSET Journal(i) /\ IsInitial(Rows(i), i)
          /\ Losses(i) \in SUBSET Journal(i)
      BY DEF JournalShape, Records, Rows, Losses
    <3>2. cut[i] \in Nat /\ recorded[i] \in Nat /\ e.seq < recorded[i]
      <4>1. CutAt(Losses(i)) \in Nat
        BY <3>1, CutOf
      <4>2. Cardinality(Records(i)) \in Nat /\ e.seq < Cardinality(Records(i))
        BY <1>14, <3>1, PrefixCount DEF Records
      <4> QED
        BY <1>6, <4>1, <4>2
    <3>3. rows[i] \subseteq 1 .. e.seq
      <4>1. rows[i] = 1 .. Cardinality(Rows(i))
        BY <3>1, RowsOf DEF rows
      <4>2. Cardinality(Rows(i)) \in Nat
        BY <3>1, PrefixCount
      <4>3. ASSUME e.seq < Cardinality(Rows(i)) PROVE FALSE
        <5>1. e.seq \in 0 .. Cardinality(Rows(i)) - 1
          BY <1>1, <4>2, <4>3
        <5>2. PICK f \in Rows(i) : f.seq = e.seq
          BY <3>1, <5>1, PrefixCount
        <5> QED
          BY <1>14, <3>1, <5>2, JournalOf DEF Rows
      <4> QED
        BY <1>1, <4>1, <4>2, <4>3
    <3> DEFINE n == e.seq + 1
    <3>4. n \in 1 .. recorded[i] /\ n - 1 = e.seq
      BY <1>1, <3>2
    <3>5. n - 1 < cut[i]
      BY <1>1, <2>4, <3>2
    <3>6. cut' = [cut EXCEPT ![i] = n - 1]
      BY <2>2, <2>4, <3>4
    <3>7. Abstract!Lose(i)
      BY <2>1, <3>3, <3>4, <3>5, <3>6, AbstractSteps
    <3> QED
      BY <3>7 DEF Abstract!JournalNext
  <2> QED
    BY <2>3, <2>4
<1> QED
  BY <1>1, <1>11, <1>12, <1>13, <1>14, RecordFates

LEMMA StepImplements ==
  PInv /\ JournalShape /\ JournalShape' /\ [DatabaseNext]_vars =>
    [Abstract!JournalNext]_(Abstract!journalVars)
<1> SUFFICES ASSUME PInv, JournalShape, JournalShape', [DatabaseNext]_vars
             PROVE  Abstract!JournalNext \/ UNCHANGED Abstract!journalVars
  OBVIOUS
<1>1. TypeOK /\ IInv /\ PlacesInv
  BY DEF PInv, IInv
<1>2. CASE UNCHANGED <<stage, abandoned>>
  BY <1>2, StoringCommits DEF Abstract!JournalNext
<1>3. ASSUME UNCHANGED stored, NEW e,
             \/ (\E s : MoveTo(e, s)) /\ UNCHANGED abandoned
             \/ UNCHANGED stage /\ abandoned' \in {abandoned, abandoned \cup {e}}
      PROVE  Abstract!JournalNext \/ UNCHANGED Abstract!journalVars
  <2>1. \A f \in Envelopes : f # e => /\ stage'[f] = stage[f]
                                      /\ f \in abandoned' <=> f \in abandoned
    BY <1>1, <1>3 DEF MoveTo, TypeOK
  <2>2. CASE \E i \in Invocations : e \in Journal(i)
    BY <1>3, <2>1, <2>2, RecordImplements
  <2>3. CASE ~ \E i \in Invocations : e \in Journal(i)
    <3>1. \A i \in Invocations : \A f \in Journal(i) :
            /\ f \in Envelopes /\ stage'[f] = stage[f]
            /\ f \in abandoned' <=> f \in abandoned
      BY <2>1, <2>3, JournalOf
    <3>2. \A i \in Invocations : \A f \in Journal(i) :
            (Offered(f)' <=> Offered(f)) /\ (Lost(f)' <=> Lost(f))
      BY <1>3, <3>1 DEF Offered, Lost
    <3>3. \A i \in Invocations : /\ Records(i)' = Records(i)
                                 /\ Rows(i)' = Rows(i) /\ Losses(i)' = Losses(i)
      BY <1>3, <3>2 DEF Records, Rows, Losses, Journal
    <3>4. UNCHANGED <<recorded, rows, cut>>
      BY <3>3 DEF recorded, rows, cut, CutAt
    <3> QED
      BY <3>4, AbstractSteps
  <2> QED
    BY <2>2, <2>3
<1> QED
  BY <1>1, <1>2, <1>3, OneAtATime

LEMMA InitImplements == DatabaseInit => Abstract!JournalInit
<1> SUFFICES ASSUME DatabaseInit PROVE Abstract!JournalInit
  OBVIOUS
<1>1. \A i \in Invocations : Records(i) = {} /\ Rows(i) = {} /\ Losses(i) = {}
  BY JournalOf DEF DatabaseInit, Init, Records, Rows, Losses, Offered, Lost
<1>2. Cardinality({}) = 0
  BY FS_EmptySet
<1>3. CutAt({}) = LongestJournal
  <2>1. {LongestJournal} \in SUBSET Nat /\ IsFiniteSet({LongestJournal})
    BY LongestIs, FS_Singleton
  <2>2. Min({LongestJournal}) \in {LongestJournal}
    BY <2>1, MaxMin
  <2>3. {LongestJournal} \cup {e.seq : e \in {}} = {LongestJournal}
    OBVIOUS
  <2> QED
    BY <2>2, <2>3 DEF CutAt
<1>4. /\ recorded = [i \in Invocations |-> 0]
      /\ rows = [i \in Invocations |-> {}]
      /\ cut = [i \in Invocations |-> LongestJournal]
  BY <1>1, <1>2, <1>3 DEF recorded, rows, cut
<1> QED
  BY <1>4, AbstractSteps

(* Whatever the producers, the coordinator, the writer and the database    *)
(* do: the database holds a prefix of each journal, a transaction extends  *)
(* it, and nothing at or beyond a record that was refused, dropped or      *)
(* given up is ever stored.  A process that stops at any moment leaves a   *)
(* contiguous journal to recover from.                                     *)
THEOREM PipelineImplementsJournal == DatabaseSpec => ImplementsJournal
<1>1. DatabaseSpec => []PInv
  BY PipelineInvariant
<1>2. DatabaseInit => Abstract!JournalInit
  BY InitImplements
<1>3. PInv => JournalShape
  BY ShapeKept
<1>4. PInv /\ JournalShape /\ JournalShape' /\ [DatabaseNext]_vars =>
        [Abstract!JournalNext]_(Abstract!journalVars)
  BY StepImplements
<1> QED
  BY <1>1, <1>2, <1>3, <1>4, PTL
  DEF DatabaseSpec, ImplementsJournal, Abstract!JournalSpec
=============================================================================
