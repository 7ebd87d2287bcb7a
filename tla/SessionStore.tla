----------------------------- MODULE SessionStore -----------------------------
(***************************************************************************)
(* One Session key of the RuntimeStore: the calls that look the Session up,*)
(* are admitted to it and resume it; the Invocations they drive; the       *)
(* writer that makes their events durable and applies the retention policy *)
(* (src/autoagent/core/runtime/store.py, session.py, retention.py); and a  *)
(* crash with the recovery of app.py.  The tables are those of             *)
(* ExecutionHistory; the coordinator in between is one queue.              *)
(*                                                                         *)
(* The calls run on the application's loop, which interleaves them where   *)
(* they wait: for the lookup in the database, and for memory to admit an   *)
(* Invocation (await_admission).  The writer is another thread.  The       *)
(* Invocation of an invoking call has the name of the call, as has the     *)
(* Session that it creates or loads: object c is the Session object made   *)
(* by call c, and a Session has the id of the call that first created it.  *)
(***************************************************************************)
EXTENDS ExecutionHistory

CONSTANTS
  Invokers,     \* calls of ainvoke, each at most once
  Resumers,     \* calls of aresume, each at most once
  None, Restored,
  Scenarios,    \* what a run explores: .keeps, the number of durable ended
                \* Invocations that the policy keeps; .modes, the event modes
                \* to choose from; .events and .crashes, the bounds on the
                \* progress events of an Invocation and on the crashes;
                \* .points, whether such an event may be a recovery point;
                \* .risks: "slow end", the writer may come between the end of
                \* an Invocation and its record; "outage", a lookup may fail
  BatchLimit    \* batch_max_items

ASSUME SessionAssumption ==
  /\ IsFiniteSet(Invokers \cup Resumers) /\ Invokers \cap Resumers = {}
  /\ {None, Restored} \cap (Invokers \cup Resumers) = {} /\ None # Restored
  /\ \A s \in Scenarios : "none" \notin s.modes
  /\ BatchLimit \in Nat

VARIABLES
  scenario,     \* the scenario of this behaviour
  objects,      \* the Session objects of this process
  sessions,     \* store.sessions: the object that an id stands for
  keyed,        \* store.session_keys: the id of the Session of the key
  pc,           \* where each call is
  found,        \* the id of the Session that an invoking call was given
  invs,         \* the Invocations as their drivers hold them
  driver,       \* what drives an Invocation is doing
  journal,      \* store.runtime_events: the last event, or Absent
  lru,          \* ended Invocations in the order of their durability
  recovering,   \* Invocations that astart is recovering
  queue,        \* published records that the writer has not taken
  batch,        \* records of the transaction under way
  advanced,     \* Invocations the writer has yet to apply retention to
  durable,      \* the coordinator's durable sequences
  available,    \* persistence has not been given up
  rows,         \* the Invocations in the database, with their events
  sessionRow,   \* the Session's row
  caches,       \* the writer's projected states
  life,         \* the number of crashes so far
  lapses        \* history: what a lookup has got wrong because another call
                \* came in between, see LookupInvocation and LookupReturns

callVars == <<objects, sessions, keyed, pc, found>>
driverVars == <<invs, driver, journal, recovering>>
writerVars == <<batch, advanced, durable, available>>
tables == <<rows, sessionRow>>
vars == <<scenario, callVars, driverVars, lru, queue, writerVars, tables,
          caches, life, lapses>>

Calls == Invokers \cup Resumers
Absent == -1
NoSession == [sid |-> None, current |-> None, invocations |-> {}]
NoInvocation == [state |-> "none", seq |-> 0, mode |-> "none", object |-> None]

NoMemory ==
  [objects |-> [o \in Calls \cup {Restored} |-> NoSession],
   sessions |-> [s \in Invokers |-> None],
   keyed |-> None,
   invs |-> [i \in Invokers |-> NoInvocation],
   journal |-> [i \in Invokers |-> Absent],
   durable |-> [i \in Invokers |-> Absent],
   caches |-> [i \in Invokers |-> NoCache]]

Init ==
  /\ scenario \in Scenarios
  /\ objects = NoMemory.objects /\ sessions = NoMemory.sessions
  /\ keyed = NoMemory.keyed
  /\ pc = [c \in Calls |-> "idle"]
  /\ found = [c \in Calls |-> None]
  /\ invs = NoMemory.invs /\ journal = NoMemory.journal
  /\ driver = [i \in Invokers |-> "none"]
  /\ lru = <<>> /\ recovering = {}
  /\ queue = <<>> /\ batch = <<>> /\ advanced = {}
  /\ durable = NoMemory.durable /\ available = TRUE
  /\ rows = [i \in Invokers |-> AdmissionRow("none")]
  /\ sessionRow = [sid |-> None, current |-> None]
  /\ caches = NoMemory.caches
  /\ life = 0 /\ lapses = {}

-----------------------------------------------------------------------------
(* Calls.                                                                  *)

Exists(row) == row.mode # "none"
Active(object) ==
  LET current == objects[object].current IN
  current \in objects[object].invocations /\ invs[current].state \in Unfinished

(* What a call does with the Session it found.                             *)
Verdict(c, object) ==
  LET waits == invs[objects[object].current].state = "waiting" IN
  CASE ~Active(object) -> IF c \in Invokers THEN "admitting" ELSE "failed"
    [] Active(object) -> IF c \in Resumers /\ waits THEN "running" ELSE "busy"

Ready(c) == pc[c] = "idle" /\ recovering = {}
InMemory == keyed # None /\ sessions[keyed] # None
InLookup == {d \in Calls : pc[d] \in {"looking", "reading", "loaded", "missed"}}
Goes(c, where) == pc' = [pc EXCEPT ![c] = where]
OnlyCalls == UNCHANGED <<scenario, lru, queue, writerVars, tables, caches, life>>
Lapse(kind, happens) == lapses' = IF happens THEN lapses \cup {kind} ELSE lapses
OnlyGoes(c, where) ==
  Goes(c, where) /\ UNCHANGED <<objects, sessions, keyed, found, driverVars>> /\ OnlyCalls

(* The Session is in memory: no wait before the verdict.                   *)
FindInMemory(c) ==
  LET verdict == Verdict(c, sessions[keyed]) IN
  /\ Ready(c) /\ InMemory /\ verdict # "running"
  /\ Goes(c, verdict)
  /\ found' = [found EXCEPT ![c] = IF verdict = "admitting" THEN keyed ELSE None]
  /\ UNCHANGED <<objects, sessions, keyed, driverVars, lapses>> /\ OnlyCalls

(* aclaim_waiting_session, and the resume up to mark_running.              *)
Resume(c) ==
  LET i == objects[sessions[keyed]].current IN
  /\ Ready(c) /\ InMemory /\ Verdict(c, sessions[keyed]) = "running"
  /\ Goes(c, "running")
  /\ invs' = [invs EXCEPT ![i].state = "running"]
  /\ driver' = [driver EXCEPT ![i] = "driving"]
  /\ UNCHANGED <<objects, sessions, keyed, found, journal, recovering, lapses>>
  /\ OnlyCalls

BeginLookup(c) ==
  /\ Ready(c) /\ ~InMemory
  /\ OnlyGoes(c, "looking") /\ UNCHANGED lapses

(* The first query of afind_session; without a database it finds nothing.  *)
LookupSession(c) ==
  /\ pc[c] = "looking"
  /\ \/ /\ available
        /\ OnlyGoes(c, IF sessionRow.sid = None THEN "missed" ELSE "reading")
     \/ /\ ~available \/ "outage" \in scenario.risks
        /\ OnlyGoes(c, "missed")
  /\ UNCHANGED lapses

(* The second query: an active Invocation that was not in memory is an     *)
(* error of the caller, who did not register the Workflow before starting; *)
(* or another call has put it there meanwhile ("overtaken").               *)
LookupInvocation(c) ==
  LET active == rows[sessionRow.current].state \in Unfinished IN
  /\ pc[c] = "reading"
  /\ OnlyGoes(c, IF active THEN "orphan" ELSE "loaded")
  /\ Lapse("overtaken", active /\ InMemory)

(* Wrong: a loaded Session is given an id of its own.                      *)
NewId(c) == IF c \in Invokers THEN c ELSE sessionRow.sid

LoadedId(c) == sessionRow.sid

(* _cache_session of a new Session object, whose id is sid.                *)
CacheSession(c, sid) ==
  /\ objects' = [objects EXCEPT ![c] = [NoSession EXCEPT !.sid = sid]]
  /\ sessions' = [sessions EXCEPT ![sid] = c]
  /\ keyed' = sid
  /\ found' = [found EXCEPT ![c] = IF c \in Invokers THEN sid ELSE None]

(* What was found is cached whatever is in memory by now ("replaced"); what *)
(* was missed is created unless it is there, also when it has been there   *)
(* and gone ("doubled").                                                   *)
LookupReturns(c) ==
  /\ pc[c] \in {"loaded", "missed"}
  /\ \/ /\ pc[c] = "loaded"
        /\ CacheSession(c, LoadedId(c))
        /\ Goes(c, IF c \in Invokers THEN "admitting" ELSE "failed")
        /\ Lapse("replaced", InMemory)
     \/ /\ pc[c] = "missed" /\ c \in Resumers
        /\ Goes(c, "failed")
        /\ UNCHANGED <<objects, sessions, keyed, found, lapses>>
     \/ /\ pc[c] = "missed" /\ c \in Invokers /\ ~InMemory
        /\ CacheSession(c, c)
        /\ Goes(c, "admitting")
        /\ Lapse("doubled", sessionRow.sid # None)
     \/ /\ pc[c] = "missed" /\ c \in Invokers /\ InMemory
        /\ Goes(c, Verdict(c, sessions[keyed]))
        /\ found' = [found EXCEPT ![c] = IF pc'[c] = "admitting" THEN keyed ELSE None]
        /\ UNCHANGED <<objects, sessions, keyed, lapses>>
  /\ UNCHANGED driverVars /\ OnlyCalls

(* The Invocation of call c becomes the current one of the object.         *)
Attach(c, object) ==
  /\ objects' = [objects EXCEPT ![object].current = c,
                                ![object].invocations = @ \cup {c}]
  /\ \E mode \in scenario.modes :
       /\ invs' = [invs EXCEPT ![c] = [state |-> "created", seq |-> 0,
                                       mode |-> mode, object |-> object]]
       /\ queue' = Append(queue, [kind |-> "admission", inv |-> c,
                                  sid |-> found[c], mode |-> mode])
  /\ journal' = [journal EXCEPT ![c] = 0]
  /\ driver' = [driver EXCEPT ![c] = "driving"]
  /\ Goes(c, "running")
  /\ found' = [found EXCEPT ![c] = None]

(* Wrong: the Session is not checked again after the wait for memory.      *)
AdmitUnchecked(c) ==
  /\ pc[c] = "admitting" /\ sessions[found[c]] # None
  /\ Attach(c, sessions[found[c]])
  /\ UNCHANGED <<scenario, sessions, keyed, recovering, lru, writerVars,
                 tables, caches, life, lapses>>

(* aadmit_invocation once memory admits it.  The Session may have been     *)
(* evicted meanwhile, or another call may have been admitted to it.        *)
Admit(c) ==
  LET object == sessions[found[c]]
      refused == UNCHANGED <<objects, invs, journal, driver, queue>>
                 /\ found' = [found EXCEPT ![c] = None]
  IN
  /\ pc[c] = "admitting"
  /\ \/ object = None /\ Goes(c, "failed") /\ refused
     \/ object # None /\ Active(object) /\ Goes(c, "busy") /\ refused
     \/ object # None /\ ~Active(object) /\ Attach(c, object)
  /\ UNCHANGED <<scenario, sessions, keyed, recovering, lru, writerVars,
                 tables, caches, life, lapses>>

-----------------------------------------------------------------------------
(* Drivers.                                                                *)

(* Only the newest queued record of an Invocation keeps its snapshot.      *)
Coalesce(i) ==
  [k \in DOMAIN queue |->
     IF queue[k].kind = "event" /\ queue[k].inv = i
     THEN [queue[k] EXCEPT !.snapshot = 0] ELSE queue[k]]

(* arecord_event: the next event, with a recovery snapshot in the standard *)
(* mode at a recovery point, and in any mode when one is forced.           *)
RecordEvent(i, state, point, forced) ==
  LET n == invs[i].seq + 1
      snapshot == IF forced \/ (invs[i].mode = "standard" /\ point) THEN n ELSE 0
      record == [kind |-> "event", inv |-> i, sid |-> objects[invs[i].object].sid,
                 seq |-> n, snapshot |-> snapshot,
                 data |-> [state |-> state, life |-> life, point |-> snapshot # 0]]
  IN  /\ journal[i] + 1 = n
      /\ invs' = [invs EXCEPT ![i].seq = n, ![i].state = state]
      /\ journal' = [journal EXCEPT ![i] = n]
      /\ sessions' = [sessions EXCEPT ![record.sid] = invs[i].object]
      /\ queue' = Append(IF snapshot # 0 THEN Coalesce(i) ELSE queue, record)

OnlyDrivers ==
  UNCHANGED <<scenario, objects, keyed, found, lru, writerVars, tables, caches, life, lapses>>

(* The call or the recovery that drove the Invocation returns.             *)
DriverReturns(i) ==
  /\ driver' = [driver EXCEPT ![i] = "none"]
  /\ recovering' = recovering \ {i}
  /\ pc' = [c \in Calls |->
              IF pc[c] = "running" /\ (c = i \/ c \in Resumers) THEN "done" ELSE pc[c]]

Progress(i) ==
  /\ driver[i] = "driving" /\ invs[i].seq < scenario.events
  /\ \E point \in scenario.points : RecordEvent(i, "running", point, FALSE)
  /\ UNCHANGED <<driver, recovering, pc>> /\ OnlyDrivers

Park(i) ==
  /\ driver[i] = "driving" /\ invs[i].state = "running" /\ invs[i].seq < scenario.events
  /\ RecordEvent(i, "waiting", TRUE, TRUE)
  /\ DriverReturns(i) /\ OnlyDrivers

(* mark_completed or mark_failed; a failed Invocation then waits for the   *)
(* workers it abandons.                                                    *)
MarkEnd(i) ==
  /\ driver[i] = "driving" /\ invs[i].seq > 0
  /\ \E state \in Ended : invs' = [invs EXCEPT ![i].state = state]
  /\ driver' = [driver EXCEPT ![i] = "ending"]
  /\ UNCHANGED <<sessions, journal, recovering, pc, queue>> /\ OnlyDrivers

RecordEnd(i) ==
  /\ driver[i] = "ending" /\ journal[i] # Absent
  /\ RecordEvent(i, invs[i].state, FALSE, invs[i].state = "failed")
  /\ DriverReturns(i) /\ OnlyDrivers

(* The aggregate was evicted: the event gets the wrong number, which is a  *)
(* ValueError, and afail_infrastructure finds an ended Invocation.         *)
RecordEndRefused(i) ==
  /\ driver[i] = "ending" /\ journal[i] = Absent
  /\ DriverReturns(i)
  /\ UNCHANGED <<invs, journal, sessions, queue>> /\ OnlyDrivers

-----------------------------------------------------------------------------
(* The writer.                                                             *)

Admissions(records) == {r \in Range(records) : r.kind = "admission"}
EventsOf(records, i) ==
  Kept(records, {r \in Range(records) : r.kind = "event" /\ r.inv = i})

TakeBatch ==
  /\ available /\ batch = <<>> /\ advanced = {}
  /\ \E n \in 1 .. Min({Len(queue), BatchLimit}) :
       /\ batch' = SubSeq(queue, 1, n)
       /\ queue' = SubSeq(queue, n + 1, Len(queue))
  /\ UNCHANGED <<scenario, callVars, driverVars, lru, advanced, durable,
                 available, tables, caches, life, lapses>>

(* What _persist_batch finds of an Invocation after its admissions, and    *)
(* what it makes of it.                                                    *)
Admitted(i) ==
  IF ~Exists(rows[i]) /\ \E r \in Admissions(batch) : r.inv = i
  THEN [row |-> AdmissionRow((CHOOSE r \in Admissions(batch) : r.inv = i).mode),
        cache |-> GenesisCache]
  ELSE [row |-> rows[i],
        cache |-> IF \E r \in Admissions(batch) : r.inv = i THEN GenesisCache ELSE caches[i]]
Persisted(i) ==
  LET admitted == Admitted(i)
      events == EventsOf(batch, i)
  IN  IF events = <<>> THEN admitted
      ELSE PersistEvents(admitted.row, admitted.cache, events)

(* A Session key that belongs to another Session, an event without its     *)
(* Invocation, or another event with the same number: no error that a      *)
(* retry could cure.                                                       *)
Refused ==
  \/ \E r \in Admissions(batch) :
       \/ sessionRow.sid \notin {None, r.sid}
       \/ \E s \in Admissions(batch) : s.sid # r.sid
  \/ \E i \in Invokers :
       LET events == EventsOf(batch, i) IN
       events # <<>> /\ (~Exists(Admitted(i).row) \/ Conflicts(rows[i], events))

Halt ==
  /\ batch # <<>> /\ Refused
  /\ available' = FALSE /\ batch' = <<>>
  /\ UNCHANGED <<scenario, callVars, driverVars, lru, queue, advanced, durable,
                 tables, caches, life, lapses>>

NewTables ==
  /\ rows' = [i \in Invokers |-> Persisted(i).row]
  /\ sessionRow' =
       LET admissions == Kept(batch, Admissions(batch)) IN
       IF admissions = <<>> THEN sessionRow
       ELSE [sid |-> Last(admissions).sid, current |-> Last(admissions).inv]
NewCaches == caches' = [i \in Invokers |-> Persisted(i).cache]

(* mark_admission_durable and mark_durable of the items of the batch.      *)
Commit ==
  /\ batch # <<>> /\ ~Refused
  /\ NewTables /\ NewCaches
  /\ durable' = [i \in Invokers |->
       Max({durable[i]} \cup {0 : r \in {a \in Admissions(batch) : a.inv = i}}
             \cup {r.seq : r \in Range(EventsOf(batch, i))})]
  /\ advanced' = {i \in Invokers : EventsOf(batch, i) # <<>>}
  /\ batch' = <<>>
  /\ UNCHANGED <<scenario, callVars, driverVars, lru, queue, available, life, lapses>>

(* The transaction is rolled back, or it is committed and the connection   *)
(* lost; the writer tries the same batch again.  Its caches stay changed.  *)
CommitFails ==
  /\ batch # <<>> /\ ~Refused
  /\ NewTables \/ UNCHANGED tables
  /\ NewCaches
  /\ UNCHANGED <<scenario, callVars, driverVars, lru, queue, writerVars, life, lapses>>

-----------------------------------------------------------------------------
(* Retention.                                                              *)

(* Wrong: an Invocation need only have ended.                              *)
EndedInMemory(i) == journal[i] # Absent /\ invs[i].state \in Ended

(* An ended Invocation whose events are all recorded and durable.          *)
Retirable(i) ==
  /\ journal[i] # Absent /\ invs[i].state \in Ended
  /\ journal[i] > 0 /\ journal[i] >= invs[i].seq
  /\ durable[i] >= invs[i].seq

(* Wrong: the Session forgets its current Invocation with any other.       *)
DetachCurrent(object, i) ==
  [object EXCEPT !.invocations = @ \ {i}, !.current = None]

Detach(object, i) ==
  [object EXCEPT !.invocations = @ \ {i},
                 !.current = IF @ = i THEN None ELSE @]

(* _evict_invocation; a Session goes with its last Invocation.             *)
Evict(i) ==
  LET sid == objects[invs[i].object].sid
      object == sessions[sid]
      left == Detach(objects[object], i)
  IN  /\ journal' = [journal EXCEPT ![i] = Absent]
      /\ IF object = None THEN UNCHANGED <<objects, sessions, keyed>>
         ELSE /\ objects' = [objects EXCEPT ![object] = left]
              /\ sessions' = IF left.invocations = {}
                             THEN [sessions EXCEPT ![sid] = None] ELSE sessions
              /\ keyed' = IF left.invocations = {} /\ keyed = sid THEN None ELSE keyed

(* _persistence_advanced: the Invocation joins the ended ones that are     *)
(* kept, and the oldest makes room.                                        *)
Advance(i) ==
  LET kept == Append(Kept(lru, Range(lru) \ {i}), i) IN
  /\ i \in advanced
  /\ driver[i] = "ending" => "slow end" \in scenario.risks
  /\ advanced' = advanced \ {i}
  /\ IF ~Retirable(i)
     THEN UNCHANGED <<lru, caches, objects, sessions, keyed, journal>>
     ELSE /\ caches' = [caches EXCEPT ![i] = NoCache]
          /\ IF Len(kept) <= scenario.keeps
             THEN lru' = kept /\ UNCHANGED <<objects, sessions, keyed, journal>>
             ELSE lru' = Tail(kept) /\ Evict(Head(kept))
  /\ UNCHANGED <<scenario, pc, found, invs, driver, recovering, queue, batch,
                 durable, available, tables, life, lapses>>

-----------------------------------------------------------------------------
(* A crash, and the next start up to the recovery's drivers.               *)

(* Wrong: whatever the Session's row points to is recovered.               *)
EveryCurrent == {i \in Invokers : sessionRow.current = i /\ Exists(rows[i])}

(* alist_recoverable_invocation_ids                                        *)
Recoverable ==
  {i \in Invokers : sessionRow.current = i /\ Exists(rows[i])
                    /\ rows[i].state \in Unfinished}

(* The Invocation that arebuild_execution restores.                        *)
RestoredInvocation(i) ==
  [state |-> RebuiltState(rows[i]), seq |-> rows[i].durable,
   mode |-> rows[i].mode, object |-> Restored]

Restart ==
  /\ life < scenario.crashes
  /\ life' = life + 1
  /\ pc' = [c \in Calls |-> IF pc[c] = "idle" THEN "idle" ELSE "lost"]
  /\ found' = [c \in Calls |-> None]
  /\ objects' = [NoMemory.objects EXCEPT ![Restored] =
       IF Recoverable = {} THEN NoSession
       ELSE [sid |-> sessionRow.sid, current |-> sessionRow.current,
             invocations |-> Recoverable]]
  /\ sessions' = [s \in Invokers |->
       IF Recoverable # {} /\ s = sessionRow.sid THEN Restored ELSE None]
  /\ keyed' = IF Recoverable # {} THEN sessionRow.sid ELSE None
  /\ invs' = [i \in Invokers |->
       IF i \in Recoverable THEN RestoredInvocation(i) ELSE NoInvocation]
  /\ journal' = [i \in Invokers |->
       IF i \in Recoverable THEN rows[i].durable ELSE Absent]
  /\ durable' = journal'
  /\ caches' = [i \in Invokers |->
       IF i \in Recoverable THEN [NoCache EXCEPT !.state = rows[i].image] ELSE NoCache]
  /\ recovering' = {i \in Recoverable : RebuiltState(rows[i]) # "waiting"}
  /\ driver' = [i \in Invokers |-> IF i \in recovering' THEN "driving" ELSE "none"]
  /\ lru' = <<>> /\ queue' = <<>> /\ batch' = <<>> /\ advanced' = {}
  /\ available' = TRUE
  /\ UNCHANGED <<scenario, tables, lapses>>

-----------------------------------------------------------------------------
Call(c) ==
  \/ FindInMemory(c) \/ BeginLookup(c) \/ LookupSession(c) \/ LookupInvocation(c)
  \/ LookupReturns(c)
Drive(i) ==
  \/ Progress(i) \/ Park(i) \/ MarkEnd(i) \/ RecordEnd(i) \/ RecordEndRefused(i)
Writer == TakeBatch \/ Halt \/ Commit \/ CommitFails \/ \E i \in Invokers : Advance(i)

Next ==
  \/ \E c \in Calls : Call(c)
  \/ \E c \in Resumers : Resume(c)
  \/ \E c \in Invokers : Admit(c)
  \/ \E i \in Invokers : Drive(i)
  \/ Writer
  \/ Restart

Spec == Init /\ [][Next]_vars

-----------------------------------------------------------------------------
(* Properties.                                                             *)

Replaced == "replaced" \in lapses
Doubled == "doubled" \in lapses
Overtaken == "overtaken" \in lapses

(* A Session has one active Invocation: SessionBusyError holds the others  *)
(* back, whatever they were waiting for meanwhile                          *)
(* (_ensure_session_can_admit).                                            *)
OneActivePerSession ==
  Cardinality({i \in Invokers : invs[i].state \in Unfinished}) <= 1

(* The same, until a lookup puts a second object of the Session over the   *)
(* one in memory (afind_session).                                          *)
OneActiveUntilReplaced == Replaced \/ OneActivePerSession

(* An active Invocation is found by the next call: its key leads to a      *)
(* Session whose current Invocation it is, and the store has its journal;  *)
(* with the same exception but for the journal.                            *)
ActiveReachable ==
  \A i \in Invokers : invs[i].state \in Unfinished =>
    /\ journal[i] = invs[i].seq
    /\ Replaced \/ /\ InMemory
                   /\ objects[sessions[keyed]].current = i
                   /\ i \in objects[sessions[keyed]].invocations

(* Memory lets go only of what the database has to the end: retention.py,  *)
(* "Active, waiting, and not-yet-durable Invocations are always retained." *)
RetainedUntilDurable ==
  \A i \in Invokers :
    invs[i].state # "none" /\ journal[i] = Absent => rows[i].state \in Ended

(* The same, unless the writer comes between an end and its record         *)
(* (_persistence_advanced).                                                *)
EvictedDurable == "slow end" \in scenario.risks \/ RetainedUntilDurable

(* What the database has as ended is never run again; and no call is told  *)
(* that an active Invocation was not loaded during the start               *)
(* (afind_session), with the same exception and unless its lookup was      *)
(* overtaken or the Session's object replaced.                             *)
NoResurrection ==
  /\ \A i \in Invokers : driver[i] = "driving" => rows[i].state \notin Ended
  /\ \/ "slow end" \in scenario.risks \/ Overtaken \/ Replaced
     \/ \A c \in Calls : pc[c] # "orphan"

(* No record of the process is refused by the tables, before or after a    *)
(* crash: keys, rows and event numbers agree (_persist_admission,          *)
(* _persist_events; a refusal stops persistence for good); until a call    *)
(* that did not find the Session's row makes another Session for the key.  *)
NeverHalts == available \/ Doubled

(* What a restart would rebuild is what the durable events say: all of     *)
(* them in the full mode; in the standard mode up to the newest recovery   *)
(* point, unless a newer one took its place in the queue and is on its way *)
(* or was lost with the process or the writer.                             *)
Points(i) == {n \in DOMAIN rows[i].events : rows[i].events[n].point}
OnItsWay(i) ==
  \E r \in Range(queue) \cup Range(batch) :
    r.kind = "event" /\ r.inv = i /\ r.snapshot > rows[i].durable
RebuildExact ==
  \A i \in Invokers : Exists(rows[i]) =>
    /\ DOMAIN rows[i].events = 1 .. rows[i].durable
    /\ rows[i].mode = "full" => Rebuilt(rows[i]) = rows[i].durable
    /\ rows[i].mode = "standard" =>
         \/ Rebuilt(rows[i]) = Max({0} \cup Points(i))
         \/ Rebuilt(rows[i]) \in {0} \cup Points(i) /\ (OnItsWay(i) \/ life > 0 \/ ~available)
=============================================================================
