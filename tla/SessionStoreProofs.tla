-------------------------- MODULE SessionStoreProofs --------------------------
(* What SessionStore guarantees for any number of calls, whatever their    *)
(* lookups do to each other, any scenarios of events and crashes and any   *)
(* retention policy.                                                       *)
(*                                                                         *)
(* Part of the invariant holds in every state: what the store keeps of an  *)
(* Invocation, the records on their way and the rows.  What ties the key,  *)
(* its Session and the active Invocation together is claimed until a       *)
(* lookup replaces the Session's object, and what ties the tables to the   *)
(* key until a lookup makes the key a second Session; neither is ever      *)
(* taken back.                                                             *)
EXTENDS SessionStore, CollectionProofs, SequenceTheorems

-----------------------------------------------------------------------------
(* The types of the memory of a process.                                   *)
States == Unfinished \cup Ended
Holders == Calls \cup {Restored}
Modes == {"none"} \cup UNION {s.modes : s \in Scenarios}

SessionObjects ==
  [sid : Invokers \cup {None}, current : Invokers \cup {None},
   invocations : SUBSET Invokers]
InvocationStates ==
  [state : States \cup {"none"}, seq : Nat, mode : Modes, object : Holders \cup {None}]

StoreType ==
  /\ objects \in [Holders -> SessionObjects]
  /\ sessions \in [Invokers -> Holders \cup {None}]
  /\ keyed \in Invokers \cup {None}
  /\ invs \in [Invokers -> InvocationStates]
  /\ driver \in [Invokers -> {"none", "driving", "ending"}]
  /\ journal \in [Invokers -> Nat \cup {Absent}]
  /\ lru \in Seq(Invokers)

(* Only an Invocation has a journal, and an unfinished one has all of it.  *)
Held(i) == journal[i] # Absent
Booked ==
  \A i \in Invokers :
    /\ Held(i) => invs[i].state # "none"
    /\ invs[i].state \in Unfinished => journal[i] = invs[i].seq

(* What an id stands for has an id.                                        *)
Named ==
  \A s \in Invokers : sessions[s] # None => objects[sessions[s]].sid \in Invokers

(* An Invocation has an object with an id, and what drives it fits its     *)
(* state.                                                                  *)
Placed ==
  \A i \in Invokers : invs[i].state # "none" =>
    invs[i].object \in Holders /\ objects[invs[i].object].sid \in Invokers
DriversFit ==
  \A i \in Invokers :
    /\ driver[i] = "driving" => invs[i].state \in Unfinished
    /\ driver[i] = "ending" => invs[i].state \in Ended
    /\ invs[i].state \in Ended => invs[i].seq > 0
KeptEnded == \A i \in Range(lru) : invs[i].state \in Ended

CoreInv == StoreType /\ Booked /\ Named /\ Placed /\ DriversFit /\ KeptEnded

(* Until the Session's object is replaced: an id stands for an object only *)
(* as the id of the key.                                                   *)
Keys ==
  \A s \in Invokers : sessions[s] # None =>
    keyed = s /\ objects[sessions[s]].sid = s

(* What has a journal belongs to the Session that the key leads to.        *)
Journals ==
  \A i \in Invokers : Held(i) =>
    /\ InMemory /\ invs[i].object = sessions[keyed]
    /\ i \in objects[sessions[keyed]].invocations

(* An unfinished Invocation is the current one of that Session.            *)
Reached ==
  \A i \in Invokers : invs[i].state \in Unfinished =>
    /\ InMemory
    /\ objects[sessions[keyed]].current = i
    /\ i \in objects[sessions[keyed]].invocations

StoreInv == CoreInv /\ Keys /\ Journals /\ Reached

memory == <<objects, sessions, keyed, invs, driver, journal, lru>>

LEMMA StatesApart ==
  /\ Unfinished \cap Ended = {} /\ "none" \notin States
  /\ {"created", "running", "waiting"} = Unfinished
BY DEF Unfinished, Ended, States

LEMMA StoreFrame ==
  ASSUME CoreInv, UNCHANGED memory
  PROVE  CoreInv' /\ (StoreInv => StoreInv') /\ InMemory' = InMemory
BY DEF StoreInv, CoreInv, memory, StoreType, Booked, Named, Keys, Journals, Held, InMemory, Reached,
       Placed, DriversFit, KeptEnded

(* The Session of the key, and the object of what it holds.                *)
LEMMA TheSession ==
  ASSUME StoreInv, InMemory
  PROVE  /\ keyed \in Invokers /\ sessions[keyed] \in Holders
         /\ objects[sessions[keyed]].sid = keyed
         /\ objects[sessions[keyed]] \in SessionObjects
BY SessionAssumption DEF StoreInv, CoreInv, StoreType, Keys, InMemory

LEMMA NobodyActive ==
  ASSUME StoreInv, ~InMemory
  PROVE  /\ \A i \in Invokers : ~Held(i) /\ invs[i].state \notin Unfinished
         /\ \A s \in Invokers : sessions[s] = None
<1>1. \A s \in Invokers : s # None
  BY SessionAssumption
<1>2. \A i \in Invokers : ~Held(i) /\ invs[i].state \notin Unfinished
  BY DEF StoreInv, Journals, Reached
<1>3. \A s \in Invokers : sessions[s] = None
  BY <1>1 DEF StoreInv, Keys, InMemory
<1> QED
  BY <1>2, <1>3

(* An Invocation under way is held.                                        *)
LEMMA UnfinishedIsHeld ==
  ASSUME CoreInv, NEW i \in Invokers, invs[i].state \in Unfinished
  PROVE  Held(i) /\ journal[i] = invs[i].seq /\ invs[i].seq \in Nat
<1>1. journal[i] = invs[i].seq /\ invs[i].seq \in Nat
  BY DEF CoreInv, StoreType, Booked, InvocationStates
<1> QED
  BY <1>1 DEF Held, Absent

(* It is the active one of its Session.                                    *)
LEMMA DrivenIsHeld ==
  ASSUME StoreInv, NEW i \in Invokers, invs[i].state \in Unfinished
  PROVE  /\ InMemory /\ Held(i) /\ journal[i] = invs[i].seq /\ invs[i].seq \in Nat
         /\ invs[i].object = sessions[keyed] /\ Active(sessions[keyed])
         /\ objects[sessions[keyed]].current = i
<1>1. Held(i) /\ journal[i] = invs[i].seq /\ invs[i].seq \in Nat
  BY UnfinishedIsHeld DEF StoreInv
<1>2. /\ InMemory /\ objects[sessions[keyed]].current = i
      /\ i \in objects[sessions[keyed]].invocations
  BY DEF StoreInv, Reached
<1> QED
  BY <1>1, <1>2 DEF StoreInv, Journals, Active

-----------------------------------------------------------------------------
(* Steps of the calls and of the drivers.                                  *)

(* A waiting Invocation is running again, driven by the call.              *)
LEMMA ResumeCore ==
  ASSUME CoreInv, NEW c \in Resumers, Resume(c)
  PROVE  /\ CoreInv' /\ (StoreInv => StoreInv') /\ InMemory' = InMemory
         /\ \E i \in Invokers : /\ invs[i].state = "waiting"
                                /\ invs' = [invs EXCEPT ![i].state = "running"]
                                /\ driver' = [driver EXCEPT ![i] = "driving"]
<1> DEFINE i == objects[sessions[keyed]].current
<1>1. /\ InMemory /\ Verdict(c, sessions[keyed]) = "running"
      /\ invs' = [invs EXCEPT ![i].state = "running"]
      /\ driver' = [driver EXCEPT ![i] = "driving"]
      /\ UNCHANGED <<objects, sessions, keyed, journal, lru>>
  BY DEF Resume, OnlyCalls
<1>2. Active(sessions[keyed]) /\ invs[i].state = "waiting"
  <2>1. c \notin Invokers
    BY SessionAssumption
  <2> QED
    BY <1>1, <2>1 DEF Verdict
<1>3. i \in Invokers
  <2>1. sessions[keyed] \in Holders
    BY <1>1, SessionAssumption DEF CoreInv, StoreType, InMemory
  <2>2. objects[sessions[keyed]] \in SessionObjects
    BY <2>1 DEF CoreInv, StoreType
  <2> QED
    BY <1>2, <2>2 DEF Active, SessionObjects
<1> HIDE DEF i
<1>4. \A j \in Invokers : /\ invs'[j] = IF j = i THEN [invs[j] EXCEPT !.state = "running"]
                                        ELSE invs[j]
                          /\ driver'[j] = IF j = i THEN "driving" ELSE driver[j]
  BY <1>1 DEF CoreInv, StoreType
<1>5. /\ invs'[i].state = "running" /\ invs'[i].seq = invs[i].seq
      /\ invs'[i].object = invs[i].object /\ invs'[i] \in InvocationStates
  <2>1. invs[i] \in InvocationStates /\ "running" \in States
    BY <1>3 DEF CoreInv, StoreType, States, Unfinished
  <2> QED
    BY <1>3, <1>4, <2>1 DEF InvocationStates
<1>6. StoreType'
  <2>1. invs' \in [Invokers -> InvocationStates]
    BY <1>1, <1>4, <1>5 DEF CoreInv, StoreType
  <2>2. driver' \in [Invokers -> {"none", "driving", "ending"}]
    BY <1>1 DEF CoreInv, StoreType
  <2> QED
    BY <1>1, <2>1, <2>2 DEF CoreInv, StoreType
<1>7. \A j \in Invokers : /\ invs'[j].seq = invs[j].seq /\ invs'[j].object = invs[j].object
                          /\ j # i => invs'[j].state = invs[j].state
  BY <1>4, <1>5
<1>8. /\ "running" \in Unfinished /\ "waiting" \in Unfinished
      /\ "running" # "none" /\ "running" \notin Ended /\ "waiting" \notin Ended
  BY DEF Unfinished, Ended
<1>9. \A j \in Invokers : invs'[j].state \in Unfinished => invs[j].state \in Unfinished
  BY <1>2, <1>7, <1>8
<1>10. Booked'
  <2>1. \A j \in Invokers : invs'[j].state = "none" => invs[j].state = "none"
    BY <1>5, <1>7, <1>8
  <2> QED
    BY <1>1, <1>7, <1>9, <2>1 DEF CoreInv, Booked, Held
<1>11. Placed' /\ Named'
  BY <1>1, <1>2, <1>7, <1>8 DEF CoreInv, Placed, Named
<1>12. DriversFit'
  BY <1>2, <1>4, <1>5, <1>7, <1>8 DEF CoreInv, DriversFit
<1>13. KeptEnded'
  <2>1. \A j \in Range(lru) : j \in Invokers
    BY DEF CoreInv, StoreType, Range
  <2> QED
    BY <1>1, <1>2, <1>7, <1>8, <2>1 DEF CoreInv, KeptEnded
<1>14. ASSUME StoreInv PROVE Keys' /\ Journals' /\ Reached'
  <2>1. Keys' /\ Journals'
    BY <1>1, <1>7, <1>14 DEF StoreInv, Keys, Journals, Held, InMemory
  <2>2. Reached'
    BY <1>1, <1>9, <1>14 DEF StoreInv, Reached, InMemory
  <2> QED
    BY <2>1, <2>2
<1>15. CoreInv'
  BY <1>6, <1>10, <1>11, <1>12, <1>13 DEF CoreInv
<1> QED
  BY <1>1, <1>2, <1>3, <1>14, <1>15 DEF StoreInv, InMemory, i

(* _cache_session, and what it does while the key has no Session in        *)
(* memory.                                                                 *)
LEMMA CacheKeeps ==
  ASSUME CoreInv, NEW c \in Calls, NEW sid \in Invokers,
         CacheSession(c, sid), UNCHANGED <<invs, driver, journal, lru>>
  PROVE  /\ CoreInv' /\ (StoreInv /\ ~InMemory => StoreInv') /\ InMemory' /\ keyed' = sid
         /\ \A o \in Holders : o # c => objects'[o] = objects[o]
         /\ objects'[c].sid = sid
<1>1. /\ objects' = [objects EXCEPT ![c] = [NoSession EXCEPT !.sid = sid]]
      /\ sessions' = [sessions EXCEPT ![sid] = c] /\ keyed' = sid
  BY DEF CacheSession
<1>2. c \in Holders /\ c # None /\ sid # None
  BY SessionAssumption DEF Holders, Calls
<1>3. [NoSession EXCEPT !.sid = sid] = [sid |-> sid, current |-> None, invocations |-> {}]
  BY DEF NoSession
<1>4. /\ \A o \in Holders : o # c => objects'[o] = objects[o]
      /\ objects'[c].sid = sid
      /\ \A s \in Invokers : sessions'[s] = IF s = sid THEN c ELSE sessions[s]
  BY <1>1, <1>2, <1>3 DEF CoreInv, StoreType
<1>5. StoreType'
  <2>1. objects' \in [Holders -> SessionObjects]
    BY <1>1, <1>2, <1>3 DEF CoreInv, StoreType, SessionObjects
  <2>2. sessions' \in [Invokers -> Holders \cup {None}]
    BY <1>1, <1>2 DEF CoreInv, StoreType
  <2> QED
    BY <1>1, <2>1, <2>2 DEF CoreInv, StoreType
<1>6. Placed' /\ Named'
  <2>1. \A o \in Holders : objects[o].sid \in Invokers => objects'[o].sid \in Invokers
    BY <1>4
  <2>2. Named'
    BY <1>2, <1>4, <2>1 DEF CoreInv, StoreType, Named
  <2> QED
    BY <2>1, <2>2 DEF CoreInv, Placed
<1>7. Booked' /\ DriversFit' /\ KeptEnded'
  BY DEF CoreInv, Booked, Held, DriversFit, KeptEnded
<1>8. InMemory'
  BY <1>1, <1>2, <1>4 DEF InMemory
<1>9. ASSUME StoreInv, ~InMemory PROVE Keys' /\ Journals' /\ Reached'
  <2>1. Keys'
    BY <1>1, <1>2, <1>4, <1>9, NobodyActive DEF Keys
  <2>2. Journals' /\ Reached'
    BY <1>9, NobodyActive DEF Journals, Held, Reached
  <2> QED
    BY <2>1, <2>2
<1> QED
  BY <1>1, <1>4, <1>5, <1>6, <1>7, <1>8, <1>9 DEF StoreInv, CoreInv

(* An Invocation is attached to a Session object.                          *)
LEMMA AttachCore ==
  ASSUME CoreInv, scenario \in Scenarios, NEW c \in Invokers, invs[c].state = "none",
         NEW object \in Holders, objects[object].sid \in Invokers,
         Attach(c, object), UNCHANGED <<sessions, keyed, lru>>
  PROVE  /\ CoreInv' /\ InMemory' = InMemory
         /\ \A o \in Holders : objects'[o].sid = objects[o].sid
         /\ journal[c] = Absent /\ journal' = [journal EXCEPT ![c] = 0]
         /\ objects'[object] = [sid |-> objects[object].sid, current |-> c,
                                invocations |-> objects[object].invocations \cup {c}]
         /\ \E mode \in Modes \ {"none"} :
              /\ invs' = [invs EXCEPT ![c] = [state |-> "created", seq |-> 0,
                                              mode |-> mode, object |-> object]]
              /\ queue' = Append(queue, [kind |-> "admission", inv |-> c,
                                         sid |-> found[c], mode |-> mode])
<1>1. objects[object] \in SessionObjects
  BY DEF CoreInv, StoreType
<1>2. PICK mode \in scenario.modes :
        /\ invs' = [invs EXCEPT ![c] = [state |-> "created", seq |-> 0,
                                        mode |-> mode, object |-> object]]
        /\ queue' = Append(queue, [kind |-> "admission", inv |-> c,
                                   sid |-> found[c], mode |-> mode])
  BY DEF Attach
<1>3. mode \in Modes /\ mode # "none"
  BY SessionAssumption DEF Modes
<1>4. /\ objects' = [objects EXCEPT ![object].current = c,
                                    ![object].invocations = @ \cup {c}]
      /\ journal' = [journal EXCEPT ![c] = 0]
      /\ driver' = [driver EXCEPT ![c] = "driving"]
  BY DEF Attach
<1>5. /\ objects'[object] = [sid |-> objects[object].sid, current |-> c,
                             invocations |-> objects[object].invocations \cup {c}]
      /\ \A o \in Holders : o # object => objects'[o] = objects[o]
  BY <1>1, <1>4 DEF CoreInv, StoreType, SessionObjects
<1>6. \A o \in Holders : objects'[o].sid = objects[o].sid
  BY <1>5
<1>7. \A i \in Invokers :
        /\ invs'[i] = IF i = c THEN [state |-> "created", seq |-> 0, mode |-> mode,
                                     object |-> object]
                      ELSE invs[i]
        /\ journal'[i] = IF i = c THEN 0 ELSE journal[i]
        /\ driver'[i] = IF i = c THEN "driving" ELSE driver[i]
  BY <1>2, <1>4 DEF CoreInv, StoreType
<1>8. "created" \in Unfinished /\ "created" \in States /\ "created" \notin Ended
      /\ "created" # "none"
  BY DEF Unfinished, States, Ended
<1>9. StoreType'
  <2>1. objects'[object] \in SessionObjects
    BY <1>1, <1>5 DEF SessionObjects
  <2>2. objects' \in [Holders -> SessionObjects]
    BY <1>4, <1>5, <2>1 DEF CoreInv, StoreType
  <2>3. invs'[c] \in InvocationStates
    BY <1>3, <1>7, <1>8 DEF InvocationStates
  <2>4. invs' \in [Invokers -> InvocationStates]
    BY <1>2, <1>7, <2>3 DEF CoreInv, StoreType
  <2>5. /\ journal' \in [Invokers -> Nat \cup {Absent}]
        /\ driver' \in [Invokers -> {"none", "driving", "ending"}]
    BY <1>4 DEF CoreInv, StoreType
  <2> QED
    BY <2>2, <2>4, <2>5 DEF CoreInv, StoreType
<1>10. Booked'
  BY <1>7, <1>8 DEF CoreInv, Booked, Held
<1>11. Placed' /\ Named'
  BY <1>6, <1>7 DEF CoreInv, StoreType, Placed, Named
<1>12. DriversFit'
  BY <1>7, <1>8 DEF CoreInv, DriversFit
<1>13. KeptEnded'
  <2>1. c \notin Range(lru)
    BY StatesApart DEF CoreInv, KeptEnded, States
  <2>2. \A i \in Range(lru) : i \in Invokers
    BY DEF CoreInv, StoreType, Range
  <2> QED
    BY <1>7, <2>1, <2>2 DEF CoreInv, KeptEnded
<1>14. journal[c] = Absent
  BY DEF CoreInv, Booked, Held
<1> QED
  BY <1>2, <1>3, <1>4, <1>5, <1>6, <1>9, <1>10, <1>11, <1>12, <1>13, <1>14
     DEF CoreInv, InMemory

(* The Session in memory, in which none is active.                         *)
LEMMA AttachKeeps ==
  ASSUME StoreInv, scenario \in Scenarios, NEW c \in Invokers, invs[c].state = "none",
         found[c] \in Invokers, NEW object, object = sessions[found[c]], object # None,
         ~Active(object), Attach(c, object), UNCHANGED <<sessions, keyed, lru>>
  PROVE  StoreInv' /\ InMemory /\ InMemory' /\ found[c] = keyed
<1>1. found[c] = keyed /\ InMemory /\ keyed # None /\ object = sessions[keyed]
  BY SessionAssumption DEF StoreInv, Keys, InMemory
<1>2. /\ object \in Holders /\ objects[object] \in SessionObjects
      /\ objects[object].sid = keyed /\ keyed \in Invokers
  BY <1>1, TheSession
<1>3. /\ CoreInv' /\ InMemory'
      /\ \A o \in Holders : objects'[o].sid = objects[o].sid
      /\ objects'[object] = [sid |-> keyed, current |-> c,
                             invocations |-> objects[object].invocations \cup {c}]
      /\ \A i \in Invokers : /\ invs'[i].object = IF i = c THEN object ELSE invs[i].object
                             /\ i # c => invs'[i] = invs[i] /\ journal'[i] = journal[i]
  <2>1. /\ CoreInv' /\ InMemory' = InMemory /\ journal' = [journal EXCEPT ![c] = 0]
        /\ \A o \in Holders : objects'[o].sid = objects[o].sid
        /\ objects'[object] = [sid |-> objects[object].sid, current |-> c,
                               invocations |-> objects[object].invocations \cup {c}]
        /\ \E mode \in Modes \ {"none"} :
             /\ invs' = [invs EXCEPT ![c] = [state |-> "created", seq |-> 0,
                                             mode |-> mode, object |-> object]]
             /\ queue' = Append(queue, [kind |-> "admission", inv |-> c,
                                        sid |-> found[c], mode |-> mode])
    <3>1. CoreInv /\ objects[object].sid \in Invokers
      BY <1>2 DEF StoreInv
    <3> QED
      BY <1>2, <3>1, AttachCore
  <2>2. \A i \in Invokers : /\ invs'[i].object = IF i = c THEN object ELSE invs[i].object
                            /\ i # c => invs'[i] = invs[i]
    <3>1. PICK mode : invs' = [invs EXCEPT ![c] = [state |-> "created", seq |-> 0,
                                                   mode |-> mode, object |-> object]]
      BY <2>1
    <3> QED
      BY <3>1 DEF StoreInv, CoreInv, StoreType
  <2>3. \A i \in Invokers : i # c => journal'[i] = journal[i]
    BY <2>1 DEF StoreInv, CoreInv, StoreType
  <2> QED
    BY <1>1, <1>2, <2>1, <2>2, <2>3
<1>4. \A i \in Invokers : invs[i].state \notin Unfinished
  BY <1>1, DrivenIsHeld
<1>5. Keys'
  BY <1>1, <1>2, <1>3 DEF StoreInv, CoreInv, StoreType, Keys
<1>6. Journals'
  <2>1. ASSUME NEW i \in Invokers, Held(i)', i # c
        PROVE  invs'[i].object = object /\ i \in objects'[object].invocations
    BY <1>1, <1>3, <2>1 DEF StoreInv, Journals, Held
  <2>2. invs'[c].object = object /\ c \in objects'[object].invocations
    BY <1>3
  <2> QED
    BY <1>1, <1>3, <2>1, <2>2 DEF Journals
<1>7. Reached'
  <2>1. ASSUME NEW i \in Invokers, invs'[i].state \in Unfinished PROVE i = c
    BY <1>3, <1>4, <2>1
  <2> QED
    BY <1>1, <1>3, <2>1 DEF Reached
<1> QED
  BY <1>1, <1>3, <1>5, <1>6, <1>7 DEF StoreInv

(* An event is recorded by what drives the Invocation.                     *)
LEMMA RecordCore ==
  ASSUME CoreInv, NEW i \in Invokers, driver[i] # "none", NEW state \in States,
         driver[i] = "driving" => state \in Unfinished,
         driver[i] = "ending" => state \in Ended /\ Held(i),
         NEW point, NEW forced, RecordEvent(i, state, point, forced),
         driver' = driver \/ driver' = [driver EXCEPT ![i] = "none"],
         UNCHANGED <<objects, keyed, lru>>
  PROVE  /\ CoreInv' /\ (InMemory => InMemory') /\ Held(i)
         /\ journal[i] = invs[i].seq /\ invs[i].seq \in Nat /\ invs[i].state # "none"
         /\ objects[invs[i].object].sid \in Invokers
         /\ sessions' = [sessions EXCEPT ![objects[invs[i].object].sid] = invs[i].object]
         /\ journal' = [journal EXCEPT ![i] = invs[i].seq + 1]
         /\ \A j \in Invokers : j # i => invs'[j] = invs[j] /\ driver'[j] = driver[j]
         /\ invs'[i] = [invs[i] EXCEPT !.seq = invs[i].seq + 1, !.state = state]
         /\ invs'[i].seq = invs[i].seq + 1 /\ invs'[i].state = state
         /\ driver'[i] = driver[i] \/ driver'[i] = "none"
<1> DEFINE n == invs[i].seq + 1
           sid == objects[invs[i].object].sid
<1>1. /\ journal[i] + 1 = n
      /\ invs' = [invs EXCEPT ![i].seq = n, ![i].state = state]
      /\ journal' = [journal EXCEPT ![i] = n]
      /\ sessions' = [sessions EXCEPT ![sid] = invs[i].object]
  BY DEF RecordEvent
<1>2. invs[i] \in InvocationStates /\ invs[i].seq \in Nat /\ n \in Nat /\ n > 0
      /\ driver[i] \in {"driving", "ending"} /\ journal[i] \in Nat \cup {Absent}
  BY DEF CoreInv, StoreType, InvocationStates
<1>3. journal[i] = invs[i].seq /\ Held(i) /\ invs[i].state # "none"
  <2>1. CASE journal[i] \in Nat
    BY <1>1, <1>2, <2>1 DEF Held, Absent, CoreInv, Booked
  <2>2. CASE journal[i] = Absent
    BY <1>1, <1>2, <2>2 DEF Absent
  <2> QED
    BY <1>2, <2>1, <2>2
<1>4. invs[i].object \in Holders /\ sid \in Invokers
  BY <1>3 DEF CoreInv, Placed
<1>5. /\ invs'[i] = [invs[i] EXCEPT !.seq = n, !.state = state]
      /\ invs'[i].seq = n /\ invs'[i].state = state
      /\ invs'[i].object = invs[i].object /\ invs'[i] \in InvocationStates
  <2> HIDE DEF n
  <2>1. invs'[i] = [invs[i] EXCEPT !.seq = n, !.state = state]
    BY <1>1 DEF CoreInv, StoreType
  <2> QED
    BY <1>2, <2>1 DEF InvocationStates
<1> HIDE DEF n, sid
<1>6. /\ \A j \in Invokers : j # i => invs'[j] = invs[j] /\ journal'[j] = journal[j]
                                      /\ driver'[j] = driver[j]
      /\ journal'[i] = n
      /\ driver'[i] = driver[i] \/ driver'[i] = "none"
  BY <1>1 DEF CoreInv, StoreType
<1>7. StoreType'
  <2>1. invs' \in [Invokers -> InvocationStates]
    BY <1>1, <1>5, <1>6 DEF CoreInv, StoreType
  <2>2. journal' \in [Invokers -> Nat \cup {Absent}]
    BY <1>1, <1>2 DEF CoreInv, StoreType
  <2>3. driver' \in [Invokers -> {"none", "driving", "ending"}]
    BY DEF CoreInv, StoreType
  <2>4. sessions' \in [Invokers -> Holders \cup {None}]
    BY <1>1, <1>4 DEF CoreInv, StoreType
  <2> QED
    BY <2>1, <2>2, <2>3, <2>4 DEF CoreInv, StoreType
<1>8. state # "none" /\ (state \in Unfinished \/ state \in Ended)
       /\ (driver[i] = "driving" => invs[i].state \in Unfinished)
       /\ (driver[i] = "ending" => invs[i].state \in Ended)
  BY StatesApart DEF CoreInv, DriversFit, States
<1>9. InMemory => InMemory'
  <2>1. invs[i].object # None
    BY <1>4, SessionAssumption DEF Holders, Calls
  <2> QED
    BY <1>1, <1>4, <2>1, SessionAssumption DEF CoreInv, StoreType, InMemory
<1>10. Booked'
  BY <1>5, <1>6, <1>8 DEF CoreInv, Booked, Held
<1>11. Placed' /\ Named'
  <2>1. Placed'
    BY <1>3, <1>5, <1>6 DEF CoreInv, Placed
  <2>2. objects[invs[i].object].sid \in Invokers
    BY <1>4 DEF sid
  <2> QED
    BY <1>1, <1>4, <2>1, <2>2 DEF CoreInv, StoreType, Named
<1>12. DriversFit'
  BY <1>2, <1>5, <1>6 DEF CoreInv, DriversFit
<1>13. KeptEnded'
  <2>1. \A j \in Range(lru) : j \in Invokers
    BY DEF CoreInv, StoreType, Range
  <2>2. i \in Range(lru) => state \in Ended
    BY <1>2, <1>8, StatesApart DEF CoreInv, KeptEnded
  <2> QED
    BY <1>5, <1>6, <2>1, <2>2 DEF CoreInv, KeptEnded
<1>14. CoreInv'
  BY <1>7, <1>10, <1>11, <1>12, <1>13 DEF CoreInv
<1> QED
  BY <1>1, <1>2, <1>3, <1>4, <1>5, <1>6, <1>9, <1>14 DEF n, sid

(* It does not bring back a Session that has gone.                         *)
LEMMA RecordKeeps ==
  ASSUME StoreInv, NEW i \in Invokers, driver[i] # "none", NEW state \in States,
         driver[i] = "driving" => state \in Unfinished,
         driver[i] = "ending" => state \in Ended /\ Held(i),
         NEW point, NEW forced, RecordEvent(i, state, point, forced),
         driver' = driver \/ driver' = [driver EXCEPT ![i] = "none"],
         UNCHANGED <<objects, keyed, lru>>
  PROVE  StoreInv' /\ InMemory /\ InMemory'
<1>1. /\ CoreInv' /\ (InMemory => InMemory') /\ Held(i)
      /\ sessions' = [sessions EXCEPT ![objects[invs[i].object].sid] = invs[i].object]
      /\ journal' = [journal EXCEPT ![i] = invs[i].seq + 1]
      /\ \A j \in Invokers : j # i => invs'[j] = invs[j]
      /\ invs'[i] = [invs[i] EXCEPT !.seq = invs[i].seq + 1, !.state = state]
      /\ invs'[i].state = state
  BY RecordCore DEF StoreInv
<1>2. /\ InMemory /\ invs[i].object = sessions[keyed]
      /\ i \in objects[sessions[keyed]].invocations
  BY <1>1 DEF StoreInv, Journals
<1>3. keyed \in Invokers /\ objects[invs[i].object].sid = keyed
  BY <1>2, TheSession
<1>4. sessions' = sessions
  BY <1>1, <1>2, <1>3 DEF StoreInv, CoreInv, StoreType
<1>5. /\ \A j \in Invokers : /\ invs'[j].object = invs[j].object
                             /\ j # i => journal'[j] = journal[j]
  <2>1. invs[i] \in InvocationStates
    BY DEF StoreInv, CoreInv, StoreType
  <2> QED
    BY <1>1, <2>1 DEF StoreInv, CoreInv, StoreType, InvocationStates
<1>6. Keys'
  BY <1>4 DEF StoreInv, Keys
<1>7. Journals'
  <2>1. ASSUME NEW j \in Invokers, Held(j)'
        PROVE  /\ invs'[j].object = sessions[keyed]
               /\ j \in objects[sessions[keyed]].invocations
    <3>1. Held(j)
      BY <1>1, <1>5, <2>1 DEF Held
    <3> QED
      BY <1>5, <3>1 DEF StoreInv, Journals
  <2> QED
    BY <1>1, <1>2, <1>4, <2>1 DEF Journals
<1>8. Reached'
  <2>1. driver[i] \in {"driving", "ending"}
    BY DEF StoreInv, CoreInv, StoreType
  <2>2. invs'[i].state \in Unfinished => invs[i].state \in Unfinished
    BY <1>1, <2>1, StatesApart DEF StoreInv, CoreInv, DriversFit
  <2> QED
    BY <1>1, <1>4, <2>2 DEF StoreInv, Reached, InMemory
<1> QED
  BY <1>1, <1>2, <1>6, <1>7, <1>8 DEF StoreInv

LEMMA MarkKeeps ==
  ASSUME CoreInv, NEW i \in Invokers, MarkEnd(i)
  PROVE  /\ CoreInv' /\ (StoreInv => StoreInv') /\ InMemory' = InMemory
         /\ invs[i].state \in Unfinished /\ Held(i)
         /\ \A j \in Invokers : /\ invs'[j].seq = invs[j].seq
                                /\ j # i => invs'[j] = invs[j] /\ driver'[j] = driver[j]
         /\ invs'[i].state \in Ended /\ driver'[i] = "ending"
<1>1. PICK state \in Ended : invs' = [invs EXCEPT ![i].state = state]
  BY DEF MarkEnd
<1>2. /\ driver[i] = "driving" /\ invs[i].seq > 0
      /\ driver' = [driver EXCEPT ![i] = "ending"]
      /\ UNCHANGED <<objects, sessions, keyed, journal, lru>>
  BY DEF MarkEnd, OnlyDrivers
<1>3. invs[i] \in InvocationStates /\ state \in States /\ state # "none"
      /\ state \notin Unfinished /\ invs[i].state \in Unfinished
  BY <1>2, StatesApart DEF CoreInv, StoreType, States, DriversFit
<1>4. invs'[i] = [invs[i] EXCEPT !.state = state]
  BY <1>1 DEF CoreInv, StoreType
<1>5. /\ invs'[i].state = state /\ invs'[i].seq = invs[i].seq
      /\ invs'[i].object = invs[i].object /\ invs'[i] \in InvocationStates
  BY <1>3, <1>4 DEF InvocationStates
<1>6. /\ \A j \in Invokers : j # i => invs'[j] = invs[j] /\ driver'[j] = driver[j]
      /\ driver'[i] = "ending"
  BY <1>1, <1>2 DEF CoreInv, StoreType
<1>7. StoreType'
  <2>1. invs' \in [Invokers -> InvocationStates]
    BY <1>1, <1>5, <1>6 DEF CoreInv, StoreType
  <2>2. driver' \in [Invokers -> {"none", "driving", "ending"}]
    BY <1>2 DEF CoreInv, StoreType
  <2> QED
    BY <1>2, <2>1, <2>2 DEF CoreInv, StoreType
<1>8. invs[i].state # "none" /\ Held(i)
  BY <1>3, StatesApart, UnfinishedIsHeld DEF States
<1>9. Booked' /\ Named' /\ Placed' /\ DriversFit'
  BY <1>2, <1>3, <1>5, <1>6, <1>8 DEF CoreInv, Booked, Held, Named, Placed, DriversFit
<1>10. KeptEnded'
  <2>1. \A j \in Range(lru) : j \in Invokers
    BY DEF CoreInv, StoreType, Range
  <2> QED
    BY <1>2, <1>5, <1>6, <2>1 DEF CoreInv, KeptEnded
<1>11. ASSUME StoreInv PROVE Keys' /\ Journals' /\ Reached'
  BY <1>2, <1>3, <1>5, <1>6, <1>11 DEF StoreInv, Keys, InMemory, Journals, Held, Reached
<1> QED
  BY <1>2, <1>3, <1>5, <1>6, <1>7, <1>8, <1>9, <1>10, <1>11 DEF StoreInv, CoreInv, InMemory

(* Nothing drives the Invocation any longer.                               *)
LEMMA ReturnKeeps ==
  ASSUME CoreInv, NEW i \in Invokers, driver' = [driver EXCEPT ![i] = "none"],
         UNCHANGED <<objects, sessions, keyed, invs, journal, lru>>
  PROVE  CoreInv' /\ (StoreInv => StoreInv') /\ InMemory' = InMemory
<1>1. /\ driver' \in [Invokers -> {"none", "driving", "ending"}]
      /\ \A j \in Invokers : driver'[j] = "none" \/ driver'[j] = driver[j]
  BY DEF CoreInv, StoreType
<1>2. StoreType' /\ DriversFit'
  BY <1>1 DEF CoreInv, StoreType, DriversFit
<1> QED
  BY <1>2 DEF StoreInv, CoreInv, Booked, Named, Keys, InMemory, Journals, Held, Reached, Placed,
              KeptEnded

-----------------------------------------------------------------------------
(* Retention and restart.                                                  *)

LEMMA AppendIs ==
  ASSUME NEW T, NEW s \in Seq(T), NEW e \in T
  PROVE  /\ Append(s, e) \in Seq(T) /\ Len(Append(s, e)) = Len(s) + 1
         /\ Append(s, e) # <<>> /\ Append(s, e)[Len(s) + 1] = e
         /\ \A k \in 1 .. Len(s) : Append(s, e)[k] = s[k]
         /\ Range(Append(s, e)) = Range(s) \cup {e}
<1> DEFINE t == Append(s, e)
<1>1. /\ t \in Seq(T) /\ Len(t) = Len(s) + 1 /\ Len(s) \in Nat /\ t # <<>>
      /\ t[Len(s) + 1] = e
      /\ \A k \in 1 .. Len(s) : t[k] = s[k]
  OBVIOUS
<1>2. DOMAIN t = 1 .. Len(s) + 1 /\ DOMAIN s = 1 .. Len(s)
  BY <1>1
<1> HIDE DEF t
<1>3. \A k \in 1 .. Len(s) + 1 : k \in 1 .. Len(s) \/ k = Len(s) + 1
  BY <1>1
<1>4. \A k \in 1 .. Len(s) : k \in 1 .. Len(s) + 1
  BY <1>1
<1>5. Len(s) + 1 \in 1 .. Len(s) + 1
  BY <1>1
<1>6. Range(t) = Range(s) \cup {e}
  BY <1>1, <1>2, <1>3, <1>4, <1>5 DEF Range
<1> QED
  BY <1>1, <1>6 DEF t

(* _evict_invocation of an Invocation that has ended.                      *)
LEMMA EvictCore ==
  ASSUME CoreInv, NEW i \in Invokers, invs[i].state \in Ended, Evict(i),
         UNCHANGED <<invs, driver>>, lru' \in Seq(Invokers),
         \A j \in Range(lru') : invs[j].state \in Ended
  PROVE  /\ CoreInv' /\ (InMemory' => InMemory) /\ keyed' \in {keyed, None}
         /\ \A o \in Holders : objects'[o].sid = objects[o].sid
         /\ journal' = [journal EXCEPT ![i] = Absent]
<1> DEFINE sid == objects[invs[i].object].sid
           object == sessions[sid]
           left == Detach(objects[object], i)
<1>1. /\ journal' = [journal EXCEPT ![i] = Absent]
      /\ IF object = None THEN UNCHANGED <<objects, sessions, keyed>>
         ELSE /\ objects' = [objects EXCEPT ![object] = left]
              /\ sessions' = IF left.invocations = {}
                             THEN [sessions EXCEPT ![sid] = None] ELSE sessions
              /\ keyed' = IF left.invocations = {} /\ keyed = sid THEN None ELSE keyed
  BY DEF Evict
<1>2. sid \in Invokers /\ invs[i].state # "none" /\ invs[i].state \notin Unfinished
  BY StatesApart DEF CoreInv, Placed, States
<1> HIDE DEF sid
<1>3. /\ \A j \in Invokers : journal'[j] = IF j = i THEN Absent ELSE journal[j]
      /\ journal' \in [Invokers -> Nat \cup {Absent}]
  BY <1>1 DEF CoreInv, StoreType
<1>4. Booked' /\ DriversFit' /\ KeptEnded'
  BY <1>2, <1>3 DEF CoreInv, Booked, Held, DriversFit, KeptEnded
<1>5. /\ objects' \in [Holders -> SessionObjects]
      /\ \A o \in Holders : objects'[o].sid = objects[o].sid
  <2>1. CASE object = None
    BY <1>1, <2>1 DEF CoreInv, StoreType
  <2>2. CASE object # None
    <3>1. object \in Holders /\ objects[object] \in SessionObjects
      BY <1>2, <2>2 DEF CoreInv, StoreType
    <3>2. left \in SessionObjects /\ left.sid = objects[object].sid
      BY <3>1 DEF Detach, SessionObjects
    <3> HIDE DEF left, object
    <3> QED
      BY <1>1, <2>2, <3>1, <3>2 DEF CoreInv, StoreType
  <2> QED
    BY <2>1, <2>2
<1>6. /\ sessions' = sessions \/ sessions' = [sessions EXCEPT ![sid] = None]
      /\ keyed' \in {keyed, None}
  BY <1>1
<1>7. /\ sessions' \in [Invokers -> Holders \cup {None}]
      /\ \A s \in Invokers : sessions'[s] \in {sessions[s], None}
  BY <1>2, <1>6 DEF CoreInv, StoreType
<1>8. StoreType' /\ Named' /\ Placed'
  <2>1. Named'
    BY <1>5, <1>7, SessionAssumption DEF CoreInv, StoreType, Named
  <2> QED
    BY <1>2, <1>3, <1>5, <1>6, <1>7, <2>1 DEF CoreInv, StoreType, Placed
<1>9. InMemory' => InMemory
  BY <1>6, <1>7 DEF CoreInv, StoreType, InMemory
<1> QED
  BY <1>1, <1>4, <1>5, <1>6, <1>8, <1>9 DEF CoreInv

LEMMA EvictKeeps ==
  ASSUME StoreInv, NEW i \in Invokers, invs[i].state \in Ended, Evict(i),
         UNCHANGED <<invs, driver>>, lru' \in Seq(Invokers),
         \A j \in Range(lru') : invs[j].state \in Ended
  PROVE  StoreInv' /\ (InMemory' => InMemory /\ keyed' = keyed)
<1> DEFINE sid == objects[invs[i].object].sid
           object == sessions[sid]
           left == Detach(objects[object], i)
<1>1. /\ CoreInv' /\ journal' = [journal EXCEPT ![i] = Absent]
      /\ \A o \in Holders : objects'[o].sid = objects[o].sid
      /\ IF object = None THEN UNCHANGED <<objects, sessions, keyed>>
         ELSE /\ objects' = [objects EXCEPT ![object] = left]
              /\ sessions' = IF left.invocations = {}
                             THEN [sessions EXCEPT ![sid] = None] ELSE sessions
              /\ keyed' = IF left.invocations = {} /\ keyed = sid THEN None ELSE keyed
  BY EvictCore DEF Evict, StoreInv
<1>2. sid \in Invokers /\ sid # None /\ invs[i].state # "none"
      /\ invs[i].state \notin Unfinished
  BY SessionAssumption, StatesApart DEF StoreInv, CoreInv, Placed, States
<1> HIDE DEF sid
<1>3. \A j \in Invokers : journal'[j] = IF j = i THEN Absent ELSE journal[j]
  BY <1>1 DEF StoreInv, CoreInv, StoreType
<1>4. \A j \in Invokers : invs'[j].state \in Unfinished => j # i
  BY <1>2
<1>5. CASE object = None
  <2>1. UNCHANGED <<objects, sessions, keyed>>
    BY <1>1, <1>5
  <2>2. Keys' /\ Reached' /\ InMemory' = InMemory
    BY <2>1 DEF StoreInv, Keys, Reached, InMemory
  <2>3. Journals'
    BY <1>3, <2>1, <2>2 DEF StoreInv, Journals, Held
  <2> QED
    BY <1>1, <2>1, <2>2, <2>3 DEF StoreInv
<1>6. CASE object # None
  <2>1. /\ keyed = sid /\ InMemory /\ object = sessions[keyed]
        /\ object \in Holders /\ objects[object] \in SessionObjects
    <3>1. keyed = sid
      BY <1>2, <1>6 DEF StoreInv, Keys
    <3>2. InMemory
      BY <1>2, <1>6, <3>1 DEF InMemory
    <3> QED
      BY <3>1, <3>2, TheSession
  <2>2. /\ left.invocations = objects[object].invocations \ {i}
        /\ objects[object].current # i => left.current = objects[object].current
    BY <2>1 DEF Detach, SessionObjects
  <2> HIDE DEF left
  <2>3. objects' = [objects EXCEPT ![object] = left]
    BY <1>1, <1>6
  <2> HIDE DEF object
  <2>4. objects'[object] = left
    BY <2>1, <2>3 DEF StoreInv, CoreInv, StoreType
  <2>5. CASE left.invocations = {}
    <3>1. sessions' = [sessions EXCEPT ![sid] = None] /\ keyed' = None
      BY <1>1, <1>6, <2>1, <2>5 DEF object
    <3>2. \A s \in Invokers : sessions'[s] = None
      BY <2>1, <3>1 DEF StoreInv, CoreInv, StoreType, Keys
    <3>3. Keys' /\ ~InMemory'
      BY <3>1, <3>2 DEF Keys, InMemory
    <3>4. \A j \in Invokers : j # i => ~Held(j)
      BY <2>1, <2>2, <2>5 DEF StoreInv, Journals
    <3>5. Journals'
      BY <1>3, <3>4 DEF Journals, Held
    <3>6. Reached'
      BY <1>4, <3>4, DrivenIsHeld DEF Reached
    <3> QED
      BY <1>1, <3>3, <3>5, <3>6 DEF StoreInv
  <2>6. CASE left.invocations # {}
    <3>1. sessions' = sessions /\ keyed' = keyed
      BY <1>1, <1>6, <2>6 DEF object
    <3>2. Keys' /\ InMemory' = InMemory
      BY <1>1, <3>1 DEF StoreInv, CoreInv, StoreType, Keys, InMemory
    <3>3. objects'[sessions'[keyed']] = left
      BY <2>1, <2>4, <3>1
    <3>4. Journals'
      <4>1. ASSUME NEW j \in Invokers, Held(j)'
            PROVE  j # i /\ Held(j)
        BY <1>3, <4>1 DEF Held
      <4> QED
        BY <2>1, <2>2, <3>1, <3>2, <3>3, <4>1 DEF StoreInv, Journals
    <3>5. Reached'
      BY <1>4, <2>1, <2>2, <3>2, <3>3 DEF StoreInv, Reached
    <3> QED
      BY <1>1, <3>1, <3>2, <3>4, <3>5 DEF StoreInv
  <2> QED
    BY <2>5, <2>6
<1> QED
  BY <1>5, <1>6

(* What retention does to memory: it lets go of one Invocation at most,    *)
(* one that has ended before.                                              *)
LEMMA AdvanceKeeps ==
  ASSUME CoreInv, NEW i \in Invokers, Advance(i)
  PROVE  /\ CoreInv' /\ (InMemory' => InMemory) /\ keyed' \in {keyed, None}
         /\ \A o \in Holders : objects'[o].sid = objects[o].sid
         /\ StoreInv => StoreInv' /\ (InMemory' => keyed' = keyed)
         /\ \/ lru' = lru /\ UNCHANGED <<objects, sessions, keyed, journal>>
            \/ /\ Retirable(i) /\ Range(lru') \subseteq Range(lru) \cup {i}
               /\ \/ UNCHANGED <<objects, sessions, keyed, journal>>
                  \/ \E k \in Range(lru) \cup {i} : journal' = [journal EXCEPT ![k] = Absent]
               /\ \A j \in Invokers : \/ journal'[j] = journal[j]
                                      \/ j \in Range(lru) \cup {i} /\ journal'[j] = Absent
<1> DEFINE others == Kept(lru, Range(lru) \ {i})
           kept == Append(others, i)
<1>1. /\ others \in Seq(Invokers) /\ Range(others) = Range(lru) \cap (Range(lru) \ {i})
  BY KeptIs DEF CoreInv, StoreType
<1> HIDE DEF others
<1>2. /\ kept \in Seq(Invokers) /\ kept # <<>> /\ Range(kept) = Range(lru) \cup {i}
  BY <1>1, AppendIs
<1>3. UNCHANGED <<invs, driver>>
  BY DEF Advance
<1>4. CASE ~Retirable(i)
  <2>1. UNCHANGED memory
    BY <1>3, <1>4 DEF Advance, memory
  <2> QED
    BY <2>1, StoreFrame DEF memory
<1>5. CASE Retirable(i)
  <2>1. \A j \in Range(kept) : invs[j].state \in Ended
    BY <1>2, <1>5 DEF Retirable, CoreInv, KeptEnded
  <2> HIDE DEF kept
  <2>2. \/ lru' = kept /\ UNCHANGED <<objects, sessions, keyed, journal>>
        \/ lru' = Tail(kept) /\ Evict(Head(kept))
    BY <1>5 DEF Advance, kept, others
  <2>3. CASE lru' = kept /\ UNCHANGED <<objects, sessions, keyed, journal>>
    <3>1. CoreInv' /\ (StoreInv => StoreInv') /\ InMemory' = InMemory
      BY <1>2, <1>3, <2>1, <2>3
         DEF StoreInv, CoreInv, StoreType, Booked, Named, Keys, Journals, Held, InMemory, Reached,
             Placed, DriversFit, KeptEnded
    <3> QED
      BY <1>2, <1>5, <2>3, <3>1
  <2>4. CASE lru' = Tail(kept) /\ Evict(Head(kept))
    <3>1. /\ lru' \in Seq(Invokers) /\ Head(kept) \in Invokers
          /\ Range(kept) = {Head(kept)} \cup Range(lru')
      BY <1>2, <2>4, TailIs
    <3>2. /\ CoreInv' /\ (InMemory' => InMemory) /\ keyed' \in {keyed, None}
          /\ \A o \in Holders : objects'[o].sid = objects[o].sid
          /\ journal' = [journal EXCEPT ![Head(kept)] = Absent]
      BY <1>3, <2>1, <2>4, <3>1, EvictCore
    <3>3. StoreInv => StoreInv' /\ (InMemory' => keyed' = keyed)
      BY <1>3, <2>1, <2>4, <3>1, EvictKeeps
    <3>4. \A j \in Invokers : journal'[j] = IF j = Head(kept) THEN Absent ELSE journal[j]
      BY <3>2 DEF CoreInv, StoreType
    <3> QED
      BY <1>2, <1>5, <3>1, <3>2, <3>3, <3>4
  <2> QED
    BY <2>2, <2>3, <2>4
<1> QED
  BY <1>4, <1>5

-----------------------------------------------------------------------------
(* Records on their way to the database, and the rows they make.           *)
Datum == [state : States, life : Nat, point : BOOLEAN]
EventRecords ==
  [kind : {"event"}, inv : Invokers, sid : Invokers, seq : Nat \ {0}, snapshot : Nat,
   data : Datum]
AdmissionRecords ==
  [kind : {"admission"}, inv : Invokers, sid : Invokers, mode : Modes \ {"none"}]
Records == EventRecords \cup AdmissionRecords

RowOk(row) ==
  /\ row = [mode |-> row.mode, state |-> row.state, durable |-> row.durable,
            events |-> row.events, recovery |-> row.recovery, image |-> row.image]
  /\ row.mode \in Modes /\ row.state \in States /\ row.durable \in Nat
  /\ row.mode = "none" =>
       row.events = <<>> /\ row.state = "created" /\ row.durable = 0
  /\ \A n \in DOMAIN row.events : row.events[n] \in Datum /\ n \in 1 .. row.durable

FlowType ==
  /\ queue \in Seq(Records) /\ batch \in Seq(Records)
  /\ durable \in [Invokers -> Nat \cup {Absent}]
  /\ rows = [i \in Invokers |-> rows[i]] /\ \A i \in Invokers : RowOk(rows[i])
  /\ life \in Nat

Events(s, i) == {r \in Range(s) : r.kind = "event" /\ r.inv = i}
Entries(s, i) == {r \in Range(s) : r.kind = "admission" /\ r.inv = i}
FlowEvents(i) == Events(batch, i) \cup Events(queue, i)
FlowEntries(i) == Entries(batch, i) \cup Entries(queue, i)
Over(r) == r.data.state \in Ended

(* The events of an Invocation are in the order of their numbers.          *)
Increasing(s) ==
  \A k, l \in DOMAIN s :
    k < l /\ s[k].kind = "event" /\ s[l].kind = "event" /\ s[k].inv = s[l].inv =>
      s[k].seq < s[l].seq

LEMMA RecordIs ==
  /\ \A r \in Records : /\ r.kind \in {"event", "admission"} /\ r.inv \in Invokers
                        /\ r.kind = "event" => r \in EventRecords
                        /\ r.kind = "admission" => r \in AdmissionRecords
  /\ \A r \in EventRecords : /\ r.seq \in Nat /\ r.seq > 0 /\ r.data.state \in States
                             /\ r.data \in Datum /\ r.sid \in Invokers
                             /\ r.inv \in Invokers /\ r.kind = "event"
  /\ \A r \in AdmissionRecords : r.sid \in Invokers /\ r.mode \in Modes /\ r.mode # "none"
                                 /\ r.inv \in Invokers /\ r.kind = "admission"
BY DEF Records, EventRecords, AdmissionRecords, Datum

(* The greatest number of a bounded set.                                   *)
LEMMA MaxBounded ==
  ASSUME NEW S \in SUBSET Int, S # {}, NEW b \in Int, \A x \in S : x <= b
  PROVE  Max(S) \in S /\ \A x \in S : x <= Max(S)
<1> DEFINE D == {b - x : x \in S}
<1>1. D \in SUBSET Nat /\ D # {}
  <2>1. \A x \in S : b - x \in Nat
    <3> TAKE x \in S
    <3>1. x \in Int /\ x <= b
      OBVIOUS
    <3> QED
      BY <3>1
  <2> QED
    BY <2>1
<1>2. PICK d \in D : \A e \in D : d <= e
  BY <1>1, LeastExists
<1>3. PICK m \in S : d = b - m
  BY <1>2
<1>4. \A x \in S : x <= m
  <2> TAKE x \in S
  <2>1. d <= b - x
    BY <1>2
  <2> QED
    BY <1>3, <2>1
<1>5. \E n \in S : \A x \in S : n >= x
  BY <1>4
<1> QED
  BY <1>5 DEF Max

LEMMA MaxOfTwo ==
  ASSUME NEW a \in Nat, NEW c \in Nat
  PROVE  Max({a, c}) \in Nat /\ Max({a, c}) >= a /\ Max({a, c}) >= c
         /\ Max({a, c}) \in {a, c}
<1>1. {a, c} \in SUBSET Int /\ {a, c} # {} /\ a + c \in Int
      /\ \A x \in {a, c} : x <= a + c
  OBVIOUS
<1>2. Max({a, c}) \in {a, c} /\ \A x \in {a, c} : x <= Max({a, c})
  BY <1>1, MaxBounded
<1> QED
  BY <1>2

(* The events of one Invocation in a sequence; the last has the greatest   *)
(* number.                                                                 *)
LEMMA EventsOfIs ==
  ASSUME NEW s \in Seq(Records), NEW i \in Invokers
  PROVE  /\ EventsOf(s, i) \in Seq(Records) /\ Range(EventsOf(s, i)) = Events(s, i)
         /\ EventsOf(s, i) = <<>> <=> Events(s, i) = {}
         /\ Increasing(s) /\ Events(s, i) # {} =>
              /\ Last(EventsOf(s, i)) \in Events(s, i)
              /\ \A r \in Events(s, i) : r.seq <= Last(EventsOf(s, i)).seq
<1> DEFINE S == {r \in Range(s) : r.kind = "event" /\ r.inv = i}
           t == EventsOf(s, i)
<1>1. t = Kept(s, S) /\ S = Events(s, i)
  BY DEF EventsOf, Events
<1>2. t \in Seq(Records) /\ Range(t) = Range(s) \cap S
  BY <1>1, KeptIs
<1>3. Range(t) = Events(s, i)
  BY <1>1, <1>2
<1> HIDE DEF S, t
<1>4. t = <<>> <=> Range(t) = {}
  BY <1>2 DEF Range
<1>5. ASSUME Increasing(s), Events(s, i) # {}
      PROVE  /\ Last(t) \in Events(s, i)
             /\ \A r \in Events(s, i) : r.seq <= Last(t).seq
  <2>1. Len(t) \in Nat /\ Len(t) > 0 /\ DOMAIN t = 1 .. Len(t)
    BY <1>2, <1>3, <1>4, <1>5
  <2>2. Len(t) \in 1 .. Len(t) /\ Last(t) = t[Len(t)]
    BY <2>1 DEF Last
  <2>3. Last(t) \in Events(s, i)
    BY <1>3, <2>1, <2>2 DEF Range
  <2>4. ASSUME NEW j \in 1 .. Len(t), j < Len(t) PROVE t[j].seq <= t[Len(t)].seq
    <3>1. \E m, n \in 1 .. Len(s) : m < n /\ t[j] = s[m] /\ t[Len(t)] = s[n]
      BY <1>1, <2>2, <2>4, KeptOrder
    <3>2. PICK m \in 1 .. Len(s), n \in 1 .. Len(s) :
             m < n /\ t[j] = s[m] /\ t[Len(t)] = s[n]
      BY <3>1
    <3>3. t[j] \in Events(s, i) /\ t[Len(t)] \in Events(s, i)
      BY <1>3, <2>1, <2>2 DEF Range
    <3>4. s[m].seq < s[n].seq
      BY <1>5, <3>2, <3>3 DEF Increasing, Events
    <3>5. t[j].seq \in Nat /\ t[Len(t)].seq \in Nat
      <4>1. t[j] \in Records /\ t[Len(t)] \in Records
        BY <1>2, <2>1, <2>2
      <4> QED
        BY <3>3, <4>1, RecordIs DEF Events
    <3> QED
      BY <3>2, <3>4, <3>5
  <2>5. t[Len(t)].seq \in Nat
    <3>1. Last(t) \in Records /\ Last(t).kind = "event"
      BY <1>2, <2>1, <2>2, <2>3 DEF Events
    <3> QED
      BY <2>2, <3>1, RecordIs
  <2>6. \A j \in 1 .. Len(t) : t[j].seq <= t[Len(t)].seq
    <3>1. \A n \in Nat : \A j \in 1 .. n : j < n \/ j = n
      OBVIOUS
    <3> TAKE j \in 1 .. Len(t)
    <3>2. j < Len(t) \/ j = Len(t)
      BY <2>1, <3>1
    <3> QED
      BY <2>4, <2>5, <3>2
  <2>7. \A r \in Events(s, i) : \E j \in 1 .. Len(t) : r = t[j]
    BY <1>3, <2>1 DEF Range
  <2> QED
    BY <2>2, <2>3, <2>6, <2>7
<1> QED
  BY <1>2, <1>3, <1>4, <1>5 DEF t

(* The row of an Invocation once its admission is in the database.         *)
LEMMA AdmittedIs ==
  ASSUME FlowType, NEW i \in Invokers
  PROVE  LET row == Admitted(i).row IN
         /\ RowOk(row)
         /\ row.state = rows[i].state /\ row.events = rows[i].events
         /\ row.durable = rows[i].durable
         /\ Exists(rows[i]) => row = rows[i]
         /\ Entries(batch, i) # {} => Exists(row)
         /\ ~Exists(row) => ~Exists(rows[i])
<1> DEFINE row == Admitted(i).row
<1>1. RowOk(rows[i])
  BY DEF FlowType
<1>2. Entries(batch, i) = {r \in Admissions(batch) : r.inv = i}
  BY DEF Entries, Admissions
<1>3. CASE ~Exists(rows[i]) /\ Entries(batch, i) # {}
  <2> DEFINE e == CHOOSE r \in Admissions(batch) : r.inv = i
  <2>1. e \in Entries(batch, i)
    BY <1>2, <1>3
  <2>2. e.mode \in Modes /\ e.mode # "none"
    <3>1. \A r \in Entries(batch, i) : r \in Records /\ r.kind = "admission"
      BY DEF Entries, FlowType, Range
    <3> HIDE DEF e
    <3> QED
      BY <2>1, <3>1, RecordIs
  <2>3. row = AdmissionRow(e.mode)
    BY <1>2, <1>3 DEF Admitted
  <2> HIDE DEF e
  <2>4. /\ row.mode = e.mode /\ row.state = "created" /\ row.durable = 0
        /\ row.events = <<>> /\ RowOk(row) /\ Exists(row)
    BY <2>2, <2>3 DEF AdmissionRow, RowOk, States, Unfinished, Exists
  <2>5. rows[i].state = "created" /\ rows[i].durable = 0 /\ rows[i].events = <<>>
    BY <1>1, <1>3 DEF RowOk, Exists
  <2> QED
    BY <1>3, <2>4, <2>5
<1>4. CASE ~(~Exists(rows[i]) /\ Entries(batch, i) # {})
  <2>1. row = rows[i]
    BY <1>2, <1>4 DEF Admitted
  <2> QED
    BY <1>1, <1>4, <2>1
<1> QED
  BY <1>3, <1>4

(* What a transaction that is not refused makes of the row: its state is   *)
(* that of the last event, and it keeps the events it had.                 *)
LEMMA PersistedIs ==
  ASSUME FlowType, Increasing(batch), ~Refused, NEW i \in Invokers
  PROVE  LET row == Persisted(i).row IN
         /\ RowOk(row)
         /\ Exists(rows[i]) \/ Entries(batch, i) # {} => Exists(row)
         /\ Events(batch, i) = {} =>
              /\ row.state = rows[i].state /\ row.events = rows[i].events
              /\ row.durable = rows[i].durable
         /\ Events(batch, i) # {} =>
              \E e \in Events(batch, i) :
                /\ \A r \in Events(batch, i) : r.seq <= e.seq
                /\ row.state = e.data.state /\ row.durable = Max({rows[i].durable, e.seq})
         /\ DOMAIN row.events
              = DOMAIN rows[i].events \cup {r.seq : r \in Events(batch, i)}
         /\ \A n \in DOMAIN rows[i].events : row.events[n] = rows[i].events[n]
         /\ \A n \in DOMAIN row.events \ DOMAIN rows[i].events :
              \E r \in Events(batch, i) : r.seq = n /\ row.events[n] = r.data
<1> DEFINE row == Persisted(i).row
           old == Admitted(i).row
           new == EventsOf(batch, i)
<1>0. batch \in Seq(Records)
  BY DEF FlowType
<1>1. /\ RowOk(old) /\ old.state = rows[i].state /\ old.events = rows[i].events
      /\ old.durable = rows[i].durable
      /\ Exists(rows[i]) \/ Entries(batch, i) # {} => Exists(old)
  BY AdmittedIs
<1>2. /\ new \in Seq(Records) /\ Range(new) = Events(batch, i)
      /\ new = <<>> <=> Events(batch, i) = {}
  BY <1>0, EventsOfIs
<1>3. CASE Events(batch, i) = {}
  <2>1. row = old
    BY <1>2, <1>3 DEF Persisted
  <2> HIDE DEF row, old
  <2>2. DOMAIN row.events = DOMAIN rows[i].events
    BY <1>1, <2>1
  <2>3. {r.seq : r \in Events(batch, i)} = {}
    BY <1>3
  <2> QED
    BY <1>1, <1>3, <2>1, <2>2, <2>3 DEF row
<1>4. CASE Events(batch, i) # {}
  <2> DEFINE e == Last(new)
             p == Checkpoint(old, new,
                    (IF old.mode = "full" THEN Project(old, Admitted(i).cache, new)
                     ELSE Admitted(i).cache).state)
             events == EventRows(old, new)
             d == Max({old.durable, e.seq})
  <2>1. e \in Events(batch, i) /\ \A r \in Events(batch, i) : r.seq <= e.seq
    BY <1>0, <1>4, EventsOfIs
  <2>2. \A r \in Events(batch, i) : /\ r.seq \in Nat /\ r.seq > 0 /\ r.data \in Datum
                                    /\ r.data.state \in States
    <3>1. \A r \in Events(batch, i) : r \in Records /\ r.kind = "event"
      BY <1>0 DEF Events, Range
    <3> QED
      BY <3>1, RecordIs
  <2>3. Exists(old)
    BY <1>2, <1>4 DEF Refused
  <2>4. row = [old EXCEPT !.events = events, !.state = e.data.state, !.durable = d,
                          !.recovery = p.sequence, !.image = p.image]
    BY <1>2, <1>4 DEF Persisted, PersistEvents
  <2>5. d \in Nat /\ d >= old.durable /\ d >= e.seq
    BY <1>1, <2>1, <2>2, MaxOfTwo DEF RowOk
  <2> DEFINE D == DOMAIN old.events
             N == {r.seq : r \in Range(new)}
             T == {r \in Range(new) : TRUE}
  <2>6. events = [n \in D \cup N |->
                    IF n \in D THEN old.events[n]
                    ELSE (CHOOSE r \in Range(new) : r.seq = n).data]
    BY DEF EventRows
  <2> HIDE DEF e, p, events, d, row, old, new
  <2>7. /\ row = [mode |-> old.mode, state |-> e.data.state, durable |-> d,
                  events |-> events, recovery |-> p.sequence, image |-> p.image]
    BY <1>1, <2>4 DEF RowOk
  <2>8. /\ DOMAIN events = D \cup N
        /\ \A n \in D : events[n] = old.events[n]
        /\ \A n \in (D \cup N) \ D : \E r \in Events(batch, i) : r.seq = n /\ events[n] = r.data
    <3>1. DOMAIN events = D \cup N /\ \A n \in D : events[n] = old.events[n]
      BY <2>6
    <3>2. ASSUME NEW n \in N, n \notin D
          PROVE  \E r \in Events(batch, i) : r.seq = n /\ events[n] = r.data
      <4> DEFINE r == CHOOSE r \in Range(new) : r.seq = n
      <4>1. r \in Range(new) /\ r.seq = n
        BY <3>2
      <4>2. events[n] = r.data
        BY <2>6, <3>2
      <4> QED
        BY <1>2, <4>1, <4>2
    <3> QED
      BY <3>1, <3>2
  <2>9. N = {r.seq : r \in Events(batch, i)}
    BY <1>2
  <2>10. ASSUME NEW n \in DOMAIN events PROVE events[n] \in Datum /\ n \in 1 .. d
    <3>1. CASE n \in D
      <4>1. old.events[n] \in Datum /\ n \in 1 .. old.durable /\ old.durable \in Nat
        BY <1>1, <3>1 DEF RowOk
      <4>2. n \in 1 .. d
        BY <2>5, <4>1
      <4> QED
        BY <2>8, <3>1, <4>1, <4>2
    <3>2. CASE n \notin D
      <4>1. PICK r \in Events(batch, i) : r.seq = n /\ events[n] = r.data
        BY <2>8, <2>10, <3>2
      <4>2. r.seq \in Nat /\ r.seq > 0 /\ r.seq <= e.seq /\ e.seq \in Nat
        BY <2>1, <2>2, <4>1
      <4>3. n \in 1 .. d
        BY <2>5, <4>1, <4>2
      <4> QED
        BY <2>2, <4>1, <4>3
    <3> QED
      BY <3>1, <3>2
  <2>11. /\ row.mode = old.mode /\ row.state = e.data.state /\ row.durable = d
         /\ row.events = events
    BY <2>7
  <2>12. RowOk(row)
    <3>1. old.mode \in Modes /\ old.mode # "none"
      BY <1>1, <2>3 DEF RowOk, Exists
    <3>2. row = [mode |-> row.mode, state |-> row.state, durable |-> row.durable,
            events |-> row.events, recovery |-> row.recovery, image |-> row.image]
      BY <2>7
    <3>3. e.data.state \in States
      BY <2>1, <2>2
    <3> QED
      BY <2>5, <2>10, <2>11, <3>1, <3>2, <3>3 DEF RowOk
  <2>13. Exists(row)
    BY <2>3, <2>11 DEF Exists
  <2>14. row.durable = Max({rows[i].durable, e.seq})
    BY <1>1, <2>11 DEF d
  <2>15. DOMAIN row.events = DOMAIN rows[i].events \cup {r.seq : r \in Events(batch, i)}
    BY <1>1, <2>8, <2>9, <2>11
  <2>16. /\ \A n \in DOMAIN rows[i].events : row.events[n] = rows[i].events[n]
         /\ \A n \in DOMAIN row.events \ DOMAIN rows[i].events :
              \E r \in Events(batch, i) : r.seq = n /\ row.events[n] = r.data
    BY <1>1, <2>8, <2>11
  <2> QED
    BY <1>4, <2>1, <2>11, <2>12, <2>13, <2>14, <2>15, <2>16 DEF row
<1> QED
  BY <1>3, <1>4

-----------------------------------------------------------------------------
(* The flow of records.                                                    *)

(* r may come before q: an admission is the first record of its            *)
(* Invocation, its events follow in the order of their numbers.            *)
Precedes(r, q) ==
  r.inv = q.inv => q.kind = "event" /\ (r.kind = "event" => r.seq < q.seq)
InOrder(s) == \A k, l \in DOMAIN s : k < l => Precedes(s[k], s[l])
FlowOrder ==
  /\ InOrder(batch) /\ InOrder(queue)
  /\ \A r \in Range(batch), q \in Range(queue) : Precedes(r, q)

(* What is on its way is not durable yet.                                  *)
Bounded ==
  \A i \in Invokers :
    /\ \A r \in FlowEvents(i) : r.seq <= invs[i].seq /\ durable[i] < r.seq
    /\ FlowEntries(i) # {} => durable[i] = Absent
    /\ durable[i] # Absent => durable[i] <= invs[i].seq

(* Of a call that has not been admitted there is nothing anywhere, and of  *)
(* an Invocation that this process does not know nothing is on its way.    *)
Early == {"idle", "looking", "reading", "loaded", "missed", "admitting"}
Places == Early \cup {"running", "done", "failed", "busy", "orphan", "lost"}
Unborn ==
  \A i \in Invokers :
    /\ pc[i] \in Early =>
         /\ invs[i].state = "none"
         /\ rows[i].events = <<>> /\ rows[i].state \notin Ended
    /\ invs[i].state = "none" =>
         durable[i] = Absent /\ FlowEvents(i) = {} /\ FlowEntries(i) = {}

(* The event that ends an Invocation is its last one, in the flow and in   *)
(* the tables.                                                             *)
EndsLast ==
  \A i \in Invokers :
    /\ \A r, q \in FlowEvents(i) : Over(r) => q.seq <= r.seq
    /\ rows[i].state \in Ended =>
         /\ Events(queue, i) = {}
         /\ Events(batch, i) # {} => \E r \in Events(batch, i) : Over(r)
    /\ rows[i].state \in Unfinished =>
         \A n \in DOMAIN rows[i].events : rows[i].events[n].state \in Unfinished
    /\ driver[i] # "none" \/ invs[i].state \in Unfinished =>
         rows[i].state \notin Ended /\ \A r \in FlowEvents(i) : ~Over(r)

FlowInv == FlowType /\ FlowOrder /\ Bounded /\ Unborn /\ EndsLast

LEMMA EventIs ==
  ASSUME FlowType, NEW i \in Invokers
  PROVE  /\ \A r \in FlowEvents(i) : /\ r \in EventRecords /\ r.inv = i /\ r.kind = "event"
                                     /\ r.seq \in Nat /\ r.seq > 0
                                     /\ r.data.state \in States
         /\ \A r \in FlowEntries(i) : /\ r \in AdmissionRecords /\ r.inv = i
                                      /\ r.kind = "admission"
         /\ Events(batch, i) \subseteq Range(batch) /\ Events(queue, i) \subseteq Range(queue)
         /\ Entries(batch, i) \subseteq Range(batch)
         /\ Entries(queue, i) \subseteq Range(queue)
<1>1. Range(batch) \subseteq Records /\ Range(queue) \subseteq Records
  BY DEF FlowType, Range
<1>2. \A r \in FlowEvents(i) : r \in Records /\ r.kind = "event" /\ r.inv = i
  BY <1>1 DEF FlowEvents, Events
<1>3. \A r \in FlowEntries(i) : r \in Records /\ r.kind = "admission" /\ r.inv = i
  BY <1>1 DEF FlowEntries, Entries
<1> QED
  BY <1>2, <1>3, RecordIs DEF Events, Entries

LEMMA OrderIncreases ==
  ASSUME NEW s, InOrder(s)
  PROVE  Increasing(s)
BY DEF InOrder, Precedes, Increasing

LEMMA SameNumber ==
  ASSUME NEW s \in Seq(Records), InOrder(s), NEW i,
         NEW r \in Events(s, i), NEW q \in Events(s, i), r.seq = q.seq
  PROVE  r = q
<1>1. PICK k \in DOMAIN s, l \in DOMAIN s : r = s[k] /\ q = s[l]
  BY DEF Events, Range
<1>2. k \in Nat /\ l \in Nat
  OBVIOUS
<1>3. r.seq \in Nat
  <2>1. r \in Records /\ r.kind = "event"
    BY DEF Events, Range
  <2> QED
    BY <2>1, RecordIs
<1>4. ~(k < l) /\ ~(l < k)
  BY <1>1, <1>3 DEF InOrder, Precedes, Events
<1> QED
  BY <1>1, <1>2, <1>4

LEMMA AppendInOrder ==
  ASSUME NEW s \in Seq(Records), NEW e \in Records, InOrder(s),
         \A r \in Range(s) : Precedes(r, e)
  PROVE  InOrder(Append(s, e))
<1> DEFINE t == Append(s, e)
<1>1. /\ t \in Seq(Records) /\ Len(t) = Len(s) + 1 /\ t[Len(s) + 1] = e
      /\ \A k \in 1 .. Len(s) : t[k] = s[k]
  BY AppendIs
<1> HIDE DEF t
<1> SUFFICES ASSUME NEW k \in DOMAIN t, NEW l \in DOMAIN t, k < l
             PROVE  Precedes(t[k], t[l])
  BY DEF InOrder, t
<1>2. k \in 1 .. Len(s) /\ (l \in 1 .. Len(s) \/ l = Len(s) + 1)
  BY <1>1
<1>3. t[k] = s[k] /\ k \in DOMAIN s /\ s[k] \in Range(s)
  BY <1>1, <1>2 DEF Range
<1>4. CASE l \in 1 .. Len(s)
  BY <1>1, <1>2, <1>3, <1>4 DEF InOrder
<1>5. CASE l = Len(s) + 1
  BY <1>1, <1>3, <1>5
<1> QED
  BY <1>2, <1>4, <1>5

(* A batch is taken from the front.                                        *)
Splits(s, n, a, b) == a = SubSeq(s, 1, n) /\ b = SubSeq(s, n + 1, Len(s))

LEMMA SplitInOrder ==
  ASSUME NEW s \in Seq(Records), InOrder(s), NEW n \in 1 .. Len(s),
         NEW a, NEW b, Splits(s, n, a, b)
  PROVE  /\ a \in Seq(Records) /\ b \in Seq(Records)
         /\ InOrder(a) /\ InOrder(b) /\ Range(s) = Range(a) \cup Range(b)
         /\ \A r \in Range(a), q \in Range(b) : Precedes(r, q)
<1>0. a = SubSeq(s, 1, n) /\ b = SubSeq(s, n + 1, Len(s))
  BY DEF Splits
<1>1. /\ a \in Seq(Records) /\ Len(a) = n
      /\ \A k \in 1 .. n : a[k] = s[k]
  <2>1. \A k \in 1 .. n : s[k] \in Records
    OBVIOUS
  <2> QED
    BY <1>0, <2>1, SubSeqProperties
<1>2. /\ b \in Seq(Records) /\ Len(b) = Len(s) - n
      /\ \A k \in 1 .. Len(s) - n : b[k] = s[k + n]
  <2> DEFINE m == n + 1
             z == Len(s)
  <2>1. /\ m \in Int /\ z \in Int /\ z - m + 1 = z - n /\ m <= z + 1
        /\ \A k \in m .. z : s[k] \in Records
        /\ \A k \in 1 .. z - n : m + k - 1 = k + n
    OBVIOUS
  <2>2. b = SubSeq(s, m, z)
    BY <1>0
  <2>3. (IF m <= z THEN z - m + 1 ELSE 0) = z - n
    OBVIOUS
  <2> HIDE DEF m, z
  <2>4. /\ b \in Seq(Records) /\ Len(b) = (IF m <= z THEN z - m + 1 ELSE 0)
        /\ \A k \in 1 .. z - m + 1 : b[k] = s[m + k - 1]
    BY <2>1, <2>2, SubSeqProperties
  <2> QED
    BY <2>1, <2>3, <2>4 DEF z
<1>3. DOMAIN a = 1 .. n /\ DOMAIN b = 1 .. Len(s) - n /\ DOMAIN s = 1 .. Len(s)
      /\ Len(s) \in Nat /\ n <= Len(s)
  BY <1>1, <1>2
<1>4. /\ \A k \in 1 .. n : k \in 1 .. Len(s)
      /\ \A k \in 1 .. Len(s) - n : k + n \in 1 .. Len(s)
      /\ \A k \in 1 .. Len(s) : k \in 1 .. n \/ (k - n \in 1 .. Len(s) - n /\ (k - n) + n = k)
  BY <1>3
<1>5. InOrder(a)
  BY <1>1, <1>3, <1>4 DEF InOrder
<1>6. InOrder(b)
  <2> SUFFICES ASSUME NEW k \in DOMAIN b, NEW l \in DOMAIN b, k < l
               PROVE  Precedes(b[k], b[l])
    BY DEF InOrder
  <2>1. k \in 1 .. Len(s) - n /\ l \in 1 .. Len(s) - n
    BY <1>3
  <2>2. k + n \in DOMAIN s /\ l + n \in DOMAIN s
    BY <1>3, <1>4, <2>1
  <2>3. k + n < l + n
    BY <1>3, <2>1
  <2>4. b[k] = s[k + n] /\ b[l] = s[l + n]
    BY <1>2, <2>1
  <2> QED
    BY <2>2, <2>3, <2>4 DEF InOrder
<1>7. Range(s) = Range(a) \cup Range(b)
  <2>1. Range(a) \subseteq Range(s) /\ Range(b) \subseteq Range(s)
    <3>1. \A k \in DOMAIN a : k \in DOMAIN s /\ a[k] = s[k]
      BY <1>1, <1>3, <1>4
    <3>2. \A k \in DOMAIN b : k + n \in DOMAIN s /\ b[k] = s[k + n]
      BY <1>2, <1>3, <1>4
    <3> QED
      BY <3>1, <3>2 DEF Range
  <2>2. ASSUME NEW k \in 1 .. Len(s) PROVE s[k] \in Range(a) \cup Range(b)
    <3>1. CASE k \in 1 .. n
      BY <1>1, <1>3, <3>1 DEF Range
    <3>2. CASE k - n \in 1 .. Len(s) - n /\ (k - n) + n = k
      <4>1. b[k - n] = s[k]
        BY <1>2, <3>2
      <4> QED
        BY <1>3, <3>2, <4>1 DEF Range
    <3> QED
      BY <1>4, <3>1, <3>2
  <2> QED
    BY <1>3, <2>1, <2>2 DEF Range
<1>8. ASSUME NEW r \in Range(a), NEW q \in Range(b) PROVE Precedes(r, q)
  <2>1. PICK k \in DOMAIN a, l \in DOMAIN b : r = a[k] /\ q = b[l]
    BY DEF Range
  <2>2. k \in 1 .. n /\ l \in 1 .. Len(s) - n
    BY <1>3, <2>1
  <2>3. r = s[k] /\ q = s[l + n]
    BY <1>1, <1>2, <2>1, <2>2
  <2>4. k \in DOMAIN s /\ l + n \in DOMAIN s
    BY <1>3, <1>4, <2>2
  <2>5. k < l + n
    BY <1>3, <2>2
  <2> QED
    BY <2>3, <2>4, <2>5 DEF InOrder
<1> QED
  BY <1>1, <1>2, <1>5, <1>6, <1>7, <1>8

(* Older events lose their snapshots, nothing else.                        *)
Alike(r, q) == /\ q.kind = r.kind /\ q.inv = r.inv /\ q.sid = r.sid
               /\ r.kind = "event" => q.seq = r.seq /\ q.data = r.data
               /\ r.kind = "admission" => q = r

LEMMA CoalesceIs ==
  ASSUME queue \in Seq(Records), InOrder(queue), NEW i \in Invokers,
         NEW s, s = Coalesce(i) \/ s = queue
  PROVE  /\ s \in Seq(Records) /\ InOrder(s)
         /\ \A q \in Range(s) : \E r \in Range(queue) : Alike(r, q)
         /\ \A j \in Invokers : Entries(s, j) = Entries(queue, j)
<1>1. /\ s \in Seq(Records) /\ Len(s) = Len(queue)
      /\ \A k \in 1 .. Len(queue) : Alike(queue[k], s[k])
  <2>1. CASE s = queue
    BY <2>1 DEF Alike
  <2>2. CASE s = Coalesce(i)
    <3>1. /\ DOMAIN queue = 1 .. Len(queue) /\ Len(queue) \in Nat
          /\ \A k \in 1 .. Len(queue) : queue[k] \in Records
      OBVIOUS
    <3>2. s = [k \in 1 .. Len(queue) |->
                 IF queue[k].kind = "event" /\ queue[k].inv = i
                 THEN [queue[k] EXCEPT !.snapshot = 0] ELSE queue[k]]
      BY <2>2, <3>1 DEF Coalesce
    <3>3. ASSUME NEW k \in 1 .. Len(queue) PROVE s[k] \in Records /\ Alike(queue[k], s[k])
      <4> DEFINE r == queue[k]
      <4>1. s[k] = IF r.kind = "event" /\ r.inv = i
                   THEN [r EXCEPT !.snapshot = 0] ELSE r
        BY <3>2
      <4>2. r \in Records
        BY <3>1
      <4> HIDE DEF r
      <4>3. CASE r.kind = "event" /\ r.inv = i
        <5>1. r \in EventRecords
          BY <4>2, <4>3, RecordIs
        <5>2. [r EXCEPT !.snapshot = 0] \in EventRecords /\ Alike(r, [r EXCEPT !.snapshot = 0])
          BY <5>1, <4>3 DEF EventRecords, Alike
        <5> QED
          BY <4>1, <4>3, <5>2 DEF Records, r
      <4>4. CASE ~(r.kind = "event" /\ r.inv = i)
        BY <4>1, <4>2, <4>4 DEF Alike, r
      <4> QED
        BY <4>3, <4>4
    <3>4. s \in Seq(Records) /\ Len(s) = Len(queue)
      BY <3>1, <3>2, <3>3
    <3> QED
      BY <3>3, <3>4
  <2> QED
    BY <2>1, <2>2
<1>2. DOMAIN s = 1 .. Len(queue) /\ DOMAIN queue = 1 .. Len(queue)
  BY <1>1
<1>3. \A k \in 1 .. Len(queue) : queue[k].kind \in {"event", "admission"}
  BY RecordIs
<1>4. InOrder(s)
  BY <1>1, <1>2, <1>3 DEF InOrder, Precedes, Alike
<1>5. \A q \in Range(s) : \E r \in Range(queue) : Alike(r, q)
  BY <1>1, <1>2 DEF Range
<1>6. \A j \in Invokers : Entries(s, j) = Entries(queue, j)
  <2> SUFFICES ASSUME NEW j \in Invokers, NEW e
               PROVE  e \in Entries(s, j) <=> e \in Entries(queue, j)
    OBVIOUS
  <2>1. ASSUME e \in Entries(s, j) PROVE e \in Entries(queue, j)
    <3>1. PICK k \in 1 .. Len(queue) : e = s[k]
      BY <1>2, <2>1 DEF Entries, Range
    <3> QED
      BY <1>1, <1>2, <2>1, <3>1 DEF Entries, Range, Alike
  <2>2. ASSUME e \in Entries(queue, j) PROVE e \in Entries(s, j)
    <3>1. PICK k \in 1 .. Len(queue) : e = queue[k]
      BY <1>2, <2>2 DEF Entries, Range
    <3>2. s[k] = e
      BY <1>1, <2>2, <3>1 DEF Entries, Alike
    <3> QED
      BY <1>2, <2>2, <3>2 DEF Entries, Range
  <2> QED
    BY <2>1, <2>2
<1> QED
  BY <1>1, <1>4, <1>5, <1>6

(* A record joins the queue.                                               *)
LEMMA QueueGrows ==
  ASSUME FlowType, FlowOrder, NEW i \in Invokers, NEW s, s = Coalesce(i) \/ s = queue,
         NEW e \in Records, \A r \in Range(batch) \cup Range(queue) : Precedes(r, e),
         queue' = Append(s, e), UNCHANGED batch
  PROVE  /\ queue' \in Seq(Records) /\ FlowOrder'
         /\ \A j \in Invokers :
              /\ Entries(queue', j)
                   = Entries(queue, j) \cup {x \in {e} : e.kind = "admission" /\ e.inv = j}
              /\ \A q \in Events(queue', j) :
                   \/ q = e /\ e.inv = j /\ e.kind = "event"
                   \/ \E r \in Events(queue, j) : r.seq = q.seq /\ r.data = q.data
<1>1. /\ s \in Seq(Records) /\ InOrder(s)
      /\ \A q \in Range(s) : \E r \in Range(queue) : Alike(r, q)
      /\ \A j \in Invokers : Entries(s, j) = Entries(queue, j)
  BY CoalesceIs DEF FlowType, FlowOrder
<1>2. \A q \in Range(s) : Precedes(q, e)
  <2> TAKE q \in Range(s)
  <2>1. PICK r \in Range(queue) : Alike(r, q)
    BY <1>1
  <2>2. Precedes(r, e) /\ r.kind \in {"event", "admission"}
    <3>1. r \in Records
      BY DEF FlowType, Range
    <3> QED
      BY <3>1, RecordIs
  <2> QED
    BY <2>1, <2>2 DEF Precedes, Alike
<1>3. /\ queue' \in Seq(Records) /\ Range(queue') = Range(s) \cup {e} /\ InOrder(queue')
  BY <1>1, <1>2, AppendIs, AppendInOrder
<1>4. FlowOrder'
  <2>1. ASSUME NEW r \in Range(batch), NEW q \in Range(queue') PROVE Precedes(r, q)
    <3>1. CASE q = e
      BY <3>1
    <3>2. CASE q # e
      <4>1. PICK p \in Range(queue) : Alike(p, q)
        BY <1>1, <1>3, <2>1, <3>2
      <4>2. Precedes(r, p)
        BY DEF FlowOrder
      <4> QED
        BY <4>1, <4>2 DEF Precedes, Alike
    <3> QED
      BY <3>1, <3>2
  <2> QED
    BY <1>3, <2>1 DEF FlowOrder
<1>5. ASSUME NEW j \in Invokers
      PROVE  Entries(queue', j)
               = Entries(queue, j) \cup {x \in {e} : e.kind = "admission" /\ e.inv = j}
  <2>1. Entries(queue', j)
          = Entries(s, j) \cup {x \in {e} : e.kind = "admission" /\ e.inv = j}
    BY <1>3 DEF Entries
  <2> QED
    BY <1>1, <2>1
<1>6. ASSUME NEW j \in Invokers, NEW q \in Events(queue', j)
      PROVE  \/ q = e /\ e.inv = j /\ e.kind = "event"
             \/ \E r \in Events(queue, j) : r.seq = q.seq /\ r.data = q.data
  <2>1. q \in Range(s) \cup {e} /\ q.kind = "event" /\ q.inv = j
    BY <1>3, <1>6 DEF Events
  <2>2. CASE q \in Range(s)
    <3>1. PICK r \in Range(queue) : Alike(r, q)
      BY <1>1, <2>2
    <3>2. r \in Events(queue, j) /\ r.seq = q.seq /\ r.data = q.data
      BY <2>1, <3>1 DEF Alike, Events
    <3> QED
      BY <3>2
  <2> QED
    BY <2>1, <2>2
<1> QED
  BY <1>3, <1>4, <1>5, <1>6

(* Steps that concern neither records nor rows.                            *)
LEMMA FlowFrame ==
  ASSUME FlowInv, UNCHANGED <<queue, batch, durable, rows, life>>,
         \A i \in Invokers :
           /\ invs'[i].seq = invs[i].seq
           /\ invs'[i].state = "none" <=> invs[i].state = "none"
           /\ driver'[i] # "none" \/ invs'[i].state \in Unfinished =>
                driver[i] # "none" \/ invs[i].state \in Unfinished
           /\ pc'[i] \in Early => pc[i] \in Early
  PROVE  FlowInv'
<1>1. /\ \A i \in Invokers : FlowEvents(i)' = FlowEvents(i) /\ FlowEntries(i)' = FlowEntries(i)
      /\ FlowType' /\ FlowOrder'
  BY DEF FlowInv, FlowType, FlowOrder, FlowEvents, FlowEntries
<1>2. Bounded'
  BY <1>1 DEF FlowInv, Bounded
<1>3. Unborn'
  BY <1>1 DEF FlowInv, Unborn
<1>4. EndsLast'
  BY <1>1 DEF FlowInv, EndsLast
<1> QED
  BY <1>1, <1>2, <1>3, <1>4 DEF FlowInv

(* The admission of a new Invocation is queued.                            *)
LEMMA FlowAttach ==
  ASSUME FlowInv, StoreType, pc \in [Calls -> Places], NEW c \in Invokers,
         pc[c] = "admitting", NEW sid \in Invokers, NEW mode \in Modes \ {"none"}, NEW object,
         invs' = [invs EXCEPT ![c] = [state |-> "created", seq |-> 0,
                                      mode |-> mode, object |-> object]],
         queue' = Append(queue, [kind |-> "admission", inv |-> c,
                                 sid |-> sid, mode |-> mode]),
         driver' = [driver EXCEPT ![c] = "driving"],
         pc' = [pc EXCEPT ![c] = "running"],
         UNCHANGED <<batch, durable, rows, life>>
  PROVE  /\ FlowInv'
         /\ \A j \in Invokers :
              /\ j # c => Entries(queue', j) = Entries(queue, j)
              /\ \A q \in Events(queue', j) :
                   \E r \in Events(queue, j) : r.seq = q.seq /\ r.data = q.data
         /\ Entries(queue', c) # {} /\ FlowEvents(c) = {} /\ FlowEntries(c) = {}
         /\ \A q \in Entries(queue', c) : q.sid = sid
<1> DEFINE e == [kind |-> "admission", inv |-> c, sid |-> sid, mode |-> mode]
<1>0. e \in Records /\ e.inv = c /\ e.kind = "admission"
  BY DEF Records, AdmissionRecords
<1>1. /\ invs[c].state = "none" /\ durable[c] = Absent /\ FlowEvents(c) = {}
      /\ FlowEntries(c) = {} /\ rows[c].state \notin Ended
  BY DEF FlowInv, Unborn, Early
<1>2. \A r \in Range(batch) \cup Range(queue) : r.inv # c
  <2>1. \A r \in Range(batch) \cup Range(queue) : r \in Records
    BY DEF FlowInv, FlowType, Range
  <2> QED
    BY <1>1, <2>1, RecordIs DEF FlowEvents, FlowEntries, Events, Entries
<1> HIDE DEF e
<1>3. /\ queue' \in Seq(Records) /\ FlowOrder'
      /\ \A j \in Invokers :
              /\ Entries(queue', j)
                   = Entries(queue, j) \cup {x \in {e} : e.kind = "admission" /\ e.inv = j}
              /\ \A q \in Events(queue', j) :
                   \/ q = e /\ e.inv = j /\ e.kind = "event"
                   \/ \E r \in Events(queue, j) : r.seq = q.seq /\ r.data = q.data
  <2>1. \A r \in Range(batch) \cup Range(queue) : Precedes(r, e)
    BY <1>0, <1>2 DEF Precedes
  <2>2. queue' = Append(queue, e) /\ FlowType /\ FlowOrder
    BY DEF e, FlowInv
  <2> QED
    BY <1>0, <2>1, <2>2, QueueGrows
<1>4. \A j \in Invokers :
        /\ \A q \in FlowEvents(j)' :
             \E r \in FlowEvents(j) : r.seq = q.seq /\ r.data = q.data
        /\ Events(queue, j) = {} => Events(queue', j) = {}
        /\ FlowEntries(j)' = IF j = c THEN {e} ELSE FlowEntries(j)
  <2> TAKE j \in Invokers
  <2>1. \A q \in Events(queue', j) :
          \E r \in Events(queue, j) : r.seq = q.seq /\ r.data = q.data
    BY <1>0, <1>3
  <2>2. FlowEvents(j)' = Events(batch, j) \cup Events(queue', j)
    BY DEF FlowEvents
  <2>3. FlowEntries(j)' = Entries(batch, j) \cup Entries(queue', j)
    BY DEF FlowEntries
  <2>4. FlowEntries(j)' = FlowEntries(j) \cup {x \in {e} : e.inv = j}
    BY <1>0, <1>3, <2>3 DEF FlowEntries
  <2>5. FlowEntries(j)' = IF j = c THEN {e} ELSE FlowEntries(j)
    BY <1>0, <1>1, <2>4
  <2> QED
    BY <2>1, <2>2, <2>5 DEF FlowEvents
<1>5. /\ \A j \in Invokers : j # c => invs'[j] = invs[j] /\ driver'[j] = driver[j]
                                      /\ pc'[j] = pc[j]
      /\ invs'[c].state = "created" /\ invs'[c].seq = 0 /\ pc'[c] = "running"
  BY DEF StoreType, Calls
<1>6. "created" # "none" /\ "running" \notin Early
  BY DEF Early
<1>7. FlowType'
  BY <1>3 DEF FlowInv, FlowType
<1>8. Bounded'
  <2>1. ASSUME NEW j \in Invokers
        PROVE  /\ \A r \in FlowEvents(j)' : r.seq <= invs'[j].seq /\ durable[j] < r.seq
               /\ FlowEntries(j)' # {} => durable[j] = Absent
               /\ durable[j] # Absent => durable[j] <= invs'[j].seq
    <3>1. CASE j = c
      <4>1. FlowEvents(j)' = {}
        BY <1>1, <1>4, <3>1
      <4> QED
        BY <1>1, <3>1, <4>1
    <3>2. CASE j # c
      BY <1>4, <1>5, <3>2 DEF FlowInv, Bounded
    <3> QED
      BY <3>1, <3>2
  <2> QED
    BY <2>1 DEF Bounded
<1>9. Unborn'
  <2>1. ASSUME NEW j \in Invokers, j # c, invs[j].state = "none"
        PROVE  durable[j] = Absent /\ FlowEvents(j)' = {} /\ FlowEntries(j)' = {}
    <3>1. durable[j] = Absent /\ FlowEvents(j) = {} /\ FlowEntries(j) = {}
      BY <2>1 DEF FlowInv, Unborn
    <3> QED
      BY <1>4, <2>1, <3>1
  <2> QED
    BY <1>5, <1>6, <2>1 DEF FlowInv, Unborn
<1>10. EndsLast'
  <2>1. ASSUME NEW j \in Invokers
        PROVE  /\ \A r, q \in FlowEvents(j)' : Over(r) => q.seq <= r.seq
               /\ rows[j].state \in Ended =>
                    /\ Events(queue', j) = {}
                    /\ Events(batch, j) # {} => \E r \in Events(batch, j) : Over(r)
               /\ driver'[j] # "none" \/ invs'[j].state \in Unfinished =>
                    rows[j].state \notin Ended /\ \A r \in FlowEvents(j)' : ~Over(r)
    <3>1. \A r, q \in FlowEvents(j)' : Over(r) => q.seq <= r.seq
      BY <1>4 DEF FlowInv, EndsLast, Over
    <3>2. rows[j].state \in Ended =>
                    /\ Events(queue', j) = {}
                    /\ Events(batch, j) # {} => \E r \in Events(batch, j) : Over(r)
      BY <1>4 DEF FlowInv, EndsLast
    <3>3. CASE j = c
      <4>1. FlowEvents(j)' = {}
        BY <1>1, <1>4, <3>3
      <4> QED
        BY <1>1, <3>1, <3>2, <3>3, <4>1
    <3>4. CASE j # c
      BY <1>4, <1>5, <3>1, <3>2, <3>4 DEF FlowInv, EndsLast, Over
    <3> QED
      BY <3>3, <3>4
  <2> QED
    BY <2>1 DEF FlowInv, EndsLast
<1>11. /\ \A j \in Invokers :
              /\ j # c => Entries(queue', j) = Entries(queue, j)
              /\ \A q \in Events(queue', j) :
                   \E r \in Events(queue, j) : r.seq = q.seq /\ r.data = q.data
       /\ Entries(queue', c) # {} /\ \A q \in Entries(queue', c) : q.sid = sid
  <2>1. e.sid = sid
    BY DEF e
  <2>2. Entries(queue', c) = {e}
    <3>1. Entries(queue, c) = {}
      BY <1>1 DEF FlowEntries
    <3>2. Entries(queue', c) = Entries(queue, c)
                                 \cup {x \in {e} : e.kind = "admission" /\ e.inv = c}
      BY <1>3
    <3> QED
      BY <1>0, <3>1, <3>2
  <2>3. ASSUME NEW j \in Invokers, j # c PROVE Entries(queue', j) = Entries(queue, j)
    <3>1. Entries(queue', j) = Entries(queue, j)
                                 \cup {x \in {e} : e.kind = "admission" /\ e.inv = j}
      BY <1>3
    <3> QED
      BY <1>0, <2>3, <3>1
  <2>4. ASSUME NEW j \in Invokers, NEW q \in Events(queue', j)
        PROVE  \E r \in Events(queue, j) : r.seq = q.seq /\ r.data = q.data
    <3>1. \/ q = e /\ e.inv = j /\ e.kind = "event"
          \/ \E r \in Events(queue, j) : r.seq = q.seq /\ r.data = q.data
      BY <1>3, <2>4
    <3> QED
      BY <1>0, <3>1
  <2> QED
    BY <2>1, <2>2, <2>3, <2>4
<1> QED
  BY <1>1, <1>3, <1>7, <1>8, <1>9, <1>10, <1>11 DEF FlowInv

(* An event is queued.                                                     *)
LEMMA FlowRecord ==
  ASSUME FlowInv, CoreInv, NEW i \in Invokers, driver[i] # "none", NEW state \in States,
         driver[i] = "driving" => state \in Unfinished,
         driver[i] = "ending" => state \in Ended /\ Held(i),
         NEW point, NEW forced, RecordEvent(i, state, point, forced),
         driver' = driver \/ driver' = [driver EXCEPT ![i] = "none"],
         state \in Ended => driver'[i] = "none",
         UNCHANGED <<objects, keyed, lru>>,
         \A j \in Invokers : pc'[j] \in Early => pc[j] \in Early,
         UNCHANGED <<batch, durable, rows, life>>
  PROVE  /\ FlowInv'
         /\ \A j \in Invokers :
              /\ Entries(queue', j) = Entries(queue, j)
              /\ \A q \in Events(queue', j) :
                   \/ j = i /\ q.seq = invs[i].seq + 1 /\ q.data.state = state
                   \/ \E r \in Events(queue, j) : r.seq = q.seq /\ r.data = q.data
<1> DEFINE n == invs[i].seq + 1
           snapshot == IF forced \/ (invs[i].mode = "standard" /\ point) THEN n ELSE 0
           e == [kind |-> "event", inv |-> i, sid |-> objects[invs[i].object].sid,
                 seq |-> n, snapshot |-> snapshot,
                 data |-> [state |-> state, life |-> life, point |-> snapshot # 0]]
           s == IF snapshot # 0 THEN Coalesce(i) ELSE queue
<1>1. /\ objects[invs[i].object].sid \in Invokers /\ invs[i].seq \in Nat
      /\ invs[i].state # "none" /\ state # "none"
      /\ \A j \in Invokers : j # i => invs'[j] = invs[j] /\ driver'[j] = driver[j]
      /\ invs'[i].seq = invs[i].seq + 1 /\ invs'[i].state = state
      /\ journal[i] = invs[i].seq
  <2>1. /\ objects[invs[i].object].sid \in Invokers /\ journal[i] = invs[i].seq
        /\ invs[i].seq \in Nat /\ invs[i].state # "none"
        /\ \A j \in Invokers : j # i => invs'[j] = invs[j] /\ driver'[j] = driver[j]
        /\ invs'[i].seq = invs[i].seq + 1 /\ invs'[i].state = state
    BY RecordCore
  <2>2. state # "none"
    BY StatesApart DEF States
  <2> QED
    BY <2>1, <2>2
<1>2. queue' = Append(s, e)
  BY DEF RecordEvent
<1>3. e \in Records /\ e.kind = "event" /\ e.inv = i /\ e.seq = n /\ e.data.state = state
  <2>1. n \in Nat \ {0} /\ snapshot \in Nat /\ (snapshot # 0) \in BOOLEAN
    BY <1>1
  <2>2. life \in Nat
    BY DEF FlowInv, FlowType
  <2> HIDE DEF n, snapshot
  <2>3. e.data \in Datum
    BY <2>1, <2>2 DEF Datum
  <2> QED
    BY <1>1, <2>1, <2>3 DEF Records, EventRecords
<1>4. n \in Nat /\ \A r \in FlowEvents(i) : r.seq < n /\ ~Over(r)
  <2>1. \A r \in FlowEvents(i) : r.seq <= invs[i].seq /\ ~Over(r)
    BY DEF FlowInv, Bounded, EndsLast
  <2>2. \A r \in FlowEvents(i) : r.seq \in Nat
    BY EventIs DEF FlowInv
  <2> QED
    BY <1>1, <2>1, <2>2
<1>5. \A r \in Range(batch) \cup Range(queue) : Precedes(r, e)
  <2> TAKE r \in Range(batch) \cup Range(queue)
  <2>1. r.inv = i /\ r.kind = "event" => r \in FlowEvents(i)
    BY DEF FlowEvents, Events
  <2> HIDE DEF e
  <2> QED
    BY <1>3, <1>4, <2>1 DEF Precedes
<1>6. durable[i] <= n /\ durable[i] < n
  <2>1. durable[i] # Absent => durable[i] <= invs[i].seq
    BY DEF FlowInv, Bounded
  <2>2. durable[i] \in Nat \cup {Absent}
    BY DEF FlowInv, FlowType
  <2> QED
    BY <1>1, <2>1, <2>2 DEF Absent
<1>7. s = Coalesce(i) \/ s = queue
  OBVIOUS
<1> HIDE DEF e, s
<1>8. /\ queue' \in Seq(Records) /\ FlowOrder'
      /\ \A j \in Invokers :
              /\ Entries(queue', j)
                   = Entries(queue, j) \cup {x \in {e} : e.kind = "admission" /\ e.inv = j}
              /\ \A q \in Events(queue', j) :
                   \/ q = e /\ e.inv = j /\ e.kind = "event"
                   \/ \E r \in Events(queue, j) : r.seq = q.seq /\ r.data = q.data
  <2>1. FlowType /\ FlowOrder
    BY DEF FlowInv
  <2> QED
    BY <1>2, <1>3, <1>5, <1>7, <2>1, QueueGrows
<1>9. \A j \in Invokers :
         /\ Entries(queue', j) = Entries(queue, j)
         /\ \A q \in Events(queue', j) :
              \/ j = i /\ q.seq = n /\ q.data.state = state
              \/ \E r \in Events(queue, j) : r.seq = q.seq /\ r.data = q.data
  BY <1>3, <1>8
<1> HIDE DEF n
<1>10. \A j \in Invokers :
        /\ \A q \in FlowEvents(j)' :
             \/ j = i /\ q.seq = n /\ q.data.state = state
             \/ \E r \in FlowEvents(j) : r.seq = q.seq /\ r.data = q.data
        /\ j # i /\ Events(queue, j) = {} => Events(queue', j) = {}
        /\ FlowEntries(j)' = FlowEntries(j)
  BY <1>9 DEF FlowEvents, FlowEntries
<1>11. FlowType'
  BY <1>8 DEF FlowInv, FlowType
<1>12. Bounded'
  <2>1. ASSUME NEW j \in Invokers
        PROVE  /\ \A r \in FlowEvents(j)' : r.seq <= invs'[j].seq /\ durable[j] < r.seq
               /\ FlowEntries(j)' # {} => durable[j] = Absent
               /\ durable[j] # Absent => durable[j] <= invs'[j].seq
    <3>1. CASE j = i
      <4>1. invs'[i].seq = n
        BY <1>1 DEF n
      <4>2. ASSUME NEW q \in FlowEvents(i)' PROVE q.seq <= n /\ durable[i] < q.seq
        <5>1. CASE q.seq = n
          BY <1>4, <1>6, <5>1
        <5>2. CASE \E r \in FlowEvents(i) : r.seq = q.seq
          BY <1>4, <5>2, EventIs DEF FlowInv, Bounded
        <5> QED
          BY <1>10, <4>2, <5>1, <5>2
      <4> QED
        BY <1>6, <1>10, <3>1, <4>1, <4>2 DEF FlowInv, Bounded
    <3>2. CASE j # i
      BY <1>1, <1>10, <3>2 DEF FlowInv, Bounded
    <3> QED
      BY <3>1, <3>2
  <2> QED
    BY <2>1 DEF Bounded
<1>13. Unborn'
  <2>1. ASSUME NEW j \in Invokers, j # i, invs[j].state = "none"
        PROVE  durable[j] = Absent /\ FlowEvents(j)' = {} /\ FlowEntries(j)' = {}
    <3>1. durable[j] = Absent /\ FlowEvents(j) = {} /\ FlowEntries(j) = {}
      BY <2>1 DEF FlowInv, Unborn
    <3> QED
      BY <1>10, <2>1, <3>1
  <2>2. pc'[i] \notin Early
    BY <1>1 DEF FlowInv, Unborn
  <2> QED
    BY <1>1, <2>1, <2>2 DEF FlowInv, Unborn
<1>14. EndsLast'
  <2>1. ASSUME NEW j \in Invokers
        PROVE  /\ \A r, q \in FlowEvents(j)' : Over(r) => q.seq <= r.seq
               /\ rows[j].state \in Ended =>
                    /\ Events(queue', j) = {}
                    /\ Events(batch, j) # {} => \E r \in Events(batch, j) : Over(r)
               /\ driver'[j] # "none" \/ invs'[j].state \in Unfinished =>
                    rows[j].state \notin Ended /\ \A r \in FlowEvents(j)' : ~Over(r)
    <3>1. CASE j = i
      <4>1. rows[i].state \notin Ended
        BY DEF FlowInv, EndsLast
      <4>2. ASSUME NEW r \in FlowEvents(i)', NEW q \in FlowEvents(i)', Over(r)
            PROVE  q.seq <= r.seq
        <5>1. r.seq = n /\ state \in Ended
          <6>1. CASE r.seq = n /\ r.data.state = state
            BY <4>2, <6>1 DEF Over
          <6>2. CASE \E p \in FlowEvents(i) : p.seq = r.seq /\ p.data = r.data
            BY <1>4, <4>2, <6>2 DEF Over
          <6> QED
            BY <1>10, <4>2, <6>1, <6>2
        <5>2. q.seq = n \/ \E p \in FlowEvents(i) : p.seq = q.seq
          BY <1>10, <4>2
        <5>3. \A p \in FlowEvents(i) : p.seq \in Nat
          BY EventIs DEF FlowInv
        <5> QED
          BY <1>4, <5>1, <5>2, <5>3
      <4>3. driver'[i] # "none" \/ state \in Unfinished =>
              \A r \in FlowEvents(i)' : ~Over(r)
        <5>1. driver'[i] # "none" \/ state \in Unfinished => state \notin Ended
          BY StatesApart
        <5> QED
          BY <1>4, <1>10, <5>1 DEF Over
      <4> QED
        BY <1>1, <3>1, <4>1, <4>2, <4>3
    <3>2. CASE j # i
      <4>1. \A q \in FlowEvents(j)' :
              \E r \in FlowEvents(j) : r.seq = q.seq /\ r.data = q.data
        BY <1>10, <3>2
      <4> QED
        BY <1>1, <1>10, <3>2, <4>1 DEF FlowInv, EndsLast, Over
    <3> QED
      BY <3>1, <3>2
  <2> QED
    BY <2>1 DEF FlowInv, EndsLast
<1> QED
  BY <1>8, <1>9, <1>11, <1>12, <1>13, <1>14 DEF FlowInv, n

(* Records move to the batch of a transaction.                             *)
LEMMA FlowTake ==
  ASSUME FlowInv, TakeBatch
  PROVE  /\ FlowInv'
         /\ \A i \in Invokers :
              /\ FlowEvents(i)' = FlowEvents(i) /\ FlowEntries(i)' = FlowEntries(i)
              /\ Events(queue, i) = Events(batch', i) \cup Events(queue', i)
              /\ Entries(queue, i) = Entries(batch', i) \cup Entries(queue', i)
         /\ Range(batch) = {}
<1>1. /\ batch = <<>>
      /\ UNCHANGED <<pc, invs, driver, durable, rows, life>>
  BY DEF TakeBatch, callVars, driverVars, tables
<1>2. PICK n \in 1 .. Min({Len(queue), BatchLimit}) :
        batch' = SubSeq(queue, 1, n) /\ queue' = SubSeq(queue, n + 1, Len(queue))
  BY DEF TakeBatch
<1>3. queue \in Seq(Records) /\ InOrder(queue)
  BY DEF FlowInv, FlowType, FlowOrder
<1>4. n \in 1 .. Len(queue)
  <2>1. Len(queue) \in Nat /\ BatchLimit \in Nat
    BY <1>3, SessionAssumption
  <2>2. \E x \in {Len(queue), BatchLimit} : \A y \in {Len(queue), BatchLimit} : x <= y
    BY <2>1
  <2>3. Min({Len(queue), BatchLimit}) \in {Len(queue), BatchLimit}
        /\ Min({Len(queue), BatchLimit}) <= Len(queue)
    BY <2>2 DEF Min
  <2> HIDE DEF Min
  <2> QED
    BY <2>1, <2>3
<1>5. /\ batch' \in Seq(Records) /\ queue' \in Seq(Records)
      /\ InOrder(batch') /\ InOrder(queue') /\ Range(queue) = Range(batch') \cup Range(queue')
      /\ \A r \in Range(batch'), q \in Range(queue') : Precedes(r, q)
  <2>1. Splits(queue, n, batch', queue')
    BY <1>2 DEF Splits
  <2> QED
    BY <1>3, <1>4, <2>1, SplitInOrder
<1>6. Range(batch) = {}
  BY <1>1 DEF Range
<1>7. ASSUME NEW i \in Invokers
      PROVE  /\ FlowEvents(i)' = FlowEvents(i) /\ FlowEntries(i)' = FlowEntries(i)
             /\ Events(queue, i) = Events(batch', i) \cup Events(queue', i)
             /\ Entries(queue, i) = Entries(batch', i) \cup Entries(queue', i)
             /\ FlowEvents(i) = Events(queue, i) /\ Events(batch, i) = {}
  BY <1>5, <1>6 DEF FlowEvents, FlowEntries, Events, Entries
<1>8. FlowType' /\ FlowOrder'
  BY <1>1, <1>5 DEF FlowInv, FlowType, FlowOrder
<1>9. Bounded' /\ Unborn'
  BY <1>1, <1>7 DEF FlowInv, Bounded, Unborn
<1>10. EndsLast'
  <2>1. \A i \in Invokers : rows[i].state \in Ended => Events(queue, i) = {}
    BY DEF FlowInv, EndsLast
  <2>2. \A i \in Invokers : rows[i].state \in Ended =>
          Events(queue', i) = {} /\ Events(batch', i) = {}
    BY <1>7, <2>1
  <2> QED
    BY <1>1, <1>7, <2>2 DEF FlowInv, EndsLast
<1> QED
  BY <1>6, <1>7, <1>8, <1>9, <1>10 DEF FlowInv

(* What a transaction makes of the rows: an Invocation that has ended in   *)
(* them stays so, and one that its last event ends has ended.              *)
LEMMA TablesKeep ==
  ASSUME FlowInv, ~Refused, NewTables, NEW i \in Invokers
  PROVE  /\ RowOk(rows'[i]) /\ rows'[i] = Persisted(i).row
         /\ Exists(rows[i]) \/ Entries(batch, i) # {} => Exists(rows'[i])
         /\ rows[i].state \in Ended => rows'[i].state \in Ended
         /\ \A r \in Events(batch, i) : Over(r) => rows'[i].state \in Ended
         /\ rows'[i].state \in Ended =>
              \/ rows[i].state \in Ended
              \/ \E r \in Events(batch, i) : Over(r)
         /\ rows'[i].state \in Unfinished =>
              \A n \in DOMAIN rows'[i].events : rows'[i].events[n].state \in Unfinished
         /\ Events(batch, i) = {} =>
              /\ rows'[i].state = rows[i].state /\ rows'[i].events = rows[i].events
              /\ rows'[i].durable = rows[i].durable
<1> DEFINE row == Persisted(i).row
<1>1. rows'[i] = row
  BY DEF NewTables
<1>2. FlowType /\ InOrder(batch) /\ batch \in Seq(Records) /\ Increasing(batch)
  BY OrderIncreases DEF FlowInv, FlowType, FlowOrder
<1>3. /\ RowOk(row)
      /\ Exists(rows[i]) \/ Entries(batch, i) # {} => Exists(row)
      /\ Events(batch, i) = {} =>
              /\ row.state = rows[i].state /\ row.events = rows[i].events
              /\ row.durable = rows[i].durable
      /\ Events(batch, i) # {} =>
              \E e \in Events(batch, i) :
                /\ \A r \in Events(batch, i) : r.seq <= e.seq
                /\ row.state = e.data.state
      /\ \A n \in DOMAIN rows[i].events : row.events[n] = rows[i].events[n]
      /\ \A n \in DOMAIN row.events \ DOMAIN rows[i].events :
              \E r \in Events(batch, i) : r.seq = n /\ row.events[n] = r.data
  BY <1>2, PersistedIs
<1> HIDE DEF row
<1>4. \A r \in Events(batch, i) : /\ r.seq \in Nat /\ r.data.state \in States
                                  /\ r \in FlowEvents(i)
  BY <1>2, EventIs DEF FlowEvents
<1>5. ASSUME NEW r \in Events(batch, i), Over(r) PROVE row.state \in Ended
  <2>1. PICK e \in Events(batch, i) : r.seq <= e.seq /\ row.state = e.data.state
    BY <1>3, <1>5
  <2>2. e.seq <= r.seq
    BY <1>4, <1>5 DEF FlowInv, EndsLast
  <2>3. r.seq = e.seq
    BY <1>4, <2>1, <2>2
  <2>4. r = e
    BY <1>2, <2>3, SameNumber
  <2> QED
    BY <1>5, <2>1, <2>4 DEF Over
<1>6. rows[i].state \in Ended => row.state \in Ended
  BY <1>3, <1>5 DEF FlowInv, EndsLast
<1>7. row.state \in Ended => rows[i].state \in Ended \/ \E r \in Events(batch, i) : Over(r)
  BY <1>3 DEF Over
<1>8. ASSUME row.state \in Unfinished, NEW n \in DOMAIN row.events
      PROVE  row.events[n].state \in Unfinished
  <2>1. row.state \notin Ended
    BY <1>8, StatesApart
  <2>2. CASE n \in DOMAIN rows[i].events
    <3>1. rows[i].state \in States
      BY <1>2 DEF FlowType, RowOk
    <3>2. rows[i].state \in Unfinished
      BY <1>6, <2>1, <3>1 DEF States
    <3> QED
      BY <1>3, <2>2, <3>2 DEF FlowInv, EndsLast
  <2>3. CASE n \notin DOMAIN rows[i].events
    <3>1. PICK r \in Events(batch, i) : row.events[n] = r.data
      BY <1>3, <1>8, <2>3
    <3>2. ~Over(r) /\ r.data.state \in States
      BY <1>4, <1>5, <2>1
    <3> QED
      BY <3>1, <3>2 DEF Over, States
  <2> QED
    BY <2>2, <2>3
<1> QED
  BY <1>1, <1>3, <1>5, <1>6, <1>7, <1>8 DEF row

(* The durable sequence after a transaction.                               *)
LEMMA DurableIs ==
  ASSUME FlowInv, StoreType, Commit, NEW i \in Invokers
  PROVE  /\ durable'[i] \in Nat \cup {Absent} /\ durable[i] <= durable'[i]
         /\ \A r \in Events(batch, i) : r.seq <= durable'[i]
         /\ \/ durable'[i] = durable[i]
            \/ durable'[i] = 0 /\ Entries(batch, i) # {}
            \/ \E r \in Events(batch, i) : durable'[i] = r.seq
         /\ Entries(batch, i) # {} => durable'[i] # Absent
<1> DEFINE S == {durable[i]} \cup {0 : r \in {a \in Admissions(batch) : a.inv = i}}
                  \cup {r.seq : r \in Range(EventsOf(batch, i))}
<1>1. durable'[i] = Max(S)
  BY DEF Commit
<1>2. S = {durable[i]} \cup {0 : r \in Entries(batch, i)} \cup {r.seq : r \in Events(batch, i)}
  <2>1. Range(EventsOf(batch, i)) = Events(batch, i)
    BY EventsOfIs DEF FlowInv, FlowType
  <2>2. {a \in Admissions(batch) : a.inv = i} = Entries(batch, i)
    BY DEF Admissions, Entries
  <2> QED
    BY <2>1, <2>2
<1>3. \A r \in Events(batch, i) : r.seq \in Nat /\ r.seq <= invs[i].seq
  BY EventIs DEF FlowInv, FlowEvents, Bounded
<1>4. invs[i].seq \in Nat /\ durable[i] \in Nat \cup {Absent}
      /\ (durable[i] # Absent => durable[i] <= invs[i].seq)
  BY DEF FlowInv, FlowType, StoreType, InvocationStates, Bounded
<1> HIDE DEF S
<1>5. S \in SUBSET Int /\ S # {} /\ \A x \in S : x <= invs[i].seq
  BY <1>2, <1>3, <1>4 DEF Absent
<1>6. Max(S) \in S /\ \A x \in S : x <= Max(S)
  <2> DEFINE b == invs[i].seq
  <2>1. b \in Int /\ \A x \in S : x <= b
    BY <1>4, <1>5
  <2> HIDE DEF b
  <2> QED
    BY <1>5, <2>1, MaxBounded
<1>7. durable'[i] \in Nat \cup {Absent}
  BY <1>1, <1>2, <1>3, <1>4, <1>6
<1>8. Entries(batch, i) # {} => 0 <= durable'[i]
  BY <1>1, <1>2, <1>6
<1>9. \A x \in S : x <= durable'[i]
  BY <1>1, <1>6
<1>10. durable'[i] \in S
  BY <1>1, <1>6
<1>11. durable[i] <= durable'[i] /\ \A r \in Events(batch, i) : r.seq <= durable'[i]
  BY <1>2, <1>9
<1>12. \/ durable'[i] = durable[i]
       \/ durable'[i] = 0 /\ Entries(batch, i) # {}
       \/ \E r \in Events(batch, i) : durable'[i] = r.seq
  BY <1>2, <1>10
<1> QED
  BY <1>7, <1>8, <1>11, <1>12 DEF Absent

(* A transaction that is committed, and heard of.                          *)
LEMMA FlowCommit ==
  ASSUME FlowInv, StoreType, Commit
  PROVE  /\ FlowInv' /\ Range(batch') = {} /\ queue' = queue
         /\ \A i \in Invokers :
              FlowEvents(i)' = Events(queue, i) /\ FlowEntries(i)' = Entries(queue, i)
<1>1. /\ ~Refused /\ NewTables /\ batch' = <<>>
      /\ UNCHANGED <<pc, invs, driver, queue, life>>
  BY DEF Commit, callVars, driverVars
<1>2. Range(batch') = {}
  BY <1>1 DEF Range
<1>3. ASSUME NEW i \in Invokers
      PROVE  /\ FlowEvents(i)' = Events(queue, i) /\ FlowEntries(i)' = Entries(queue, i)
             /\ FlowEvents(i)' \subseteq FlowEvents(i)
             /\ FlowEntries(i)' \subseteq FlowEntries(i)
  BY <1>1, <1>2 DEF FlowEvents, FlowEntries, Events, Entries
<1>4. \A i \in Invokers : \A q \in Events(queue, i), r \in Events(batch, i) : r.seq < q.seq
  BY DEF FlowInv, FlowOrder, Precedes, Events
<1>5. \A i \in Invokers :
        Entries(queue, i) # {} => Entries(batch, i) = {} /\ Events(batch, i) = {}
  <2>1. \A i \in Invokers : \A q \in Entries(queue, i) : q.kind # "event"
    BY DEF Entries
  <2> QED
    BY <2>1 DEF FlowInv, FlowOrder, Precedes, Events, Entries
<1>6. FlowType'
  <2>1. durable' \in [Invokers -> Nat \cup {Absent}]
    <3>1. durable' = [i \in Invokers |-> durable'[i]]
      BY DEF Commit
    <3> QED
      BY <3>1, DurableIs
  <2>2. rows' = [i \in Invokers |-> rows'[i]] /\ \A i \in Invokers : RowOk(rows'[i])
    <3>1. rows' = [i \in Invokers |-> rows'[i]]
      BY <1>1 DEF NewTables
    <3> QED
      BY <1>1, <3>1, TablesKeep
  <2>3. batch' \in Seq(Records)
    BY <1>1
  <2> QED
    BY <1>1, <2>1, <2>2, <2>3 DEF FlowInv, FlowType
<1>7. FlowOrder'
  BY <1>1, <1>2 DEF FlowInv, FlowOrder, InOrder
<1>8. Bounded'
  <2>1. ASSUME NEW i \in Invokers
        PROVE  /\ \A r \in FlowEvents(i)' : r.seq <= invs[i].seq /\ durable'[i] < r.seq
               /\ FlowEntries(i)' # {} => durable'[i] = Absent
               /\ durable'[i] # Absent => durable'[i] <= invs[i].seq
    <3>1. invs[i].seq \in Nat
      BY DEF StoreType, InvocationStates
    <3>2. ASSUME NEW r \in FlowEvents(i)' PROVE r.seq <= invs[i].seq /\ durable'[i] < r.seq
      <4>1. r \in FlowEvents(i) /\ r \in Events(queue, i)
        BY <1>3, <3>2
      <4>2. r.seq \in Nat /\ r.seq > 0 /\ r.seq <= invs[i].seq /\ durable[i] < r.seq
        BY <4>1, EventIs DEF FlowInv, Bounded
      <4> QED
        BY <1>4, <4>1, <4>2, DurableIs
    <3>3. FlowEntries(i)' # {} => durable'[i] = Absent
      <4>1. FlowEntries(i)' # {} => durable[i] = Absent
        BY <1>3 DEF FlowInv, Bounded
      <4> QED
        BY <1>3, <1>5, <4>1, DurableIs
    <3>4. durable'[i] # Absent => durable'[i] <= invs[i].seq
      <4>1. \A r \in Events(batch, i) : r.seq <= invs[i].seq
        BY DEF FlowInv, Bounded, FlowEvents
      <4> QED
        BY <3>1, <4>1, DurableIs DEF FlowInv, Bounded
    <3> QED
      BY <3>2, <3>3, <3>4
  <2> QED
    BY <1>1, <2>1 DEF Bounded
<1>9. Unborn'
  <2>1. ASSUME NEW i \in Invokers, invs[i].state = "none"
        PROVE  /\ durable'[i] = Absent /\ FlowEvents(i)' = {} /\ FlowEntries(i)' = {}
               /\ rows'[i].state = rows[i].state /\ rows'[i].events = rows[i].events
    <3>1. durable[i] = Absent /\ FlowEvents(i) = {} /\ FlowEntries(i) = {}
      BY <2>1 DEF FlowInv, Unborn
    <3>2. Events(batch, i) = {} /\ Entries(batch, i) = {}
      BY <3>1 DEF FlowEvents, FlowEntries
    <3>3. durable'[i] = durable[i]
      BY <3>2, DurableIs
    <3>4. rows'[i].state = rows[i].state /\ rows'[i].events = rows[i].events
      BY <1>1, <3>2, TablesKeep
    <3> QED
      BY <1>3, <3>1, <3>3, <3>4
  <2> QED
    BY <1>1, <2>1 DEF FlowInv, Unborn
<1>10. EndsLast'
  <2>1. ASSUME NEW i \in Invokers
        PROVE  /\ \A r, q \in FlowEvents(i)' : Over(r) => q.seq <= r.seq
               /\ rows'[i].state \in Ended => Events(queue, i) = {}
               /\ rows'[i].state \in Unfinished =>
                    \A n \in DOMAIN rows'[i].events : rows'[i].events[n].state \in Unfinished
               /\ driver[i] # "none" \/ invs[i].state \in Unfinished =>
                    rows'[i].state \notin Ended /\ \A r \in FlowEvents(i)' : ~Over(r)
    <3>1. \A r, q \in FlowEvents(i)' : Over(r) => q.seq <= r.seq
      BY <1>3 DEF FlowInv, EndsLast
    <3>2. ASSUME rows'[i].state \in Ended, NEW q \in Events(queue, i) PROVE FALSE
      <4>1. rows[i].state \notin Ended
        BY <3>2 DEF FlowInv, EndsLast
      <4>2. PICK r \in Events(batch, i) : Over(r)
        BY <1>1, <3>2, <4>1, TablesKeep
      <4>3. r \in FlowEvents(i) /\ q \in FlowEvents(i) /\ r.seq \in Nat /\ q.seq \in Nat
        BY EventIs DEF FlowEvents, FlowInv
      <4>4. q.seq <= r.seq
        BY <4>2, <4>3 DEF FlowInv, EndsLast
      <4> QED
        BY <1>4, <4>3, <4>4
    <3>3. rows'[i].state \in Unfinished =>
             \A n \in DOMAIN rows'[i].events : rows'[i].events[n].state \in Unfinished
      BY <1>1, TablesKeep
    <3>4. ASSUME driver[i] # "none" \/ invs[i].state \in Unfinished
          PROVE  rows'[i].state \notin Ended /\ \A r \in FlowEvents(i)' : ~Over(r)
      <4>1. rows[i].state \notin Ended /\ \A r \in FlowEvents(i) : ~Over(r)
        BY <3>4 DEF FlowInv, EndsLast
      <4>2. rows'[i].state \notin Ended
        BY <1>1, <4>1, TablesKeep DEF FlowEvents
      <4> QED
        BY <1>3, <4>1, <4>2
    <3> QED
      BY <3>1, <3>2, <3>3, <3>4
  <2>2. \A i \in Invokers : Events(batch', i) = {}
    BY <1>2 DEF Events
  <2> QED
    BY <1>1, <2>1, <2>2 DEF EndsLast
<1> QED
  BY <1>1, <1>2, <1>3, <1>6, <1>7, <1>8, <1>9, <1>10 DEF FlowInv

(* A transaction that is rolled back, or committed and not heard of.       *)
LEMMA FlowCommitFails ==
  ASSUME FlowInv, CommitFails
  PROVE  /\ FlowInv' /\ batch' = batch /\ queue' = queue
         /\ \A i \in Invokers :
              FlowEvents(i)' = FlowEvents(i) /\ FlowEntries(i)' = FlowEntries(i)
<1>1. /\ ~Refused /\ UNCHANGED <<pc, invs, driver, queue, batch, durable, life>>
      /\ NewTables \/ UNCHANGED rows
  BY DEF CommitFails, callVars, driverVars, writerVars, tables
<1>2. \A i \in Invokers :
        FlowEvents(i)' = FlowEvents(i) /\ FlowEntries(i)' = FlowEntries(i)
  BY <1>1 DEF FlowEvents, FlowEntries
<1>3. CASE UNCHANGED rows
  <2>1. \A i \in Invokers : pc'[i] \in Early => pc[i] \in Early
    BY <1>1
  <2> QED
    BY <1>1, <1>2, <1>3, <2>1, FlowFrame
<1>4. CASE NewTables
  <2>1. FlowType' /\ FlowOrder'
    <3>1. rows' = [i \in Invokers |-> rows'[i]]
      BY <1>4 DEF NewTables
    <3>2. \A i \in Invokers : RowOk(rows'[i])
      BY <1>1, <1>4, TablesKeep
    <3> QED
      BY <1>1, <3>1, <3>2 DEF FlowInv, FlowType, FlowOrder
  <2>2. Bounded'
    BY <1>1, <1>2 DEF FlowInv, Bounded
  <2>3. Unborn'
    <3>1. ASSUME NEW i \in Invokers, invs[i].state = "none"
          PROVE  rows'[i].state = rows[i].state /\ rows'[i].events = rows[i].events
      <4>1. Events(batch, i) = {}
        BY <3>1 DEF FlowInv, Unborn, FlowEvents
      <4> QED
        BY <1>1, <1>4, <4>1, TablesKeep
    <3> QED
      BY <1>1, <1>2, <3>1 DEF FlowInv, Unborn
  <2>4. EndsLast'
    <3>1. ASSUME NEW i \in Invokers
          PROVE  /\ rows'[i].state \in Ended =>
                      /\ Events(queue, i) = {}
                      /\ Events(batch, i) # {} => \E r \in Events(batch, i) : Over(r)
                 /\ rows'[i].state \in Unfinished =>
                      \A n \in DOMAIN rows'[i].events :
                        rows'[i].events[n].state \in Unfinished
                 /\ driver[i] # "none" \/ invs[i].state \in Unfinished =>
                      rows'[i].state \notin Ended
      <4>1. ASSUME rows'[i].state \in Ended, NEW q \in Events(queue, i) PROVE FALSE
        <5>1. rows[i].state \notin Ended
          BY <4>1 DEF FlowInv, EndsLast
        <5>2. PICK r \in Events(batch, i) : Over(r)
          BY <1>1, <1>4, <4>1, <5>1, TablesKeep
        <5>3. r \in FlowEvents(i) /\ q \in FlowEvents(i) /\ r.seq \in Nat /\ q.seq \in Nat
          BY EventIs DEF FlowEvents, FlowInv
        <5>4. q.seq <= r.seq
          BY <5>2, <5>3 DEF FlowInv, EndsLast
        <5>5. r.seq < q.seq
          BY DEF FlowInv, FlowOrder, Precedes, Events
        <5> QED
          BY <5>3, <5>4, <5>5
      <4>2. rows'[i].state \in Ended /\ Events(batch, i) # {} =>
              \E r \in Events(batch, i) : Over(r)
        BY <1>1, <1>4, TablesKeep DEF FlowInv, EndsLast
      <4>3. rows'[i].state \in Unfinished =>
              \A n \in DOMAIN rows'[i].events : rows'[i].events[n].state \in Unfinished
        BY <1>1, <1>4, TablesKeep
      <4>4. driver[i] # "none" \/ invs[i].state \in Unfinished => rows'[i].state \notin Ended
        <5>1. driver[i] # "none" \/ invs[i].state \in Unfinished =>
                rows[i].state \notin Ended /\ \A r \in FlowEvents(i) : ~Over(r)
          BY DEF FlowInv, EndsLast
        <5> QED
          BY <1>1, <1>4, <5>1, TablesKeep DEF FlowEvents
      <4> QED
        BY <4>1, <4>2, <4>3, <4>4
    <3> QED
      BY <1>1, <1>2, <3>1 DEF FlowInv, EndsLast
  <2> QED
    BY <1>1, <1>2, <2>1, <2>2, <2>3, <2>4 DEF FlowInv
<1> QED
  BY <1>1, <1>3, <1>4

(* Persistence is given up.                                                *)
LEMMA FlowHalt ==
  ASSUME FlowInv, Halt
  PROVE  /\ FlowInv'
         /\ \A i \in Invokers : FlowEvents(i)' \subseteq FlowEvents(i)
<1>1. /\ batch' = <<>> /\ UNCHANGED <<pc, invs, driver, queue, durable, rows, life>>
  BY DEF Halt, callVars, driverVars, tables
<1>2. Range(batch') = {}
  BY <1>1 DEF Range
<1>3. \A i \in Invokers :
        /\ FlowEvents(i)' \subseteq FlowEvents(i) /\ FlowEntries(i)' \subseteq FlowEntries(i)
        /\ Events(batch', i) = {}
  BY <1>1, <1>2 DEF FlowEvents, FlowEntries, Events, Entries
<1>4. FlowType' /\ FlowOrder'
  BY <1>1, <1>2 DEF FlowInv, FlowType, FlowOrder, InOrder
<1>5. Bounded'
  BY <1>1, <1>3 DEF FlowInv, Bounded
<1>6. Unborn'
  BY <1>1, <1>3 DEF FlowInv, Unborn
<1>7. EndsLast'
  BY <1>1, <1>3 DEF FlowInv, EndsLast
<1> QED
  BY <1>3, <1>4, <1>5, <1>6, <1>7 DEF FlowInv

-----------------------------------------------------------------------------
(* The calls, what has ended, and what the tables take.                    *)
Waits ==
  \A c \in Calls :
    /\ pc[c] = "admitting" => c \in Invokers /\ found[c] \in Invokers
    /\ pc[c] \in {"reading", "loaded"} => sessionRow.sid # None
SessionRows == [sid : Invokers \cup {None}, current : Invokers \cup {None}]

CallInv ==
  /\ scenario \in Scenarios /\ pc \in [Calls -> Places]
  /\ found \in [Calls -> Invokers \cup {None}] /\ sessionRow \in SessionRows
  /\ Waits

(* An Invocation is recorded as ended before its last event is durable;    *)
(* unless the writer comes between an end and its record, retention lets   *)
(* go only of what the rows have as ended.                                 *)
Slow == "slow end" \in scenario.risks
Recorded ==
  \A i \in Invokers :
    invs[i].state \in Ended /\ driver[i] = "none" /\ Held(i) =>
      /\ durable[i] >= invs[i].seq => rows[i].state \in Ended
      /\ \A r \in FlowEvents(i) : r.seq = invs[i].seq => Over(r)
Retention ==
  ~Slow => /\ RetainedUntilDurable
           /\ \A i \in Range(lru) : rows[i].state \in Ended
           /\ \A i \in Invokers : driver[i] = "ending" => Held(i)
Settled ==
  /\ \A i \in Range(lru) : durable[i] # Absent
  /\ \A i \in Invokers : Exists(rows[i]) \/ durable[i] # Absent => sessionRow.sid # None

(* The Session's row leads to an Invocation that has ended or is known to  *)
(* this process.                                                           *)
Current ==
  /\ sessionRow.sid # None <=> sessionRow.current # None
  /\ \A i \in Invokers : sessionRow.current = i =>
       Exists(rows[i]) /\ (rows[i].state \in Ended \/ invs[i].state # "none")
NoOrphan == ~Slow /\ ~Overtaken /\ ~Replaced => \A c \in Calls : pc[c] # "orphan"

EndInv == Recorded /\ Retention /\ Settled /\ Current /\ NoOrphan

(* Until the key has a second Session: everything agrees on the id; it     *)
(* stays in memory until it has a row; a row comes before its events; and  *)
(* an event that the tables have is the same one.                          *)
KeyIs(k) ==
  /\ keyed \in {None, k} /\ sessionRow.sid \in {None, k}
  /\ \A o \in Holders : objects[o].sid \in {None, k}
  /\ \A c \in Calls : found[c] \in {None, k}
  /\ \A i \in Invokers : \A r \in FlowEntries(i) : r.sid = k
OneKey == \E k \in Holders : KeyIs(k)
Begun ==
  ~InMemory /\ sessionRow.sid = None =>
    /\ \A o \in Holders : objects[o].sid = None
    /\ \A c \in Calls : found[c] = None
RowFirst ==
  \A i \in Invokers :
    /\ Held(i) => Exists(rows[i]) \/ FlowEntries(i) # {}
    /\ Events(batch, i) # {} => Exists(rows[i]) \/ Entries(batch, i) # {}
    /\ Events(queue, i) # {} => Exists(rows[i]) \/ FlowEntries(i) # {}
SameEvents ==
  \A i \in Invokers :
    /\ invs[i].state # "none" => rows[i].durable <= invs[i].seq
    /\ pc[i] \in Early => rows[i].durable = 0
    /\ \A r \in Events(queue, i) : r.seq \notin DOMAIN rows[i].events
    /\ \A r \in Events(batch, i) :
         r.seq \in DOMAIN rows[i].events => rows[i].events[r.seq] = r.data
TablesInv == Doubled \/ (available /\ OneKey /\ Begun /\ RowFirst /\ SameEvents)

SInv ==
  CoreInv /\ (Replaced \/ StoreInv) /\ CallInv /\ FlowInv /\ EndInv /\ TablesInv

LEMMA CallFrame ==
  ASSUME CallInv, scenario' = scenario, pc' \in [Calls -> Places],
         found' \in [Calls -> Invokers \cup {None}], sessionRow' \in SessionRows,
         sessionRow.sid # None => sessionRow'.sid # None,
         \A c \in Calls :
           /\ pc'[c] \in {"reading", "loaded"} =>
                pc[c] \in {"reading", "loaded"} \/ sessionRow'.sid # None
           /\ pc'[c] = "admitting" => c \in Invokers /\ found'[c] \in Invokers
  PROVE  CallInv'
BY DEF CallInv, Waits

(* What has gone wrong once has gone wrong.                                *)
LEMMA LapsesStay ==
  ASSUME lapses \subseteq lapses'
  PROVE  /\ Replaced => Replaced'
         /\ Doubled => Doubled'
         /\ Overtaken => Overtaken'
BY DEF Replaced, Doubled, Overtaken

(* The Session of the key stays the same one.                              *)
LEMMA KeyStays ==
  ASSUME OneKey, Begun, UNCHANGED <<queue, batch, sessionRow>>, keyed' \in {None, keyed},
         InMemory => InMemory' \/ sessionRow.sid # None,
         \A o \in Holders : objects'[o].sid = objects[o].sid,
         \A c \in Calls : found'[c] \in {None, found[c]} \/ (found'[c] = keyed /\ InMemory)
  PROVE  OneKey' /\ Begun'
<1>1. PICK k \in Holders : KeyIs(k)
  BY DEF OneKey
<1>2. \A i \in Invokers : FlowEntries(i)' = FlowEntries(i)
  BY DEF FlowEntries
<1>3. KeyIs(k)'
  BY <1>1, <1>2 DEF KeyIs
<1>4. Begun'
  BY DEF Begun
<1> QED
  BY <1>3, <1>4 DEF OneKey

(* Steps that concern neither records nor rows, nor what is held.          *)
LEMMA QuietStep ==
  ASSUME SInv, CoreInv', Replaced' \/ StoreInv', CallInv', lapses \subseteq lapses',
         UNCHANGED <<scenario, lru, journal, queue, batch, durable, available, rows,
                     sessionRow, life>>,
         \A i \in Invokers :
           /\ invs'[i].seq = invs[i].seq
           /\ invs'[i].state = "none" <=> invs[i].state = "none"
           /\ driver'[i] # "none" \/ invs'[i].state \in Unfinished =>
                driver[i] # "none" \/ invs[i].state \in Unfinished
           /\ invs'[i].state \in Ended /\ driver'[i] = "none" /\ Held(i) =>
                invs[i].state \in Ended /\ driver[i] = "none"
           /\ driver'[i] = "ending" => driver[i] = "ending" \/ Held(i),
         \A c \in Calls :
           /\ pc'[c] \in Early => pc[c] \in Early
           /\ pc'[c] = "orphan" => pc[c] = "orphan" \/ Slow \/ Overtaken' \/ Replaced',
         ~Doubled' /\ OneKey /\ Begun => OneKey' /\ Begun'
  PROVE  SInv'
<1>0. CallInv /\ FlowInv /\ EndInv /\ TablesInv
  BY DEF SInv
<1>1. Invokers \subseteq Calls
  BY DEF Calls
<1>2. FlowInv'
  BY <1>0, <1>1, FlowFrame
<1>3. /\ \A i \in Invokers : /\ FlowEvents(i)' = FlowEvents(i)
                             /\ FlowEntries(i)' = FlowEntries(i)
                             /\ Held(i)' <=> Held(i)
      /\ Slow' <=> Slow
  BY DEF FlowEvents, FlowEntries, Held, Slow
<1>4. Recorded'
  BY <1>0, <1>3 DEF EndInv, Recorded
<1>5. Retention' /\ Settled'
  BY <1>0, <1>3 DEF EndInv, Retention, Settled, RetainedUntilDurable
<1>6. Current' /\ NoOrphan'
  BY <1>0, <1>3, LapsesStay DEF EndInv, Current, NoOrphan
<1>7. ASSUME ~Doubled' PROVE available' /\ OneKey' /\ Begun' /\ RowFirst' /\ SameEvents'
  <2>1. available /\ OneKey /\ Begun /\ RowFirst /\ SameEvents
    BY <1>0, <1>7, LapsesStay DEF TablesInv
  <2>2. RowFirst' /\ SameEvents' /\ available'
    BY <1>1, <1>3, <2>1 DEF RowFirst, SameEvents
  <2> QED
    BY <1>7, <2>1, <2>2
<1> QED
  BY <1>0, <1>2, <1>4, <1>5, <1>6, <1>7 DEF SInv, EndInv, TablesInv

-----------------------------------------------------------------------------
(* Every step keeps the invariant.                                         *)

(* A step that only moves a call.                                          *)
LEMMA CallOnly ==
  ASSUME SInv, NEW c \in Calls, NEW w \in Places, Goes(c, w), lapses \subseteq lapses',
         UNCHANGED <<objects, sessions, keyed, driverVars>>, OnlyCalls,
         found' \in [Calls -> Invokers \cup {None}],
         \A d \in Calls \ {c} : found'[d] = found[d],
         found'[c] \in {None, found[c]} \/ (found'[c] = keyed /\ InMemory),
         w = "admitting" => c \in Invokers /\ found'[c] \in Invokers,
         w \in Early => pc[c] \in Early,
         w \in {"reading", "loaded"} => sessionRow.sid # None,
         w = "orphan" => Slow \/ Overtaken' \/ Replaced'
  PROVE  SInv'
<1>1. /\ UNCHANGED <<invs, driver, journal, recovering, scenario, lru, queue, batch, advanced,
                     durable, available, rows, sessionRow, caches, life>>
      /\ pc' = [pc EXCEPT ![c] = w]
  BY DEF driverVars, OnlyCalls, writerVars, tables, Goes
<1>2. CoreInv' /\ (Replaced' \/ StoreInv') /\ InMemory' = InMemory
  BY <1>1, StoreFrame, LapsesStay DEF SInv, memory
<1>3. pc \in [Calls -> Places] /\ CallInv
  BY DEF SInv, CallInv
<1>4. pc' \in [Calls -> Places] /\ \A d \in Calls : pc'[d] = IF d = c THEN w ELSE pc[d]
  BY <1>1, <1>3
<1>5. Waits'
  BY <1>1, <1>3, <1>4 DEF CallInv, Waits
<1>6. CallInv'
  BY <1>1, <1>3, <1>4, <1>5 DEF CallInv
<1>7. \A d \in Calls :
           /\ pc'[d] \in Early => pc[d] \in Early
           /\ pc'[d] = "orphan" => pc[d] = "orphan" \/ Slow \/ Overtaken' \/ Replaced'
  BY <1>4
<1>8. OneKey /\ Begun => OneKey' /\ Begun'
  <2>1. \A d \in Calls : found'[d] \in {None, found[d]} \/ (found'[d] = keyed /\ InMemory)
    OBVIOUS
  <2> QED
    BY <1>1, <1>2, <2>1, KeyStays
<1> QED
  BY <1>1, <1>2, <1>6, <1>7, <1>8, QuietStep

(* The call is told that an active Invocation was not loaded: never, when  *)
(* no other call came in between.                                          *)
LEMMA OrphanIsOvertaken ==
  ASSUME SInv, NEW c \in Calls, LookupInvocation(c), pc'[c] = "orphan"
  PROVE  Slow \/ Overtaken' \/ Replaced'
<1> DEFINE i == sessionRow.current
           active == rows[i].state \in Unfinished
<1>1. /\ pc[c] = "reading" /\ pc' = [pc EXCEPT ![c] = IF active THEN "orphan" ELSE "loaded"]
      /\ lapses' = IF active /\ InMemory THEN lapses \cup {"overtaken"} ELSE lapses
  BY DEF LookupInvocation, OnlyGoes, Goes, Lapse
<1>2. active
  BY <1>1 DEF SInv, CallInv
<1>3. SUFFICES ASSUME ~Slow, ~Replaced PROVE InMemory
  BY <1>1, <1>2 DEF Overtaken, Replaced
<1>4. sessionRow.sid # None
  BY <1>1 DEF SInv, CallInv, Waits
<1>5. Current /\ RetainedUntilDurable /\ StoreInv /\ i \in Invokers \cup {None}
  BY <1>3 DEF SInv, EndInv, Retention, CallInv, SessionRows
<1>6. i \in Invokers /\ rows[i].state \notin Ended
  BY <1>2, <1>4, <1>5, StatesApart DEF Current
<1>7. invs[i].state # "none"
  BY <1>5, <1>6 DEF Current
<1>8. Held(i)
  BY <1>5, <1>6, <1>7 DEF RetainedUntilDurable, Held
<1> QED
  BY <1>5, <1>6, <1>8 DEF StoreInv, Journals

LEMMA LookupSteps ==
  ASSUME SInv, NEW c \in Calls, BeginLookup(c) \/ LookupSession(c) \/ LookupInvocation(c)
  PROVE  SInv'
<1>1. found \in [Calls -> Invokers \cup {None}] /\ CallInv
  BY DEF SInv, CallInv
<1>2. ASSUME NEW w \in {"looking", "missed", "reading", "loaded", "orphan"}, OnlyGoes(c, w),
             lapses \subseteq lapses', pc[c] \in Early,
             w \in {"reading", "loaded"} => sessionRow.sid # None,
             w = "orphan" => Slow \/ Overtaken' \/ Replaced'
      PROVE  SInv'
  <2>1. Goes(c, w) /\ UNCHANGED <<objects, sessions, keyed, driverVars>> /\ OnlyCalls
        /\ found' = found
    BY <1>2 DEF OnlyGoes
  <2>2. w \in Places /\ w # "admitting"
    BY DEF Places, Early
  <2> QED
    BY <1>1, <1>2, <2>1, <2>2, CallOnly
<1>3. CASE BeginLookup(c)
  BY <1>2, <1>3 DEF BeginLookup, Ready, Early
<1>4. CASE LookupSession(c)
  BY <1>2, <1>4 DEF LookupSession, Early
<1>5. CASE LookupInvocation(c)
  <2>1. PICK w \in {"orphan", "loaded"} : OnlyGoes(c, w) /\ pc[c] = "reading"
    BY <1>5 DEF LookupInvocation
  <2>2. lapses \subseteq lapses' /\ pc[c] \in Early
    BY <1>5, <2>1 DEF LookupInvocation, Lapse, Early
  <2>3. sessionRow.sid # None
    BY <1>1, <2>1 DEF CallInv, Waits
  <2>4. w = "orphan" => Slow \/ Overtaken' \/ Replaced'
    <3>1. pc'[c] = w
      BY <1>1, <2>1 DEF OnlyGoes, Goes, CallInv
    <3> QED
      BY <1>5, <3>1, OrphanIsOvertaken
  <2> QED
    BY <1>2, <2>1, <2>2, <2>3, <2>4
<1> QED
  BY <1>3, <1>4, <1>5

LEMMA VerdictIs ==
  ASSUME NEW c \in Calls, NEW object
  PROVE  /\ Verdict(c, object) \in {"busy", "admitting", "failed", "running"}
         /\ Verdict(c, object) = "admitting" => c \in Invokers
         /\ c \in Invokers => Verdict(c, object) \in {"busy", "admitting"}
<1>2. c \in Resumers => c \notin Invokers
  BY SessionAssumption
<1> QED
  BY <1>2 DEF Verdict

(* A call finds the Session in memory.                                     *)
LEMMA FoundStep ==
  ASSUME SInv, NEW c \in Calls, pc[c] \in Early, InMemory,
         NEW w \in {"busy", "admitting", "failed"}, w = "admitting" => c \in Invokers,
         Goes(c, w), found' = [found EXCEPT ![c] = IF w = "admitting" THEN keyed ELSE None],
         UNCHANGED <<objects, sessions, keyed, driverVars, lapses>>, OnlyCalls
  PROVE  SInv'
<1>1. keyed \in Invokers /\ found \in [Calls -> Invokers \cup {None}]
  BY DEF SInv, CoreInv, StoreType, InMemory, CallInv
<1>2. /\ found' \in [Calls -> Invokers \cup {None}]
      /\ \A d \in Calls \ {c} : found'[d] = found[d]
      /\ w = "admitting" => found'[c] \in Invokers
      /\ found'[c] \in {None, found[c]} \/ (found'[c] = keyed /\ InMemory)
  BY <1>1
<1>3. w \in Places /\ w \notin {"reading", "loaded"} /\ w # "orphan"
  BY DEF Places, Early
<1> QED
  BY <1>2, <1>3, CallOnly

LEMMA FindStep ==
  ASSUME SInv, NEW c \in Calls, FindInMemory(c)
  PROVE  SInv'
<1> DEFINE w == Verdict(c, sessions[keyed])
<1>1. /\ pc[c] = "idle" /\ InMemory /\ w # "running" /\ Goes(c, w)
      /\ found' = [found EXCEPT ![c] = IF w = "admitting" THEN keyed ELSE None]
      /\ UNCHANGED <<objects, sessions, keyed, driverVars, lapses>> /\ OnlyCalls
  BY DEF FindInMemory, Ready
<1>2. w \in {"busy", "admitting", "failed"} /\ (w = "admitting" => c \in Invokers)
  BY <1>1, VerdictIs
<1> HIDE DEF w
<1>3. pc[c] \in Early
  BY <1>1 DEF Early
<1> QED
  BY <1>1, <1>2, <1>3, FoundStep

(* A call caches the Session that it loaded or created.                    *)
LEMMA CacheStep ==
  ASSUME SInv, NEW c \in Calls, pc[c] \in {"loaded", "missed"}, NEW sid \in Invokers,
         CacheSession(c, sid),
         sessionRow.sid = sid \/ (~InMemory /\ sessionRow.sid = None) \/ Doubled',
         InMemory => Replaced', lapses \subseteq lapses',
         NEW w \in {"admitting", "failed"}, w = "admitting" => c \in Invokers, Goes(c, w),
         UNCHANGED driverVars, OnlyCalls
  PROVE  SInv'
<1>1. /\ UNCHANGED <<invs, driver, journal, recovering, scenario, lru, queue, batch, advanced,
                     durable, available, rows, sessionRow, caches, life>>
      /\ pc' = [pc EXCEPT ![c] = w]
      /\ found' = [found EXCEPT ![c] = IF c \in Invokers THEN sid ELSE None] /\ keyed' = sid
  BY DEF driverVars, OnlyCalls, writerVars, tables, Goes, CacheSession
<1>2. CallInv /\ CoreInv /\ (Replaced \/ StoreInv)
  BY DEF SInv
<1>3. /\ CoreInv' /\ (StoreInv /\ ~InMemory => StoreInv') /\ InMemory'
      /\ \A o \in Holders : o # c => objects'[o] = objects[o]
      /\ objects'[c].sid = sid
  BY <1>1, <1>2, CacheKeeps
<1>4. Replaced' \/ StoreInv'
  BY <1>2, <1>3, LapsesStay
<1>5. /\ pc' \in [Calls -> Places] /\ \A d \in Calls : pc'[d] = IF d = c THEN w ELSE pc[d]
      /\ found' \in [Calls -> Invokers \cup {None}]
      /\ \A d \in Calls \ {c} : found'[d] = found[d]
      /\ found'[c] \in {sid, None}
      /\ w = "admitting" => found'[c] \in Invokers
  <2>1. w \in Places
    BY DEF Places, Early
  <2> QED
    BY <1>1, <1>2, <2>1 DEF CallInv
<1>6. Waits'
  BY <1>1, <1>2, <1>5 DEF CallInv, Waits
<1>7. CallInv'
  BY <1>1, <1>2, <1>5, <1>6 DEF CallInv
<1>8. \A d \in Calls :
           /\ pc'[d] \in Early => pc[d] \in Early
           /\ pc'[d] = "orphan" => pc[d] = "orphan" \/ Slow \/ Overtaken' \/ Replaced'
  BY <1>5 DEF Early
<1>9. ASSUME ~Doubled', OneKey, Begun PROVE OneKey' /\ Begun'
  <2>1. sid \in Holders /\ sid # None /\ c \in Holders
    BY SessionAssumption DEF Holders, Calls
  <2>2. \A i \in Invokers : FlowEntries(i)' = FlowEntries(i)
    BY <1>1 DEF FlowEntries
  <2>3. /\ sessionRow.sid \in {None, sid}
        /\ \A o \in Holders : objects[o].sid \in {None, sid}
        /\ \A d \in Calls : found[d] \in {None, sid}
        /\ \A i \in Invokers : \A r \in FlowEntries(i) : r.sid = sid
    <3>1. CASE sessionRow.sid = sid
      BY <1>9, <2>1, <3>1 DEF OneKey, KeyIs
    <3>2. CASE ~InMemory /\ sessionRow.sid = None
      <4>1. /\ \A o \in Holders : objects[o].sid = None
            /\ \A d \in Calls : found[d] = None
        BY <1>9, <3>2 DEF Begun
      <4>2. ASSUME NEW i \in Invokers PROVE FlowEntries(i) = {}
        <5>1. invs[i].state = "none"
          BY <1>2, <4>1, SessionAssumption DEF CoreInv, Placed
        <5> QED
          BY <5>1 DEF SInv, FlowInv, Unborn
      <4> QED
        BY <3>2, <4>1, <4>2
    <3> QED
      BY <1>9, <3>1, <3>2
  <2>4. KeyIs(sid)'
    BY <1>1, <1>3, <1>5, <2>2, <2>3 DEF KeyIs
  <2> QED
    BY <1>3, <2>1, <2>4 DEF OneKey, Begun
<1> QED
  BY <1>1, <1>3, <1>4, <1>7, <1>8, <1>9, QuietStep

LEMMA ReturnsStep ==
  ASSUME SInv, NEW c \in Calls, LookupReturns(c)
  PROVE  SInv'
<1>1. UNCHANGED driverVars /\ OnlyCalls /\ CallInv
  BY DEF LookupReturns, SInv
<1>2. CASE pc[c] = "loaded"
  <2>1. /\ CacheSession(c, sessionRow.sid)
        /\ Goes(c, IF c \in Invokers THEN "admitting" ELSE "failed")
        /\ lapses' = IF InMemory THEN lapses \cup {"replaced"} ELSE lapses
    BY <1>2 DEF LookupReturns, LoadedId, Lapse
  <2>2. sessionRow.sid \in Invokers
    BY <1>1, <1>2 DEF CallInv, Waits, SessionRows
  <2>3. lapses \subseteq lapses' /\ (InMemory => Replaced')
    BY <2>1 DEF Replaced
  <2> QED
    BY <1>1, <1>2, <2>1, <2>2, <2>3, CacheStep
<1>3. CASE pc[c] = "missed"
  <2>1. CASE c \in Resumers
    <3>1. Goes(c, "failed") /\ UNCHANGED <<objects, sessions, keyed, found, lapses>>
      BY <1>3, <2>1, SessionAssumption DEF LookupReturns
    <3>2. found \in [Calls -> Invokers \cup {None}]
      BY <1>1 DEF CallInv
    <3>3. "failed" \in Places /\ "failed" \notin Early
      BY DEF Places, Early
    <3> QED
      BY <1>1, <3>1, <3>2, <3>3, CallOnly
  <2>2. CASE c \in Invokers /\ ~InMemory
    <3>1. CacheSession(c, c) /\ Goes(c, "admitting")
          /\ lapses' = IF sessionRow.sid # None THEN lapses \cup {"doubled"} ELSE lapses
      BY <1>3, <2>2, SessionAssumption DEF LookupReturns, Lapse
    <3>2. lapses \subseteq lapses' /\ (sessionRow.sid # None => Doubled')
      BY <3>1 DEF Doubled
    <3> QED
      BY <1>1, <1>3, <2>2, <3>1, <3>2, CacheStep
  <2>3. CASE c \in Invokers /\ InMemory
    <3> DEFINE w == Verdict(c, sessions[keyed])
    <3>1. /\ Goes(c, w)
          /\ found' = [found EXCEPT ![c] = IF pc'[c] = "admitting" THEN keyed ELSE None]
          /\ UNCHANGED <<objects, sessions, keyed, lapses>>
      BY <1>3, <2>3, SessionAssumption DEF LookupReturns
    <3>2. w \in {"busy", "admitting"}
      BY <2>3, VerdictIs
    <3> HIDE DEF w
    <3>3. pc'[c] = w
      BY <1>1, <3>1 DEF Goes, CallInv
    <3>4. pc[c] \in Early
      BY <1>3 DEF Early
    <3>5. UNCHANGED <<objects, sessions, keyed, driverVars, lapses>>
      BY <1>1, <3>1
    <3> QED
      BY <1>1, <2>3, <3>1, <3>2, <3>3, <3>4, <3>5, FoundStep
  <2> QED
    BY <2>1, <2>2, <2>3 DEF Calls
<1> QED
  BY <1>2, <1>3 DEF LookupReturns

LEMMA ResumeStep ==
  ASSUME SInv, NEW c \in Resumers, Resume(c)
  PROVE  SInv'
<1>1. /\ pc' = [pc EXCEPT ![c] = "running"]
      /\ UNCHANGED <<objects, sessions, keyed, found, journal, scenario, lru, queue, batch,
                     durable, available, rows, sessionRow, life, lapses>>
  BY DEF Resume, Goes, OnlyCalls, writerVars, tables
<1>2. CoreInv /\ (Replaced \/ StoreInv) /\ CallInv /\ c \in Calls
  BY DEF SInv, Calls
<1>3. CoreInv' /\ (StoreInv => StoreInv') /\ InMemory' = InMemory
  BY <1>2, ResumeCore
<1>4. PICK i \in Invokers : /\ invs[i].state = "waiting"
                            /\ invs' = [invs EXCEPT ![i].state = "running"]
                            /\ driver' = [driver EXCEPT ![i] = "driving"]
  BY <1>2, ResumeCore
<1>5. /\ pc' \in [Calls -> Places] /\ \A d \in Calls : pc'[d] = IF d = c THEN "running" ELSE pc[d]
  BY <1>1, <1>2 DEF CallInv, Places
<1>6. CallInv'
  <2>1. found' \in [Calls -> Invokers \cup {None}] /\ sessionRow' \in SessionRows
    BY <1>1, <1>2 DEF CallInv
  <2>2. \A d \in Calls :
           /\ pc'[d] \in {"reading", "loaded"} =>
                pc[d] \in {"reading", "loaded"} \/ sessionRow'.sid # None
           /\ pc'[d] = "admitting" => d \in Invokers /\ found'[d] \in Invokers
    BY <1>1, <1>2, <1>5 DEF CallInv, Waits
  <2> QED
    BY <1>1, <1>2, <1>5, <2>1, <2>2, CallFrame
<1>7. \A j \in Invokers :
        /\ invs'[j] = IF j = i THEN [invs[j] EXCEPT !.state = "running"] ELSE invs[j]
        /\ invs'[j].seq = invs[j].seq
        /\ driver'[j] = IF j = i THEN "driving" ELSE driver[j]
        /\ j = i => invs'[j].state = "running"
  BY <1>2, <1>4 DEF CoreInv, StoreType, InvocationStates
<1>8. "waiting" \in Unfinished /\ "running" \notin Ended
  BY DEF Unfinished, Ended
<1>9. \A d \in Calls :
           /\ pc'[d] \in Early => pc[d] \in Early
           /\ pc'[d] = "orphan" => pc[d] = "orphan" \/ Slow \/ Overtaken' \/ Replaced'
  BY <1>5 DEF Early
<1>10. \A j \in Invokers :
           /\ invs'[j].seq = invs[j].seq
           /\ invs'[j].state = "none" <=> invs[j].state = "none"
           /\ driver'[j] # "none" \/ invs'[j].state \in Unfinished =>
                driver[j] # "none" \/ invs[j].state \in Unfinished
           /\ invs'[j].state \in Ended /\ driver'[j] = "none" /\ Held(j) =>
                invs[j].state \in Ended /\ driver[j] = "none"
           /\ driver'[j] = "ending" => driver[j] = "ending" \/ Held(j)
  BY <1>4, <1>7, <1>8
<1>11. OneKey /\ Begun => OneKey' /\ Begun'
  BY <1>1, <1>3, KeyStays
<1>12. Replaced' \/ StoreInv'
  BY <1>1, <1>2, <1>3 DEF Replaced
<1> QED
  BY <1>1, <1>3, <1>6, <1>9, <1>10, <1>11, <1>12, QuietStep

(* The end of an Invocation before its record.                             *)
LEMMA MarkStep ==
  ASSUME SInv, NEW i \in Invokers, MarkEnd(i)
  PROVE  SInv'
<1>1. /\ UNCHANGED <<pc, found, sessions, keyed, objects, journal, scenario, lru, queue, batch,
                     durable, available, rows, sessionRow, life, lapses>>
      /\ driver[i] = "driving"
  BY DEF MarkEnd, OnlyDrivers, writerVars, tables
<1>2. CoreInv /\ (Replaced \/ StoreInv) /\ CallInv
  BY DEF SInv
<1>3. /\ CoreInv' /\ (StoreInv => StoreInv') /\ InMemory' = InMemory
      /\ invs[i].state \in Unfinished /\ Held(i)
      /\ \A j \in Invokers : /\ invs'[j].seq = invs[j].seq
                             /\ j # i => invs'[j] = invs[j] /\ driver'[j] = driver[j]
      /\ invs'[i].state \in Ended /\ driver'[i] = "ending"
  BY <1>2, MarkKeeps
<1>4. CallInv'
  BY <1>1, <1>2 DEF CallInv, Waits
<1>5. Replaced' \/ StoreInv'
  BY <1>1, <1>2, <1>3 DEF Replaced
<1>6. invs[i].state # "none" /\ invs'[i].state # "none" /\ invs'[i].state \notin Unfinished
  BY <1>3, StatesApart DEF States
<1>7. \A j \in Invokers :
           /\ invs'[j].seq = invs[j].seq
           /\ invs'[j].state = "none" <=> invs[j].state = "none"
           /\ driver'[j] # "none" \/ invs'[j].state \in Unfinished =>
                driver[j] # "none" \/ invs[j].state \in Unfinished
           /\ invs'[j].state \in Ended /\ driver'[j] = "none" /\ Held(j) =>
                invs[j].state \in Ended /\ driver[j] = "none"
           /\ driver'[j] = "ending" => driver[j] = "ending" \/ Held(j)
  <2> TAKE j \in Invokers
  <2>1. CASE j = i
    BY <1>1, <1>3, <1>6, <2>1
  <2>2. CASE j # i
    BY <1>3, <2>2
  <2> QED
    BY <2>1, <2>2
<1>8. OneKey /\ Begun => OneKey' /\ Begun'
  BY <1>1, <1>3, KeyStays
<1> QED
  BY <1>1, <1>3, <1>4, <1>5, <1>7, <1>8, QuietStep

(* What happens to the calls when their driver returns.                    *)
LEMMA CallsReturn ==
  ASSUME CallInv, UNCHANGED <<found, scenario, sessionRow>>,
         \/ pc' = pc
         \/ \E i \in Invokers : DriverReturns(i)
  PROVE  /\ CallInv' /\ \A c \in Calls : pc'[c] = pc[c] \/ pc'[c] = "done"
<1>1. /\ pc' \in [Calls -> Places] /\ \A c \in Calls : pc'[c] = pc[c] \/ pc'[c] = "done"
  <2>1. pc \in [Calls -> Places] /\ "done" \in Places
    BY DEF CallInv, Places
  <2>2. CASE pc' = pc
    BY <2>1, <2>2
  <2>3. ASSUME NEW i \in Invokers, DriverReturns(i)
        PROVE  /\ pc' \in [Calls -> Places]
               /\ \A c \in Calls : pc'[c] = pc[c] \/ pc'[c] = "done"
    <3>1. pc' = [c \in Calls |->
              IF pc[c] = "running" /\ (c = i \/ c \in Resumers) THEN "done" ELSE pc[c]]
      BY <2>3 DEF DriverReturns
    <3> QED
      BY <2>1, <3>1
  <2> QED
    BY <2>2, <2>3
<1>2. \A d \in Calls :
           /\ pc'[d] \in {"reading", "loaded"} =>
                pc[d] \in {"reading", "loaded"} \/ sessionRow'.sid # None
           /\ pc'[d] = "admitting" => d \in Invokers /\ found'[d] \in Invokers
  BY <1>1 DEF CallInv, Waits
<1>3. found' \in [Calls -> Invokers \cup {None}] /\ sessionRow' \in SessionRows
  BY DEF CallInv
<1> QED
  BY <1>1, <1>2, <1>3, CallFrame

LEMMA RefusedStep ==
  ASSUME SInv, NEW i \in Invokers, RecordEndRefused(i)
  PROVE  SInv'
<1>1. /\ driver[i] = "ending" /\ journal[i] = Absent /\ DriverReturns(i)
      /\ driver' = [driver EXCEPT ![i] = "none"]
      /\ UNCHANGED <<invs, found, sessions, keyed, objects, journal, scenario, lru, queue,
                     batch, durable, available, rows, sessionRow, life, lapses>>
  BY DEF RecordEndRefused, OnlyDrivers, writerVars, tables, DriverReturns
<1>2. CoreInv /\ (Replaced \/ StoreInv) /\ CallInv
  BY DEF SInv
<1>3. CoreInv' /\ (StoreInv => StoreInv') /\ InMemory' = InMemory
  BY <1>1, <1>2, ReturnKeeps
<1>4. CallInv' /\ \A c \in Calls : pc'[c] = pc[c] \/ pc'[c] = "done"
  BY <1>1, <1>2, CallsReturn
<1>5. \A j \in Invokers : driver'[j] = IF j = i THEN "none" ELSE driver[j]
  BY <1>1, <1>2 DEF CoreInv, StoreType
<1>6. \A j \in Invokers :
           /\ driver'[j] # "none" \/ invs'[j].state \in Unfinished =>
                driver[j] # "none" \/ invs[j].state \in Unfinished
           /\ invs'[j].state \in Ended /\ driver'[j] = "none" /\ Held(j) =>
                invs[j].state \in Ended /\ driver[j] = "none"
           /\ driver'[j] = "ending" => driver[j] = "ending" \/ Held(j)
  BY <1>1, <1>5 DEF Held
<1>7. \A d \in Calls :
           /\ pc'[d] \in Early => pc[d] \in Early
           /\ pc'[d] = "orphan" => pc[d] = "orphan" \/ Slow \/ Overtaken' \/ Replaced'
  BY <1>4 DEF Early
<1>8. OneKey /\ Begun => OneKey' /\ Begun'
  BY <1>1, <1>3, KeyStays
<1>9. Replaced' \/ StoreInv'
  BY <1>1, <1>2, <1>3 DEF Replaced
<1> QED
  BY <1>1, <1>3, <1>4, <1>6, <1>7, <1>8, <1>9, QuietStep

(* An Invocation is admitted to its Session, or refused.                   *)
LEMMA AdmitStep ==
  ASSUME SInv, NEW c \in Invokers, Admit(c)
  PROVE  SInv'
<1> DEFINE object == sessions[found[c]]
<1>0. /\ CoreInv /\ (Replaced \/ StoreInv) /\ CallInv /\ FlowInv /\ EndInv /\ TablesInv
      /\ c \in Calls
  BY DEF SInv, Calls
<1>1. /\ pc[c] = "admitting" /\ found[c] \in Invokers /\ pc[c] \in Early
      /\ UNCHANGED <<scenario, sessions, keyed, recovering, lru, batch, advanced, durable,
                     available, rows, sessionRow, caches, life, lapses>>
  BY <1>0 DEF Admit, CallInv, Waits, Early, writerVars, tables
<1>2. ASSUME NEW w \in {"failed", "busy"}, Goes(c, w),
             UNCHANGED <<objects, invs, journal, driver, queue>>,
             found' = [found EXCEPT ![c] = None]
      PROVE  SInv'
  <2>1. /\ found' \in [Calls -> Invokers \cup {None}]
        /\ \A d \in Calls \ {c} : found'[d] = found[d]
        /\ found'[c] = None
    BY <1>0, <1>2 DEF CallInv
  <2>2. w \in Places /\ w \notin Early /\ w \notin {"reading", "loaded"}
        /\ w # "admitting" /\ w # "orphan"
    BY DEF Places, Early
  <2>3. UNCHANGED <<objects, sessions, keyed, driverVars>> /\ OnlyCalls
    BY <1>1, <1>2 DEF driverVars, OnlyCalls, writerVars, tables
  <2> QED
    <3>1. lapses \subseteq lapses'
      BY <1>1
    <3> HIDE DEF object
    <3> QED
      BY <1>0, <1>2, <2>1, <2>2, <2>3, <3>1, CallOnly
<1>3. CASE object # None /\ ~Active(object) /\ Attach(c, object)
  <2>1. invs[c].state = "none" /\ (rows[c].durable = 0 \/ Doubled)
    BY <1>0, <1>1 DEF FlowInv, Unborn, TablesInv, SameEvents
  <2>2. /\ invs[c].state = "none" /\ scenario \in Scenarios
        /\ object \in Holders /\ objects[object].sid \in Invokers
    BY <1>0, <1>1, <1>3, <2>1 DEF CallInv, CoreInv, StoreType, Named
  <2> HIDE DEF object
  <2>3. /\ CoreInv' /\ InMemory' = InMemory
        /\ \A o \in Holders : objects'[o].sid = objects[o].sid
        /\ journal[c] = Absent /\ journal' = [journal EXCEPT ![c] = 0]
        /\ \E mode \in Modes \ {"none"} :
              /\ invs' = [invs EXCEPT ![c] = [state |-> "created", seq |-> 0,
                                              mode |-> mode, object |-> object]]
              /\ queue' = Append(queue, [kind |-> "admission", inv |-> c,
                                         sid |-> found[c], mode |-> mode])
    BY <1>0, <1>1, <1>3, <2>2, AttachCore
  <2>14. Replaced' \/ StoreInv'
    <3>1. StoreInv => StoreInv'
      BY <1>1, <1>3, <2>2, AttachKeeps DEF object
    <3> QED
      BY <1>0, <1>1, <3>1 DEF Replaced
  <2>4. PICK mode \in Modes \ {"none"} :
              /\ invs' = [invs EXCEPT ![c] = [state |-> "created", seq |-> 0,
                                              mode |-> mode, object |-> object]]
              /\ queue' = Append(queue, [kind |-> "admission", inv |-> c,
                                         sid |-> found[c], mode |-> mode])
    BY <2>3
  <2>5. /\ driver' = [driver EXCEPT ![c] = "driving"] /\ pc' = [pc EXCEPT ![c] = "running"]
        /\ found' = [found EXCEPT ![c] = None]
    BY <1>3 DEF Attach, Goes
  <2>6. /\ FlowInv'
        /\ \A j \in Invokers :
              /\ j # c => Entries(queue', j) = Entries(queue, j)
              /\ \A q \in Events(queue', j) :
                   \E r \in Events(queue, j) : r.seq = q.seq /\ r.data = q.data
        /\ Entries(queue', c) # {} /\ FlowEvents(c) = {} /\ FlowEntries(c) = {}
        /\ \A q \in Entries(queue', c) : q.sid = found[c]
    <3>1. StoreType /\ pc \in [Calls -> Places]
      BY <1>0 DEF CoreInv, CallInv
    <3> QED
      BY <1>0, <1>1, <2>4, <2>5, <3>1, FlowAttach
  <2>7. /\ \A d \in Calls : pc'[d] = IF d = c THEN "running" ELSE pc[d]
        /\ pc' \in [Calls -> Places] /\ found' \in [Calls -> Invokers \cup {None}]
        /\ \A d \in Calls \ {c} : found'[d] = found[d]
    BY <1>0, <2>5 DEF CallInv, Places
  <2>8. \A j \in Invokers :
          /\ j # c => invs'[j] = invs[j] /\ driver'[j] = driver[j] /\ journal'[j] = journal[j]
          /\ j = c => /\ invs'[j].state = "created" /\ invs'[j].seq = 0
                      /\ driver'[j] = "driving" /\ journal'[j] = 0
    BY <1>0, <2>3, <2>4, <2>5 DEF CoreInv, StoreType
  <2>9. CallInv'
    <3>1. \A d \in Calls :
           /\ pc'[d] \in {"reading", "loaded"} =>
                pc[d] \in {"reading", "loaded"} \/ sessionRow'.sid # None
           /\ pc'[d] = "admitting" => d \in Invokers /\ found'[d] \in Invokers
      BY <1>0, <2>7 DEF CallInv, Waits
    <3>2. sessionRow' \in SessionRows
      BY <1>0, <1>1 DEF CallInv
    <3> QED
      BY <1>0, <1>1, <2>7, <3>1, <3>2, CallFrame
  <2>10. "created" # "none" /\ "created" \notin Ended /\ 0 # Absent
    BY DEF Ended, Absent
  <2>11. \A j \in Invokers :
           /\ Events(batch', j) = Events(batch, j) /\ Entries(batch', j) = Entries(batch, j)
           /\ FlowEvents(j)' = Events(batch, j) \cup Events(queue', j)
           /\ FlowEntries(j)' = Entries(batch, j) \cup Entries(queue', j)
           /\ \A q \in FlowEvents(j)' :
                \E r \in FlowEvents(j) : r.seq = q.seq /\ r.data = q.data
    BY <1>1, <2>6 DEF FlowEvents, FlowEntries
  <2>12. EndInv'
    <3>1. (Slow' <=> Slow) /\ (Replaced' <=> Replaced) /\ (Overtaken' <=> Overtaken)
      BY <1>1 DEF Slow, Replaced, Overtaken
    <3>2. Recorded'
      <4>1. ASSUME NEW j \in Invokers, invs'[j].state \in Ended, driver'[j] = "none", Held(j)'
            PROVE  /\ durable[j] >= invs'[j].seq => rows[j].state \in Ended
                   /\ \A r \in FlowEvents(j)' : r.seq = invs'[j].seq => Over(r)
        <5>1. /\ j # c /\ invs'[j] = invs[j] /\ Held(j)
              /\ invs[j].state \in Ended /\ driver[j] = "none"
          BY <2>8, <2>10, <4>1 DEF Held
        <5>2. /\ durable[j] >= invs[j].seq => rows[j].state \in Ended
              /\ \A r \in FlowEvents(j) : r.seq = invs[j].seq => Over(r)
          BY <1>0, <5>1 DEF EndInv, Recorded
        <5> QED
          BY <2>11, <5>1, <5>2 DEF Over
      <4> QED
        BY <1>1, <4>1 DEF Recorded
    <3>3. Retention'
      BY <1>0, <1>1, <2>8, <2>10, <3>1 DEF EndInv, Retention, RetainedUntilDurable, Held
    <3>4. Settled'
      BY <1>0, <1>1 DEF EndInv, Settled
    <3>5. Current'
      BY <1>0, <1>1, <2>8, <2>10 DEF EndInv, Current
    <3>6. NoOrphan'
      BY <1>0, <2>7, <3>1 DEF EndInv, NoOrphan
    <3> QED
      BY <3>2, <3>3, <3>4, <3>5, <3>6 DEF EndInv
  <2>13. TablesInv'
    <3>1. ASSUME ~Doubled
          PROVE  available' /\ OneKey' /\ Begun' /\ RowFirst' /\ SameEvents'
      <4>1. available' /\ OneKey /\ Begun /\ RowFirst /\ SameEvents
        BY <1>0, <1>1, <3>1 DEF TablesInv
      <4>2. OneKey'
        <5>1. PICK k \in Holders : KeyIs(k)
          BY <4>1 DEF OneKey
        <5>2. found[c] = k /\ \A d \in Calls : found'[d] \in {None, k}
          BY <1>0, <1>1, <2>5, <5>1, SessionAssumption DEF KeyIs, CallInv
        <5>3. ASSUME NEW j \in Invokers, NEW r \in FlowEntries(j)' PROVE r.sid = k
          <6>1. CASE j = c
            <7>1. r \in Entries(queue', c)
              BY <2>6, <2>11, <5>3, <6>1 DEF FlowEntries
            <7> QED
              BY <2>6, <5>2, <7>1
          <6>2. CASE j # c
            <7>1. r \in FlowEntries(j)
              BY <2>6, <2>11, <5>3, <6>2 DEF FlowEntries
            <7> QED
              BY <5>1, <7>1 DEF KeyIs
          <6> QED
            BY <6>1, <6>2
        <5>4. KeyIs(k)'
          BY <1>1, <2>3, <5>1, <5>2, <5>3 DEF KeyIs
        <5> QED
          BY <5>1, <5>4 DEF OneKey
      <4>5. Begun'
        BY <1>1, <2>3, <2>5, <2>7, <4>1 DEF Begun
      <4>3. RowFirst'
        <5>1. ASSUME NEW j \in Invokers
              PROVE  /\ Held(j)' => Exists(rows[j]) \/ FlowEntries(j)' # {}
                     /\ Events(batch', j) # {} => Exists(rows[j]) \/ Entries(batch', j) # {}
                     /\ Events(queue', j) # {} => Exists(rows[j]) \/ FlowEntries(j)' # {}
          <6>1. CASE j = c
            BY <2>6, <2>11, <6>1 DEF FlowEvents
          <6>2. CASE j # c
            <7>1. Held(j)' <=> Held(j)
              BY <2>8, <6>2 DEF Held
            <7>2. FlowEntries(j)' = FlowEntries(j)
              BY <2>6, <2>11, <6>2 DEF FlowEntries
            <7> QED
              BY <2>6, <2>11, <4>1, <7>1, <7>2 DEF RowFirst
          <6> QED
            BY <6>1, <6>2
        <5> QED
          BY <1>1, <5>1 DEF RowFirst
      <4>4. SameEvents'
        <5>1. ASSUME NEW j \in Invokers
              PROVE  /\ invs'[j].state # "none" => rows[j].durable <= invs'[j].seq
                     /\ pc'[j] \in Early => rows[j].durable = 0
                     /\ \A r \in Events(queue', j) : r.seq \notin DOMAIN rows[j].events
          <6>1. invs'[j].state # "none" => rows[j].durable <= invs'[j].seq
            <7>1. rows[c].durable = 0
              BY <2>1, <3>1
            <7> QED
              BY <2>8, <4>1, <7>1 DEF SameEvents
          <6>2. pc'[j] \in Early => rows[j].durable = 0
            BY <2>7, <4>1 DEF SameEvents, Early, Calls
          <6>3. \A r \in Events(queue', j) : r.seq \notin DOMAIN rows[j].events
            BY <2>6, <4>1 DEF SameEvents
          <6> QED
            BY <6>1, <6>2, <6>3
        <5> QED
          BY <1>1, <2>11, <4>1, <5>1 DEF SameEvents
      <4> QED
        BY <4>1, <4>2, <4>3, <4>4, <4>5
    <3> QED
      BY <1>1, <3>1 DEF TablesInv, Doubled
  <2> QED
    BY <2>3, <2>6, <2>9, <2>12, <2>13, <2>14 DEF SInv
<1>4. \/ object = None /\ Goes(c, "failed") /\ UNCHANGED <<objects, invs, journal, driver, queue>>
         /\ found' = [found EXCEPT ![c] = None]
      \/ Goes(c, "busy") /\ UNCHANGED <<objects, invs, journal, driver, queue>>
         /\ found' = [found EXCEPT ![c] = None]
      \/ object # None /\ ~Active(object) /\ Attach(c, object)
  BY DEF Admit
<1> QED
  BY <1>2, <1>3, <1>4

(* An event is recorded, by a driver that goes on or returns.              *)
LEMMA RecordStep ==
  ASSUME SInv, NEW i \in Invokers, driver[i] # "none", NEW state \in States,
         driver[i] = "driving" => state \in Unfinished,
         driver[i] = "ending" => state \in Ended /\ Held(i),
         NEW point, NEW forced, RecordEvent(i, state, point, forced),
         \/ UNCHANGED <<driver, pc>> /\ driver[i] = "driving"
         \/ DriverReturns(i),
         state \in Ended => DriverReturns(i),
         OnlyDrivers
  PROVE  SInv'
<1>0. CoreInv /\ (Replaced \/ StoreInv) /\ CallInv /\ FlowInv /\ EndInv /\ TablesInv
  BY DEF SInv
<1>1. UNCHANGED <<scenario, objects, keyed, found, lru, batch, advanced, durable, available,
                  rows, sessionRow, caches, life, lapses>>
  BY DEF OnlyDrivers, writerVars, tables
<1>2. /\ driver' = driver \/ driver' = [driver EXCEPT ![i] = "none"]
      /\ driver[i] # "driving" \/ state \in Ended => driver'[i] = "none"
  <2>1. DriverReturns(i) => driver' = [driver EXCEPT ![i] = "none"]
    BY DEF DriverReturns
  <2> QED
    BY <1>0, <2>1 DEF CoreInv, StoreType
<1>3. /\ CoreInv' /\ (InMemory => InMemory') /\ Held(i)
      /\ journal[i] = invs[i].seq /\ invs[i].seq \in Nat /\ invs[i].state # "none"
      /\ journal' = [journal EXCEPT ![i] = invs[i].seq + 1]
      /\ \A j \in Invokers : j # i => invs'[j] = invs[j] /\ driver'[j] = driver[j]
      /\ invs'[i].seq = invs[i].seq + 1 /\ invs'[i].state = state
      /\ driver'[i] = driver[i] \/ driver'[i] = "none"
  BY <1>0, <1>1, <1>2, RecordCore
<1>14. Replaced' \/ StoreInv'
  <2>1. StoreInv => StoreInv'
    BY <1>1, <1>2, RecordKeeps
  <2> QED
    BY <1>0, <1>1, <2>1 DEF Replaced
<1>4. CallInv' /\ \A c \in Calls : pc'[c] = pc[c] \/ pc'[c] = "done"
  <2>1. pc' = pc \/ \E j \in Invokers : DriverReturns(j)
    OBVIOUS
  <2> QED
    BY <1>0, <1>1, <2>1, CallsReturn
<1>5. \A c \in Calls : pc'[c] \in Early => pc'[c] = pc[c]
  BY <1>4 DEF Early
<1>6. /\ FlowInv'
      /\ \A j \in Invokers :
              /\ Entries(queue', j) = Entries(queue, j)
              /\ \A q \in Events(queue', j) :
                   \/ j = i /\ q.seq = invs[i].seq + 1 /\ q.data.state = state
                   \/ \E r \in Events(queue, j) : r.seq = q.seq /\ r.data = q.data
  <2>1. \A j \in Invokers : pc'[j] \in Early => pc[j] \in Early
    BY <1>5 DEF Calls
  <2>2. UNCHANGED <<objects, keyed, lru>> /\ UNCHANGED <<batch, durable, rows, life>>
    BY <1>1
  <2>3. state \in Ended => driver'[i] = "none"
    BY <1>2
  <2> QED
    BY <1>0, <1>2, <2>1, <2>2, <2>3, FlowRecord
<1>7. /\ invs[i].seq \in Nat /\ journal'[i] = invs[i].seq + 1 /\ journal'[i] # Absent
      /\ invs[i].state # "none" /\ state # "none"
      /\ \A j \in Invokers : j # i => journal'[j] = journal[j]
      /\ \A j \in Invokers : Held(j)' <=> Held(j)
  <2>1. invs[i].seq \in Nat
    BY <1>3
  <2>2. journal'[i] = invs[i].seq + 1 /\ \A j \in Invokers : j # i => journal'[j] = journal[j]
    BY <1>0, <1>3 DEF CoreInv, StoreType
  <2>3. invs[i].state # "none" /\ state # "none"
    BY <1>3, StatesApart
  <2>4. journal'[i] # Absent
    BY <2>1, <2>2 DEF Absent
  <2> QED
    BY <1>3, <2>1, <2>2, <2>3, <2>4 DEF Held
<1>8. \A j \in Invokers :
        /\ Events(batch', j) = Events(batch, j) /\ Entries(batch', j) = Entries(batch, j)
        /\ FlowEvents(j)' = Events(batch, j) \cup Events(queue', j)
        /\ FlowEntries(j)' = FlowEntries(j)
        /\ \A q \in FlowEvents(j)' :
             \/ j = i /\ q.seq = invs[i].seq + 1 /\ q.data.state = state
             \/ \E r \in FlowEvents(j) : r.seq = q.seq /\ r.data = q.data
  BY <1>1, <1>6 DEF FlowEvents, FlowEntries
<1>9. /\ \A r \in FlowEvents(i) : r.seq \in Nat /\ r.seq <= invs[i].seq
      /\ durable[i] <= invs[i].seq
  <2>1. durable[i] = Absent \/ durable[i] <= invs[i].seq
    BY <1>0 DEF FlowInv, Bounded
  <2>2. durable[i] <= invs[i].seq
    BY <1>7, <2>1 DEF Absent
  <2> QED
    BY <1>0, <2>2, EventIs DEF FlowInv, Bounded
<1>10. durable[i] \in Int
  BY <1>0 DEF FlowInv, FlowType, Absent
<1>11. (Slow' <=> Slow) /\ (Replaced' <=> Replaced) /\ (Overtaken' <=> Overtaken)
  BY <1>1 DEF Slow, Replaced, Overtaken
<1>12. EndInv'
  <2>1. Recorded'
    <3>1. ASSUME NEW j \in Invokers, invs'[j].state \in Ended, driver'[j] = "none", Held(j)'
          PROVE  /\ durable[j] >= invs'[j].seq => rows[j].state \in Ended
                 /\ \A r \in FlowEvents(j)' : r.seq = invs'[j].seq => Over(r)
      <4>1. CASE j = i
        <5>1. ~(durable[i] >= invs'[i].seq)
          BY <1>3, <1>7, <1>9, <1>10
        <5>2. ASSUME NEW r \in FlowEvents(i)', r.seq = invs[i].seq + 1 PROVE Over(r)
          <6>1. ~ \E q \in FlowEvents(i) : q.seq = r.seq
            BY <1>7, <1>9, <5>2
          <6>2. r.data.state = state
            BY <1>8, <5>2, <6>1
          <6> QED
            BY <1>3, <3>1, <4>1, <6>2 DEF Over
        <5> QED
          BY <1>3, <4>1, <5>1, <5>2
      <4>2. CASE j # i
        <5>1. invs'[j] = invs[j] /\ driver[j] = "none" /\ Held(j)
          BY <1>3, <1>7, <3>1, <4>2
        <5>2. /\ durable[j] >= invs[j].seq => rows[j].state \in Ended
              /\ \A r \in FlowEvents(j) : r.seq = invs[j].seq => Over(r)
          BY <1>0, <3>1, <5>1 DEF EndInv, Recorded
        <5> QED
          BY <1>8, <4>2, <5>1, <5>2 DEF Over
      <4> QED
        BY <4>1, <4>2
    <3> QED
      BY <1>1, <3>1 DEF Recorded
  <2>2. Retention'
    <3>1. ASSUME ~Slow
          PROVE  /\ RetainedUntilDurable' /\ \A j \in Range(lru') : rows'[j].state \in Ended
                 /\ \A j \in Invokers : driver'[j] = "ending" => Held(j)'
      <4>1. /\ RetainedUntilDurable /\ \A j \in Range(lru) : rows[j].state \in Ended
            /\ \A j \in Invokers : driver[j] = "ending" => Held(j)
        BY <1>0, <3>1 DEF EndInv, Retention
      <4>2. RetainedUntilDurable'
        BY <1>1, <1>3, <1>7, <4>1 DEF RetainedUntilDurable
      <4>3. \A j \in Invokers : driver'[j] = "ending" => Held(j)'
        BY <1>3, <1>7, <4>1
      <4> QED
        BY <1>1, <4>1, <4>2, <4>3
    <3> QED
      BY <1>11, <3>1 DEF Retention
  <2>3. Settled' /\ NoOrphan'
    BY <1>0, <1>1, <1>4, <1>11 DEF EndInv, Settled, NoOrphan
  <2>4. Current'
    BY <1>0, <1>1, <1>3, <1>7 DEF EndInv, Current
  <2> QED
    BY <2>1, <2>2, <2>3, <2>4 DEF EndInv
<1>13. TablesInv'
  <2>1. ASSUME ~Doubled PROVE available' /\ OneKey' /\ Begun' /\ RowFirst' /\ SameEvents'
    <3>1. available' /\ OneKey /\ Begun /\ RowFirst /\ SameEvents
      BY <1>0, <1>1, <2>1 DEF TablesInv
    <3>2. OneKey'
      BY <1>1, <1>8, <3>1 DEF OneKey, KeyIs
    <3>5. Begun'
      BY <1>1, <1>3, <3>1 DEF Begun
    <3>3. RowFirst'
      <4>1. \A j \in Invokers : Events(queue', j) # {} => Events(queue, j) # {} \/ Held(j)
        BY <1>3, <1>6
      <4> QED
        BY <1>1, <1>7, <1>8, <3>1, <4>1 DEF RowFirst
    <3>4. SameEvents'
      <4>1. ASSUME NEW j \in Invokers
            PROVE  /\ invs'[j].state # "none" => rows[j].durable <= invs'[j].seq
                   /\ pc'[j] \in Early => rows[j].durable = 0
                   /\ \A r \in Events(queue', j) : r.seq \notin DOMAIN rows[j].events
        <5>1. rows[j].durable \in Nat /\ \A n \in DOMAIN rows[j].events : n \in 1 .. rows[j].durable
          BY <1>0 DEF FlowInv, FlowType, RowOk
        <5>2. invs[j].state # "none" => rows[j].durable <= invs[j].seq
          BY <3>1 DEF SameEvents
        <5>3. invs'[j].state # "none" => rows[j].durable <= invs'[j].seq
          BY <1>3, <1>7, <5>1, <5>2
        <5>4. pc'[j] \in Early => rows[j].durable = 0
          BY <1>5, <3>1 DEF SameEvents, Calls
        <5>5. invs[i].seq + 1 \notin DOMAIN rows[i].events
          <6>1. rows[i].durable \in Nat /\ rows[i].durable <= invs[i].seq
            BY <1>0, <1>7, <3>1 DEF SameEvents, FlowInv, FlowType, RowOk
          <6>2. \A n \in DOMAIN rows[i].events : n \in 1 .. rows[i].durable
            BY <1>0 DEF FlowInv, FlowType, RowOk
          <6>3. invs[i].seq + 1 \notin 1 .. rows[i].durable
            BY <1>7, <6>1
          <6> QED
            BY <6>2, <6>3
        <5>6. \A r \in Events(queue', j) : r.seq \notin DOMAIN rows[j].events
          BY <1>6, <3>1, <5>5 DEF SameEvents
        <5> QED
          BY <5>3, <5>4, <5>6
      <4> QED
        BY <1>1, <1>8, <3>1, <4>1 DEF SameEvents
    <3> QED
      BY <3>1, <3>2, <3>3, <3>4, <3>5
  <2> QED
    BY <1>1, <2>1 DEF TablesInv, Doubled
<1> QED
  BY <1>3, <1>4, <1>6, <1>12, <1>13, <1>14 DEF SInv

LEMMA DriveStep ==
  ASSUME SInv, NEW i \in Invokers, Drive(i)
  PROVE  SInv'
<1>0. CoreInv
  BY DEF SInv
<1>1. CASE Progress(i)
  <2>1. PICK point \in scenario.points : RecordEvent(i, "running", point, FALSE)
    BY <1>1 DEF Progress
  <2>2. driver[i] = "driving" /\ UNCHANGED <<driver, pc>> /\ OnlyDrivers
    BY <1>1 DEF Progress
  <2>3. "running" \in Unfinished /\ "running" \in States /\ "running" \notin Ended
    BY DEF Unfinished, States, Ended
  <2> QED
    BY <2>1, <2>2, <2>3, RecordStep
<1>2. CASE Park(i)
  <2>1. /\ driver[i] = "driving" /\ RecordEvent(i, "waiting", TRUE, TRUE)
        /\ DriverReturns(i) /\ OnlyDrivers
    BY <1>2 DEF Park
  <2>2. "waiting" \in Unfinished /\ "waiting" \in States /\ "waiting" \notin Ended
    BY DEF Unfinished, States, Ended
  <2> QED
    BY <2>1, <2>2, RecordStep
<1>3. CASE RecordEnd(i)
  <2> DEFINE state == invs[i].state
             forced == invs[i].state = "failed"
  <2>1. /\ driver[i] = "ending" /\ Held(i) /\ RecordEvent(i, state, FALSE, forced)
        /\ DriverReturns(i) /\ OnlyDrivers
    BY <1>3 DEF RecordEnd, Held
  <2>2. state \in Ended /\ state \in States
    BY <1>0, <2>1 DEF CoreInv, DriversFit, States
  <2> HIDE DEF state, forced
  <2> QED
    BY <2>1, <2>2, RecordStep
<1> QED
  BY <1>1, <1>2, <1>3, MarkStep, RefusedStep DEF Drive

-----------------------------------------------------------------------------
(* Steps of the writer.                                                    *)

LEMMA TakeStep ==
  ASSUME SInv, TakeBatch
  PROVE  SInv'
<1>0. CoreInv /\ (Replaced \/ StoreInv) /\ CallInv /\ FlowInv /\ EndInv /\ TablesInv
  BY DEF SInv
<1>1. UNCHANGED <<scenario, objects, sessions, keyed, pc, found, invs, driver, journal, lru,
                  durable, available, rows, sessionRow, life, lapses>>
  BY DEF TakeBatch, callVars, driverVars, tables
<1>2. /\ FlowInv' /\ Range(batch) = {}
      /\ \A i \in Invokers :
              /\ FlowEvents(i)' = FlowEvents(i) /\ FlowEntries(i)' = FlowEntries(i)
              /\ Events(queue, i) = Events(batch', i) \cup Events(queue', i)
              /\ Entries(queue, i) = Entries(batch', i) \cup Entries(queue', i)
  BY <1>0, FlowTake
<1>3. CoreInv' /\ (Replaced' \/ StoreInv') /\ InMemory' = InMemory
  BY <1>0, <1>1, StoreFrame, LapsesStay DEF memory
<1>4. CallInv'
  BY <1>0, <1>1 DEF CallInv, Waits
<1>5. /\ \A i \in Invokers : Held(i)' <=> Held(i)
      /\ Slow' <=> Slow
      /\ (Replaced' <=> Replaced) /\ (Overtaken' <=> Overtaken) /\ (Doubled' <=> Doubled)
  BY <1>1 DEF Held, Slow, Replaced, Overtaken, Doubled
<1>6. EndInv'
  BY <1>0, <1>1, <1>2, <1>5
     DEF EndInv, Recorded, Retention, RetainedUntilDurable, Settled, Current, NoOrphan
<1>7. TablesInv'
  <2>1. ASSUME ~Doubled PROVE available' /\ OneKey' /\ Begun' /\ RowFirst' /\ SameEvents'
    <3>1. available' /\ OneKey /\ Begun /\ RowFirst /\ SameEvents
      BY <1>0, <1>1, <2>1 DEF TablesInv
    <3>2. OneKey' /\ Begun'
      <4>1. PICK k \in Holders : KeyIs(k)
        BY <3>1 DEF OneKey
      <4>2. KeyIs(k)'
        BY <1>1, <1>2, <4>1 DEF KeyIs
      <4> QED
        BY <1>1, <1>3, <3>1, <4>2 DEF OneKey, Begun
    <3>3. RowFirst'
      <4>1. ASSUME NEW i \in Invokers, Events(batch', i) # {}
            PROVE  Exists(rows[i]) \/ Entries(batch', i) # {}
        <5>1. Exists(rows[i]) \/ FlowEntries(i) # {}
          BY <1>2, <3>1, <4>1 DEF RowFirst
        <5>2. FlowEntries(i) = Entries(queue, i)
          BY <1>2 DEF FlowEntries, Entries
        <5>3. Entries(queue', i) = {}
          BY <1>2, <4>1 DEF FlowInv, FlowOrder, Precedes, Events, Entries
        <5> QED
          BY <1>2, <5>1, <5>2, <5>3
      <4> QED
        BY <1>1, <1>2, <1>5, <3>1, <4>1 DEF RowFirst
    <3>4. SameEvents'
      BY <1>1, <1>2, <3>1 DEF SameEvents
    <3> QED
      BY <3>1, <3>2, <3>3, <3>4
  <2> QED
    BY <1>5, <2>1 DEF TablesInv
<1> QED
  BY <1>2, <1>3, <1>4, <1>6, <1>7 DEF SInv

(* While the key has one Session, nothing is refused.                      *)
LEMMA Accepted ==
  ASSUME SInv, ~Doubled
  PROVE  ~Refused
<1>1. /\ OneKey /\ RowFirst /\ SameEvents /\ FlowType
      /\ batch \in Seq(Records)
  BY DEF SInv, TablesInv, FlowInv, FlowType
<1>0. PICK k \in Holders : KeyIs(k)
  BY <1>1 DEF OneKey
<1>2. ASSUME NEW r \in Admissions(batch)
      PROVE  r.sid = k /\ sessionRow.sid \in {None, k}
  <2>1. r \in Range(batch) /\ r.kind = "admission" /\ r.inv \in Invokers
    <3>1. r \in Range(batch) /\ r.kind = "admission"
      BY <1>2 DEF Admissions
    <3>2. r \in Records
      BY <1>1, <3>1 DEF Range
    <3> QED
      BY <3>1, <3>2, RecordIs
  <2>2. r \in FlowEntries(r.inv)
    BY <2>1 DEF FlowEntries, Entries
  <2> QED
    BY <1>0, <2>1, <2>2 DEF KeyIs
<1>3. ASSUME NEW i \in Invokers, EventsOf(batch, i) # <<>>
      PROVE  Exists(Admitted(i).row) /\ ~Conflicts(rows[i], EventsOf(batch, i))
  <2>1. Events(batch, i) # {} /\ Range(EventsOf(batch, i)) = Events(batch, i)
    BY <1>1, <1>3, EventsOfIs
  <2>2. Exists(Admitted(i).row)
    BY <1>1, <2>1, AdmittedIs DEF RowFirst
  <2>3. ~Conflicts(rows[i], EventsOf(batch, i))
    BY <1>1, <2>1 DEF SameEvents, Conflicts
  <2> QED
    BY <2>2, <2>3
<1> QED
  BY <1>2, <1>3 DEF Refused

LEMMA HaltStep ==
  ASSUME SInv, Halt
  PROVE  SInv'
<1>0. CoreInv /\ (Replaced \/ StoreInv) /\ CallInv /\ FlowInv /\ EndInv /\ TablesInv
  BY DEF SInv
<1>1. /\ UNCHANGED <<scenario, objects, sessions, keyed, pc, found, invs, driver, journal, lru,
                     durable, rows, sessionRow, life, lapses>>
      /\ Refused
  BY DEF Halt, callVars, driverVars, tables
<1>2. FlowInv' /\ \A i \in Invokers : FlowEvents(i)' \subseteq FlowEvents(i)
  BY <1>0, FlowHalt
<1>3. CoreInv' /\ (Replaced' \/ StoreInv') /\ InMemory' = InMemory
  BY <1>0, <1>1, StoreFrame, LapsesStay DEF memory
<1>4. CallInv'
  BY <1>0, <1>1 DEF CallInv, Waits
<1>5. /\ \A i \in Invokers : Held(i)' <=> Held(i)
      /\ Slow' <=> Slow
      /\ (Replaced' <=> Replaced) /\ (Overtaken' <=> Overtaken) /\ (Doubled' <=> Doubled)
  BY <1>1 DEF Held, Slow, Replaced, Overtaken, Doubled
<1>6. EndInv'
  BY <1>0, <1>1, <1>2, <1>5
     DEF EndInv, Recorded, Retention, RetainedUntilDurable, Settled, Current, NoOrphan
<1>7. TablesInv'
  BY <1>1, <1>5, Accepted DEF TablesInv
<1> QED
  BY <1>2, <1>3, <1>4, <1>6, <1>7 DEF SInv

(* The Session's row after a transaction is that of its last admission.    *)
LEMMA SessionRowIs ==
  ASSUME FlowType, NewTables
  PROVE  \/ sessionRow' = sessionRow /\ \A i \in Invokers : Entries(batch, i) = {}
         \/ \E i \in Invokers : \E r \in Entries(batch, i) :
              r.sid \in Invokers /\ sessionRow' = [sid |-> r.sid, current |-> i]
<1> DEFINE s == Kept(batch, Admissions(batch))
<1>1. s \in Seq(Records) /\ Range(s) = Range(batch) \cap Admissions(batch)
  BY KeptIs DEF FlowType
<1>2. sessionRow' = IF s = <<>> THEN sessionRow
                    ELSE [sid |-> Last(s).sid, current |-> Last(s).inv]
  BY DEF NewTables
<1> HIDE DEF s
<1>3. CASE s # <<>>
  <2>1. Len(s) \in DOMAIN s /\ Last(s) = s[Len(s)]
    BY <1>1, <1>3 DEF Last
  <2>2. Last(s) \in Records /\ Last(s) \in Range(batch) /\ Last(s).kind = "admission"
    BY <1>1, <2>1 DEF Range, Admissions
  <2>3. Last(s).sid \in Invokers /\ Last(s).inv \in Invokers
    BY <2>2, RecordIs
  <2>4. Last(s) \in Entries(batch, Last(s).inv)
    BY <2>2 DEF Entries
  <2> QED
    BY <1>2, <1>3, <2>3, <2>4
<1>4. CASE s = <<>>
  <2>1. Range(batch) \cap Admissions(batch) = {}
    BY <1>1, <1>4 DEF Range
  <2> QED
    BY <1>2, <1>4, <2>1 DEF Entries, Admissions
<1> QED
  BY <1>3, <1>4

(* An Invocation gets its row with its admission, and before its events.   *)
LEMMA RowComes ==
  ASSUME FlowType, ~Refused, NewTables, NEW i \in Invokers
  PROVE  /\ Events(batch, i) # {} => Exists(rows'[i])
         /\ Exists(rows'[i]) => Exists(rows[i]) \/ Entries(batch, i) # {}
<1> DEFINE old == Admitted(i).row
<1>1. batch \in Seq(Records) /\ rows'[i] = Persisted(i).row
  BY DEF FlowType, NewTables
<1>2. EventsOf(batch, i) = <<>> <=> Events(batch, i) = {}
  BY <1>1, EventsOfIs
<1>3. RowOk(old)
  BY AdmittedIs
<1>4. Exists(old) => Exists(rows[i]) \/ Entries(batch, i) # {}
  BY DEF Admitted, Entries, Admissions
<1>5. Events(batch, i) # {} => Exists(old)
  BY <1>2 DEF Refused
<1>6. rows'[i].mode = old.mode
  BY <1>1, <1>3 DEF Persisted, PersistEvents, RowOk
<1> QED
  BY <1>4, <1>5, <1>6 DEF Exists

(* The tables change, whether or not the writer hears of it.               *)
LEMMA TablesStep ==
  ASSUME SInv, ~Refused, NewTables, FlowInv',
         UNCHANGED <<scenario, objects, sessions, keyed, pc, found, invs, driver, journal, lru,
                     available, life, lapses>>,
         \A i \in Invokers :
           /\ FlowEvents(i)' \subseteq FlowEvents(i) /\ Events(batch', i) \subseteq Events(batch, i)
           /\ FlowEntries(i)' \subseteq FlowEntries(i)
           /\ Events(queue', i) = Events(queue, i) /\ Entries(queue', i) = Entries(queue, i)
           /\ durable[i] <= durable'[i]
           /\ \/ durable'[i] = durable[i]
              \/ durable'[i] = 0 /\ Entries(batch, i) # {}
              \/ \E r \in Events(batch, i) : durable'[i] = r.seq
  PROVE  SInv'
<1>0. CoreInv /\ CallInv /\ FlowInv /\ EndInv /\ TablesInv /\ FlowType /\ InOrder(batch)
      /\ batch \in Seq(Records) /\ Increasing(batch)
  BY OrderIncreases DEF SInv, FlowInv, FlowOrder, FlowType
<1>1. CoreInv' /\ (Replaced' \/ StoreInv') /\ InMemory' = InMemory
  BY StoreFrame, LapsesStay DEF SInv, memory
<1>2. \/ sessionRow' = sessionRow /\ \A i \in Invokers : Entries(batch, i) = {}
      \/ \E i \in Invokers : \E r \in Entries(batch, i) :
           r.sid \in Invokers /\ sessionRow' = [sid |-> r.sid, current |-> i]
  BY <1>0, SessionRowIs
<1>3. \A i \in Invokers :
        /\ Exists(rows[i]) \/ Entries(batch, i) # {} => Exists(rows'[i])
        /\ Exists(rows'[i]) => Exists(rows[i]) \/ Entries(batch, i) # {}
        /\ Events(batch, i) # {} => Exists(rows'[i])
        /\ rows[i].state \in Ended => rows'[i].state \in Ended
        /\ \A r \in Events(batch, i) : Over(r) => rows'[i].state \in Ended
  BY <1>0, TablesKeep, RowComes
<1>4. \A s \in Invokers : s # None
  BY SessionAssumption
<1>5. CallInv'
  <2>1. sessionRow' \in SessionRows /\ (sessionRow.sid # None => sessionRow'.sid # None)
    BY <1>0, <1>2, <1>4 DEF CallInv, SessionRows
  <2>2. Waits'
    BY <1>0, <2>1 DEF CallInv, Waits
  <2> QED
    BY <1>0, <2>1, <2>2 DEF CallInv
<1>6. /\ \A i \in Invokers : Held(i)' <=> Held(i)
      /\ Slow' <=> Slow
      /\ (Replaced' <=> Replaced) /\ (Overtaken' <=> Overtaken) /\ (Doubled' <=> Doubled)
  BY DEF Held, Slow, Replaced, Overtaken, Doubled
<1>7. \A i \in Invokers : durable[i] \in Int /\ durable'[i] \in Int
  BY <1>0 DEF FlowInv, FlowType, Absent
<1>8. EndInv'
  <2>1. Recorded'
    <3>1. ASSUME NEW i \in Invokers, invs[i].state \in Ended, driver[i] = "none", Held(i),
                 durable'[i] >= invs[i].seq
          PROVE  rows'[i].state \in Ended
      <4>1. /\ durable[i] >= invs[i].seq => rows[i].state \in Ended
            /\ \A r \in FlowEvents(i) : r.seq = invs[i].seq => Over(r)
        BY <1>0, <3>1 DEF EndInv, Recorded
      <4>2. invs[i].seq \in Nat /\ invs[i].seq > 0
        BY <1>0, <3>1 DEF CoreInv, StoreType, InvocationStates, DriversFit
      <4>3. CASE durable'[i] = durable[i]
        BY <1>3, <3>1, <4>1, <4>3
      <4>4. CASE durable'[i] = 0
        BY <3>1, <4>2, <4>4
      <4>5. ASSUME NEW r \in Events(batch, i), durable'[i] = r.seq PROVE rows'[i].state \in Ended
        <5>1. r \in FlowEvents(i) /\ r.seq \in Nat /\ r.seq <= invs[i].seq
          BY <1>0, EventIs DEF FlowEvents, FlowInv, Bounded
        <5>2. r.seq = invs[i].seq
          BY <3>1, <4>2, <4>5, <5>1
        <5> QED
          BY <1>3, <4>1, <5>1, <5>2
      <4> QED
        BY <4>3, <4>4, <4>5
    <3>2. \A i \in Invokers : invs[i].state \in Ended /\ driver[i] = "none" /\ Held(i) =>
            \A r \in FlowEvents(i)' : r.seq = invs[i].seq => Over(r)
      BY <1>0 DEF EndInv, Recorded
    <3> QED
      BY <1>6, <3>1, <3>2 DEF Recorded
  <2>2. Retention'
    <3>1. \A i \in Range(lru) : i \in Invokers
      BY <1>0 DEF CoreInv, StoreType, Range
    <3> QED
      BY <1>0, <1>3, <1>6, <3>1 DEF EndInv, Retention, RetainedUntilDurable
  <2>3. Settled'
    <3>1. \A i \in Range(lru) : i \in Invokers
      BY <1>0 DEF CoreInv, StoreType, Range
    <3>2. \A i \in Range(lru) : durable[i] \in Nat
      BY <1>0, <3>1 DEF EndInv, Settled, FlowType
    <3>3. ASSUME NEW i \in Invokers, Exists(rows'[i]) \/ durable'[i] # Absent
          PROVE  sessionRow'.sid # None
      <4>1. ASSUME Exists(rows[i]) \/ durable[i] # Absent PROVE sessionRow'.sid # None
        <5>1. sessionRow.sid # None
          BY <1>0, <4>1 DEF EndInv, Settled
        <5> QED
          BY <1>2, <1>4, <5>1
      <4>2. ASSUME Entries(batch, i) # {} PROVE sessionRow'.sid # None
        BY <1>2, <1>4, <4>2
      <4>3. ASSUME Events(batch, i) # {} PROVE sessionRow'.sid # None
        BY <1>3, <4>1, <4>2, <4>3
      <4> QED
        BY <1>3, <3>3, <4>1, <4>2, <4>3
    <3> QED
      BY <1>7, <3>1, <3>2, <3>3 DEF Settled, Absent
  <2>4. Current'
    <3>1. CASE sessionRow' = sessionRow
      BY <1>0, <1>3, <3>1 DEF EndInv, Current
    <3>2. ASSUME NEW i \in Invokers, NEW r \in Entries(batch, i), r.sid \in Invokers,
                 sessionRow' = [sid |-> r.sid, current |-> i]
          PROVE  Current'
      <4>1. Exists(rows'[i])
        BY <1>3
      <4>2. invs[i].state # "none"
        BY <1>0 DEF FlowInv, Unborn, FlowEntries
      <4> QED
        BY <1>4, <3>2, <4>1, <4>2 DEF Current
    <3> QED
      BY <1>2, <3>1, <3>2
  <2>5. NoOrphan'
    BY <1>0, <1>6 DEF EndInv, NoOrphan
  <2> QED
    BY <2>1, <2>2, <2>3, <2>4, <2>5 DEF EndInv
<1>9. TablesInv'
  <2>1. ASSUME ~Doubled PROVE available' /\ OneKey' /\ Begun' /\ RowFirst' /\ SameEvents'
    <3>1. available' /\ OneKey /\ Begun /\ RowFirst /\ SameEvents
      BY <1>0, <2>1 DEF TablesInv
    <3>2. OneKey'
      <4>1. PICK k \in Holders : KeyIs(k)
        BY <3>1 DEF OneKey
      <4>2. sessionRow'.sid \in {None, k}
        BY <1>2, <4>1 DEF KeyIs, FlowEntries
      <4>3. \A i \in Invokers : \A r \in FlowEntries(i)' : r.sid = k
        BY <4>1 DEF KeyIs
      <4>4. KeyIs(k)'
        BY <4>1, <4>2, <4>3 DEF KeyIs
      <4> QED
        BY <4>4 DEF OneKey
    <3>3. Begun'
      BY <1>1, <1>2, <1>4, <3>1 DEF Begun
    <3>4. RowFirst'
      <4>1. ASSUME NEW i \in Invokers, Exists(rows[i]) \/ FlowEntries(i) # {}
            PROVE  Exists(rows'[i]) \/ FlowEntries(i)' # {}
        BY <1>3, <4>1 DEF FlowEntries
      <4>2. ASSUME NEW i \in Invokers, Events(batch', i) # {} PROVE Exists(rows'[i])
        BY <1>3, <3>1, <4>2 DEF RowFirst
      <4> QED
        BY <1>6, <3>1, <4>1, <4>2 DEF RowFirst
    <3>5. SameEvents'
      <4>1. ASSUME NEW i \in Invokers
            PROVE  /\ invs[i].state # "none" => rows'[i].durable <= invs[i].seq
                   /\ pc[i] \in Early => rows'[i].durable = 0
                   /\ \A r \in Events(queue, i) : r.seq \notin DOMAIN rows'[i].events
                   /\ \A r \in Events(batch, i) :
                        r.seq \in DOMAIN rows'[i].events => rows'[i].events[r.seq] = r.data
        <5> DEFINE row == Persisted(i).row
        <5>1. rows'[i] = row
          BY DEF NewTables
        <5>2. /\ Events(batch, i) = {} => row.durable = rows[i].durable
              /\ Events(batch, i) # {} =>
                   \E e \in Events(batch, i) : row.durable = Max({rows[i].durable, e.seq})
              /\ DOMAIN row.events
                   = DOMAIN rows[i].events \cup {r.seq : r \in Events(batch, i)}
              /\ \A n \in DOMAIN rows[i].events : row.events[n] = rows[i].events[n]
              /\ \A n \in DOMAIN row.events \ DOMAIN rows[i].events :
                   \E r \in Events(batch, i) : r.seq = n /\ row.events[n] = r.data
          BY <1>0, PersistedIs
        <5> HIDE DEF row
        <5>3. rows[i].durable \in Nat
          BY <1>0 DEF FlowType, RowOk
        <5>4. \A r \in Events(batch, i) : r.seq \in Nat /\ r.seq <= invs[i].seq
          BY <1>0, EventIs DEF FlowEvents, FlowInv, Bounded
        <5>5. invs[i].state # "none" => row.durable <= invs[i].seq
          <6>1. invs[i].state # "none" => rows[i].durable <= invs[i].seq
            BY <3>1 DEF SameEvents
          <6>2. \A r \in Events(batch, i) :
                  Max({rows[i].durable, r.seq}) \in {rows[i].durable, r.seq}
            BY <5>3, <5>4, MaxOfTwo
          <6>3. CASE Events(batch, i) = {}
            BY <5>2, <6>1, <6>3
          <6>4. CASE Events(batch, i) # {}
            <7>1. PICK r \in Events(batch, i) : row.durable = Max({rows[i].durable, r.seq})
              BY <5>2, <6>4
            <7>2. row.durable \in {rows[i].durable, r.seq}
              BY <6>2, <7>1
            <7>3. row.durable = rows[i].durable \/ row.durable = r.seq
              BY <7>2
            <7> QED
              BY <5>4, <6>1, <7>3
          <6> QED
            BY <6>3, <6>4
        <5>6. pc[i] \in Early => row.durable = 0
          <6>1. pc[i] \in Early => rows[i].durable = 0 /\ Events(batch, i) = {}
            BY <1>0, <3>1 DEF SameEvents, FlowInv, Unborn, FlowEvents
          <6> QED
            BY <5>2, <6>1
        <5>7. ASSUME NEW r \in Events(queue, i) PROVE r.seq \notin DOMAIN row.events
          <6>1. \A q \in Events(batch, i) : q.seq < r.seq
            BY <1>0 DEF FlowInv, FlowOrder, Precedes, Events
          <6>2. \A q \in Events(batch, i) : q.seq # r.seq
            BY <5>4, <6>1
          <6> QED
            BY <3>1, <5>2, <6>2 DEF SameEvents
        <5>8. ASSUME NEW r \in Events(batch, i), r.seq \in DOMAIN row.events
              PROVE  row.events[r.seq] = r.data
          <6>1. CASE r.seq \in DOMAIN rows[i].events
            BY <3>1, <5>2, <6>1 DEF SameEvents
          <6>2. CASE r.seq \notin DOMAIN rows[i].events
            <7>1. PICK q \in Events(batch, i) : q.seq = r.seq /\ row.events[r.seq] = q.data
              BY <5>2, <5>8, <6>2
            <7>2. q = r
              BY <1>0, <7>1, SameNumber
            <7> QED
              BY <7>1, <7>2
          <6> QED
            BY <6>1, <6>2
        <5> QED
          BY <5>1, <5>5, <5>6, <5>7, <5>8
      <4> QED
        BY <4>1 DEF SameEvents
    <3> QED
      BY <3>1, <3>2, <3>3, <3>4, <3>5
  <2> QED
    BY <1>6, <2>1 DEF TablesInv
<1> QED
  BY <1>1, <1>5, <1>8, <1>9 DEF SInv

LEMMA TransactionStep ==
  ASSUME SInv, Commit \/ CommitFails
  PROVE  SInv'
<1>0. CoreInv /\ StoreType /\ CallInv /\ FlowInv
  BY DEF SInv, CoreInv
<1>1. CASE Commit
  <2>1. /\ ~Refused /\ NewTables
        /\ UNCHANGED <<scenario, objects, sessions, keyed, pc, found, invs, driver, journal, lru,
                       available, life, lapses>>
    BY <1>1 DEF Commit, callVars, driverVars
  <2>2. /\ FlowInv' /\ Range(batch') = {} /\ queue' = queue
        /\ \A i \in Invokers :
             FlowEvents(i)' = Events(queue, i) /\ FlowEntries(i)' = Entries(queue, i)
    BY <1>0, <1>1, FlowCommit
  <2>3. \A i \in Invokers :
           /\ FlowEvents(i)' \subseteq FlowEvents(i) /\ Events(batch', i) \subseteq Events(batch, i)
           /\ FlowEntries(i)' \subseteq FlowEntries(i)
           /\ Events(queue', i) = Events(queue, i) /\ Entries(queue', i) = Entries(queue, i)
    <3>1. \A i \in Invokers : Events(batch', i) = {}
      BY <2>2 DEF Events
    <3> QED
      BY <2>2, <3>1 DEF FlowEvents, FlowEntries
  <2>4. \A i \in Invokers :
           /\ durable[i] <= durable'[i]
           /\ \/ durable'[i] = durable[i]
              \/ durable'[i] = 0 /\ Entries(batch, i) # {}
              \/ \E r \in Events(batch, i) : durable'[i] = r.seq
    BY <1>0, <1>1, DurableIs
  <2> QED
    BY <2>1, <2>2, <2>3, <2>4, TablesStep
<1>2. CASE CommitFails
  <2>1. /\ ~Refused /\ (NewTables \/ UNCHANGED tables)
        /\ UNCHANGED <<scenario, objects, sessions, keyed, pc, found, invs, driver, journal, lru,
                       queue, batch, durable, available, life, lapses>>
    BY <1>2 DEF CommitFails, callVars, driverVars, writerVars
  <2>2. CASE NewTables
    <3>1. /\ FlowInv'
          /\ \A i \in Invokers :
               FlowEvents(i)' = FlowEvents(i) /\ FlowEntries(i)' = FlowEntries(i)
      BY <1>0, <1>2, FlowCommitFails
    <3>2. \A i \in Invokers : durable[i] <= durable'[i]
      BY <1>0, <2>1 DEF FlowInv, FlowType, Absent
    <3> QED
      BY <2>1, <2>2, <3>1, <3>2, TablesStep
  <2>3. CASE UNCHANGED tables
    <3>1. UNCHANGED <<rows, sessionRow>>
      BY <2>3 DEF tables
    <3>2. CoreInv' /\ (Replaced' \/ StoreInv') /\ InMemory' = InMemory
      BY <2>1, StoreFrame, LapsesStay DEF SInv, memory
    <3>3. CallInv'
      BY <1>0, <2>1, <3>1 DEF CallInv, Waits
    <3>4. OneKey /\ Begun => OneKey' /\ Begun'
      BY <2>1, <3>1, <3>2, KeyStays
    <3> QED
      BY <2>1, <3>1, <3>2, <3>3, <3>4, QuietStep
  <2> QED
    BY <2>1, <2>2, <2>3
<1> QED
  BY <1>1, <1>2

(* Retention lets go only of what is durable.                              *)
LEMMA AdvanceStep ==
  ASSUME SInv, NEW i \in Invokers, Advance(i)
  PROVE  SInv'
<1>0. CoreInv /\ StoreType /\ CallInv /\ FlowInv /\ EndInv /\ TablesInv
  BY DEF SInv, CoreInv
<1>1. /\ UNCHANGED <<scenario, pc, found, invs, driver, recovering, queue, batch, durable,
                     available, rows, sessionRow, life, lapses>>
      /\ driver[i] = "ending" => Slow
  BY DEF Advance, tables, Slow
<1>2. /\ CoreInv' /\ (StoreInv => StoreInv') /\ keyed' \in {keyed, None}
      /\ \A o \in Holders : objects'[o].sid = objects[o].sid
      /\ \/ lru' = lru /\ UNCHANGED <<objects, sessions, keyed, journal>>
         \/ /\ Retirable(i) /\ Range(lru') \subseteq Range(lru) \cup {i}
            /\ \A j \in Invokers : \/ journal'[j] = journal[j]
                                   \/ j \in Range(lru) \cup {i} /\ journal'[j] = Absent
  BY <1>0, AdvanceKeeps
<1>3. FlowInv' /\ \A j \in Invokers : FlowEvents(j)' = FlowEvents(j)
                                      /\ FlowEntries(j)' = FlowEntries(j)
  BY <1>0, <1>1, FlowFrame DEF FlowEvents, FlowEntries
<1>4. CallInv'
  <2>1. /\ scenario' = scenario /\ pc' \in [Calls -> Places]
        /\ found' \in [Calls -> Invokers \cup {None}] /\ sessionRow' \in SessionRows
        /\ \A c \in Calls : pc'[c] = "admitting" => c \in Invokers /\ found'[c] \in Invokers
    BY <1>0, <1>1 DEF CallInv, Waits
  <2> QED
    BY <1>0, <1>1, <2>1, CallFrame
<1>5. /\ Slow' <=> Slow
      /\ (Replaced' <=> Replaced) /\ (Overtaken' <=> Overtaken) /\ (Doubled' <=> Doubled)
  BY <1>1 DEF Slow, Replaced, Overtaken, Doubled
<1>6. \A j \in Invokers : Held(j)' => Held(j)
  BY <1>2 DEF Held
(* What is kept has ended, and its end is durable.                         *)
<1>7. ASSUME Retirable(i)
      PROVE  /\ invs[i].state \in Ended /\ Held(i) /\ durable[i] # Absent
             /\ durable[i] >= invs[i].seq
             /\ ~Slow => driver[i] = "none" /\ rows[i].state \in Ended
  <2>1. invs[i].state \in Ended /\ Held(i) /\ durable[i] >= invs[i].seq
    BY <1>7 DEF Retirable, Held
  <2>2. durable[i] # Absent
    BY <1>0, <2>1 DEF CoreInv, StoreType, DriversFit, InvocationStates, Absent
  <2>3. ASSUME ~Slow PROVE driver[i] = "none" /\ rows[i].state \in Ended
    <3>1. driver[i] # "driving"
      BY <1>0, <2>1, StatesApart DEF CoreInv, DriversFit
    <3>2. driver[i] = "none"
      BY <1>0, <1>1, <2>3, <3>1 DEF StoreType
    <3> QED
      BY <1>0, <2>1, <3>2 DEF EndInv, Recorded
  <2> QED
    BY <2>1, <2>2, <2>3
<1>8. \A j \in Invokers :
        /\ j \in Range(lru') => /\ durable[j] # Absent
                                /\ ~Slow => rows[j].state \in Ended
        /\ Held(j) /\ ~Held(j)' => /\ durable[j] # Absent
                                   /\ ~Slow => rows[j].state \in Ended
  <2> TAKE j \in Invokers
  <2>1. j \in Range(lru) => durable[j] # Absent /\ (~Slow => rows[j].state \in Ended)
    BY <1>0 DEF EndInv, Settled, Retention
  <2>2. CASE lru' = lru /\ UNCHANGED <<objects, sessions, keyed, journal>>
    BY <2>1, <2>2 DEF Held
  <2>3. CASE /\ Retirable(i) /\ Range(lru') \subseteq Range(lru) \cup {i}
             /\ \A k \in Invokers : \/ journal'[k] = journal[k]
                                    \/ k \in Range(lru) \cup {i} /\ journal'[k] = Absent
    BY <1>7, <2>1, <2>3 DEF Held
  <2> QED
    BY <1>2, <2>2, <2>3
<1>9. Recorded'
  BY <1>0, <1>1, <1>3, <1>6 DEF EndInv, Recorded
<1>10. Retention'
  <2>1. ASSUME ~Slow PROVE RetainedUntilDurable'
    BY <1>0, <1>1, <1>8, <2>1 DEF EndInv, Retention, RetainedUntilDurable, Held
  <2>2. ASSUME ~Slow, NEW j \in Invokers, driver[j] = "ending" PROVE Held(j)'
    <3>1. Held(j)
      BY <1>0, <2>2 DEF EndInv, Retention
    <3>2. rows[j].state \notin Ended
      BY <1>0, <2>2 DEF FlowInv, EndsLast
    <3> QED
      BY <1>8, <2>2, <3>1, <3>2
  <2>3. Range(lru') \subseteq Invokers
    BY <1>2 DEF CoreInv, StoreType, Range
  <2> QED
    BY <1>1, <1>5, <1>8, <2>1, <2>2, <2>3 DEF Retention
<1>11. Settled' /\ Current' /\ NoOrphan'
  <2>1. Range(lru') \subseteq Invokers
    BY <1>2 DEF CoreInv, StoreType, Range
  <2> QED
    BY <1>0, <1>1, <1>5, <1>8, <2>1 DEF EndInv, Settled, Current, NoOrphan
(* The Session has a row when it leaves the memory.                        *)
<1>12. InMemory => InMemory' \/ sessionRow.sid # None
  <2>1. CASE UNCHANGED <<objects, sessions, keyed, journal>>
    BY <2>1 DEF InMemory
  <2>2. CASE Retirable(i)
    BY <1>0, <1>7, <2>2 DEF EndInv, Settled
  <2> QED
    BY <1>2, <2>1, <2>2
<1>13. ASSUME ~Doubled PROVE available' /\ OneKey' /\ Begun' /\ RowFirst' /\ SameEvents'
  <2>1. available /\ OneKey /\ Begun /\ RowFirst /\ SameEvents
    BY <1>0, <1>13 DEF TablesInv
  <2>2. available' /\ SameEvents'
    BY <1>1, <1>3, <2>1 DEF SameEvents
  <2>3. RowFirst'
    BY <1>1, <1>3, <1>6, <2>1 DEF RowFirst
  <2>4. OneKey' /\ Begun'
    BY <1>1, <1>2, <1>12, <2>1, KeyStays
  <2> QED
    BY <2>2, <2>3, <2>4
<1>14. Replaced' \/ StoreInv'
  BY <1>2, <1>5 DEF SInv
<1> QED
  BY <1>2, <1>3, <1>4, <1>5, <1>9, <1>10, <1>11, <1>13, <1>14 DEF SInv, EndInv, TablesInv

-----------------------------------------------------------------------------
(* A crash, and the start that follows it.                                 *)

(* What is recovered is the current Invocation of the Session's row, and   *)
(* it goes on where its durable events end.                                *)
LEMMA RecoveredIs ==
  ASSUME SInv, Restart
  PROVE  /\ \A i \in Recoverable :
              /\ i \in Invokers /\ sessionRow.current = i /\ sessionRow.sid \in Invokers
              /\ Recoverable = {i} /\ Exists(rows[i]) /\ rows[i].state \in Unfinished
              /\ invs'[i] = RestoredInvocation(i) /\ invs'[i].state \in Unfinished
              /\ invs'[i] \in InvocationStates /\ invs'[i].object = Restored
              /\ invs'[i].seq = rows[i].durable /\ journal'[i] = rows[i].durable
              /\ rows[i].durable \in Nat
         /\ \A i \in Invokers \ Recoverable :
              invs'[i] = NoInvocation /\ journal'[i] = Absent /\ driver'[i] = "none"
         /\ \A i \in Invokers : driver'[i] \in {"none", "driving"}
<1>0. /\ CallInv /\ FlowType /\ EndsLast /\ Current /\ SessionAssumption
  BY SessionAssumption DEF SInv, FlowInv, EndInv
<1>1. /\ invs' = [i \in Invokers |->
            IF i \in Recoverable THEN RestoredInvocation(i) ELSE NoInvocation]
      /\ journal' = [i \in Invokers |->
            IF i \in Recoverable THEN rows[i].durable ELSE Absent]
      /\ recovering' = {i \in Recoverable : RebuiltState(rows[i]) # "waiting"}
      /\ driver' = [i \in Invokers |-> IF i \in recovering' THEN "driving" ELSE "none"]
  BY DEF Restart
<1>2. \A i \in Invokers : driver'[i] \in {"none", "driving"}
  BY <1>1
<1>3. \A i \in Invokers \ Recoverable :
        invs'[i] = NoInvocation /\ journal'[i] = Absent /\ driver'[i] = "none"
  BY <1>1
<1>4. ASSUME NEW i \in Recoverable
      PROVE  /\ i \in Invokers /\ sessionRow.current = i /\ sessionRow.sid \in Invokers
             /\ Recoverable = {i} /\ Exists(rows[i]) /\ rows[i].state \in Unfinished
             /\ invs'[i] = RestoredInvocation(i) /\ invs'[i].state \in Unfinished
             /\ invs'[i] \in InvocationStates /\ invs'[i].object = Restored
             /\ invs'[i].seq = rows[i].durable /\ journal'[i] = rows[i].durable
             /\ rows[i].durable \in Nat
  <2>1. /\ i \in Invokers /\ sessionRow.current = i /\ Recoverable = {i}
        /\ Exists(rows[i]) /\ rows[i].state \in Unfinished
    BY <1>4 DEF Recoverable
  <2>2. sessionRow.sid \in Invokers
    BY <1>0, <2>1 DEF Current, CallInv, SessionRows, SessionAssumption
  <2>3. RowOk(rows[i])
    BY <1>0, <2>1 DEF FlowType
  <2>4. rows[i].durable \in Nat /\ rows[i].mode \in Modes
    BY <2>3 DEF RowOk
  <2>5. RebuiltState(rows[i]) \in Unfinished
    <3>1. \A n \in DOMAIN rows[i].events : rows[i].events[n].state \in Unfinished
      BY <1>0, <2>1 DEF EndsLast
    <3> QED
      BY <3>1, StatesApart DEF RebuiltState
  <2>6. invs'[i] = RestoredInvocation(i) /\ journal'[i] = rows[i].durable
    BY <1>1, <2>1, <1>4
  <2>7. /\ RestoredInvocation(i) \in InvocationStates
        /\ RestoredInvocation(i).state \in Unfinished
        /\ RestoredInvocation(i).object = Restored
        /\ RestoredInvocation(i).seq = rows[i].durable
    BY <2>4, <2>5 DEF RestoredInvocation, InvocationStates, States, Holders
  <2> QED
    BY <2>1, <2>2, <2>4, <2>6, <2>7
<1> QED
  BY <1>2, <1>3, <1>4

LEMMA RestartStep ==
  ASSUME SInv, Restart
  PROVE  SInv'
<1>0. CallInv /\ FlowInv /\ EndInv /\ TablesInv
  BY DEF SInv
<1> DEFINE R == Recoverable
           restored == IF R = {} THEN NoSession
                       ELSE [sid |-> sessionRow.sid, current |-> sessionRow.current,
                             invocations |-> R]
<1>1. /\ UNCHANGED <<scenario, rows, sessionRow, lapses>> /\ available' = TRUE /\ life' = life + 1
      /\ pc' = [c \in Calls |-> IF pc[c] = "idle" THEN "idle" ELSE "lost"]
      /\ found' = [c \in Calls |-> None]
      /\ lru' = <<>> /\ queue' = <<>> /\ batch' = <<>> /\ durable' = journal'
      /\ objects' = [[o \in Holders |-> NoSession] EXCEPT ![Restored] = restored]
      /\ sessions' = [s \in Invokers |->
            IF R # {} /\ s = sessionRow.sid THEN Restored ELSE None]
      /\ keyed' = IF R # {} THEN sessionRow.sid ELSE None
      /\ invs' = [i \in Invokers |-> invs'[i]]
      /\ journal' = [i \in Invokers |-> journal'[i]]
      /\ driver' = [i \in Invokers |-> driver'[i]]
  BY DEF Restart, tables, NoMemory, Holders
<1>2. /\ \A i \in R :
           /\ i \in Invokers /\ sessionRow.current = i /\ sessionRow.sid \in Invokers
           /\ R = {i} /\ Exists(rows[i]) /\ rows[i].state \in Unfinished
           /\ invs'[i].state \in Unfinished
           /\ invs'[i] \in InvocationStates /\ invs'[i].object = Restored
           /\ invs'[i].seq = rows[i].durable /\ journal'[i] = rows[i].durable
           /\ rows[i].durable \in Nat
      /\ \A i \in Invokers \ R :
           invs'[i] = NoInvocation /\ journal'[i] = Absent /\ driver'[i] = "none"
      /\ \A i \in Invokers : driver'[i] \in {"none", "driving"}
  BY RecoveredIs
<1>3. \A i \in Invokers : /\ invs'[i].state \notin Ended
                          /\ Held(i)' <=> i \in R
                          /\ invs'[i].state # "none" <=> i \in R
                          /\ invs'[i].state \in Unfinished <=> i \in R
                          /\ driver'[i] # "none" => i \in R
  <2> TAKE i \in Invokers
  <2>1. CASE i \in R
    BY <1>2, <2>1, StatesApart DEF Held, States, Absent
  <2>2. CASE i \notin R
    BY <1>2, <2>2, StatesApart DEF Held, States, NoInvocation, Ended
  <2> QED
    BY <2>1, <2>2
<1>4. /\ restored \in SessionObjects
      /\ R # {} => /\ sessionRow.sid \in Invokers /\ restored.sid = sessionRow.sid
                   /\ restored.current = sessionRow.current /\ restored.invocations = R
  <2>1. CASE R = {}
    BY <2>1 DEF NoSession, SessionObjects
  <2>2. CASE R # {}
    BY <1>2, <2>2 DEF SessionObjects
  <2> QED
    BY <2>1, <2>2
<1> HIDE DEF restored, R
<1>5. /\ objects' \in [Holders -> SessionObjects] /\ objects'[Restored] = restored
      /\ InMemory' <=> R # {}
      /\ R # {} => keyed' = sessionRow.sid /\ sessions'[keyed'] = Restored
      /\ R = {} => keyed' = None
      /\ \A o \in Holders : objects'[o].sid = IF o = Restored THEN restored.sid ELSE None
      /\ R = {} => restored.sid = None
  <2>1. NoSession \in SessionObjects /\ Restored \in Holders /\ None # Restored
        /\ None \notin Invokers
    BY SessionAssumption DEF NoSession, SessionObjects, Holders
  <2>2. objects' \in [Holders -> SessionObjects] /\ objects'[Restored] = restored
    BY <1>1, <1>4, <2>1
  <2>3. R # {} => keyed' = sessionRow.sid /\ sessions'[keyed'] = Restored /\ keyed' # None
    BY <1>1, <1>4, <2>1
  <2>4. InMemory' <=> R # {}
    BY <1>1, <2>1, <2>3 DEF InMemory
  <2>5. \A o \in Holders : objects'[o].sid = IF o = Restored THEN restored.sid ELSE None
    BY <1>1, <2>1 DEF NoSession
  <2>6. R = {} => restored.sid = None /\ keyed' = None
    BY <1>1 DEF restored, NoSession
  <2> QED
    BY <2>2, <2>3, <2>4, <2>5, <2>6
<1>6. StoreInv'
  <2>1. /\ sessions' \in [Invokers -> Holders \cup {None}] /\ keyed' \in Invokers \cup {None}
        /\ driver' \in [Invokers -> {"none", "driving", "ending"}]
    BY <1>1, <1>2, <1>4 DEF Holders
  <2>2. invs' \in [Invokers -> InvocationStates]
    <3>1. NoInvocation \in InvocationStates
      BY DEF NoInvocation, InvocationStates, Modes
    <3> QED
      BY <1>1, <1>2, <3>1
  <2>3. journal' \in [Invokers -> Nat \cup {Absent}]
    <3>1. \A i \in Invokers : journal'[i] \in Nat \cup {Absent}
      BY <1>2
    <3> QED
      BY <1>1, <3>1
  <2>4. StoreType' /\ Range(lru') = {}
    BY <1>1, <1>5, <2>1, <2>2, <2>3 DEF StoreType, Range
  <2>5. Keys'
    BY <1>1, <1>4, <1>5 DEF Keys
  <2>6. Journals'
    BY <1>2, <1>3, <1>4, <1>5 DEF Journals
  <2>7. Reached'
    BY <1>2, <1>3, <1>4, <1>5 DEF Reached
  <2>8. Placed'
    BY <1>2, <1>3, <1>4, <1>5 DEF Placed, Holders
  <2>9. DriversFit' /\ KeptEnded'
    BY <1>2, <1>3, <2>4 DEF DriversFit, KeptEnded
  <2>10. Booked'
    BY <1>2, <1>3 DEF Booked
  <2>11. Named'
    BY <1>1, <1>4, <1>5 DEF Named
  <2> QED
    BY <2>4, <2>5, <2>6, <2>7, <2>8, <2>9, <2>10, <2>11 DEF StoreInv, CoreInv
<1>7. pc' \in [Calls -> {"idle", "lost"}]
      /\ \A c \in Calls : pc'[c] \in Early => pc[c] = "idle"
  BY <1>1 DEF Early
<1>8. CallInv'
  <2>2. /\ pc' \in [Calls -> Places] /\ found' \in [Calls -> Invokers \cup {None}]
        /\ scenario' \in Scenarios /\ sessionRow' \in SessionRows
    BY <1>0, <1>1, <1>7 DEF CallInv, Places, Early
  <2> QED
    BY <1>7, <2>2 DEF CallInv, Waits
<1>9. /\ \A i \in Invokers : FlowEvents(i)' = {} /\ FlowEntries(i)' = {}
      /\ \A i \in Invokers : Events(queue', i) = {} /\ Events(batch', i) = {}
                             /\ Entries(batch', i) = {}
      /\ Range(queue') = {} /\ Range(batch') = {}
  <2>1. Range(queue') = {} /\ Range(batch') = {}
    BY <1>1 DEF Range
  <2>2. \A i \in Invokers : Events(queue', i) = {} /\ Events(batch', i) = {}
                            /\ Entries(batch', i) = {} /\ Entries(queue', i) = {}
    BY <2>1 DEF Events, Entries
  <2> QED
    BY <2>1, <2>2 DEF FlowEvents, FlowEntries
(* A call that has not begun has no row to be recovered.                   *)
<1>10. \A i \in Invokers : pc'[i] \in Early => pc[i] \in Early /\ i \notin R
  <2> SUFFICES ASSUME NEW i \in Invokers, pc'[i] \in Early
               PROVE  pc[i] \in Early /\ i \notin R
    OBVIOUS
  <2>1. pc[i] \in Early
    BY <1>7 DEF Calls, Early
  <2>2. invs[i].state = "none" /\ rows[i].state \notin Ended
    BY <1>0, <2>1 DEF FlowInv, Unborn
  <2>3. i \notin R
    BY <1>0, <1>2, <2>2 DEF EndInv, Current
  <2> QED
    BY <2>1, <2>3
<1>11. FlowInv'
  <2>1. FlowType'
    <3>1. durable' \in [Invokers -> Nat \cup {Absent}] /\ life' \in Nat
      BY <1>0, <1>1, <1>6 DEF StoreInv, CoreInv, StoreType, FlowInv, FlowType
    <3> QED
      BY <1>0, <1>1, <3>1 DEF FlowInv, FlowType
  <2>2. FlowOrder'
    BY <1>1, <1>9 DEF FlowOrder, InOrder
  <2>3. Bounded'
    <3>1. \A i \in Invokers : durable'[i] # Absent => durable'[i] <= invs'[i].seq
      BY <1>1, <1>2
    <3> QED
      BY <1>9, <3>1 DEF Bounded
  <2>4. Unborn'
    <3>1. \A i \in Invokers : pc'[i] \in Early =>
            /\ invs'[i].state = "none"
            /\ rows'[i].events = <<>> /\ rows'[i].state \notin Ended
      BY <1>0, <1>1, <1>3, <1>10 DEF FlowInv, Unborn
    <3>2. \A i \in Invokers : invs'[i].state = "none" => durable'[i] = Absent
      BY <1>1, <1>2, <1>3
    <3> QED
      BY <1>9, <3>1, <3>2 DEF Unborn
  <2>5. EndsLast'
    <3>1. \A i \in Invokers : driver'[i] # "none" \/ invs'[i].state \in Unfinished =>
            rows'[i].state \notin Ended
      BY <1>1, <1>2, <1>3, StatesApart
    <3>2. \A i \in Invokers : rows'[i].state \in Unfinished =>
            \A n \in DOMAIN rows'[i].events : rows'[i].events[n].state \in Unfinished
      BY <1>0, <1>1 DEF FlowInv, EndsLast
    <3> QED
      BY <1>9, <3>1, <3>2 DEF EndsLast
  <2> QED
    BY <2>1, <2>2, <2>3, <2>4, <2>5 DEF FlowInv
<1>12. EndInv'
  <2>1. Range(lru') = {}
    BY <1>1 DEF Range
  <2>2. Recorded'
    BY <1>3 DEF Recorded
  <2>3. Retention' /\ Settled'
    <3>1. RetainedUntilDurable'
      BY <1>3 DEF RetainedUntilDurable, Held
    <3>2. \A i \in Invokers : driver'[i] # "ending"
      BY <1>2
    <3>3. \A i \in Invokers : durable'[i] # Absent => Exists(rows[i])
      BY <1>1, <1>2
    <3>4. Settled'
      BY <1>0, <1>1, <2>1, <3>3 DEF EndInv, Settled
    <3> QED
      BY <2>1, <3>1, <3>2, <3>4 DEF Retention
  <2>4. Current'
    <3>1. ASSUME NEW i \in Invokers, sessionRow.current = i
          PROVE  Exists(rows[i]) /\ (rows[i].state \in Ended \/ i \in R)
      <4>1. Exists(rows[i]) /\ rows[i].state \in States
        BY <1>0, <3>1 DEF EndInv, Current, FlowInv, FlowType, RowOk
      <4> QED
        BY <3>1, <4>1 DEF Recoverable, R, States
    <3> QED
      BY <1>0, <1>1, <1>3, <3>1 DEF EndInv, Current
  <2>5. NoOrphan'
    BY <1>7 DEF NoOrphan
  <2> QED
    BY <2>2, <2>3, <2>4, <2>5 DEF EndInv
<1>13. TablesInv'
  <2>1. Doubled' <=> Doubled
    BY <1>1 DEF Doubled
  <2>2. ASSUME ~Doubled PROVE OneKey' /\ Begun'
    <3>1. PICK k \in Holders : KeyIs(k)
      BY <1>0, <2>2 DEF TablesInv, OneKey
    <3>2. KeyIs(k)'
      BY <1>1, <1>4, <1>5, <1>9, <3>1 DEF KeyIs
    <3>3. Begun'
      BY <1>1, <1>5 DEF Begun
    <3> QED
      BY <3>2, <3>3 DEF OneKey
  <2>3. RowFirst'
    BY <1>1, <1>2, <1>3, <1>9 DEF RowFirst
  <2>4. ASSUME ~Doubled PROVE SameEvents'
    <3>1. \A i \in Invokers : pc[i] \in Early => rows[i].durable = 0
      BY <1>0, <2>4 DEF TablesInv, SameEvents
    <3>2. \A i \in Invokers : invs'[i].state # "none" => rows[i].durable <= invs'[i].seq
      BY <1>2, <1>3
    <3> QED
      BY <1>1, <1>9, <1>10, <3>1, <3>2 DEF SameEvents
  <2> QED
    BY <1>1, <2>1, <2>2, <2>3, <2>4 DEF TablesInv
<1> QED
  BY <1>6, <1>8, <1>11, <1>12, <1>13 DEF SInv, StoreInv

-----------------------------------------------------------------------------
(* The invariant.                                                          *)

LEMMA SessionInit ==
  ASSUME Init
  PROVE  SInv
<1>1. /\ scenario \in Scenarios /\ available = TRUE /\ life = 0 /\ keyed = None
      /\ pc = [c \in Calls |-> "idle"] /\ found = [c \in Calls |-> None]
      /\ objects = [o \in Holders |-> NoSession] /\ sessions = [s \in Invokers |-> None]
      /\ invs = [i \in Invokers |-> NoInvocation]
      /\ journal = [i \in Invokers |-> Absent] /\ durable = [i \in Invokers |-> Absent]
      /\ driver = [i \in Invokers |-> "none"]
      /\ lru = <<>> /\ queue = <<>> /\ batch = <<>>
      /\ rows = [i \in Invokers |-> AdmissionRow("none")]
      /\ sessionRow = [sid |-> None, current |-> None]
  BY DEF Init, NoMemory, Holders
<1>2. /\ NoInvocation \in InvocationStates /\ NoInvocation.state = "none"
      /\ NoSession \in SessionObjects /\ "none" \notin States
  BY StatesApart DEF NoInvocation, NoSession, InvocationStates, SessionObjects, Modes
<1>3. ~InMemory /\ Range(lru) = {} /\ Range(queue) = {} /\ Range(batch) = {}
  BY <1>1 DEF InMemory, Range
<1>4. /\ \A i \in Invokers : /\ ~Held(i) /\ invs[i].state = "none" /\ driver[i] = "none"
                             /\ durable[i] = Absent /\ rows[i] = AdmissionRow("none")
                             /\ invs[i].state \notin Ended /\ invs[i].state \notin Unfinished
      /\ \A i \in Invokers : /\ Events(queue, i) = {} /\ Events(batch, i) = {}
                             /\ Entries(queue, i) = {} /\ Entries(batch, i) = {}
                             /\ FlowEvents(i) = {} /\ FlowEntries(i) = {}
  <2>1. \A i \in Invokers : /\ ~Held(i) /\ invs[i].state = "none" /\ driver[i] = "none"
                            /\ durable[i] = Absent /\ rows[i] = AdmissionRow("none")
    BY <1>1, <1>2 DEF Held
  <2>2. \A i \in Invokers : /\ Events(queue, i) = {} /\ Events(batch, i) = {}
                            /\ Entries(queue, i) = {} /\ Entries(batch, i) = {}
    BY <1>3 DEF Events, Entries
  <2> QED
    BY <1>2, <2>1, <2>2 DEF FlowEvents, FlowEntries, States
<1>5. StoreInv
  <2>1. /\ sessions \in [Invokers -> Holders \cup {None}] /\ keyed \in Invokers \cup {None}
        /\ objects \in [Holders -> SessionObjects] /\ invs \in [Invokers -> InvocationStates]
        /\ journal \in [Invokers -> Nat \cup {Absent}]
        /\ driver \in [Invokers -> {"none", "driving", "ending"}] /\ lru \in Seq(Invokers)
    BY <1>1, <1>2
  <2>2. Keys
    BY <1>1 DEF Keys
  <2>3. Journals /\ Reached /\ Placed /\ Booked
    BY <1>3, <1>4 DEF Journals, Reached, Placed, Booked
  <2>4. Named
    BY <1>1 DEF Named
  <2>5. DriversFit /\ KeptEnded
    BY <1>3, <1>4 DEF DriversFit, KeptEnded
  <2> QED
    BY <2>1, <2>2, <2>3, <2>4, <2>5 DEF StoreInv, CoreInv, StoreType
<1>6. CallInv
  <2>2. /\ pc \in [Calls -> Places] /\ found \in [Calls -> Invokers \cup {None}]
        /\ sessionRow \in SessionRows
    BY <1>1 DEF Places, Early, SessionRows
  <2> QED
    BY <1>1, <2>2 DEF CallInv, Waits
<1>7. \A i \in Invokers : /\ RowOk(rows[i]) /\ rows[i].events = <<>> /\ rows[i].durable = 0
                          /\ rows[i].state = "created" /\ ~Exists(rows[i])
  <2>1. RowOk(AdmissionRow("none"))
    BY DEF RowOk, AdmissionRow, Modes, States, Unfinished
  <2> QED
    BY <1>4, <2>1 DEF AdmissionRow, Exists
<1>8. FlowInv
  <2>1. FlowType
    <3>1. rows = [i \in Invokers |-> rows[i]]
      BY <1>1
    <3> QED
      BY <1>1, <1>7, <3>1 DEF FlowType
  <2>2. FlowOrder
    BY <1>1, <1>3 DEF FlowOrder, InOrder
  <2>3. Bounded
    BY <1>4 DEF Bounded
  <2>4. Unborn
    BY <1>4, <1>7 DEF Unborn, Ended
  <2>5. EndsLast
    BY <1>4, <1>7 DEF EndsLast, Ended
  <2> QED
    BY <2>1, <2>2, <2>3, <2>4, <2>5 DEF FlowInv
<1>9. EndInv
  <2>1. Recorded /\ Retention /\ Settled
    BY <1>3, <1>4, <1>7 DEF Recorded, Retention, RetainedUntilDurable, Settled
  <2>2. Current
    BY <1>1, SessionAssumption DEF Current
  <2>3. NoOrphan
    BY <1>1 DEF NoOrphan
  <2> QED
    BY <2>1, <2>2, <2>3 DEF EndInv
<1>10. TablesInv
  <2>1. OneKey
    <3>1. KeyIs(Restored)
      BY <1>1, <1>2, <1>4 DEF KeyIs, NoSession
    <3> QED
      BY <3>1 DEF OneKey, Holders
  <2>2. Begun
    BY <1>1 DEF Begun, NoSession
  <2>3. RowFirst
    BY <1>4 DEF RowFirst
  <2>4. SameEvents
    BY <1>4, <1>7 DEF SameEvents
  <2> QED
    BY <1>1, <2>1, <2>2, <2>3, <2>4 DEF TablesInv
<1> QED
  BY <1>5, <1>6, <1>8, <1>9, <1>10 DEF SInv, StoreInv

LEMMA SessionNext ==
  ASSUME SInv, [Next]_vars
  PROVE  SInv'
<1>1. ASSUME NEW c \in Calls, Call(c) PROVE SInv'
  BY <1>1, FindStep, LookupSteps, ReturnsStep DEF Call
<1>2. ASSUME Writer PROVE SInv'
  BY <1>2, TakeStep, HaltStep, TransactionStep, AdvanceStep DEF Writer
<1>3. CASE UNCHANGED vars
  <2>1. UNCHANGED <<scenario, objects, sessions, keyed, pc, found, invs, driver, journal, lru,
                    queue, batch, durable, available, rows, sessionRow, life, lapses>>
    BY <1>3 DEF vars, callVars, driverVars, writerVars, tables
  <2>2. CoreInv' /\ (Replaced' \/ StoreInv') /\ InMemory' = InMemory
    BY <2>1, StoreFrame, LapsesStay DEF SInv, memory
  <2>3. CallInv'
    BY <2>1 DEF SInv, CallInv, Waits
  <2>4. OneKey /\ Begun => OneKey' /\ Begun'
    BY <2>1, <2>2, KeyStays
  <2> QED
    BY <2>1, <2>2, <2>3, <2>4, QuietStep
<1> QED
  BY <1>1, <1>2, <1>3, ResumeStep, AdmitStep, DriveStep, RestartStep DEF Next

LEMMA SessionInvariant ==
  Spec => []SInv
<1>1. Init => SInv
  BY SessionInit
<1>2. SInv /\ [Next]_vars => SInv'
  BY SessionNext
<1> QED
  BY <1>1, <1>2, PTL DEF Spec

-----------------------------------------------------------------------------
(* An active Invocation has its journal; and until a lookup replaces the   *)
(* object of the Session, it is the current one of the Session that the    *)
(* key leads to: the next call finds it, whatever the calls, the retention *)
(* and the crashes before it (afind_session, aclaim_waiting_session).      *)
THEOREM ActiveIsReachable ==
  Spec => []ActiveReachable
<1>1. SInv => ActiveReachable
  BY DEF SInv, StoreInv, CoreInv, Booked, Reached, ActiveReachable
<1> QED
  BY <1>1, SessionInvariant, PTL

(* A Session has one active Invocation at most, until a lookup replaces    *)
(* its object: no wait of a call, for the database or for memory, lets a   *)
(* second one in (_ensure_session_can_admit).                              *)
THEOREM OneIsActive ==
  Spec => []OneActiveUntilReplaced
<1>1. SInv => OneActiveUntilReplaced
  <2> SUFFICES ASSUME SInv, ~Replaced PROVE OneActivePerSession
    BY DEF OneActiveUntilReplaced
  <2> DEFINE A == {i \in Invokers : invs[i].state \in Unfinished}
             x == objects[sessions[keyed]].current
  <2>1. \A i \in A : i = x
    BY DEF SInv, StoreInv, Reached
  <2>2. A = {} \/ A = {x}
    BY <2>1
  <2> HIDE DEF x, A
  <2>3. Cardinality({}) = 0 /\ Cardinality({x}) = 1
    BY FS_EmptySet, FS_Singleton
  <2>4. Cardinality(A) <= 1
    BY <2>2, <2>3
  <2> QED
    BY <2>4 DEF OneActivePerSession, A
<1> QED
  BY <1>1, SessionInvariant, PTL

(* Memory lets go of an Invocation only when the database has it as ended, *)
(* whatever object stands for the Session by now, unless the writer comes  *)
(* between an end and its record (_persistence_advanced,                   *)
(* _evict_invocation).                                                     *)
THEOREM EvictionIsDurable ==
  Spec => []EvictedDurable
<1>1. SInv => EvictedDurable
  BY DEF SInv, EndInv, Retention, Slow, EvictedDurable
<1> QED
  BY <1>1, SessionInvariant, PTL

(* Whatever crashes, nothing drives an Invocation that the database has as *)
(* ended (alist_recoverable_invocation_ids); and no call is told that an   *)
(* active one was not loaded by the start, unless the writer came between  *)
(* an end and its record, or another call put the Session in memory during *)
(* its lookup or replaced it (afind_session).                              *)
THEOREM NothingResurrected ==
  Spec => []NoResurrection
<1>1. SInv => NoResurrection
  BY DEF SInv, FlowInv, EndsLast, EndInv, NoOrphan, Slow, NoResurrection
<1> QED
  BY <1>1, SessionInvariant, PTL

(* Until a call that did not find the Session's row makes the key a second *)
(* Session, the tables refuse no record of the process: the key belongs to *)
(* its Session, a row comes before its events, and an event that is        *)
(* written again is the same (_persist_admission, _persist_events).        *)
THEOREM PersistenceNeverHalts ==
  Spec => []NeverHalts
<1>1. SInv => NeverHalts
  BY DEF SInv, TablesInv, NeverHalts
<1> QED
  BY <1>1, SessionInvariant, PTL

-----------------------------------------------------------------------------
(* What the tables give back.                                              *)

(* A row whose events have no gap and whose recovery state is the state    *)
(* after one of them.                                                      *)
Solid(row) ==
  /\ DOMAIN row.events = 1 .. row.durable
  /\ row.image = row.recovery /\ row.recovery \in 0 .. row.durable
PointsOf(row) == {n \in DOMAIN row.events : row.events[n].point}
AtPoint(row) == row.mode = "standard" => row.recovery \in {0} \cup PointsOf(row)
CacheOk(cache) == cache.projection \in Nat => cache.state = cache.projection
Solids ==
  /\ DOMAIN caches = Invokers
  /\ \A i \in Invokers : Solid(rows[i]) /\ AtPoint(rows[i]) /\ CacheOk(caches[i])

(* Between what is durable and what was recorded last, every event is on   *)
(* its way.                                                                *)
Gapless ==
  /\ batch # <<>> => available
  /\ available => \A i \in Invokers : invs[i].state # "none" =>
       \A n \in 1 .. invs[i].seq :
         rows[i].durable < n \/ (\E r \in FlowEvents(i) : r.seq < n) =>
           \E r \in FlowEvents(i) : r.seq = n

(* The tables are never ahead of a transaction that is tried again.        *)
Ahead ==
  \A i \in Invokers :
    /\ invs[i].state # "none" => rows[i].durable <= invs[i].seq
    /\ pc[i] \in Early => ~Exists(rows[i])
    /\ \A r \in Events(queue, i) : r.seq > rows[i].durable
    /\ Events(batch, i) # {} => \E r \in Events(batch, i) : r.seq >= rows[i].durable
    /\ \A r \in Events(batch, i) :
         r.seq \in DOMAIN rows[i].events => rows[i].events[r.seq] = r.data

(* A row comes before its events while the writer is alive.                *)
OwnRow == available => RowFirst

(* An event that has lost its snapshot has a later one behind it.          *)
Carry ==
  \A i \in Invokers : \A r \in FlowEvents(i) :
    /\ r.snapshot \in {0, r.seq} /\ (r.snapshot # 0 => r.data.point)
    /\ r.data.point /\ r.snapshot = 0 =>
         \E q \in FlowEvents(i) : q.seq > r.seq /\ q.snapshot # 0

(* While a row lacks its newest point, nothing of the Invocation is kept   *)
(* or evicted by the retention policy; so until a crash, or the end of the *)
(* writer.                                                                 *)
Missing(row) == row.mode = "standard" /\ row.recovery # Max({0} \cup PointsOf(row))
Pending(i) == Missing(rows[i]) \/ \E r \in FlowEvents(i) : r.data.point /\ r.snapshot = 0
Lags ==
  /\ life = 0 /\ available => \A i \in Invokers :
       /\ Missing(rows[i]) => OnItsWay(i)
       /\ Pending(i) => Held(i) /\ i \notin Range(lru)
  /\ \A i \in Range(lru) : driver[i] = "ending" => FlowEvents(i) = {}

HistoryInv == Solids /\ Gapless /\ Ahead /\ OwnRow /\ Carry /\ Lags

-----------------------------------------------------------------------------
(* The reduction of events that follow one another.                        *)

(* f reduces each prefix of the numbers.                                   *)
Reduces(f, state, numbers) ==
  f = [k \in 0 .. Len(numbers) |->
         IF k = 0 THEN state ELSE Apply(f[k - 1], numbers[k])]

LEMMA ReduceIsFold ==
  ASSUME NEW state, NEW numbers, \E f : Reduces(f, state, numbers)
  PROVE  \E f : Reduces(f, state, numbers) /\ Reduce(state, numbers) = f[Len(numbers)]
<1> DEFINE reduced[k \in 0 .. Len(numbers)] ==
      IF k = 0 THEN state ELSE Apply(reduced[k - 1], numbers[k])
<1>1. Reduces(reduced, state, numbers)
  BY DEF Reduces
<1>2. Reduce(state, numbers) = reduced[Len(numbers)]
  BY DEF Reduce
<1> QED
  BY <1>1, <1>2

LEMMA ReduceIs ==
  ASSUME NEW state \in Nat, NEW m \in Nat, NEW numbers,
         numbers = [k \in 1 .. m |-> state + k]
  PROVE  Reduce(state, numbers) = state + m
<1>1. numbers \in Seq(Nat) /\ Len(numbers) = m
  OBVIOUS
<1> DEFINE g == [k \in 0 .. m |-> state + k]
<1>2. ASSUME NEW k \in 0 .. m, k # 0 PROVE Apply(g[k - 1], numbers[k]) = state + k
  BY <1>2 DEF Apply, Garbage
<1>3. Reduces(g, state, numbers)
  <2>1. \A k \in 0 .. m : g[k] = IF k = 0 THEN state ELSE Apply(g[k - 1], numbers[k])
    <3> TAKE k \in 0 .. m
    <3>1. k = 0 => g[k] = state
      OBVIOUS
    <3>2. k # 0 => g[k] = Apply(g[k - 1], numbers[k])
      BY <1>2
    <3> QED
      BY <3>1, <3>2
  <2> HIDE DEF g
  <2>2. g = [k \in 0 .. m |-> g[k]]
    BY DEF g
  <2> QED
    BY <1>1, <2>1, <2>2 DEF Reduces
<1>4. PICK f : Reduces(f, state, numbers) /\ Reduce(state, numbers) = f[m]
  BY <1>1, <1>3, ReduceIsFold
<1> HIDE DEF g
<1> DEFINE Bad == {k \in 0 .. m : f[k] # state + k}
<1>5. Bad = {}
  <2> SUFFICES ASSUME Bad # {} PROVE FALSE
    OBVIOUS
  <2>0. Bad \in SUBSET Nat
    OBVIOUS
  <2>1. PICK k \in Bad : \A l \in Bad : k <= l
    BY <2>0, LeastExists
  <2>2. f[k] = IF k = 0 THEN state ELSE Apply(f[k - 1], numbers[k])
    BY <1>1, <1>4 DEF Reduces
  <2>3. k # 0
    BY <2>1, <2>2
  <2>4. k - 1 \in 0 .. m /\ ~(k <= k - 1) /\ k \in 1 .. m
    BY <2>1, <2>3
  <2>5. f[k - 1] = state + (k - 1)
    BY <2>1, <2>4
  <2>6. f[k] = state + k
    BY <2>2, <2>3, <2>4, <2>5 DEF Apply, Garbage
  <2> QED
    BY <2>1, <2>6
<1> QED
  BY <1>4, <1>5

LEMMA ReduceNumbers ==
  ASSUME NEW from \in Nat, NEW to \in Nat, from <= to
  PROVE  Reduce(from, Numbers(from, to)) = to
<1>1. Numbers(from, to) = [k \in 1 .. to - from |-> from + k] /\ to - from \in Nat
  BY DEF Numbers
<1>2. Reduce(from, Numbers(from, to)) = from + (to - from)
  BY <1>1, ReduceIs
<1> QED
  BY <1>2

(* A sequence of numbers that increases and leaves out none of an interval.*)
LEMMA IntervalSequence ==
  ASSUME NEW a \in Nat, NEW b \in Nat, a <= b, NEW s \in Seq(Nat), Range(s) = a + 1 .. b,
         \A j, k \in 1 .. Len(s) : j < k => s[j] < s[k]
  PROVE  s = [k \in 1 .. b - a |-> a + k]
<1>1. Len(s) \in Nat /\ DOMAIN s = 1 .. Len(s) /\ \A k \in 1 .. Len(s) : s[k] \in Nat
  OBVIOUS
<1>2. /\ \A k \in 1 .. Len(s) : s[k] \in a + 1 .. b
      /\ \A n \in a + 1 .. b : \E k \in 1 .. Len(s) : s[k] = n
  BY <1>1 DEF Range
<1> DEFINE Bad == {k \in 1 .. Len(s) : s[k] # a + k}
<1>3. Bad = {}
  <2> SUFFICES ASSUME Bad # {} PROVE FALSE
    OBVIOUS
  <2>1. Bad \in SUBSET Nat
    BY <1>1
  <2>2. PICK k \in Bad : \A l \in Bad : k <= l
    BY <2>1, LeastExists
  <2>3. k \in 1 .. Len(s) /\ s[k] # a + k /\ s[k] \in Nat /\ k \in Nat /\ s[k] >= a + 1
    <3>1. k \in 1 .. Len(s) /\ s[k] # a + k
      BY <2>2
    <3>2. s[k] \in a + 1 .. b /\ k \in Nat
      BY <1>1, <1>2, <3>1
    <3> QED
      BY <3>1, <3>2
  <2>4. \A l \in 1 .. Len(s) : l < k => s[l] = a + l
    BY <1>1, <2>2, <2>3
  <2>5. s[k] > a + k
    <3>1. CASE k = 1
      BY <2>3, <3>1
    <3>2. CASE k # 1
      <4>1. k - 1 \in 1 .. Len(s) /\ k - 1 < k
        BY <1>1, <2>3, <3>2
      <4>2. s[k - 1] = a + (k - 1) /\ s[k - 1] < s[k]
        BY <2>3, <2>4, <4>1
      <4>3. a + (k - 1) < s[k]
        BY <4>2
      <4>4. \A v, x, y \in Nat : x + (y - 1) < v /\ v # x + y => v > x + y
        OBVIOUS
      <4> HIDE DEF Bad
      <4> QED
        BY <2>3, <4>3, <4>4
    <3> QED
      BY <3>1, <3>2
  <2>6. a + k \in a + 1 .. b
    BY <1>1, <1>2, <2>3, <2>5
  <2>7. PICK l \in 1 .. Len(s) : s[l] = a + k
    BY <1>2, <2>6
  <2>8. ~(l < k)
    BY <1>1, <2>3, <2>4, <2>7
  <2>9. l # k
    BY <2>3, <2>7
  <2>10. s[k] < s[l]
    BY <1>1, <2>3, <2>8, <2>9
  <2> QED
    BY <2>3, <2>5, <2>7, <2>10
<1>4. \A k \in 1 .. Len(s) : s[k] = a + k
  BY <1>3
<1>5. Len(s) = b - a
  <2>1. ~(Len(s) > b - a)
    <3>1. ASSUME Len(s) > b - a PROVE FALSE
      <4>1. Len(s) \in 1 .. Len(s)
        BY <1>1, <3>1
      <4>2. s[Len(s)] = a + Len(s) /\ s[Len(s)] \in a + 1 .. b
        BY <1>2, <1>4, <4>1
      <4>3. a + Len(s) <= b /\ Len(s) \in Nat
        BY <1>1, <4>2
      <4> QED
        BY <3>1, <4>3
    <3> QED
      BY <3>1
  <2>2. ~(Len(s) < b - a)
    <3>1. ASSUME Len(s) < b - a PROVE FALSE
      <4>1. b \in a + 1 .. b
        BY <1>1, <3>1
      <4>2. PICK k \in 1 .. Len(s) : s[k] = b
        BY <1>2, <4>1
      <4> QED
        BY <1>1, <1>4, <3>1, <4>2
    <3> QED
      BY <3>1
  <2> QED
    BY <1>1, <2>1, <2>2
<1> QED
  BY <1>1, <1>4, <1>5

-----------------------------------------------------------------------------
(* What a transaction makes of a row.                                      *)

(* s continues the row: it may begin with events that the row has, as when *)
(* a transaction is tried again, and then leaves out none.                 *)
Continues(row, s) ==
  /\ s \in Seq(EventRecords) /\ s # <<>>
  /\ \A j, k \in 1 .. Len(s) : j < k => s[j].seq < s[k].seq
  /\ Last(s) \in Range(s) /\ row.durable <= Last(s).seq
  /\ \A r \in Range(s) :
       /\ r.seq <= Last(s).seq
       /\ r.snapshot \in {0, r.seq} /\ (r.snapshot # 0 => r.data.point)
       /\ r.seq \in DOMAIN row.events => row.events[r.seq] = r.data
  /\ \A n \in 1 .. Last(s).seq :
       row.durable < n \/ (\E r \in Range(s) : r.seq < n) => \E r \in Range(s) : r.seq = n

LEMMA ContinuesIs ==
  ASSUME NEW row, NEW s, Continues(row, s)
  PROVE  /\ DOMAIN s = 1 .. Len(s) /\ Len(s) \in Nat
         /\ \A r \in Range(s) : /\ r \in EventRecords /\ r.seq \in Nat /\ r.seq > 0
                                /\ r.snapshot \in Nat
         /\ Last(s).seq \in Nat /\ Last(s).seq > 0
<1>1. DOMAIN s = 1 .. Len(s) /\ Len(s) \in Nat /\ \A k \in 1 .. Len(s) : s[k] \in EventRecords
  BY DEF Continues
<1>2. \A r \in EventRecords : r.seq \in Nat /\ r.seq > 0 /\ r.snapshot \in Nat
  BY DEF EventRecords
<1>3. \A r \in Range(s) : r \in EventRecords
  BY <1>1 DEF Range
<1> QED
  BY <1>1, <1>2, <1>3 DEF Continues

(* What is kept of events in order is in order.                            *)
LEMMA KeptIncreases ==
  ASSUME NEW s \in Seq(EventRecords), NEW S, NEW q, q = Kept(s, S),
         \A j, k \in 1 .. Len(s) : j < k => s[j].seq < s[k].seq
  PROVE  \A j, k \in 1 .. Len(q) : j < k => q[j].seq < q[k].seq
<1> SUFFICES ASSUME NEW j \in 1 .. Len(q), NEW k \in 1 .. Len(q), j < k
             PROVE  q[j].seq < q[k].seq
  OBVIOUS
<1>1. \E m, n \in 1 .. Len(s) : m < n /\ q[j] = s[m] /\ q[k] = s[n]
  BY KeptOrder
<1> QED
  BY <1>1

(* The state of the full mode after the batch.                             *)
LEMMA ProjectIs ==
  ASSUME NEW row, row.durable \in Nat, Solid(row), NEW cache, CacheOk(cache),
         NEW s, Continues(row, s)
  PROVE  /\ Project(row, cache, s).state = Last(s).seq
         /\ Project(row, cache, s).projection = Last(s).seq
<1> DEFINE d == row.durable
           last == Last(s).seq
           loaded == LoadProjection(row, cache)
           S == {e \in Range(s) : e.seq > d}
           new == Kept(s, S)
           numbers == [k \in DOMAIN new |-> new[k].seq]
<1>1. loaded.state = d /\ loaded.projection = d
  <2>1. CASE cache.state # Garbage /\ cache.projection = row.durable
    BY <2>1 DEF LoadProjection, CacheOk
  <2>2. CASE ~(cache.state # Garbage /\ cache.projection = row.durable)
    <3>1. row.recovery \in Nat /\ row.recovery <= d /\ row.image = row.recovery
      BY DEF Solid
    <3>2. Reduce(row.image, Numbers(row.recovery, row.durable)) = d
      BY <3>1, ReduceNumbers
    <3> QED
      BY <2>2, <3>2 DEF LoadProjection
  <2> QED
    BY <2>1, <2>2
<1>2. /\ s \in Seq(EventRecords) /\ last \in Nat /\ d <= last
      /\ \A r \in Range(s) : r \in EventRecords /\ r.seq \in Nat /\ r.seq > 0 /\ r.seq <= last
      /\ DOMAIN s = 1 .. Len(s)
  BY ContinuesIs DEF Continues
<1>3. new \in Seq(EventRecords) /\ Range(new) = S
  <2>1. new \in Seq(EventRecords) /\ Range(new) = Range(s) \cap S
    BY <1>2, KeptIs
  <2> QED
    BY <2>1
<1>0. /\ new = Kept(s, S) /\ S = {e \in Range(s) : e.seq > d}
  OBVIOUS
<1> HIDE DEF new, S
<1>4. \A j, k \in 1 .. Len(new) : j < k => new[j].seq < new[k].seq
  BY <1>0, <1>2, KeptIncreases DEF Continues
<1>5. /\ DOMAIN new = 1 .. Len(new) /\ Len(new) \in Nat
      /\ \A k \in 1 .. Len(new) : new[k] \in S
  <2>1. DOMAIN new = 1 .. Len(new) /\ Len(new) \in Nat
    BY <1>3
  <2> QED
    BY <1>3, <2>1 DEF Range
<1>6. \A k \in 1 .. Len(new) : new[k].seq \in Nat
  BY <1>2, <1>5, <1>0
<1>7. /\ numbers \in Seq(Nat) /\ Len(numbers) = Len(new)
      /\ \A k \in 1 .. Len(new) : numbers[k] = new[k].seq
  BY <1>5, <1>6
<1>8. Range(numbers) = d + 1 .. last
  <2>1. ASSUME NEW k \in 1 .. Len(new) PROVE numbers[k] \in d + 1 .. last
    <3>1. new[k] \in Range(s) /\ new[k].seq > d
      BY <1>5, <1>0
    <3> QED
      BY <1>2, <1>7, <3>1
  <2>2. ASSUME NEW n \in d + 1 .. last PROVE \E k \in 1 .. Len(new) : numbers[k] = n
    <3>1. n \in 1 .. last /\ d < n
      BY <1>2
    <3>2. PICK r \in Range(s) : r.seq = n
      BY <3>1 DEF Continues
    <3>3. r \in Range(new)
      BY <1>3, <1>0, <3>1, <3>2
    <3>4. PICK k \in 1 .. Len(new) : new[k] = r
      BY <1>5, <3>3 DEF Range
    <3> QED
      BY <1>7, <3>2, <3>4
  <2>3. DOMAIN numbers = 1 .. Len(new)
    BY <1>5
  <2> HIDE DEF numbers
  <2> QED
    BY <2>1, <2>2, <2>3 DEF Range
<1>9. \A j, k \in 1 .. Len(numbers) : j < k => numbers[j] < numbers[k]
  BY <1>4, <1>7
<1> HIDE DEF numbers
<1>10. numbers = [k \in 1 .. last - d |-> d + k]
  BY <1>2, <1>7, <1>8, <1>9, IntervalSequence
<1>11. Reduce(d, numbers) = last
  <2>1. last - d \in Nat
    BY <1>2
  <2>2. Reduce(d, numbers) = d + (last - d)
    BY <1>10, <2>1, ReduceIs
  <2> QED
    BY <1>2, <2>2
<1>12. Project(row, cache, s) = [state |-> Reduce(loaded.state, numbers), projection |-> last]
  <2>1. S = {e \in Range(s) : e.seq > loaded.projection}
    BY <1>1, <1>0
  <2> QED
    BY <2>1 DEF Project, numbers, new
<1> QED
  BY <1>1, <1>11, <1>12

(* The points of a row, and the newest of them.                            *)
LEMMA PointsBounded ==
  ASSUME NEW row, row.durable \in Nat, DOMAIN row.events = 1 .. row.durable
  PROVE  LET P == {0} \cup PointsOf(row) IN
         /\ Max(P) \in P /\ Max(P) \in Nat /\ \A n \in P : n \in Nat /\ n <= Max(P)
<1> DEFINE P == {0} \cup PointsOf(row)
<1>1. \A n \in P : n \in Nat /\ n <= row.durable
  BY DEF PointsOf
<1>2. 0 \in P
  OBVIOUS
<1> HIDE DEF P
<1>3. P \in SUBSET Int /\ P # {} /\ row.durable \in Int /\ \A n \in P : n <= row.durable
  BY <1>1, <1>2
<1>4. Max(P) \in P /\ \A n \in P : n <= Max(P)
  BY <1>3, MaxBounded
<1> QED
  BY <1>1, <1>4 DEF P

LEMMA PersistEventsIs ==
  ASSUME NEW row, RowOk(row), Solid(row), AtPoint(row), NEW cache, CacheOk(cache),
         NEW s, Continues(row, s), NEW new, new = PersistEvents(row, cache, s).row
  PROVE  /\ new.durable = Last(s).seq /\ Solid(new) /\ AtPoint(new)
         /\ CacheOk(PersistEvents(row, cache, s).cache)
         /\ \A r \in Range(s) : r.seq \in DOMAIN new.events /\ new.events[r.seq] = r.data
         /\ Missing(new) =>
              \/ Missing(row) /\ \A r \in Range(s) : r.snapshot = 0
              \/ \E r \in Range(s) :
                   /\ r.data.point /\ r.snapshot = 0
                   /\ \A q \in Range(s) : q.snapshot # 0 => q.seq <= r.seq
<1> DEFINE d == row.durable
           last == Last(s).seq
           projected == IF row.mode = "full" THEN Project(row, cache, s) ELSE cache
           point == Checkpoint(row, s, projected.state)
           events == EventRows(row, s)
           carried == {e.snapshot : e \in Range(s)} \ {0}
<1>1. /\ d \in Nat /\ last \in Nat /\ last > 0 /\ d <= last
      /\ DOMAIN row.events = 1 .. d /\ row.image = row.recovery
      /\ row.recovery \in Nat /\ row.recovery <= d
  BY ContinuesIs DEF RowOk, Solid, Continues
<1>2. \A r \in Range(s) :
        /\ r.seq \in Nat /\ r.seq > 0 /\ r.seq <= last /\ r.snapshot \in {0, r.seq}
        /\ r.snapshot # 0 => r.data.point
        /\ r.seq \in DOMAIN row.events => row.events[r.seq] = r.data
  BY ContinuesIs DEF Continues
<1>3. \A n \in 1 .. last : d < n \/ (\E r \in Range(s) : r.seq < n) =>
                             \E r \in Range(s) : r.seq = n
  BY DEF Continues
<1>4. Last(s) \in Range(s)
  BY DEF Continues
<1>5. Max({d, last}) = last
  <2>1. Max({d, last}) \in {d, last} /\ Max({d, last}) >= last
    BY <1>1, MaxOfTwo
  <2> QED
    BY <1>1, <2>1
<1>6. /\ new = [row EXCEPT !.events = events, !.state = Last(s).data.state,
                           !.durable = Max({d, last}),
                           !.recovery = point.sequence, !.image = point.image]
      /\ PersistEvents(row, cache, s).cache = projected
  BY DEF PersistEvents
<1>7. events = [n \in DOMAIN row.events \cup {e.seq : e \in Range(s)} |->
                  IF n \in DOMAIN row.events THEN row.events[n]
                  ELSE (CHOOSE e \in Range(s) : e.seq = n).data]
  BY DEF EventRows
<1>8. point = IF carried # {} THEN [sequence |-> Max(carried), image |-> Max(carried)]
              ELSE IF row.mode = "full" /\ last - row.recovery >= RecoveryInterval
              THEN [sequence |-> last, image |-> projected.state]
              ELSE [sequence |-> row.recovery, image |-> row.image]
  BY DEF Checkpoint
<1>9. /\ row.mode = "full" => projected.state = last /\ projected.projection = last
      /\ row.mode # "full" => projected = cache
  BY <1>1, ProjectIs
<1>10. /\ carried # {} => Max(carried) \in carried /\ \A n \in carried : n <= Max(carried)
       /\ \A n \in carried : n \in 1 .. last /\ \E r \in Range(s) : r.snapshot = n /\ r.seq = n
  <2>1. \A n \in carried : n \in 1 .. last /\ \E r \in Range(s) : r.snapshot = n /\ r.seq = n
    BY <1>2
  <2>2. carried \in SUBSET Int /\ last \in Int /\ \A n \in carried : n <= last
    BY <1>1, <2>1
  <2> HIDE DEF carried
  <2> QED
    BY <2>1, <2>2, MaxBounded
<1>11. \A r \in Range(s) : r.snapshot # 0 => r.snapshot \in carried /\ r.snapshot = r.seq
  BY <1>2
<1> HIDE DEF point, projected, events, carried, last, d
<1>12. /\ new.mode = row.mode /\ new.durable = last /\ new.events = events
       /\ new.recovery = point.sequence /\ new.image = point.image
  <2>1. row = [mode |-> row.mode, state |-> row.state, durable |-> row.durable,
               events |-> row.events, recovery |-> row.recovery, image |-> row.image]
    BY DEF RowOk
  <2> QED
    BY <1>5, <1>6, <2>1
<1>13. DOMAIN events = 1 .. last
  <2>1. \A n \in 1 .. d : n \in 1 .. last
    BY <1>1
  <2>2. \A n \in 1 .. last : n \in 1 .. d \/ d < n
    BY <1>1
  <2>3. \A r \in Range(s) : r.seq \in 1 .. last
    BY <1>1, <1>2
  <2> QED
    BY <1>1, <1>3, <1>7, <2>1, <2>2, <2>3
<1>14. \A n \in DOMAIN row.events : events[n] = row.events[n]
  BY <1>7
<1>15. \A r \in Range(s) : r.seq \in DOMAIN events /\ events[r.seq] = r.data
  <2> TAKE r \in Range(s)
  <2>1. r.seq \in DOMAIN events
    BY <1>7
  <2>2. CASE r.seq \in DOMAIN row.events
    BY <1>2, <1>14, <2>1, <2>2
  <2>3. CASE r.seq \notin DOMAIN row.events
    <3> DEFINE e == CHOOSE e \in Range(s) : e.seq = r.seq
    <3>1. e \in Range(s) /\ e.seq = r.seq
      OBVIOUS
    <3>2. events[r.seq] = e.data
      BY <1>7, <2>1, <2>3
    <3> HIDE DEF e
    <3>3. e = r
      <4>1. DOMAIN s = 1 .. Len(s) /\ Len(s) \in Nat
        BY ContinuesIs
      <4>2. PICK j \in 1 .. Len(s), k \in 1 .. Len(s) : e = s[j] /\ r = s[k]
        BY <3>1, <4>1 DEF Range
      <4>3. j < k => s[j].seq < s[k].seq
        BY DEF Continues
      <4>4. k < j => s[k].seq < s[j].seq
        BY DEF Continues
      <4>5. j = k
        BY <1>2, <3>1, <4>1, <4>2, <4>3, <4>4
      <4> QED
        BY <4>2, <4>5
    <3> QED
      BY <2>1, <3>2, <3>3
  <2> QED
    BY <2>2, <2>3
<1>16. Solid(new)
  <2>1. point.image = point.sequence /\ point.sequence \in 0 .. last
    <3>1. CASE carried # {}
      <4>1. Max(carried) \in 1 .. last
        BY <1>10, <3>1
      <4> QED
        BY <1>1, <1>8, <3>1, <4>1
    <3>2. CASE carried = {}
      BY <1>1, <1>8, <1>9, <3>2
    <3> QED
      BY <3>1, <3>2
  <2> QED
    BY <1>12, <1>13, <2>1 DEF Solid
<1>17. AtPoint(new)
  <2> SUFFICES ASSUME row.mode = "standard"
               PROVE  point.sequence \in {0} \cup PointsOf(new)
    BY <1>12 DEF AtPoint
  <2>1. CASE carried # {}
    <3>1. PICK r \in Range(s) : r.snapshot = Max(carried) /\ r.seq = Max(carried)
      BY <1>10, <2>1
    <3>2. r.data.point
      BY <1>2, <3>1
    <3>3. point.sequence = Max(carried)
      BY <1>8, <2>1
    <3> QED
      BY <1>12, <1>15, <3>1, <3>2, <3>3 DEF PointsOf
  <2>2. CASE carried = {}
    <3>1. point.sequence = row.recovery
      BY <1>8, <2>2
    <3>2. row.recovery \in {0} \cup PointsOf(row)
      BY DEF AtPoint
    <3>3. \A n \in PointsOf(row) : n \in PointsOf(new)
      <4>1. \A n \in DOMAIN row.events : n \in DOMAIN events
        BY <1>7
      <4> QED
        BY <1>12, <1>14, <4>1 DEF PointsOf
    <3> QED
      BY <3>1, <3>2, <3>3
  <2> QED
    BY <2>1, <2>2
<1>18. CacheOk(projected)
  BY <1>9 DEF CacheOk
<1>19. ASSUME Missing(new)
       PROVE  \/ Missing(row) /\ \A r \in Range(s) : r.snapshot = 0
              \/ \E r \in Range(s) :
                   /\ r.data.point /\ r.snapshot = 0
                   /\ \A q \in Range(s) : q.snapshot # 0 => q.seq <= r.seq
  <2> DEFINE m == Max({0} \cup PointsOf(new))
  <2>1. /\ row.mode = "standard" /\ new.recovery # m
        /\ m \in {0} \cup PointsOf(new) /\ m \in Nat
        /\ \A n \in {0} \cup PointsOf(new) : n \in Nat /\ n <= m
    <3>1. new.durable \in Nat /\ DOMAIN new.events = 1 .. new.durable
      BY <1>1, <1>12, <1>13
    <3> QED
      BY <1>12, <1>19, <3>1, PointsBounded DEF Missing
  <2>2. new.recovery \in Nat /\ new.recovery < m
    <3>1. new.recovery \in {0} \cup PointsOf(new)
      BY <1>12, <1>17, <2>1 DEF AtPoint
    <3> HIDE DEF m
    <3>2. new.recovery \in Nat /\ new.recovery <= m
      BY <2>1, <3>1
    <3>3. new.recovery # m /\ m \in Nat
      BY <2>1
    <3> QED
      BY <3>2, <3>3
  <2> HIDE DEF m
  <2>3. m \in PointsOf(new) /\ m \in 1 .. last /\ events[m].point
    <3>1. m \in PointsOf(new)
      BY <2>1, <2>2
    <3> QED
      BY <1>12, <1>13, <3>1 DEF PointsOf
(* An event of the batch that is the newest point.                         *)
  <2>4. ASSUME NEW r \in Range(s), r.seq = m, \A n \in carried : n < m
        PROVE  /\ r.data.point /\ r.snapshot = 0
               /\ \A q \in Range(s) : q.snapshot # 0 => q.seq <= r.seq
    <3>1. r.data.point
      BY <1>15, <2>3, <2>4
    <3>2. r.snapshot = 0
      <4>1. ASSUME r.snapshot # 0 PROVE FALSE
        <5>1. m \in carried
          BY <1>11, <2>4, <4>1
        <5> QED
          BY <2>1, <2>4, <5>1
      <4> QED
        BY <4>1
    <3>3. ASSUME NEW q \in Range(s), q.snapshot # 0 PROVE q.seq <= r.seq
      <4>1. q.seq \in carried /\ q.seq \in Nat
        BY <1>2, <1>11, <3>3
      <4> QED
        BY <2>1, <2>4, <4>1
    <3> QED
      BY <3>1, <3>2, <3>3
  <2>5. CASE carried # {}
    <3>1. new.recovery = Max(carried)
      BY <1>8, <1>12, <2>5
    <3>2. \A n \in carried : n \in Nat /\ n < m
      BY <1>10, <2>1, <2>2, <2>5, <3>1
    <3>3. \E r \in Range(s) : r.seq < m
      BY <1>10, <2>5, <3>2
    <3>4. PICK r \in Range(s) : r.seq = m
      BY <1>3, <2>3, <3>3
    <3> QED
      BY <2>4, <3>2, <3>4
  <2>6. CASE carried = {}
    <3>1. \A r \in Range(s) : r.snapshot = 0
      BY <1>11, <2>6
    <3>2. new.recovery = row.recovery
      BY <1>8, <1>12, <2>1, <2>6
    <3>3. CASE m \in DOMAIN row.events
      <4>1. m \in PointsOf(row)
        BY <1>14, <2>3, <3>3 DEF PointsOf
      <4>2. m <= Max({0} \cup PointsOf(row)) /\ Max({0} \cup PointsOf(row)) \in Nat
        BY <1>1, <4>1, PointsBounded DEF d
      <4>3. row.recovery # Max({0} \cup PointsOf(row))
        BY <2>1, <2>2, <3>2, <4>2
      <4> QED
        BY <2>1, <3>1, <4>3 DEF Missing
    <3>4. CASE m \notin DOMAIN row.events
      <4>1. d < m
        BY <1>1, <2>1, <2>3, <3>4
      <4>2. PICK r \in Range(s) : r.seq = m
        BY <1>3, <2>3, <4>1
      <4> QED
        BY <2>4, <2>6, <4>2
    <3> QED
      BY <3>3, <3>4
  <2> QED
    BY <2>5, <2>6
<1> QED
  BY <1>6, <1>12, <1>15, <1>16, <1>17, <1>18, <1>19 DEF last

(* The events of a batch continue the row of their Invocation.             *)
LEMMA BatchContinues ==
  ASSUME SInv, HistoryInv, ~Refused, NEW i \in Invokers, Events(batch, i) # {}
  PROVE  /\ Continues(Admitted(i).row, EventsOf(batch, i))
         /\ Range(EventsOf(batch, i)) = Events(batch, i)
         /\ EventsOf(batch, i) # <<>>
<1> DEFINE s == EventsOf(batch, i)
           row == Admitted(i).row
           S == {r \in Range(batch) : r.kind = "event" /\ r.inv = i}
<1>1. FlowInv /\ FlowType /\ FlowOrder /\ batch \in Seq(Records) /\ Increasing(batch)
  BY OrderIncreases DEF SInv, FlowInv, FlowType, FlowOrder
<1>2. /\ s \in Seq(Records) /\ Range(s) = Events(batch, i) /\ s # <<>>
      /\ Last(s) \in Events(batch, i) /\ \A r \in Events(batch, i) : r.seq <= Last(s).seq
  BY <1>1, EventsOfIs
<1>3. s = Kept(batch, S) /\ S = Events(batch, i)
  BY DEF EventsOf, Events
<1>4. /\ row.durable = rows[i].durable /\ row.events = rows[i].events /\ RowOk(row)
  BY <1>1, AdmittedIs
<1> HIDE DEF s, row, S
<1>5. \A r \in Events(batch, i) : /\ r \in EventRecords /\ r.seq \in Nat /\ r.seq > 0
                                  /\ r \in FlowEvents(i) /\ r.inv = i /\ r.kind = "event"
                                  /\ r \in Range(batch)
  BY <1>1, EventIs DEF FlowEvents
<1>6. s \in Seq(EventRecords) /\ DOMAIN s = 1 .. Len(s) /\ Len(s) \in Nat
  <2>1. DOMAIN s = 1 .. Len(s) /\ Len(s) \in Nat
    BY <1>2
  <2>2. \A k \in 1 .. Len(s) : s[k] \in EventRecords
    BY <1>2, <1>5, <2>1 DEF Range
  <2> QED
    BY <1>2, <2>1, <2>2
<1>7. \A j, k \in 1 .. Len(s) : j < k => s[j].seq < s[k].seq
  <2> SUFFICES ASSUME NEW j \in 1 .. Len(s), NEW k \in 1 .. Len(s), j < k
               PROVE  s[j].seq < s[k].seq
    OBVIOUS
  <2>1. \E m, n \in 1 .. Len(batch) : m < n /\ s[j] = batch[m] /\ s[k] = batch[n]
    BY <1>1, <1>3, KeptOrder
  <2>2. s[j] \in Events(batch, i) /\ s[k] \in Events(batch, i)
    BY <1>2, <1>6 DEF Range
  <2>3. DOMAIN batch = 1 .. Len(batch)
    BY <1>1
  <2> QED
    BY <1>1, <1>5, <2>1, <2>2, <2>3 DEF Increasing
<1>8. \A r \in Events(batch, i) : r.snapshot \in {0, r.seq} /\ (r.snapshot # 0 => r.data.point)
  BY <1>5 DEF HistoryInv, Carry
<1>9. row.durable <= Last(s).seq
  <2>1. PICK r \in Events(batch, i) : r.seq >= rows[i].durable
    BY DEF HistoryInv, Ahead
  <2>2. r.seq \in Nat /\ Last(s).seq \in Nat /\ r.seq <= Last(s).seq /\ row.durable \in Nat
    BY <1>2, <1>4, <1>5 DEF RowOk
  <2> QED
    BY <1>4, <2>1, <2>2
<1>10. ASSUME NEW n \in 1 .. Last(s).seq,
              row.durable < n \/ \E r \in Events(batch, i) : r.seq < n
       PROVE  \E r \in Events(batch, i) : r.seq = n
  <2>1. /\ available /\ invs[i].state # "none" /\ Last(s).seq <= invs[i].seq
        /\ invs[i].seq \in Nat
    <3>1. batch # <<>>
      BY <1>2, <1>5 DEF Range
    <3>2. available
      BY <3>1 DEF HistoryInv, Gapless
    <3>3. invs[i].state # "none"
      BY <1>1, <1>2, <1>5 DEF FlowInv, Unborn
    <3>4. Last(s).seq <= invs[i].seq
      BY <1>1, <1>2, <1>5 DEF FlowInv, Bounded
    <3> QED
      BY <3>2, <3>3, <3>4 DEF SInv, CoreInv, StoreType, InvocationStates
  <2>2. n \in 1 .. invs[i].seq
    BY <1>2, <1>5, <2>1
  <2>3. rows[i].durable < n \/ \E r \in FlowEvents(i) : r.seq < n
    BY <1>4, <1>5, <1>10
  <2>4. PICK r \in FlowEvents(i) : r.seq = n
    BY <2>1, <2>2, <2>3 DEF HistoryInv, Gapless
  <2>5. CASE r \in Events(queue, i)
    <3>1. Precedes(Last(s), r)
      BY <1>1, <1>2, <1>5, <2>5 DEF FlowOrder, Events
    <3>2. Last(s).seq < r.seq
      BY <1>2, <1>5, <2>5, <3>1 DEF Precedes, Events
    <3> QED
      BY <1>2, <1>5, <1>10, <2>4, <3>2
  <2> QED
    BY <2>4, <2>5 DEF FlowEvents
<1>11. \A r \in Events(batch, i) : r.seq \in DOMAIN rows[i].events => rows[i].events[r.seq] = r.data
  BY DEF HistoryInv, Ahead
<1>12. Continues(row, s)
  BY <1>2, <1>4, <1>6, <1>7, <1>8, <1>9, <1>10, <1>11 DEF Continues
<1> QED
  BY <1>2, <1>12 DEF s, row

(* What a transaction makes of the row of an Invocation, and of its cache. *)
LEMMA PersistedHistory ==
  ASSUME SInv, HistoryInv, ~Refused, NEW i \in Invokers
  PROVE  LET new == Persisted(i).row IN
         /\ Solid(new) /\ AtPoint(new) /\ CacheOk(Persisted(i).cache)
         /\ Events(batch, i) = {} =>
              /\ new.durable = rows[i].durable /\ new.events = rows[i].events
              /\ Missing(new) => Missing(rows[i])
         /\ Events(batch, i) # {} =>
              /\ \E e \in Events(batch, i) :
                   /\ new.durable = e.seq /\ rows[i].durable <= e.seq
                   /\ \A r \in Events(batch, i) : r.seq <= e.seq
              /\ \A r \in Events(batch, i) :
                   r.seq \in DOMAIN new.events /\ new.events[r.seq] = r.data
              /\ Missing(new) =>
                   \/ Missing(rows[i]) /\ \A r \in Events(batch, i) : r.snapshot = 0
                   \/ \E r \in Events(batch, i) :
                        /\ r.data.point /\ r.snapshot = 0
                        /\ \A q \in Events(batch, i) : q.snapshot # 0 => q.seq <= r.seq
<1> DEFINE new == Persisted(i).row
           old == Admitted(i).row
           before == Admitted(i).cache
           s == EventsOf(batch, i)
<1>1. FlowType /\ batch \in Seq(Records)
  BY DEF SInv, FlowInv, FlowType
<1>2. /\ RowOk(old) /\ old.durable = rows[i].durable /\ old.events = rows[i].events
      /\ old.durable \in Nat
  BY <1>1, AdmittedIs DEF RowOk
<1>3. Solid(rows[i]) /\ AtPoint(rows[i]) /\ CacheOk(caches[i])
  BY DEF HistoryInv, Solids
<1>4. Solid(old) /\ AtPoint(old) /\ CacheOk(before) /\ (Missing(old) => Missing(rows[i]))
  <2>1. CacheOk(before)
    <3>1. before = GenesisCache \/ before = caches[i]
      BY DEF Admitted
    <3> HIDE DEF before
    <3> QED
      BY <1>3, <3>1 DEF CacheOk, GenesisCache
  <2>2. CASE old = rows[i]
    <3> HIDE DEF old
    <3> QED
      BY <1>3, <2>1, <2>2
  <2>3. CASE \E mode : old = AdmissionRow(mode)
    <3> HIDE DEF old, before
    <3>1. /\ old.durable = 0 /\ old.events = <<>> /\ old.recovery = 0 /\ old.image = 0
      BY <2>3 DEF AdmissionRow
    <3>2. DOMAIN old.events = {} /\ 1 .. old.durable = {}
      BY <3>1
    <3>3. Solid(old) /\ AtPoint(old)
      BY <3>1, <3>2 DEF Solid, AtPoint
    <3>4. PointsOf(old) = {}
      BY <3>2 DEF PointsOf
    <3>5. Max({0} \cup PointsOf(old)) = 0
      <4>1. old.durable \in Nat /\ DOMAIN old.events = 1 .. old.durable
        BY <3>1, <3>2
      <4>2. Max({0} \cup PointsOf(old)) \in {0} \cup PointsOf(old)
        BY <4>1, PointsBounded
      <4> QED
        BY <3>4, <4>2
    <3> QED
      BY <2>1, <3>1, <3>3, <3>5 DEF Missing
  <2>4. old = rows[i] \/ \E mode : old = AdmissionRow(mode)
    BY DEF Admitted
  <2> QED
    BY <2>2, <2>3, <2>4
<1>5. CASE Events(batch, i) = {}
  <2>1. s = <<>>
    BY <1>1, <1>5, EventsOfIs
  <2>2. Persisted(i) = Admitted(i)
    BY <2>1 DEF Persisted
  <2> HIDE DEF old, before
  <2> QED
    BY <1>2, <1>4, <1>5, <2>2 DEF old, before
<1>6. CASE Events(batch, i) # {}
  <2>1. Continues(old, s) /\ Range(s) = Events(batch, i) /\ s # <<>>
    BY <1>6, BatchContinues
  <2>2. Persisted(i) = PersistEvents(old, before, s)
    BY <2>1 DEF Persisted
  <2> HIDE DEF old, before, s, new
  <2>3. new = PersistEvents(old, before, s).row
    BY <2>2 DEF new
  <2>4. /\ new.durable = Last(s).seq /\ Solid(new) /\ AtPoint(new)
        /\ CacheOk(PersistEvents(old, before, s).cache)
        /\ \A r \in Range(s) : r.seq \in DOMAIN new.events /\ new.events[r.seq] = r.data
        /\ Missing(new) =>
             \/ Missing(old) /\ \A r \in Range(s) : r.snapshot = 0
             \/ \E r \in Range(s) :
                  /\ r.data.point /\ r.snapshot = 0
                  /\ \A q \in Range(s) : q.snapshot # 0 => q.seq <= r.seq
    BY <1>2, <1>4, <2>1, <2>3, PersistEventsIs
  <2>5. Last(s) \in Events(batch, i) /\ \A r \in Events(batch, i) : r.seq <= Last(s).seq
    BY <2>1 DEF Continues
  <2>6. rows[i].durable <= Last(s).seq
    BY <1>2, <2>1 DEF Continues
  <2> QED
    BY <1>4, <1>6, <2>1, <2>2, <2>4, <2>5, <2>6 DEF new
<1> QED
  BY <1>5, <1>6

-----------------------------------------------------------------------------
(* Steps that concern neither rows nor records.                            *)

LEMMA HistoryFrame ==
  ASSUME SInv, HistoryInv,
         UNCHANGED <<queue, batch, available, rows, life, lru, journal>>,
         \/ caches' = caches
         \/ DOMAIN caches' = Invokers /\ \A i \in Invokers : CacheOk(caches'[i]),
         \A i \in Invokers :
           /\ invs'[i].seq = invs[i].seq
           /\ invs'[i].state = "none" <=> invs[i].state = "none"
           /\ pc'[i] \in Early => pc[i] \in Early
           /\ driver'[i] = "ending" => driver[i] = "ending" \/ i \notin Range(lru)
  PROVE  HistoryInv'
<1>1. \A i \in Invokers : /\ FlowEvents(i)' = FlowEvents(i) /\ FlowEntries(i)' = FlowEntries(i)
                          /\ Held(i)' = Held(i) /\ OnItsWay(i)' = OnItsWay(i)
  BY DEF FlowEvents, Events, FlowEntries, Entries, Held, OnItsWay
<1>2. Solids'
  BY DEF HistoryInv, Solids
<1>3. Gapless'
  BY <1>1 DEF HistoryInv, Gapless
<1>4. Ahead'
  BY DEF HistoryInv, Ahead
<1>5. OwnRow'
  BY <1>1 DEF HistoryInv, OwnRow, RowFirst
<1>6. Carry'
  BY <1>1 DEF HistoryInv, Carry
<1>7. Lags'
  <2>1. \A i \in Invokers : Pending(i)' = Pending(i)
    BY <1>1 DEF Pending
  <2>2. \A i \in Range(lru) : i \in Invokers
    BY DEF SInv, CoreInv, StoreType, Range
  <2> QED
    BY <1>1, <2>1, <2>2 DEF HistoryInv, Lags
<1> QED
  BY <1>2, <1>3, <1>4, <1>5, <1>6, <1>7 DEF HistoryInv

LEMMA HistoryCall ==
  ASSUME SInv, HistoryInv, NEW c \in Calls, Call(c)
  PROVE  HistoryInv'
<1>1. pc \in [Calls -> Places] /\ Invokers \subseteq Calls
  BY DEF SInv, CallInv, Calls
<1>2. /\ UNCHANGED <<queue, batch, available, rows, life, lru, journal, caches>>
      /\ UNCHANGED <<invs, driver>>
  BY DEF Call, FindInMemory, BeginLookup, LookupSession, LookupInvocation, LookupReturns,
         OnlyGoes, OnlyCalls, driverVars, writerVars, tables
<1>3. \E w : Goes(c, w) /\ pc[c] \in Early
  BY DEF Call, FindInMemory, BeginLookup, LookupSession, LookupInvocation, LookupReturns,
         OnlyGoes, Ready, Early
<1>4. \A i \in Invokers : pc'[i] \in Early => pc[i] \in Early
  BY <1>1, <1>3 DEF Goes
<1> QED
  BY <1>2, <1>4, HistoryFrame

LEMMA HistoryResume ==
  ASSUME SInv, HistoryInv, NEW c \in Resumers, Resume(c)
  PROVE  HistoryInv'
<1>1. PICK i \in Invokers : /\ invs[i].state = "waiting"
                            /\ invs' = [invs EXCEPT ![i].state = "running"]
                            /\ driver' = [driver EXCEPT ![i] = "driving"]
  BY ResumeCore DEF SInv
<1>2. /\ UNCHANGED <<queue, batch, available, rows, life, lru, journal, caches>>
      /\ Goes(c, "running")
  BY DEF Resume, OnlyCalls, writerVars, tables
<1>3. /\ invs \in [Invokers -> InvocationStates] /\ pc \in [Calls -> Places]
      /\ driver \in [Invokers -> {"none", "driving", "ending"}]
  BY DEF SInv, CoreInv, StoreType, CallInv
<1>4. \A j \in Invokers :
        /\ invs'[j].seq = invs[j].seq
        /\ invs'[j].state = "none" <=> invs[j].state = "none"
  <2>1. invs[i] \in InvocationStates
    BY <1>3
  <2>2. invs'[i].seq = invs[i].seq /\ invs'[i].state = "running"
    BY <1>1, <1>3, <2>1 DEF InvocationStates
  <2> QED
    BY <1>1, <1>3, <2>2
<1>5. \A j \in Invokers : driver'[j] = "ending" => driver[j] = "ending"
  BY <1>1, <1>3
<1>6. \A j \in Invokers : pc'[j] \in Early => pc[j] \in Early
  <2>1. "running" \notin Early
    BY DEF Early
  <2> QED
    BY <1>2, <1>3, <2>1 DEF Goes, Calls
<1> QED
  BY <1>2, <1>4, <1>5, <1>6, HistoryFrame

LEMMA HistoryMark ==
  ASSUME SInv, HistoryInv, NEW i \in Invokers, MarkEnd(i)
  PROVE  HistoryInv'
<1>1. /\ invs[i].state \in Unfinished
      /\ \A j \in Invokers : /\ invs'[j].seq = invs[j].seq
                             /\ j # i => invs'[j] = invs[j] /\ driver'[j] = driver[j]
      /\ invs'[i].state \in Ended
  BY MarkKeeps DEF SInv
<1>2. /\ UNCHANGED <<queue, batch, available, rows, life, lru, journal, caches>>
      /\ pc' = pc
  BY DEF MarkEnd, OnlyDrivers, writerVars, tables
<1>3. \A j \in Invokers : invs'[j].state = "none" <=> invs[j].state = "none"
  BY <1>1, StatesApart DEF States
<1>4. i \notin Range(lru)
  BY <1>1, StatesApart DEF SInv, CoreInv, KeptEnded
<1> QED
  BY <1>1, <1>2, <1>3, <1>4, HistoryFrame

LEMMA HistoryRefused ==
  ASSUME SInv, HistoryInv, NEW i \in Invokers, RecordEndRefused(i)
  PROVE  HistoryInv'
<1>1. /\ UNCHANGED <<queue, batch, available, rows, life, lru, journal, caches>>
      /\ invs' = invs /\ DriverReturns(i)
  BY DEF RecordEndRefused, OnlyDrivers, writerVars, tables
<1>2. \A j \in Invokers : driver'[j] = "ending" => driver[j] = "ending"
  BY <1>1 DEF SInv, CoreInv, StoreType, DriverReturns
<1>3. \A j \in Invokers : pc'[j] \in Early => pc[j] \in Early
  <2>1. "done" \notin Early
    BY DEF Early
  <2> QED
    BY <1>1, <2>1 DEF DriverReturns, Calls
<1> QED
  BY <1>1, <1>2, <1>3, HistoryFrame

(* The admission of a new Invocation joins the queue.                      *)
LEMMA HistoryAttach ==
  ASSUME SInv, HistoryInv, NEW c \in Invokers, pc[c] = "admitting", found[c] \in Invokers,
         NEW object, object = sessions[found[c]], object # None, Attach(c, object),
         UNCHANGED <<sessions, keyed, lru, batch, available, rows, caches, life>>
  PROVE  HistoryInv'
<1>0. CoreInv /\ CallInv /\ FlowInv /\ FlowType /\ c \in Calls
  BY DEF SInv, FlowInv, Calls
<1>1. /\ invs[c].state = "none" /\ pc[c] \in Early /\ scenario \in Scenarios
      /\ object \in Holders /\ objects[object].sid \in Invokers
  <2>1. pc[c] \in Early
    BY DEF Early
  <2> QED
    BY <1>0, <2>1 DEF FlowInv, Unborn, CallInv, CoreInv, StoreType, Named
<1>2. /\ journal' = [journal EXCEPT ![c] = 0]
      /\ \E mode \in Modes \ {"none"} :
           /\ invs' = [invs EXCEPT ![c] = [state |-> "created", seq |-> 0,
                                           mode |-> mode, object |-> object]]
           /\ queue' = Append(queue, [kind |-> "admission", inv |-> c,
                                      sid |-> found[c], mode |-> mode])
  BY <1>0, <1>1, AttachCore
<1>3. PICK mode \in Modes \ {"none"} :
        /\ invs' = [invs EXCEPT ![c] = [state |-> "created", seq |-> 0,
                                        mode |-> mode, object |-> object]]
        /\ queue' = Append(queue, [kind |-> "admission", inv |-> c,
                                   sid |-> found[c], mode |-> mode])
  BY <1>2
<1> DEFINE e == [kind |-> "admission", inv |-> c, sid |-> found[c], mode |-> mode]
<1>4. /\ e.kind = "admission" /\ e.inv = c /\ e \in Records
      /\ Range(queue') = Range(queue) \cup {e}
  <2>1. e \in Records
    BY DEF Records, AdmissionRecords
  <2>2. queue \in Seq(Records)
    BY <1>0 DEF FlowType
  <2> HIDE DEF e
  <2>3. queue' = Append(queue, e)
    BY <1>3 DEF e
  <2>4. Range(queue') = Range(queue) \cup {e}
    BY <2>1, <2>2, <2>3, AppendIs
  <2> QED
    BY <1>2, <2>1, <2>4 DEF e
<1> HIDE DEF e
<1>5. /\ FlowEvents(c) = {} /\ FlowEntries(c) = {} /\ ~Exists(rows[c])
      /\ RowOk(rows[c]) /\ rows[c].durable = 0
  <2>1. FlowEvents(c) = {} /\ FlowEntries(c) = {}
    BY <1>0, <1>1 DEF FlowInv, Unborn
  <2>2. ~Exists(rows[c]) /\ RowOk(rows[c])
    BY <1>0, <1>1 DEF HistoryInv, Ahead, FlowType
  <2> QED
    BY <2>1, <2>2 DEF RowOk, Exists
<1>6. \A j \in Invokers :
        /\ Events(batch', j) = Events(batch, j) /\ Events(queue', j) = Events(queue, j)
        /\ FlowEvents(j)' = FlowEvents(j)
        /\ Entries(batch', j) = Entries(batch, j)
        /\ j # c => FlowEntries(j)' = FlowEntries(j)
        /\ j = c => FlowEntries(j)' = {e}
        /\ OnItsWay(j) => OnItsWay(j)'
  <2> TAKE j \in Invokers
  <2>1. Events(queue', j) = Events(queue, j)
    BY <1>4 DEF Events
  <2>2. j # c => Entries(queue', j) = Entries(queue, j)
    BY <1>4 DEF Entries
  <2>3. Entries(queue', c) = Entries(queue, c) \cup {e}
    BY <1>4 DEF Entries
  <2>4. Events(batch', j) = Events(batch, j) /\ Entries(batch', j) = Entries(batch, j)
    BY DEF Events, Entries
  <2>5. OnItsWay(j) => OnItsWay(j)'
    BY <1>4 DEF OnItsWay
  <2> QED
    BY <1>5, <2>1, <2>2, <2>3, <2>4, <2>5 DEF FlowEvents, FlowEntries
<1>7. \A j \in Invokers :
        /\ j # c => invs'[j] = invs[j] /\ (Held(j)' <=> Held(j)) /\ driver'[j] = driver[j]
        /\ j = c => /\ invs'[j].state = "created" /\ invs'[j].seq = 0
                    /\ Held(j)' /\ driver'[j] = "driving"
        /\ pc'[j] \in Early => pc[j] \in Early
  <2>1. driver' = [driver EXCEPT ![c] = "driving"] /\ pc' = [pc EXCEPT ![c] = "running"]
    BY DEF Attach, Goes
  <2>2. "running" \notin Early /\ 0 # Absent
    BY DEF Early, Absent
  <2> QED
    BY <1>0, <1>2, <1>3, <2>1, <2>2 DEF Held, CoreInv, StoreType, CallInv, Calls
<1>8. Solids'
  BY DEF HistoryInv, Solids
<1>9. Gapless'
  <2>1. batch' # <<>> => available'
    BY DEF HistoryInv, Gapless
  <2>2. ASSUME available, NEW j \in Invokers, invs'[j].state # "none", NEW n \in 1 .. invs'[j].seq,
               rows[j].durable < n \/ (\E r \in FlowEvents(j) : r.seq < n)
        PROVE  \E r \in FlowEvents(j) : r.seq = n
    BY <1>7, <2>2 DEF HistoryInv, Gapless
  <2> QED
    BY <1>6, <2>1, <2>2 DEF Gapless
<1>10. Ahead'
  <2>1. ASSUME NEW j \in Invokers
        PROVE  /\ invs'[j].state # "none" => rows[j].durable <= invs'[j].seq
               /\ pc'[j] \in Early => ~Exists(rows[j])
    BY <1>5, <1>7 DEF HistoryInv, Ahead
  <2> QED
    BY <1>6, <2>1 DEF HistoryInv, Ahead
<1>11. OwnRow'
  <2> SUFFICES ASSUME available PROVE OwnRow'
    BY DEF OwnRow
  <2>1. RowFirst
    BY DEF HistoryInv, OwnRow
  <2>2. RowFirst'
    <3>1. ASSUME NEW j \in Invokers
          PROVE  /\ Held(j)' => Exists(rows[j]) \/ FlowEntries(j)' # {}
                 /\ Events(batch, j) # {} => Exists(rows[j]) \/ Entries(batch, j) # {}
                 /\ Events(queue, j) # {} => Exists(rows[j]) \/ FlowEntries(j)' # {}
      BY <1>6, <1>7, <2>1 DEF RowFirst
    <3> QED
      BY <1>6, <3>1 DEF RowFirst
  <2> QED
    BY <2>2 DEF OwnRow
<1>12. Carry'
  BY <1>6 DEF HistoryInv, Carry
<1>13. Lags'
  <2>1. \A j \in Invokers : Pending(j)' => Pending(j)
    BY <1>6 DEF Pending
  <2>2. \A j \in Invokers : Held(j) => Held(j)'
    BY <1>7
  <2>3. \A j \in Range(lru) : j \in Invokers
    BY <1>0 DEF CoreInv, StoreType, Range
  <2>4. \A j \in Range(lru) : driver'[j] = "ending" => FlowEvents(j) = {}
    BY <1>7, <2>3 DEF HistoryInv, Lags
  <2>5. \A j \in Range(lru) : driver'[j] = "ending" => FlowEvents(j)' = {}
    BY <1>6, <2>3, <2>4
  <2>6. ASSUME life = 0, available, NEW j \in Invokers
        PROVE  /\ Missing(rows[j]) => OnItsWay(j)'
               /\ Pending(j)' => Held(j)' /\ j \notin Range(lru)
    BY <1>6, <2>1, <2>2, <2>6 DEF HistoryInv, Lags
  <2> QED
    BY <2>5, <2>6 DEF Lags
<1> QED
  BY <1>8, <1>9, <1>10, <1>11, <1>12, <1>13 DEF HistoryInv

LEMMA HistoryAdmit ==
  ASSUME SInv, HistoryInv, NEW c \in Invokers, Admit(c)
  PROVE  HistoryInv'
<1> DEFINE object == sessions[found[c]]
<1>1. /\ pc[c] = "admitting" /\ found[c] \in Invokers
      /\ UNCHANGED <<sessions, keyed, lru, batch, available, rows, caches, life>>
  BY DEF Admit, SInv, CallInv, Waits, Calls, writerVars, tables
<1>2. ASSUME NEW w \in {"failed", "busy"}, Goes(c, w),
             UNCHANGED <<objects, invs, journal, driver, queue>>
      PROVE  HistoryInv'
  <2>1. w \notin Early
    BY DEF Early
  <2>2. pc \in [Calls -> Places] /\ Invokers \subseteq Calls
    BY DEF SInv, CallInv, Calls
  <2>3. \A j \in Invokers : pc'[j] \in Early => pc[j] \in Early
    BY <1>2, <2>1, <2>2 DEF Goes
  <2> QED
    BY <1>1, <1>2, <2>3, HistoryFrame
<1>3. CASE object # None /\ Attach(c, object)
  <2> HIDE DEF object
  <2> QED
    BY <1>1, <1>3, HistoryAttach DEF object
<1> QED
  BY <1>2, <1>3 DEF Admit

(* Which snapshots are lost when a newer one joins the queue.              *)
LEMMA CoalesceSnapshots ==
  ASSUME queue \in Seq(Records), NEW i \in Invokers, NEW s, s = Coalesce(i)
  PROVE  /\ s \in Seq(Records)
         /\ \A j \in Invokers : j # i => Events(s, j) = Events(queue, j)
         /\ \A q \in Events(s, i) :
              q.snapshot = 0 /\ \E r \in Events(queue, i) : q.seq = r.seq /\ q.data = r.data
         /\ \A r \in Events(queue, i) : \E q \in Events(s, i) : q.seq = r.seq
<1>1. /\ DOMAIN queue = 1 .. Len(queue) /\ Len(queue) \in Nat
      /\ \A k \in 1 .. Len(queue) : queue[k] \in Records
  OBVIOUS
<1>2. s = [k \in 1 .. Len(queue) |->
             IF queue[k].kind = "event" /\ queue[k].inv = i
             THEN [queue[k] EXCEPT !.snapshot = 0] ELSE queue[k]]
  BY <1>1 DEF Coalesce
<1>3. ASSUME NEW k \in 1 .. Len(queue)
      PROVE  /\ s[k] \in Records
             /\ s[k].kind = queue[k].kind /\ s[k].inv = queue[k].inv
             /\ ~(queue[k].kind = "event" /\ queue[k].inv = i) => s[k] = queue[k]
             /\ queue[k].kind = "event" /\ queue[k].inv = i =>
                  /\ s[k].snapshot = 0 /\ s[k].seq = queue[k].seq /\ s[k].data = queue[k].data
  <2> DEFINE r == queue[k]
  <2>1. s[k] = IF r.kind = "event" /\ r.inv = i THEN [r EXCEPT !.snapshot = 0] ELSE r
    BY <1>2
  <2>2. r \in Records
    BY <1>1
  <2> HIDE DEF r
  <2>3. CASE r.kind = "event" /\ r.inv = i
    <3>1. r \in EventRecords
      BY <2>2, <2>3, RecordIs
    <3>2. LET q == [r EXCEPT !.snapshot = 0] IN
          /\ q \in EventRecords /\ q.kind = r.kind /\ q.inv = r.inv
          /\ q.snapshot = 0 /\ q.seq = r.seq /\ q.data = r.data
      BY <3>1 DEF EventRecords
    <3> QED
      BY <2>1, <2>3, <3>2 DEF Records, r
  <2>4. CASE ~(r.kind = "event" /\ r.inv = i)
    BY <2>1, <2>2, <2>4 DEF r
  <2> QED
    BY <2>3, <2>4
<1>4. s \in Seq(Records) /\ Len(s) = Len(queue) /\ DOMAIN s = 1 .. Len(queue)
  BY <1>1, <1>2, <1>3
<1>5. ASSUME NEW j \in Invokers, j # i PROVE Events(s, j) = Events(queue, j)
  <2> SUFFICES ASSUME NEW e PROVE e \in Events(s, j) <=> e \in Events(queue, j)
    OBVIOUS
  <2>1. ASSUME e \in Events(s, j) PROVE e \in Events(queue, j)
    <3>1. PICK k \in 1 .. Len(queue) : e = s[k]
      BY <1>4, <2>1 DEF Events, Range
    <3> QED
      BY <1>1, <1>3, <1>5, <2>1, <3>1 DEF Events, Range
  <2>2. ASSUME e \in Events(queue, j) PROVE e \in Events(s, j)
    <3>1. PICK k \in 1 .. Len(queue) : e = queue[k]
      BY <1>1, <2>2 DEF Events, Range
    <3>2. s[k] = e
      BY <1>3, <1>5, <2>2, <3>1 DEF Events
    <3> QED
      BY <1>4, <2>2, <3>2 DEF Events, Range
  <2> QED
    BY <2>1, <2>2
<1>6. ASSUME NEW q \in Events(s, i)
      PROVE  q.snapshot = 0 /\ \E r \in Events(queue, i) : q.seq = r.seq /\ q.data = r.data
  <2>1. PICK k \in 1 .. Len(queue) : q = s[k]
    BY <1>4 DEF Events, Range
  <2>2. queue[k] \in Events(queue, i)
    BY <1>1, <1>3, <2>1 DEF Events, Range
  <2> QED
    BY <1>3, <2>1, <2>2 DEF Events
<1>7. ASSUME NEW r \in Events(queue, i) PROVE \E q \in Events(s, i) : q.seq = r.seq
  <2>1. PICK k \in 1 .. Len(queue) : r = queue[k]
    BY <1>1 DEF Events, Range
  <2>2. s[k] \in Events(s, i)
    BY <1>3, <1>4, <2>1 DEF Events, Range
  <2> QED
    BY <1>3, <2>1, <2>2 DEF Events
<1> QED
  BY <1>4, <1>5, <1>6, <1>7

(* The queue once an event is recorded.                                    *)
Joins(i, e) ==
  /\ e \in EventRecords /\ e.inv = i /\ e.seq = invs[i].seq + 1
  /\ e.snapshot \in {0, e.seq} /\ (e.data.point <=> e.snapshot # 0)
  /\ e \in Events(queue', i)
  /\ \A j \in Invokers : j # i => Events(queue', j) = Events(queue, j)
  /\ \A q \in Events(queue', i) :
       \/ q = e
       \/ \E r \in Events(queue, i) :
            /\ q.seq = r.seq /\ q.data = r.data
            /\ q = r \/ (q.snapshot = 0 /\ e.snapshot # 0)
  /\ \A r \in Events(queue, i) :
       \E q \in Events(queue', i) : q.seq = r.seq /\ (e.snapshot = 0 => q = r)

LEMMA QueueRecords ==
  ASSUME FlowType, NEW i \in Invokers, invs[i].seq \in Nat, NEW state \in States,
         objects[invs[i].object].sid \in Invokers,
         NEW point, NEW forced, RecordEvent(i, state, point, forced)
  PROVE  \E e : Joins(i, e)
<1> DEFINE n == invs[i].seq + 1
           snapshot == IF forced \/ (invs[i].mode = "standard" /\ point) THEN n ELSE 0
           e == [kind |-> "event", inv |-> i, sid |-> objects[invs[i].object].sid,
                 seq |-> n, snapshot |-> snapshot,
                 data |-> [state |-> state, life |-> life, point |-> snapshot # 0]]
           s == IF snapshot # 0 THEN Coalesce(i) ELSE queue
<1>1. queue' = Append(s, e)
  BY DEF RecordEvent
<1>2. /\ e \in EventRecords /\ e.inv = i /\ e.seq = n /\ e.kind = "event"
      /\ e.snapshot \in {0, e.seq} /\ (e.data.point <=> e.snapshot # 0)
      /\ e.snapshot = snapshot
  <2>1. n \in Nat \ {0} /\ snapshot \in Nat /\ (snapshot # 0) \in BOOLEAN
        /\ snapshot \in {0, n}
    OBVIOUS
  <2>2. life \in Nat
    BY DEF FlowType
  <2> HIDE DEF n, snapshot
  <2>3. e.data \in Datum /\ (e.data.point <=> e.snapshot # 0)
    BY <2>1, <2>2 DEF Datum
  <2> QED
    BY <2>1, <2>3 DEF EventRecords
<1>3. queue \in Seq(Records)
  BY DEF FlowType
<1>4. s = IF e.snapshot # 0 THEN Coalesce(i) ELSE queue
  BY <1>2
<1> HIDE DEF e, s, snapshot
<1>5. /\ s \in Seq(Records)
      /\ \A j \in Invokers : j # i => Events(s, j) = Events(queue, j)
      /\ \A q \in Events(s, i) : \E r \in Events(queue, i) :
           /\ q.seq = r.seq /\ q.data = r.data
           /\ q = r \/ (q.snapshot = 0 /\ e.snapshot # 0)
      /\ \A r \in Events(queue, i) :
           \E q \in Events(s, i) : q.seq = r.seq /\ (e.snapshot = 0 => q = r)
  <2>1. CASE e.snapshot = 0
    <3>1. s = queue
      BY <1>4, <2>1
    <3> QED
      BY <1>3, <3>1
  <2>2. CASE e.snapshot # 0
    <3>1. s = Coalesce(i)
      BY <1>4, <2>2
    <3>2. /\ s \in Seq(Records)
          /\ \A j \in Invokers : j # i => Events(s, j) = Events(queue, j)
          /\ \A q \in Events(s, i) :
               q.snapshot = 0 /\ \E r \in Events(queue, i) : q.seq = r.seq /\ q.data = r.data
          /\ \A r \in Events(queue, i) : \E q \in Events(s, i) : q.seq = r.seq
      BY <1>3, <3>1, CoalesceSnapshots
    <3> QED
      BY <2>2, <3>2
  <2> QED
    BY <2>1, <2>2
<1>6. Range(queue') = Range(s) \cup {e}
  <2>1. e \in Records
    BY <1>2 DEF Records
  <2> QED
    BY <1>1, <1>5, <2>1, AppendIs
<1>7. /\ Events(queue', i) = Events(s, i) \cup {e}
      /\ \A j \in Invokers : j # i => Events(queue', j) = Events(s, j)
  BY <1>2, <1>6 DEF Events
<1>8. Joins(i, e)
  BY <1>2, <1>5, <1>7 DEF Joins, n
<1> QED
  BY <1>8

(* An event is recorded: a recovery point carries its snapshot, which the  *)
(* older records in the queue lose.                                        *)
LEMMA HistoryRecord ==
  ASSUME SInv, HistoryInv, NEW i \in Invokers, driver[i] # "none", NEW state \in States,
         driver[i] = "driving" => state \in Unfinished,
         driver[i] = "ending" => state \in Ended /\ Held(i),
         NEW point, NEW forced, RecordEvent(i, state, point, forced),
         \/ UNCHANGED <<driver, pc>> /\ driver[i] = "driving"
         \/ DriverReturns(i),
         state \in Ended => DriverReturns(i),
         OnlyDrivers
  PROVE  HistoryInv'
<1>0. CoreInv /\ CallInv /\ FlowInv /\ FlowType
  BY DEF SInv, FlowInv
<1>1. UNCHANGED <<scenario, objects, keyed, found, lru, batch, advanced, durable, available,
                  rows, sessionRow, caches, life>>
  BY DEF OnlyDrivers, writerVars, tables
<1>2. /\ driver' = driver \/ driver' = [driver EXCEPT ![i] = "none"]
      /\ driver[i] # "driving" \/ state \in Ended => driver'[i] = "none"
  <2>1. DriverReturns(i) => driver' = [driver EXCEPT ![i] = "none"]
    BY DEF DriverReturns
  <2> QED
    BY <1>0, <2>1 DEF CoreInv, StoreType
<1>3. /\ Held(i) /\ objects[invs[i].object].sid \in Invokers
      /\ journal' = [journal EXCEPT ![i] = invs[i].seq + 1]
      /\ \A j \in Invokers : j # i => invs'[j] = invs[j] /\ driver'[j] = driver[j]
      /\ invs'[i].seq = invs[i].seq + 1 /\ invs'[i].state = state
      /\ driver'[i] = driver[i] \/ driver'[i] = "none"
  BY <1>0, <1>1, <1>2, RecordCore
<1>4. \A j \in Invokers : pc'[j] \in Early => pc[j] \in Early
  <2>1. "done" \notin Early
    BY DEF Early
  <2>2. DriverReturns(i) => \A j \in Invokers : pc'[j] = pc[j] \/ pc'[j] = "done"
    BY DEF DriverReturns, Calls
  <2> QED
    BY <2>1, <2>2
<1>5. /\ invs[i].seq \in Nat /\ invs[i].state # "none"
      /\ \A j \in Invokers : Held(j)' <=> Held(j)
      /\ rows[i].durable \in Nat /\ rows[i].durable <= invs[i].seq
  <2>1. invs[i].seq \in Nat
    BY <1>0 DEF CoreInv, StoreType, InvocationStates
  <2>2. invs[i].state # "none"
    BY <1>0, <1>3 DEF CoreInv, Booked
  <2>3. invs[i].seq + 1 # Absent
    BY <2>1 DEF Absent
  <2>4. rows[i].durable \in Nat
    BY <1>0 DEF FlowType, RowOk
  <2>5. rows[i].durable <= invs[i].seq
    BY <2>2 DEF HistoryInv, Ahead
  <2> QED
    BY <1>0, <1>3, <2>1, <2>2, <2>3, <2>4, <2>5 DEF Held, CoreInv, StoreType
<1>6. \A j \in Invokers : Entries(queue', j) = Entries(queue, j)
  <2>1. UNCHANGED <<objects, keyed, lru>> /\ UNCHANGED <<batch, durable, rows, life>>
    BY <1>1
  <2> QED
    BY <1>0, <1>2, <1>4, <2>1, FlowRecord
<1>7. PICK e : Joins(i, e)
  BY <1>0, <1>3, <1>5, QueueRecords
<1> DEFINE n == invs[i].seq + 1
<1>8. /\ e \in EventRecords /\ e.inv = i /\ e.seq = n /\ e.kind = "event"
      /\ e.snapshot \in {0, n} /\ (e.data.point <=> e.snapshot # 0)
      /\ e \in FlowEvents(i)' /\ e \in Events(queue', i) /\ n \in Nat /\ n > 0
      /\ e \in Range(queue')
  BY <1>5, <1>7 DEF Joins, FlowEvents, EventRecords, Events
<1>9. \A j \in Invokers :
        /\ Events(batch', j) = Events(batch, j) /\ Entries(batch', j) = Entries(batch, j)
        /\ j # i => FlowEvents(j)' = FlowEvents(j) /\ Events(queue', j) = Events(queue, j)
        /\ FlowEntries(j)' = FlowEntries(j)
  BY <1>1, <1>6, <1>7 DEF FlowEvents, FlowEntries, Joins
<1>10. \A q \in FlowEvents(i)' :
         \/ q = e
         \/ \E r \in FlowEvents(i) :
              /\ q.seq = r.seq /\ q.data = r.data
              /\ q = r \/ (q.snapshot = 0 /\ e.snapshot # 0)
  BY <1>7, <1>9 DEF FlowEvents, Joins
<1>11. \A r \in FlowEvents(i) :
         \E q \in FlowEvents(i)' : q.seq = r.seq /\ (e.snapshot = 0 => q = r)
  BY <1>7, <1>9 DEF FlowEvents, Joins
<1>12. \A r \in FlowEvents(i) : r.seq \in Nat /\ r.seq <= invs[i].seq /\ r.seq < n
  <2>1. \A r \in FlowEvents(i) : r.seq \in Nat /\ r.seq <= invs[i].seq
    BY <1>0, EventIs DEF FlowInv, Bounded
  <2> QED
    BY <1>5, <2>1
<1>13. \A j \in Invokers :
         OnItsWay(j) <=> \E r \in FlowEvents(j) : r.snapshot > rows[j].durable
  BY DEF OnItsWay, FlowEvents, Events
<1>14. \A j \in Invokers :
         OnItsWay(j)' <=> \E r \in FlowEvents(j)' : r.snapshot > rows[j].durable
  BY <1>1 DEF OnItsWay, FlowEvents, Events
<1> HIDE DEF n
<1>15. Solids'
  BY <1>1 DEF HistoryInv, Solids
<1>16. Gapless'
  <2>1. batch' # <<>> => available'
    BY <1>1 DEF HistoryInv, Gapless
  <2>2. ASSUME available, NEW j \in Invokers, invs'[j].state # "none", NEW m \in 1 .. invs'[j].seq,
               rows[j].durable < m \/ (\E r \in FlowEvents(j)' : r.seq < m)
        PROVE  \E r \in FlowEvents(j)' : r.seq = m
    <3>1. CASE j # i
      BY <1>3, <1>9, <2>2, <3>1 DEF HistoryInv, Gapless
    <3>2. CASE j = i /\ m = n
      BY <1>8, <3>2
    <3>3. CASE j = i /\ m # n
      <4>1. m \in 1 .. invs[i].seq /\ m < n
        BY <1>3, <1>5, <2>2, <3>3 DEF n
      <4>2. rows[i].durable < m \/ \E r \in FlowEvents(i) : r.seq < m
        <5>1. ASSUME NEW q \in FlowEvents(i)', q.seq < m PROVE \E r \in FlowEvents(i) : r.seq < m
          <6>1. q # e
            BY <1>8, <4>1, <5>1
          <6> QED
            BY <1>10, <5>1, <6>1
        <5> QED
          BY <2>2, <3>3, <5>1
      <4>3. \E r \in FlowEvents(i) : r.seq = m
        BY <1>5, <2>2, <4>1, <4>2 DEF HistoryInv, Gapless
      <4> QED
        BY <1>11, <3>3, <4>3
    <3> QED
      BY <3>1, <3>2, <3>3
  <2> QED
    BY <1>1, <2>1, <2>2 DEF Gapless
<1>17. Ahead'
  <2>1. ASSUME NEW j \in Invokers
        PROVE  /\ invs'[j].state # "none" => rows[j].durable <= invs'[j].seq
               /\ pc'[j] \in Early => ~Exists(rows[j])
    <3>1. CASE j = i
      BY <1>3, <1>4, <1>5, <3>1 DEF HistoryInv, Ahead
    <3>2. CASE j # i
      BY <1>3, <1>4, <3>2 DEF HistoryInv, Ahead
    <3> QED
      BY <3>1, <3>2
  <2>2. ASSUME NEW j \in Invokers, NEW q \in Events(queue', j) PROVE q.seq > rows[j].durable
    <3>1. CASE j # i
      BY <1>9, <2>2, <3>1 DEF HistoryInv, Ahead
    <3>2. CASE q = e
      <4>1. j = i
        BY <1>8, <2>2, <3>2 DEF Events
      <4> QED
        BY <1>5, <1>8, <3>2, <4>1 DEF n
    <3>3. CASE j = i /\ q # e
      <4>1. \E r \in Events(queue, i) : q.seq = r.seq
        BY <1>7, <2>2, <3>3 DEF Joins
      <4> QED
        BY <3>3, <4>1 DEF HistoryInv, Ahead
    <3> QED
      BY <3>1, <3>2, <3>3
  <2> QED
    BY <1>1, <1>9, <2>1, <2>2 DEF HistoryInv, Ahead
<1>18. OwnRow'
  <2> SUFFICES ASSUME available PROVE OwnRow'
    BY <1>1 DEF OwnRow
  <2>1. RowFirst
    BY DEF HistoryInv, OwnRow
  <2>2. RowFirst'
    BY <1>1, <1>3, <1>5, <1>9, <2>1 DEF RowFirst
  <2> QED
    BY <2>2 DEF OwnRow
<1>19. Carry'
  <2>1. ASSUME NEW r \in FlowEvents(i)'
        PROVE  /\ r.snapshot \in {0, r.seq} /\ (r.snapshot # 0 => r.data.point)
               /\ r.data.point /\ r.snapshot = 0 =>
                    \E q \in FlowEvents(i)' : q.seq > r.seq /\ q.snapshot # 0
    <3>1. CASE r = e
      BY <1>8, <3>1
    <3>2. ASSUME NEW p \in FlowEvents(i), r.seq = p.seq, r.data = p.data,
                 r = p \/ (r.snapshot = 0 /\ e.snapshot # 0)
          PROVE  /\ r.snapshot \in {0, r.seq} /\ (r.snapshot # 0 => r.data.point)
                 /\ r.data.point /\ r.snapshot = 0 =>
                      \E q \in FlowEvents(i)' : q.seq > r.seq /\ q.snapshot # 0
      <4>1. r.snapshot \in {0, r.seq} /\ (r.snapshot # 0 => r.data.point)
        BY <3>2 DEF HistoryInv, Carry
      <4>2. ASSUME r.data.point, r.snapshot = 0, e.snapshot # 0
            PROVE  \E q \in FlowEvents(i)' : q.seq > r.seq /\ q.snapshot # 0
        BY <1>5, <1>8, <1>12, <3>2, <4>2
      <4>3. ASSUME r.data.point, r.snapshot = 0, e.snapshot = 0
            PROVE  \E q \in FlowEvents(i)' : q.seq > r.seq /\ q.snapshot # 0
        <5>1. \E q \in FlowEvents(i) : q.seq > r.seq /\ q.snapshot # 0
          BY <3>2, <4>3 DEF HistoryInv, Carry
        <5> QED
          BY <1>11, <4>3, <5>1
      <4> QED
        BY <4>1, <4>2, <4>3
    <3> QED
      BY <1>10, <3>1, <3>2
  <2> QED
    BY <1>9, <2>1 DEF HistoryInv, Carry
<1>20. Lags'
  <2>1. ASSUME life = 0, available, NEW j \in Invokers, Missing(rows[j]) PROVE OnItsWay(j)'
    <3>1. PICK r \in FlowEvents(j) : r.snapshot > rows[j].durable
      BY <1>13, <2>1 DEF HistoryInv, Lags
    <3>2. CASE j # i
      BY <1>9, <1>14, <3>1, <3>2
    <3>3. CASE j = i /\ e.snapshot = 0
      BY <1>11, <1>14, <3>1, <3>3
    <3>4. CASE j = i /\ e.snapshot # 0
      <4>1. e.snapshot > rows[i].durable
        BY <1>5, <1>8, <3>4 DEF n
      <4> QED
        BY <1>8, <1>14, <3>4, <4>1
    <3> QED
      BY <3>2, <3>3, <3>4
  <2>2. ASSUME life = 0, available, NEW j \in Invokers, Pending(j)'
        PROVE  Held(j)' /\ j \notin Range(lru)
    <3>1. CASE j # i
      <4>1. Pending(j)
        BY <1>1, <1>9, <2>2, <3>1 DEF Pending
      <4> QED
        BY <1>5, <2>2, <4>1 DEF HistoryInv, Lags
    <3>2. CASE j = i
      <4>1. ASSUME i \in Range(lru) PROVE FALSE
        <5>1. invs[i].state \in Ended
          BY <1>0, <4>1 DEF CoreInv, KeptEnded
        <5>2. driver[i] = "ending"
          BY <1>0, <5>1, StatesApart DEF CoreInv, StoreType, DriversFit
        <5>3. FlowEvents(i) = {}
          BY <4>1, <5>2 DEF HistoryInv, Lags
        <5>4. ~Missing(rows[i])
          BY <1>13, <2>2, <5>3 DEF HistoryInv, Lags
        <5>5. \A q \in FlowEvents(i)' : q = e
          BY <1>10, <5>3
        <5> QED
          BY <1>1, <1>8, <2>2, <3>2, <5>4, <5>5 DEF Pending
      <4> QED
        BY <1>3, <1>5, <3>2, <4>1
    <3> QED
      BY <3>1, <3>2
  <2>3. ASSUME NEW j \in Range(lru), driver'[j] = "ending" PROVE FlowEvents(j)' = {}
    <3>1. j \in Invokers
      BY <1>0 DEF CoreInv, StoreType, Range
    <3>2. j # i
      BY <1>2, <1>3, <2>3
    <3> QED
      BY <1>3, <1>9, <2>3, <3>1, <3>2 DEF HistoryInv, Lags
  <2> QED
    BY <1>1, <2>1, <2>2, <2>3 DEF Lags
<1> QED
  BY <1>15, <1>16, <1>17, <1>18, <1>19, <1>20 DEF HistoryInv

LEMMA HistoryDrive ==
  ASSUME SInv, HistoryInv, NEW i \in Invokers, Drive(i)
  PROVE  HistoryInv'
<1>0. CoreInv
  BY DEF SInv
<1>1. CASE Progress(i)
  <2>1. PICK point \in scenario.points : RecordEvent(i, "running", point, FALSE)
    BY <1>1 DEF Progress
  <2>2. driver[i] = "driving" /\ UNCHANGED <<driver, pc>> /\ OnlyDrivers
    BY <1>1 DEF Progress
  <2>3. "running" \in Unfinished /\ "running" \in States /\ "running" \notin Ended
    BY DEF Unfinished, States, Ended
  <2> QED
    BY <2>1, <2>2, <2>3, HistoryRecord
<1>2. CASE Park(i)
  <2>1. /\ driver[i] = "driving" /\ RecordEvent(i, "waiting", TRUE, TRUE)
        /\ DriverReturns(i) /\ OnlyDrivers
    BY <1>2 DEF Park
  <2>2. "waiting" \in Unfinished /\ "waiting" \in States /\ "waiting" \notin Ended
    BY DEF Unfinished, States, Ended
  <2> QED
    BY <2>1, <2>2, HistoryRecord
<1>3. CASE RecordEnd(i)
  <2> DEFINE state == invs[i].state
             forced == invs[i].state = "failed"
  <2>1. /\ driver[i] = "ending" /\ Held(i) /\ RecordEvent(i, state, FALSE, forced)
        /\ DriverReturns(i) /\ OnlyDrivers
    BY <1>3 DEF RecordEnd, Held
  <2>2. state \in Ended /\ state \in States
    BY <1>0, <2>1 DEF CoreInv, DriversFit, States
  <2> HIDE DEF state, forced
  <2> QED
    BY <2>1, <2>2, HistoryRecord
<1> QED
  BY <1>1, <1>2, <1>3, HistoryMark, HistoryRefused DEF Drive

LEMMA HistoryTake ==
  ASSUME SInv, HistoryInv, TakeBatch
  PROVE  HistoryInv'
<1>0. CoreInv /\ FlowInv /\ FlowType
  BY DEF SInv, FlowInv
<1>1. /\ UNCHANGED <<pc, invs, driver, journal, lru, available, rows, caches, life>>
      /\ available
  BY DEF TakeBatch, callVars, driverVars, tables
<1>2. /\ FlowInv' /\ Range(batch) = {}
      /\ \A i \in Invokers :
           /\ FlowEvents(i)' = FlowEvents(i) /\ FlowEntries(i)' = FlowEntries(i)
           /\ Events(queue, i) = Events(batch', i) \cup Events(queue', i)
           /\ Entries(queue, i) = Entries(batch', i) \cup Entries(queue', i)
  BY <1>0, FlowTake
<1>3. \A i \in Invokers : (Held(i)' <=> Held(i)) /\ (OnItsWay(i)' <=> OnItsWay(i))
  <2> TAKE i \in Invokers
  <2>1. OnItsWay(i) <=> \E r \in FlowEvents(i) : r.snapshot > rows[i].durable
    BY DEF OnItsWay, FlowEvents, Events
  <2>2. OnItsWay(i)' <=> \E r \in FlowEvents(i)' : r.snapshot > rows[i].durable
    BY <1>1 DEF OnItsWay, FlowEvents, Events
  <2> QED
    BY <1>1, <1>2, <2>1, <2>2 DEF Held
<1>4. Solids'
  BY <1>1 DEF HistoryInv, Solids
<1>5. Gapless'
  BY <1>1, <1>2 DEF HistoryInv, Gapless
<1>6. Ahead'
  <2>1. ASSUME NEW i \in Invokers, NEW r \in Events(batch', i)
        PROVE  r.seq >= rows[i].durable /\ r.seq \notin DOMAIN rows[i].events
    <3>1. r.seq > rows[i].durable /\ r \in FlowEvents(i)
      BY <1>2, <2>1 DEF HistoryInv, Ahead, FlowEvents
    <3>2. r.seq \in Nat /\ rows[i].durable \in Nat
      BY <1>0, <3>1, EventIs DEF FlowType, RowOk
    <3>3. DOMAIN rows[i].events = 1 .. rows[i].durable
      BY DEF HistoryInv, Solids, Solid
    <3> QED
      BY <3>1, <3>2, <3>3
  <2>2. \A i \in Invokers : \A r \in Events(queue', i) : r.seq > rows[i].durable
    BY <1>2 DEF HistoryInv, Ahead
  <2> QED
    BY <1>1, <2>1, <2>2 DEF HistoryInv, Ahead
<1>7. OwnRow'
  <2>1. RowFirst
    BY <1>1 DEF HistoryInv, OwnRow
  <2>2. ASSUME NEW i \in Invokers, Events(batch', i) # {}
        PROVE  Exists(rows[i]) \/ Entries(batch', i) # {}
    <3>1. Exists(rows[i]) \/ FlowEntries(i) # {}
      BY <1>2, <2>1, <2>2 DEF RowFirst
    <3>2. FlowEntries(i) = Entries(queue, i)
      BY <1>2 DEF FlowEntries, Entries
    <3>3. Entries(queue', i) = {}
      BY <1>2, <2>2 DEF FlowInv, FlowOrder, Precedes, Events, Entries
    <3> QED
      BY <1>2, <3>1, <3>2, <3>3
  <2>3. RowFirst'
    BY <1>1, <1>2, <1>3, <2>1, <2>2 DEF RowFirst
  <2> QED
    BY <2>3 DEF OwnRow
<1>8. Carry'
  BY <1>2 DEF HistoryInv, Carry
<1>9. Lags'
  <2>1. \A i \in Invokers : Pending(i)' <=> Pending(i)
    BY <1>1, <1>2 DEF Pending
  <2>2. \A i \in Range(lru) : i \in Invokers
    BY <1>0 DEF CoreInv, StoreType, Range
  <2> QED
    BY <1>1, <1>2, <1>3, <2>1, <2>2 DEF HistoryInv, Lags
<1> QED
  BY <1>4, <1>5, <1>6, <1>7, <1>8, <1>9 DEF HistoryInv

LEMMA HistoryHalt ==
  ASSUME SInv, HistoryInv, Halt
  PROVE  HistoryInv'
<1>0. CoreInv /\ FlowInv /\ FlowType /\ FlowOrder
  BY DEF SInv, FlowInv
<1>1. /\ UNCHANGED <<pc, invs, driver, journal, lru, queue, rows, caches, life>>
      /\ available' = FALSE /\ batch' = <<>>
  BY DEF Halt, callVars, driverVars, tables
<1>2. Range(batch') = {}
  BY <1>1 DEF Range
<1>3. \A i \in Invokers :
        /\ FlowEvents(i)' = Events(queue, i) /\ Events(queue', i) = Events(queue, i)
        /\ Events(batch', i) = {} /\ Events(queue, i) \subseteq FlowEvents(i)
        /\ (Held(i)' <=> Held(i))
  BY <1>1, <1>2 DEF FlowEvents, Events, Held
<1>4. Solids'
  BY <1>1 DEF HistoryInv, Solids
<1>5. Gapless' /\ OwnRow'
  BY <1>1 DEF Gapless, OwnRow
<1>6. Ahead'
  BY <1>1, <1>3 DEF HistoryInv, Ahead
<1>7. Carry'
  <2>1. ASSUME NEW i \in Invokers, NEW r \in Events(queue, i), r.data.point, r.snapshot = 0
        PROVE  \E q \in Events(queue, i) : q.seq > r.seq /\ q.snapshot # 0
    <3>1. PICK q \in FlowEvents(i) : q.seq > r.seq /\ q.snapshot # 0
      BY <1>3, <2>1 DEF HistoryInv, Carry
    <3>2. CASE q \in Events(batch, i)
      <4>1. Precedes(q, r)
        BY <1>0, <3>2 DEF FlowOrder, Events
      <4>2. q.seq < r.seq
        BY <3>2, <4>1 DEF Precedes, Events
      <4>3. q.seq \in Nat /\ r.seq \in Nat
        BY <1>0, <1>3, EventIs
      <4> QED
        BY <3>1, <4>2, <4>3
    <3> QED
      BY <3>1, <3>2 DEF FlowEvents
  <2> QED
    BY <1>3, <2>1 DEF HistoryInv, Carry
<1>8. Lags'
  <2>1. \A i \in Range(lru) : i \in Invokers
    BY <1>0 DEF CoreInv, StoreType, Range
  <2> QED
    BY <1>1, <1>3, <2>1 DEF HistoryInv, Lags
<1> QED
  BY <1>4, <1>5, <1>6, <1>7, <1>8 DEF HistoryInv

(* What a transaction leaves of the flow of an Invocation.                 *)
LEMMA AfterTransaction ==
  ASSUME SInv, HistoryInv, ~Refused, NEW i \in Invokers, NEW new, new = Persisted(i).row
  PROVE  /\ new.durable \in Nat /\ rows[i].durable \in Nat /\ rows[i].durable <= new.durable
         /\ \A r \in Events(batch, i) : r.seq \in Nat /\ r.seq <= new.durable
         /\ \A r \in Events(queue, i) : r.seq \in Nat /\ r.seq > new.durable
         /\ Events(batch, i) # {} => \E r \in Events(batch, i) : r.seq = new.durable
         /\ invs[i].state # "none" => new.durable <= invs[i].seq
<1>1. FlowInv /\ FlowType /\ FlowOrder
  BY DEF SInv, FlowInv
<1>2. /\ Events(batch, i) = {} => new.durable = rows[i].durable
      /\ Events(batch, i) # {} =>
           \E e \in Events(batch, i) :
             /\ new.durable = e.seq /\ rows[i].durable <= e.seq
             /\ \A r \in Events(batch, i) : r.seq <= e.seq
  BY PersistedHistory
<1>3. /\ \A r \in Events(batch, i) : r.seq \in Nat /\ r.seq <= invs[i].seq
      /\ \A r \in Events(queue, i) : r.seq \in Nat
  BY <1>1, EventIs DEF FlowEvents, FlowInv, Bounded
<1>4. rows[i].durable \in Nat
  BY <1>1 DEF FlowType, RowOk
<1>5. invs[i].state # "none" => rows[i].durable <= invs[i].seq
  BY DEF HistoryInv, Ahead
<1>6. CASE Events(batch, i) = {}
  <2>1. \A r \in Events(queue, i) : r.seq > rows[i].durable
    BY DEF HistoryInv, Ahead
  <2> QED
    BY <1>2, <1>3, <1>4, <1>5, <1>6, <2>1
<1>7. CASE Events(batch, i) # {}
  <2>1. PICK e \in Events(batch, i) :
          /\ new.durable = e.seq /\ rows[i].durable <= e.seq
          /\ \A r \in Events(batch, i) : r.seq <= e.seq
    BY <1>2, <1>7
  <2>2. \A r \in Events(queue, i) : e.seq < r.seq
    BY <1>1 DEF FlowOrder, Precedes, Events
  <2> QED
    BY <1>3, <1>4, <2>1, <2>2
<1> QED
  BY <1>6, <1>7

(* The tables change, whether or not the writer hears of it.               *)
LEMMA HistoryTables ==
  ASSUME SInv, HistoryInv, ~Refused, NewTables, NewCaches, batch # <<>>,
         UNCHANGED <<pc, invs, driver, journal, lru, queue, available, life>>,
         batch' = batch \/ batch' = <<>>
  PROVE  HistoryInv'
<1>0. CoreInv /\ FlowInv /\ FlowType /\ FlowOrder
  BY DEF SInv, FlowInv
<1>1. available /\ RowFirst
  BY DEF HistoryInv, Gapless, OwnRow
<1>2. \A i \in Invokers :
        /\ rows'[i] = Persisted(i).row /\ caches'[i] = Persisted(i).cache
        /\ (Held(i)' <=> Held(i))
        /\ Exists(rows[i]) \/ Entries(batch, i) # {} => Exists(rows'[i])
        /\ Exists(rows'[i]) => Exists(rows[i]) \/ Entries(batch, i) # {}
  BY <1>0, <1>1, TablesKeep, RowComes DEF NewCaches, Held
<1>3. \A i \in Invokers :
        /\ rows'[i].durable \in Nat /\ rows[i].durable \in Nat
        /\ rows[i].durable <= rows'[i].durable
        /\ \A r \in Events(batch, i) : r.seq \in Nat /\ r.seq <= rows'[i].durable
        /\ \A r \in Events(queue, i) : r.seq \in Nat /\ r.seq > rows'[i].durable
        /\ Events(batch, i) # {} => \E r \in Events(batch, i) : r.seq = rows'[i].durable
        /\ invs[i].state # "none" => rows'[i].durable <= invs[i].seq
  BY <1>2, AfterTransaction
<1>4. \A i \in Invokers :
        /\ Events(queue', i) = Events(queue, i)
        /\ \/ /\ Events(batch', i) = Events(batch, i) /\ FlowEvents(i)' = FlowEvents(i)
              /\ FlowEntries(i)' = FlowEntries(i)
           \/ /\ Events(batch', i) = {} /\ FlowEvents(i)' = Events(queue, i)
              /\ FlowEntries(i)' = Entries(queue, i)
        /\ FlowEvents(i)' \subseteq FlowEvents(i) /\ FlowEntries(i)' \subseteq FlowEntries(i)
        /\ Events(queue, i) \subseteq FlowEvents(i)'
        /\ Entries(queue, i) \subseteq FlowEntries(i)'
  <2>1. CASE batch' = batch
    BY <2>1 DEF FlowEvents, FlowEntries, Events, Entries
  <2>2. CASE batch' = <<>>
    <3>1. Range(batch') = {}
      BY <2>2 DEF Range
    <3> QED
      BY <3>1 DEF FlowEvents, FlowEntries, Events, Entries
  <2> QED
    BY <2>1, <2>2
<1>5. Solids'
  BY <1>2, PersistedHistory DEF Solids, NewCaches
<1>6. Gapless'
  <2>1. ASSUME NEW i \in Invokers, invs[i].state # "none", NEW n \in 1 .. invs[i].seq,
               rows'[i].durable < n \/ (\E r \in FlowEvents(i)' : r.seq < n)
        PROVE  \E r \in FlowEvents(i)' : r.seq = n
    <3>1. rows[i].durable < n \/ (\E r \in FlowEvents(i) : r.seq < n)
      BY <1>3, <1>4, <2>1
    <3>2. PICK r \in FlowEvents(i) : r.seq = n
      BY <1>1, <2>1, <3>1 DEF HistoryInv, Gapless
    <3>3. CASE FlowEvents(i)' = FlowEvents(i)
      BY <3>2, <3>3
    <3>4. CASE FlowEvents(i)' = Events(queue, i)
      <4>1. rows'[i].durable < n
        BY <1>3, <2>1, <3>4
      <4>2. r \notin Events(batch, i)
        BY <1>3, <3>2, <4>1
      <4> QED
        BY <1>4, <3>2, <4>2 DEF FlowEvents
    <3> QED
      BY <1>4, <3>3, <3>4
  <2> QED
    BY <1>1, <2>1 DEF Gapless
<1>7. Ahead'
  <2>1. ASSUME NEW i \in Invokers, pc[i] \in Early PROVE ~Exists(rows'[i])
    <3>1. ~Exists(rows[i])
      BY <2>1 DEF HistoryInv, Ahead
    <3>2. FlowEntries(i) = {}
      BY <1>0, <2>1 DEF FlowInv, Unborn
    <3> QED
      BY <1>2, <3>1, <3>2 DEF FlowEntries
  <2>2. ASSUME NEW i \in Invokers, Events(batch', i) # {}
        PROVE  \E r \in Events(batch', i) : r.seq >= rows'[i].durable
    BY <1>3, <1>4, <2>2
  <2>3. ASSUME NEW i \in Invokers, NEW r \in Events(batch', i)
        PROVE  rows'[i].events[r.seq] = r.data
    BY <1>2, <1>4, <2>3, PersistedHistory
  <2> QED
    BY <1>3, <1>4, <2>1, <2>2, <2>3 DEF Ahead
<1>8. OwnRow'
  <2>1. RowFirst'
    <3>1. ASSUME NEW i \in Invokers, Exists(rows[i]) \/ FlowEntries(i) # {}
          PROVE  Exists(rows'[i]) \/ FlowEntries(i)' # {}
      BY <1>2, <1>4, <3>1 DEF FlowEntries
    <3>2. ASSUME NEW i \in Invokers, Events(batch', i) # {} PROVE Exists(rows'[i])
      BY <1>1, <1>2, <1>4, <3>2 DEF RowFirst
    <3> QED
      BY <1>1, <1>2, <1>4, <3>1, <3>2 DEF RowFirst
  <2> QED
    BY <2>1 DEF OwnRow
(* A snapshot that is still needed is behind the batch.                    *)
<1>9. ASSUME NEW i \in Invokers, NEW r \in Events(queue, i), r.data.point, r.snapshot = 0
      PROVE  \E q \in Events(queue, i) : q.seq > r.seq /\ q.snapshot # 0
  <2>1. PICK q \in FlowEvents(i) : q.seq > r.seq /\ q.snapshot # 0
    BY <1>9 DEF HistoryInv, Carry, FlowEvents
  <2>2. q \notin Events(batch, i)
    BY <1>3, <2>1
  <2> QED
    BY <2>1, <2>2 DEF FlowEvents
<1>10. Carry'
  <2> SUFFICES ASSUME NEW i \in Invokers, NEW r \in FlowEvents(i)'
               PROVE  /\ r.snapshot \in {0, r.seq} /\ (r.snapshot # 0 => r.data.point)
                      /\ r.data.point /\ r.snapshot = 0 =>
                           \E q \in FlowEvents(i)' : q.seq > r.seq /\ q.snapshot # 0
    BY DEF Carry
  <2>1. r \in FlowEvents(i)
    BY <1>4
  <2>2. CASE FlowEvents(i)' = FlowEvents(i)
    BY <2>1, <2>2 DEF HistoryInv, Carry
  <2>3. CASE FlowEvents(i)' = Events(queue, i)
    <3>1. r \in Events(queue, i)
      BY <2>3
    <3> QED
      BY <1>9, <2>1, <2>3, <3>1 DEF HistoryInv, Carry
  <2> QED
    BY <1>4, <2>2, <2>3
<1>11. ASSUME NEW i \in Invokers, Missing(rows'[i])
       PROVE  /\ Pending(i)
              /\ (Missing(rows[i]) => OnItsWay(i)) => OnItsWay(i)'
  <2>1. \/ Missing(rows[i]) /\ \A r \in Events(batch, i) : r.snapshot = 0
        \/ \E r \in Events(batch, i) :
             /\ r.data.point /\ r.snapshot = 0
             /\ \A q \in Events(batch, i) : q.snapshot # 0 => q.seq <= r.seq
    BY <1>2, <1>11, PersistedHistory
  <2>2. Pending(i)
    BY <2>1 DEF Pending, FlowEvents
  <2>3. ASSUME NEW q \in Events(queue, i), q.snapshot # 0 PROVE OnItsWay(i)'
    <3>1. q.snapshot = q.seq
      BY <2>3 DEF HistoryInv, Carry, FlowEvents
    <3>2. q.snapshot > rows'[i].durable
      BY <1>3, <3>1
    <3> QED
      BY <3>2 DEF OnItsWay, Events
  <2>4. CASE Missing(rows[i]) /\ \A r \in Events(batch, i) : r.snapshot = 0
    <3> SUFFICES ASSUME OnItsWay(i) PROVE OnItsWay(i)'
      BY <2>2, <2>4
    <3>1. PICK r \in FlowEvents(i) : r.snapshot > rows[i].durable
      BY DEF OnItsWay, FlowEvents, Events
    <3>2. r.snapshot # 0
      BY <1>3, <3>1
    <3>3. r \in Events(queue, i)
      BY <2>4, <3>2 DEF FlowEvents
    <3> QED
      BY <2>3, <3>2, <3>3
  <2>5. ASSUME NEW r \in Events(batch, i), r.data.point, r.snapshot = 0,
               \A q \in Events(batch, i) : q.snapshot # 0 => q.seq <= r.seq
        PROVE  OnItsWay(i)'
    <3>1. PICK q \in FlowEvents(i) : q.seq > r.seq /\ q.snapshot # 0
      BY <2>5 DEF HistoryInv, Carry, FlowEvents
    <3>2. q \notin Events(batch, i)
      BY <1>3, <2>5, <3>1
    <3> QED
      BY <2>3, <3>1, <3>2 DEF FlowEvents
  <2> QED
    BY <2>1, <2>2, <2>4, <2>5
<1>12. Lags'
  <2>1. \A i \in Invokers : Pending(i)' => Pending(i)
    BY <1>4, <1>11 DEF Pending
  <2>2. \A i \in Range(lru) : i \in Invokers
    BY <1>0 DEF CoreInv, StoreType, Range
  <2>3. \A i \in Range(lru) : driver[i] = "ending" => FlowEvents(i)' = {}
    BY <1>4, <2>2 DEF HistoryInv, Lags
  <2>4. ASSUME life = 0, available, NEW i \in Invokers
        PROVE  /\ Missing(rows'[i]) => OnItsWay(i)'
               /\ Pending(i)' => Held(i)' /\ i \notin Range(lru)
    BY <1>2, <1>11, <2>1, <2>4 DEF HistoryInv, Lags
  <2> QED
    BY <2>3, <2>4 DEF Lags
<1> QED
  BY <1>5, <1>6, <1>7, <1>8, <1>10, <1>12 DEF HistoryInv

LEMMA HistoryTransaction ==
  ASSUME SInv, HistoryInv, Commit \/ CommitFails
  PROVE  HistoryInv'
<1>1. /\ batch # <<>> /\ ~Refused /\ NewCaches
      /\ UNCHANGED <<pc, invs, driver, journal, lru, queue, available, life>>
      /\ batch' = batch \/ batch' = <<>>
  BY DEF Commit, CommitFails, callVars, driverVars, writerVars
<1>2. CASE NewTables
  BY <1>1, <1>2, HistoryTables
<1>3. CASE UNCHANGED tables /\ batch' = batch
  <2>1. UNCHANGED rows
    BY <1>3 DEF tables
  <2>2. DOMAIN caches' = Invokers /\ \A i \in Invokers : CacheOk(caches'[i])
    BY <1>1, PersistedHistory DEF NewCaches
  <2> QED
    BY <1>1, <1>3, <2>1, <2>2, HistoryFrame
<1> QED
  BY <1>2, <1>3 DEF Commit, CommitFails, writerVars

(* Retention lets go of nothing that the tables still lack.                *)
LEMMA HistoryAdvance ==
  ASSUME SInv, HistoryInv, NEW i \in Invokers, Advance(i)
  PROVE  HistoryInv'
<1>0. CoreInv /\ FlowInv /\ FlowType /\ EndInv
  BY DEF SInv, FlowInv
<1>1. UNCHANGED <<pc, invs, driver, queue, batch, durable, available, rows, life>>
  BY DEF Advance, tables
<1>2. /\ CoreInv'
      /\ \/ lru' = lru /\ UNCHANGED <<objects, sessions, keyed, journal>>
         \/ /\ Retirable(i) /\ Range(lru') \subseteq Range(lru) \cup {i}
            /\ \A j \in Invokers : \/ journal'[j] = journal[j]
                                   \/ j \in Range(lru) \cup {i} /\ journal'[j] = Absent
  BY <1>0, AdvanceKeeps
<1>3. \A j \in Invokers :
        /\ FlowEvents(j)' = FlowEvents(j) /\ FlowEntries(j)' = FlowEntries(j)
        /\ Events(batch', j) = Events(batch, j) /\ Entries(batch', j) = Entries(batch, j)
        /\ Events(queue', j) = Events(queue, j)
        /\ (OnItsWay(j)' <=> OnItsWay(j)) /\ (Pending(j)' <=> Pending(j))
  BY <1>1 DEF FlowEvents, FlowEntries, Events, Entries, OnItsWay, Pending
<1>4. \A j \in Invokers : Held(j)' => Held(j)
  BY <1>2 DEF Held
(* What is retired is durable to its last event.                           *)
<1>5. ASSUME Retirable(i)
      PROVE  FlowEvents(i) = {} /\ durable[i] # Absent /\ (life = 0 /\ available => ~Pending(i))
  <2>1. durable[i] >= invs[i].seq /\ invs[i].seq \in Nat /\ durable[i] \in Nat \cup {Absent}
    BY <1>0, <1>5 DEF Retirable, FlowType, CoreInv, StoreType, InvocationStates
  <2>2. durable[i] # Absent
    BY <2>1 DEF Absent
  <2>3. \A r \in FlowEvents(i) : r.seq \in Nat /\ r.seq <= invs[i].seq /\ durable[i] < r.seq
    BY <1>0, EventIs DEF FlowInv, Bounded
  <2>4. FlowEvents(i) = {}
    BY <2>1, <2>2, <2>3
  <2>5. ~OnItsWay(i)
    BY <2>4 DEF OnItsWay, FlowEvents, Events
  <2>6. life = 0 /\ available => ~Pending(i)
    BY <2>4, <2>5 DEF Pending, HistoryInv, Lags
  <2> QED
    BY <2>2, <2>4, <2>6
<1>6. Solids'
  <2>1. caches' = caches \/ caches' = [caches EXCEPT ![i] = NoCache]
    BY DEF Advance
  <2>2. CacheOk(NoCache)
    BY DEF CacheOk, NoCache, Garbage
  <2>3. /\ DOMAIN caches' = Invokers
        /\ \A j \in Invokers : caches'[j] = caches[j] \/ caches'[j] = NoCache
    BY <2>1 DEF HistoryInv, Solids
  <2>4. ASSUME NEW j \in Invokers PROVE CacheOk(caches'[j])
    <3>1. CASE caches'[j] = caches[j]
      BY <3>1 DEF HistoryInv, Solids
    <3>2. CASE caches'[j] = NoCache
      BY <2>2, <3>2
    <3> QED
      BY <2>3, <3>1, <3>2
  <2> QED
    BY <1>1, <2>3, <2>4 DEF HistoryInv, Solids
<1>7. Gapless' /\ Ahead' /\ Carry'
  <2>1. Gapless'
    BY <1>1, <1>3 DEF HistoryInv, Gapless
  <2>2. Ahead'
    BY <1>1, <1>3 DEF HistoryInv, Ahead
  <2>3. Carry'
    BY <1>3 DEF HistoryInv, Carry
  <2> QED
    BY <2>1, <2>2, <2>3
<1>8. OwnRow'
  <2> SUFFICES ASSUME available PROVE OwnRow'
    BY <1>1 DEF OwnRow
  <2>1. RowFirst
    BY DEF HistoryInv, OwnRow
  <2>2. RowFirst'
    BY <1>1, <1>3, <1>4, <2>1 DEF RowFirst
  <2> QED
    BY <2>2 DEF OwnRow
<1>9. Lags'
  <2>1. ASSUME life = 0, available, NEW j \in Invokers, Pending(j)
        PROVE  Held(j)' /\ j \notin Range(lru')
    <3>1. Held(j) /\ j \notin Range(lru)
      BY <2>1 DEF HistoryInv, Lags
    <3>2. CASE lru' = lru /\ UNCHANGED <<objects, sessions, keyed, journal>>
      BY <3>1, <3>2 DEF Held
    <3>3. CASE /\ Retirable(i) /\ Range(lru') \subseteq Range(lru) \cup {i}
               /\ \A k \in Invokers : \/ journal'[k] = journal[k]
                                      \/ k \in Range(lru) \cup {i} /\ journal'[k] = Absent
      <4>1. j # i
        BY <1>5, <2>1, <3>3
      <4> QED
        BY <3>1, <3>3, <4>1 DEF Held
    <3> QED
      BY <1>2, <3>2, <3>3
  <2>2. ASSUME NEW j \in Range(lru'), driver[j] = "ending"
        PROVE FlowEvents(j) = {} /\ j \in Invokers
    <3>1. j \in Invokers
      BY <1>2 DEF CoreInv, StoreType, Range
    <3>2. j \in Range(lru) \/ (j = i /\ Retirable(i))
      BY <1>2, <2>2
    <3> QED
      BY <1>5, <2>2, <3>1, <3>2 DEF HistoryInv, Lags
  <2>3. \A j \in Range(lru') : driver'[j] = "ending" => FlowEvents(j)' = {}
    BY <1>1, <1>3, <2>2
  <2>4. ASSUME life = 0, available, NEW j \in Invokers
        PROVE  /\ Missing(rows[j]) => OnItsWay(j)'
               /\ Pending(j)' => Held(j)' /\ j \notin Range(lru')
    BY <1>3, <2>1, <2>4 DEF HistoryInv, Lags
  <2> QED
    BY <1>1, <2>3, <2>4 DEF Lags
<1> QED
  BY <1>6, <1>7, <1>8, <1>9 DEF HistoryInv

(* A restart begins with an empty flow, and goes on from what the tables   *)
(* have; what they lack is lost.                                           *)
LEMMA HistoryRestart ==
  ASSUME SInv, HistoryInv, Restart
  PROVE  HistoryInv'
<1>0. FlowType /\ SInv'
  BY RestartStep DEF SInv, FlowInv
<1> DEFINE R == Recoverable
<1>1. /\ UNCHANGED rows /\ life' = life + 1
      /\ lru' = <<>> /\ queue' = <<>> /\ batch' = <<>>
      /\ caches' = [i \in Invokers |->
           IF i \in R THEN [NoCache EXCEPT !.state = rows[i].image] ELSE NoCache]
      /\ pc' = [c \in Calls |-> IF pc[c] = "idle" THEN "idle" ELSE "lost"]
  BY DEF Restart, tables
<1>2. /\ \A i \in R : /\ Exists(rows[i]) /\ invs'[i].seq = rows[i].durable
                      /\ rows[i].durable \in Nat
      /\ \A i \in Invokers \ R :
           invs'[i] = NoInvocation /\ journal'[i] = Absent /\ driver'[i] = "none"
  BY RecoveredIs
<1> HIDE DEF R
<1>3. \A i \in Invokers : /\ invs'[i].state # "none" => i \in R
                          /\ Held(i)' => i \in R
  BY <1>2 DEF Held, NoInvocation
<1>4. /\ \A i \in Invokers : FlowEvents(i)' = {} /\ FlowEntries(i)' = {}
      /\ \A i \in Invokers : Events(queue', i) = {} /\ Events(batch', i) = {}
                             /\ Entries(batch', i) = {}
      /\ Range(lru') = {}
  <2>1. Range(queue') = {} /\ Range(batch') = {} /\ Range(lru') = {}
    BY <1>1 DEF Range
  <2>2. \A i \in Invokers : Events(queue', i) = {} /\ Events(batch', i) = {}
                            /\ Entries(batch', i) = {} /\ Entries(queue', i) = {}
    BY <2>1 DEF Events, Entries
  <2> QED
    BY <2>1, <2>2 DEF FlowEvents, FlowEntries
<1>5. Solids'
  <2>1. \A i \in Invokers : caches'[i].projection = Garbage
    BY <1>1 DEF NoCache
  <2>2. \A i \in Invokers : CacheOk(caches'[i])
    BY <2>1 DEF CacheOk, Garbage
  <2> QED
    BY <1>1, <2>2 DEF HistoryInv, Solids
<1>6. Gapless'
  <2>1. ASSUME NEW i \in Invokers, invs'[i].state # "none", NEW n \in 1 .. invs'[i].seq
        PROVE  ~(rows[i].durable < n)
    BY <1>2, <1>3, <2>1
  <2> QED
    BY <1>1, <1>4, <2>1 DEF Gapless
<1>7. Ahead'
  <2>1. \A i \in Invokers : invs'[i].state # "none" => rows[i].durable <= invs'[i].seq
    BY <1>2, <1>3
  <2>2. \A i \in Invokers : pc'[i] \in Early => pc[i] \in Early
    BY <1>1 DEF Early, Calls
  <2> QED
    BY <1>1, <1>4, <2>1, <2>2 DEF HistoryInv, Ahead
<1>8. OwnRow'
  <2>1. RowFirst'
    BY <1>1, <1>2, <1>3, <1>4 DEF RowFirst
  <2> QED
    BY <2>1 DEF OwnRow
<1>9. Carry'
  BY <1>4 DEF Carry
<1>10. Lags'
  <2>1. life' # 0
    BY <1>0, <1>1 DEF FlowType
  <2> QED
    BY <1>4, <2>1 DEF Lags
<1> QED
  BY <1>5, <1>6, <1>7, <1>8, <1>9, <1>10 DEF HistoryInv

LEMMA HistoryInit ==
  ASSUME Init
  PROVE  HistoryInv
<1>1. /\ available = TRUE /\ lru = <<>> /\ queue = <<>> /\ batch = <<>>
      /\ invs = [i \in Invokers |-> NoInvocation]
      /\ journal = [i \in Invokers |-> Absent]
      /\ rows = [i \in Invokers |-> AdmissionRow("none")]
      /\ caches = [i \in Invokers |-> NoCache]
  BY DEF Init, NoMemory
<1>2. /\ \A i \in Invokers : FlowEvents(i) = {} /\ FlowEntries(i) = {}
      /\ \A i \in Invokers : Events(queue, i) = {} /\ Events(batch, i) = {}
                             /\ Entries(batch, i) = {}
      /\ Range(lru) = {}
  <2>1. Range(queue) = {} /\ Range(batch) = {} /\ Range(lru) = {}
    BY <1>1 DEF Range
  <2>2. \A i \in Invokers : Events(queue, i) = {} /\ Events(batch, i) = {}
                            /\ Entries(batch, i) = {} /\ Entries(queue, i) = {}
    BY <2>1 DEF Events, Entries
  <2> QED
    BY <2>1, <2>2 DEF FlowEvents, FlowEntries
<1>3. \A i \in Invokers : /\ ~Held(i) /\ invs[i].state = "none" /\ rows[i] = AdmissionRow("none")
                          /\ caches[i] = NoCache
  BY <1>1 DEF Held, NoInvocation
<1>4. LET row == AdmissionRow("none") IN
      Solid(row) /\ AtPoint(row) /\ ~Exists(row) /\ ~Missing(row)
  BY DEF AdmissionRow, Solid, AtPoint, Exists, Missing
<1>5. CacheOk(NoCache)
  BY DEF CacheOk, NoCache, Garbage
<1>6. Solids
  BY <1>1, <1>3, <1>4, <1>5 DEF Solids
<1>7. Gapless /\ Ahead
  BY <1>1, <1>2, <1>3, <1>4 DEF Gapless, Ahead
<1>8. OwnRow
  BY <1>2, <1>3 DEF OwnRow, RowFirst
<1>9. Carry /\ Lags
  BY <1>2, <1>3, <1>4 DEF Carry, Lags, Pending
<1> QED
  BY <1>6, <1>7, <1>8, <1>9 DEF HistoryInv

LEMMA HistoryNext ==
  ASSUME SInv, HistoryInv, [Next]_vars
  PROVE  HistoryInv'
<1>1. ASSUME Writer PROVE HistoryInv'
  BY <1>1, HistoryTake, HistoryHalt, HistoryTransaction, HistoryAdvance DEF Writer
<1>2. CASE UNCHANGED vars
  <2>1. UNCHANGED <<queue, batch, available, rows, life, lru, journal, caches, invs,
                    pc, driver>>
    BY <1>2 DEF vars, callVars, driverVars, writerVars, tables
  <2> QED
    BY <2>1, HistoryFrame
<1> QED
  BY <1>1, <1>2, HistoryCall, HistoryResume, HistoryAdmit, HistoryDrive, HistoryRestart DEF Next

LEMMA HistoryInvariant ==
  Spec => [](SInv /\ HistoryInv)
<1>1. Init => HistoryInv
  BY HistoryInit
<1>2. SInv /\ HistoryInv /\ [Next]_vars => HistoryInv'
  BY HistoryNext
<1> QED
  BY <1>1, <1>2, SessionInvariant, PTL DEF Spec

LEMMA HistoryMeans ==
  ASSUME SInv, HistoryInv
  PROVE  RebuildExact
<1> SUFFICES ASSUME NEW i \in Invokers
             PROVE  /\ DOMAIN rows[i].events = 1 .. rows[i].durable
                    /\ rows[i].mode = "full" => Rebuilt(rows[i]) = rows[i].durable
                    /\ rows[i].mode = "standard" =>
                         \/ Rebuilt(rows[i]) = Max({0} \cup Points(i))
                         \/ /\ Rebuilt(rows[i]) \in {0} \cup Points(i)
                            /\ OnItsWay(i) \/ life > 0 \/ ~available
  BY DEF RebuildExact
<1> DEFINE row == rows[i]
<1>1. /\ DOMAIN row.events = 1 .. row.durable /\ row.image = row.recovery
      /\ row.recovery \in 0 .. row.durable /\ AtPoint(row)
      /\ row.durable \in Nat /\ life \in Nat
  BY DEF HistoryInv, Solids, Solid, SInv, FlowInv, FlowType, RowOk
<1>2. Points(i) = PointsOf(row)
  BY DEF Points, PointsOf
<1>3. Missing(row) => OnItsWay(i) \/ life > 0 \/ ~available
  BY <1>1 DEF HistoryInv, Lags
<1> HIDE DEF row
<1>4. row.mode = "full" => Rebuilt(row) = row.durable
  <2>1. row.recovery \in Nat /\ row.recovery <= row.durable
    BY <1>1
  <2>2. Reduce(row.image, Numbers(row.recovery, row.durable)) = row.durable
    BY <1>1, <2>1, ReduceNumbers
  <2> QED
    BY <2>2 DEF Rebuilt
<1>5. row.mode = "standard" =>
        \/ Rebuilt(row) = Max({0} \cup PointsOf(row))
        \/ /\ Rebuilt(row) \in {0} \cup PointsOf(row)
           /\ OnItsWay(i) \/ life > 0 \/ ~available
  <2> SUFFICES ASSUME row.mode = "standard"
               PROVE  \/ Rebuilt(row) = Max({0} \cup PointsOf(row))
                      \/ /\ Rebuilt(row) \in {0} \cup PointsOf(row)
                         /\ OnItsWay(i) \/ life > 0 \/ ~available
    OBVIOUS
  <2>1. Rebuilt(row) = row.recovery
    BY <1>1 DEF Rebuilt
  <2>2. row.recovery \in {0} \cup PointsOf(row)
    BY <1>1 DEF AtPoint
  <2> QED
    BY <1>3, <2>1, <2>2 DEF Missing
<1> QED
  BY <1>1, <1>2, <1>4, <1>5 DEF row

(* What a restart would rebuild from the tables is what their events say:  *)
(* in the full mode every durable event, whatever the writer's caches went *)
(* through; in the standard mode the newest recovery point, unless a newer *)
(* snapshot took its place and is still on its way, or a crash or the end  *)
(* of the writer lost it (arebuild_execution, _persist_events,             *)
(* _load_projection_state).                                                *)
THEOREM RebuildIsExact ==
  Spec => []RebuildExact
<1>1. SInv /\ HistoryInv => RebuildExact
  BY HistoryMeans
<1> QED
  BY <1>1, HistoryInvariant, PTL
==============================================================================
