---------------------------- MODULE UserEventStream ----------------------------
(***************************************************************************)
(* The way of a UserEvent from the chunk of a stream to a follower of the   *)
(* server: the handler that produces chunks, on the Runtime loop or in a    *)
(* thread of the pool; the batcher that collects them (node_executor.py);   *)
(* the loop with its callbacks and timers; the mailbox; the driver that     *)
(* records what it finds there (workflow_executor.py); the RuntimeStore     *)
(* that numbers, keeps and announces it (store.py); and one follower, which *)
(* lives on the loop of the server (server/app.py).                         *)
(*                                                                          *)
(* Handler threads, the Runtime loop and the server's loop interleave       *)
(* freely; what the Runtime loop does between two awaits is one step,       *)
(* except that recording and announcing are two, since another thread may   *)
(* read in between (LoopFree keeps the loop's other work out).              *)
(***************************************************************************)
EXTENDS Integers, Sequences, SequencesExt, FiniteSets

CONSTANTS
    Scenarios,   \* the executions to explore
    BatchItems,  \* _USER_EVENT_BATCH_MAX_ITEMS
    PageLimit    \* events of one page of a follower

(* nodes    [node -> [mode: "async" | "sync", attempts, chunks, message]]: a *)
(*          stream of chunks on the loop or in a thread; message: its end    *)
(*          without success is itself announced                              *)
(* failing  nodes whose stream may raise                                     *)
(* hurried  nodes whose attempt may time out                                 *)
(* cancels  whether the caller may cancel the Invocation                     *)
(* past     numbers of the UserEvents an earlier process left in the         *)
(*          database, which held others it never stored                      *)
ASSUME ScenarioAssumption ==
    /\ BatchItems \in Nat \ {0} /\ PageLimit \in Nat \ {0}
    /\ \A s \in Scenarios :
          /\ \A n \in DOMAIN s.nodes :
                /\ s.nodes[n].mode \in {"async", "sync"}
                /\ s.nodes[n].attempts \in Nat \ {0}
                /\ s.nodes[n].chunks \in Seq(STRING)
          /\ s.past \in Seq(Nat \ {0})
          /\ \A i, j \in DOMAIN s.past : i < j => s.past[i] < s.past[j]

VARIABLES
    scenario,
    attempt,    \* [node -> attempt under way]
    task,       \* [node -> what its task does]
    position,   \* [call -> chunks its handler has produced]
    over,       \* [call -> the handler has ended]
    posts,      \* [call -> what its thread is about to hand to the loop]
    givenUp,    \* calls whose end was not awaited
    batch,      \* [call -> [specs, gen]], the batcher
    ready,      \* callbacks of the Runtime loop
    timers,     \* deadlines set, <<call, generation>>
    mailbox, accepting,
    todo,       \* messages the driver has drained and not applied
    drive,      \* where the driver is
    state,      \* of the Invocation
    broken,     \* a node has failed for good
    finished,   \* nodes whose success was applied
    events,     \* UserEvents recorded by this process
    owed,       \* listeners are still to be called
    committed,  \* how many of them are stored, if they are to be
    follower    \* [at, changed, wake, cursor, page, snap, live, full, got]

handlerVars == <<position, over, posts>>
loopVars == <<ready, timers>>
driverVars == <<todo, drive, state, broken, finished>>
vars == <<scenario, attempt, task, handlerVars, givenUp, batch, loopVars,
          mailbox, accepting, driverVars, events, owed, committed, follower>>

Nodes == DOMAIN scenario.nodes
Calls == UNION {{n} \X (1..scenario.nodes[n].attempts) : n \in Nodes}
Chunks(c) == scenario.nodes[c[1]].chunks
Mode(c) == scenario.nodes[c[1]].mode
Current(c) == attempt[c[1]] = c[2]
Streaming(c) == Current(c) /\ task[c[1]] = "streaming"

(***************************************************************************)
(* Specs and messages.                                                     *)
(***************************************************************************)
Spec_(c, item, type) == [call |-> c, item |-> item, type |-> type]
Aborted == "message_aborted"
Events_(specs) == [kind |-> "user_event", specs |-> specs]
Result(n, ok) == [kind |-> "result", node |-> n, ok |-> ok]
IsEvents(m) == m.kind = "user_event"

(* Deltas are for followers only; everything else is stored.               *)
Durable(type) == type # "delta"

(* A mapping may have nothing to say of a chunk, or fail, which is said     *)
(* instead.                                                                *)
Mapped(c, i) ==
    CASE Chunks(c)[i] = "hidden" -> <<>>
      [] Chunks(c)[i] = "broken" -> <<Spec_(c, i, "user_event_mapping_failed")>>
      [] OTHER -> <<Spec_(c, i, Chunks(c)[i])>>

(* A batch is serialized as a whole; one that cannot be is recorded piece   *)
(* by piece, and the piece that cannot is replaced.                        *)
Recorded(specs) ==
    [i \in DOMAIN specs |->
        IF specs[i].type = "odd"
        THEN [specs[i] EXCEPT !.type = "user_event_mapping_failed"]
        ELSE specs[i]]

Put(message) == [do |-> "put", message |-> message]
Deadline(c, g) == [do |-> "deadline", call |-> c, gen |-> g]
Ended(c, ok) == [do |-> "ended", call |-> c, ok |-> ok]

(* The mailbox after messages arrive; a closed one refuses them.            *)
Mail(messages) == IF accepting THEN mailbox \o messages ELSE mailbox

(***************************************************************************)
(* The batcher.                                                            *)
(***************************************************************************)
Taken(b) == IF b.specs = <<>> THEN b ELSE [specs |-> <<>>, gen |-> b.gen + 1]

Grown(b, specs) ==
    [specs |-> b.specs \o specs,
     gen |-> IF b.specs = <<>> /\ specs # <<>> THEN b.gen + 1 ELSE b.gen]

Full(b) == Len(b.specs) >= BatchItems

Flushed(b) == IF b.specs = <<>> THEN <<>> ELSE <<Events_(b.specs)>>

(* Wrong: the deadline is set for the generation before the batch. *)
DeadlinesStale(c, b, specs) ==
    IF b.specs = <<>> /\ specs # <<>> THEN <<Deadline(c, b.gen)>> ELSE <<>>

(* What add() leaves to do outside the lock: the deadline of a new batch,   *)
(* then the publication of a full one.                                     *)
Deadlines(c, b, specs) ==
    IF b.specs = <<>> /\ specs # <<>>
    THEN <<Deadline(c, Grown(b, specs).gen)>> ELSE <<>>

Published(b) == IF Full(b) THEN <<Events_(b.specs)>> ELSE <<>>

(* The driver awaits nothing while it records UserEvents.                   *)
LoopFree ==
    ~owed /\ (todo # <<>> => ~IsEvents(Head(todo)) /\ drive # "record")

(***************************************************************************)
(* Handlers.                                                               *)
(***************************************************************************)
(* The handler produces the next chunk and add()s it. On the loop the full  *)
(* batch goes straight to the mailbox; a thread hands everything over, one  *)
(* call_soon_threadsafe at a time.                                         *)
NextChunk(c) ==
    /\ ~over[c] /\ position[c] < Len(Chunks(c)) /\ posts[c] = <<>>
    /\ c[2] <= attempt[c[1]]
    /\ Mode(c) = "async" => Streaming(c) /\ LoopFree
    /\ position' = [position EXCEPT ![c] = @ + 1]
    /\ LET specs == Mapped(c, position[c] + 1)
           grown == Grown(batch[c], specs)
           deadlines == Deadlines(c, batch[c], specs)
           published == Published(grown) IN
       /\ batch' = [batch EXCEPT ![c] = IF Full(grown) THEN Taken(grown) ELSE grown]
       /\ IF Mode(c) = "sync"
          THEN /\ posts' = [posts EXCEPT ![c] =
                              deadlines \o [k \in DOMAIN published |-> Put(published[k])]]
               /\ UNCHANGED <<ready, mailbox>>
          ELSE /\ ready' = ready \o deadlines
               /\ mailbox' = Mail(published)
               /\ UNCHANGED posts
    /\ UNCHANGED <<scenario, attempt, task, over, givenUp, timers, accepting,
                   driverVars, events, owed, committed, follower>>

(* call_soon_threadsafe from the thread of a handler.                       *)
Post(c) ==
    /\ posts[c] # <<>>
    /\ ready' = Append(ready, Head(posts[c]))
    /\ posts' = [posts EXCEPT ![c] = Tail(@)]
    /\ UNCHANGED <<scenario, attempt, task, position, over, givenUp, batch, timers,
                   mailbox, accepting, driverVars, events, owed, committed, follower>>

(* Wrong: the last batch waits for its timer. *)
ConcludeUnflushed(c, ok) ==
    /\ mailbox' = Mail(IF ~ok /\ scenario.nodes[c[1]].message
                       THEN <<Events_(<<Spec_(c, 0, Aborted)>>)>> ELSE <<>>)
    /\ UNCHANGED batch
    /\ task' = [task EXCEPT ![c[1]] =
                  IF drive = "abandon" THEN "done" ELSE
                  CASE ok -> "succeeded"
                    [] ~ok /\ c[2] < scenario.nodes[c[1]].attempts -> "backoff"
                    [] OTHER -> "failed"]

(* The task of the node learns the end of its stream: flush, and for a      *)
(* message stream that did not succeed, say so. Then the result, the next   *)
(* attempt, or, in an abandoned Invocation, nothing.                       *)
Conclude(c, ok) ==
    /\ mailbox' = Mail(Flushed(batch[c]) \o
                       (IF ~ok /\ scenario.nodes[c[1]].message
                        THEN <<Events_(<<Spec_(c, 0, Aborted)>>)>> ELSE <<>>))
    /\ batch' = [batch EXCEPT ![c] = Taken(@)]
    /\ task' = [task EXCEPT ![c[1]] =
                  IF drive = "abandon" THEN "done" ELSE
                  CASE ok -> "succeeded"
                    [] ~ok /\ c[2] < scenario.nodes[c[1]].attempts -> "backoff"
                    [] OTHER -> "failed"]

(* The handler returns or raises. A thread posts it; on the loop success is *)
(* learnt at once, while after an error the source is closed first, which   *)
(* may take turns of the loop.                                             *)
EndStream(c, ok) ==
    /\ ~over[c] /\ posts[c] = <<>> /\ c[2] <= attempt[c[1]]
    /\ IF ok THEN position[c] = Len(Chunks(c)) ELSE c[1] \in scenario.failing
    /\ over' = [over EXCEPT ![c] = TRUE]
    /\ IF Mode(c) = "sync"
       THEN /\ posts' = [posts EXCEPT ![c] = <<Ended(c, ok)>>]
            /\ UNCHANGED <<batch, mailbox, task>>
       ELSE /\ Streaming(c) /\ LoopFree
            /\ IF ok THEN Conclude(c, TRUE)
               ELSE task' = [task EXCEPT ![c[1]] = "closing"] /\ UNCHANGED <<batch, mailbox>>
            /\ UNCHANGED posts
    /\ UNCHANGED <<scenario, attempt, position, givenUp, loopVars, accepting,
                   driverVars, events, owed, committed, follower>>

(***************************************************************************)
(* The Runtime loop.                                                       *)
(***************************************************************************)
(* The next callback: a message of a thread, a deadline to set, or the end  *)
(* of a stream in a thread, which nobody may be waiting for any more.       *)
RunCallback ==
    /\ LoopFree /\ ready # <<>>
    /\ ready' = Tail(ready)
    /\ LET callback == Head(ready) IN
       \/ /\ callback.do = "put"
          /\ mailbox' = Mail(<<callback.message>>)
          /\ UNCHANGED <<timers, batch, task>>
       \/ /\ callback.do = "deadline"
          /\ timers' = timers \cup {<<callback.call, callback.gen>>}
          /\ UNCHANGED <<mailbox, batch, task>>
       \/ /\ callback.do = "ended"
          /\ IF Streaming(callback.call) THEN Conclude(callback.call, callback.ok)
             ELSE UNCHANGED <<mailbox, batch, task>>
          /\ UNCHANGED timers
    /\ UNCHANGED <<scenario, attempt, handlerVars, givenUp, accepting, driverVars,
                   events, owed, committed, follower>>

(* A deadline passes; it flushes the batch it was set for, or nothing.      *)
FlushGeneration(c, g) ==
    /\ LoopFree /\ <<c, g>> \in timers
    /\ timers' = timers \ {<<c, g>>}
    /\ IF batch[c].gen = g
       THEN mailbox' = Mail(Flushed(batch[c])) /\ batch' = [batch EXCEPT ![c] = Taken(@)]
       ELSE UNCHANGED <<mailbox, batch>>
    /\ UNCHANGED <<scenario, attempt, task, handlerVars, givenUp, ready, accepting,
                   driverVars, events, owed, committed, follower>>

(* The attempt is given up: it timed out, or its task is cancelled. A       *)
(* source on the loop is closed first; a thread cannot be stopped and goes  *)
(* on beside whatever follows.                                             *)
GiveUp(c) ==
    /\ LoopFree /\ Streaming(c)
    /\ c[1] \in scenario.hurried \/ drive = "abandon"
    /\ givenUp' = givenUp \cup {c}
    /\ IF Mode(c) = "sync" THEN Conclude(c, FALSE) /\ UNCHANGED over
       ELSE /\ task' = [task EXCEPT ![c[1]] = "closing"]
            /\ over' = [over EXCEPT ![c] = TRUE]
            /\ UNCHANGED <<mailbox, batch>>
    /\ UNCHANGED <<scenario, attempt, position, posts, loopVars, accepting,
                   driverVars, events, owed, committed, follower>>

CloseSource(c) ==
    /\ LoopFree /\ Current(c) /\ task[c[1]] = "closing"
    /\ Conclude(c, FALSE)
    /\ UNCHANGED <<scenario, attempt, handlerVars, givenUp, loopVars, accepting,
                   driverVars, events, owed, committed, follower>>

(* The task of a node goes on: to its next attempt, or, once its stream has *)
(* ended for good, to its end, when its result is put into the mailbox.     *)
ContinueTask(n) ==
    /\ LoopFree /\ task[n] \in {"backoff", "succeeded", "failed"}
    /\ \/ /\ drive # "abandon" /\ task[n] = "backoff"
          /\ attempt' = [attempt EXCEPT ![n] = @ + 1]
          /\ task' = [task EXCEPT ![n] = "streaming"]
          /\ UNCHANGED mailbox
       \/ /\ drive = "abandon" \/ task[n] # "backoff"
          /\ mailbox' = Mail(<<Result(n, task[n] = "succeeded" /\ drive # "abandon")>>)
          /\ task' = [task EXCEPT ![n] = "done"]
          /\ UNCHANGED attempt
    /\ UNCHANGED <<scenario, handlerVars, givenUp, batch, loopVars, accepting,
                   driverVars, events, owed, committed, follower>>

(***************************************************************************)
(* The driver and the store.                                               *)
(***************************************************************************)
Take ==
    /\ drive = "drive" /\ todo = <<>> /\ ~owed /\ ~broken /\ mailbox # <<>>
    /\ todo' = mailbox /\ mailbox' = <<>>
    /\ UNCHANGED <<scenario, attempt, task, handlerVars, givenUp, batch, loopVars,
                   accepting, drive, state, broken, finished, events, owed,
                   committed, follower>>

(* _record_user_events numbers the specs and keeps them, under the lock;    *)
(* publishes them to the database; and announces them. A thread may read    *)
(* before it is told.                                                      *)
Append_(specs) ==
    events' = events \o Recorded(specs) /\ owed' = (specs # <<>>)

RecordUserEvents ==
    /\ todo # <<>> /\ IsEvents(Head(todo)) /\ ~owed
    /\ Append_(Head(todo).specs)
    /\ todo' = Tail(todo)
    /\ UNCHANGED <<scenario, attempt, task, handlerVars, givenUp, batch, loopVars,
                   mailbox, accepting, drive, state, broken, finished, committed, follower>>

(* A listener only asks the loop of its follower to set an Event.           *)
Notify ==
    /\ owed /\ owed' = FALSE
    /\ follower' = [follower EXCEPT !.wake = follower.at \notin {"none", "ended"}]
    /\ UNCHANGED <<scenario, attempt, task, handlerVars, givenUp, batch, loopVars,
                   mailbox, accepting, driverVars, events, committed>>

(* The result of a node: its output may be worth an event of its own; a     *)
(* failure ends the Invocation once the rest of the messages is applied.    *)
ApplyResult ==
    /\ todo # <<>> /\ ~IsEvents(Head(todo)) /\ ~owed /\ drive = "drive"
    /\ todo' = Tail(todo)
    /\ LET n == Head(todo).node IN
       IF Head(todo).ok
       THEN /\ Append_(<<Spec_(<<n, attempt[n]>>, 0, "output")>>)
            /\ finished' = finished \cup {n} /\ UNCHANGED broken
       ELSE broken' = TRUE /\ UNCHANGED <<events, owed, finished>>
    /\ UNCHANGED <<scenario, attempt, task, handlerVars, givenUp, batch, loopVars,
                   mailbox, accepting, drive, state, committed, follower>>

Idle == drive = "drive" /\ todo = <<>> /\ ~owed

(* The Invocation is marked as failed, and only then are the other nodes    *)
(* abandoned and the last UserEvents recorded.                             *)
FailInvocation ==
    /\ Idle /\ broken
    /\ state' = "failed" /\ drive' = "abandon"
    /\ UNCHANGED <<scenario, attempt, task, handlerVars, givenUp, batch, loopVars,
                   mailbox, accepting, todo, broken, finished, events, owed,
                   committed, follower>>

(* The caller cancels at an await: with nothing drained, or while a result  *)
(* is applied; the messages behind it are gone.                            *)
CancelInvocation ==
    /\ scenario.cancels /\ drive = "drive" /\ ~broken
    /\ LoopFree
    /\ drive' = "abandon" /\ todo' = <<>>
    /\ UNCHANGED <<scenario, attempt, task, handlerVars, givenUp, batch, loopVars,
                   mailbox, accepting, state, broken, finished, events, owed,
                   committed, follower>>

(* All tasks have ended: the mailbox is drained and closed, and of what was *)
(* in it the UserEvents are recorded, the results not.                     *)
AbandonWork ==
    /\ drive = "abandon" /\ LoopFree /\ \A n \in Nodes : task[n] = "done"
    /\ todo' = mailbox /\ mailbox' = <<>> /\ accepting' = FALSE
    /\ drive' = "record"
    /\ UNCHANGED <<scenario, attempt, task, handlerVars, givenUp, batch, loopVars,
                   state, broken, finished, events, owed, committed, follower>>

SkipResult ==
    /\ drive = "record" /\ todo # <<>> /\ ~IsEvents(Head(todo)) /\ ~owed
    /\ todo' = Tail(todo)
    /\ UNCHANGED <<scenario, attempt, task, handlerVars, givenUp, batch, loopVars,
                   mailbox, accepting, drive, state, broken, finished, events,
                   owed, committed, follower>>

(* Nothing is running and nothing is in the mailbox.                        *)
Complete ==
    /\ Idle /\ ~broken /\ mailbox = <<>>
    /\ \A n \in Nodes : task[n] = "done"
    /\ state' = "completed" /\ drive' = "close"
    /\ UNCHANGED <<scenario, attempt, task, handlerVars, givenUp, batch, loopVars,
                   mailbox, accepting, todo, broken, finished, events, owed,
                   committed, follower>>

(* The last RuntimeEvents of an Invocation that did not complete.           *)
RecordEnd ==
    /\ drive = "record" /\ todo = <<>> /\ ~owed
    /\ state' = IF state = "failed" THEN "failed" ELSE "cancelled"
    /\ drive' = "close"
    /\ UNCHANGED <<scenario, attempt, task, handlerVars, givenUp, batch, loopVars,
                   mailbox, accepting, todo, broken, finished, events, owed,
                   committed, follower>>

(* agent_failed, of an Invocation with a message stream that failed.        *)
LastWords ==
    IF state = "failed" /\ \E n \in Nodes : scenario.nodes[n].message
    THEN LET n == CHOOSE m \in Nodes : scenario.nodes[m].message
         IN <<Spec_(<<n, attempt[n]>>, 0, "agent_failed")>>
    ELSE <<>>

Close ==
    /\ drive = "close" /\ ~owed
    /\ Append_(LastWords)
    /\ accepting' = FALSE /\ drive' = "closed"
    /\ UNCHANGED <<scenario, attempt, task, handlerVars, givenUp, batch, loopVars,
                   mailbox, todo, state, broken, finished, committed, follower>>

(* The App gives up the Invocation, and followers are told so.              *)
Settle ==
    /\ drive = "closed" /\ ~owed
    /\ drive' = "settled" /\ owed' = TRUE
    /\ UNCHANGED <<scenario, attempt, task, handlerVars, givenUp, batch, loopVars,
                   mailbox, accepting, todo, state, broken, finished, events,
                   committed, follower>>

(***************************************************************************)
(* The follower.                                                           *)
(***************************************************************************)
Base == IF scenario.past = <<>> THEN 0 ELSE Last(scenario.past)
Latest == Base + Len(events)

(* The database has the durable events of the past and of this process,     *)
(* written in order; without a past there is no database in this model.     *)
Stored ==
    ToSet(scenario.past) \cup
    {Base + i : i \in {j \in 1..committed : Durable(events[j].type)}}

InMemory == (Base + 1)..Latest

FirstFew(numbers, n) ==
    {x \in numbers : Cardinality({y \in numbers : y <= x}) <= n}

After(numbers, cursor) == {x \in numbers : x > cursor}

Greatest(numbers, default) ==
    IF numbers = {} THEN default ELSE CHOOSE x \in numbers : \A y \in numbers : y <= x

Commit ==
    /\ scenario.past # <<>> /\ committed < Len(events)
    /\ \E n \in (committed + 1)..Len(events) : committed' = n
    /\ UNCHANGED <<scenario, attempt, task, handlerVars, givenUp, batch, loopVars,
                   mailbox, accepting, driverVars, events, owed, follower>>

OnlyFollower ==
    UNCHANGED <<scenario, attempt, task, handlerVars, givenUp, batch, loopVars,
                mailbox, accepting, driverVars, events, owed, committed>>

(* changed.set() reaches the loop of the server.                            *)
Wake ==
    /\ follower.wake
    /\ follower' = [follower EXCEPT !.wake = FALSE, !.changed = TRUE]
    /\ OnlyFollower

(* The Event is cleared before anything is read.                            *)
Clear ==
    /\ follower.at = "clear"
    /\ follower' = [follower EXCEPT !.at = "list", !.changed = FALSE]
    /\ OnlyFollower

(* alist_user_events reads memory under the lock, and then the database if  *)
(* this process does not have what comes after the cursor.                 *)
NeedsPrefix ==
    /\ scenario.past # <<>>
    /\ events = <<>> \/ follower.cursor < Base

ListUserEvents ==
    /\ follower.at = "list"
    /\ LET values == After(InMemory, follower.cursor) IN
       follower' = IF NeedsPrefix
                   THEN [follower EXCEPT !.at = "load", !.snap = values]
                   ELSE [follower EXCEPT !.at = "latest",
                                         !.page = FirstFew(values, PageLimit)]
    /\ OnlyFollower

(* Wrong: the memory that was read covers the database. *)
MergedFromMemory(stored, memory) == FirstFew(memory, PageLimit)

(* The database first; then, as room is left, what memory has beyond it.    *)
Merged(stored, memory) ==
    LET prefix == FirstFew(stored, PageLimit) IN
    IF Cardinality(prefix) >= PageLimit THEN prefix
    ELSE prefix \cup FirstFew(After(memory, Greatest(prefix, 0)),
                              PageLimit - Cardinality(prefix))

LoadUserEvents ==
    /\ follower.at = "load"
    /\ follower' = [follower EXCEPT !.at = "latest", !.snap = {},
                       !.page = Merged(After(Stored, follower.cursor), follower.snap)]
    /\ OnlyFollower

(* The number of the latest event, read after the page; the page is sent.   *)
SendPage ==
    /\ follower.at = "latest"
    /\ follower' = [follower EXCEPT !.at = "detail", !.live = Latest, !.page = {},
                       !.cursor = Greatest(follower.page, @),
                       !.full = Cardinality(follower.page) = PageLimit,
                       !.got = @ \cup follower.page]
    /\ OnlyFollower

Terminal == state \in {"completed", "failed", "cancelled"}

(* Wrong: the Event is cleared again before the wait. *)
ReadDetailClearing ==
    /\ follower.at = "detail"
    /\ follower' = [follower EXCEPT !.live = 0, !.changed = FALSE,
                       !.at = IF Terminal /\ follower.cursor >= follower.live
                              THEN "ended" ELSE "wait"]
    /\ OnlyFollower

(* Wrong: the stream waits for an event behind the latest. *)
ReadDetailBeyond ==
    /\ follower.at = "detail"
    /\ follower' = [follower EXCEPT !.live = 0,
                       !.at = IF Terminal /\ follower.cursor > follower.live
                              THEN "ended" ELSE "wait"]
    /\ OnlyFollower

(* The state, read after both: the stream ends if it is terminal and the    *)
(* cursor has reached that number.                                         *)
ReadDetail ==
    /\ follower.at = "detail"
    /\ follower' = [follower EXCEPT !.live = 0,
                       !.at = IF Terminal /\ follower.cursor >= follower.live
                              THEN "ended" ELSE "wait"]
    /\ OnlyFollower

(* It waits for the Event, for the length of a heartbeat at most.           *)
Continue ==
    /\ follower.at = "wait" /\ follower.changed
    /\ follower' = [follower EXCEPT !.at = "clear"]
    /\ OnlyFollower

Heartbeat ==
    /\ follower.at = "wait" /\ ~follower.changed
    /\ follower' = [follower EXCEPT !.at = "clear"]
    /\ OnlyFollower

(***************************************************************************)
(* The specification.                                                      *)
(***************************************************************************)
Init ==
    /\ scenario \in Scenarios
    /\ attempt = [n \in Nodes |-> 1]
    /\ task = [n \in Nodes |-> "streaming"]
    /\ position = [c \in Calls |-> 0]
    /\ over = [c \in Calls |-> FALSE]
    /\ posts = [c \in Calls |-> <<>>]
    /\ givenUp = {}
    /\ batch = [c \in Calls |-> [specs |-> <<>>, gen |-> 0]]
    /\ ready = <<>> /\ timers = {}
    /\ mailbox = <<>> /\ accepting = TRUE
    /\ todo = <<>> /\ drive = "drive" /\ state = "running" /\ broken = FALSE
    /\ finished = {} /\ events = <<>> /\ owed = FALSE /\ committed = 0
    /\ follower = [at |-> IF scenario.follows THEN "clear" ELSE "none",
                   changed |-> FALSE, wake |-> FALSE, cursor |-> 0, page |-> {},
                   snap |-> {}, live |-> 0, full |-> FALSE, got |-> {}]

LoopStep ==
    \/ RunCallback
    \/ \E c \in Calls : \E g \in 1..batch[c].gen : FlushGeneration(c, g)
    \/ \E c \in Calls : CloseSource(c)
    \/ \E n \in Nodes : ContinueTask(n)

DriverStep ==
    \/ Take \/ RecordUserEvents \/ Notify \/ ApplyResult \/ FailInvocation
    \/ AbandonWork \/ SkipResult \/ Complete \/ RecordEnd \/ Close \/ Settle

FollowerStep ==
    \/ Wake \/ Clear \/ ListUserEvents \/ LoadUserEvents \/ SendPage
    \/ ReadDetail \/ Continue

HandlerStep ==
    \E c \in Calls : \/ NextChunk(c) \/ Post(c) \/ EndStream(c, TRUE)

Next ==
    \/ HandlerStep
    \/ \E c \in Calls : EndStream(c, FALSE)
    \/ \E c \in Calls : GiveUp(c)
    \/ LoopStep \/ DriverStep \/ CancelInvocation
    \/ Commit \/ FollowerStep \/ Heartbeat

(* The loops run what is ready, deadlines pass, tasks that were cancelled   *)
(* learn it, a heartbeat comes at last, and handlers do not hang for ever.  *)
Fairness ==
    /\ WF_vars(HandlerStep) /\ WF_vars(LoopStep) /\ WF_vars(DriverStep)
    /\ WF_vars(\E c \in Calls : drive = "abandon" /\ GiveUp(c))
    /\ WF_vars(FollowerStep) /\ WF_vars(Heartbeat)

StreamSpec == Init /\ [][Next]_vars /\ Fairness

(***************************************************************************)
(* Properties.                                                             *)
(***************************************************************************)
Cancelled ==
    state = "cancelled" \/ (state = "running" /\ drive \in {"abandon", "record"})

(* The chunks of a stream that say anything, and the events that say them. *)
Sayings(c) == {k \in DOMAIN Chunks(c) : Chunks(c)[k] # "hidden"}
Said(c) == {i \in DOMAIN events : events[i].call = c /\ events[i].item > 0}
Announces(i, c, type) ==
    events[i].call = c /\ events[i].item = 0 /\ events[i].type = type

(* The stream does not run in a thread nobody waits for any more.           *)
Awaited(c) == Mode(c) = "async" \/ c \notin givenUp

(* What a stream says is recorded at most once, as its mapping said it;     *)
(* and, unless the stream runs in a thread nobody waits for any more, in    *)
(* its order, before the announcement of its end; nothing is missing in     *)
(* between unless the caller cancelled; and all of it stands before the     *)
(* output of its node (node_executor.py:102-236, 1293-1355).                *)
StreamExact ==
    \A c \in Calls :
        /\ \A i \in Said(c) :
              /\ events[i].item \in Sayings(c)
              /\ <<events[i]>> = Recorded(Mapped(c, events[i].item))
        /\ \A i, j \in Said(c) : i # j => events[i].item # events[j].item
        /\ Awaited(c) =>
              /\ \A i, j \in Said(c) : i < j => events[i].item < events[j].item
              /\ Cancelled \/ \A i \in Said(c) : \A k \in Sayings(c) :
                    k < events[i].item => \E j \in Said(c) : events[j].item = k
              /\ \A i \in DOMAIN events :
                    Announces(i, c, Aborted) => \A j \in Said(c) : j < i
        /\ \A i \in DOMAIN events : Announces(i, c, "output") =>
              \A k \in Sayings(c) : \E j \in Said(c) : j < i /\ events[j].item = k

(* No chunk is left to wait for the end of its stream: whatever the batcher *)
(* holds, a deadline of its very generation is set or on its way            *)
(* (node_executor.py:182-222).                                             *)
NoChunkStuck ==
    \A c \in Calls : batch[c].specs # <<>> =>
        \/ <<c, batch[c].gen>> \in timers
        \/ Deadline(c, batch[c].gen) \in ToSet(ready) \cup ToSet(posts[c])

(* "no wakeup can be lost" (server/app.py:862-864): a follower that waits,  *)
(* with no notification on its way, has everything that was recorded, and   *)
(* the Invocation has not been settled; or its last page was full.          *)
NoLostWakeup ==
    follower.at = "wait" /\ ~follower.changed /\ ~follower.wake /\ ~owed
    /\ ~follower.full
        => follower.cursor = Latest /\ drive # "settled"

(* A follower that starts at the beginning is sent every event of this      *)
(* process once, in order; of a process before it every event that was      *)
(* stored; and while it reads both, at least everything that is to be       *)
(* stored (store.py:1433-1490).                                            *)
FollowerExact ==
    /\ follower.got \subseteq 1..follower.cursor
    /\ ToSet(scenario.past) \cap (1..follower.cursor) \subseteq follower.got
    /\ \A i \in DOMAIN events :
          Base + i <= follower.cursor /\ (scenario.past = <<>> \/ Durable(events[i].type))
              => Base + i \in follower.got

(* Every stream of events that is followed ends.                           *)
StreamEnds == <>(follower.at \in {"none", "ended"})
================================================================================
