--------------------------- MODULE MCUserEventStream ---------------------------
(***************************************************************************)
(* Instances for the way of UserEvents: streams and nodes in few words.     *)
(***************************************************************************)
EXTENDS UserEventStream

Stream(mode, attempts, message, chunks) ==
    [mode |-> mode, attempts |-> attempts, message |-> message, chunks |-> chunks]

(* A stream in a thread that times out, and its retry beside it.            *)
Retried ==
    [nodes |-> [a |-> Stream("sync", 2, TRUE, <<"odd", "text">>)],
     failing |-> {}, hurried |-> {"a"}, cancels |-> FALSE, past |-> <<>>,
     follows |-> FALSE]

(* A stream on the loop and one in a thread; either may end the other.      *)
Side ==
    [nodes |-> [a |-> Stream("async", 1, TRUE, <<"delta", "broken", "text">>),
                b |-> Stream("sync", 1, FALSE, <<"text">>)],
     failing |-> {"b"}, hurried |-> {}, cancels |-> TRUE, past |-> <<>>,
     follows |-> FALSE]

(* One stream followed to its end, however it ends.                         *)
Followed ==
    [nodes |-> [a |-> Stream("sync", 1, TRUE, <<"delta", "text">>)],
     failing |-> {"a"}, hurried |-> {}, cancels |-> TRUE, past |-> <<>>,
     follows |-> TRUE]

(* A follower of an Invocation that went on after a restart.                *)
Restarted ==
    [nodes |-> [a |-> Stream("async", 1, FALSE, <<"delta", "hidden", "text">>)],
     failing |-> {}, hurried |-> {}, cancels |-> FALSE, past |-> <<1, 3>>,
     follows |-> TRUE]

MCScenarios == {Retried, Side, Followed, Restarted}
================================================================================
