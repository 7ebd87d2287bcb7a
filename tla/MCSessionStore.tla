---------------------------- MODULE MCSessionStore ----------------------------
(* One Session key, calls of ainvoke and aresume.                          *)
EXTENDS SessionStore

Explore(keeps, mode, points, events, crashes) ==
  [keeps |-> keeps, modes |-> {mode}, points |-> points, events |-> events,
   crashes |-> crashes, risks |-> {}]

(* The two policies that evict; a crash, with and without eviction; and    *)
(* what the properties make an exception of.                               *)
MCScenarios ==
  {Explore(0, "standard", {TRUE}, 2, 0), Explore(1, "standard", {TRUE}, 1, 0),
   Explore(0, "standard", BOOLEAN, 1, 1), Explore(2, "standard", {TRUE}, 2, 1),
   Explore(2, "full", {FALSE}, 2, 1)}
  \cup {[Explore(0, "standard", {TRUE}, 1, 0) EXCEPT !.risks = {risk}] :
          risk \in {"slow end", "outage"}}

(* An end that takes its time.                                             *)
MCSlow == {[Explore(0, "standard", {TRUE}, 1, 0) EXCEPT !.risks = {"slow end"}]}

(* An old Session that is no longer in memory.                             *)
MCOld == {Explore(0, "standard", {TRUE}, 1, 0)}

MCSymmetry == Permutations(Invokers)
=============================================================================
