---------------------------- MODULE ContextCommit ----------------------------
(* RuntimeContext.commit_isolated of core/runtime/context.py: how an output *)
(* binding, which worked on copies of the contexts of the Invocation and of *)
(* its Session, publishes what it wrote unless somebody else has written    *)
(* there since its node started.                                            *)
(*                                                                          *)
(* A document is a tree: a function from a prefix-closed set of paths to    *)
(* Dict or to the leaf <<value>>.  Lists are leaves, as in the code; keys   *)
(* are strings.  data and metadata are two keys of the root.                *)
EXTENDS Naturals, Sequences, SequencesExt

Paths == Seq(STRING)

Dict == <<>>
Contexts == {"invocation", "session"}

Empty == [data |-> [p \in {<<>>} |-> Dict], revision |-> 0, paths |-> <<>>]

IsDict(doc, p) == p \in DOMAIN doc /\ doc[p] = Dict

(* _changed_paths goes down where both documents have a dictionary.         *)
ChangedPaths(old, new) ==
  {p \in (DOMAIN old \cup DOMAIN new) \ {<<>>} :
     /\ IsDict(old, Front(p)) /\ IsDict(new, Front(p))
     /\ p \notin DOMAIN old \/ p \notin DOMAIN new \/ old[p] # new[p]}

PathsOverlap(p, q) == IsPrefix(p, q) \/ IsPrefix(q, p)

(* _merge_changed_path, for all changed paths: whatever is at or below one  *)
(* is as in the working copy.                                               *)
Merge(doc, working, changed) ==
  LET below(q) == \E p \in changed : IsPrefix(p, q)
      kept == {q \in DOMAIN doc : ~below(q)}
      taken == {q \in DOMAIN working : below(q)}
  IN  [q \in kept \cup taken |-> IF q \in taken THEN working[q] ELSE doc[q]]

(* Wrong: only a write to the very same path is a conflict.                 *)
SamePathConflicts(context, working, base) ==
  {p \in ChangedPaths(context.data, working) :
     p \in DOMAIN context.paths /\ context.paths[p] > base}

Conflicts(context, working, base) ==
  {p \in ChangedPaths(context.data, working) :
     \E q \in DOMAIN context.paths : context.paths[q] > base /\ PathsOverlap(p, q)}

CommitIsolated(context, working) ==
  LET changed == ChangedPaths(context.data, working)
      next == context.revision + 1
  IN  IF changed = {} THEN context
      ELSE [data |-> Merge(context.data, working, changed), revision |-> next,
            paths |-> [p \in changed \cup DOMAIN context.paths |->
                        IF p \in changed THEN next ELSE context.paths[p]]]

(* Both commits of _run_output_binding are validated before either context  *)
(* is replaced.                                                             *)
CanCommit(contexts, working, base) ==
  \A k \in Contexts : Conflicts(contexts[k], working[k], base[k]) = {}
Committed(contexts, working) ==
  [k \in Contexts |-> CommitIsolated(contexts[k], working[k])]
Revisions(contexts) == [k \in Contexts |-> contexts[k].revision]

(* The user's binding sets each of the paths to value, and makes the        *)
(* dictionaries above them.  None of the paths is above another.            *)
PutAll(doc, paths, value) ==
  LET above == UNION {{SubSeq(p, 1, k) : k \in 0 .. Len(p) - 1} : p \in paths}
      kept == {q \in DOMAIN doc : ~\E p \in paths : IsPrefix(p, q)}
  IN  [q \in kept \cup above \cup paths |->
         IF q \in paths THEN <<value>> ELSE IF q \in above THEN Dict ELSE doc[q]]
==============================================================================
