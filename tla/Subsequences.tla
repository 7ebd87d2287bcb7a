---------------------------- MODULE Subsequences ----------------------------
(* Filtering a sequence by a set, as a recursive function: SelectSeq, which *)
(* does the same by a predicate, has no definition that can be reasoned     *)
(* about.                                                                   *)
EXTENDS Integers, Sequences

(* The elements of s that belong to S, in their order.                      *)
Kept(s, S) ==
  LET kept[n \in 0 .. Len(s)] ==
        IF n = 0 THEN <<>>
        ELSE IF s[n] \in S THEN Append(kept[n - 1], s[n]) ELSE kept[n - 1]
  IN  kept[Len(s)]
=============================================================================
