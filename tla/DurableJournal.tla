--------------------------- MODULE DurableJournal ---------------------------
(***************************************************************************)
(* What asynchronous persistence promises for the journal of each          *)
(* Invocation (admission first, then its events in order): the database    *)
(* holds a prefix of what the Runtime recorded; the prefix grows, many     *)
(* Invocations at a time; once a record is lost the journal is cut there   *)
(* and nothing at or beyond the cut is ever stored.  A process that stops  *)
(* at any moment therefore leaves a contiguous journal behind.             *)
(***************************************************************************)
EXTENDS Naturals

CONSTANTS
  Invocations,
  MaxLength     \* records in a journal; also the cut of an unbroken journal

VARIABLES
  recorded,     \* records the Runtime made of each Invocation
  rows,         \* positions in the database
  cut           \* records that may ever reach the database

journalVars == <<recorded, rows, cut>>

Prefix(n) == 1 .. n

JournalInit ==
  /\ recorded = [i \in Invocations |-> 0]
  /\ rows = [i \in Invocations |-> {}]
  /\ cut = [i \in Invocations |-> MaxLength]

Record(i) ==
  /\ recorded[i] < MaxLength
  /\ recorded' = [recorded EXCEPT ![i] = @ + 1]
  /\ UNCHANGED <<rows, cut>>

(* The record made now is refused or dropped at once.                      *)
RecordLost(i) ==
  /\ recorded[i] < MaxLength
  /\ recorded' = [recorded EXCEPT ![i] = @ + 1]
  /\ cut' = [cut EXCEPT ![i] = IF @ <= recorded[i] THEN @ ELSE recorded[i]]
  /\ UNCHANGED rows

(* One transaction stores more of several journals.                        *)
Commit ==
  /\ rows' = [i \in Invocations |-> rows'[i]]
  /\ \A i \in Invocations : \E n \in Prefix(MaxLength) \cup {0} :
       /\ rows[i] \subseteq Prefix(n) /\ rows'[i] = Prefix(n)
       /\ n <= recorded[i] /\ n <= cut[i]
  /\ UNCHANGED <<recorded, cut>>

(* A record that was queued is lost: the journal is cut before it.         *)
Lose(i) ==
  /\ \E n \in Prefix(recorded[i]) :
       /\ rows[i] \subseteq Prefix(n - 1) /\ n - 1 < cut[i]
       /\ cut' = [cut EXCEPT ![i] = n - 1]
  /\ UNCHANGED <<recorded, rows>>

JournalNext ==
  \/ \E i \in Invocations : Record(i) \/ RecordLost(i) \/ Lose(i)
  \/ Commit

JournalSpec == JournalInit /\ [][JournalNext]_journalVars
=============================================================================
