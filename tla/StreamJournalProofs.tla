------------------------- MODULE StreamJournalProofs -------------------------
(***************************************************************************)
(* What the journal holds of a stream of UserEvents: all that it said, once *)
(* and in its order, for any number of nodes, attempts and chunks, any size *)
(* of a batch, and any interleaving of threads, loop and driver.            *)
(*                                                                          *)
(* The proof follows the chunks of a call along the places where they may   *)
(* be: its batch, what its thread is about to hand over, the callbacks of   *)
(* the loop, the mailbox, what the driver has drained, and the journal.     *)
(* Numbered by their chunks, these six places form a line, journal first;   *)
(* the invariant says that the line is in order, that it holds all that was *)
(* said, and what may be where when.  A step then moves marks along the     *)
(* line, drops them, or adds a new one behind all others.                   *)
(***************************************************************************)
EXTENDS UserEventStreamProofs, SequenceTheorems

--------------------------------------------------------------------------------
(* Marks.  What is on its way to the journal carries, for a call, the       *)
(* numbers of the chunks it says; the announcement of the end, and the      *)
(* success of the node with its output, count as chunks behind the last.    *)
Marks == SUBSET Nat

All(L) == UNION {L[i] : i \in DOMAIN L}

(* o tells whether order matters, or only that nothing occurs twice.        *)
Apart(o, A, B) == \A a \in A, b \in B : a # b /\ (o => a < b)
InOrder(o, L) == \A i, j \in DOMAIN L : i < j => Apart(o, L[i], L[j])

LEMMA AllConcat ==
    ASSUME NEW L \in Seq(Marks), NEW K \in Seq(Marks)
    PROVE  All(L \o K) = All(L) \cup All(K)
<1>1. ASSUME NEW i \in DOMAIN L PROVE (L \o K)[i] = L[i] /\ i \in DOMAIN (L \o K)
    OBVIOUS
<1>2. ASSUME NEW i \in DOMAIN K
      PROVE  (L \o K)[Len(L) + i] = K[i] /\ Len(L) + i \in DOMAIN (L \o K)
    OBVIOUS
<1>3. ASSUME NEW i \in DOMAIN (L \o K)
      PROVE  \/ i \in DOMAIN L
             \/ i - Len(L) \in DOMAIN K /\ (L \o K)[i] = K[i - Len(L)]
    OBVIOUS
<1> QED
    BY <1>1, <1>2, <1>3 DEF All

LEMMA InOrderConcat ==
    ASSUME NEW L \in Seq(Marks), NEW K \in Seq(Marks), NEW o \in BOOLEAN,
           InOrder(o, L), InOrder(o, K), Apart(o, All(L), All(K))
    PROVE  InOrder(o, L \o K)
<1> SUFFICES ASSUME NEW i \in DOMAIN (L \o K), NEW j \in DOMAIN (L \o K), i < j
             PROVE  Apart(o, (L \o K)[i], (L \o K)[j])
    BY DEF InOrder
<1>1. \A k \in DOMAIN L : (L \o K)[k] = L[k]
    OBVIOUS
<1>2. \A k \in DOMAIN (L \o K) : k \notin DOMAIN L =>
          k - Len(L) \in DOMAIN K /\ (L \o K)[k] = K[k - Len(L)]
    OBVIOUS
<1>3. CASE i \in DOMAIN L /\ j \in DOMAIN L
    BY <1>1, <1>3 DEF InOrder
<1>4. CASE i \in DOMAIN L /\ j \notin DOMAIN L
    <2>1. L[i] \subseteq All(L) /\ K[j - Len(L)] \subseteq All(K)
        BY <1>2, <1>4 DEF All
    <2> QED
        BY <2>1, <1>1, <1>2, <1>4 DEF Apart
<1>5. CASE i \notin DOMAIN L /\ j \notin DOMAIN L
    <2>1. i - Len(L) \in DOMAIN K /\ j - Len(L) \in DOMAIN K /\ i - Len(L) < j - Len(L)
        BY <1>2, <1>5
    <2> QED
        BY <2>1, <1>2, <1>5 DEF InOrder
<1>6. ~(i \notin DOMAIN L /\ j \in DOMAIN L)
    OBVIOUS
<1> QED
    BY <1>3, <1>4, <1>5, <1>6

LEMMA AllTail ==
    ASSUME NEW L \in Seq(Marks), L # <<>>
    PROVE  All(L) = Head(L) \cup All(Tail(L))
<1>1. \A i \in DOMAIN Tail(L) : i + 1 \in DOMAIN L /\ Tail(L)[i] = L[i + 1]
    OBVIOUS
<1>2. \A i \in DOMAIN L : i # 1 => i - 1 \in DOMAIN Tail(L) /\ Tail(L)[i - 1] = L[i]
    OBVIOUS
<1>3. 1 \in DOMAIN L /\ Head(L) = L[1]
    OBVIOUS
<1>4. ASSUME NEW x \in All(L) PROVE x \in Head(L) \cup All(Tail(L))
    BY <1>2, <1>3 DEF All
<1>5. ASSUME NEW x \in All(Tail(L)) PROVE x \in All(L)
    BY <1>1 DEF All
<1>6. ASSUME NEW x \in Head(L) PROVE x \in All(L)
    BY <1>3 DEF All
<1> QED
    BY <1>4, <1>5, <1>6

LEMMA InOrderTail ==
    ASSUME NEW L \in Seq(Marks), L # <<>>, NEW o \in BOOLEAN, InOrder(o, L)
    PROVE  /\ InOrder(o, Tail(L)) /\ Apart(o, Head(L), All(Tail(L)))
           /\ All(L) = Head(L) \cup All(Tail(L))
           /\ Tail(L) \in Seq(Marks) /\ Head(L) \in Marks
<1>1. \A i \in DOMAIN Tail(L) : i + 1 \in DOMAIN L /\ Tail(L)[i] = L[i + 1] /\ 1 < i + 1
    OBVIOUS
<1>2. \A i \in DOMAIN L : i # 1 => i - 1 \in DOMAIN Tail(L) /\ Tail(L)[i - 1] = L[i]
    OBVIOUS
<1>3. 1 \in DOMAIN L /\ Head(L) = L[1] /\ Tail(L) \in Seq(Marks) /\ Head(L) \in Marks
    OBVIOUS
<1>4. InOrder(o, Tail(L))
    <2> SUFFICES ASSUME NEW i \in DOMAIN Tail(L), NEW j \in DOMAIN Tail(L), i < j
                 PROVE  Apart(o, Tail(L)[i], Tail(L)[j])
        BY DEF InOrder
    <2>1. i + 1 < j + 1
        BY <1>3
    <2> QED
        BY <1>1, <2>1 DEF InOrder
<1>5. Apart(o, Head(L), All(Tail(L)))
    BY <1>1, <1>3 DEF InOrder, Apart, All
<1>6. All(L) = Head(L) \cup All(Tail(L))
    BY AllTail
<1> QED
    BY <1>3, <1>4, <1>5, <1>6

LEMMA AllOne == ASSUME NEW X \in Marks
    PROVE  All(<<X>>) = X /\ <<X>> \in Seq(Marks) /\ \A o \in BOOLEAN : InOrder(o, <<X>>)
BY DEF All, InOrder

LEMMA AllNone == All(<<>>) = {} /\ \A o \in BOOLEAN : InOrder(o, <<>>)
BY DEF All, InOrder

LEMMA Weaker ==
    ASSUME NEW L \in Seq(Marks), NEW o \in BOOLEAN, InOrder(o, L)
    PROVE  InOrder(FALSE, L)
BY DEF InOrder, Apart

(* Six places in a line: marks that move forward, that are dropped, and     *)
(* that are new.                                                           *)
Places == 1..6
Lines == [Places -> Marks]

LEMMA LineMoves ==
    ASSUME NEW o \in BOOLEAN, NEW L \in Lines, NEW K \in Lines, InOrder(o, L),
           NEW p \in Places, NEW q \in Places, p < q, NEW X \in Marks,
           X \subseteq L[q], K[p] \subseteq L[p] \cup X, K[q] \subseteq L[q],
           Apart(o, X, K[q]), \A r \in Places \ {p, q} : K[r] \subseteq L[r],
           o => \A r \in Places : p < r /\ r < q => L[r] = {}
    PROVE  InOrder(o, K)
<1> SUFFICES ASSUME NEW i \in Places, NEW j \in Places, i < j,
                    NEW a \in K[i], NEW b \in K[j]
             PROVE  a # b /\ (o => a < b)
    BY DEF InOrder, Apart, Lines
<1>1. \A r, s \in Places : r < s => \A x \in L[r], y \in L[s] : x # y /\ (o => x < y)
    BY DEF InOrder, Apart, Lines
<1>2. \A x \in X, y \in K[q] : x # y /\ (o => x < y)
    BY DEF Apart
<1>3. CASE i = p /\ j = q
    BY <1>1, <1>2, <1>3
<1>4. CASE i = p /\ j # q
    <2>1. b \in L[j] /\ (a \in L[p] \/ a \in L[q])
        <3>1. CASE j = q
            BY <3>1, <1>4
        <3>2. CASE j # q
            <4>1. j \in Places \ {p, q}
                BY <3>2, <1>4 DEF Places
            <4>2. K[j] \subseteq L[j]
                BY <4>1
            <4> QED
                BY <4>2, <1>4
        <3> QED
            BY <3>1, <3>2
    <2>2. CASE a \in L[p]
        BY <2>1, <2>2, <1>1, <1>4
    <2>3. CASE a \in L[q] /\ j > q
        BY <2>1, <2>3, <1>1, <1>4
    <2>4. CASE a \in L[q] /\ j < q
        BY <2>1, <2>4, <1>1, <1>4 DEF Places
    <2> QED
        BY <2>1, <2>2, <2>3, <2>4, <1>4 DEF Places
<1>5. CASE i # p /\ j = p
    <2>1. a \in L[i] /\ (b \in L[p] \/ b \in L[q])
        BY <1>5 DEF Places
    <2> QED
        BY <2>1, <1>1, <1>5 DEF Places
<1>6. CASE i # p /\ j # p
    <2>1. a \in L[i] /\ b \in L[j]
        BY <1>6
    <2> QED
        BY <2>1, <1>1
<1> QED
    BY <1>3, <1>4, <1>5, <1>6

LEMMA LineShrinks ==
    ASSUME NEW o \in BOOLEAN, NEW L \in Lines, NEW K \in Lines, InOrder(o, L),
           \A r \in Places : K[r] \subseteq L[r]
    PROVE  InOrder(o, K)
BY DEF InOrder, Apart, Lines

LEMMA LineGrows ==
    ASSUME NEW o \in BOOLEAN, NEW L \in Lines, NEW K \in Lines, InOrder(o, L),
           NEW p \in Places, NEW X \in Marks, K[p] \subseteq L[p] \cup X,
           \A r \in Places \ {p} : K[r] \subseteq L[r],
           \A r \in Places : Apart(FALSE, L[r], X),
           o => \A r \in Places : IF r <= p THEN Apart(TRUE, L[r], X) ELSE L[r] = {}
    PROVE  InOrder(o, K)
<1> SUFFICES ASSUME NEW i \in Places, NEW j \in Places, i < j,
                    NEW a \in K[i], NEW b \in K[j]
             PROVE  a # b /\ (o => a < b)
    BY DEF InOrder, Apart, Lines
<1>1. \A r, s \in Places : r < s => \A x \in L[r], y \in L[s] : x # y /\ (o => x < y)
    BY DEF InOrder, Apart, Lines
<1>2. \A r \in Places : \A y \in L[r], x \in X : x # y /\ (o /\ r <= p => y < x)
    BY DEF Apart
<1>3. CASE i = p
    <2>1. b \in L[j] /\ (a \in L[p] \/ a \in X)
        <3>1. j \in Places \ {p}
            BY <1>3 DEF Places
        <3> QED
            BY <3>1, <1>3
    <2>2. o => j <= p \/ L[j] = {}
        OBVIOUS
    <2> QED
        BY <2>1, <2>2, <1>1, <1>2, <1>3 DEF Places
<1>4. CASE j = p
    BY <1>1, <1>2, <1>4 DEF Places
<1>5. CASE i # p /\ j # p
    <2>1. a \in L[i] /\ b \in L[j]
        BY <1>5
    <2> QED
        BY <2>1, <1>1
<1> QED
    BY <1>3, <1>4, <1>5

(* What carries which marks.                                               *)
MarkOf(c, s) ==
    IF s.call # c THEN {}
    ELSE IF s.item > 0 THEN {s.item}
    ELSE IF s.type = Aborted THEN {Len(Chunks(c)) + 1}
    ELSE IF s.type = "output" THEN {Len(Chunks(c)) + 2}
    ELSE {}
SpecMarks(c, specs) == [i \in DOMAIN specs |-> MarkOf(c, specs[i])]
SpecSet(c, specs) == All(SpecMarks(c, specs))
SpecOrder(o, c, specs) == InOrder(o, SpecMarks(c, specs))

MessageMarks(c, m) ==
    IF m.kind = "user_event" THEN SpecSet(c, m.specs)
    ELSE IF m.ok /\ m.node = c[1] THEN {Len(Chunks(c)) + 2} ELSE {}
Neat(o, c, m) == m.kind = "user_event" => SpecOrder(o, c, m.specs)
MailMarks(c, q) == [i \in DOMAIN q |-> MessageMarks(c, q[i])]
MailSet(c, q) == All(MailMarks(c, q))
MailOrder(o, c, q) ==
    InOrder(o, MailMarks(c, q)) /\ \A i \in DOMAIN q : Neat(o, c, q[i])

CallbackMarks(c, b) == IF b.do = "put" THEN MessageMarks(c, b.message) ELSE {}
Tidy(o, c, b) == b.do = "put" => Neat(o, c, b.message)
LoopMarks(c, q) == [i \in DOMAIN q |-> CallbackMarks(c, q[i])]
LoopSet(c, q) == All(LoopMarks(c, q))
LoopOrder(o, c, q) ==
    InOrder(o, LoopMarks(c, q)) /\ \A i \in DOMAIN q : Tidy(o, c, q[i])

LEMMA ChunksTyped ==
    ASSUME scenario \in Scenarios, NEW c \in Calls
    PROVE  /\ c[1] \in Nodes /\ c \in Nodes \X (Nat \ {0})
           /\ Chunks(c) \in Seq(STRING) /\ Len(Chunks(c)) \in Nat
           /\ Mode(c) \in {"async", "sync"}
           /\ Sayings(c) \subseteq 1..Len(Chunks(c))
<1>1. c[1] \in Nodes /\ c \in Nodes \X (Nat \ {0})
    BY ScenarioAssumption DEF Calls, Nodes
<1>2. Chunks(c) \in Seq(STRING) /\ Mode(c) \in {"async", "sync"}
    BY <1>1, ScenarioAssumption DEF Chunks, Nodes, Mode
<1> QED
    BY <1>1, <1>2 DEF Sayings

LEMMA MarkTyped ==
    ASSUME scenario \in Scenarios, NEW c \in Calls
    PROVE  /\ \A s \in Specs : MarkOf(c, s) \in Marks
           /\ \A specs \in Seq(Specs) :
                 SpecMarks(c, specs) \in Seq(Marks) /\ SpecSet(c, specs) \in Marks
<1>1. Len(Chunks(c)) \in Nat
    BY ChunksTyped
<1>2. ASSUME NEW s \in Specs PROVE MarkOf(c, s) \in Marks
    BY <1>1 DEF MarkOf, Marks, Specs
<1>3. ASSUME NEW specs \in Seq(Specs)
      PROVE  SpecMarks(c, specs) \in Seq(Marks) /\ SpecSet(c, specs) \in Marks
    <2>1. \A i \in 1..Len(specs) : specs[i] \in Specs
        OBVIOUS
    <2>2. SpecMarks(c, specs) \in [1..Len(specs) -> Marks]
        BY <1>2, <2>1 DEF SpecMarks
    <2>3. SpecMarks(c, specs) \in Seq(Marks)
        BY <2>2
    <2> QED
        BY <2>3 DEF SpecSet, All, Marks
<1> QED
    BY <1>2, <1>3

LEMMA SameConcat ==
    ASSUME NEW S, NEW L \in Seq(S), NEW K \in Seq(S), NEW J \in Seq(S),
           Len(J) = Len(L) + Len(K),
           \A i \in 1..Len(J) : J[i] = IF i <= Len(L) THEN L[i] ELSE K[i - Len(L)]
    PROVE  J = L \o K
BY ConcatProperties, SeqEqual

LEMMA LengthIs ==
    ASSUME NEW S, NEW s \in Seq(S), NEW n \in Nat, DOMAIN s = 1..n
    PROVE  Len(s) = n
OBVIOUS

LEMMA SpecConcat ==
    ASSUME scenario \in Scenarios, NEW c \in Calls, NEW o \in BOOLEAN,
           NEW s \in Seq(Specs), NEW t \in Seq(Specs)
    PROVE  /\ SpecSet(c, s \o t) = SpecSet(c, s) \cup SpecSet(c, t)
           /\ SpecOrder(o, c, s) /\ SpecOrder(o, c, t) /\ Apart(o, SpecSet(c, s), SpecSet(c, t))
                 => SpecOrder(o, c, s \o t)
<1>1. SpecMarks(c, s) \in Seq(Marks) /\ SpecMarks(c, t) \in Seq(Marks)
    BY MarkTyped
<1>2. SpecMarks(c, s \o t) = SpecMarks(c, s) \o SpecMarks(c, t)
    <2>1. SpecMarks(c, s \o t) = [i \in 1..Len(s) + Len(t) |-> MarkOf(c, (s \o t)[i])]
        BY DEF SpecMarks
    <2>2. SpecMarks(c, s) = [i \in 1..Len(s) |-> MarkOf(c, s[i])]
        BY DEF SpecMarks
    <2>3. SpecMarks(c, t) = [i \in 1..Len(t) |-> MarkOf(c, t[i])]
        BY DEF SpecMarks
    <2>4. Len(SpecMarks(c, s)) = Len(s) /\ Len(SpecMarks(c, t)) = Len(t)
        BY <2>2, <2>3, <1>1
    <2>5. s \o t \in Seq(Specs) /\ Len(s \o t) = Len(s) + Len(t)
        OBVIOUS
    <2>6. SpecMarks(c, s \o t) \in Seq(Marks) /\ Len(SpecMarks(c, s \o t)) = Len(s) + Len(t)
        BY <2>1, <2>5, MarkTyped
    <2>7. \A i \in 1..Len(s) + Len(t) :
             (s \o t)[i] = IF i <= Len(s) THEN s[i] ELSE t[i - Len(s)]
        OBVIOUS
    <2>8. \A i \in 1..Len(s) + Len(t) :
             SpecMarks(c, s \o t)[i] = IF i <= Len(s) THEN SpecMarks(c, s)[i]
                                       ELSE SpecMarks(c, t)[i - Len(s)]
        BY <2>1, <2>2, <2>3, <2>7
    <2> DEFINE L == SpecMarks(c, s)
               K == SpecMarks(c, t)
               J == SpecMarks(c, s \o t)
    <2>9. /\ L \in Seq(Marks) /\ K \in Seq(Marks) /\ J \in Seq(Marks)
          /\ Len(J) = Len(L) + Len(K)
          /\ \A i \in 1..Len(J) : J[i] = IF i <= Len(L) THEN L[i] ELSE K[i - Len(L)]
        BY <1>1, <2>4, <2>6, <2>8
    <2> HIDE DEF L, K, J
    <2>10. J = L \o K
        BY <2>9, SameConcat
    <2> QED
        BY <2>10 DEF L, K, J
<1> QED
    BY <1>1, <1>2, AllConcat, InOrderConcat DEF SpecSet, SpecOrder

LEMMA SpecFew ==
    ASSUME scenario \in Scenarios, NEW c \in Calls, NEW o \in BOOLEAN
    PROVE  /\ SpecSet(c, <<>>) = {} /\ SpecOrder(o, c, <<>>)
           /\ \A s \in Specs : SpecSet(c, <<s>>) = MarkOf(c, s) /\ SpecOrder(o, c, <<s>>)
<1>1. SpecMarks(c, <<>>) = <<>>
    BY DEF SpecMarks
<1>2. ASSUME NEW s \in Specs PROVE SpecMarks(c, <<s>>) = <<MarkOf(c, s)>>
    BY DEF SpecMarks
<1> QED
    BY <1>1, <1>2, AllNone, AllOne, MarkTyped DEF SpecSet, SpecOrder

LEMMA MailMarksTyped ==
    ASSUME scenario \in Scenarios, NEW c \in Calls
    PROVE  /\ \A m \in Messages : MessageMarks(c, m) \in Marks
           /\ \A q \in Seq(Messages) : MailMarks(c, q) \in Seq(Marks) /\ MailSet(c, q) \in Marks
<1>1. Len(Chunks(c)) \in Nat
    BY ChunksTyped
<1>2. ASSUME NEW m \in Messages PROVE MessageMarks(c, m) \in Marks
    BY <1>1, MarkTyped DEF MessageMarks, Messages, Marks
<1>3. ASSUME NEW q \in Seq(Messages)
      PROVE  MailMarks(c, q) \in Seq(Marks) /\ MailSet(c, q) \in Marks
    <2>1. \A i \in 1..Len(q) : q[i] \in Messages
        OBVIOUS
    <2>2. MailMarks(c, q) \in [1..Len(q) -> Marks]
        BY <1>2, <2>1 DEF MailMarks
    <2>3. MailMarks(c, q) \in Seq(Marks)
        BY <2>2
    <2> QED
        BY <2>3 DEF MailSet, All, Marks
<1> QED
    BY <1>2, <1>3

LEMMA MailConcat ==
    ASSUME scenario \in Scenarios, NEW c \in Calls, NEW o \in BOOLEAN,
           NEW s \in Seq(Messages), NEW t \in Seq(Messages)
    PROVE  /\ MailSet(c, s \o t) = MailSet(c, s) \cup MailSet(c, t)
           /\ MailOrder(o, c, s) /\ MailOrder(o, c, t) /\ Apart(o, MailSet(c, s), MailSet(c, t))
                 => MailOrder(o, c, s \o t)
<1>1. MailMarks(c, s) \in Seq(Marks) /\ MailMarks(c, t) \in Seq(Marks)
    BY MailMarksTyped
<1>2. MailMarks(c, s \o t) = MailMarks(c, s) \o MailMarks(c, t)
    <2>1. MailMarks(c, s \o t) = [i \in 1..Len(s) + Len(t) |-> MessageMarks(c, (s \o t)[i])]
        BY DEF MailMarks
    <2>2. MailMarks(c, s) = [i \in 1..Len(s) |-> MessageMarks(c, s[i])]
        BY DEF MailMarks
    <2>3. MailMarks(c, t) = [i \in 1..Len(t) |-> MessageMarks(c, t[i])]
        BY DEF MailMarks
    <2>4. Len(MailMarks(c, s)) = Len(s) /\ Len(MailMarks(c, t)) = Len(t)
        BY <2>2, <2>3, <1>1
    <2>5. s \o t \in Seq(Messages) /\ Len(s \o t) = Len(s) + Len(t)
        OBVIOUS
    <2>6. MailMarks(c, s \o t) \in Seq(Marks) /\ Len(MailMarks(c, s \o t)) = Len(s) + Len(t)
        BY <2>1, <2>5, MailMarksTyped
    <2>7. \A i \in 1..Len(s) + Len(t) :
             (s \o t)[i] = IF i <= Len(s) THEN s[i] ELSE t[i - Len(s)]
        OBVIOUS
    <2>8. \A i \in 1..Len(s) + Len(t) :
             MailMarks(c, s \o t)[i] = IF i <= Len(s) THEN MailMarks(c, s)[i]
                                       ELSE MailMarks(c, t)[i - Len(s)]
        BY <2>1, <2>2, <2>3, <2>7
    <2> DEFINE L == MailMarks(c, s)
               K == MailMarks(c, t)
               J == MailMarks(c, s \o t)
    <2>9. /\ L \in Seq(Marks) /\ K \in Seq(Marks) /\ J \in Seq(Marks)
          /\ Len(J) = Len(L) + Len(K)
          /\ \A i \in 1..Len(J) : J[i] = IF i <= Len(L) THEN L[i] ELSE K[i - Len(L)]
        BY <1>1, <2>4, <2>6, <2>8
    <2> HIDE DEF L, K, J
    <2>10. J = L \o K
        BY <2>9, SameConcat
    <2> QED
        BY <2>10 DEF L, K, J
<1>3. \A i \in DOMAIN (s \o t) :
         \/ i \in DOMAIN s /\ (s \o t)[i] = s[i]
         \/ i - Len(s) \in DOMAIN t /\ (s \o t)[i] = t[i - Len(s)]
    OBVIOUS
<1>4. (\A i \in DOMAIN s : Neat(o, c, s[i])) /\ (\A i \in DOMAIN t : Neat(o, c, t[i]))
         => \A i \in DOMAIN (s \o t) : Neat(o, c, (s \o t)[i])
    BY <1>3
<1> QED
    BY <1>1, <1>2, <1>4, AllConcat, InOrderConcat DEF MailSet, MailOrder

LEMMA MailFew ==
    ASSUME scenario \in Scenarios, NEW c \in Calls, NEW o \in BOOLEAN
    PROVE  /\ MailSet(c, <<>>) = {} /\ MailOrder(o, c, <<>>)
           /\ \A m \in Messages : MailSet(c, <<m>>) = MessageMarks(c, m)
           /\ \A m \in Messages : Neat(o, c, m) => MailOrder(o, c, <<m>>)
<1>1. MailMarks(c, <<>>) = <<>>
    BY DEF MailMarks
<1>2. ASSUME NEW m \in Messages PROVE MailMarks(c, <<m>>) = <<MessageMarks(c, m)>>
    BY DEF MailMarks
<1> QED
    BY <1>1, <1>2, AllNone, AllOne, MailMarksTyped DEF MailSet, MailOrder

LEMMA MailTail ==
    ASSUME scenario \in Scenarios, NEW c \in Calls, NEW o \in BOOLEAN,
           NEW q \in Seq(Messages), q # <<>>
    PROVE  /\ MailSet(c, q) = MessageMarks(c, Head(q)) \cup MailSet(c, Tail(q))
           /\ MailOrder(o, c, q) =>
                 /\ MailOrder(o, c, Tail(q)) /\ Neat(o, c, Head(q))
                 /\ Apart(o, MessageMarks(c, Head(q)), MailSet(c, Tail(q)))
<1> DEFINE L == MailMarks(c, q)
<1>1. L \in Seq(Marks) /\ L # <<>>
    BY MailMarksTyped DEF MailMarks
<1>2. Head(q) = q[1] /\ 1 \in DOMAIN q /\ Tail(q) \in Seq(Messages) /\ Len(Tail(q)) = Len(q) - 1
    OBVIOUS
<1>3. \A i \in 1..Len(Tail(q)) : Tail(q)[i] = q[i + 1] /\ i + 1 \in DOMAIN q
    OBVIOUS
<1>4. Head(L) = MessageMarks(c, Head(q))
    <2>1. Head(L) = L[1]
        BY <1>1
    <2> QED
        BY <2>1, <1>2 DEF MailMarks
<1>5. Tail(L) = MailMarks(c, Tail(q))
    <2>1. Tail(L) \in Seq(Marks) /\ Len(Tail(L)) = Len(L) - 1
          /\ \A i \in 1..Len(Tail(L)) : Tail(L)[i] = L[i + 1]
        BY <1>1
    <2>2. MailMarks(c, Tail(q)) \in Seq(Marks) /\ Len(MailMarks(c, Tail(q))) = Len(q) - 1
        <3>1. MailMarks(c, Tail(q)) \in Seq(Marks)
            BY <1>2, MailMarksTyped
        <3>2. DOMAIN MailMarks(c, Tail(q)) = 1..Len(Tail(q)) /\ Len(Tail(q)) \in Nat
            BY <1>2 DEF MailMarks
        <3>3. Len(MailMarks(c, Tail(q))) = Len(Tail(q))
            BY <3>1, <3>2, LengthIs
        <3> QED
            BY <1>2, <3>1, <3>3
    <2>3. Len(L) = Len(q)
        BY <1>1 DEF MailMarks
    <2>4. \A i \in 1..Len(Tail(q)) : L[i + 1] = MailMarks(c, Tail(q))[i]
        BY <1>2, <1>3 DEF MailMarks
    <2> HIDE DEF L
    <2> QED
        BY <2>1, <2>2, <2>3, <2>4, <1>2, SeqEqual
<1>6. MailSet(c, q) = MessageMarks(c, Head(q)) \cup MailSet(c, Tail(q))
    <2> HIDE DEF L
    <2>1. All(L) = Head(L) \cup All(Tail(L))
        BY <1>1, AllTail
    <2> QED
        BY <2>1, <1>4, <1>5 DEF MailSet, L
<1>7. ASSUME MailOrder(o, c, q)
      PROVE  /\ MailOrder(o, c, Tail(q)) /\ Neat(o, c, Head(q))
             /\ Apart(o, MessageMarks(c, Head(q)), MailSet(c, Tail(q)))
    <2>1. InOrder(o, L) /\ \A i \in DOMAIN q : Neat(o, c, q[i])
        BY <1>7 DEF MailOrder
    <2>2. InOrder(o, Tail(L)) /\ Apart(o, Head(L), All(Tail(L)))
        <3> HIDE DEF L
        <3> QED
            BY <1>1, <2>1, InOrderTail
    <2>3. \A i \in DOMAIN Tail(q) : Neat(o, c, Tail(q)[i])
        BY <1>3, <2>1, <1>2
    <2> QED
        BY <2>1, <2>2, <2>3, <1>2, <1>4, <1>5 DEF MailOrder, MailSet
<1> QED
    BY <1>6, <1>7

LEMMA LoopMarksTyped ==
    ASSUME scenario \in Scenarios, NEW c \in Calls
    PROVE  /\ \A m \in Callbacks : CallbackMarks(c, m) \in Marks
           /\ \A q \in Seq(Callbacks) : LoopMarks(c, q) \in Seq(Marks) /\ LoopSet(c, q) \in Marks
<1>1. Len(Chunks(c)) \in Nat
    BY ChunksTyped
<1>2. ASSUME NEW m \in Callbacks PROVE CallbackMarks(c, m) \in Marks
    <2>1. m.do = "put" => m.message \in Messages
        BY DEF Callbacks, Messages
    <2> QED
        BY <2>1, MailMarksTyped DEF CallbackMarks, Marks
<1>3. ASSUME NEW q \in Seq(Callbacks)
      PROVE  LoopMarks(c, q) \in Seq(Marks) /\ LoopSet(c, q) \in Marks
    <2>1. \A i \in 1..Len(q) : q[i] \in Callbacks
        OBVIOUS
    <2>2. LoopMarks(c, q) \in [1..Len(q) -> Marks]
        BY <1>2, <2>1 DEF LoopMarks
    <2>3. LoopMarks(c, q) \in Seq(Marks)
        BY <2>2
    <2> QED
        BY <2>3 DEF LoopSet, All, Marks
<1> QED
    BY <1>2, <1>3

LEMMA LoopConcat ==
    ASSUME scenario \in Scenarios, NEW c \in Calls, NEW o \in BOOLEAN,
           NEW s \in Seq(Callbacks), NEW t \in Seq(Callbacks)
    PROVE  /\ LoopSet(c, s \o t) = LoopSet(c, s) \cup LoopSet(c, t)
           /\ LoopOrder(o, c, s) /\ LoopOrder(o, c, t) /\ Apart(o, LoopSet(c, s), LoopSet(c, t))
                 => LoopOrder(o, c, s \o t)
<1>1. LoopMarks(c, s) \in Seq(Marks) /\ LoopMarks(c, t) \in Seq(Marks)
    BY LoopMarksTyped
<1>2. LoopMarks(c, s \o t) = LoopMarks(c, s) \o LoopMarks(c, t)
    <2>1. LoopMarks(c, s \o t) = [i \in 1..Len(s) + Len(t) |-> CallbackMarks(c, (s \o t)[i])]
        BY DEF LoopMarks
    <2>2. LoopMarks(c, s) = [i \in 1..Len(s) |-> CallbackMarks(c, s[i])]
        BY DEF LoopMarks
    <2>3. LoopMarks(c, t) = [i \in 1..Len(t) |-> CallbackMarks(c, t[i])]
        BY DEF LoopMarks
    <2>4. Len(LoopMarks(c, s)) = Len(s) /\ Len(LoopMarks(c, t)) = Len(t)
        BY <2>2, <2>3, <1>1
    <2>5. s \o t \in Seq(Callbacks) /\ Len(s \o t) = Len(s) + Len(t)
        OBVIOUS
    <2>6. LoopMarks(c, s \o t) \in Seq(Marks) /\ Len(LoopMarks(c, s \o t)) = Len(s) + Len(t)
        BY <2>1, <2>5, LoopMarksTyped
    <2>7. \A i \in 1..Len(s) + Len(t) :
             (s \o t)[i] = IF i <= Len(s) THEN s[i] ELSE t[i - Len(s)]
        OBVIOUS
    <2>8. \A i \in 1..Len(s) + Len(t) :
             LoopMarks(c, s \o t)[i] = IF i <= Len(s) THEN LoopMarks(c, s)[i]
                                       ELSE LoopMarks(c, t)[i - Len(s)]
        BY <2>1, <2>2, <2>3, <2>7
    <2> DEFINE L == LoopMarks(c, s)
               K == LoopMarks(c, t)
               J == LoopMarks(c, s \o t)
    <2>9. /\ L \in Seq(Marks) /\ K \in Seq(Marks) /\ J \in Seq(Marks)
          /\ Len(J) = Len(L) + Len(K)
          /\ \A i \in 1..Len(J) : J[i] = IF i <= Len(L) THEN L[i] ELSE K[i - Len(L)]
        BY <1>1, <2>4, <2>6, <2>8
    <2> HIDE DEF L, K, J
    <2>10. J = L \o K
        BY <2>9, SameConcat
    <2> QED
        BY <2>10 DEF L, K, J
<1>3. \A i \in DOMAIN (s \o t) :
         \/ i \in DOMAIN s /\ (s \o t)[i] = s[i]
         \/ i - Len(s) \in DOMAIN t /\ (s \o t)[i] = t[i - Len(s)]
    OBVIOUS
<1>4. (\A i \in DOMAIN s : Tidy(o, c, s[i])) /\ (\A i \in DOMAIN t : Tidy(o, c, t[i]))
         => \A i \in DOMAIN (s \o t) : Tidy(o, c, (s \o t)[i])
    BY <1>3
<1> QED
    BY <1>1, <1>2, <1>4, AllConcat, InOrderConcat DEF LoopSet, LoopOrder

LEMMA LoopFew ==
    ASSUME scenario \in Scenarios, NEW c \in Calls, NEW o \in BOOLEAN
    PROVE  /\ LoopSet(c, <<>>) = {} /\ LoopOrder(o, c, <<>>)
           /\ \A m \in Callbacks : LoopSet(c, <<m>>) = CallbackMarks(c, m)
           /\ \A m \in Callbacks : Tidy(o, c, m) => LoopOrder(o, c, <<m>>)
<1>1. LoopMarks(c, <<>>) = <<>>
    BY DEF LoopMarks
<1>2. ASSUME NEW m \in Callbacks PROVE LoopMarks(c, <<m>>) = <<CallbackMarks(c, m)>>
    BY DEF LoopMarks
<1> QED
    BY <1>1, <1>2, AllNone, AllOne, LoopMarksTyped DEF LoopSet, LoopOrder

LEMMA LoopTail ==
    ASSUME scenario \in Scenarios, NEW c \in Calls, NEW o \in BOOLEAN,
           NEW q \in Seq(Callbacks), q # <<>>
    PROVE  /\ LoopSet(c, q) = CallbackMarks(c, Head(q)) \cup LoopSet(c, Tail(q))
           /\ LoopOrder(o, c, q) =>
                 /\ LoopOrder(o, c, Tail(q)) /\ Tidy(o, c, Head(q))
                 /\ Apart(o, CallbackMarks(c, Head(q)), LoopSet(c, Tail(q)))
<1> DEFINE L == LoopMarks(c, q)
<1>1. L \in Seq(Marks) /\ L # <<>>
    BY LoopMarksTyped DEF LoopMarks
<1>2. Head(q) = q[1] /\ 1 \in DOMAIN q /\ Tail(q) \in Seq(Callbacks) /\ Len(Tail(q)) = Len(q) - 1
    OBVIOUS
<1>3. \A i \in 1..Len(Tail(q)) : Tail(q)[i] = q[i + 1] /\ i + 1 \in DOMAIN q
    OBVIOUS
<1>4. Head(L) = CallbackMarks(c, Head(q))
    <2>1. Head(L) = L[1]
        BY <1>1
    <2> QED
        BY <2>1, <1>2 DEF LoopMarks
<1>5. Tail(L) = LoopMarks(c, Tail(q))
    <2>1. Tail(L) \in Seq(Marks) /\ Len(Tail(L)) = Len(L) - 1
          /\ \A i \in 1..Len(Tail(L)) : Tail(L)[i] = L[i + 1]
        BY <1>1
    <2>2. LoopMarks(c, Tail(q)) \in Seq(Marks) /\ Len(LoopMarks(c, Tail(q))) = Len(q) - 1
        <3>1. LoopMarks(c, Tail(q)) \in Seq(Marks)
            BY <1>2, LoopMarksTyped
        <3>2. DOMAIN LoopMarks(c, Tail(q)) = 1..Len(Tail(q)) /\ Len(Tail(q)) \in Nat
            BY <1>2 DEF LoopMarks
        <3>3. Len(LoopMarks(c, Tail(q))) = Len(Tail(q))
            BY <3>1, <3>2, LengthIs
        <3> QED
            BY <1>2, <3>1, <3>3
    <2>3. Len(L) = Len(q)
        BY <1>1 DEF LoopMarks
    <2>4. \A i \in 1..Len(Tail(q)) : L[i + 1] = LoopMarks(c, Tail(q))[i]
        BY <1>2, <1>3 DEF LoopMarks
    <2> HIDE DEF L
    <2> QED
        BY <2>1, <2>2, <2>3, <2>4, <1>2, SeqEqual
<1>6. LoopSet(c, q) = CallbackMarks(c, Head(q)) \cup LoopSet(c, Tail(q))
    <2> HIDE DEF L
    <2>1. All(L) = Head(L) \cup All(Tail(L))
        BY <1>1, AllTail
    <2> QED
        BY <2>1, <1>4, <1>5 DEF LoopSet, L
<1>7. ASSUME LoopOrder(o, c, q)
      PROVE  /\ LoopOrder(o, c, Tail(q)) /\ Tidy(o, c, Head(q))
             /\ Apart(o, CallbackMarks(c, Head(q)), LoopSet(c, Tail(q)))
    <2>1. InOrder(o, L) /\ \A i \in DOMAIN q : Tidy(o, c, q[i])
        BY <1>7 DEF LoopOrder
    <2>2. InOrder(o, Tail(L)) /\ Apart(o, Head(L), All(Tail(L)))
        <3> HIDE DEF L
        <3> QED
            BY <1>1, <2>1, InOrderTail
    <2>3. \A i \in DOMAIN Tail(q) : Tidy(o, c, Tail(q)[i])
        BY <1>3, <2>1, <1>2
    <2> QED
        BY <2>1, <2>2, <2>3, <1>2, <1>4, <1>5 DEF LoopOrder, LoopSet
<1> QED
    BY <1>6, <1>7

(* The way of the chunks of a call, as a value: what it meets from the      *)
(* journal back to the batcher.                                            *)
Pipes ==
    [events : Seq(Specs), todo : Seq(Messages), mail : Seq(Messages),
     ready : Seq(Callbacks), posts : Seq(Callbacks), batch : Seq(Specs)]

LineOf(c, q) ==
    [p \in Places |->
        IF p = 1 THEN SpecSet(c, q.events) ELSE IF p = 2 THEN MailSet(c, q.todo)
        ELSE IF p = 3 THEN MailSet(c, q.mail) ELSE IF p = 4 THEN LoopSet(c, q.ready)
        ELSE IF p = 5 THEN LoopSet(c, q.posts) ELSE SpecSet(c, q.batch)]

Sorted(o, c, q) ==
    /\ SpecOrder(o, c, q.events) /\ MailOrder(o, c, q.todo) /\ MailOrder(o, c, q.mail)
    /\ LoopOrder(o, c, q.ready) /\ LoopOrder(o, c, q.posts) /\ SpecOrder(o, c, q.batch)

Orderly(o, c, q) == Sorted(o, c, q) /\ InOrder(o, LineOf(c, q))

(* From L to K, some marks of place k come to the end of place p; marks X   *)
(* are added to place p; and where they may be.                            *)
Shifted(L, K, p, k) ==
    /\ L[p] \subseteq K[p] /\ K[k] \subseteq L[k]
    /\ K[p] \cup K[k] = L[p] \cup L[k]
    /\ \A r \in Places \ {p, k} : K[r] = L[r]
Added(L, K, p, X) ==
    K[p] = L[p] \cup X /\ \A r \in Places \ {p} : K[r] = L[r]
Fresh(o, L, p, X) ==
    /\ \A r \in Places : Apart(FALSE, L[r], X)
    /\ o /\ X # {} => \A r \in Places : IF r <= p THEN Apart(TRUE, L[r], X) ELSE L[r] = {}

LEMMA FreshGrows ==
    ASSUME NEW o \in BOOLEAN, NEW L \in Lines, NEW K \in Lines, InOrder(o, L),
           NEW p \in Places, NEW X \in Marks, K[p] \subseteq L[p] \cup X,
           \A r \in Places \ {p} : K[r] \subseteq L[r], Fresh(o, L, p, X)
    PROVE  InOrder(o, K)
<1>1. CASE X = {}
    <2>1. \A r \in Places : K[r] \subseteq L[r]
        BY <1>1
    <2> QED
        BY <2>1, LineShrinks
<1>2. CASE X # {}
    BY <1>2, LineGrows DEF Fresh
<1> QED
    BY <1>1, <1>2

LEMMA LineTyped ==
    ASSUME scenario \in Scenarios, NEW c \in Calls, NEW q \in Pipes
    PROVE  /\ LineOf(c, q) \in Lines
           /\ LineOf(c, q)[1] = SpecSet(c, q.events)
           /\ LineOf(c, q)[2] = MailSet(c, q.todo)
           /\ LineOf(c, q)[3] = MailSet(c, q.mail)
           /\ LineOf(c, q)[4] = LoopSet(c, q.ready)
           /\ LineOf(c, q)[5] = LoopSet(c, q.posts)
           /\ LineOf(c, q)[6] = SpecSet(c, q.batch)
<1>1. /\ SpecSet(c, q.events) \in Marks /\ SpecSet(c, q.batch) \in Marks
      /\ MailSet(c, q.todo) \in Marks /\ MailSet(c, q.mail) \in Marks
      /\ LoopSet(c, q.ready) \in Marks /\ LoopSet(c, q.posts) \in Marks
    BY MarkTyped, MailMarksTyped, LoopMarksTyped DEF Pipes
<1> QED
    BY <1>1 DEF LineOf, Lines, Places

LEMMA PostsFromBatch ==
    ASSUME scenario \in Scenarios, NEW c \in Calls, NEW o \in BOOLEAN,
           NEW q \in Pipes, NEW r \in Pipes, Orderly(o, c, q),
           NEW t \in Seq(Callbacks), NEW u \in Seq(Specs),
           r.posts = q.posts \o t, r.batch = u,
           r.events = q.events /\ r.todo = q.todo /\ r.mail = q.mail /\ r.ready = q.ready,
           LoopOrder(o, c, t), SpecOrder(o, c, u),
           SpecSet(c, q.batch) = LoopSet(c, t) \cup SpecSet(c, u),
           Apart(o, LoopSet(c, t), SpecSet(c, u))
    PROVE  Orderly(o, c, r) /\ Shifted(LineOf(c, q), LineOf(c, r), 5, 6)
<1> DEFINE L == LineOf(c, q)
           N == LineOf(c, r)
           X == LoopSet(c, t)
<1>1. L \in Lines /\ N \in Lines /\ InOrder(o, L) /\ Sorted(o, c, q)
    BY LineTyped DEF Orderly
<1>2. L[5] = LoopSet(c, q.posts) /\ N[5] = LoopSet(c, r.posts)
    BY LineTyped
<1>3. L[6] = SpecSet(c, q.batch) /\ N[6] = SpecSet(c, u)
    BY LineTyped
<1>4. \A x \in Places \ {5, 6} : N[x] = L[x]
    BY DEF LineOf, Places
<1>5. q.posts \in Seq(Callbacks)
    BY DEF Pipes
<1>6. N[5] = L[5] \cup X /\ L[6] = X \cup N[6]
    BY <1>2, <1>3, <1>5, LoopConcat
<1>7. LoopOrder(o, c, r.posts)
    <2>1. LoopOrder(o, c, q.posts)
        BY <1>1 DEF Sorted
    <2>2. Apart(o, LoopSet(c, q.posts), X)
        <3>1. Apart(o, L[5], L[6])
            BY <1>1 DEF InOrder, Lines, Places
        <3> QED
            BY <3>1, <1>2, <1>6 DEF Apart
    <2> QED
        BY <2>1, <2>2, <1>5, LoopConcat
<1>8. Sorted(o, c, r)
    BY <1>1, <1>7 DEF Sorted
<1>9. Shifted(L, N, 5, 6)
    BY <1>4, <1>6 DEF Shifted
<1>10. InOrder(o, N)
    <2>1. X \in Marks /\ X \subseteq L[6] /\ Apart(o, X, N[6])
        BY <1>1, <1>3, <1>6 DEF Lines, Places, Marks
    <2>2. o => \A x \in Places : 5 < x /\ x < 6 => L[x] = {}
        BY DEF Places
    <2>3. 5 \in Places /\ 6 \in Places /\ 5 < 6
        BY DEF Places
    <2>4. /\ N[5] \subseteq L[5] \cup X /\ N[6] \subseteq L[6]
          /\ \A x \in Places \ {5, 6} : N[x] \subseteq L[x]
        BY <1>4, <1>6
    <2> HIDE DEF L, N, X
    <2>5. /\ o \in BOOLEAN /\ L \in Lines /\ N \in Lines /\ InOrder(o, L) /\ X \in Marks
          /\ 5 \in Places /\ 6 \in Places /\ 5 < 6 /\ X \subseteq L[6]
          /\ N[5] \subseteq L[5] \cup X /\ N[6] \subseteq L[6] /\ Apart(o, X, N[6])
          /\ \A x \in Places \ {5, 6} : N[x] \subseteq L[x]
          /\ o => \A x \in Places : 5 < x /\ x < 6 => L[x] = {}
        BY <1>1, <2>1, <2>2, <2>3, <2>4
    <2> QED
        BY <2>5, LineMoves
<1> QED
    BY <1>8, <1>9, <1>10 DEF Orderly

LEMMA MailFromBatch ==
    ASSUME scenario \in Scenarios, NEW c \in Calls, NEW o \in BOOLEAN,
           NEW q \in Pipes, NEW r \in Pipes, Orderly(o, c, q),
           NEW t \in Seq(Messages), NEW u \in Seq(Specs),
           r.mail = q.mail \o t, r.batch = u,
           r.events = q.events /\ r.todo = q.todo /\ r.ready = q.ready /\ r.posts = q.posts,
           MailOrder(o, c, t), SpecOrder(o, c, u),
           SpecSet(c, q.batch) = MailSet(c, t) \cup SpecSet(c, u),
           Apart(o, MailSet(c, t), SpecSet(c, u)),
           o => LineOf(c, q)[4] = {} /\ LineOf(c, q)[5] = {}
    PROVE  Orderly(o, c, r) /\ Shifted(LineOf(c, q), LineOf(c, r), 3, 6)
<1> DEFINE L == LineOf(c, q)
           N == LineOf(c, r)
           X == MailSet(c, t)
<1>1. L \in Lines /\ N \in Lines /\ InOrder(o, L) /\ Sorted(o, c, q)
    BY LineTyped DEF Orderly
<1>2. L[3] = MailSet(c, q.mail) /\ N[3] = MailSet(c, r.mail)
    BY LineTyped
<1>3. L[6] = SpecSet(c, q.batch) /\ N[6] = SpecSet(c, u)
    BY LineTyped
<1>4. \A x \in Places \ {3, 6} : N[x] = L[x]
    BY DEF LineOf, Places
<1>5. q.mail \in Seq(Messages)
    BY DEF Pipes
<1>6. N[3] = L[3] \cup X /\ L[6] = X \cup N[6]
    BY <1>2, <1>3, <1>5, MailConcat
<1>7. MailOrder(o, c, r.mail)
    <2>1. MailOrder(o, c, q.mail)
        BY <1>1 DEF Sorted
    <2>2. Apart(o, MailSet(c, q.mail), X)
        <3>1. Apart(o, L[3], L[6])
            BY <1>1 DEF InOrder, Lines, Places
        <3> QED
            BY <3>1, <1>2, <1>6 DEF Apart
    <2> QED
        BY <2>1, <2>2, <1>5, MailConcat
<1>8. Sorted(o, c, r)
    BY <1>1, <1>7 DEF Sorted
<1>9. Shifted(L, N, 3, 6)
    BY <1>4, <1>6 DEF Shifted
<1>10. InOrder(o, N)
    <2>1. X \in Marks /\ X \subseteq L[6] /\ Apart(o, X, N[6])
        BY <1>1, <1>3, <1>6 DEF Lines, Places, Marks
    <2>2. o => \A x \in Places : 3 < x /\ x < 6 => L[x] = {}
        BY DEF Places
    <2>3. 3 \in Places /\ 6 \in Places /\ 3 < 6
        BY DEF Places
    <2>4. /\ N[3] \subseteq L[3] \cup X /\ N[6] \subseteq L[6]
          /\ \A x \in Places \ {3, 6} : N[x] \subseteq L[x]
        BY <1>4, <1>6
    <2> HIDE DEF L, N, X
    <2>5. /\ o \in BOOLEAN /\ L \in Lines /\ N \in Lines /\ InOrder(o, L) /\ X \in Marks
          /\ 3 \in Places /\ 6 \in Places /\ 3 < 6 /\ X \subseteq L[6]
          /\ N[3] \subseteq L[3] \cup X /\ N[6] \subseteq L[6] /\ Apart(o, X, N[6])
          /\ \A x \in Places \ {3, 6} : N[x] \subseteq L[x]
          /\ o => \A x \in Places : 3 < x /\ x < 6 => L[x] = {}
        BY <1>1, <2>1, <2>2, <2>3, <2>4
    <2> QED
        BY <2>5, LineMoves
<1> QED
    BY <1>8, <1>9, <1>10 DEF Orderly

LEMMA ReadyFromPosts ==
    ASSUME scenario \in Scenarios, NEW c \in Calls, NEW o \in BOOLEAN,
           NEW q \in Pipes, NEW r \in Pipes, Orderly(o, c, q),
           NEW t \in Seq(Callbacks), NEW u \in Seq(Callbacks),
           r.ready = q.ready \o t, r.posts = u,
           r.events = q.events /\ r.todo = q.todo /\ r.mail = q.mail /\ r.batch = q.batch,
           LoopOrder(o, c, t), LoopOrder(o, c, u),
           LoopSet(c, q.posts) = LoopSet(c, t) \cup LoopSet(c, u),
           Apart(o, LoopSet(c, t), LoopSet(c, u))
    PROVE  Orderly(o, c, r) /\ Shifted(LineOf(c, q), LineOf(c, r), 4, 5)
<1> DEFINE L == LineOf(c, q)
           N == LineOf(c, r)
           X == LoopSet(c, t)
<1>1. L \in Lines /\ N \in Lines /\ InOrder(o, L) /\ Sorted(o, c, q)
    BY LineTyped DEF Orderly
<1>2. L[4] = LoopSet(c, q.ready) /\ N[4] = LoopSet(c, r.ready)
    BY LineTyped
<1>3. L[5] = LoopSet(c, q.posts) /\ N[5] = LoopSet(c, u)
    BY LineTyped
<1>4. \A x \in Places \ {4, 5} : N[x] = L[x]
    BY DEF LineOf, Places
<1>5. q.ready \in Seq(Callbacks)
    BY DEF Pipes
<1>6. N[4] = L[4] \cup X /\ L[5] = X \cup N[5]
    BY <1>2, <1>3, <1>5, LoopConcat
<1>7. LoopOrder(o, c, r.ready)
    <2>1. LoopOrder(o, c, q.ready)
        BY <1>1 DEF Sorted
    <2>2. Apart(o, LoopSet(c, q.ready), X)
        <3>1. Apart(o, L[4], L[5])
            BY <1>1 DEF InOrder, Lines, Places
        <3> QED
            BY <3>1, <1>2, <1>6 DEF Apart
    <2> QED
        BY <2>1, <2>2, <1>5, LoopConcat
<1>8. Sorted(o, c, r)
    BY <1>1, <1>7 DEF Sorted
<1>9. Shifted(L, N, 4, 5)
    BY <1>4, <1>6 DEF Shifted
<1>10. InOrder(o, N)
    <2>1. X \in Marks /\ X \subseteq L[5] /\ Apart(o, X, N[5])
        BY <1>1, <1>3, <1>6 DEF Lines, Places, Marks
    <2>2. o => \A x \in Places : 4 < x /\ x < 5 => L[x] = {}
        BY DEF Places
    <2>3. 4 \in Places /\ 5 \in Places /\ 4 < 5
        BY DEF Places
    <2>4. /\ N[4] \subseteq L[4] \cup X /\ N[5] \subseteq L[5]
          /\ \A x \in Places \ {4, 5} : N[x] \subseteq L[x]
        BY <1>4, <1>6
    <2> HIDE DEF L, N, X
    <2>5. /\ o \in BOOLEAN /\ L \in Lines /\ N \in Lines /\ InOrder(o, L) /\ X \in Marks
          /\ 4 \in Places /\ 5 \in Places /\ 4 < 5 /\ X \subseteq L[5]
          /\ N[4] \subseteq L[4] \cup X /\ N[5] \subseteq L[5] /\ Apart(o, X, N[5])
          /\ \A x \in Places \ {4, 5} : N[x] \subseteq L[x]
          /\ o => \A x \in Places : 4 < x /\ x < 5 => L[x] = {}
        BY <1>1, <2>1, <2>2, <2>3, <2>4
    <2> QED
        BY <2>5, LineMoves
<1> QED
    BY <1>8, <1>9, <1>10 DEF Orderly

LEMMA MailFromReady ==
    ASSUME scenario \in Scenarios, NEW c \in Calls, NEW o \in BOOLEAN,
           NEW q \in Pipes, NEW r \in Pipes, Orderly(o, c, q),
           NEW t \in Seq(Messages), NEW u \in Seq(Callbacks),
           r.mail = q.mail \o t, r.ready = u,
           r.events = q.events /\ r.todo = q.todo /\ r.posts = q.posts /\ r.batch = q.batch,
           MailOrder(o, c, t), LoopOrder(o, c, u),
           LoopSet(c, q.ready) = MailSet(c, t) \cup LoopSet(c, u),
           Apart(o, MailSet(c, t), LoopSet(c, u))
    PROVE  Orderly(o, c, r) /\ Shifted(LineOf(c, q), LineOf(c, r), 3, 4)
<1> DEFINE L == LineOf(c, q)
           N == LineOf(c, r)
           X == MailSet(c, t)
<1>1. L \in Lines /\ N \in Lines /\ InOrder(o, L) /\ Sorted(o, c, q)
    BY LineTyped DEF Orderly
<1>2. L[3] = MailSet(c, q.mail) /\ N[3] = MailSet(c, r.mail)
    BY LineTyped
<1>3. L[4] = LoopSet(c, q.ready) /\ N[4] = LoopSet(c, u)
    BY LineTyped
<1>4. \A x \in Places \ {3, 4} : N[x] = L[x]
    BY DEF LineOf, Places
<1>5. q.mail \in Seq(Messages)
    BY DEF Pipes
<1>6. N[3] = L[3] \cup X /\ L[4] = X \cup N[4]
    BY <1>2, <1>3, <1>5, MailConcat
<1>7. MailOrder(o, c, r.mail)
    <2>1. MailOrder(o, c, q.mail)
        BY <1>1 DEF Sorted
    <2>2. Apart(o, MailSet(c, q.mail), X)
        <3>1. Apart(o, L[3], L[4])
            BY <1>1 DEF InOrder, Lines, Places
        <3> QED
            BY <3>1, <1>2, <1>6 DEF Apart
    <2> QED
        BY <2>1, <2>2, <1>5, MailConcat
<1>8. Sorted(o, c, r)
    BY <1>1, <1>7 DEF Sorted
<1>9. Shifted(L, N, 3, 4)
    BY <1>4, <1>6 DEF Shifted
<1>10. InOrder(o, N)
    <2>1. X \in Marks /\ X \subseteq L[4] /\ Apart(o, X, N[4])
        BY <1>1, <1>3, <1>6 DEF Lines, Places, Marks
    <2>2. o => \A x \in Places : 3 < x /\ x < 4 => L[x] = {}
        BY DEF Places
    <2>3. 3 \in Places /\ 4 \in Places /\ 3 < 4
        BY DEF Places
    <2>4. /\ N[3] \subseteq L[3] \cup X /\ N[4] \subseteq L[4]
          /\ \A x \in Places \ {3, 4} : N[x] \subseteq L[x]
        BY <1>4, <1>6
    <2> HIDE DEF L, N, X
    <2>5. /\ o \in BOOLEAN /\ L \in Lines /\ N \in Lines /\ InOrder(o, L) /\ X \in Marks
          /\ 3 \in Places /\ 4 \in Places /\ 3 < 4 /\ X \subseteq L[4]
          /\ N[3] \subseteq L[3] \cup X /\ N[4] \subseteq L[4] /\ Apart(o, X, N[4])
          /\ \A x \in Places \ {3, 4} : N[x] \subseteq L[x]
          /\ o => \A x \in Places : 3 < x /\ x < 4 => L[x] = {}
        BY <1>1, <2>1, <2>2, <2>3, <2>4
    <2> QED
        BY <2>5, LineMoves
<1> QED
    BY <1>8, <1>9, <1>10 DEF Orderly

LEMMA TodoFromMail ==
    ASSUME scenario \in Scenarios, NEW c \in Calls, NEW o \in BOOLEAN,
           NEW q \in Pipes, NEW r \in Pipes, Orderly(o, c, q),
           NEW t \in Seq(Messages), NEW u \in Seq(Messages),
           r.todo = q.todo \o t, r.mail = u,
           r.events = q.events /\ r.ready = q.ready /\ r.posts = q.posts /\ r.batch = q.batch,
           MailOrder(o, c, t), MailOrder(o, c, u),
           MailSet(c, q.mail) = MailSet(c, t) \cup MailSet(c, u),
           Apart(o, MailSet(c, t), MailSet(c, u))
    PROVE  Orderly(o, c, r) /\ Shifted(LineOf(c, q), LineOf(c, r), 2, 3)
<1> DEFINE L == LineOf(c, q)
           N == LineOf(c, r)
           X == MailSet(c, t)
<1>1. L \in Lines /\ N \in Lines /\ InOrder(o, L) /\ Sorted(o, c, q)
    BY LineTyped DEF Orderly
<1>2. L[2] = MailSet(c, q.todo) /\ N[2] = MailSet(c, r.todo)
    BY LineTyped
<1>3. L[3] = MailSet(c, q.mail) /\ N[3] = MailSet(c, u)
    BY LineTyped
<1>4. \A x \in Places \ {2, 3} : N[x] = L[x]
    BY DEF LineOf, Places
<1>5. q.todo \in Seq(Messages)
    BY DEF Pipes
<1>6. N[2] = L[2] \cup X /\ L[3] = X \cup N[3]
    BY <1>2, <1>3, <1>5, MailConcat
<1>7. MailOrder(o, c, r.todo)
    <2>1. MailOrder(o, c, q.todo)
        BY <1>1 DEF Sorted
    <2>2. Apart(o, MailSet(c, q.todo), X)
        <3>1. Apart(o, L[2], L[3])
            BY <1>1 DEF InOrder, Lines, Places
        <3> QED
            BY <3>1, <1>2, <1>6 DEF Apart
    <2> QED
        BY <2>1, <2>2, <1>5, MailConcat
<1>8. Sorted(o, c, r)
    BY <1>1, <1>7 DEF Sorted
<1>9. Shifted(L, N, 2, 3)
    BY <1>4, <1>6 DEF Shifted
<1>10. InOrder(o, N)
    <2>1. X \in Marks /\ X \subseteq L[3] /\ Apart(o, X, N[3])
        BY <1>1, <1>3, <1>6 DEF Lines, Places, Marks
    <2>2. o => \A x \in Places : 2 < x /\ x < 3 => L[x] = {}
        BY DEF Places
    <2>3. 2 \in Places /\ 3 \in Places /\ 2 < 3
        BY DEF Places
    <2>4. /\ N[2] \subseteq L[2] \cup X /\ N[3] \subseteq L[3]
          /\ \A x \in Places \ {2, 3} : N[x] \subseteq L[x]
        BY <1>4, <1>6
    <2> HIDE DEF L, N, X
    <2>5. /\ o \in BOOLEAN /\ L \in Lines /\ N \in Lines /\ InOrder(o, L) /\ X \in Marks
          /\ 2 \in Places /\ 3 \in Places /\ 2 < 3 /\ X \subseteq L[3]
          /\ N[2] \subseteq L[2] \cup X /\ N[3] \subseteq L[3] /\ Apart(o, X, N[3])
          /\ \A x \in Places \ {2, 3} : N[x] \subseteq L[x]
          /\ o => \A x \in Places : 2 < x /\ x < 3 => L[x] = {}
        BY <1>1, <2>1, <2>2, <2>3, <2>4
    <2> QED
        BY <2>5, LineMoves
<1> QED
    BY <1>8, <1>9, <1>10 DEF Orderly

LEMMA EventsFromTodo ==
    ASSUME scenario \in Scenarios, NEW c \in Calls, NEW o \in BOOLEAN,
           NEW q \in Pipes, NEW r \in Pipes, Orderly(o, c, q),
           NEW t \in Seq(Specs), NEW u \in Seq(Messages),
           r.events = q.events \o t, r.todo = u,
           r.mail = q.mail /\ r.ready = q.ready /\ r.posts = q.posts /\ r.batch = q.batch,
           SpecOrder(o, c, t), MailOrder(o, c, u),
           MailSet(c, q.todo) = SpecSet(c, t) \cup MailSet(c, u),
           Apart(o, SpecSet(c, t), MailSet(c, u))
    PROVE  Orderly(o, c, r) /\ Shifted(LineOf(c, q), LineOf(c, r), 1, 2)
<1> DEFINE L == LineOf(c, q)
           N == LineOf(c, r)
           X == SpecSet(c, t)
<1>1. L \in Lines /\ N \in Lines /\ InOrder(o, L) /\ Sorted(o, c, q)
    BY LineTyped DEF Orderly
<1>2. L[1] = SpecSet(c, q.events) /\ N[1] = SpecSet(c, r.events)
    BY LineTyped
<1>3. L[2] = MailSet(c, q.todo) /\ N[2] = MailSet(c, u)
    BY LineTyped
<1>4. \A x \in Places \ {1, 2} : N[x] = L[x]
    BY DEF LineOf, Places
<1>5. q.events \in Seq(Specs)
    BY DEF Pipes
<1>6. N[1] = L[1] \cup X /\ L[2] = X \cup N[2]
    BY <1>2, <1>3, <1>5, SpecConcat
<1>7. SpecOrder(o, c, r.events)
    <2>1. SpecOrder(o, c, q.events)
        BY <1>1 DEF Sorted
    <2>2. Apart(o, SpecSet(c, q.events), X)
        <3>1. Apart(o, L[1], L[2])
            BY <1>1 DEF InOrder, Lines, Places
        <3> QED
            BY <3>1, <1>2, <1>6 DEF Apart
    <2> QED
        BY <2>1, <2>2, <1>5, SpecConcat
<1>8. Sorted(o, c, r)
    BY <1>1, <1>7 DEF Sorted
<1>9. Shifted(L, N, 1, 2)
    BY <1>4, <1>6 DEF Shifted
<1>10. InOrder(o, N)
    <2>1. X \in Marks /\ X \subseteq L[2] /\ Apart(o, X, N[2])
        BY <1>1, <1>3, <1>6 DEF Lines, Places, Marks
    <2>2. o => \A x \in Places : 1 < x /\ x < 2 => L[x] = {}
        BY DEF Places
    <2>3. 1 \in Places /\ 2 \in Places /\ 1 < 2
        BY DEF Places
    <2>4. /\ N[1] \subseteq L[1] \cup X /\ N[2] \subseteq L[2]
          /\ \A x \in Places \ {1, 2} : N[x] \subseteq L[x]
        BY <1>4, <1>6
    <2> HIDE DEF L, N, X
    <2>5. /\ o \in BOOLEAN /\ L \in Lines /\ N \in Lines /\ InOrder(o, L) /\ X \in Marks
          /\ 1 \in Places /\ 2 \in Places /\ 1 < 2 /\ X \subseteq L[2]
          /\ N[1] \subseteq L[1] \cup X /\ N[2] \subseteq L[2] /\ Apart(o, X, N[2])
          /\ \A x \in Places \ {1, 2} : N[x] \subseteq L[x]
          /\ o => \A x \in Places : 1 < x /\ x < 2 => L[x] = {}
        BY <1>1, <2>1, <2>2, <2>3, <2>4
    <2> QED
        BY <2>5, LineMoves
<1> QED
    BY <1>8, <1>9, <1>10 DEF Orderly

LEMMA EventsGrow ==
    ASSUME scenario \in Scenarios, NEW c \in Calls, NEW o \in BOOLEAN,
           NEW q \in Pipes, NEW r \in Pipes, Orderly(o, c, q),
           NEW t \in Seq(Specs), r.events = q.events \o t,
           r.todo = q.todo /\ r.mail = q.mail /\ r.ready = q.ready /\ r.posts = q.posts /\ r.batch = q.batch,
           SpecOrder(o, c, t), Fresh(o, LineOf(c, q), 1, SpecSet(c, t))
    PROVE  /\ Orderly(o, c, r)
           /\ Added(LineOf(c, q), LineOf(c, r), 1, SpecSet(c, t))
<1> DEFINE L == LineOf(c, q)
           N == LineOf(c, r)
           X == SpecSet(c, t)
<1>1. L \in Lines /\ N \in Lines /\ InOrder(o, L) /\ Sorted(o, c, q)
    BY LineTyped DEF Orderly
<1>2. L[1] = SpecSet(c, q.events) /\ N[1] = SpecSet(c, r.events)
    BY LineTyped
<1>3. X \in Marks
    BY MarkTyped, MailMarksTyped, LoopMarksTyped
<1>4. \A x \in Places \ {1} : N[x] = L[x]
    BY DEF LineOf, Places
<1>5. q.events \in Seq(Specs)
    BY DEF Pipes
<1>6. N[1] = L[1] \cup X
    BY <1>2, <1>5, SpecConcat
<1>7. SpecOrder(o, c, r.events)
    <2>1. SpecOrder(o, c, q.events)
        BY <1>1 DEF Sorted
    <2>2. Apart(o, SpecSet(c, q.events), X)
        <3>1. 1 \in Places
            BY DEF Places
        <3>2. Fresh(o, L, 1, X)
            OBVIOUS
        <3>3. Apart(FALSE, L[1], X) /\ (o => Apart(TRUE, L[1], X))
            <4> HIDE DEF L, X
            <4>1. 1 <= 1
                OBVIOUS
            <4>2. \A x \in Places : Apart(FALSE, L[x], X)
                BY <3>2 DEF Fresh
            <4>3. o /\ X # {} => \A x \in Places : IF x <= 1 THEN Apart(TRUE, L[x], X) ELSE L[x] = {}
                BY <3>2 DEF Fresh
            <4>4. o /\ X # {} => IF 1 <= 1 THEN Apart(TRUE, L[1], X) ELSE L[1] = {}
                BY <4>3, <3>1
            <4>5. X = {} => Apart(TRUE, L[1], X)
                BY DEF Apart
            <4> QED
                BY <4>1, <4>2, <4>4, <4>5, <3>1
        <3> QED
            BY <3>3, <1>2 DEF Apart
    <2> QED
        BY <2>1, <2>2, <1>5, SpecConcat
<1>8. Sorted(o, c, r)
    BY <1>1, <1>7 DEF Sorted
<1>9. InOrder(o, N)
    <2>1. N[1] \subseteq L[1] \cup X /\ \A x \in Places \ {1} : N[x] \subseteq L[x]
        BY <1>4, <1>6
    <2>2. 1 \in Places
        BY DEF Places
    <2>3. Fresh(o, L, 1, X)
        OBVIOUS
    <2> HIDE DEF L, N, X
    <2> QED
        BY <1>1, <1>3, <2>1, <2>2, <2>3, FreshGrows
<1> QED
    BY <1>4, <1>6, <1>8, <1>9 DEF Orderly, Added

LEMMA MailGrow ==
    ASSUME scenario \in Scenarios, NEW c \in Calls, NEW o \in BOOLEAN,
           NEW q \in Pipes, NEW r \in Pipes, Orderly(o, c, q),
           NEW t \in Seq(Messages), r.mail = q.mail \o t,
           r.events = q.events /\ r.todo = q.todo /\ r.ready = q.ready /\ r.posts = q.posts /\ r.batch = q.batch,
           MailOrder(o, c, t), Fresh(o, LineOf(c, q), 3, MailSet(c, t))
    PROVE  /\ Orderly(o, c, r)
           /\ Added(LineOf(c, q), LineOf(c, r), 3, MailSet(c, t))
<1> DEFINE L == LineOf(c, q)
           N == LineOf(c, r)
           X == MailSet(c, t)
<1>1. L \in Lines /\ N \in Lines /\ InOrder(o, L) /\ Sorted(o, c, q)
    BY LineTyped DEF Orderly
<1>2. L[3] = MailSet(c, q.mail) /\ N[3] = MailSet(c, r.mail)
    BY LineTyped
<1>3. X \in Marks
    BY MarkTyped, MailMarksTyped, LoopMarksTyped
<1>4. \A x \in Places \ {3} : N[x] = L[x]
    BY DEF LineOf, Places
<1>5. q.mail \in Seq(Messages)
    BY DEF Pipes
<1>6. N[3] = L[3] \cup X
    BY <1>2, <1>5, MailConcat
<1>7. MailOrder(o, c, r.mail)
    <2>1. MailOrder(o, c, q.mail)
        BY <1>1 DEF Sorted
    <2>2. Apart(o, MailSet(c, q.mail), X)
        <3>1. 3 \in Places
            BY DEF Places
        <3>2. Fresh(o, L, 3, X)
            OBVIOUS
        <3>3. Apart(FALSE, L[3], X) /\ (o => Apart(TRUE, L[3], X))
            <4> HIDE DEF L, X
            <4>1. 3 <= 3
                OBVIOUS
            <4>2. \A x \in Places : Apart(FALSE, L[x], X)
                BY <3>2 DEF Fresh
            <4>3. o /\ X # {} => \A x \in Places : IF x <= 3 THEN Apart(TRUE, L[x], X) ELSE L[x] = {}
                BY <3>2 DEF Fresh
            <4>4. o /\ X # {} => IF 3 <= 3 THEN Apart(TRUE, L[3], X) ELSE L[3] = {}
                BY <4>3, <3>1
            <4>5. X = {} => Apart(TRUE, L[3], X)
                BY DEF Apart
            <4> QED
                BY <4>1, <4>2, <4>4, <4>5, <3>1
        <3> QED
            BY <3>3, <1>2 DEF Apart
    <2> QED
        BY <2>1, <2>2, <1>5, MailConcat
<1>8. Sorted(o, c, r)
    BY <1>1, <1>7 DEF Sorted
<1>9. InOrder(o, N)
    <2>1. N[3] \subseteq L[3] \cup X /\ \A x \in Places \ {3} : N[x] \subseteq L[x]
        BY <1>4, <1>6
    <2>2. 3 \in Places
        BY DEF Places
    <2>3. Fresh(o, L, 3, X)
        OBVIOUS
    <2> HIDE DEF L, N, X
    <2> QED
        BY <1>1, <1>3, <2>1, <2>2, <2>3, FreshGrows
<1> QED
    BY <1>4, <1>6, <1>8, <1>9 DEF Orderly, Added

LEMMA ReadyGrow ==
    ASSUME scenario \in Scenarios, NEW c \in Calls, NEW o \in BOOLEAN,
           NEW q \in Pipes, NEW r \in Pipes, Orderly(o, c, q),
           NEW t \in Seq(Callbacks), r.ready = q.ready \o t,
           r.events = q.events /\ r.todo = q.todo /\ r.mail = q.mail /\ r.posts = q.posts /\ r.batch = q.batch,
           LoopOrder(o, c, t), Fresh(o, LineOf(c, q), 4, LoopSet(c, t))
    PROVE  /\ Orderly(o, c, r)
           /\ Added(LineOf(c, q), LineOf(c, r), 4, LoopSet(c, t))
<1> DEFINE L == LineOf(c, q)
           N == LineOf(c, r)
           X == LoopSet(c, t)
<1>1. L \in Lines /\ N \in Lines /\ InOrder(o, L) /\ Sorted(o, c, q)
    BY LineTyped DEF Orderly
<1>2. L[4] = LoopSet(c, q.ready) /\ N[4] = LoopSet(c, r.ready)
    BY LineTyped
<1>3. X \in Marks
    BY MarkTyped, MailMarksTyped, LoopMarksTyped
<1>4. \A x \in Places \ {4} : N[x] = L[x]
    BY DEF LineOf, Places
<1>5. q.ready \in Seq(Callbacks)
    BY DEF Pipes
<1>6. N[4] = L[4] \cup X
    BY <1>2, <1>5, LoopConcat
<1>7. LoopOrder(o, c, r.ready)
    <2>1. LoopOrder(o, c, q.ready)
        BY <1>1 DEF Sorted
    <2>2. Apart(o, LoopSet(c, q.ready), X)
        <3>1. 4 \in Places
            BY DEF Places
        <3>2. Fresh(o, L, 4, X)
            OBVIOUS
        <3>3. Apart(FALSE, L[4], X) /\ (o => Apart(TRUE, L[4], X))
            <4> HIDE DEF L, X
            <4>1. 4 <= 4
                OBVIOUS
            <4>2. \A x \in Places : Apart(FALSE, L[x], X)
                BY <3>2 DEF Fresh
            <4>3. o /\ X # {} => \A x \in Places : IF x <= 4 THEN Apart(TRUE, L[x], X) ELSE L[x] = {}
                BY <3>2 DEF Fresh
            <4>4. o /\ X # {} => IF 4 <= 4 THEN Apart(TRUE, L[4], X) ELSE L[4] = {}
                BY <4>3, <3>1
            <4>5. X = {} => Apart(TRUE, L[4], X)
                BY DEF Apart
            <4> QED
                BY <4>1, <4>2, <4>4, <4>5, <3>1
        <3> QED
            BY <3>3, <1>2 DEF Apart
    <2> QED
        BY <2>1, <2>2, <1>5, LoopConcat
<1>8. Sorted(o, c, r)
    BY <1>1, <1>7 DEF Sorted
<1>9. InOrder(o, N)
    <2>1. N[4] \subseteq L[4] \cup X /\ \A x \in Places \ {4} : N[x] \subseteq L[x]
        BY <1>4, <1>6
    <2>2. 4 \in Places
        BY DEF Places
    <2>3. Fresh(o, L, 4, X)
        OBVIOUS
    <2> HIDE DEF L, N, X
    <2> QED
        BY <1>1, <1>3, <2>1, <2>2, <2>3, FreshGrows
<1> QED
    BY <1>4, <1>6, <1>8, <1>9 DEF Orderly, Added

LEMMA PostsGrow ==
    ASSUME scenario \in Scenarios, NEW c \in Calls, NEW o \in BOOLEAN,
           NEW q \in Pipes, NEW r \in Pipes, Orderly(o, c, q),
           NEW t \in Seq(Callbacks), r.posts = q.posts \o t,
           r.events = q.events /\ r.todo = q.todo /\ r.mail = q.mail /\ r.ready = q.ready /\ r.batch = q.batch,
           LoopOrder(o, c, t), Fresh(o, LineOf(c, q), 5, LoopSet(c, t))
    PROVE  /\ Orderly(o, c, r)
           /\ Added(LineOf(c, q), LineOf(c, r), 5, LoopSet(c, t))
<1> DEFINE L == LineOf(c, q)
           N == LineOf(c, r)
           X == LoopSet(c, t)
<1>1. L \in Lines /\ N \in Lines /\ InOrder(o, L) /\ Sorted(o, c, q)
    BY LineTyped DEF Orderly
<1>2. L[5] = LoopSet(c, q.posts) /\ N[5] = LoopSet(c, r.posts)
    BY LineTyped
<1>3. X \in Marks
    BY MarkTyped, MailMarksTyped, LoopMarksTyped
<1>4. \A x \in Places \ {5} : N[x] = L[x]
    BY DEF LineOf, Places
<1>5. q.posts \in Seq(Callbacks)
    BY DEF Pipes
<1>6. N[5] = L[5] \cup X
    BY <1>2, <1>5, LoopConcat
<1>7. LoopOrder(o, c, r.posts)
    <2>1. LoopOrder(o, c, q.posts)
        BY <1>1 DEF Sorted
    <2>2. Apart(o, LoopSet(c, q.posts), X)
        <3>1. 5 \in Places
            BY DEF Places
        <3>2. Fresh(o, L, 5, X)
            OBVIOUS
        <3>3. Apart(FALSE, L[5], X) /\ (o => Apart(TRUE, L[5], X))
            <4> HIDE DEF L, X
            <4>1. 5 <= 5
                OBVIOUS
            <4>2. \A x \in Places : Apart(FALSE, L[x], X)
                BY <3>2 DEF Fresh
            <4>3. o /\ X # {} => \A x \in Places : IF x <= 5 THEN Apart(TRUE, L[x], X) ELSE L[x] = {}
                BY <3>2 DEF Fresh
            <4>4. o /\ X # {} => IF 5 <= 5 THEN Apart(TRUE, L[5], X) ELSE L[5] = {}
                BY <4>3, <3>1
            <4>5. X = {} => Apart(TRUE, L[5], X)
                BY DEF Apart
            <4> QED
                BY <4>1, <4>2, <4>4, <4>5, <3>1
        <3> QED
            BY <3>3, <1>2 DEF Apart
    <2> QED
        BY <2>1, <2>2, <1>5, LoopConcat
<1>8. Sorted(o, c, r)
    BY <1>1, <1>7 DEF Sorted
<1>9. InOrder(o, N)
    <2>1. N[5] \subseteq L[5] \cup X /\ \A x \in Places \ {5} : N[x] \subseteq L[x]
        BY <1>4, <1>6
    <2>2. 5 \in Places
        BY DEF Places
    <2>3. Fresh(o, L, 5, X)
        OBVIOUS
    <2> HIDE DEF L, N, X
    <2> QED
        BY <1>1, <1>3, <2>1, <2>2, <2>3, FreshGrows
<1> QED
    BY <1>4, <1>6, <1>8, <1>9 DEF Orderly, Added

LEMMA BatchGrow ==
    ASSUME scenario \in Scenarios, NEW c \in Calls, NEW o \in BOOLEAN,
           NEW q \in Pipes, NEW r \in Pipes, Orderly(o, c, q),
           NEW t \in Seq(Specs), r.batch = q.batch \o t,
           r.events = q.events /\ r.todo = q.todo /\ r.mail = q.mail /\ r.ready = q.ready /\ r.posts = q.posts,
           SpecOrder(o, c, t), Fresh(o, LineOf(c, q), 6, SpecSet(c, t))
    PROVE  /\ Orderly(o, c, r)
           /\ Added(LineOf(c, q), LineOf(c, r), 6, SpecSet(c, t))
<1> DEFINE L == LineOf(c, q)
           N == LineOf(c, r)
           X == SpecSet(c, t)
<1>1. L \in Lines /\ N \in Lines /\ InOrder(o, L) /\ Sorted(o, c, q)
    BY LineTyped DEF Orderly
<1>2. L[6] = SpecSet(c, q.batch) /\ N[6] = SpecSet(c, r.batch)
    BY LineTyped
<1>3. X \in Marks
    BY MarkTyped, MailMarksTyped, LoopMarksTyped
<1>4. \A x \in Places \ {6} : N[x] = L[x]
    BY DEF LineOf, Places
<1>5. q.batch \in Seq(Specs)
    BY DEF Pipes
<1>6. N[6] = L[6] \cup X
    BY <1>2, <1>5, SpecConcat
<1>7. SpecOrder(o, c, r.batch)
    <2>1. SpecOrder(o, c, q.batch)
        BY <1>1 DEF Sorted
    <2>2. Apart(o, SpecSet(c, q.batch), X)
        <3>1. 6 \in Places
            BY DEF Places
        <3>2. Fresh(o, L, 6, X)
            OBVIOUS
        <3>3. Apart(FALSE, L[6], X) /\ (o => Apart(TRUE, L[6], X))
            <4> HIDE DEF L, X
            <4>1. 6 <= 6
                OBVIOUS
            <4>2. \A x \in Places : Apart(FALSE, L[x], X)
                BY <3>2 DEF Fresh
            <4>3. o /\ X # {} => \A x \in Places : IF x <= 6 THEN Apart(TRUE, L[x], X) ELSE L[x] = {}
                BY <3>2 DEF Fresh
            <4>4. o /\ X # {} => IF 6 <= 6 THEN Apart(TRUE, L[6], X) ELSE L[6] = {}
                BY <4>3, <3>1
            <4>5. X = {} => Apart(TRUE, L[6], X)
                BY DEF Apart
            <4> QED
                BY <4>1, <4>2, <4>4, <4>5, <3>1
        <3> QED
            BY <3>3, <1>2 DEF Apart
    <2> QED
        BY <2>1, <2>2, <1>5, SpecConcat
<1>8. Sorted(o, c, r)
    BY <1>1, <1>7 DEF Sorted
<1>9. InOrder(o, N)
    <2>1. N[6] \subseteq L[6] \cup X /\ \A x \in Places \ {6} : N[x] \subseteq L[x]
        BY <1>4, <1>6
    <2>2. 6 \in Places
        BY DEF Places
    <2>3. Fresh(o, L, 6, X)
        OBVIOUS
    <2> HIDE DEF L, N, X
    <2> QED
        BY <1>1, <1>3, <2>1, <2>2, <2>3, FreshGrows
<1> QED
    BY <1>4, <1>6, <1>8, <1>9 DEF Orderly, Added

--------------------------------------------------------------------------------
(* What may be where: a chunk of call c, as its mapping says it; what the   *)
(* mailbox takes; what the threads of c hand to the loop; and what is       *)
(* recorded.                                                               *)
ChunkSpecs(c) ==
    {s \in Specs : s.call = c /\ s.item \in Sayings(c) /\ Mapped(c, s.item) = <<s>>}
MailSpecs ==
    {s \in Specs : s.call \in Calls /\
        IF s.item = 0 THEN s.type = Aborted ELSE s \in ChunkSpecs(s.call)}
Letters ==
    [kind : {"user_event"}, specs : Seq(MailSpecs)]
    \cup [kind : {"result"}, node : Nodes, ok : BOOLEAN]
Own(c) ==
    [do : {"put"}, message : [kind : {"user_event"}, specs : Seq(ChunkSpecs(c))]]
    \cup [do : {"deadline"}, call : {c}, gen : Nat]
    \cup [do : {"ended"}, call : {c}, ok : BOOLEAN]
Owned == UNION {Own(c) : c \in Calls}
Entries ==
    {s \in Specs : s.item > 0 =>
        /\ s.call \in Calls /\ s.item \in Sayings(s.call)
        /\ Recorded(Mapped(s.call, s.item)) = <<s>>}

Sound ==
    /\ \A c \in Calls : batch[c].specs \in Seq(ChunkSpecs(c)) /\ posts[c] \in Seq(Own(c))
    /\ ready \in Seq(Owned)
    /\ mailbox \in Seq(Letters) /\ todo \in Seq(Letters)
    /\ events \in Seq(Entries)

LEMMA SoundSets ==
    ASSUME scenario' = scenario
    PROVE  /\ Calls' = Calls /\ Nodes' = Nodes /\ Letters' = Letters /\ Owned' = Owned
           /\ Entries' = Entries
           /\ \A c \in Calls :
                 /\ ChunkSpecs(c)' = ChunkSpecs(c) /\ Own(c)' = Own(c)
                 /\ Sayings(c)' = Sayings(c) /\ Chunks(c)' = Chunks(c) /\ Mode(c)' = Mode(c)
BY DEF Calls, Nodes, Letters, Owned, Entries, MailSpecs, ChunkSpecs, Own, Sayings, Chunks,
       Mode, Specs, Mapped, Recorded, Spec_

LEMMA WiderSeq ==
    ASSUME NEW S, NEW T, S \subseteq T, NEW s \in Seq(S)
    PROVE  s \in Seq(T)
OBVIOUS

LEMMA Wider ==
    ASSUME scenario \in Scenarios
    PROVE  /\ MailSpecs \subseteq Specs /\ Entries \subseteq Specs
           /\ Letters \subseteq Messages
           /\ \A c \in Calls : /\ ChunkSpecs(c) \subseteq MailSpecs
                               /\ Own(c) \subseteq Owned /\ Own(c) \subseteq Callbacks
<1>1. MailSpecs \subseteq Specs /\ Entries \subseteq Specs
    BY DEF MailSpecs, Entries
<1>2. ASSUME NEW c \in Calls PROVE ChunkSpecs(c) \subseteq MailSpecs
    BY ChunksTyped DEF ChunkSpecs, MailSpecs
<1>3. \A s : s \in Seq(MailSpecs) => s \in Seq(Specs)
    BY <1>1, WiderSeq
<1>4. Letters \subseteq Messages
    BY <1>3 DEF Letters, Messages
<1>5. ASSUME NEW c \in Calls PROVE Own(c) \subseteq Owned /\ Own(c) \subseteq Callbacks
    <2>1. \A s : s \in Seq(ChunkSpecs(c)) => s \in Seq(Specs)
        BY WiderSeq DEF ChunkSpecs
    <2> QED
        BY <2>1 DEF Own, Owned, Callbacks
<1> QED
    BY <1>1, <1>2, <1>4, <1>5

(* What a mapping says of a chunk says it of that chunk.                   *)
LEMMA MappedChunk ==
    ASSUME scenario \in Scenarios, NEW c \in Calls, NEW k \in 1..Len(Chunks(c))
    PROVE  /\ Mapped(c, k) \in Seq(ChunkSpecs(c))
           /\ SpecSet(c, Mapped(c, k)) = IF k \in Sayings(c) THEN {k} ELSE {}
           /\ \A o \in BOOLEAN : SpecOrder(o, c, Mapped(c, k))
<1>1. Mapped(c, k) \in Seq(Specs)
    BY MappedSpecs
<1>2. CASE Mapped(c, k) = <<>>
    <2>1. k \notin Sayings(c)
        BY <1>2 DEF Mapped, Sayings
    <2>2. <<>> \in Seq(ChunkSpecs(c))
        OBVIOUS
    <2>3. SpecSet(c, <<>>) = {} /\ \A o \in BOOLEAN : SpecOrder(o, c, <<>>)
        BY SpecFew
    <2> QED
        BY <1>2, <2>1, <2>2, <2>3
<1>3. ASSUME NEW type, Mapped(c, k) = <<Spec_(c, k, type)>>, Chunks(c)[k] # "hidden"
      PROVE  /\ Mapped(c, k) \in Seq(ChunkSpecs(c)) /\ k \in Sayings(c)
             /\ SpecSet(c, Mapped(c, k)) = {k}
             /\ \A o \in BOOLEAN : SpecOrder(o, c, Mapped(c, k))
    <2> DEFINE s == Spec_(c, k, type)
    <2>1. s \in Specs
        <3>1. Mapped(c, k)[1] = s /\ 1 \in DOMAIN Mapped(c, k)
            BY <1>3
        <3> QED
            BY <3>1, <1>1
    <2>2. s.call = c /\ s.item = k /\ k > 0
        BY DEF Spec_
    <2>3. k \in Sayings(c)
        BY <1>3, ChunksTyped DEF Sayings
    <2>4. s \in ChunkSpecs(c)
        BY <1>3, <2>1, <2>2, <2>3 DEF ChunkSpecs
    <2>5. MarkOf(c, s) = {k}
        BY <2>2 DEF MarkOf
    <2>6. SpecSet(c, <<s>>) = {k} /\ \A o \in BOOLEAN : SpecOrder(o, c, <<s>>)
        BY <2>1, <2>5, SpecFew
    <2>7. <<s>> \in Seq(ChunkSpecs(c))
        BY <2>4, Single
    <2> QED
        BY <1>3, <2>3, <2>6, <2>7
<1>4. CASE Mapped(c, k) # <<>>
    <2>1. \/ Mapped(c, k) = <<Spec_(c, k, "user_event_mapping_failed")>>
          \/ Mapped(c, k) = <<Spec_(c, k, Chunks(c)[k])>>
        BY <1>4 DEF Mapped
    <2>2. Chunks(c)[k] # "hidden"
        BY <1>4 DEF Mapped
    <2> QED
        BY <1>3, <2>1, <2>2
<1> QED
    BY <1>2, <1>4

(* What is recorded of a spec has its marks, and says what its mapping said.*)
LEMMA RecordedMarks ==
    ASSUME scenario \in Scenarios, NEW specs \in Seq(Specs), NEW c \in Calls
    PROVE  /\ SpecMarks(c, Recorded(specs)) = SpecMarks(c, specs)
           /\ SpecSet(c, Recorded(specs)) = SpecSet(c, specs)
           /\ \A o \in BOOLEAN : SpecOrder(o, c, Recorded(specs)) <=> SpecOrder(o, c, specs)
<1>1. ASSUME NEW i \in DOMAIN specs
      PROVE  MarkOf(c, Recorded(specs)[i]) = MarkOf(c, specs[i])
    <2>1. specs[i] \in Specs
        OBVIOUS
    <2>2. Recorded(specs)[i] = IF specs[i].type = "odd"
                               THEN [specs[i] EXCEPT !.type = "user_event_mapping_failed"]
                               ELSE specs[i]
        BY DEF Recorded
    <2>3. /\ Recorded(specs)[i].call = specs[i].call /\ Recorded(specs)[i].item = specs[i].item
          /\ \/ Recorded(specs)[i].type = specs[i].type
             \/ specs[i].type = "odd" /\ Recorded(specs)[i].type = "user_event_mapping_failed"
        BY <2>1, <2>2 DEF Specs
    <2> QED
        BY <2>3 DEF MarkOf, Aborted
<1>2. DOMAIN Recorded(specs) = DOMAIN specs
    BY DEF Recorded
<1>3. SpecMarks(c, Recorded(specs)) = SpecMarks(c, specs)
    BY <1>1, <1>2 DEF SpecMarks
<1> QED
    BY <1>3 DEF SpecSet, SpecOrder

LEMMA RecordedEntries ==
    ASSUME scenario \in Scenarios,
           NEW specs \in Seq(MailSpecs \cup {s \in Specs : s.item = 0})
    PROVE  Recorded(specs) \in Seq(Entries)
<1>1. specs \in Seq(Specs)
    <2>1. MailSpecs \cup {s \in Specs : s.item = 0} \subseteq Specs
        BY Wider
    <2> QED
        BY <2>1, WiderSeq
<1>2. Recorded(specs) \in Seq(Specs)
    BY <1>1, RecordedTyped
<1>3. DOMAIN Recorded(specs) = DOMAIN specs
    BY DEF Recorded
<1>4. ASSUME NEW i \in DOMAIN specs PROVE Recorded(specs)[i] \in Entries
    <2> DEFINE s == specs[i]
               e == Recorded(specs)[i]
    <2>1. s \in MailSpecs \cup {t \in Specs : t.item = 0} /\ e \in Specs /\ s \in Specs
        BY <1>1, <1>2, <1>3
    <2>2. e = IF s.type = "odd" THEN [s EXCEPT !.type = "user_event_mapping_failed"] ELSE s
        BY DEF Recorded
    <2>3. e.call = s.call /\ e.item = s.item
        BY <2>1, <2>2 DEF Specs
    <2>4. ASSUME e.item > 0
          PROVE  /\ e.call \in Calls /\ e.item \in Sayings(e.call)
                 /\ Recorded(Mapped(e.call, e.item)) = <<e>>
        <3>1. /\ s.call \in Calls /\ s.item \in Sayings(s.call)
              /\ Mapped(s.call, s.item) = <<s>>
            BY <2>1, <2>3, <2>4 DEF MailSpecs, ChunkSpecs
        <3>2. Recorded(<<s>>) = <<e>>
            <4>1. Recorded(<<s>>)[1] = e
                BY <2>2 DEF Recorded
            <4>2. DOMAIN Recorded(<<s>>) = 1..1
                BY DEF Recorded
            <4>3. Recorded(<<s>>) \in Seq(Specs)
                BY <2>1, Single, RecordedTyped
            <4> HIDE DEF s, e
            <4>4. Len(Recorded(<<s>>)) = 1
                BY <4>2, <4>3, LengthIs
            <4> QED
                BY <4>1, <4>3, <4>4
        <3> QED
            BY <2>3, <3>1, <3>2
    <2> QED
        BY <2>1, <2>4 DEF Entries
<1> QED
    BY <1>2, <1>3, <1>4

(* The operations of the batcher, of the handlers and of the loop keep it.  *)
LEMMA TakenSound ==
    ASSUME NEW b, NEW S, b.specs \in Seq(S)
    PROVE  Taken(b).specs \in Seq(S) /\ Taken(b).specs = <<>>
BY DEF Taken

LEMMA GrownSound ==
    ASSUME NEW b, NEW S, b.specs \in Seq(S), NEW specs \in Seq(S)
    PROVE  Grown(b, specs).specs = b.specs \o specs /\ Grown(b, specs).specs \in Seq(S)
BY DEF Grown

LEMMA PutsAre ==
    ASSUME NEW b
    PROVE  [k \in DOMAIN Published(b) |-> Put(Published(b)[k])]
              = IF Full(b) THEN <<Put(Events_(b.specs))>> ELSE <<>>
<1>1. CASE Full(b)
    <2>1. Published(b) = <<Events_(b.specs)>>
        BY <1>1 DEF Published
    <2> QED
        BY <1>1, <2>1
<1>2. CASE ~Full(b)
    <2>1. Published(b) = <<>>
        BY <1>2 DEF Published
    <2> QED
        BY <1>2, <2>1
<1> QED
    BY <1>1, <1>2

LEMMA FlushedSound ==
    ASSUME scenario \in Scenarios, NEW c \in Calls, NEW b, b.specs \in Seq(ChunkSpecs(c))
    PROVE  /\ Flushed(b) \in Seq(Letters) /\ Published(b) \in Seq(Letters)
           /\ [k \in DOMAIN Published(b) |-> Put(Published(b)[k])] \in Seq(Own(c))
<1>1. b.specs \in Seq(MailSpecs)
    BY Wider, WiderSeq
<1>2. Events_(b.specs) \in Letters
    BY <1>1 DEF Events_, Letters
<1>3. Put(Events_(b.specs)) \in Own(c)
    BY DEF Put, Events_, Own
<1>4. <<Events_(b.specs)>> \in Seq(Letters) /\ <<Put(Events_(b.specs))>> \in Seq(Own(c))
    BY <1>2, <1>3, Single
<1>5. <<>> \in Seq(Letters) /\ <<>> \in Seq(Own(c))
    OBVIOUS
<1> QED
    BY <1>4, <1>5, PutsAre DEF Flushed, Published

LEMMA DeadlinesSound ==
    ASSUME NEW c \in Calls, NEW b \in Batches, NEW specs \in Seq(Specs)
    PROVE  Deadlines(c, b, specs) \in Seq(Own(c))
<1>1. Grown(b, specs).gen \in Nat
    BY GrownBatch DEF Batches
<1>2. Deadline(c, Grown(b, specs).gen) \in Own(c)
    BY <1>1 DEF Deadline, Own
<1> QED
    BY <1>2, Single DEF Deadlines

LEMMA MailSound ==
    ASSUME Sound, NEW messages \in Seq(Letters)
    PROVE  Mail(messages) \in Seq(Letters)
BY DEF Mail, Sound

(* The announcement of the end of a message stream.                        *)
Farewell(c, ok) ==
    IF ~ok /\ scenario.nodes[c[1]].message THEN <<Events_(<<Spec_(c, 0, Aborted)>>)>> ELSE <<>>

LEMMA FarewellSound ==
    ASSUME scenario \in Scenarios, NEW c \in Calls, NEW ok \in BOOLEAN
    PROVE  Farewell(c, ok) \in Seq(Letters)
<1>1. c \in Nodes \X Nat
    BY ChunksTyped
<1>2. Spec_(c, 0, Aborted) \in MailSpecs
    BY <1>1 DEF Spec_, MailSpecs, Specs, Types
<1>3. <<Spec_(c, 0, Aborted)>> \in Seq(MailSpecs)
    BY <1>2, Single
<1>4. Events_(<<Spec_(c, 0, Aborted)>>) \in Letters
    BY <1>3 DEF Events_, Letters
<1>5. <<Events_(<<Spec_(c, 0, Aborted)>>)>> \in Seq(Letters) /\ <<>> \in Seq(Letters)
    BY <1>4, Single
<1> QED
    BY <1>5 DEF Farewell

LEMMA ConcludeSound ==
    ASSUME IInv, Sound, NEW c \in Calls, NEW ok \in BOOLEAN, Conclude(c, ok)
    PROVE  /\ mailbox' = Mail(Flushed(batch[c]) \o Farewell(c, ok))
           /\ Flushed(batch[c]) \in Seq(Letters) /\ Farewell(c, ok) \in Seq(Letters)
           /\ mailbox' \in Seq(Letters)
           /\ batch' = [batch EXCEPT ![c] = Taken(batch[c])]
           /\ \A d \in Calls : batch'[d].specs \in Seq(ChunkSpecs(d))
<1>1. mailbox' = Mail(Flushed(batch[c]) \o Farewell(c, ok))
    BY DEF Conclude, Farewell
<1>2. Flushed(batch[c]) \in Seq(Letters) /\ Farewell(c, ok) \in Seq(Letters)
    BY FlushedSound, FarewellSound DEF IInv, BatcherTypeOK, Sound
<1>3. Flushed(batch[c]) \o Farewell(c, ok) \in Seq(Letters)
    BY <1>2
<1>4. batch' = [batch EXCEPT ![c] = Taken(batch[c])] /\ batch \in [Calls -> Batches]
    BY DEF Conclude, IInv, BatcherTypeOK
<1>5. ASSUME NEW d \in Calls PROVE batch'[d].specs \in Seq(ChunkSpecs(d))
    <2>1. batch[d].specs \in Seq(ChunkSpecs(d))
        BY DEF Sound
    <2>2. batch'[d] = IF d = c THEN Taken(batch[c]) ELSE batch[d]
        BY <1>4
    <2> QED
        BY <2>1, <2>2, TakenSound
<1> QED
    BY <1>1, <1>2, <1>3, <1>4, <1>5, MailSound

(* What a step must show to keep it.                                       *)
LEMMA SoundStep ==
    ASSUME scenario' = scenario,
           \A c \in Calls : batch'[c].specs \in Seq(ChunkSpecs(c)) /\ posts'[c] \in Seq(Own(c)),
           ready' \in Seq(Owned), mailbox' \in Seq(Letters), todo' \in Seq(Letters),
           events' \in Seq(Entries)
    PROVE  Sound'
<1>1. Calls' = Calls /\ Letters' = Letters /\ Owned' = Owned /\ Entries' = Entries
    BY SoundSets
<1>2. \A c \in Calls : ChunkSpecs(c)' = ChunkSpecs(c) /\ Own(c)' = Own(c)
    BY SoundSets
<1> QED
    BY <1>1, <1>2 DEF Sound

LEMMA NextChunkSound ==
    ASSUME IInv, Sound, NEW c \in Calls, NextChunk(c)
    PROVE  Sound'
<1> DEFINE k == position[c] + 1
           specs == Mapped(c, k)
           grown == Grown(batch[c], specs)
           deadlines == Deadlines(c, batch[c], specs)
           puts == [i \in DOMAIN Published(grown) |-> Put(Published(grown)[i])]
<1>1. scenario \in Scenarios /\ batch \in [Calls -> Batches] /\ posts \in [Calls -> Seq(Callbacks)]
    BY DEF IInv, BatcherTypeOK
<1>2. k \in 1..Len(Chunks(c))
    BY ChunksTyped DEF NextChunk, IInv, BatcherTypeOK
<1>3. specs \in Seq(ChunkSpecs(c)) /\ specs \in Seq(Specs)
    BY <1>1, <1>2, MappedChunk, MappedSpecs
<1>4. batch[c].specs \in Seq(ChunkSpecs(c))
    BY DEF Sound
<1>5. grown.specs \in Seq(ChunkSpecs(c)) /\ Taken(grown).specs \in Seq(ChunkSpecs(c))
    BY <1>3, <1>4, GrownSound, TakenSound
<1>6. deadlines \in Seq(Own(c)) /\ puts \in Seq(Own(c)) /\ Published(grown) \in Seq(Letters)
    BY <1>1, <1>3, <1>5, DeadlinesSound, FlushedSound
<1>7. deadlines \in Seq(Owned)
    BY <1>1, <1>6, Wider, WiderSeq
<1>8. batch' = [batch EXCEPT ![c] = IF Full(grown) THEN Taken(grown) ELSE grown]
    BY DEF NextChunk
<1>9. \/ /\ posts' = [posts EXCEPT ![c] = deadlines \o puts]
         /\ ready' = ready /\ mailbox' = mailbox
      \/ /\ posts' = posts /\ ready' = ready \o deadlines
         /\ mailbox' = Mail(Published(grown))
    BY DEF NextChunk
<1>10. scenario' = scenario /\ todo' = todo /\ events' = events
    BY DEF NextChunk, driverVars
<1> HIDE DEF k, specs, grown, deadlines, puts
<1>11. ready \in Seq(Owned) /\ mailbox \in Seq(Letters) /\ Mail(Published(grown)) \in Seq(Letters)
    BY <1>6, MailSound DEF Sound
<1>12. ready' \in Seq(Owned) /\ mailbox' \in Seq(Letters)
    <2>1. ready \o deadlines \in Seq(Owned)
        BY <1>7, <1>11
    <2> QED
        BY <2>1, <1>9, <1>11
<1>13. deadlines \o puts \in Seq(Own(c))
    BY <1>6
<1>14. ASSUME NEW d \in Calls
       PROVE  batch'[d].specs \in Seq(ChunkSpecs(d)) /\ posts'[d] \in Seq(Own(d))
    <2>1. batch[d].specs \in Seq(ChunkSpecs(d)) /\ posts[d] \in Seq(Own(d))
        BY DEF Sound
    <2>2. batch'[d] = IF d = c THEN (IF Full(grown) THEN Taken(grown) ELSE grown) ELSE batch[d]
        BY <1>1, <1>8
    <2>3. posts'[d] = posts[d] \/ (d = c /\ posts'[d] = deadlines \o puts)
        BY <1>1, <1>9
    <2> QED
        BY <2>1, <2>2, <2>3, <1>5, <1>13
<1> QED
    BY <1>10, <1>12, <1>14, SoundStep DEF Sound

LEMMA PostSound ==
    ASSUME IInv, Sound, NEW c \in Calls, Post(c)
    PROVE  /\ Sound' /\ Head(posts[c]) \in Own(c) /\ Tail(posts[c]) \in Seq(Own(c))
<1>1. scenario' = scenario /\ batch' = batch /\ mailbox' = mailbox /\ todo' = todo
      /\ events' = events /\ posts[c] # <<>>
      /\ ready' = Append(ready, Head(posts[c])) /\ posts' = [posts EXCEPT ![c] = Tail(@)]
    BY DEF Post, driverVars
<1>2. posts[c] \in Seq(Own(c)) /\ ready \in Seq(Owned) /\ posts \in [Calls -> Seq(Callbacks)]
    BY DEF Sound, IInv, BatcherTypeOK
<1>3. Head(posts[c]) \in Own(c) /\ Tail(posts[c]) \in Seq(Own(c))
    BY <1>1, <1>2, ToSetTail
<1>4. Head(posts[c]) \in Owned
    BY <1>3 DEF Owned
<1>5. ready' \in Seq(Owned)
    BY <1>1, <1>2, <1>4
<1>6. ASSUME NEW d \in Calls PROVE posts'[d] \in Seq(Own(d))
    <2>1. posts'[d] = IF d = c THEN Tail(posts[c]) ELSE posts[d]
        BY <1>1, <1>2
    <2> QED
        BY <2>1, <1>3 DEF Sound
<1>7. Sound'
    BY <1>1, <1>5, <1>6, SoundStep DEF Sound
<1> QED
    BY <1>3, <1>7

LEMMA EndStreamSound ==
    ASSUME IInv, Sound, NEW c \in Calls, NEW ok \in BOOLEAN, EndStream(c, ok)
    PROVE  Sound'
<1>1. scenario' = scenario /\ ready' = ready /\ todo' = todo /\ events' = events
    BY DEF EndStream, loopVars, driverVars
<1>2. posts \in [Calls -> Seq(Callbacks)]
    BY DEF IInv, BatcherTypeOK
<1>3. ASSUME NEW d \in Calls PROVE posts'[d] \in Seq(Own(d))
    <2>1. \/ posts'[d] = posts[d]
          \/ d = c /\ posts'[d] = <<Ended(c, ok)>>
        BY <1>2 DEF EndStream
    <2>2. <<Ended(c, ok)>> \in Seq(Own(c))
        <3>1. Ended(c, ok) \in Own(c)
            BY DEF Ended, Own
        <3> QED
            BY <3>1, Single
    <2> QED
        BY <2>1, <2>2 DEF Sound
<1>4. mailbox' \in Seq(Letters) /\ \A d \in Calls : batch'[d].specs \in Seq(ChunkSpecs(d))
    <2>1. Conclude(c, ok) \/ (mailbox' = mailbox /\ batch' = batch)
        BY DEF EndStream
    <2> QED
        BY <2>1, ConcludeSound DEF Sound
<1> QED
    BY <1>1, <1>3, <1>4, SoundStep DEF Sound

LEMMA HeadSound ==
    ASSUME scenario \in Scenarios, Sound, ready # <<>>
    PROVE  /\ Head(ready) \in Owned /\ Tail(ready) \in Seq(Owned)
           /\ \/ Head(ready).do = "put" /\ Head(ready).message \in Letters
              \/ Head(ready).do = "deadline" /\ Head(ready).call \in Calls /\ Head(ready).gen \in Nat
              \/ Head(ready).do = "ended" /\ Head(ready).call \in Calls /\ Head(ready).ok \in BOOLEAN
<1>1. Head(ready) \in Owned /\ Tail(ready) \in Seq(Owned)
    BY ToSetTail DEF Sound
<1>2. PICK c \in Calls : Head(ready) \in Own(c)
    BY <1>1 DEF Owned
<1>3. \A s : s \in Seq(ChunkSpecs(c)) => s \in Seq(MailSpecs)
    BY Wider, WiderSeq
<1>4. CASE Head(ready).do = "put"
    <2>1. Head(ready) \in [do : {"put"}, message : [kind : {"user_event"}, specs : Seq(ChunkSpecs(c))]]
        BY <1>2, <1>4 DEF Own
    <2>2. Head(ready).message \in [kind : {"user_event"}, specs : Seq(ChunkSpecs(c))]
        BY <2>1
    <2>3. Head(ready).message \in Letters
        BY <2>2, <1>3 DEF Letters
    <2> QED
        BY <1>1, <1>4, <2>3
<1>5. CASE Head(ready).do = "deadline"
    BY <1>1, <1>2, <1>5 DEF Own
<1>6. CASE Head(ready).do = "ended"
    BY <1>1, <1>2, <1>6 DEF Own
<1>7. Head(ready).do \in {"put", "deadline", "ended"}
    BY <1>2 DEF Own
<1> QED
    BY <1>4, <1>5, <1>6, <1>7

LEMMA RunCallbackSound ==
    ASSUME IInv, Sound, RunCallback
    PROVE  Sound'
<1>1. scenario' = scenario /\ posts' = posts /\ todo' = todo /\ events' = events
      /\ ready # <<>> /\ ready' = Tail(ready)
    BY DEF RunCallback, handlerVars, driverVars
<1>2. Tail(ready) \in Seq(Owned)
    BY <1>1, HeadSound DEF IInv, BatcherTypeOK
<1>3. mailbox' \in Seq(Letters) /\ \A d \in Calls : batch'[d].specs \in Seq(ChunkSpecs(d))
    <2> DEFINE b == Head(ready)
    <2>1. CASE b.do = "put" /\ mailbox' = Mail(<<b.message>>) /\ batch' = batch
        <3>1. b.message \in Letters
            BY <1>1, <2>1, HeadSound DEF IInv, BatcherTypeOK
        <3>2. <<b.message>> \in Seq(Letters)
            BY <3>1, Single
        <3> QED
            BY <2>1, <3>2, MailSound DEF Sound
    <2>2. CASE b.do = "ended" /\ Conclude(b.call, b.ok)
        <3>1. b.call \in Calls /\ b.ok \in BOOLEAN
            BY <1>1, <2>2, HeadSound DEF IInv, BatcherTypeOK
        <3> QED
            BY <2>2, <3>1, ConcludeSound
    <2>3. CASE mailbox' = mailbox /\ batch' = batch
        BY <2>3 DEF Sound
    <2> QED
        BY <2>1, <2>2, <2>3 DEF RunCallback
<1> QED
    BY <1>1, <1>2, <1>3, SoundStep DEF Sound

LEMMA FlushGenerationSound ==
    ASSUME IInv, Sound, NEW c \in Calls, NEW g, FlushGeneration(c, g)
    PROVE  Sound'
<1>1. scenario' = scenario /\ posts' = posts /\ todo' = todo /\ events' = events
      /\ ready' = ready
    BY DEF FlushGeneration, handlerVars, driverVars
<1>2. batch \in [Calls -> Batches] /\ scenario \in Scenarios
    BY DEF IInv, BatcherTypeOK
<1>3. Flushed(batch[c]) \in Seq(Letters)
    BY <1>2, FlushedSound DEF Sound
<1>4. mailbox' \in Seq(Letters)
    BY <1>3, MailSound DEF FlushGeneration, Sound
<1>5. ASSUME NEW d \in Calls PROVE batch'[d].specs \in Seq(ChunkSpecs(d))
    <2>1. batch[d].specs \in Seq(ChunkSpecs(d))
        BY DEF Sound
    <2>2. batch'[d] = batch[d] \/ (d = c /\ batch'[d] = Taken(batch[c]))
        BY <1>2 DEF FlushGeneration
    <2> QED
        BY <2>1, <2>2, TakenSound
<1> QED
    BY <1>1, <1>4, <1>5, SoundStep DEF Sound

(* A step that leaves handlers, batchers and loop, or concludes a call.     *)
LEMMA ConcludeOnlySound ==
    ASSUME IInv, Sound, NEW c \in Calls, NEW ok \in BOOLEAN,
           Conclude(c, ok) \/ UNCHANGED <<mailbox, batch>>,
           UNCHANGED <<scenario, posts, ready, todo, events>>
    PROVE  Sound'
<1>1. mailbox' \in Seq(Letters) /\ \A d \in Calls : batch'[d].specs \in Seq(ChunkSpecs(d))
    BY ConcludeSound DEF Sound
<1> QED
    BY <1>1, SoundStep DEF Sound

LEMMA LoopSound ==
    ASSUME IInv, Sound,
           \/ HandlerStep \/ LoopStep
           \/ \E c \in Calls : EndStream(c, FALSE) \/ GiveUp(c)
    PROVE  Sound'
<1>1. ASSUME NEW c \in Calls, NextChunk(c) \/ Post(c) \/ EndStream(c, TRUE) \/ EndStream(c, FALSE)
      PROVE  Sound'
    BY <1>1, NextChunkSound, PostSound, EndStreamSound
<1>2. ASSUME NEW c \in Calls, GiveUp(c) PROVE Sound'
    BY <1>2, ConcludeOnlySound DEF GiveUp, loopVars, driverVars
<1>3. ASSUME NEW c \in Calls, CloseSource(c) PROVE Sound'
    BY <1>3, ConcludeOnlySound DEF CloseSource, handlerVars, loopVars, driverVars
<1>4. ASSUME NEW n \in Nodes, ContinueTask(n) PROVE Sound'
    <2>1. UNCHANGED <<scenario, posts, ready, todo, events, batch>>
        BY <1>4 DEF ContinueTask, handlerVars, loopVars, driverVars
    <2>2. mailbox' \in Seq(Letters)
        <3>1. \A ok \in BOOLEAN : Result(n, ok) \in Letters
            BY DEF Result, Letters
        <3>2. \A ok \in BOOLEAN : <<Result(n, ok)>> \in Seq(Letters)
            BY <3>1, Single
        <3>3. (task[n] = "succeeded" /\ drive # "abandon") \in BOOLEAN
            OBVIOUS
        <3> QED
            BY <1>4, <3>2, <3>3, MailSound DEF ContinueTask, Sound
    <2> QED
        BY <2>1, <2>2, SoundStep DEF Sound
<1> QED
    BY <1>1, <1>2, <1>3, <1>4, RunCallbackSound, FlushGenerationSound DEF HandlerStep, LoopStep

(* So do those of the driver.                                              *)
LEMMA DriverSound ==
    ASSUME IInv, MailInv, Sound, DriverStep \/ CancelInvocation
    PROVE  Sound'
<1>1. scenario' = scenario /\ posts' = posts /\ ready' = ready /\ batch' = batch
    BY DEF DriverStep, CancelInvocation, Take, RecordUserEvents, Notify, ApplyResult,
           FailInvocation, AbandonWork, SkipResult, Complete, RecordEnd, Close, Settle,
           handlerVars, loopVars, driverVars
<1>2. scenario \in Scenarios /\ mailbox \in Seq(Letters) /\ todo \in Seq(Letters)
      /\ events \in Seq(Entries)
    BY DEF Sound, IInv, BatcherTypeOK
<1>3. todo # <<>> => Head(todo) \in Letters /\ Tail(todo) \in Seq(Letters)
    BY <1>2, ToSetTail
<1>4. \A n \in Nodes : Spec_(<<n, attempt[n]>>, 0, "output") \in {s \in Specs : s.item = 0}
    BY DEF MailInv, Spec_, Specs, Types
<1>5. LastWords \in Seq(MailSpecs \cup {s \in Specs : s.item = 0})
    <2>1. CASE state = "failed" /\ \E n \in Nodes : scenario.nodes[n].message
        <3> DEFINE n == CHOOSE m \in Nodes : scenario.nodes[m].message
        <3>1. n \in Nodes
            BY <2>1
        <3>2. LastWords = <<Spec_(<<n, attempt[n]>>, 0, "agent_failed")>>
            BY <2>1 DEF LastWords
        <3> HIDE DEF n
        <3>3. Spec_(<<n, attempt[n]>>, 0, "agent_failed") \in {s \in Specs : s.item = 0}
            BY <3>1 DEF MailInv, Spec_, Specs, Types
        <3> QED
            BY <3>2, <3>3, Single
    <2>2. CASE ~(state = "failed" /\ \E n \in Nodes : scenario.nodes[n].message)
        BY <2>2 DEF LastWords
    <2> QED
        BY <2>1, <2>2
<1>6. \A n \in Nodes : <<Spec_(<<n, attempt[n]>>, 0, "output")>>
                           \in Seq(MailSpecs \cup {s \in Specs : s.item = 0})
    BY <1>4, Single
<1>7. ASSUME NEW specs \in Seq(MailSpecs \cup {s \in Specs : s.item = 0}), Append_(specs)
      PROVE  events' \in Seq(Entries)
    <2>1. Recorded(specs) \in Seq(Entries)
        BY <1>2, RecordedEntries
    <2>2. events \o Recorded(specs) \in Seq(Entries)
        BY <1>2, <2>1
    <2> QED
        BY <1>7, <2>2 DEF Append_
<1>8. mailbox' \in Seq(Letters)
    <2>1. mailbox' = mailbox \/ mailbox' = <<>>
        BY DEF DriverStep, CancelInvocation, Take, RecordUserEvents, Notify,
           ApplyResult, FailInvocation, AbandonWork, SkipResult, Complete, RecordEnd, Close,
           Settle, driverVars
    <2>2. <<>> \in Seq(Letters)
        OBVIOUS
    <2> QED
        BY <1>2, <2>1, <2>2
<1>9. todo' \in Seq(Letters)
    <2>1. todo' = todo \/ todo' = mailbox \/ todo' = <<>> \/ (todo # <<>> /\ todo' = Tail(todo))
        BY DEF DriverStep, CancelInvocation, Take, RecordUserEvents, Notify,
           ApplyResult, FailInvocation, AbandonWork, SkipResult, Complete, RecordEnd, Close,
           Settle, driverVars
    <2>2. <<>> \in Seq(Letters)
        OBVIOUS
    <2> QED
        BY <1>2, <1>3, <2>1, <2>2
<1>10. events' \in Seq(Entries)
    <2>1. ASSUME RecordUserEvents PROVE events' \in Seq(Entries)
        <3>1. Head(todo).specs \in Seq(MailSpecs)
            BY <1>3, <2>1 DEF RecordUserEvents, IsEvents, Letters
        <3>2. Head(todo).specs \in Seq(MailSpecs \cup {s \in Specs : s.item = 0})
            BY <3>1
        <3> QED
            BY <2>1, <3>2, <1>7 DEF RecordUserEvents
    <2>2. ASSUME ApplyResult PROVE events' \in Seq(Entries)
        <3>1. Head(todo).node \in Nodes
            BY <1>3, <2>2 DEF ApplyResult, IsEvents, Letters
        <3> QED
            BY <2>2, <3>1, <1>2, <1>6, <1>7 DEF ApplyResult
    <2>3. ASSUME Close PROVE events' \in Seq(Entries)
        BY <2>3, <1>5, <1>7 DEF Close
    <2>4. RecordUserEvents \/ ApplyResult \/ Close \/ events' = events
        BY DEF DriverStep, CancelInvocation, Take, Notify, FailInvocation, AbandonWork,
           SkipResult, Complete, RecordEnd, Settle, driverVars
    <2> QED
        BY <1>2, <2>1, <2>2, <2>3, <2>4
<1> QED
    BY <1>1, <1>8, <1>9, <1>10, SoundStep DEF Sound

LEMMA NextSound == IInv /\ MailInv /\ Sound /\ [Next]_vars => Sound'
<1> SUFFICES ASSUME IInv, MailInv, Sound, [Next]_vars PROVE Sound'
    OBVIOUS
<1>1. ASSUME UNCHANGED <<scenario, posts, ready, batch, mailbox, todo, events>> PROVE Sound'
    BY <1>1, SoundStep DEF Sound
<1>2. ASSUME Commit \/ FollowerStep \/ Heartbeat \/ UNCHANGED vars PROVE Sound'
    BY <1>1, <1>2 DEF Commit, FollowerStep, Wake, Clear, ListUserEvents, LoadUserEvents,
       SendPage, ReadDetail, Continue, Heartbeat, OnlyFollower, vars, handlerVars, loopVars,
       driverVars
<1> QED
    BY <1>2, LoopSound, DriverSound DEF Next

LEMMA InitSound == Init => Sound
<1> SUFFICES ASSUME Init PROVE Sound
    OBVIOUS
<1>1. \A c \in Calls : batch[c].specs = <<>> /\ posts[c] = <<>>
    BY DEF Init
<1>2. \A S : <<>> \in Seq(S)
    OBVIOUS
<1>3. ready = <<>> /\ mailbox = <<>> /\ todo = <<>> /\ events = <<>>
    BY DEF Init
<1>4. Sound
    <2>1. \A c \in Calls : batch[c].specs \in Seq(ChunkSpecs(c)) /\ posts[c] \in Seq(Own(c))
        BY <1>1, <1>2
    <2>2. ready \in Seq(Owned) /\ mailbox \in Seq(Letters) /\ todo \in Seq(Letters)
          /\ events \in Seq(Entries)
        BY <1>2, <1>3
    <2> QED
        BY <2>1, <2>2 DEF Sound
<1> QED
    BY <1>4

--------------------------------------------------------------------------------
(* What marks the end of a batch or of a stream: the callback of the        *)
(* deadline of generation g, and that of the end of the handler.            *)
IsMarker(c, g, b) == b.do # "put" /\ b.call = c /\ (b.do = "ended" \/ b.gen = g)
HasMarker(c, g, q) == \E i \in DOMAIN q : IsMarker(c, g, q[i])

(* No chunk of the call comes behind it.                                   *)
Calm(c, g, q) ==
    \A i, j \in DOMAIN q : i < j /\ IsMarker(c, g, q[i]) => CallbackMarks(c, q[j]) = {}

(* A deadline is that of generation g or an earlier one; an end is that of  *)
(* a handler that has ended (e), a success that of one that was complete    *)
(* (f).                                                                    *)
Fits(c, g, e, f, b) ==
    b.do # "put" /\ b.call = c => IF b.do = "ended" THEN e /\ (b.ok => f) ELSE b.gen <= g
Due(c, g, e, f, q) == \A i \in DOMAIN q : Fits(c, g, e, f, q[i])

LEMMA MarkerConcat ==
    ASSUME NEW c, NEW g, NEW s \in Seq(Callbacks), NEW t \in Seq(Callbacks),
           NEW e \in BOOLEAN, NEW f \in BOOLEAN
    PROVE  /\ HasMarker(c, g, s \o t) <=> HasMarker(c, g, s) \/ HasMarker(c, g, t)
           /\ Due(c, g, e, f, s \o t) <=> Due(c, g, e, f, s) /\ Due(c, g, e, f, t)
           /\ Calm(c, g, s) /\ Calm(c, g, t) /\ (HasMarker(c, g, s) => LoopSet(c, t) = {})
                 => Calm(c, g, s \o t)
<1>1. \A i \in DOMAIN s : i \in DOMAIN (s \o t) /\ (s \o t)[i] = s[i]
    OBVIOUS
<1>2. \A i \in DOMAIN t : Len(s) + i \in DOMAIN (s \o t) /\ (s \o t)[Len(s) + i] = t[i]
    OBVIOUS
<1>3. \A i \in DOMAIN (s \o t) :
         i \in DOMAIN s \/ (i \notin DOMAIN s /\ i - Len(s) \in DOMAIN t /\ (s \o t)[i] = t[i - Len(s)])
    OBVIOUS
<1>4. HasMarker(c, g, s \o t) <=> HasMarker(c, g, s) \/ HasMarker(c, g, t)
    BY <1>1, <1>2, <1>3 DEF HasMarker
<1>5. Due(c, g, e, f, s \o t) <=> Due(c, g, e, f, s) /\ Due(c, g, e, f, t)
    BY <1>1, <1>2, <1>3 DEF Due
<1>6. ASSUME Calm(c, g, s), Calm(c, g, t), HasMarker(c, g, s) => LoopSet(c, t) = {},
             NEW i \in DOMAIN (s \o t), NEW j \in DOMAIN (s \o t), i < j,
             IsMarker(c, g, (s \o t)[i])
      PROVE  CallbackMarks(c, (s \o t)[j]) = {}
    <2>1. CASE j \in DOMAIN s
        <3>1. i \in DOMAIN s
            BY <1>6, <2>1
        <3> QED
            BY <1>1, <1>6, <2>1, <3>1 DEF Calm
    <2>2. CASE j \notin DOMAIN s /\ i \in DOMAIN s
        <3>1. LoopSet(c, t) = {}
            BY <1>1, <1>6, <2>2 DEF HasMarker
        <3>2. \A k \in DOMAIN t : CallbackMarks(c, t[k]) = {}
            BY <3>1 DEF LoopSet, LoopMarks, All
        <3> QED
            BY <1>3, <2>2, <3>2
    <2>3. CASE j \notin DOMAIN s /\ i \notin DOMAIN s
        <3>1. i - Len(s) \in DOMAIN t /\ j - Len(s) \in DOMAIN t
              /\ (s \o t)[i] = t[i - Len(s)] /\ (s \o t)[j] = t[j - Len(s)]
            BY <1>3, <2>3
        <3>2. i - Len(s) < j - Len(s)
            BY <1>6
        <3> QED
            BY <1>6, <3>1, <3>2 DEF Calm
    <2> QED
        BY <2>1, <2>2, <2>3
<1> QED
    BY <1>4, <1>5, <1>6 DEF Calm

LEMMA MarkerTail ==
    ASSUME scenario \in Scenarios, NEW c \in Calls, NEW g, NEW q \in Seq(Callbacks), q # <<>>,
           NEW e \in BOOLEAN, NEW f \in BOOLEAN
    PROVE  /\ HasMarker(c, g, q) <=> IsMarker(c, g, Head(q)) \/ HasMarker(c, g, Tail(q))
           /\ Due(c, g, e, f, q) <=> Fits(c, g, e, f, Head(q)) /\ Due(c, g, e, f, Tail(q))
           /\ Calm(c, g, q) =>
                 /\ Calm(c, g, Tail(q))
                 /\ IsMarker(c, g, Head(q)) => LoopSet(c, Tail(q)) = {}
<1>1. \A i \in DOMAIN Tail(q) : i + 1 \in DOMAIN q /\ Tail(q)[i] = q[i + 1] /\ 1 < i + 1
    OBVIOUS
<1>2. \A i \in DOMAIN q : i # 1 => i - 1 \in DOMAIN Tail(q) /\ Tail(q)[i - 1] = q[i]
    OBVIOUS
<1>3. Head(q) = q[1] /\ 1 \in DOMAIN q /\ Tail(q) \in Seq(Callbacks)
    OBVIOUS
<1>4. HasMarker(c, g, q) <=> IsMarker(c, g, Head(q)) \/ HasMarker(c, g, Tail(q))
    BY <1>1, <1>2, <1>3 DEF HasMarker
<1>5. Due(c, g, e, f, q) <=> Fits(c, g, e, f, Head(q)) /\ Due(c, g, e, f, Tail(q))
    BY <1>1, <1>2, <1>3 DEF Due
<1>6. ASSUME Calm(c, g, q) PROVE Calm(c, g, Tail(q))
    <2> SUFFICES ASSUME NEW i \in DOMAIN Tail(q), NEW j \in DOMAIN Tail(q), i < j,
                        IsMarker(c, g, Tail(q)[i])
                 PROVE  CallbackMarks(c, Tail(q)[j]) = {}
        BY DEF Calm
    <2>1. i + 1 < j + 1
        BY <1>3
    <2> QED
        BY <1>1, <1>6, <2>1 DEF Calm
<1>7. ASSUME Calm(c, g, q), IsMarker(c, g, Head(q)) PROVE LoopSet(c, Tail(q)) = {}
    <2>1. \A i \in DOMAIN Tail(q) : CallbackMarks(c, Tail(q)[i]) = {}
        BY <1>1, <1>3, <1>7 DEF Calm
    <2> QED
        BY <2>1 DEF LoopSet, LoopMarks, All
<1> QED
    BY <1>4, <1>5, <1>6, <1>7

LEMMA MarkerFew ==
    ASSUME NEW c, NEW g, NEW e \in BOOLEAN, NEW f \in BOOLEAN
    PROVE  /\ ~HasMarker(c, g, <<>>) /\ Calm(c, g, <<>>) /\ Due(c, g, e, f, <<>>)
           /\ \A b : /\ HasMarker(c, g, <<b>>) <=> IsMarker(c, g, b)
                     /\ Due(c, g, e, f, <<b>>) <=> Fits(c, g, e, f, b)
                     /\ Calm(c, g, <<b>>)
BY DEF HasMarker, Calm, Due

(* With a new generation, only the end of the handler is still a marker.    *)
LEMMA MarkerNewer ==
    ASSUME NEW c, NEW g \in Nat, NEW h \in Nat, g < h, NEW q \in Seq(Callbacks),
           NEW e \in BOOLEAN, NEW f \in BOOLEAN, Due(c, g, e, f, q)
    PROVE  /\ HasMarker(c, h, q) => e /\ HasMarker(c, g, q)
           /\ Calm(c, g, q) => Calm(c, h, q)
           /\ Due(c, h, e, f, q)
<1>1. ASSUME NEW i \in DOMAIN q, IsMarker(c, h, q[i]) PROVE e /\ IsMarker(c, g, q[i])
    <2>1. Fits(c, g, e, f, q[i]) /\ q[i] \in Callbacks
        BY DEF Due
    <2>2. q[i].do # "ended" => q[i].gen = h /\ q[i].gen <= g
        BY <1>1, <2>1 DEF IsMarker, Fits
    <2> QED
        BY <1>1, <2>1, <2>2 DEF IsMarker, Fits
<1>2. ASSUME NEW i \in DOMAIN q PROVE Fits(c, h, e, f, q[i])
    <2>1. Fits(c, g, e, f, q[i]) /\ q[i] \in Callbacks
        BY DEF Due
    <2>2. q[i].do = "deadline" => q[i].gen \in Nat
        BY <2>1 DEF Callbacks
    <2>3. q[i].do \in {"put", "deadline", "ended"}
        BY <2>1 DEF Callbacks
    <2> QED
        BY <2>1, <2>2, <2>3 DEF Fits
<1> QED
    BY <1>1, <1>2 DEF HasMarker, Calm, Due

LEMMA MarkerDue ==
    ASSUME NEW c, NEW g, NEW q, NEW e \in BOOLEAN, NEW f \in BOOLEAN,
           NEW d \in BOOLEAN, NEW h \in BOOLEAN, Due(c, g, e, f, q), e => d, f => h
    PROVE  Due(c, g, d, h, q)
BY DEF Due, Fits

(* What is of another call is no concern of this one.                      *)
LEMMA NoSpecMarks ==
    ASSUME scenario \in Scenarios, NEW c \in Calls, NEW specs,
           \A i \in DOMAIN specs : MarkOf(c, specs[i]) = {}
    PROVE  SpecSet(c, specs) = {} /\ \A o \in BOOLEAN : SpecOrder(o, c, specs)
BY DEF SpecSet, SpecMarks, All, SpecOrder, InOrder, Apart

LEMMA OthersChunks ==
    ASSUME scenario \in Scenarios, NEW c \in Calls, NEW d \in Calls, c # d
    PROVE  /\ \A specs \in Seq(ChunkSpecs(d)) :
                 SpecSet(c, specs) = {} /\ \A o \in BOOLEAN : SpecOrder(o, c, specs)
           /\ \A u \in Seq(Own(d)) :
                 /\ LoopSet(c, u) = {} /\ \A o \in BOOLEAN : LoopOrder(o, c, u)
                 /\ \A g : ~HasMarker(c, g, u) /\ Calm(c, g, u)
                 /\ \A g, e, f : Due(c, g, e, f, u)
<1>1. ASSUME NEW specs \in Seq(ChunkSpecs(d))
      PROVE  SpecSet(c, specs) = {} /\ \A o \in BOOLEAN : SpecOrder(o, c, specs)
    <2>1. \A i \in DOMAIN specs : specs[i] \in ChunkSpecs(d)
        OBVIOUS
    <2>2. \A i \in DOMAIN specs : MarkOf(c, specs[i]) = {}
        BY <2>1 DEF MarkOf, ChunkSpecs
    <2> QED
        BY <2>2, NoSpecMarks
<1>2. ASSUME NEW b \in Own(d)
      PROVE  /\ CallbackMarks(c, b) = {} /\ \A o \in BOOLEAN : Tidy(o, c, b)
             /\ \A g : ~IsMarker(c, g, b)
             /\ \A g, e, f : Fits(c, g, e, f, b)
    <2>1. CASE b.do = "put"
        <3>1. b \in [do : {"put"}, message : [kind : {"user_event"}, specs : Seq(ChunkSpecs(d))]]
            BY <2>1 DEF Own
        <3>2. b.message.kind = "user_event" /\ b.message.specs \in Seq(ChunkSpecs(d))
            BY <3>1
        <3>3. MessageMarks(c, b.message) = {} /\ \A o \in BOOLEAN : Neat(o, c, b.message)
            BY <1>1, <3>2 DEF MessageMarks, Neat
        <3> QED
            BY <2>1, <3>3 DEF CallbackMarks, Tidy, IsMarker, Fits
    <2>2. CASE b.do # "put"
        <3>1. b.call = d
            BY <2>2 DEF Own
        <3> QED
            BY <2>2, <3>1 DEF CallbackMarks, Tidy, IsMarker, Fits
    <2> QED
        BY <2>1, <2>2
<1>3. ASSUME NEW u \in Seq(Own(d))
      PROVE  /\ LoopSet(c, u) = {} /\ \A o \in BOOLEAN : LoopOrder(o, c, u)
             /\ \A g : ~HasMarker(c, g, u) /\ Calm(c, g, u)
             /\ \A g, e, f : Due(c, g, e, f, u)
    <2>1. \A i \in DOMAIN u : u[i] \in Own(d)
        OBVIOUS
    <2>2. \A i \in DOMAIN u : /\ CallbackMarks(c, u[i]) = {}
                              /\ \A o \in BOOLEAN : Tidy(o, c, u[i])
                              /\ \A g : ~IsMarker(c, g, u[i])
                              /\ \A g, e, f : Fits(c, g, e, f, u[i])
        BY <1>2, <2>1
    <2>3. LoopSet(c, u) = {}
        BY <2>2 DEF LoopSet, LoopMarks, All
    <2>4. \A o \in BOOLEAN : LoopOrder(o, c, u)
        BY <2>2 DEF LoopOrder, LoopMarks, InOrder, Apart
    <2> QED
        BY <2>2, <2>3, <2>4 DEF HasMarker, Calm, Due
<1> QED
    BY <1>1, <1>3

(* The marks of a message: the announcement of the end counts one, the      *)
(* success of the node two, behind the last chunk.                          *)
LEMMA LetterMarks ==
    ASSUME scenario \in Scenarios, NEW c \in Calls, NEW m \in Letters
    PROVE  /\ m \in Messages
           /\ IsEvents(m) => Len(Chunks(c)) + 2 \notin MessageMarks(c, m)
           /\ ~IsEvents(m) => /\ MessageMarks(c, m) = IF m.ok /\ m.node = c[1]
                                                      THEN {Len(Chunks(c)) + 2} ELSE {}
                              /\ m.node \in Nodes
<1>1. m \in Messages
    BY Wider
<1>2. ASSUME IsEvents(m) PROVE Len(Chunks(c)) + 2 \notin MessageMarks(c, m)
    <2>1. m.specs \in Seq(MailSpecs) /\ m.kind = "user_event"
        BY <1>2 DEF IsEvents, Letters
    <2>2. \A i \in DOMAIN m.specs : m.specs[i] \in MailSpecs
        BY <2>1
    <2>3. ASSUME NEW s \in MailSpecs PROVE Len(Chunks(c)) + 2 \notin MarkOf(c, s)
        <3>1. CASE s.call # c
            BY <3>1 DEF MarkOf
        <3>2. CASE s.call = c /\ s.item = 0
            BY <3>2, ChunksTyped DEF MarkOf, MailSpecs
        <3>3. CASE s.call = c /\ s.item # 0
            <4>1. s.item \in 1..Len(Chunks(c)) /\ Len(Chunks(c)) \in Nat
                BY <3>3, ChunksTyped DEF MailSpecs, ChunkSpecs
            <4> QED
                BY <3>3, <4>1 DEF MarkOf
        <3> QED
            BY <3>1, <3>2, <3>3
    <2> QED
        BY <2>1, <2>2, <2>3 DEF MessageMarks, SpecSet, SpecMarks, All
<1>3. ASSUME ~IsEvents(m)
      PROVE  /\ MessageMarks(c, m) = IF m.ok /\ m.node = c[1] THEN {Len(Chunks(c)) + 2} ELSE {}
             /\ m.node \in Nodes
    BY <1>3 DEF IsEvents, MessageMarks, Letters
<1> QED
    BY <1>1, <1>2, <1>3

LEMMA FarewellMarks ==
    ASSUME scenario \in Scenarios, NEW c \in Calls, NEW d \in Calls, NEW ok \in BOOLEAN,
           NEW o \in BOOLEAN
    PROVE  /\ Farewell(d, ok) \in Seq(Messages) /\ MailOrder(o, c, Farewell(d, ok))
           /\ MailSet(c, Farewell(d, ok)) \subseteq (IF c = d THEN {Len(Chunks(c)) + 1} ELSE {})
<1>1. Farewell(d, ok) \in Seq(Messages)
    BY FarewellSound, Wider, WiderSeq
<1> DEFINE s == Spec_(d, 0, Aborted)
<1>2. CASE Farewell(d, ok) = <<>>
    BY <1>1, <1>2, MailFew
<1>3. CASE Farewell(d, ok) = <<Events_(<<s>>)>>
    <2>1. s \in Specs
        BY ChunksTyped DEF Spec_, Specs, Types
    <2>2. Events_(<<s>>) \in Messages
        BY <2>1, Single DEF Events_, Messages
    <2>3. MarkOf(c, s) = IF c = d THEN {Len(Chunks(c)) + 1} ELSE {}
        BY DEF MarkOf, Spec_
    <2> HIDE DEF s
    <2>4. MessageMarks(c, Events_(<<s>>)) = MarkOf(c, s) /\ Neat(o, c, Events_(<<s>>))
        BY <2>1, SpecFew DEF MessageMarks, Neat, Events_
    <2> QED
        BY <1>1, <1>3, <2>2, <2>3, <2>4, MailFew
<1> QED
    BY <1>2, <1>3 DEF Farewell

LEMMA FlushedMarks ==
    ASSUME scenario \in Scenarios, NEW c \in Calls, NEW b, b.specs \in Seq(Specs),
           NEW o \in BOOLEAN
    PROVE  /\ Flushed(b) \in Seq(Messages) /\ MailSet(c, Flushed(b)) = SpecSet(c, b.specs)
           /\ SpecOrder(o, c, b.specs) => MailOrder(o, c, Flushed(b))
<1>1. Events_(b.specs) \in Messages
    BY DEF Events_, Messages
<1>2. /\ MessageMarks(c, Events_(b.specs)) = SpecSet(c, b.specs)
      /\ SpecOrder(o, c, b.specs) => Neat(o, c, Events_(b.specs))
    BY DEF MessageMarks, Neat, Events_
<1>3. CASE b.specs = <<>>
    <2>1. Flushed(b) = <<>>
        BY <1>3 DEF Flushed
    <2>2. <<>> \in Seq(Messages)
        OBVIOUS
    <2> QED
        BY <1>3, <2>1, <2>2, MailFew, SpecFew
<1>4. CASE b.specs # <<>>
    <2>1. Flushed(b) = <<Events_(b.specs)>>
        BY <1>4 DEF Flushed
    <2>2. <<Events_(b.specs)>> \in Seq(Messages)
        BY <1>1, Single
    <2> QED
        BY <1>1, <1>2, <2>1, <2>2, MailFew
<1> QED
    BY <1>3, <1>4

--------------------------------------------------------------------------------
(* The course of an Invocation: its end begins when all tasks have ended;   *)
(* until then its mailbox is open; and one that is abandoned has nothing    *)
(* left that was drained.                                                  *)
TaskStates == {"streaming", "closing", "backoff", "succeeded", "failed", "done"}
AllDone == \A n \in Nodes : task[n] = "done"

Course ==
    /\ task \in [Nodes -> TaskStates]
    /\ over \in [Calls -> BOOLEAN]
    /\ drive = "drive" => state = "running"
    /\ drive = "abandon" => todo = <<>>
    /\ drive \notin {"drive", "abandon"} => AllDone
    /\ ~accepting => AllDone

LEMMA InitCourse == Init => Course
<1> SUFFICES ASSUME Init PROVE Course
    OBVIOUS
<1>1. task \in [Nodes -> TaskStates] /\ over \in [Calls -> BOOLEAN]
    BY DEF Init, TaskStates
<1> QED
    BY <1>1 DEF Init, Course

LEMMA ConcludeTask ==
    ASSUME Course, NEW c \in Calls, NEW ok \in BOOLEAN, Conclude(c, ok), c[1] \in Nodes
    PROVE  /\ task' \in [Nodes -> TaskStates]
           /\ \A n \in Nodes : n # c[1] => task'[n] = task[n]
           /\ task'[c[1]] \in {"done", "succeeded", "backoff", "failed"}
           /\ task'[c[1]] = "succeeded" => ok
<1> DEFINE next == IF drive = "abandon" THEN "done" ELSE
                   CASE ok -> "succeeded"
                     [] ~ok /\ c[2] < scenario.nodes[c[1]].attempts -> "backoff"
                     [] OTHER -> "failed"
<1>1. task' = [task EXCEPT ![c[1]] = next] /\ task \in [Nodes -> TaskStates]
    BY DEF Conclude, Course
<1>2. next \in {"done", "succeeded", "backoff", "failed"} /\ (next = "succeeded" => ok)
    OBVIOUS
<1> HIDE DEF next
<1>3. next \in TaskStates
    BY <1>2 DEF TaskStates
<1> QED
    BY <1>1, <1>2, <1>3

LEMMA CourseStep ==
    ASSUME Course, scenario' = scenario, task' \in [Nodes -> TaskStates],
           over' \in [Calls -> BOOLEAN], ~AllDone, UNCHANGED <<drive, state, todo, accepting>>
    PROVE  Course'
BY SoundSets DEF Course

LEMMA NextCourse == IInv /\ Sound /\ Course /\ [Next]_vars => Course'
<1> SUFFICES ASSUME IInv, Sound, Course, [Next]_vars PROVE Course'
    OBVIOUS
<1>1. /\ scenario \in Scenarios /\ \A c \in Calls : c[1] \in Nodes
      /\ task \in [Nodes -> TaskStates] /\ over \in [Calls -> BOOLEAN]
    BY ChunksTyped DEF IInv, BatcherTypeOK, Course
<1>2. ASSUME UNCHANGED <<scenario, task, over, drive, state, todo, accepting>> PROVE Course'
    BY <1>2, SoundSets DEF Course, AllDone
<1>3. ASSUME NEW c \in Calls, NEW ok \in BOOLEAN, Conclude(c, ok),
             task[c[1]] \in {"streaming", "closing"}, UNCHANGED <<scenario, drive, state, todo, accepting>>,
             over' \in [Calls -> BOOLEAN]
      PROVE  Course'
    <2>1. ~AllDone
        BY <1>1, <1>3 DEF AllDone
    <2> QED
        BY <1>1, <1>3, <2>1, ConcludeTask, CourseStep
<1>4. ASSUME NEW c \in Calls, NEW ok \in BOOLEAN, EndStream(c, ok) PROVE Course'
    <2>1. over' \in [Calls -> BOOLEAN] /\ UNCHANGED <<scenario, drive, state, todo, accepting>>
        BY <1>1, <1>4 DEF EndStream, driverVars
    <2>2. CASE Streaming(c) /\ Conclude(c, ok)
        BY <1>3, <2>1, <2>2 DEF Streaming
    <2>3. CASE Streaming(c) /\ task' = [task EXCEPT ![c[1]] = "closing"]
        <3>1. ~AllDone /\ task' \in [Nodes -> TaskStates]
            BY <1>1, <2>3 DEF Streaming, AllDone, TaskStates
        <3> QED
            BY <2>1, <3>1, CourseStep
    <2>4. CASE task' = task
        BY <2>1, <2>4, <1>1, SoundSets DEF Course, AllDone
    <2> QED
        BY <1>4, <2>2, <2>3, <2>4 DEF EndStream
<1>5. ASSUME RunCallback PROVE Course'
    <2>1. UNCHANGED <<scenario, over, drive, state, todo, accepting>> /\ ready # <<>>
        BY <1>5 DEF RunCallback, handlerVars, driverVars
    <2>2. CASE task' = task
        BY <2>1, <2>2, <1>2
    <2>3. CASE /\ Head(ready).do = "ended" /\ Streaming(Head(ready).call)
               /\ Conclude(Head(ready).call, Head(ready).ok)
        <3>1. Head(ready).call \in Calls /\ Head(ready).ok \in BOOLEAN
            BY <1>1, <2>1, <2>3, HeadSound
        <3> QED
            BY <1>1, <1>3, <2>1, <2>3, <3>1 DEF Streaming
    <2> QED
        BY <1>5, <2>2, <2>3 DEF RunCallback
<1>6. ASSUME NEW c \in Calls, GiveUp(c) PROVE Course'
    <2>1. over' \in [Calls -> BOOLEAN] /\ UNCHANGED <<scenario, drive, state, todo, accepting>>
          /\ Streaming(c)
        BY <1>1, <1>6 DEF GiveUp, driverVars
    <2>2. CASE Conclude(c, FALSE)
        BY <1>3, <2>1, <2>2 DEF Streaming
    <2>3. CASE task' = [task EXCEPT ![c[1]] = "closing"]
        <3>1. ~AllDone /\ task' \in [Nodes -> TaskStates]
            BY <1>1, <2>1, <2>3 DEF Streaming, AllDone, TaskStates
        <3> QED
            BY <2>1, <3>1, CourseStep
    <2> QED
        BY <1>6, <2>2, <2>3 DEF GiveUp
<1>7. ASSUME NEW c \in Calls, CloseSource(c) PROVE Course'
    <2>1. /\ over' = over /\ UNCHANGED <<scenario, drive, state, todo, accepting>>
          /\ task[c[1]] = "closing" /\ Conclude(c, FALSE)
        BY <1>7 DEF CloseSource, handlerVars, driverVars
    <2> QED
        BY <1>1, <1>3, <2>1
<1>8. ASSUME NEW n \in Nodes, ContinueTask(n) PROVE Course'
    <2>1. over' = over /\ UNCHANGED <<scenario, drive, state, todo, accepting>>
        BY <1>8 DEF ContinueTask, handlerVars, driverVars
    <2>2. ~AllDone
        BY <1>8 DEF ContinueTask, AllDone
    <2>3. task' \in [Nodes -> TaskStates]
        BY <1>1, <1>8 DEF ContinueTask, TaskStates
    <2> QED
        BY <1>1, <2>1, <2>2, <2>3, CourseStep
<1>9. ASSUME DriverStep \/ CancelInvocation PROVE Course'
    <2>1. UNCHANGED <<scenario, task, over>>
        BY <1>9 DEF DriverStep, CancelInvocation, Take, RecordUserEvents, Notify, ApplyResult,
           FailInvocation, AbandonWork, SkipResult, Complete, RecordEnd, Close, Settle,
           handlerVars, driverVars
    <2>2. Nodes' = Nodes /\ Calls' = Calls /\ (AllDone' <=> AllDone)
        BY <2>1, SoundSets DEF AllDone
    <2>3. CASE Take \/ RecordUserEvents \/ ApplyResult \/ SkipResult
        BY <1>1, <2>1, <2>2, <2>3 DEF Take, RecordUserEvents, ApplyResult, SkipResult, Course, driverVars
    <2>4. CASE Notify \/ Settle
        BY <1>1, <2>1, <2>2, <2>4 DEF Notify, Settle, Course, driverVars
    <2>5. CASE FailInvocation \/ CancelInvocation
        BY <1>1, <2>1, <2>2, <2>5 DEF FailInvocation, CancelInvocation, Course, Idle, driverVars
    <2>6. CASE AbandonWork
        <3>1. AllDone
            BY <2>6 DEF AbandonWork, AllDone
        <3> QED
            BY <1>1, <2>1, <2>2, <2>6, <3>1 DEF AbandonWork, Course, driverVars
    <2>7. CASE Complete
        <3>1. AllDone
            BY <2>7 DEF Complete, AllDone
        <3> QED
            BY <1>1, <2>1, <2>2, <2>7, <3>1 DEF Complete, Course, driverVars
    <2>8. CASE RecordEnd \/ Close
        BY <1>1, <2>1, <2>2, <2>8 DEF RecordEnd, Close, Course, driverVars
    <2> QED
        BY <1>9, <2>3, <2>4, <2>5, <2>6, <2>7, <2>8 DEF DriverStep
<1>10. ASSUME \/ Commit \/ FollowerStep \/ Heartbeat \/ UNCHANGED vars
              \/ \E c \in Calls : NextChunk(c) \/ Post(c)
              \/ \E c \in Calls : \E g \in 1..batch[c].gen : FlushGeneration(c, g)
       PROVE  Course'
    <2>1. CASE \E c \in Calls : NextChunk(c) \/ Post(c)
        BY <1>2, <2>1 DEF NextChunk, Post, driverVars
    <2>2. CASE \E c \in Calls : \E g \in 1..batch[c].gen : FlushGeneration(c, g)
        BY <1>2, <2>2 DEF FlushGeneration, handlerVars, driverVars
    <2>3. CASE Commit \/ FollowerStep \/ Heartbeat \/ UNCHANGED vars
        BY <1>2, <2>3 DEF Commit, FollowerStep, Wake, Clear, ListUserEvents, LoadUserEvents,
           SendPage, ReadDetail, Continue, Heartbeat, OnlyFollower, vars, handlerVars, driverVars
    <2> QED
        BY <1>10, <2>1, <2>2, <2>3
<1> QED
    BY <1>4, <1>5, <1>6, <1>7, <1>8, <1>9, <1>10 DEF Next, HandlerStep, LoopStep

--------------------------------------------------------------------------------
(* What a step does to the marks of a call.                                *)
Entire(L) == L[1] \cup L[2] \cup L[3] \cup L[4] \cup L[5] \cup L[6]
Looped(L) == L[4] \cup L[5]

(* They come closer to the journal, and what is recorded stays recorded.    *)
Moved(L, K) ==
    /\ L[1] \subseteq K[1] /\ Entire(K) \subseteq Entire(L)
    /\ Looped(K) \subseteq Looped(L) /\ K[6] \subseteq L[6]

LEMMA ShiftedMoves ==
    ASSUME NEW L \in Lines, NEW K \in Lines, NEW p \in Places, NEW k \in Places,
           Shifted(L, K, p, k), <<p, k>> \in {<<1, 2>>, <<2, 3>>, <<3, 4>>, <<3, 6>>, <<4, 5>>}
    PROVE  /\ Moved(L, K) /\ Entire(K) = Entire(L)
           /\ p # 1 => K[1] = L[1]
           /\ p = 4 => Looped(K) = Looped(L)
<1>1. \A r \in {1, 2, 3, 4, 5, 6} : r # p /\ r # k => K[r] = L[r]
    BY DEF Shifted, Places
<1>2. L[p] \subseteq K[p] /\ K[k] \subseteq L[k] /\ K[p] \cup K[k] = L[p] \cup L[k]
    BY DEF Shifted
<1>3. CASE p = 1 /\ k = 2
    BY <1>1, <1>2, <1>3 DEF Moved, Entire, Looped
<1>4. CASE p = 2 /\ k = 3
    BY <1>1, <1>2, <1>4 DEF Moved, Entire, Looped
<1>5. CASE p = 3 /\ k = 4
    BY <1>1, <1>2, <1>5 DEF Moved, Entire, Looped
<1>6. CASE p = 3 /\ k = 6
    BY <1>1, <1>2, <1>6 DEF Moved, Entire, Looped
<1>7. CASE p = 4 /\ k = 5
    BY <1>1, <1>2, <1>7 DEF Moved, Entire, Looped
<1> QED
    BY <1>3, <1>4, <1>5, <1>6, <1>7

LEMMA AddedIs ==
    ASSUME NEW L \in Lines, NEW K \in Lines, NEW p \in Places, NEW X \in Marks,
           Added(L, K, p, X)
    PROVE  /\ Entire(K) = Entire(L) \cup X
           /\ X = {} => /\ Moved(L, K) /\ Entire(K) = Entire(L) /\ K[1] = L[1]
                        /\ Looped(K) = Looped(L)
           /\ \A r \in {1, 2, 3, 4, 5, 6} : r # p => K[r] = L[r]
<1>1. \A r \in {1, 2, 3, 4, 5, 6} : r # p => K[r] = L[r]
    BY DEF Added, Places
<1>2. K[p] = L[p] \cup X /\ p \in {1, 2, 3, 4, 5, 6}
    BY DEF Added, Places
<1>3. Entire(K) = Entire(L) \cup X
    BY <1>1, <1>2 DEF Entire
<1>4. X = {} => /\ Moved(L, K) /\ Entire(K) = Entire(L) /\ K[1] = L[1]
                /\ Looped(K) = Looped(L)
    BY <1>1, <1>2, <1>3 DEF Moved, Looped
<1> QED
    BY <1>1, <1>3, <1>4

LEMMA InEntire ==
    ASSUME NEW L \in Lines, NEW p \in Places
    PROVE  L[p] \subseteq Entire(L)
<1>1. p \in {1, 2, 3, 4, 5, 6}
    BY DEF Places
<1> QED
    BY <1>1 DEF Entire

(* What leaves a place leaves the rest in order.                           *)
LEMMA PipeShrinks ==
    ASSUME scenario \in Scenarios, NEW c \in Calls, NEW o \in BOOLEAN, NEW q \in Pipes,
           NEW r \in Pipes, Orderly(o, c, q),
           r.events = q.events, r.mail = q.mail, r.posts = q.posts, r.batch = q.batch,
           r.todo = q.todo \/ r.todo = <<>> \/ (q.todo # <<>> /\ r.todo = Tail(q.todo)),
           r.ready = q.ready \/ (q.ready # <<>> /\ r.ready = Tail(q.ready))
    PROVE  /\ Orderly(o, c, r) /\ Moved(LineOf(c, q), LineOf(c, r))
           /\ LineOf(c, r)[1] = LineOf(c, q)[1]
           /\ LineOf(c, r)[2] \subseteq LineOf(c, q)[2]
           /\ LineOf(c, r)[4] \subseteq LineOf(c, q)[4]
           /\ LineOf(c, r)[3] = LineOf(c, q)[3] /\ LineOf(c, r)[5] = LineOf(c, q)[5]
           /\ LineOf(c, r)[6] = LineOf(c, q)[6]
           /\ r.todo = q.todo => LineOf(c, r)[2] = LineOf(c, q)[2]
           /\ r.ready = q.ready => LineOf(c, r)[4] = LineOf(c, q)[4]
<1> DEFINE L == LineOf(c, q)
           K == LineOf(c, r)
<1>1. L \in Lines /\ K \in Lines /\ InOrder(o, L) /\ Sorted(o, c, q)
    BY LineTyped DEF Orderly
<1>2. /\ q.todo \in Seq(Messages) /\ q.ready \in Seq(Callbacks)
    BY DEF Pipes
<1>3. MailSet(c, r.todo) \subseteq MailSet(c, q.todo) /\ MailOrder(o, c, r.todo)
    <2>1. MailOrder(o, c, q.todo)
        BY <1>1 DEF Sorted
    <2>2. CASE r.todo = <<>>
        BY <2>2, MailFew
    <2>3. CASE q.todo # <<>> /\ r.todo = Tail(q.todo)
        BY <1>2, <2>1, <2>3, MailTail
    <2> QED
        BY <2>1, <2>2, <2>3
<1>4. LoopSet(c, r.ready) \subseteq LoopSet(c, q.ready) /\ LoopOrder(o, c, r.ready)
    <2>1. LoopOrder(o, c, q.ready)
        BY <1>1 DEF Sorted
    <2>2. CASE q.ready # <<>> /\ r.ready = Tail(q.ready)
        BY <1>2, <2>1, <2>2, LoopTail
    <2> QED
        BY <2>1, <2>2
<1>5. Sorted(o, c, r)
    BY <1>1, <1>3, <1>4 DEF Sorted
<1>6. /\ K[1] = L[1] /\ K[3] = L[3] /\ K[5] = L[5] /\ K[6] = L[6]
      /\ K[2] \subseteq L[2] /\ K[4] \subseteq L[4]
      /\ (r.todo = q.todo => K[2] = L[2]) /\ (r.ready = q.ready => K[4] = L[4])
    BY <1>3, <1>4, LineTyped
<1> HIDE DEF L, K
<1>7. \A x \in Places : x \in {1, 2, 3, 4, 5, 6}
    BY DEF Places
<1>8. \A x \in Places : K[x] \subseteq L[x]
    BY <1>6, <1>7
<1>9. InOrder(o, K)
    BY <1>1, <1>8, LineShrinks
<1>10. Moved(L, K)
    BY <1>6 DEF Moved, Entire, Looped
<1> QED
    BY <1>5, <1>6, <1>9, <1>10 DEF Orderly, L, K

LEMMA OrderlyWeaker ==
    ASSUME scenario \in Scenarios, NEW c \in Calls, NEW q \in Pipes, NEW o \in BOOLEAN,
           Orderly(o, c, q)
    PROVE  Orderly(FALSE, c, q)
<1>1. ASSUME NEW L, InOrder(o, L) PROVE InOrder(FALSE, L)
    BY <1>1 DEF InOrder, Apart
<1>2. \A s : SpecOrder(o, c, s) => SpecOrder(FALSE, c, s)
    BY <1>1 DEF SpecOrder
<1>3. \A m : Neat(o, c, m) => Neat(FALSE, c, m)
    BY <1>2 DEF Neat
<1>4. \A s : MailOrder(o, c, s) => MailOrder(FALSE, c, s)
    BY <1>1, <1>3 DEF MailOrder
<1>5. \A s : LoopOrder(o, c, s) => LoopOrder(FALSE, c, s)
    BY <1>1, <1>3 DEF LoopOrder, Tidy
<1> QED
    BY <1>1, <1>2, <1>4, <1>5 DEF Orderly, Sorted

(* A batch that is flushed into the mailbox, with the announcement of an    *)
(* end behind it.                                                          *)
Flushes(o, c, q, r, t, w) ==
    /\ r.mail = q.mail \o (t \o w) /\ r.batch = <<>>
    /\ r.events = q.events /\ r.todo = q.todo /\ r.ready = q.ready /\ r.posts = q.posts
    /\ MailSet(c, t) = SpecSet(c, q.batch) /\ MailOrder(o, c, t) /\ MailOrder(o, c, w)
    /\ o => LineOf(c, q)[4] = {} /\ LineOf(c, q)[5] = {}
    /\ Apart(o, Entire(LineOf(c, q)), MailSet(c, w))

LEMMA PipeFlushes ==
    ASSUME scenario \in Scenarios, NEW c \in Calls, NEW o \in BOOLEAN, NEW q \in Pipes,
           NEW r \in Pipes, Orderly(o, c, q),
           NEW t \in Seq(Messages), NEW w \in Seq(Messages), Flushes(o, c, q, r, t, w)
    PROVE  /\ Orderly(o, c, r)
           /\ LineOf(c, r)[1] = LineOf(c, q)[1]
           /\ LineOf(c, r)[4] = LineOf(c, q)[4] /\ LineOf(c, r)[5] = LineOf(c, q)[5]
           /\ LineOf(c, r)[6] = {}
           /\ Entire(LineOf(c, r)) = Entire(LineOf(c, q)) \cup MailSet(c, w)
<1>0. /\ r.mail = q.mail \o (t \o w) /\ r.batch = <<>>
      /\ r.events = q.events /\ r.todo = q.todo /\ r.ready = q.ready /\ r.posts = q.posts
      /\ MailSet(c, t) = SpecSet(c, q.batch) /\ MailOrder(o, c, t) /\ MailOrder(o, c, w)
      /\ o => LineOf(c, q)[4] = {} /\ LineOf(c, q)[5] = {}
      /\ Apart(o, Entire(LineOf(c, q)), MailSet(c, w))
    BY DEF Flushes
<1> USE <1>0
<1> DEFINE m == [events |-> q.events, todo |-> q.todo, mail |-> q.mail \o t,
                 ready |-> q.ready, posts |-> q.posts, batch |-> <<>>]
           L == LineOf(c, q)
           M == LineOf(c, m)
           K == LineOf(c, r)
           W == MailSet(c, w)
<1>1. q.mail \in Seq(Messages) /\ q.events \in Seq(Specs) /\ q.todo \in Seq(Messages)
      /\ q.ready \in Seq(Callbacks) /\ q.posts \in Seq(Callbacks) /\ q.batch \in Seq(Specs)
    BY DEF Pipes
<1>2. m \in Pipes
    <2>1. q.mail \o t \in Seq(Messages) /\ <<>> \in Seq(Specs)
        BY <1>1
    <2> QED
        BY <1>1, <2>1 DEF Pipes
<1>3. /\ m.mail = q.mail \o t /\ m.batch = <<>> /\ m.events = q.events /\ m.todo = q.todo
      /\ m.ready = q.ready /\ m.posts = q.posts
    OBVIOUS
<1>4. SpecSet(c, <<>>) = {} /\ SpecOrder(o, c, <<>>) /\ <<>> \in Seq(Specs)
    BY SpecFew
<1>5. Apart(o, MailSet(c, t), SpecSet(c, <<>>)) /\ SpecSet(c, q.batch) = MailSet(c, t) \cup SpecSet(c, <<>>)
    BY <1>4 DEF Apart
<1> HIDE DEF m
<1>6. Orderly(o, c, m) /\ Shifted(L, M, 3, 6)
    BY <1>2, <1>3, <1>4, <1>5, MailFromBatch
<1>7. L \in Lines /\ M \in Lines /\ K \in Lines /\ W \in Marks
    BY <1>2, LineTyped, MailMarksTyped
<1>8. M[6] = {} /\ M[4] = L[4] /\ M[5] = L[5] /\ M[1] = L[1] /\ M[2] = L[2]
    <2>1. M[6] = {}
        BY <1>2, <1>3, <1>4, LineTyped
    <2> QED
        BY <2>1, <1>6 DEF Shifted, Places
<1>9. Entire(M) = Entire(L)
    <2> HIDE DEF L, M
    <2>1. 3 \in Places /\ 6 \in Places
        BY DEF Places
    <2> QED
        BY <1>6, <1>7, <2>1, ShiftedMoves
<1>10. Fresh(o, M, 3, W)
    <2>1. \A x \in Places : M[x] \subseteq Entire(L)
        <3> HIDE DEF L, M
        <3> QED
            BY <1>7, <1>9, InEntire
    <2>2. Apart(o, Entire(L), W)
        OBVIOUS
    <2>3. \A x \in Places : Apart(FALSE, M[x], W)
        <3> HIDE DEF L, M, W
        <3> QED
            BY <2>1, <2>2 DEF Apart
    <2>4. ASSUME o, NEW x \in Places
          PROVE  IF x <= 3 THEN Apart(TRUE, M[x], W) ELSE M[x] = {}
        <3>1. CASE x <= 3
            <4> HIDE DEF L, M, W
            <4> QED
                BY <2>1, <2>2, <2>4, <3>1 DEF Apart
        <3>2. CASE ~(x <= 3)
            <4>1. x \in {4, 5, 6}
                BY <3>2 DEF Places
            <4> QED
                BY <1>8, <2>4, <3>2, <4>1
        <3> QED
            BY <3>1, <3>2
    <2> HIDE DEF L, M, W
    <2> QED
        BY <2>3, <2>4 DEF Fresh
<1>11. r.mail = m.mail \o w
    <2>1. ASSUME NEW a \in Seq(Messages), NEW b \in Seq(Messages), NEW d \in Seq(Messages)
          PROVE  (a \o b) \o d = a \o (b \o d)
        BY ConcatAssociative
    <2>2. (q.mail \o t) \o w = q.mail \o (t \o w)
        BY <1>1, <2>1
    <2> QED
        BY <1>3, <2>2
<1>12. Orderly(o, c, r) /\ Added(M, K, 3, W)
    BY <1>2, <1>3, <1>6, <1>10, <1>11, MailGrow
<1> HIDE DEF L, M, K, W
<1>13. 3 \in Places
    BY DEF Places
<1>14. Entire(K) = Entire(M) \cup W /\ \A x \in {1, 2, 3, 4, 5, 6} : x # 3 => K[x] = M[x]
    BY <1>7, <1>12, <1>13, AddedIs
<1> QED
    BY <1>8, <1>9, <1>12, <1>14 DEF L, M, K, W

--------------------------------------------------------------------------------
(* What holds of every call.  Its marks as they stand:                     *)
Pipe(c) ==
    [events |-> events, todo |-> todo, mail |-> mailbox, ready |-> ready,
     posts |-> posts[c], batch |-> batch[c].specs]
Line(c) == LineOf(c, Pipe(c))

(* The task of the node has learnt the end of the call.                    *)
Concluded(c) ==
    \/ c[2] < attempt[c[1]]
    \/ Current(c) /\ task[c[1]] \notin {"streaming", "closing"}

(* The chunks that were produced and say anything.                         *)
Told(c) == {k \in Sayings(c) : k <= position[c]}

(* Only they are under way; the announcement of the end follows it, and the *)
(* success of the node the end of its task.                                *)
Known(c) ==
    /\ Entire(Line(c)) \subseteq Told(c) \cup {Len(Chunks(c)) + 1, Len(Chunks(c)) + 2}
    /\ Looped(Line(c)) \cup Line(c)[6] \subseteq Told(c)
    /\ Len(Chunks(c)) + 1 \in Entire(Line(c)) => Concluded(c)
    /\ Len(Chunks(c)) + 2 \in Entire(Line(c)) => task[c[1]] = "done"

(* None of them is lost, unless the caller cancels or nobody waits for the  *)
(* thread of the stream; and an output has them all before it.             *)
Whole(c) ==
    /\ Awaited(c) /\ ~Cancelled => Told(c) \subseteq Entire(Line(c))
    /\ Len(Chunks(c)) + 2 \in Line(c)[1] => Sayings(c) \subseteq Line(c)[1]

(* Success is that of a stream somebody waited for, and that was complete.  *)
Finished(c) ==
    Current(c) /\ (task[c[1]] = "succeeded" \/ Len(Chunks(c)) + 2 \in Entire(Line(c)))
        => Awaited(c) /\ position[c] = Len(Chunks(c))

(* What is under way when: nothing before the attempt; nothing but what is  *)
(* in the mailbox once its end was learnt, or its deadline was set.         *)
Phases(c) ==
    /\ c[2] > attempt[c[1]] => position[c] = 0 /\ ~over[c]
    /\ Concluded(c) /\ Awaited(c) => over[c] /\ Looped(Line(c)) = {} /\ Line(c)[6] = {}
    /\ Current(c) /\ task[c[1]] = "closing" => over[c] /\ Mode(c) = "async"
    /\ Mode(c) = "async" => Looped(Line(c)) = {}
    /\ <<c, batch[c].gen>> \in timers /\ Awaited(c) => Looped(Line(c)) = {}

Watched(c) == c \in givenUp => c[2] <= attempt[c[1]] /\ ~Streaming(c)

CallCore(c) == Known(c) /\ Whole(c) /\ Finished(c) /\ Phases(c) /\ Watched(c)

(* No chunk comes behind the deadline of its batch or the end of its stream.*)
MarkersOf(c, g, e, f, q, u, due) ==
    /\ Calm(c, g, q) /\ Calm(c, g, u) /\ (HasMarker(c, g, q) => LoopSet(c, u) = {})
    /\ Due(c, g, e, f, q) /\ Due(c, g, e, f, u)
    /\ \A t \in due : t[1] = c => t[2] \in 0..g
Markers(c) ==
    MarkersOf(c, batch[c].gen, over[c], position[c] = Len(Chunks(c)), ready, posts[c], timers)

InLine(c) == Orderly(Awaited(c), c, Pipe(c))

CallInv(c) == InLine(c) /\ CallCore(c) /\ Markers(c)

(* All that a step may build on.                                           *)
Ground == IInv /\ MailInv /\ Sound /\ Course /\ \A c \in Calls : CallInv(c)

LEMMA PipeTyped ==
    ASSUME IInv, MailInv, NEW c \in Calls
    PROVE  /\ Pipe(c) \in Pipes
           /\ Pipe(c).events = events /\ Pipe(c).todo = todo /\ Pipe(c).mail = mailbox
           /\ Pipe(c).ready = ready /\ Pipe(c).posts = posts[c]
           /\ Pipe(c).batch = batch[c].specs
<1>1. batch[c].specs \in Seq(Specs) /\ posts[c] \in Seq(Callbacks) /\ ready \in Seq(Callbacks)
    BY DEF IInv, BatcherTypeOK, Batches
<1>2. events \in Seq(Specs) /\ todo \in Seq(Messages) /\ mailbox \in Seq(Messages)
    BY DEF MailInv
<1> QED
    BY <1>1, <1>2 DEF Pipe, Pipes

LEMMA PipePrime ==
    ASSUME IInv', MailInv', scenario' = scenario, NEW c \in Calls
    PROVE  /\ Pipe(c)' \in Pipes
           /\ Pipe(c)'.events = events' /\ Pipe(c)'.todo = todo' /\ Pipe(c)'.mail = mailbox'
           /\ Pipe(c)'.ready = ready' /\ Pipe(c)'.posts = posts'[c]
           /\ Pipe(c)'.batch = batch'[c].specs
<1>1. Specs' = Specs /\ Messages' = Messages /\ Callbacks' = Callbacks /\ Batches' = Batches
      /\ Calls' = Calls
    BY ConstantSets
<1>2. batch'[c].specs \in Seq(Specs) /\ posts'[c] \in Seq(Callbacks) /\ ready' \in Seq(Callbacks)
    BY <1>1 DEF IInv, BatcherTypeOK, Batches
<1>3. events' \in Seq(Specs) /\ todo' \in Seq(Messages) /\ mailbox' \in Seq(Messages)
    BY <1>1 DEF MailInv
<1> QED
    BY <1>2, <1>3 DEF Pipe, Pipes

LEMMA SameMarks ==
    ASSUME scenario' = scenario, NEW c, NEW q, NEW o
    PROVE  LineOf(c, q)' = LineOf(c, q) /\ (Orderly(o, c, q)' <=> Orderly(o, c, q))
BY DEF Orderly, Sorted, LineOf, SpecOrder, SpecSet, SpecMarks, MarkOf, MailSet, MailOrder,
       MailMarks, MessageMarks, Neat, LoopSet, LoopOrder, LoopMarks, CallbackMarks, Tidy, Chunks

LEMMA LinePrime ==
    ASSUME scenario' = scenario, NEW c
    PROVE  /\ Line(c)' = LineOf(c, Pipe(c)')
           /\ InLine(c)' <=> Orderly(Awaited(c)', c, Pipe(c)')
BY SameMarks DEF Line, InLine

LEMMA LinesOf ==
    ASSUME IInv, MailInv, NEW c \in Calls
    PROVE  /\ Line(c) \in Lines /\ Awaited(c) \in BOOLEAN
           /\ Line(c)[1] = SpecSet(c, events) /\ Line(c)[2] = MailSet(c, todo)
           /\ Line(c)[3] = MailSet(c, mailbox) /\ Line(c)[4] = LoopSet(c, ready)
           /\ Line(c)[5] = LoopSet(c, posts[c]) /\ Line(c)[6] = SpecSet(c, batch[c].specs)
<1>1. scenario \in Scenarios
    BY DEF IInv, BatcherTypeOK
<1>2. Awaited(c) \in BOOLEAN
    BY DEF Awaited
<1> DEFINE q == Pipe(c)
<1>3. /\ q \in Pipes
      /\ q.events = events /\ q.todo = todo /\ q.mail = mailbox
      /\ q.ready = ready /\ q.posts = posts[c] /\ q.batch = batch[c].specs
    BY PipeTyped
<1> HIDE DEF q
<1>4. /\ LineOf(c, q) \in Lines
      /\ LineOf(c, q)[1] = SpecSet(c, events) /\ LineOf(c, q)[2] = MailSet(c, todo)
      /\ LineOf(c, q)[3] = MailSet(c, mailbox) /\ LineOf(c, q)[4] = LoopSet(c, ready)
      /\ LineOf(c, q)[5] = LoopSet(c, posts[c]) /\ LineOf(c, q)[6] = SpecSet(c, batch[c].specs)
    BY <1>1, <1>3, LineTyped
<1> QED
    BY <1>2, <1>4 DEF Line, q

(* For the call, nothing happens but that its marks move.                  *)
Alike(c) ==
    /\ scenario' = scenario /\ position'[c] = position[c] /\ over'[c] = over[c]
    /\ c \in givenUp' <=> c \in givenUp
    /\ attempt'[c[1]] = attempt[c[1]]
    /\ Current(c) => task'[c[1]] = task[c[1]]
    /\ task[c[1]] = "done" => task'[c[1]] = "done"

LEMMA AlikeKeeps ==
    ASSUME IInv, MailInv, NEW c \in Calls, CallCore(c), Alike(c),
           Moved(Line(c), Line(c)'),
           Len(Chunks(c)) + 2 \in Line(c)'[1] =>
               Len(Chunks(c)) + 2 \in Line(c)[1] \/ Sayings(c) \subseteq Line(c)'[1],
           Awaited(c) /\ ~Cancelled' =>
               ~Cancelled /\ Told(c) \cap Entire(Line(c)) \subseteq Entire(Line(c)'),
           Awaited(c) /\ <<c, batch'[c].gen>> \in timers' => Looped(Line(c)') = {}
    PROVE  CallCore(c)' /\ (Awaited(c)' <=> Awaited(c))
<1> DEFINE L == Line(c)
           K == Line(c)'
           N == Len(Chunks(c))
           n == c[1]
<1>1. /\ Chunks(c)' = Chunks(c) /\ Sayings(c)' = Sayings(c) /\ Mode(c)' = Mode(c)
      /\ Told(c)' = Told(c) /\ (Awaited(c)' <=> Awaited(c))
      /\ (Current(c)' <=> Current(c)) /\ (Concluded(c)' <=> Concluded(c))
    <2>1. Chunks(c)' = Chunks(c) /\ Sayings(c)' = Sayings(c) /\ Mode(c)' = Mode(c)
        BY SoundSets DEF Alike
    <2>2. Told(c)' = Told(c) /\ (Awaited(c)' <=> Awaited(c))
        BY <2>1 DEF Alike, Told, Awaited
    <2> QED
        BY <2>1, <2>2 DEF Alike, Concluded, Current
<1>2. /\ L[1] \subseteq K[1] /\ Entire(K) \subseteq Entire(L)
      /\ Looped(K) \subseteq Looped(L) /\ K[6] \subseteq L[6]
    BY DEF Moved
<1>3. Known(c)'
    <2>1. Entire(K) \subseteq Told(c) \cup {N + 1, N + 2}
        BY <1>2 DEF CallCore, Known
    <2>2. Looped(K) \cup K[6] \subseteq Told(c)
        BY <1>2 DEF CallCore, Known
    <2>3. N + 1 \in Entire(K) => Concluded(c)'
        BY <1>1, <1>2 DEF CallCore, Known
    <2>4. N + 2 \in Entire(K) => task'[n] = "done"
        BY <1>1, <1>2 DEF CallCore, Known, Alike
    <2> QED
        BY <2>1, <2>2, <2>3, <2>4, <1>1 DEF Known
<1>4. Whole(c)'
    <2>1. Awaited(c)' /\ ~Cancelled' => Told(c) \subseteq Entire(K)
        BY <1>1 DEF CallCore, Whole
    <2>2. N + 2 \in K[1] => Sayings(c) \subseteq K[1]
        BY <1>2 DEF CallCore, Whole
    <2> QED
        BY <2>1, <2>2, <1>1 DEF Whole
<1>5. Finished(c)'
    <2>1. Current(c)' /\ (task'[n] = "succeeded" \/ N + 2 \in Entire(K))
             => Awaited(c) /\ position[c] = N
        BY <1>1, <1>2 DEF CallCore, Finished, Alike
    <2> QED
        BY <2>1, <1>1 DEF Finished, Alike
<1>6. Phases(c)'
    <2>1. c[2] > attempt'[n] => position'[c] = 0 /\ ~over'[c]
        BY DEF CallCore, Phases, Alike
    <2>2. Concluded(c)' /\ Awaited(c)' => over'[c] /\ Looped(K) = {} /\ K[6] = {}
        BY <1>1, <1>2 DEF CallCore, Phases, Alike
    <2>3. Current(c)' /\ task'[n] = "closing" => over'[c] /\ Mode(c)' = "async"
        BY <1>1 DEF CallCore, Phases, Alike
    <2>4. Mode(c)' = "async" => Looped(K) = {}
        BY <1>1, <1>2 DEF CallCore, Phases
    <2>5. <<c, batch'[c].gen>> \in timers' /\ Awaited(c)' => Looped(K) = {}
        BY <1>1
    <2> QED
        BY <2>1, <2>2, <2>3, <2>4, <2>5 DEF Phases
<1>7. Watched(c)'
    <2>1. Streaming(c)' => Streaming(c)
        BY <1>1 DEF Streaming, Alike
    <2> QED
        BY <2>1 DEF CallCore, Watched, Alike
<1> QED
    BY <1>1, <1>3, <1>4, <1>5, <1>6, <1>7 DEF CallCore

LEMMA MarkersPrime ==
    ASSUME scenario' = scenario, NEW c \in Calls
    PROVE  Markers(c)' <=> MarkersOf(c, batch'[c].gen, over'[c], position'[c] = Len(Chunks(c)),
                                     ready', posts'[c], timers')
<1>1. Chunks(c)' = Chunks(c)
    BY SoundSets
<1>2. ASSUME NEW g, NEW e, NEW f, NEW q, NEW u, NEW due
      PROVE  MarkersOf(c, g, e, f, q, u, due)' <=> MarkersOf(c, g, e, f, q, u, due)
    BY DEF MarkersOf, Calm, LoopSet, LoopMarks, CallbackMarks, MessageMarks, SpecSet, SpecMarks,
           MarkOf, Chunks, HasMarker, Due
<1> QED
    BY <1>1, <1>2 DEF Markers

(* All there is to show of a step for a call.                              *)
LEMMA CallStep ==
    ASSUME Ground, IInv', MailInv', NEW c \in Calls, Alike(c),
           Orderly(Awaited(c), c, Pipe(c)'),
           Moved(Line(c), LineOf(c, Pipe(c)')),
           Len(Chunks(c)) + 2 \in LineOf(c, Pipe(c)')[1] =>
               Len(Chunks(c)) + 2 \in Line(c)[1] \/ Sayings(c) \subseteq LineOf(c, Pipe(c)')[1],
           Awaited(c) /\ ~Cancelled' =>
               ~Cancelled /\ Told(c) \cap Entire(Line(c)) \subseteq Entire(LineOf(c, Pipe(c)')),
           Awaited(c) /\ <<c, batch'[c].gen>> \in timers' => Looped(LineOf(c, Pipe(c)')) = {},
           MarkersOf(c, batch'[c].gen, over[c], position[c] = Len(Chunks(c)),
                     ready', posts'[c], timers')
    PROVE  CallInv(c)'
<1>1. scenario' = scenario
    BY DEF Alike
<1>2. Line(c)' = LineOf(c, Pipe(c)')
    BY <1>1, LinePrime
<1>3. CallCore(c)' /\ (Awaited(c)' <=> Awaited(c))
    BY <1>2, AlikeKeeps DEF Ground, CallInv
<1>4. InLine(c)'
    <2>1. Awaited(c)' = Awaited(c)
        BY <1>3 DEF Awaited
    <2>2. InLine(c)' <=> Orderly(Awaited(c)', c, Pipe(c)')
        BY <1>1, LinePrime
    <2> QED
        BY <2>1, <2>2
<1>5. Markers(c)'
    BY <1>1, MarkersPrime DEF Alike
<1> QED
    BY <1>3, <1>4, <1>5 DEF CallInv

(* A step that leaves the way of the call alone.                           *)
LEMMA SamePipe ==
    ASSUME Ground, IInv', MailInv', NEW c \in Calls, Alike(c),
           UNCHANGED <<events, todo, mailbox, ready, timers>>,
           posts'[c] = posts[c], batch'[c] = batch[c],
           ~Cancelled' => ~Cancelled
    PROVE  CallInv(c)'
<1>1. Pipe(c)' = Pipe(c)
    BY DEF Pipe
<1>2. LineOf(c, Pipe(c)') = Line(c) /\ Orderly(Awaited(c), c, Pipe(c)')
    BY <1>1 DEF Line, Ground, CallInv, InLine
<1>3. Moved(Line(c), Line(c))
    BY DEF Moved
<1>4. Awaited(c) /\ <<c, batch'[c].gen>> \in timers' => Looped(Line(c)) = {}
    BY DEF Ground, CallInv, CallCore, Phases
<1>5. MarkersOf(c, batch'[c].gen, over[c], position[c] = Len(Chunks(c)), ready', posts'[c], timers')
    BY DEF Ground, CallInv, Markers
<1> QED
    BY <1>2, <1>3, <1>4, <1>5, CallStep

(* An Invocation that the caller cancelled stays so.                       *)
LEMMA CancelStays ==
    ASSUME Course, DriverStep
    PROVE  ~Cancelled' => ~Cancelled
<1>1. CASE Take \/ RecordUserEvents \/ Notify \/ ApplyResult \/ SkipResult
    BY <1>1 DEF Take, RecordUserEvents, Notify, ApplyResult, SkipResult, Cancelled, driverVars
<1>2. CASE FailInvocation \/ Complete
    BY <1>2 DEF FailInvocation, Complete, Idle, Cancelled, Course
<1>3. CASE AbandonWork
    BY <1>3 DEF AbandonWork, Cancelled
<1>4. CASE RecordEnd
    BY <1>4 DEF RecordEnd, Cancelled
<1>5. CASE Close \/ Settle
    BY <1>5 DEF Close, Settle, Cancelled
<1> QED
    BY <1>1, <1>2, <1>3, <1>4, <1>5 DEF DriverStep

--------------------------------------------------------------------------------
(* The driver moves what is in the mailbox to the journal.                 *)
LEMMA DriverMoves ==
    ASSUME Ground, IInv', MailInv', NEW c \in Calls,
           UNCHANGED <<scenario, attempt, task, handlerVars, givenUp, batch, loopVars>>,
           Orderly(Awaited(c), c, Pipe(c)'),
           Moved(Line(c), LineOf(c, Pipe(c)')),
           Len(Chunks(c)) + 2 \in LineOf(c, Pipe(c)')[1] =>
               Len(Chunks(c)) + 2 \in Line(c)[1] \/ Sayings(c) \subseteq LineOf(c, Pipe(c)')[1],
           Awaited(c) /\ ~Cancelled' =>
               ~Cancelled /\ Told(c) \cap Entire(Line(c)) \subseteq Entire(LineOf(c, Pipe(c)'))
    PROVE  CallInv(c)'
<1>1. UNCHANGED <<scenario, attempt, task, position, over, posts, givenUp, batch, ready, timers>>
    BY DEF handlerVars, loopVars
<1>2. Alike(c)
    BY <1>1 DEF Alike
<1>3. Awaited(c) /\ <<c, batch'[c].gen>> \in timers' => Looped(LineOf(c, Pipe(c)')) = {}
    <2>1. Awaited(c) /\ <<c, batch[c].gen>> \in timers => Looped(Line(c)) = {}
        BY DEF Ground, CallInv, CallCore, Phases
    <2> QED
        BY <1>1, <2>1 DEF Moved
<1>4. MarkersOf(c, batch'[c].gen, over[c], position[c] = Len(Chunks(c)), ready', posts'[c], timers')
    BY <1>1 DEF Ground, CallInv, Markers
<1> QED
    BY <1>2, <1>3, <1>4, CallStep

LEMMA GroundTyped ==
    ASSUME Ground, NEW c \in Calls
    PROVE  /\ IInv /\ MailInv /\ Sound /\ Course /\ scenario \in Scenarios
           /\ CallCore(c) /\ Markers(c) /\ Orderly(Awaited(c), c, Pipe(c))
           /\ Awaited(c) \in BOOLEAN /\ Pipe(c) \in Pipes /\ Line(c) \in Lines
           /\ Line(c) = LineOf(c, Pipe(c))
           /\ c[1] \in Nodes /\ Len(Chunks(c)) \in Nat /\ Sayings(c) \subseteq 1..Len(Chunks(c))
           /\ over[c] \in BOOLEAN /\ batch[c] \in Batches /\ batch[c].gen \in Nat
           /\ batch[c].specs \in Seq(Specs) /\ position[c] \in Nat /\ attempt[c[1]] \in Nat
           /\ posts[c] \in Seq(Callbacks) /\ ready \in Seq(Callbacks)
           /\ mailbox \in Seq(Messages) /\ todo \in Seq(Messages) /\ events \in Seq(Specs)
<1>1. IInv /\ MailInv /\ Sound /\ Course /\ CallCore(c) /\ Markers(c)
      /\ Orderly(Awaited(c), c, Pipe(c)) /\ scenario \in Scenarios
    BY DEF Ground, CallInv, InLine, IInv, BatcherTypeOK
<1>2. batch[c] \in Batches /\ position[c] \in Nat /\ posts[c] \in Seq(Callbacks)
      /\ ready \in Seq(Callbacks)
    BY <1>1 DEF IInv, BatcherTypeOK
<1>3. batch[c].gen \in Nat /\ batch[c].specs \in Seq(Specs)
    BY <1>2 DEF Batches
<1>4. mailbox \in Seq(Messages) /\ todo \in Seq(Messages) /\ events \in Seq(Specs)
      /\ attempt \in [Nodes -> Nat]
    BY <1>1 DEF MailInv
<1>5. c[1] \in Nodes /\ Len(Chunks(c)) \in Nat /\ Sayings(c) \subseteq 1..Len(Chunks(c))
    BY <1>1, ChunksTyped
<1>6. over[c] \in BOOLEAN
    BY <1>1 DEF Course
<1> QED
    BY <1>1, <1>2, <1>3, <1>4, <1>5, <1>6, PipeTyped, LinesOf DEF Line

LEMMA TakeKeeps ==
    ASSUME Ground, IInv', MailInv', NEW c \in Calls, todo = <<>>,
           UNCHANGED <<scenario, attempt, task, handlerVars, givenUp, batch, loopVars, events>>,
           todo' = mailbox, mailbox' = <<>>, ~Cancelled' => ~Cancelled
    PROVE  CallInv(c)'
<1> DEFINE q == Pipe(c)
           r == Pipe(c)'
           o == Awaited(c)
<1>1. /\ q \in Pipes /\ q.events = events /\ q.todo = todo /\ q.mail = mailbox
      /\ q.ready = ready /\ q.posts = posts[c] /\ q.batch = batch[c].specs
      /\ Orderly(o, c, q) /\ o \in BOOLEAN /\ scenario \in Scenarios
      /\ mailbox \in Seq(Messages) /\ Line(c) = LineOf(c, q) /\ Line(c) \in Lines
    BY GroundTyped, PipeTyped
<1>2. /\ r \in Pipes /\ r.events = events /\ r.todo = mailbox /\ r.mail = <<>>
      /\ r.ready = ready /\ r.posts = posts[c] /\ r.batch = batch[c].specs
    BY PipePrime DEF handlerVars, loopVars
<1> HIDE DEF q, r, o
<1>3. /\ MailSet(c, <<>>) = {} /\ MailOrder(o, c, <<>>) /\ <<>> \in Seq(Messages)
      /\ r.todo = q.todo \o mailbox
    BY <1>1, <1>2, MailFew
<1>4. MailOrder(o, c, mailbox)
    BY <1>1 DEF Orderly, Sorted
<1>5. Apart(o, MailSet(c, mailbox), MailSet(c, <<>>)) /\ MailSet(c, q.mail) = MailSet(c, mailbox) \cup MailSet(c, <<>>)
    BY <1>1, <1>3 DEF Apart
<1>6. Orderly(o, c, r) /\ Shifted(LineOf(c, q), LineOf(c, r), 2, 3)
    BY <1>1, <1>2, <1>3, <1>4, <1>5, TodoFromMail
<1>7. LineOf(c, r) \in Lines /\ 2 \in Places /\ 3 \in Places
    BY <1>1, <1>2, LineTyped DEF Places
<1>8. /\ Moved(LineOf(c, q), LineOf(c, r)) /\ Entire(LineOf(c, r)) = Entire(LineOf(c, q))
      /\ LineOf(c, r)[1] = LineOf(c, q)[1]
    BY <1>1, <1>6, <1>7, ShiftedMoves
<1> QED
    BY <1>1, <1>6, <1>8, DriverMoves DEF q, r, o

LEMMA RecordKeeps ==
    ASSUME Ground, IInv', MailInv', NEW c \in Calls, RecordUserEvents,
           ~Cancelled' => ~Cancelled
    PROVE  CallInv(c)'
<1> DEFINE q == Pipe(c)
           r == Pipe(c)'
           o == Awaited(c)
           specs == Head(todo).specs
           t == Recorded(specs)
<1>1. /\ q \in Pipes /\ q.events = events /\ q.todo = todo /\ q.mail = mailbox
      /\ q.ready = ready /\ q.posts = posts[c] /\ q.batch = batch[c].specs
      /\ Orderly(o, c, q) /\ o \in BOOLEAN /\ scenario \in Scenarios
      /\ todo \in Seq(Messages) /\ Line(c) = LineOf(c, q) /\ Line(c) \in Lines
      /\ todo \in Seq(Letters) /\ Len(Chunks(c)) \in Nat
    BY GroundTyped, PipeTyped DEF Sound
<1>2. /\ UNCHANGED <<scenario, attempt, task, handlerVars, givenUp, batch, loopVars, mailbox>>
      /\ todo # <<>> /\ todo' = Tail(todo) /\ events' = events \o t /\ IsEvents(Head(todo))
    BY DEF RecordUserEvents, Append_
<1>3. /\ r \in Pipes /\ r.events = events \o t /\ r.todo = Tail(todo) /\ r.mail = mailbox
      /\ r.ready = ready /\ r.posts = posts[c] /\ r.batch = batch[c].specs
    BY <1>2, PipePrime DEF handlerVars, loopVars
<1>4. Head(todo) \in Letters /\ Tail(todo) \in Seq(Messages)
    BY <1>1, <1>2, ToSetTail
<1>5. /\ specs \in Seq(Specs) /\ MessageMarks(c, Head(todo)) = SpecSet(c, specs)
      /\ Len(Chunks(c)) + 2 \notin SpecSet(c, specs)
    <2>1. Head(todo) \in Messages /\ Head(todo).kind = "user_event"
        BY <1>1, <1>2, <1>4, Wider DEF IsEvents
    <2>2. specs \in Seq(Specs) /\ MessageMarks(c, Head(todo)) = SpecSet(c, specs)
        BY <2>1 DEF Messages, MessageMarks
    <2> QED
        BY <1>1, <1>2, <1>4, <2>2, LetterMarks
<1>6. /\ MailSet(c, todo) = MessageMarks(c, Head(todo)) \cup MailSet(c, Tail(todo))
      /\ MailOrder(o, c, Tail(todo)) /\ Neat(o, c, Head(todo))
      /\ Apart(o, MessageMarks(c, Head(todo)), MailSet(c, Tail(todo)))
    <2>1. MailOrder(o, c, todo)
        BY <1>1 DEF Orderly, Sorted
    <2> QED
        BY <1>1, <1>2, <2>1, MailTail
<1>7. t \in Seq(Specs) /\ SpecSet(c, t) = SpecSet(c, specs) /\ SpecOrder(o, c, t)
    <2>1. SpecOrder(o, c, specs)
        BY <1>2, <1>6 DEF Neat, IsEvents
    <2> QED
        BY <1>1, <1>5, <2>1, RecordedTyped, RecordedMarks
<1> HIDE DEF q, r, o, specs, t
<1>8. Orderly(o, c, r) /\ Shifted(LineOf(c, q), LineOf(c, r), 1, 2)
    BY <1>1, <1>3, <1>4, <1>5, <1>6, <1>7, EventsFromTodo
<1>9. LineOf(c, r) \in Lines /\ 1 \in Places /\ 2 \in Places
    BY <1>1, <1>3, LineTyped DEF Places
<1>10. Moved(LineOf(c, q), LineOf(c, r)) /\ Entire(LineOf(c, r)) = Entire(LineOf(c, q))
    BY <1>1, <1>8, <1>9, ShiftedMoves
<1>11. Len(Chunks(c)) + 2 \in LineOf(c, r)[1] => Len(Chunks(c)) + 2 \in LineOf(c, q)[1]
    <2>1. LineOf(c, r)[1] = SpecSet(c, events \o t) /\ LineOf(c, q)[1] = SpecSet(c, events)
        BY <1>1, <1>3, LineTyped
    <2>2. events \in Seq(Specs)
        BY <1>1 DEF Pipes
    <2>3. SpecSet(c, events \o t) = SpecSet(c, events) \cup SpecSet(c, t)
        BY <1>1, <1>7, <2>2, SpecConcat
    <2> QED
        BY <1>5, <1>7, <2>1, <2>3
<1> QED
    BY <1>1, <1>2, <1>8, <1>10, <1>11, DriverMoves DEF q, r, o

(* The result of a node leaves what was drained.                           *)
LEMMA ResultDropped ==
    ASSUME Ground, NEW c \in Calls, todo # <<>>, ~IsEvents(Head(todo)),
           NEW m \in Pipes, m.events = events, m.todo = Tail(todo), m.mail = mailbox,
           m.ready = ready, m.posts = posts[c], m.batch = batch[c].specs
    PROVE  /\ Orderly(Awaited(c), c, m) /\ Moved(Line(c), LineOf(c, m))
           /\ LineOf(c, m)[1] = Line(c)[1]
           /\ Told(c) \cap Entire(Line(c)) \subseteq Entire(LineOf(c, m))
<1> DEFINE q == Pipe(c)
           o == Awaited(c)
           L == LineOf(c, q)
           M == LineOf(c, m)
<1>1. /\ q \in Pipes /\ q.events = events /\ q.todo = todo /\ q.mail = mailbox
      /\ q.ready = ready /\ q.posts = posts[c] /\ q.batch = batch[c].specs
      /\ Orderly(o, c, q) /\ o \in BOOLEAN /\ scenario \in Scenarios
      /\ todo \in Seq(Messages) /\ Line(c) = L
      /\ todo \in Seq(Letters) /\ Len(Chunks(c)) \in Nat /\ Sayings(c) \subseteq 1..Len(Chunks(c))
    BY GroundTyped, PipeTyped DEF Sound
<1> HIDE DEF q, o
<1>2. /\ Orderly(o, c, m) /\ Moved(L, M) /\ M[1] = L[1]
      /\ M[3] = L[3] /\ M[4] = L[4] /\ M[5] = L[5] /\ M[6] = L[6]
    <2>1. m.events = q.events /\ m.mail = q.mail /\ m.posts = q.posts /\ m.batch = q.batch
          /\ m.ready = q.ready /\ q.todo # <<>> /\ m.todo = Tail(q.todo)
        BY <1>1
    <2>2. scenario \in Scenarios /\ q \in Pipes /\ o \in BOOLEAN /\ Orderly(o, c, q)
        BY <1>1
    <2>3. /\ Orderly(o, c, m) /\ Moved(LineOf(c, q), LineOf(c, m))
          /\ LineOf(c, m)[1] = LineOf(c, q)[1] /\ LineOf(c, m)[3] = LineOf(c, q)[3]
          /\ LineOf(c, m)[5] = LineOf(c, q)[5] /\ LineOf(c, m)[6] = LineOf(c, q)[6]
          /\ LineOf(c, m)[4] = LineOf(c, q)[4]
        BY <2>1, <2>2, PipeShrinks
    <2> QED
        BY <2>3
<1>3. L[2] \subseteq {Len(Chunks(c)) + 2} \cup M[2]
    <2>1. Head(todo) \in Letters
        BY <1>1, ToSetTail
    <2>2. MessageMarks(c, Head(todo)) \subseteq {Len(Chunks(c)) + 2}
        BY <1>1, <2>1, LetterMarks
    <2>3. MailSet(c, todo) = MessageMarks(c, Head(todo)) \cup MailSet(c, Tail(todo))
        BY <1>1, MailTail
    <2>4. L[2] = MailSet(c, todo) /\ M[2] = MailSet(c, Tail(todo))
        BY <1>1, LineTyped
    <2> QED
        BY <2>2, <2>3, <2>4
<1>4. Len(Chunks(c)) + 2 \notin Told(c)
    BY <1>1 DEF Told
<1>5. Told(c) \cap Entire(L) \subseteq Entire(M)
    <2> HIDE DEF L, M
    <2> QED
        BY <1>2, <1>3, <1>4 DEF Entire
<1> QED
    BY <1>1, <1>2, <1>5 DEF o

LEMMA SkipKeeps ==
    ASSUME Ground, IInv', MailInv', NEW c \in Calls, todo # <<>>, ~IsEvents(Head(todo)),
           UNCHANGED <<scenario, attempt, task, handlerVars, givenUp, batch, loopVars, events, mailbox>>,
           todo' = Tail(todo), ~Cancelled' => ~Cancelled
    PROVE  CallInv(c)'
<1> DEFINE r == Pipe(c)'
<1>1. /\ r \in Pipes /\ r.events = events /\ r.todo = Tail(todo) /\ r.mail = mailbox
      /\ r.ready = ready /\ r.posts = posts[c] /\ r.batch = batch[c].specs
    BY PipePrime DEF handlerVars, loopVars
<1> HIDE DEF r
<1>2. /\ Orderly(Awaited(c), c, r) /\ Moved(Line(c), LineOf(c, r))
      /\ LineOf(c, r)[1] = Line(c)[1]
      /\ Told(c) \cap Entire(Line(c)) \subseteq Entire(LineOf(c, r))
    BY <1>1, ResultDropped
<1> QED
    BY <1>2, DriverMoves DEF r

LEMMA CancelKeeps ==
    ASSUME Ground, IInv', MailInv', NEW c \in Calls, CancelInvocation
    PROVE  CallInv(c)'
<1> DEFINE q == Pipe(c)
           r == Pipe(c)'
           o == Awaited(c)
<1>1. /\ q \in Pipes /\ q.events = events /\ q.todo = todo /\ q.mail = mailbox
      /\ q.ready = ready /\ q.posts = posts[c] /\ q.batch = batch[c].specs
      /\ Orderly(o, c, q) /\ o \in BOOLEAN /\ scenario \in Scenarios /\ Line(c) = LineOf(c, q)
      /\ Course
    BY GroundTyped, PipeTyped
<1>2. /\ UNCHANGED <<scenario, attempt, task, handlerVars, givenUp, batch, loopVars, events, mailbox>>
      /\ todo' = <<>> /\ drive = "drive" /\ drive' = "abandon" /\ state' = state
    BY DEF CancelInvocation
<1>3. /\ r \in Pipes /\ r.events = events /\ r.todo = <<>> /\ r.mail = mailbox
      /\ r.ready = ready /\ r.posts = posts[c] /\ r.batch = batch[c].specs
    BY <1>2, PipePrime DEF handlerVars, loopVars
<1>4. Cancelled'
    BY <1>1, <1>2 DEF Course, Cancelled
<1> HIDE DEF q, r, o
<1>5. Orderly(o, c, r) /\ Moved(LineOf(c, q), LineOf(c, r)) /\ LineOf(c, r)[1] = LineOf(c, q)[1]
    BY <1>1, <1>3, PipeShrinks
<1> QED
    BY <1>1, <1>2, <1>4, <1>5, DriverMoves DEF q, r, o

(* Something is recorded that is no concern of the call.                   *)
LEMMA UnmarkedEvents ==
    ASSUME scenario \in Scenarios, NEW c \in Calls, NEW o \in BOOLEAN, NEW q \in Pipes,
           NEW r \in Pipes, Orderly(o, c, q), NEW t \in Seq(Specs), r.events = q.events \o t,
           r.todo = q.todo, r.mail = q.mail, r.ready = q.ready, r.posts = q.posts,
           r.batch = q.batch, SpecSet(c, t) = {}, SpecOrder(o, c, t)
    PROVE  /\ Orderly(o, c, r) /\ Moved(LineOf(c, q), LineOf(c, r))
           /\ Entire(LineOf(c, r)) = Entire(LineOf(c, q)) /\ LineOf(c, r)[1] = LineOf(c, q)[1]
<1>1. LineOf(c, q) \in Lines /\ LineOf(c, r) \in Lines /\ 1 \in Places /\ {} \in Marks
    BY LineTyped DEF Places, Marks
<1>2. Fresh(o, LineOf(c, q), 1, SpecSet(c, t))
    BY DEF Fresh, Apart
<1>3. Orderly(o, c, r) /\ Added(LineOf(c, q), LineOf(c, r), 1, SpecSet(c, t))
    BY <1>2, EventsGrow
<1>4. Added(LineOf(c, q), LineOf(c, r), 1, {})
    BY <1>3
<1> QED
    BY <1>1, <1>3, <1>4, AddedIs

(* The last words carry no marks.                                          *)
LEMMA LastWordsMarks ==
    ASSUME scenario \in Scenarios, NEW c \in Calls
    PROVE  SpecSet(c, LastWords) = {} /\ \A a \in BOOLEAN : SpecOrder(a, c, LastWords)
<1>1. \A i \in DOMAIN LastWords : LastWords[i].item = 0 /\ LastWords[i].type = "agent_failed"
    <2>1. CASE state = "failed" /\ \E n \in Nodes : scenario.nodes[n].message
        <3> DEFINE n == CHOOSE m \in Nodes : scenario.nodes[m].message
        <3>1. LastWords = <<Spec_(<<n, attempt[n]>>, 0, "agent_failed")>>
            BY <2>1 DEF LastWords
        <3> HIDE DEF n
        <3> QED
            BY <3>1 DEF Spec_
    <2>2. CASE ~(state = "failed" /\ \E n \in Nodes : scenario.nodes[n].message)
        BY <2>2 DEF LastWords
    <2> QED
        BY <2>1, <2>2
<1>2. \A i \in DOMAIN LastWords : MarkOf(c, LastWords[i]) = {}
    BY <1>1 DEF MarkOf, Aborted
<1> QED
    BY <1>2, NoSpecMarks

LEMMA CloseKeeps ==
    ASSUME Ground, IInv', MailInv', NEW c \in Calls, Close, ~Cancelled' => ~Cancelled
    PROVE  CallInv(c)'
<1> DEFINE q == Pipe(c)
           r == Pipe(c)'
           o == Awaited(c)
           t == Recorded(LastWords)
<1>1. /\ q \in Pipes /\ q.events = events /\ q.todo = todo /\ q.mail = mailbox
      /\ q.ready = ready /\ q.posts = posts[c] /\ q.batch = batch[c].specs
      /\ Orderly(o, c, q) /\ o \in BOOLEAN /\ scenario \in Scenarios /\ Line(c) = LineOf(c, q)
      /\ MailInv
    BY GroundTyped, PipeTyped
<1>2. /\ UNCHANGED <<scenario, attempt, task, handlerVars, givenUp, batch, loopVars, todo, mailbox>>
      /\ events' = events \o t
    BY DEF Close, Append_
<1>3. /\ r \in Pipes /\ r.events = events \o t /\ r.todo = todo /\ r.mail = mailbox
      /\ r.ready = ready /\ r.posts = posts[c] /\ r.batch = batch[c].specs
    BY <1>2, PipePrime DEF handlerVars, loopVars
<1>4. LastWords \in Seq(Specs) /\ t \in Seq(Specs)
    BY <1>1, LastSpecs, RecordedTyped
<1>5. SpecSet(c, LastWords) = {} /\ \A a \in BOOLEAN : SpecOrder(a, c, LastWords)
    BY <1>1, LastWordsMarks
<1>6. SpecSet(c, t) = {} /\ SpecOrder(o, c, t)
    BY <1>1, <1>4, <1>5, RecordedMarks
<1> HIDE DEF q, r, o, t
<1>8. /\ r.events = q.events \o t /\ r.todo = q.todo /\ r.mail = q.mail
      /\ r.ready = q.ready /\ r.posts = q.posts /\ r.batch = q.batch
    BY <1>1, <1>3
<1>9. /\ scenario \in Scenarios /\ q \in Pipes /\ r \in Pipes /\ o \in BOOLEAN
      /\ Orderly(o, c, q) /\ t \in Seq(Specs)
    BY <1>1, <1>3, <1>4
<1>7. /\ Orderly(o, c, r) /\ Moved(LineOf(c, q), LineOf(c, r))
      /\ Entire(LineOf(c, r)) = Entire(LineOf(c, q)) /\ LineOf(c, r)[1] = LineOf(c, q)[1]
    BY <1>6, <1>8, <1>9, UnmarkedEvents
<1> QED
    BY <1>1, <1>2, <1>7, DriverMoves DEF q, r, o

(* One step after the other.                                               *)
LEMMA MovedTwice ==
    ASSUME NEW L, NEW M, NEW K, Moved(L, M), Moved(M, K)
    PROVE  Moved(L, K)
BY DEF Moved

(* The success of a node of which the last attempt is not this call.        *)
LEMMA OtherResultKeeps ==
    ASSUME Ground, IInv', MailInv', NEW c \in Calls, ApplyResult, Head(todo).ok,
           c # <<Head(todo).node, attempt[Head(todo).node]>>, ~Cancelled' => ~Cancelled
    PROVE  CallInv(c)'
<1> DEFINE n == Head(todo).node
           s == Spec_(<<n, attempt[n]>>, 0, "output")
           t == Recorded(<<s>>)
           q == Pipe(c)
           m == [q EXCEPT !.todo = Tail(todo)]
           r == Pipe(c)'
           o == Awaited(c)
<1>1. /\ q \in Pipes /\ q.events = events /\ q.todo = todo /\ q.mail = mailbox
      /\ q.ready = ready /\ q.posts = posts[c] /\ q.batch = batch[c].specs
      /\ Orderly(o, c, q) /\ o \in BOOLEAN /\ scenario \in Scenarios /\ Line(c) = LineOf(c, q)
      /\ todo \in Seq(Messages) /\ todo \in Seq(Letters) /\ MailInv
    BY GroundTyped, PipeTyped DEF Sound
<1>2. /\ UNCHANGED <<scenario, attempt, task, handlerVars, givenUp, batch, loopVars, mailbox>>
      /\ events' = events \o t /\ todo' = Tail(todo) /\ todo # <<>> /\ ~IsEvents(Head(todo))
    BY DEF ApplyResult, Append_
<1>3. /\ r \in Pipes /\ r.events = events \o t /\ r.todo = Tail(todo) /\ r.mail = mailbox
      /\ r.ready = ready /\ r.posts = posts[c] /\ r.batch = batch[c].specs
    BY <1>2, PipePrime DEF handlerVars, loopVars
<1>4. /\ m \in Pipes /\ m.events = events /\ m.todo = Tail(todo) /\ m.mail = mailbox
      /\ m.ready = ready /\ m.posts = posts[c] /\ m.batch = batch[c].specs
    <2>1. Tail(todo) \in Seq(Messages)
        BY <1>1, <1>2
    <2> QED
        BY <1>1, <2>1 DEF Pipes
<1>5. s \in Specs /\ <<s>> \in Seq(Specs) /\ t \in Seq(Specs)
    <2>1. n \in Nodes
        BY <1>1, <1>2, ToSetTail, LetterMarks
    <2>2. s \in Specs
        <3>1. <<s>> \in Seq(Specs)
            BY <1>1, <2>1, LastSpecs
        <3> QED
            BY <3>1
    <2> HIDE DEF s
    <2>3. <<s>> \in Seq(Specs)
        BY <2>2
    <2> QED
        BY <2>2, <2>3, RecordedTyped
<1>6. SpecSet(c, t) = {} /\ SpecOrder(o, c, t)
    <2>1. MarkOf(c, s) = {}
        BY DEF MarkOf, Spec_
    <2> HIDE DEF s, o
    <2>2. SpecSet(c, <<s>>) = {} /\ SpecOrder(o, c, <<s>>)
        BY <1>1, <1>5, <2>1, SpecFew
    <2>3. scenario \in Scenarios /\ o \in BOOLEAN
        BY <1>1
    <2> QED
        BY <1>5, <2>2, <2>3, RecordedMarks
<1> HIDE DEF q, r, o, t, m, s
<1>7. /\ Orderly(o, c, m) /\ Moved(Line(c), LineOf(c, m)) /\ LineOf(c, m)[1] = Line(c)[1]
      /\ Told(c) \cap Entire(Line(c)) \subseteq Entire(LineOf(c, m))
    BY <1>2, <1>4, ResultDropped DEF o
<1>8. /\ r.events = m.events \o t /\ r.todo = m.todo /\ r.mail = m.mail
      /\ r.ready = m.ready /\ r.posts = m.posts /\ r.batch = m.batch
    BY <1>3, <1>4
<1>9. /\ Orderly(o, c, r) /\ Moved(LineOf(c, m), LineOf(c, r))
      /\ Entire(LineOf(c, r)) = Entire(LineOf(c, m)) /\ LineOf(c, r)[1] = LineOf(c, m)[1]
    BY <1>1, <1>3, <1>4, <1>5, <1>6, <1>7, <1>8, UnmarkedEvents
<1>10. Moved(Line(c), LineOf(c, r))
    BY <1>7, <1>9, MovedTwice
<1> QED
    BY <1>2, <1>7, <1>9, <1>10, DriverMoves DEF r, o

(* The success of this call: all that its stream says stands before it.     *)
LEMMA OwnResultKeeps ==
    ASSUME Ground, IInv', MailInv', NEW c \in Calls, ApplyResult, Head(todo).ok,
           c = <<Head(todo).node, attempt[Head(todo).node]>>, ~Cancelled' => ~Cancelled
    PROVE  CallInv(c)'
<1> DEFINE s == Spec_(c, 0, "output")
           t == Recorded(<<s>>)
           q == Pipe(c)
           r == Pipe(c)'
           o == Awaited(c)
           N == Len(Chunks(c))
<1>1. /\ q \in Pipes /\ q.events = events /\ q.todo = todo /\ q.mail = mailbox
      /\ q.ready = ready /\ q.posts = posts[c] /\ q.batch = batch[c].specs
      /\ Orderly(o, c, q) /\ o \in BOOLEAN /\ scenario \in Scenarios /\ Line(c) = LineOf(c, q)
      /\ todo \in Seq(Messages) /\ todo \in Seq(Letters) /\ N \in Nat
      /\ Sayings(c) \subseteq 1..N /\ Line(c) \in Lines /\ events \in Seq(Specs)
    BY GroundTyped, PipeTyped DEF Sound
<1>2. /\ UNCHANGED <<scenario, attempt, task, handlerVars, givenUp, batch, loopVars, mailbox>>
      /\ events' = events \o t /\ todo' = Tail(todo) /\ todo # <<>> /\ ~IsEvents(Head(todo))
      /\ drive = "drive"
    BY DEF ApplyResult, Append_
<1>3. /\ r \in Pipes /\ r.events = events \o t /\ r.todo = Tail(todo) /\ r.mail = mailbox
      /\ r.ready = ready /\ r.posts = posts[c] /\ r.batch = batch[c].specs
    BY <1>2, PipePrime DEF handlerVars, loopVars
<1>4. s \in Specs /\ <<s>> \in Seq(Specs) /\ t \in Seq(Specs) /\ Tail(todo) \in Seq(Messages)
    <2>1. s \in Specs
        <3>1. c \in Nodes \X Nat
            BY <1>1, ChunksTyped
        <3> QED
            BY <3>1 DEF Spec_, Specs, Types
    <2> HIDE DEF s
    <2>2. <<s>> \in Seq(Specs)
        BY <2>1
    <2>3. t \in Seq(Specs)
        BY <2>2, RecordedTyped
    <2> QED
        BY <1>1, <1>2, <2>1, <2>2, <2>3
<1>5. SpecSet(c, t) = {N + 2} /\ SpecOrder(o, c, t)
    <2>1. MarkOf(c, s) = {N + 2}
        BY DEF MarkOf, Spec_, Aborted
    <2> HIDE DEF s, o
    <2>2. SpecSet(c, <<s>>) = {N + 2} /\ SpecOrder(o, c, <<s>>)
        BY <1>1, <1>4, <2>1, SpecFew
    <2>3. scenario \in Scenarios /\ o \in BOOLEAN
        BY <1>1
    <2> QED
        BY <1>4, <2>2, <2>3, RecordedMarks
<1>6. MessageMarks(c, Head(todo)) = {N + 2}
    <2>1. Head(todo) \in Letters
        BY <1>1, <1>2, ToSetTail
    <2> QED
        BY <1>1, <1>2, <2>1, LetterMarks
<1> HIDE DEF s, t, r
<1>7. MailOrder(o, c, todo)
    BY <1>1 DEF Orderly, Sorted
<1> HIDE DEF q, o
<1>8. /\ MailSet(c, todo) = {N + 2} \cup MailSet(c, Tail(todo))
      /\ MailOrder(o, c, Tail(todo)) /\ Apart(o, {N + 2}, MailSet(c, Tail(todo)))
    <2>1. scenario \in Scenarios /\ o \in BOOLEAN /\ todo \in Seq(Messages) /\ todo # <<>>
        BY <1>1, <1>2
    <2> QED
        BY <1>6, <1>7, <2>1, MailTail
<1>9. /\ r.events = q.events \o t
      /\ r.mail = q.mail /\ r.ready = q.ready /\ r.posts = q.posts /\ r.batch = q.batch
      /\ MailSet(c, q.todo) = SpecSet(c, t) \cup MailSet(c, r.todo)
      /\ Apart(o, SpecSet(c, t), MailSet(c, r.todo)) /\ MailOrder(o, c, r.todo)
      /\ r.todo \in Seq(Messages)
    BY <1>1, <1>3, <1>4, <1>5, <1>8
<1>10. scenario \in Scenarios /\ q \in Pipes /\ r \in Pipes /\ o \in BOOLEAN /\ Orderly(o, c, q)
    BY <1>1, <1>3
<1>11. Orderly(o, c, r) /\ Shifted(LineOf(c, q), LineOf(c, r), 1, 2)
    BY <1>4, <1>5, <1>9, <1>10, EventsFromTodo
<1>12. /\ LineOf(c, r) \in Lines /\ LineOf(c, q) \in Lines /\ 1 \in Places /\ 2 \in Places
       /\ LineOf(c, q)[1] = SpecSet(c, events) /\ LineOf(c, r)[1] = SpecSet(c, events \o t)
       /\ LineOf(c, q)[2] = MailSet(c, todo)
    <2>1. q.events = events /\ r.events = events \o t /\ q.todo = todo
        BY <1>1, <1>3
    <2>2. 1 \in Places /\ 2 \in Places
        BY DEF Places
    <2> QED
        BY <1>10, <2>1, <2>2, LineTyped
<1>13. Moved(LineOf(c, q), LineOf(c, r)) /\ Entire(LineOf(c, r)) = Entire(LineOf(c, q))
    BY <1>11, <1>12, ShiftedMoves
<1>14. /\ o /\ position[c] = N /\ ~Cancelled
       /\ Told(c) \subseteq Entire(LineOf(c, q))
    <2>1. N + 2 \in Entire(Line(c)) /\ Current(c)
        <3>1. N + 2 \in Line(c)[2]
            BY <1>1, <1>8, <1>12
        <3>2. attempt[c[1]] = c[2]
            OBVIOUS
        <3> QED
            BY <3>1, <3>2 DEF Entire, Current
    <2>2. CallCore(c) /\ Course
        BY GroundTyped
    <2>3. o /\ position[c] = N
        BY <2>1, <2>2 DEF CallCore, Finished, o
    <2>4. ~Cancelled
        BY <1>2, <2>2 DEF Course, Cancelled
    <2> QED
        BY <1>1, <2>2, <2>3, <2>4 DEF CallCore, Whole, o
<1>15. Sayings(c) \subseteq LineOf(c, q)[1]
    <2> SUFFICES ASSUME NEW k \in Sayings(c)
                 PROVE  k \in LineOf(c, q)[1]
        OBVIOUS
    <2>1. k \in Nat /\ k < N + 2 /\ k \in Entire(LineOf(c, q))
        <3>1. k \in 1..N
            BY <1>1
        <3>2. k \in Told(c)
            BY <1>1, <1>14, <3>1 DEF Told
        <3>3. N \in Nat
            BY <1>1
        <3> QED
            BY <1>14, <3>1, <3>2, <3>3
    <2>2. InOrder(TRUE, LineOf(c, q)) /\ Apart(TRUE, {N + 2}, MailSet(c, Tail(todo)))
        BY <1>1, <1>8, <1>14 DEF Orderly
    <2>3. k \notin LineOf(c, q)[2]
        <3>1. N \in Nat /\ k # N + 2
            BY <1>1, <2>1
        <3>2. k \notin MailSet(c, Tail(todo))
            BY <2>1, <2>2, <3>1 DEF Apart
        <3> QED
            BY <1>8, <1>12, <3>1, <3>2
    <2>4. \A j \in {3, 4, 5, 6} : k \notin LineOf(c, q)[j]
        <3> SUFFICES ASSUME NEW j \in {3, 4, 5, 6}, k \in LineOf(c, q)[j]
                     PROVE  FALSE
            OBVIOUS
        <3>1. 2 \in DOMAIN LineOf(c, q) /\ j \in DOMAIN LineOf(c, q) /\ 2 < j
            BY <1>12 DEF Lines, Places
        <3>2. Apart(TRUE, LineOf(c, q)[2], LineOf(c, q)[j])
            BY <2>2, <3>1 DEF InOrder
        <3>3. N + 2 \in LineOf(c, q)[2]
            BY <1>8, <1>12
        <3>4. N + 2 < k
            BY <3>2, <3>3 DEF Apart
        <3> QED
            BY <1>1, <2>1, <3>4
    <2> QED
        BY <2>1, <2>3, <2>4 DEF Entire
<1>16. Sayings(c) \subseteq LineOf(c, r)[1]
    BY <1>13, <1>15 DEF Moved
<1> QED
    BY <1>1, <1>2, <1>11, <1>13, <1>16, DriverMoves DEF r, o

LEMMA DriverKeeps ==
    ASSUME Ground, IInv', MailInv', NEW c \in Calls, DriverStep \/ CancelInvocation
    PROVE  CallInv(c)'
<1>1. Course /\ (DriverStep => (~Cancelled' => ~Cancelled))
    <2>1. Course
        BY GroundTyped
    <2> QED
        BY <2>1, CancelStays
<1>2. CASE Take
    <2>1. ~Cancelled' => ~Cancelled
        BY <1>1, <1>2 DEF DriverStep
    <2> QED
        BY <1>2, <2>1, TakeKeeps DEF Take
<1>3. CASE RecordUserEvents
    BY <1>1, <1>3, RecordKeeps DEF DriverStep
<1>4. CASE ApplyResult
    <2>1. ~Cancelled' => ~Cancelled
        BY <1>1, <1>4 DEF DriverStep
    <2>2. CASE ~Head(todo).ok
        <3>1. /\ todo # <<>> /\ ~IsEvents(Head(todo)) /\ todo' = Tail(todo)
              /\ UNCHANGED <<scenario, attempt, task, handlerVars, givenUp, batch, loopVars,
                             events, mailbox>>
            BY <1>4, <2>2 DEF ApplyResult
        <3> QED
            BY <2>1, <3>1, SkipKeeps
    <2>3. CASE Head(todo).ok
        BY <1>4, <2>1, <2>3, OtherResultKeeps, OwnResultKeeps
    <2> QED
        BY <2>2, <2>3
<1>5. CASE SkipResult
    <2>1. ~Cancelled' => ~Cancelled
        BY <1>1, <1>5 DEF DriverStep
    <2>2. /\ todo # <<>> /\ ~IsEvents(Head(todo)) /\ todo' = Tail(todo)
          /\ UNCHANGED <<scenario, attempt, task, handlerVars, givenUp, batch, loopVars,
                         events, mailbox>>
        BY <1>5 DEF SkipResult
    <2> QED
        BY <2>1, <2>2, SkipKeeps
<1>6. CASE CancelInvocation
    BY <1>6, CancelKeeps
<1>7. CASE AbandonWork
    <2>1. ~Cancelled' => ~Cancelled
        BY <1>1, <1>7 DEF DriverStep
    <2>2. /\ todo = <<>> /\ todo' = mailbox /\ mailbox' = <<>>
          /\ UNCHANGED <<scenario, attempt, task, handlerVars, givenUp, batch, loopVars, events>>
        BY <1>1, <1>7 DEF AbandonWork, Course
    <2> QED
        BY <2>1, <2>2, TakeKeeps
<1>8. CASE Close
    BY <1>1, <1>8, CloseKeeps DEF DriverStep
<1>9. CASE Notify \/ FailInvocation \/ Complete \/ RecordEnd \/ Settle
    <2>1. ~Cancelled' => ~Cancelled
        BY <1>1, <1>9 DEF DriverStep
    <2>2. UNCHANGED <<scenario, attempt, task, handlerVars, givenUp, batch, loopVars, events,
                      todo, mailbox>>
        BY <1>9 DEF Notify, FailInvocation, Complete, RecordEnd, Settle, driverVars
    <2> QED
        BY <2>1, <2>2, SamePipe DEF Alike, handlerVars, loopVars
<1> QED
    BY <1>2, <1>3, <1>4, <1>5, <1>6, <1>7, <1>8, <1>9 DEF DriverStep

(* What stores and sends UserEvents leaves their way here alone.            *)
LEMMA OthersKeep ==
    ASSUME Ground, IInv', MailInv', NEW c \in Calls,
           Commit \/ FollowerStep \/ Heartbeat \/ UNCHANGED vars
    PROVE  CallInv(c)'
<1>1. UNCHANGED <<scenario, attempt, task, handlerVars, givenUp, batch, loopVars, events,
                  todo, mailbox, drive, state>>
    BY DEF Commit, FollowerStep, Wake, Clear, ListUserEvents, LoadUserEvents, SendPage,
       ReadDetail, Continue, Heartbeat, OnlyFollower, vars, driverVars
<1>2. ~Cancelled' => ~Cancelled
    BY <1>1 DEF Cancelled
<1> QED
    BY <1>1, <1>2, SamePipe DEF Alike, handlerVars, loopVars

--------------------------------------------------------------------------------
(* The mailbox takes what is no concern of the call, or refuses it.         *)
LEMMA UnmarkedMail ==
    ASSUME scenario \in Scenarios, NEW c \in Calls, NEW o \in BOOLEAN, NEW q \in Pipes,
           NEW r \in Pipes, Orderly(o, c, q), NEW t \in Seq(Messages),
           r.mail = q.mail \o t \/ r.mail = q.mail,
           r.events = q.events, r.todo = q.todo, r.ready = q.ready, r.posts = q.posts,
           r.batch = q.batch, MailSet(c, t) = {}, MailOrder(o, c, t)
    PROVE  /\ Orderly(o, c, r) /\ Moved(LineOf(c, q), LineOf(c, r))
           /\ Entire(LineOf(c, r)) = Entire(LineOf(c, q)) /\ LineOf(c, r)[1] = LineOf(c, q)[1]
<1>1. LineOf(c, q) \in Lines /\ LineOf(c, r) \in Lines /\ 3 \in Places /\ {} \in Marks
    BY LineTyped DEF Places, Marks
<1>2. CASE r.mail = q.mail \o t
    <2>1. Fresh(o, LineOf(c, q), 3, MailSet(c, t))
        BY DEF Fresh, Apart
    <2>2. Orderly(o, c, r) /\ Added(LineOf(c, q), LineOf(c, r), 3, MailSet(c, t))
        BY <1>2, <2>1, MailGrow
    <2>3. Added(LineOf(c, q), LineOf(c, r), 3, {})
        BY <2>2
    <2> QED
        BY <1>1, <2>2, <2>3, AddedIs
<1>3. CASE r.mail = q.mail
    BY <1>3, PipeShrinks DEF Entire
<1> QED
    BY <1>2, <1>3

(* So does the loop.                                                       *)
LEMMA UnmarkedReady ==
    ASSUME scenario \in Scenarios, NEW c \in Calls, NEW o \in BOOLEAN, NEW q \in Pipes,
           NEW r \in Pipes, Orderly(o, c, q), NEW t \in Seq(Callbacks),
           \/ r.ready = q.ready \o t
           \/ q.ready # <<>> /\ r.ready = Tail(q.ready) /\ CallbackMarks(c, Head(q.ready)) = {},
           r.events = q.events, r.todo = q.todo, r.mail = q.mail, r.posts = q.posts,
           r.batch = q.batch, LoopSet(c, t) = {}, LoopOrder(o, c, t)
    PROVE  /\ Orderly(o, c, r) /\ Moved(LineOf(c, q), LineOf(c, r))
           /\ Entire(LineOf(c, r)) = Entire(LineOf(c, q)) /\ LineOf(c, r)[1] = LineOf(c, q)[1]
<1>1. LineOf(c, q) \in Lines /\ LineOf(c, r) \in Lines /\ 4 \in Places /\ {} \in Marks
    BY LineTyped DEF Places, Marks
<1>2. CASE r.ready = q.ready \o t
    <2>1. Fresh(o, LineOf(c, q), 4, LoopSet(c, t))
        BY DEF Fresh, Apart
    <2>2. Orderly(o, c, r) /\ Added(LineOf(c, q), LineOf(c, r), 4, LoopSet(c, t))
        BY <1>2, <2>1, ReadyGrow
    <2>3. Added(LineOf(c, q), LineOf(c, r), 4, {})
        BY <2>2
    <2> QED
        BY <1>1, <2>2, <2>3, AddedIs
<1>3. CASE q.ready # <<>> /\ r.ready = Tail(q.ready) /\ CallbackMarks(c, Head(q.ready)) = {}
    <2>1. /\ Orderly(o, c, r) /\ Moved(LineOf(c, q), LineOf(c, r))
          /\ LineOf(c, r)[1] = LineOf(c, q)[1] /\ LineOf(c, r)[3] = LineOf(c, q)[3]
          /\ LineOf(c, r)[5] = LineOf(c, q)[5] /\ LineOf(c, r)[6] = LineOf(c, q)[6]
          /\ LineOf(c, r)[2] = LineOf(c, q)[2]
        BY <1>3, PipeShrinks
    <2>2. q.ready \in Seq(Callbacks)
        BY DEF Pipes
    <2>3. LoopSet(c, q.ready) = CallbackMarks(c, Head(q.ready)) \cup LoopSet(c, Tail(q.ready))
        BY <1>3, <2>2, LoopTail
    <2>4. LineOf(c, r)[4] = LineOf(c, q)[4]
        <3>1. LineOf(c, r)[4] = LoopSet(c, r.ready) /\ LineOf(c, q)[4] = LoopSet(c, q.ready)
            BY LineTyped
        <3> QED
            BY <1>3, <2>3, <3>1
    <2> QED
        BY <2>1, <2>4 DEF Entire
<1> QED
    BY <1>2, <1>3

(* A step of another call or of the task of another node.                   *)
LEMMA ForeignKeeps ==
    ASSUME Ground, IInv', MailInv', NEW c \in Calls, Alike(c),
           UNCHANGED <<events, todo, drive, state>>, posts'[c] = posts[c], batch'[c] = batch[c],
           NEW w \in Seq(Messages), mailbox' = Mail(w), MailSet(c, w) = {},
           MailOrder(Awaited(c), c, w),
           NEW u \in Seq(Callbacks),
           \/ ready' = ready \o u
           \/ /\ ready # <<>> /\ ready' = Tail(ready)
              /\ CallbackMarks(c, Head(ready)) = {},
           LoopSet(c, u) = {}, LoopOrder(Awaited(c), c, u),
           \A g : ~HasMarker(c, g, u) /\ Calm(c, g, u),
           \A g, e, f : Due(c, g, e, f, u),
           \A t \in timers' : t[1] = c => t \in timers
    PROVE  CallInv(c)'
<1> DEFINE q == Pipe(c)
           m == [q EXCEPT !.mail = mailbox']
           r == Pipe(c)'
           o == Awaited(c)
           g == batch[c].gen
           e == over[c]
           f == position[c] = Len(Chunks(c))
<1>1. /\ q \in Pipes /\ q.events = events /\ q.todo = todo /\ q.mail = mailbox
      /\ q.ready = ready /\ q.posts = posts[c] /\ q.batch = batch[c].specs
      /\ Orderly(o, c, q) /\ o \in BOOLEAN /\ scenario \in Scenarios /\ Line(c) = LineOf(c, q)
      /\ mailbox \in Seq(Messages) /\ ready \in Seq(Callbacks) /\ posts[c] \in Seq(Callbacks)
      /\ CallCore(c) /\ Markers(c) /\ e \in BOOLEAN /\ g \in Nat
    BY GroundTyped, PipeTyped
<1>2. scenario' = scenario
    BY DEF Alike
<1>3. /\ r \in Pipes /\ r.events = events /\ r.todo = todo /\ r.mail = mailbox'
      /\ r.ready = ready' /\ r.posts = posts[c] /\ r.batch = batch[c].specs
    BY <1>2, PipePrime
<1>4. mailbox' = mailbox \o w \/ mailbox' = mailbox
    BY DEF Mail
<1>5. /\ m \in Pipes /\ m.events = events /\ m.todo = todo /\ m.mail = mailbox'
      /\ m.ready = ready /\ m.posts = posts[c] /\ m.batch = batch[c].specs
    <2>1. mailbox' \in Seq(Messages)
        <3>1. mailbox \o w \in Seq(Messages) /\ mailbox \in Seq(Messages)
            BY <1>1
        <3> QED
            BY <1>4, <3>1
    <2> QED
        BY <1>1, <2>1 DEF Pipes
<1>6. f \in BOOLEAN
    OBVIOUS
<1>7. /\ UNCHANGED <<drive, state>> /\ (Cancelled' <=> Cancelled)
    BY DEF Cancelled
<1> HIDE DEF q, m, r, o, e, f, g
<1>8. /\ Orderly(o, c, m) /\ Moved(LineOf(c, q), LineOf(c, m))
      /\ Entire(LineOf(c, m)) = Entire(LineOf(c, q)) /\ LineOf(c, m)[1] = LineOf(c, q)[1]
    <2>1. /\ m.mail = q.mail \o w \/ m.mail = q.mail
          /\ m.events = q.events /\ m.todo = q.todo /\ m.ready = q.ready /\ m.posts = q.posts
          /\ m.batch = q.batch
        BY <1>1, <1>4, <1>5
    <2>2. /\ scenario \in Scenarios /\ o \in BOOLEAN /\ q \in Pipes /\ m \in Pipes
          /\ Orderly(o, c, q) /\ MailOrder(o, c, w)
        BY <1>1, <1>5 DEF o
    <2> QED
        BY <2>1, <2>2, UnmarkedMail
<1>9. /\ Orderly(o, c, r) /\ Moved(LineOf(c, m), LineOf(c, r))
      /\ Entire(LineOf(c, r)) = Entire(LineOf(c, m)) /\ LineOf(c, r)[1] = LineOf(c, m)[1]
    <2>1. /\ \/ r.ready = m.ready \o u
             \/ m.ready # <<>> /\ r.ready = Tail(m.ready) /\ CallbackMarks(c, Head(m.ready)) = {}
          /\ r.events = m.events /\ r.todo = m.todo /\ r.mail = m.mail /\ r.posts = m.posts
          /\ r.batch = m.batch
        BY <1>3, <1>5
    <2>2. /\ scenario \in Scenarios /\ o \in BOOLEAN /\ m \in Pipes /\ r \in Pipes
          /\ Orderly(o, c, m) /\ LoopOrder(o, c, u)
        BY <1>1, <1>3, <1>5, <1>8 DEF o
    <2> QED
        BY <2>1, <2>2, UnmarkedReady
<1>10. Moved(LineOf(c, q), LineOf(c, r))
    BY <1>8, <1>9, MovedTwice
<1>11. o /\ <<c, g>> \in timers' => Looped(LineOf(c, r)) = {}
    <2> SUFFICES ASSUME o, <<c, g>> \in timers'
                 PROVE  Looped(LineOf(c, r)) = {}
        OBVIOUS
    <2>1. <<c, g>> \in timers
        OBVIOUS
    <2>2. Looped(Line(c)) = {}
        BY <1>1, <2>1 DEF CallCore, Phases, o, g
    <2> QED
        BY <1>1, <1>10, <2>2 DEF Moved
<1>12. MarkersOf(c, g, e, f, ready', posts[c], timers')
    <2>1. MarkersOf(c, g, e, f, ready, posts[c], timers)
        BY <1>1 DEF Markers, e, f, g
    <2>2. /\ Calm(c, g, ready) /\ Calm(c, g, posts[c]) /\ Due(c, g, e, f, ready)
          /\ Due(c, g, e, f, posts[c]) /\ (HasMarker(c, g, ready) => LoopSet(c, posts[c]) = {})
          /\ \A t \in timers : t[1] = c => t[2] \in 0..g
        BY <2>1 DEF MarkersOf
    <2>3. CASE ready' = ready \o u
        <3>1. /\ HasMarker(c, g, ready \o u) <=> HasMarker(c, g, ready) \/ HasMarker(c, g, u)
              /\ Due(c, g, e, f, ready \o u) <=> Due(c, g, e, f, ready) /\ Due(c, g, e, f, u)
              /\ Calm(c, g, ready) /\ Calm(c, g, u) /\ (HasMarker(c, g, ready) => LoopSet(c, u) = {})
                  => Calm(c, g, ready \o u)
            BY <1>1, <1>6, MarkerConcat
        <3>2. Calm(c, g, ready') /\ Due(c, g, e, f, ready')
              /\ (HasMarker(c, g, ready') => LoopSet(c, posts[c]) = {})
            BY <2>2, <2>3, <3>1
        <3> QED
            BY <2>2, <3>2 DEF MarkersOf
    <2>4. CASE ready # <<>> /\ ready' = Tail(ready)
        <3>1. /\ HasMarker(c, g, ready) <=> IsMarker(c, g, Head(ready)) \/ HasMarker(c, g, Tail(ready))
              /\ Due(c, g, e, f, ready) <=> Fits(c, g, e, f, Head(ready)) /\ Due(c, g, e, f, Tail(ready))
              /\ Calm(c, g, ready) => Calm(c, g, Tail(ready))
            BY <1>1, <1>6, <2>4, MarkerTail
        <3>2. Calm(c, g, ready') /\ Due(c, g, e, f, ready')
              /\ (HasMarker(c, g, ready') => LoopSet(c, posts[c]) = {})
            BY <2>2, <2>4, <3>1
        <3> QED
            BY <2>2, <3>2 DEF MarkersOf
    <2> QED
        BY <2>3, <2>4
<1>13. Orderly(Awaited(c), c, Pipe(c)') /\ Moved(Line(c), LineOf(c, Pipe(c)'))
    BY <1>1, <1>9, <1>10 DEF o, r
<1>14. LineOf(c, Pipe(c)')[1] = Line(c)[1] /\ Entire(LineOf(c, Pipe(c)')) = Entire(Line(c))
    BY <1>1, <1>8, <1>9 DEF r
<1>15. MarkersOf(c, batch'[c].gen, over[c], position[c] = Len(Chunks(c)), ready', posts'[c], timers')
    BY <1>12 DEF e, f, g
<1>16. Awaited(c) /\ <<c, batch'[c].gen>> \in timers' => Looped(LineOf(c, Pipe(c)')) = {}
    BY <1>11 DEF g, o, r
<1> QED
    BY <1>7, <1>13, <1>14, <1>15, <1>16, CallStep

LEMMA MailNothing ==
    ASSUME mailbox \in Seq(Messages)
    PROVE  mailbox = Mail(<<>>) /\ <<>> \in Seq(Messages)
BY DEF Mail

LEMMA PublishedIs ==
    ASSUME NEW b, NEW S, b.specs \in Seq(S)
    PROVE  Published(b) = IF Full(b) THEN Flushed(b) ELSE <<>>
<1>1. Full(b) => b.specs # <<>>
    BY ScenarioAssumption DEF Full
<1> QED
    BY <1>1 DEF Published, Flushed

(* The loop is left as it is.                                              *)
LEMMA ForeignMailKeeps ==
    ASSUME Ground, IInv', MailInv', NEW c \in Calls, Alike(c),
           UNCHANGED <<events, todo, drive, state, ready>>, posts'[c] = posts[c],
           batch'[c] = batch[c],
           NEW w \in Seq(Messages), mailbox' = Mail(w), MailSet(c, w) = {},
           MailOrder(Awaited(c), c, w),
           \A t \in timers' : t[1] = c => t \in timers
    PROVE  CallInv(c)'
<1>1. ready \in Seq(Callbacks) /\ scenario \in Scenarios /\ Awaited(c) \in BOOLEAN
    BY GroundTyped
<1>2. <<>> \in Seq(Callbacks)
    OBVIOUS
<1>3. ready' = ready \o <<>>
    BY <1>1
<1>4. LoopSet(c, <<>>) = {} /\ LoopOrder(Awaited(c), c, <<>>)
    BY <1>1, LoopFew
<1>5. \A g : ~HasMarker(c, g, <<>>) /\ Calm(c, g, <<>>)
    BY DEF HasMarker, Calm
<1>6. \A g, e, f : Due(c, g, e, f, <<>>)
    BY DEF Due
<1> QED
    BY <1>2, <1>3, <1>4, <1>5, <1>6, ForeignKeeps

(* The mailbox is left as it is, too.                                      *)
LEMMA ForeignLoopKeeps ==
    ASSUME Ground, IInv', MailInv', NEW c \in Calls, Alike(c),
           UNCHANGED <<events, todo, drive, state, mailbox>>, posts'[c] = posts[c],
           batch'[c] = batch[c], NEW d \in Calls, c # d,
           NEW u \in Seq(Own(d)), ready' = ready \o u,
           \A t \in timers' : t[1] = c => t \in timers
    PROVE  CallInv(c)'
<1>1. mailbox \in Seq(Messages) /\ scenario \in Scenarios /\ Awaited(c) \in BOOLEAN
    BY GroundTyped
<1>2. mailbox' = Mail(<<>>) /\ <<>> \in Seq(Messages)
    BY <1>1, MailNothing
<1>3. MailSet(c, <<>>) = {} /\ MailOrder(Awaited(c), c, <<>>)
    BY <1>1, MailFew
<1>4. u \in Seq(Callbacks)
    BY <1>1, Wider, WiderSeq
<1>5. /\ LoopSet(c, u) = {} /\ LoopOrder(Awaited(c), c, u)
      /\ \A g : ~HasMarker(c, g, u) /\ Calm(c, g, u)
      /\ \A g, e, f : Due(c, g, e, f, u)
    BY <1>1, OthersChunks
<1> QED
    BY <1>2, <1>3, <1>4, <1>5, ForeignKeeps

(* What another call puts into the mailbox.                                 *)
LEMMA ForeignMail ==
    ASSUME scenario \in Scenarios, NEW c \in Calls, NEW d \in Calls, c # d, NEW ok \in BOOLEAN,
           NEW b, b.specs \in Seq(ChunkSpecs(d)), NEW o \in BOOLEAN
    PROVE  /\ Flushed(b) \in Seq(Messages) /\ MailSet(c, Flushed(b)) = {}
           /\ MailOrder(o, c, Flushed(b))
           /\ Flushed(b) \o Farewell(d, ok) \in Seq(Messages)
           /\ MailSet(c, Flushed(b) \o Farewell(d, ok)) = {}
           /\ MailOrder(o, c, Flushed(b) \o Farewell(d, ok))
<1>1. b.specs \in Seq(Specs)
    BY Wider, WiderSeq
<1>2. SpecSet(c, b.specs) = {} /\ SpecOrder(o, c, b.specs)
    BY OthersChunks
<1>3. /\ Flushed(b) \in Seq(Messages) /\ MailSet(c, Flushed(b)) = {}
      /\ MailOrder(o, c, Flushed(b))
    BY <1>1, <1>2, FlushedMarks
<1>4. /\ Farewell(d, ok) \in Seq(Messages) /\ MailSet(c, Farewell(d, ok)) = {}
      /\ MailOrder(o, c, Farewell(d, ok))
    <2>1. MailSet(c, Farewell(d, ok)) \subseteq {}
        BY FarewellMarks
    <2> QED
        BY <2>1, FarewellMarks
<1>5. Apart(o, {}, {})
    BY DEF Apart
<1> DEFINE s == Flushed(b)
           t == Farewell(d, ok)
<1>6. /\ s \in Seq(Messages) /\ MailSet(c, s) = {} /\ MailOrder(o, c, s)
      /\ t \in Seq(Messages) /\ MailSet(c, t) = {} /\ MailOrder(o, c, t)
    BY <1>3, <1>4
<1> HIDE DEF s, t
<1>7. MailSet(c, s \o t) = MailSet(c, s) \cup MailSet(c, t) /\ MailOrder(o, c, s \o t)
    <2>1. Apart(o, MailSet(c, s), MailSet(c, t))
        BY <1>5, <1>6
    <2>2. /\ s \in Seq(Messages) /\ t \in Seq(Messages)
          /\ MailOrder(o, c, s) /\ MailOrder(o, c, t)
        BY <1>6
    <2> QED
        BY <2>1, <2>2, MailConcat
<1>8. s \o t \in Seq(Messages)
    BY <1>6
<1>9. MailSet(c, s \o t) = {}
    BY <1>6, <1>7
<1> QED
    BY <1>3, <1>7, <1>8, <1>9 DEF s, t

(* The end of another call: it was under way, and of one node only one call  *)
(* is under way at a time.                                                 *)
LEMMA OtherTask ==
    ASSUME Ground, NEW c \in Calls, NEW d \in Calls, c # d, Current(d),
           task[d[1]] \in {"streaming", "closing"},
           NEW v, task' = [task EXCEPT ![d[1]] = v]
    PROVE  /\ Current(c) => task'[c[1]] = task[c[1]]
           /\ task[c[1]] = "done" => task'[c[1]] = "done"
<1>1. c \in Nodes \X Nat /\ d \in Nodes \X Nat /\ Course
    BY GroundTyped, ChunksTyped
<1>2. c[1] # d[1] => task'[c[1]] = task[c[1]]
    BY <1>1 DEF Course
<1>3. c[1] = d[1] => ~Current(c)
    BY <1>1 DEF Current
<1> QED
    BY <1>2, <1>3

LEMMA ForeignConcludes ==
    ASSUME Ground, IInv', MailInv', NEW c \in Calls, NEW d \in Calls, c # d, NEW ok \in BOOLEAN,
           Conclude(d, ok), Current(d), task[d[1]] \in {"streaming", "closing"},
           UNCHANGED <<scenario, attempt, position, timers, events, todo, drive, state, ready>>,
           over'[c] = over[c], posts'[c] = posts[c], c \in givenUp' <=> c \in givenUp
    PROVE  CallInv(c)'
<1>1. /\ scenario \in Scenarios /\ Awaited(c) \in BOOLEAN /\ IInv /\ Sound
      /\ batch[d].specs \in Seq(ChunkSpecs(d))
    BY GroundTyped DEF Sound
<1>2. /\ mailbox' = Mail(Flushed(batch[d]) \o Farewell(d, ok))
      /\ batch' = [batch EXCEPT ![d] = Taken(batch[d])]
    BY <1>1, ConcludeSound
<1>3. batch'[c] = batch[c]
    BY <1>1, <1>2 DEF IInv, BatcherTypeOK
<1>4. /\ Current(c) => task'[c[1]] = task[c[1]]
      /\ task[c[1]] = "done" => task'[c[1]] = "done"
    BY OtherTask DEF Conclude
<1>5. Alike(c)
    BY <1>4 DEF Alike
<1> DEFINE w == Flushed(batch[d]) \o Farewell(d, ok)
<1>6. w \in Seq(Messages) /\ MailSet(c, w) = {} /\ MailOrder(Awaited(c), c, w)
    BY <1>1, ForeignMail
<1>7. mailbox' = Mail(w)
    BY <1>2
<1> HIDE DEF w
<1> QED
    BY <1>3, <1>5, <1>6, <1>7, ForeignMailKeeps

LEMMA ForeignChunk ==
    ASSUME Ground, IInv', MailInv', NEW c \in Calls, NEW d \in Calls, c # d, NextChunk(d)
    PROVE  CallInv(c)'
<1> DEFINE specs == Mapped(d, position[d] + 1)
           grown == Grown(batch[d], specs)
           w == Published(grown)
           u == Deadlines(d, batch[d], specs)
<1>1. /\ scenario \in Scenarios /\ Awaited(c) \in BOOLEAN /\ IInv /\ Sound
      /\ batch[d].specs \in Seq(ChunkSpecs(d)) /\ batch[d] \in Batches
      /\ mailbox \in Seq(Messages) /\ position[d] \in Nat /\ ready \in Seq(Callbacks)
      /\ Len(Chunks(d)) \in Nat
    BY GroundTyped DEF Sound
<1>2. /\ UNCHANGED <<scenario, attempt, task, over, givenUp, timers, events, todo, drive, state>>
      /\ \A x \in Calls : x # d =>
            position'[x] = position[x] /\ posts'[x] = posts[x] /\ batch'[x] = batch[x]
      /\ position[d] < Len(Chunks(d))
    BY <1>1 DEF NextChunk, driverVars, IInv, BatcherTypeOK
<1>3. Alike(c)
    BY <1>2 DEF Alike
<1>4. specs \in Seq(ChunkSpecs(d))
    BY <1>1, <1>2, MappedChunk
<1>5. grown.specs \in Seq(ChunkSpecs(d))
    BY <1>1, <1>4, GrownSound
<1>6. specs \in Seq(Specs)
    <2> HIDE DEF specs
    <2> QED
        BY <1>1, <1>4, Wider, WiderSeq
<1>7. u \in Seq(Own(d))
    BY <1>1, <1>6, DeadlinesSound
<1>8. CASE Mode(d) = "sync"
    <2>1. UNCHANGED <<ready, mailbox>>
        BY <1>8 DEF NextChunk
    <2>2. ready' = ready \o <<>> /\ <<>> \in Seq(Own(d))
        BY <1>1, <2>1
    <2> QED
        BY <1>2, <1>3, <2>1, <2>2, ForeignLoopKeeps
<1>9. CASE Mode(d) # "sync"
    <2>1. ready' = ready \o u /\ mailbox' = Mail(w)
        BY <1>9 DEF NextChunk
    <2> HIDE DEF specs, grown, u
    <2>2. w = IF Full(grown) THEN Flushed(grown) ELSE <<>>
        BY <1>5, PublishedIs
    <2>3. /\ Flushed(grown) \in Seq(Messages) /\ MailSet(c, Flushed(grown)) = {}
          /\ MailOrder(Awaited(c), c, Flushed(grown))
        BY <1>1, <1>5, ForeignMail
    <2>4. <<>> \in Seq(Messages) /\ MailSet(c, <<>>) = {} /\ MailOrder(Awaited(c), c, <<>>)
        BY <1>1, MailFew
    <2>5. w \in Seq(Messages) /\ MailSet(c, w) = {} /\ MailOrder(Awaited(c), c, w)
        BY <2>2, <2>3, <2>4
    <2>6. u \in Seq(Callbacks)
        BY <1>1, <1>7, Wider, WiderSeq
    <2>7. /\ LoopSet(c, u) = {} /\ LoopOrder(Awaited(c), c, u)
          /\ \A g : ~HasMarker(c, g, u) /\ Calm(c, g, u)
          /\ \A g, e, f : Due(c, g, e, f, u)
        BY <1>1, <1>7, OthersChunks
    <2> HIDE DEF w
    <2>8. /\ posts'[c] = posts[c] /\ batch'[c] = batch[c]
          /\ UNCHANGED <<events, todo, drive, state>> /\ \A t \in timers' : t[1] = c => t \in timers
        BY <1>2
    <2> QED
        BY <1>3, <2>1, <2>5, <2>6, <2>7, <2>8, ForeignKeeps
<1> QED
    BY <1>8, <1>9

LEMMA ForeignPost ==
    ASSUME Ground, IInv', MailInv', NEW c \in Calls, NEW d \in Calls, c # d, Post(d)
    PROVE  CallInv(c)'
<1>1. IInv /\ Sound /\ ready \in Seq(Callbacks) /\ scenario \in Scenarios
    BY GroundTyped
<1>2. Head(posts[d]) \in Own(d)
    BY <1>1, PostSound
<1>3. Head(posts[d]) \in Callbacks
    BY <1>1, <1>2, Wider
<1>4. /\ UNCHANGED <<scenario, attempt, task, over, position, givenUp, timers, events, todo,
                     drive, state, mailbox, batch>>
      /\ posts'[c] = posts[c] /\ ready' = Append(ready, Head(posts[d]))
    BY <1>1 DEF Post, driverVars, IInv, BatcherTypeOK
<1>5. ready' = ready \o <<Head(posts[d])>> /\ <<Head(posts[d])>> \in Seq(Own(d))
    BY <1>1, <1>2, <1>3, <1>4
<1>6. Alike(c)
    BY <1>4 DEF Alike
<1>7. /\ UNCHANGED <<events, todo, drive, state, mailbox>> /\ posts'[c] = posts[c]
      /\ batch'[c] = batch[c] /\ \A t \in timers' : t[1] = c => t \in timers
    BY <1>4
<1> QED
    BY <1>5, <1>6, <1>7, ForeignLoopKeeps

(* Nothing but the task of another node, or what its thread hands over.      *)
LEMMA ForeignElse ==
    ASSUME Ground, IInv', MailInv', NEW c \in Calls, Alike(c),
           UNCHANGED <<events, todo, drive, state, mailbox, ready, timers>>,
           posts'[c] = posts[c], batch'[c] = batch[c]
    PROVE  CallInv(c)'
<1>1. ~Cancelled' => ~Cancelled
    BY DEF Cancelled
<1> QED
    BY <1>1, SamePipe

LEMMA ForeignEnd ==
    ASSUME Ground, IInv', MailInv', NEW c \in Calls, NEW d \in Calls, c # d,
           NEW ok \in BOOLEAN, EndStream(d, ok)
    PROVE  CallInv(c)'
<1>1. IInv /\ Course
    BY GroundTyped
<1>2. /\ UNCHANGED <<scenario, attempt, position, givenUp, ready, timers, events, todo, drive,
                     state>>
      /\ posts'[c] = posts[c] /\ over'[c] = over[c]
    BY <1>1 DEF EndStream, driverVars, loopVars, IInv, BatcherTypeOK, Course
<1>3. CASE Mode(d) = "sync"
    <2>1. UNCHANGED <<batch, mailbox, task>>
        BY <1>3 DEF EndStream
    <2> QED
        BY <1>2, <2>1, ForeignElse DEF Alike
<1>4. CASE Mode(d) # "sync"
    <2>1. Streaming(d)
        BY <1>4 DEF EndStream
    <2>2. Current(d) /\ task[d[1]] \in {"streaming", "closing"}
        BY <2>1 DEF Streaming
    <2>3. CASE ok
        <3>1. Conclude(d, TRUE) /\ TRUE \in BOOLEAN
            BY <1>4, <2>3 DEF EndStream
        <3> QED
            BY <1>2, <2>2, <3>1, ForeignConcludes
    <2>4. CASE ~ok
        <3>1. task' = [task EXCEPT ![d[1]] = "closing"] /\ UNCHANGED <<batch, mailbox>>
            BY <1>4, <2>4 DEF EndStream
        <3>2. /\ Current(c) => task'[c[1]] = task[c[1]]
              /\ task[c[1]] = "done" => task'[c[1]] = "done"
            BY <2>2, <3>1, OtherTask
        <3> QED
            BY <1>2, <3>1, <3>2, ForeignElse DEF Alike
    <2> QED
        BY <2>3, <2>4
<1> QED
    BY <1>3, <1>4

LEMMA ForeignFlush ==
    ASSUME Ground, IInv', MailInv', NEW c \in Calls, NEW d \in Calls, c # d, NEW g,
           FlushGeneration(d, g)
    PROVE  CallInv(c)'
<1>1. /\ scenario \in Scenarios /\ Awaited(c) \in BOOLEAN /\ IInv /\ Sound
      /\ batch[d].specs \in Seq(ChunkSpecs(d)) /\ mailbox \in Seq(Messages)
    BY GroundTyped DEF Sound
<1>2. /\ UNCHANGED <<scenario, attempt, task, position, over, posts, givenUp, ready, events,
                     todo, drive, state>>
      /\ \A t \in timers' : t \in timers
    BY DEF FlushGeneration, handlerVars, driverVars
<1>3. Alike(c)
    BY <1>2 DEF Alike
<1>4. CASE batch[d].gen = g
    <2>1. mailbox' = Mail(Flushed(batch[d])) /\ batch'[c] = batch[c]
        BY <1>1, <1>4 DEF FlushGeneration, IInv, BatcherTypeOK
    <2>2. /\ Flushed(batch[d]) \in Seq(Messages) /\ MailSet(c, Flushed(batch[d])) = {}
          /\ MailOrder(Awaited(c), c, Flushed(batch[d]))
        BY <1>1, ForeignMail
    <2> QED
        BY <1>2, <1>3, <2>1, <2>2, ForeignMailKeeps
<1>5. CASE batch[d].gen # g
    <2>1. mailbox' = mailbox /\ batch'[c] = batch[c]
        BY <1>5 DEF FlushGeneration
    <2>2. mailbox' = Mail(<<>>) /\ <<>> \in Seq(Messages)
        BY <1>1, <2>1, MailNothing
    <2>3. MailSet(c, <<>>) = {} /\ MailOrder(Awaited(c), c, <<>>)
        BY <1>1, MailFew
    <2> QED
        BY <1>2, <1>3, <2>1, <2>2, <2>3, ForeignMailKeeps
<1> QED
    BY <1>4, <1>5

LEMMA ForeignGiveUp ==
    ASSUME Ground, IInv', MailInv', NEW c \in Calls, NEW d \in Calls, c # d, GiveUp(d)
    PROVE  CallInv(c)'
<1>1. IInv /\ Course
    BY GroundTyped
<1>2. /\ UNCHANGED <<scenario, attempt, position, posts, ready, timers, events, todo, drive, state>>
      /\ over'[c] = over[c] /\ (c \in givenUp' <=> c \in givenUp)
      /\ Current(d) /\ task[d[1]] \in {"streaming", "closing"}
    BY <1>1 DEF GiveUp, driverVars, loopVars, Streaming, Course
<1>3. CASE Mode(d) = "sync"
    <2>1. Conclude(d, FALSE) /\ FALSE \in BOOLEAN
        BY <1>3 DEF GiveUp
    <2> QED
        BY <1>2, <2>1, ForeignConcludes
<1>4. CASE Mode(d) # "sync"
    <2>1. task' = [task EXCEPT ![d[1]] = "closing"] /\ UNCHANGED <<mailbox, batch>>
        BY <1>4 DEF GiveUp
    <2>2. /\ Current(c) => task'[c[1]] = task[c[1]]
          /\ task[c[1]] = "done" => task'[c[1]] = "done"
        BY <1>2, <2>1, OtherTask
    <2> QED
        BY <1>2, <2>1, <2>2, ForeignElse DEF Alike
<1> QED
    BY <1>3, <1>4

LEMMA ForeignCloseSource ==
    ASSUME Ground, IInv', MailInv', NEW c \in Calls, NEW d \in Calls, c # d, CloseSource(d)
    PROVE  CallInv(c)'
<1>1. /\ UNCHANGED <<scenario, attempt, position, over, posts, givenUp, ready, timers, events,
                     todo, drive, state>>
      /\ Current(d) /\ task[d[1]] \in {"streaming", "closing"} /\ Conclude(d, FALSE)
      /\ FALSE \in BOOLEAN
    BY DEF CloseSource, driverVars, loopVars, handlerVars
<1> QED
    BY <1>1, ForeignConcludes

LEMMA ForeignCallback ==
    ASSUME Ground, IInv', MailInv', NEW c \in Calls, NEW d \in Calls, c # d, RunCallback,
           Head(ready) \in Own(d)
    PROVE  CallInv(c)'
<1> DEFINE b == Head(ready)
<1>1. /\ scenario \in Scenarios /\ Awaited(c) \in BOOLEAN /\ IInv /\ Sound
      /\ batch[d].specs \in Seq(ChunkSpecs(d)) /\ mailbox \in Seq(Messages)
    BY GroundTyped DEF Sound
<1>2. /\ UNCHANGED <<scenario, attempt, position, over, posts, givenUp, events, todo, drive, state>>
      /\ ready # <<>> /\ ready' = Tail(ready)
    BY DEF RunCallback, handlerVars, driverVars
<1>3. b \in Callbacks /\ <<b>> \in Seq(Own(d))
    BY <1>1, Wider
<1>4. CallbackMarks(c, b) = {}
    <2> HIDE DEF b
    <2>1. LoopSet(c, <<b>>) = {}
        BY <1>1, <1>3, OthersChunks
    <2> QED
        BY <1>1, <1>3, <2>1, LoopFew
<1>5. <<>> \in Seq(Callbacks) /\ LoopSet(c, <<>>) = {} /\ LoopOrder(Awaited(c), c, <<>>)
    BY <1>1, LoopFew
<1>6. \A g : ~HasMarker(c, g, <<>>) /\ Calm(c, g, <<>>)
    BY DEF HasMarker, Calm
<1>7. \A g, e, f : Due(c, g, e, f, <<>>)
    BY DEF Due
<1>8. SUFFICES /\ Alike(c) /\ batch'[c] = batch[c] /\ \A t \in timers' : t[1] = c => t \in timers
               /\ \E w \in Seq(Messages) :
                     mailbox' = Mail(w) /\ MailSet(c, w) = {} /\ MailOrder(Awaited(c), c, w)
    <2>1. /\ posts'[c] = posts[c] /\ UNCHANGED <<events, todo, drive, state>>
          /\ ready # <<>> /\ ready' = Tail(ready) /\ CallbackMarks(c, Head(ready)) = {}
        BY <1>2, <1>4
    <2> QED
        BY <1>5, <1>6, <1>7, <2>1, ForeignKeeps
<1>9. <<>> \in Seq(Messages) /\ MailSet(c, <<>>) = {} /\ MailOrder(Awaited(c), c, <<>>)
    BY <1>1, MailFew
<1>10. CASE b.do = "put"
    <2>1. mailbox' = Mail(<<b.message>>) /\ UNCHANGED <<timers, batch, task>>
        BY <1>10 DEF RunCallback
    <2>2. b.message.kind = "user_event" /\ b.message.specs \in Seq(ChunkSpecs(d))
        BY <1>10 DEF Own
    <2>3. b.message \in Messages
        BY <1>3, <1>10 DEF Callbacks, Messages
    <2>4. /\ SpecSet(c, b.message.specs) = {}
          /\ SpecOrder(Awaited(c), c, b.message.specs)
        BY <1>1, <2>2, OthersChunks
    <2>5. MessageMarks(c, b.message) = {} /\ Neat(Awaited(c), c, b.message)
        BY <2>2, <2>4 DEF MessageMarks, Neat
    <2> HIDE DEF b
    <2> DEFINE w == <<b.message>>
    <2>6. w \in Seq(Messages) /\ MailSet(c, w) = {} /\ MailOrder(Awaited(c), c, w)
        BY <1>1, <2>3, <2>5, MailFew
    <2> QED
        <3>1. mailbox' = Mail(w)
            BY <2>1
        <3>2. Alike(c)
            BY <1>2, <2>1 DEF Alike
        <3> HIDE DEF w
        <3> QED
            BY <2>1, <2>6, <3>1, <3>2
<1>11. CASE b.do = "deadline"
    <2>1. /\ timers' = timers \cup {<<d, b.gen>>} /\ UNCHANGED <<mailbox, batch, task>>
        BY <1>11 DEF RunCallback, Own
    <2>2. mailbox' = Mail(<<>>)
        BY <1>1, <2>1, MailNothing
    <2> QED
        <3> HIDE DEF b
        <3>1. Alike(c)
            BY <1>2, <2>1 DEF Alike
        <3>2. \A t \in timers' : t[1] = c => t \in timers
            BY <2>1
        <3> QED
            BY <1>9, <2>1, <2>2, <3>1, <3>2
<1>12. CASE b.do = "ended"
    <2>1. b.call = d /\ b.ok \in BOOLEAN
        BY <1>12 DEF Own
    <2>2. /\ timers' = timers
          /\ IF Streaming(d) THEN Conclude(d, b.ok) ELSE UNCHANGED <<mailbox, batch, task>>
        BY <1>12, <2>1 DEF RunCallback
    <2>3. CASE Streaming(d)
        <3>1. /\ mailbox' = Mail(Flushed(batch[d]) \o Farewell(d, b.ok))
              /\ batch' = [batch EXCEPT ![d] = Taken(batch[d])]
            BY <1>1, <2>1, <2>2, <2>3, ConcludeSound
        <3>2. batch'[c] = batch[c]
            BY <1>1, <3>1 DEF IInv, BatcherTypeOK
        <3>3. Current(d) /\ task[d[1]] \in {"streaming", "closing"}
            BY <2>3 DEF Streaming
        <3>4. /\ Current(c) => task'[c[1]] = task[c[1]]
              /\ task[c[1]] = "done" => task'[c[1]] = "done"
            BY <2>2, <2>3, <3>3, OtherTask DEF Conclude
        <3> DEFINE w == Flushed(batch[d]) \o Farewell(d, b.ok)
        <3>5. w \in Seq(Messages) /\ MailSet(c, w) = {} /\ MailOrder(Awaited(c), c, w)
            BY <1>1, <2>1, ForeignMail
        <3>6. mailbox' = Mail(w)
            BY <3>1
        <3> HIDE DEF w
        <3> QED
            <4>1. Alike(c)
                BY <1>2, <3>4 DEF Alike
            <4>2. \A t \in timers' : t[1] = c => t \in timers
                BY <2>2
            <4> QED
                BY <3>2, <3>5, <3>6, <4>1, <4>2
    <2>4. CASE ~Streaming(d)
        <3>1. mailbox' = Mail(<<>>)
            BY <1>1, <2>2, <2>4, MailNothing
        <3> QED
            BY <1>2, <1>9, <2>2, <2>4, <3>1 DEF Alike
    <2> QED
        BY <2>3, <2>4
<1> QED
    BY <1>10, <1>11, <1>12 DEF Own

(* The task of another node goes on.                                       *)
LEMMA ForeignContinue ==
    ASSUME Ground, IInv', MailInv', NEW c \in Calls, NEW n \in Nodes, c[1] # n, ContinueTask(n)
    PROVE  CallInv(c)'
<1>1. /\ scenario \in Scenarios /\ Awaited(c) \in BOOLEAN /\ MailInv /\ Course
      /\ mailbox \in Seq(Messages) /\ c[1] \in Nodes
    BY GroundTyped
<1>2. UNCHANGED <<scenario, position, over, posts, givenUp, batch, ready, timers, events, todo,
                  drive, state>>
    BY DEF ContinueTask, handlerVars, loopVars, driverVars
<1>3. attempt'[c[1]] = attempt[c[1]] /\ task'[c[1]] = task[c[1]]
    BY <1>1 DEF ContinueTask, MailInv, Course
<1>4. Alike(c)
    BY <1>2, <1>3 DEF Alike
<1>5. CASE mailbox' = mailbox
    BY <1>2, <1>4, <1>5, ForeignElse
<1>6. CASE mailbox' = Mail(<<Result(n, task[n] = "succeeded" /\ drive # "abandon")>>)
    <2> DEFINE ok == task[n] = "succeeded" /\ drive # "abandon"
               m == Result(n, ok)
               w == <<m>>
    <2>1. m \in Messages
        BY DEF Result, Messages
    <2>2. MessageMarks(c, m) = {} /\ Neat(Awaited(c), c, m)
        BY DEF MessageMarks, Neat, Result
    <2>3. mailbox' = Mail(w)
        BY <1>6
    <2> HIDE DEF m
    <2>4. w \in Seq(Messages) /\ MailSet(c, w) = {} /\ MailOrder(Awaited(c), c, w)
        BY <1>1, <2>1, <2>2, MailFew
    <2> HIDE DEF w
    <2>5. /\ UNCHANGED <<events, todo, drive, state, ready>> /\ posts'[c] = posts[c]
          /\ batch'[c] = batch[c] /\ \A t \in timers' : t[1] = c => t \in timers
        BY <1>2
    <2> QED
        BY <1>4, <2>3, <2>4, <2>5, ForeignMailKeeps
<1> QED
    BY <1>5, <1>6 DEF ContinueTask

--------------------------------------------------------------------------------
(* The steps of a call itself, and of its task: all there is to show.       *)
LEMMA OwnPrimes ==
    ASSUME NEW c \in Calls, scenario' = scenario
    PROVE  /\ Chunks(c)' = Chunks(c) /\ Sayings(c)' = Sayings(c) /\ Mode(c)' = Mode(c)
           /\ Line(c)' = LineOf(c, Pipe(c)')
           /\ Current(c)' <=> attempt'[c[1]] = c[2]
           /\ Streaming(c)' <=> Current(c)' /\ task'[c[1]] = "streaming"
           /\ Concluded(c)' <=>
                 c[2] < attempt'[c[1]] \/ (Current(c)' /\ task'[c[1]] \notin {"streaming", "closing"})
           /\ Awaited(c)' <=> Mode(c) = "async" \/ c \notin givenUp'
           /\ \A k : k \in Told(c)' <=> k \in Sayings(c) /\ k <= position'[c]
<1>1. Chunks(c)' = Chunks(c) /\ Sayings(c)' = Sayings(c) /\ Mode(c)' = Mode(c)
    BY SoundSets
<1>2. Line(c)' = LineOf(c, Pipe(c)')
    BY LinePrime
<1>3. /\ Current(c)' <=> attempt'[c[1]] = c[2]
      /\ Streaming(c)' <=> Current(c)' /\ task'[c[1]] = "streaming"
      /\ Concluded(c)' <=>
            c[2] < attempt'[c[1]] \/ (Current(c)' /\ task'[c[1]] \notin {"streaming", "closing"})
    BY DEF Current, Streaming, Concluded
<1>4. Awaited(c)' <=> Mode(c) = "async" \/ c \notin givenUp'
    BY <1>1 DEF Awaited
<1>5. \A k : k \in Told(c)' <=> k \in Sayings(c) /\ k <= position'[c]
    BY <1>1 DEF Told
<1> QED
    BY <1>1, <1>2, <1>3, <1>4, <1>5

Stands(c, a, K, T, N) ==
    /\ scenario' = scenario /\ a \in BOOLEAN /\ (Awaited(c)' <=> a)
    /\ K = LineOf(c, Pipe(c)') /\ (\A k : k \in T <=> k \in Told(c)') /\ N = Len(Chunks(c))
    /\ Orderly(a, c, Pipe(c)')
    /\ Entire(K) \subseteq T \cup {N + 1, N + 2} /\ Looped(K) \cup K[6] \subseteq T
    /\ N + 1 \in Entire(K) => Concluded(c)'
    /\ N + 2 \in Entire(K) => task'[c[1]] = "done"
    /\ a /\ ~Cancelled' => T \subseteq Entire(K)
    /\ N + 2 \in K[1] => Sayings(c) \subseteq K[1]
    /\ Current(c)' /\ (task'[c[1]] = "succeeded" \/ N + 2 \in Entire(K))
           => a /\ position'[c] = N
    /\ c[2] > attempt'[c[1]] => position'[c] = 0 /\ ~over'[c]
    /\ Concluded(c)' /\ a => over'[c] /\ Looped(K) = {} /\ K[6] = {}
    /\ Current(c)' /\ task'[c[1]] = "closing" => over'[c] /\ Mode(c) = "async"
    /\ Mode(c) = "async" => Looped(K) = {}
    /\ <<c, batch'[c].gen>> \in timers' /\ a => Looped(K) = {}
    /\ c \in givenUp' => c[2] <= attempt'[c[1]] /\ ~Streaming(c)'
    /\ MarkersOf(c, batch'[c].gen, over'[c], position'[c] = N, ready', posts'[c], timers')

LEMMA OwnStep ==
    ASSUME NEW c \in Calls, NEW a, NEW K, NEW T, NEW N, Stands(c, a, K, T, N)
    PROVE  CallInv(c)'
<1> USE DEF Stands
<1>1. /\ Chunks(c)' = Chunks(c) /\ Sayings(c)' = Sayings(c) /\ Mode(c)' = Mode(c)
      /\ Line(c)' = K
    BY OwnPrimes
<1>2. T = Told(c)'
    OBVIOUS
<1>3. Known(c)'
    BY <1>1, <1>2 DEF Known
<1>4. Whole(c)'
    BY <1>1, <1>2 DEF Whole
<1>5. Finished(c)'
    BY <1>1 DEF Finished
<1>6. Phases(c)'
    BY <1>1 DEF Phases
<1>7. Watched(c)'
    BY DEF Watched
<1>8. InLine(c)'
    <2>1. Awaited(c)' = a
        BY DEF Awaited
    <2>2. InLine(c)' <=> Orderly(Awaited(c)', c, Pipe(c)')
        BY LinePrime
    <2> QED
        BY <2>1, <2>2
<1>9. Markers(c)'
    BY MarkersPrime
<1> QED
    BY <1>3, <1>4, <1>5, <1>6, <1>7, <1>8, <1>9 DEF CallInv, CallCore

(* The markers when a callback has run, and when a batch is new.            *)
LEMMA MarkersTail ==
    ASSUME scenario \in Scenarios, NEW c \in Calls, NEW g, NEW e \in BOOLEAN, NEW f \in BOOLEAN,
           NEW q \in Seq(Callbacks), q # <<>>, NEW u, NEW due, MarkersOf(c, g, e, f, q, u, due)
    PROVE  /\ MarkersOf(c, g, e, f, Tail(q), u, due) /\ Fits(c, g, e, f, Head(q))
           /\ IsMarker(c, g, Head(q)) => LoopSet(c, Tail(q)) = {} /\ LoopSet(c, u) = {}
<1>1. /\ Calm(c, g, q) /\ Calm(c, g, u) /\ (HasMarker(c, g, q) => LoopSet(c, u) = {})
      /\ Due(c, g, e, f, q) /\ Due(c, g, e, f, u)
      /\ \A t \in due : t[1] = c => t[2] \in 0..g
    BY DEF MarkersOf
<1>2. HasMarker(c, g, q) <=> IsMarker(c, g, Head(q)) \/ HasMarker(c, g, Tail(q))
    BY <1>1, MarkerTail DEF HasMarker
<1>3. Fits(c, g, e, f, Head(q)) /\ Due(c, g, e, f, Tail(q))
    <2>1. Due(c, g, e, f, q) <=> Fits(c, g, e, f, Head(q)) /\ Due(c, g, e, f, Tail(q))
        <3>1. e \in BOOLEAN /\ f \in BOOLEAN /\ q \in Seq(Callbacks) /\ q # <<>>
            OBVIOUS
        <3> QED
            BY <3>1, MarkerTail
    <2> QED
        BY <1>1, <2>1
<1>4. Calm(c, g, Tail(q))
    BY <1>1, MarkerTail
<1>5. IsMarker(c, g, Head(q)) => LoopSet(c, Tail(q)) = {}
    BY <1>1, MarkerTail
<1> QED
    BY <1>1, <1>2, <1>3, <1>4, <1>5 DEF MarkersOf

LEMMA MarkersNewer ==
    ASSUME NEW c, NEW g \in Nat, NEW h \in Nat, g <= h, NEW e \in BOOLEAN, NEW f \in BOOLEAN,
           NEW q \in Seq(Callbacks), NEW u \in Seq(Callbacks), NEW due,
           MarkersOf(c, g, e, f, q, u, due), NEW due2, due2 \subseteq due
    PROVE  MarkersOf(c, h, e, f, q, u, due2)
<1>1. /\ Calm(c, g, q) /\ Calm(c, g, u) /\ (HasMarker(c, g, q) => LoopSet(c, u) = {})
      /\ Due(c, g, e, f, q) /\ Due(c, g, e, f, u)
      /\ \A t \in due : t[1] = c => t[2] \in 0..g
    BY DEF MarkersOf
<1>2. \A t \in due2 : t[1] = c => t[2] \in 0..h
    BY <1>1
<1>3. CASE g = h
    BY <1>1, <1>2, <1>3 DEF MarkersOf
<1>4. CASE g < h
    <2>1. /\ HasMarker(c, h, q) => HasMarker(c, g, q)
          /\ Calm(c, h, q) /\ Due(c, h, e, f, q)
        BY <1>1, <1>4, MarkerNewer
    <2>2. Calm(c, h, u) /\ Due(c, h, e, f, u)
        BY <1>1, <1>4, MarkerNewer
    <2> QED
        BY <1>1, <1>2, <2>1, <2>2 DEF MarkersOf
<1> QED
    BY <1>3, <1>4

LEMMA MarkersDue ==
    ASSUME NEW c, NEW g, NEW e \in BOOLEAN, NEW f \in BOOLEAN, NEW q, NEW u, NEW due,
           MarkersOf(c, g, e, f, q, u, due), NEW d \in BOOLEAN, NEW h \in BOOLEAN, e => d, f => h
    PROVE  MarkersOf(c, g, d, h, q, u, due)
<1>1. Due(c, g, e, f, q) /\ Due(c, g, e, f, u)
    BY DEF MarkersOf
<1>2. Due(c, g, d, h, q) /\ Due(c, g, d, h, u)
    BY <1>1, MarkerDue
<1> QED
    BY <1>2 DEF MarkersOf

(* What a thread hands over comes to the loop.                              *)
LEMMA PostKeeps ==
    ASSUME Ground, IInv', MailInv', NEW c \in Calls, Post(c)
    PROVE  CallInv(c)'
<1> DEFINE q == Pipe(c)
           r == Pipe(c)'
           o == Awaited(c)
           p == posts[c]
           g == batch[c].gen
           e == over[c]
           f == position[c] = Len(Chunks(c))
<1>1. /\ q \in Pipes /\ q.events = events /\ q.todo = todo /\ q.mail = mailbox
      /\ q.ready = ready /\ q.posts = p /\ q.batch = batch[c].specs
      /\ Orderly(o, c, q) /\ o \in BOOLEAN /\ scenario \in Scenarios /\ Line(c) = LineOf(c, q)
      /\ ready \in Seq(Callbacks) /\ p \in Seq(Callbacks) /\ IInv /\ Sound
      /\ CallCore(c) /\ Markers(c) /\ e \in BOOLEAN /\ g \in Nat
    BY GroundTyped, PipeTyped
<1>2. /\ UNCHANGED <<scenario, attempt, task, over, position, givenUp, timers, events, todo,
                     drive, state, mailbox, batch>>
      /\ p # <<>> /\ ready' = Append(ready, Head(p)) /\ posts'[c] = Tail(p)
    BY <1>1 DEF Post, driverVars, IInv, BatcherTypeOK
<1>3. Head(p) \in Callbacks /\ Tail(p) \in Seq(Callbacks)
    BY <1>1, <1>2, ToSetTail
<1>4. ready' = ready \o <<Head(p)>> /\ <<Head(p)>> \in Seq(Callbacks)
    BY <1>1, <1>2, <1>3
<1>5. /\ r \in Pipes /\ r.events = events /\ r.todo = todo /\ r.mail = mailbox
      /\ r.ready = ready \o <<Head(p)>> /\ r.posts = Tail(p) /\ r.batch = batch[c].specs
    BY <1>2, <1>4, PipePrime
<1>6. f \in BOOLEAN
    OBVIOUS
<1>7. Alike(c) /\ (Cancelled' <=> Cancelled)
    BY <1>2 DEF Alike, Cancelled
<1> HIDE DEF q, r, o, p, g, e, f
<1>8. LoopOrder(o, c, p)
    BY <1>1 DEF Orderly, Sorted
<1>9. /\ LoopSet(c, p) = CallbackMarks(c, Head(p)) \cup LoopSet(c, Tail(p))
      /\ LoopOrder(o, c, Tail(p)) /\ Tidy(o, c, Head(p))
      /\ Apart(o, CallbackMarks(c, Head(p)), LoopSet(c, Tail(p)))
    BY <1>1, <1>2, <1>8, LoopTail
<1>10. LoopSet(c, <<Head(p)>>) = CallbackMarks(c, Head(p)) /\ LoopOrder(o, c, <<Head(p)>>)
    BY <1>1, <1>3, <1>9, LoopFew
<1>11. Orderly(o, c, r) /\ Shifted(LineOf(c, q), LineOf(c, r), 4, 5)
    <2>1. /\ r.ready = q.ready \o <<Head(p)>> /\ r.posts = Tail(p)
          /\ r.events = q.events /\ r.todo = q.todo /\ r.mail = q.mail /\ r.batch = q.batch
          /\ LoopSet(c, q.posts) = LoopSet(c, <<Head(p)>>) \cup LoopSet(c, Tail(p))
          /\ Apart(o, LoopSet(c, <<Head(p)>>), LoopSet(c, Tail(p)))
        BY <1>1, <1>5, <1>9, <1>10
    <2>2. scenario \in Scenarios /\ o \in BOOLEAN /\ q \in Pipes /\ r \in Pipes /\ Orderly(o, c, q)
        BY <1>1, <1>5
    <2> QED
        BY <1>3, <1>4, <1>9, <1>10, <2>1, <2>2, ReadyFromPosts
<1>12. LineOf(c, q) \in Lines /\ LineOf(c, r) \in Lines /\ 4 \in Places /\ 5 \in Places
    BY <1>1, <1>5, LineTyped DEF Places
<1>13. /\ Moved(LineOf(c, q), LineOf(c, r)) /\ Entire(LineOf(c, r)) = Entire(LineOf(c, q))
       /\ LineOf(c, r)[1] = LineOf(c, q)[1] /\ Looped(LineOf(c, r)) = Looped(LineOf(c, q))
    BY <1>11, <1>12, ShiftedMoves
<1>14. o /\ <<c, g>> \in timers => Looped(LineOf(c, r)) = {}
    BY <1>1, <1>13 DEF CallCore, Phases, o, g
<1>15. MarkersOf(c, g, e, f, ready \o <<Head(p)>>, Tail(p), timers)
    <2>1. MarkersOf(c, g, e, f, ready, p, timers)
        BY <1>1 DEF Markers, e, f, g, p
    <2>2. /\ Calm(c, g, ready) /\ Calm(c, g, p) /\ Due(c, g, e, f, ready)
          /\ Due(c, g, e, f, p) /\ (HasMarker(c, g, ready) => LoopSet(c, p) = {})
          /\ \A t \in timers : t[1] = c => t[2] \in 0..g
        BY <2>1 DEF MarkersOf
    <2>3. /\ HasMarker(c, g, p) <=> IsMarker(c, g, Head(p)) \/ HasMarker(c, g, Tail(p))
          /\ Due(c, g, e, f, p) <=> Fits(c, g, e, f, Head(p)) /\ Due(c, g, e, f, Tail(p))
          /\ Calm(c, g, p) => /\ Calm(c, g, Tail(p))
                              /\ IsMarker(c, g, Head(p)) => LoopSet(c, Tail(p)) = {}
        BY <1>1, <1>2, <1>6, MarkerTail
    <2>4. /\ HasMarker(c, g, <<Head(p)>>) <=> IsMarker(c, g, Head(p))
          /\ Due(c, g, e, f, <<Head(p)>>) <=> Fits(c, g, e, f, Head(p))
          /\ Calm(c, g, <<Head(p)>>)
        BY <1>1, <1>6, MarkerFew
    <2> DEFINE t == <<Head(p)>>
    <2> HIDE DEF t
    <2>5. /\ HasMarker(c, g, ready \o t) <=> HasMarker(c, g, ready) \/ HasMarker(c, g, t)
          /\ Due(c, g, e, f, ready \o t) <=> Due(c, g, e, f, ready) /\ Due(c, g, e, f, t)
          /\ Calm(c, g, ready) /\ Calm(c, g, t) /\ (HasMarker(c, g, ready) => LoopSet(c, t) = {})
                => Calm(c, g, ready \o t)
        <3>1. t \in Seq(Callbacks)
            BY <1>4 DEF t
        <3> QED
            BY <1>1, <1>6, <3>1, MarkerConcat
    <2>6. HasMarker(c, g, ready) => LoopSet(c, t) = {} /\ LoopSet(c, Tail(p)) = {}
        BY <1>9, <1>10, <2>2 DEF t
    <2>7. Calm(c, g, ready \o t) /\ Due(c, g, e, f, ready \o t)
        BY <2>2, <2>3, <2>4, <2>5, <2>6 DEF t
    <2>8. HasMarker(c, g, ready \o t) => LoopSet(c, Tail(p)) = {}
        BY <2>2, <2>3, <2>4, <2>5, <2>6 DEF t
    <2>9. Calm(c, g, Tail(p)) /\ Due(c, g, e, f, Tail(p))
        BY <2>2, <2>3
    <2> QED
        BY <2>2, <2>7, <2>8, <2>9 DEF MarkersOf, t
<1>16. /\ Orderly(Awaited(c), c, Pipe(c)') /\ Moved(Line(c), LineOf(c, Pipe(c)'))
       /\ LineOf(c, Pipe(c)')[1] = Line(c)[1] /\ Entire(LineOf(c, Pipe(c)')) = Entire(Line(c))
    BY <1>1, <1>11, <1>13 DEF o, r
<1>17. MarkersOf(c, batch'[c].gen, over[c], position[c] = Len(Chunks(c)), ready', posts'[c], timers')
    BY <1>2, <1>4, <1>15 DEF e, f, g
<1>18. Awaited(c) /\ <<c, batch'[c].gen>> \in timers' => Looped(LineOf(c, Pipe(c)')) = {}
    BY <1>2, <1>14 DEF g, o, r
<1> QED
    BY <1>7, <1>16, <1>17, <1>18, CallStep

(* A batch that a closed mailbox refuses is gone.                           *)
LEMMA PipeDrops ==
    ASSUME scenario \in Scenarios, NEW c \in Calls, NEW o \in BOOLEAN, NEW q \in Pipes,
           NEW r \in Pipes, Orderly(o, c, q), r.batch = <<>>, r.mail = q.mail,
           r.events = q.events, r.todo = q.todo, r.ready = q.ready, r.posts = q.posts
    PROVE  /\ Orderly(o, c, r) /\ Moved(LineOf(c, q), LineOf(c, r))
           /\ \A p \in {1, 2, 3, 4, 5} : LineOf(c, r)[p] = LineOf(c, q)[p]
           /\ LineOf(c, r)[6] = {}
<1>1. LineOf(c, q) \in Lines /\ LineOf(c, r) \in Lines
    BY LineTyped
<1>2. SpecSet(c, r.batch) = {} /\ SpecOrder(o, c, r.batch)
    BY SpecFew
<1>3. LineOf(c, r)[6] = {}
    BY <1>2, LineTyped
<1>4. \A p \in {1, 2, 3, 4, 5} : LineOf(c, r)[p] = LineOf(c, q)[p]
    BY DEF LineOf, Places
<1>5. InOrder(o, LineOf(c, r))
    <2>1. \A p \in Places : LineOf(c, r)[p] \subseteq LineOf(c, q)[p]
        BY <1>3, <1>4 DEF Places
    <2>2. InOrder(o, LineOf(c, q))
        BY DEF Orderly
    <2> QED
        BY <1>1, <2>1, <2>2, LineShrinks
<1>6. Sorted(o, c, r)
    BY <1>2 DEF Orderly, Sorted
<1> QED
    BY <1>3, <1>4, <1>5, <1>6 DEF Orderly, Moved, Entire, Looped

(* When all tasks have ended, what a stream somebody waits for has said is   *)
(* with the driver already.                                                *)
LEMMA AllSaid ==
    ASSUME Ground, NEW c \in Calls, Awaited(c), task[c[1]] = "done"
    PROVE  Told(c) = {} \/ (Line(c)[4] = {} /\ Line(c)[5] = {} /\ Line(c)[6] = {})
<1>1. CallCore(c) /\ attempt[c[1]] \in Nat /\ c[2] \in Nat
    BY GroundTyped, ChunksTyped
<1>2. CASE c[2] > attempt[c[1]]
    <2>1. position[c] = 0 /\ Sayings(c) \subseteq 1..Len(Chunks(c)) /\ Len(Chunks(c)) \in Nat
        BY <1>1, <1>2, GroundTyped DEF CallCore, Phases
    <2> QED
        BY <2>1 DEF Told
<1>3. CASE ~(c[2] > attempt[c[1]])
    <2>1. Concluded(c)
        BY <1>1, <1>3 DEF Concluded, Current
    <2> QED
        BY <1>1, <2>1 DEF CallCore, Phases, Looped
<1> QED
    BY <1>2, <1>3

(* A deadline passes.                                                      *)
LEMMA FlushKeeps ==
    ASSUME Ground, IInv', MailInv', NEW c \in Calls, NEW h, FlushGeneration(c, h)
    PROVE  CallInv(c)'
<1> DEFINE q == Pipe(c)
           r == Pipe(c)'
           o == Awaited(c)
           b == batch[c]
           g == b.gen
           e == over[c]
           f == position[c] = Len(Chunks(c))
<1>1. /\ q \in Pipes /\ q.events = events /\ q.todo = todo /\ q.mail = mailbox
      /\ q.ready = ready /\ q.posts = posts[c] /\ q.batch = b.specs
      /\ Orderly(o, c, q) /\ o \in BOOLEAN /\ scenario \in Scenarios /\ Line(c) = LineOf(c, q)
      /\ ready \in Seq(Callbacks) /\ posts[c] \in Seq(Callbacks) /\ mailbox \in Seq(Messages)
      /\ CallCore(c) /\ Markers(c) /\ e \in BOOLEAN /\ g \in Nat /\ Course /\ IInv
      /\ b.specs \in Seq(Specs) /\ c[1] \in Nodes /\ b \in Batches
    BY GroundTyped, PipeTyped
<1>2. /\ UNCHANGED <<scenario, attempt, task, over, position, posts, givenUp, ready, events,
                     todo, drive, state>>
      /\ <<c, h>> \in timers /\ timers' \subseteq timers
    BY DEF FlushGeneration, handlerVars, driverVars
<1>3. Alike(c) /\ (Cancelled' <=> Cancelled)
    BY <1>2 DEF Alike, Cancelled
<1>4. CASE g # h
    <2>1. mailbox' = mailbox /\ batch' = batch
        BY <1>4 DEF FlushGeneration
    <2>2. mailbox' = Mail(<<>>) /\ <<>> \in Seq(Messages)
        BY <1>1, <2>1, MailNothing
    <2>3. MailSet(c, <<>>) = {} /\ MailOrder(Awaited(c), c, <<>>)
        BY <1>1, MailFew
    <2> QED
        BY <1>2, <1>3, <2>1, <2>2, <2>3, ForeignMailKeeps
<1>5. CASE g = h
    <2>1. mailbox' = Mail(Flushed(b)) /\ batch'[c] = Taken(b)
        BY <1>1, <1>5 DEF FlushGeneration, IInv, BatcherTypeOK
    <2>2. batch'[c].gen \in Nat /\ g <= batch'[c].gen /\ batch'[c].specs = <<>>
        BY <1>1, <2>1 DEF Taken
    <2>3. /\ r \in Pipes /\ r.events = events /\ r.todo = todo /\ r.mail = mailbox'
          /\ r.ready = ready /\ r.posts = posts[c] /\ r.batch = <<>>
        BY <1>2, <2>2, PipePrime
    <2>4. f \in BOOLEAN
        OBVIOUS
    <2>5. o => Looped(Line(c)) = {}
        BY <1>1, <1>2, <1>5 DEF CallCore, Phases
    <2> HIDE DEF q, r, o, b, g, e, f
    <2>6. MarkersOf(c, batch'[c].gen, e, f, ready, posts[c], timers')
        <3>1. MarkersOf(c, g, e, f, ready, posts[c], timers)
            BY <1>1 DEF Markers, g, e, f, b
        <3> QED
            BY <1>1, <1>2, <2>2, <2>4, <3>1, MarkersNewer
    <2>7. /\ Flushed(b) \in Seq(Messages) /\ MailSet(c, Flushed(b)) = SpecSet(c, b.specs)
          /\ MailOrder(o, c, Flushed(b))
        <3>1. SpecOrder(o, c, b.specs)
            BY <1>1 DEF Orderly, Sorted
        <3> QED
            BY <1>1, <3>1, FlushedMarks
    <2>8. /\ Orderly(o, c, r) /\ Moved(LineOf(c, q), LineOf(c, r))
          /\ LineOf(c, r)[1] = LineOf(c, q)[1]
          /\ o => Told(c) \cap Entire(LineOf(c, q)) \subseteq Entire(LineOf(c, r))
        <3>1. CASE accepting
            <4> DEFINE t == Flushed(b)
                       w == <<>>
            <4>1. mailbox' = mailbox \o Flushed(b)
                BY <2>1, <3>1 DEF Mail, b
            <4>2. r.mail = q.mail \o (t \o w)
                BY <1>1, <2>3, <2>7, <4>1
            <4>3. /\ w \in Seq(Messages) /\ MailSet(c, w) = {} /\ MailOrder(o, c, w)
                  /\ Apart(o, Entire(LineOf(c, q)), MailSet(c, w))
                BY <1>1, MailFew DEF Apart
            <4>4. o => LineOf(c, q)[4] = {} /\ LineOf(c, q)[5] = {}
                BY <1>1, <2>5 DEF Looped
            <4>5. /\ r.batch = <<>> /\ r.events = q.events /\ r.todo = q.todo
                  /\ r.ready = q.ready /\ r.posts = q.posts
                  /\ MailSet(c, t) = SpecSet(c, q.batch) /\ MailOrder(o, c, t)
                  /\ t \in Seq(Messages)
                BY <1>1, <2>3, <2>7
            <4>6. /\ scenario \in Scenarios /\ o \in BOOLEAN /\ q \in Pipes /\ r \in Pipes
                  /\ Orderly(o, c, q)
                BY <1>1, <2>3
            <4>8. Flushes(o, c, q, r, t, w)
                <5> HIDE DEF t, w
                <5> QED
                    BY <4>2, <4>3, <4>4, <4>5 DEF Flushes
            <4>7. /\ Orderly(o, c, r)
                  /\ LineOf(c, r)[1] = LineOf(c, q)[1]
                  /\ LineOf(c, r)[4] = LineOf(c, q)[4] /\ LineOf(c, r)[5] = LineOf(c, q)[5]
                  /\ LineOf(c, r)[6] = {}
                  /\ Entire(LineOf(c, r)) = Entire(LineOf(c, q)) \cup MailSet(c, w)
                <5> HIDE DEF t, w
                <5>1. /\ scenario \in Scenarios /\ o \in BOOLEAN /\ q \in Pipes /\ r \in Pipes
                      /\ Orderly(o, c, q) /\ t \in Seq(Messages) /\ w \in Seq(Messages)
                      /\ Flushes(o, c, q, r, t, w)
                    BY <4>3, <4>5, <4>6, <4>8
                <5>2. Orderly(o, c, r)
                    BY <5>1, PipeFlushes
                <5>3. LineOf(c, r)[6] = {} /\ Entire(LineOf(c, r)) = Entire(LineOf(c, q)) \cup MailSet(c, w)
                    BY <5>1, PipeFlushes
                <5>4. LineOf(c, r)[1] = LineOf(c, q)[1]
                    BY <5>1, PipeFlushes
                <5>5. LineOf(c, r)[4] = LineOf(c, q)[4] /\ LineOf(c, r)[5] = LineOf(c, q)[5]
                    BY <5>1, PipeFlushes
                <5> QED
                    BY <5>2, <5>3, <5>4, <5>5
            <4> QED
                BY <4>3, <4>7 DEF Moved, Looped
        <3>2. CASE ~accepting
            <4>1. mailbox' = mailbox
                BY <2>1, <3>2 DEF Mail
            <4>2. task[c[1]] = "done"
                BY <1>1, <3>2 DEF Course, AllDone
            <4>3. /\ r.batch = <<>> /\ r.events = q.events /\ r.todo = q.todo
                  /\ r.ready = q.ready /\ r.posts = q.posts /\ r.mail = q.mail
                BY <1>1, <2>3, <4>1
            <4>4. /\ scenario \in Scenarios /\ o \in BOOLEAN /\ q \in Pipes /\ r \in Pipes
                  /\ Orderly(o, c, q)
                BY <1>1, <2>3
            <4>5. /\ Orderly(o, c, r) /\ Moved(LineOf(c, q), LineOf(c, r))
                  /\ \A p \in {1, 2, 3, 4, 5} : LineOf(c, r)[p] = LineOf(c, q)[p]
                BY <4>3, <4>4, PipeDrops
            <4>6. o => Told(c) \cap Entire(LineOf(c, q)) \subseteq Entire(LineOf(c, r))
                <5> SUFFICES ASSUME o
                             PROVE  Told(c) \cap Entire(LineOf(c, q)) \subseteq Entire(LineOf(c, r))
                    OBVIOUS
                <5>1. Told(c) = {} \/ LineOf(c, q)[6] = {}
                    BY <1>1, <4>2, AllSaid DEF o
                <5> QED
                    BY <4>5, <5>1 DEF Entire
            <4> QED
                BY <4>5, <4>6
        <3> QED
            BY <3>1, <3>2
    <2>9. Awaited(c) => Looped(LineOf(c, Pipe(c)')) = {}
        BY <1>1, <2>5, <2>8 DEF Moved, o, r
    <2>10. /\ Orderly(Awaited(c), c, Pipe(c)') /\ Moved(Line(c), LineOf(c, Pipe(c)'))
           /\ LineOf(c, Pipe(c)')[1] = Line(c)[1]
           /\ Awaited(c) => Told(c) \cap Entire(Line(c)) \subseteq Entire(LineOf(c, Pipe(c)'))
        BY <1>1, <2>8 DEF o, r
    <2>11. MarkersOf(c, batch'[c].gen, over[c], position[c] = Len(Chunks(c)), ready', posts'[c],
                     timers')
        BY <1>2, <2>6 DEF e, f
    <2> QED
        BY <1>3, <2>9, <2>10, <2>11, CallStep
<1> QED
    BY <1>4, <1>5

(* The task of the node learns the end of the call: what the batcher holds   *)
(* goes to the mailbox, with the announcement behind it.                    *)
LEMMA ConcludeKeeps ==
    ASSUME Ground, IInv', MailInv', NEW c \in Calls, NEW ok \in BOOLEAN, Conclude(c, ok),
           Current(c), task[c[1]] \in {"streaming", "closing"},
           UNCHANGED <<scenario, attempt, position, posts, timers, events, todo, drive, state>>,
           \/ ready' = ready
           \/ ready # <<>> /\ ready' = Tail(ready) /\ CallbackMarks(c, Head(ready)) = {},
           over'[c] \in BOOLEAN, over[c] => over'[c], Awaited(c)' => Awaited(c),
           Awaited(c)' => over'[c] /\ Looped(Line(c)) = {},
           ok => Awaited(c)' /\ position[c] = Len(Chunks(c))
    PROVE  CallInv(c)'
<1> DEFINE q == Pipe(c)
           m == [q EXCEPT !.ready = ready']
           r == Pipe(c)'
           a == Awaited(c)'
           b == batch[c]
           e == over'[c]
           N == Len(Chunks(c))
           f == position[c] = N
           t == Flushed(b)
           w == Farewell(c, ok)
           T == Told(c)
           K == LineOf(c, r)
<1>1. /\ q \in Pipes /\ q.events = events /\ q.todo = todo /\ q.mail = mailbox
      /\ q.ready = ready /\ q.posts = posts[c] /\ q.batch = b.specs
      /\ scenario \in Scenarios /\ Line(c) = LineOf(c, q) /\ Line(c) \in Lines
      /\ ready \in Seq(Callbacks) /\ posts[c] \in Seq(Callbacks) /\ mailbox \in Seq(Messages)
      /\ CallCore(c) /\ Markers(c) /\ over[c] \in BOOLEAN /\ b.gen \in Nat /\ Course /\ IInv /\ Sound
      /\ b.specs \in Seq(Specs) /\ c[1] \in Nodes /\ b \in Batches /\ N \in Nat
      /\ Sayings(c) \subseteq 1..N /\ c[2] \in Nat /\ attempt[c[1]] \in Nat
    BY GroundTyped, PipeTyped, ChunksTyped
<1>2. /\ Orderly(Awaited(c), c, q) /\ Awaited(c) \in BOOLEAN
    BY GroundTyped
<1>3. a \in BOOLEAN /\ f \in BOOLEAN
    BY DEF Awaited
<1>4. Orderly(a, c, q)
    <2>1. CASE a = Awaited(c)
        BY <1>2, <2>1
    <2>2. CASE a # Awaited(c)
        <3>1. a = FALSE
            BY <1>2, <1>3, <2>2
        <3> HIDE DEF q, a
        <3>2. Orderly(FALSE, c, q)
            BY <1>1, <1>2, OrderlyWeaker
        <3> QED
            BY <3>1, <3>2
    <2> QED
        BY <2>1, <2>2
<1>5. accepting
    BY <1>1 DEF Course, AllDone
<1>6. mailbox' = mailbox \o (t \o w) /\ batch'[c] = Taken(b)
    <2>1. mailbox' = Mail(t \o w) /\ batch' = [batch EXCEPT ![c] = Taken(b)]
        BY <1>1, ConcludeSound
    <2> QED
        BY <1>1, <1>5, <2>1 DEF Mail, IInv, BatcherTypeOK
<1>7. batch'[c].gen \in Nat /\ b.gen <= batch'[c].gen /\ batch'[c].specs = <<>>
    BY <1>1, <1>6 DEF Taken
<1>8. ready' \in Seq(Callbacks)
    <2>1. ready \in Seq(Callbacks)
        BY <1>1
    <2>2. ready # <<>> => Tail(ready) \in Seq(Callbacks)
        BY <2>1
    <2> QED
        BY <2>1, <2>2
<1>9. /\ m \in Pipes /\ m.events = events /\ m.todo = todo /\ m.mail = mailbox
      /\ m.ready = ready' /\ m.posts = posts[c] /\ m.batch = b.specs
    BY <1>1, <1>8 DEF Pipes
<1>10. /\ r \in Pipes /\ r.events = events /\ r.todo = todo /\ r.mail = mailbox \o (t \o w)
       /\ r.ready = ready' /\ r.posts = posts[c] /\ r.batch = <<>>
    BY <1>6, <1>7, PipePrime
<1> HIDE DEF q, m, r, a
<1>11. /\ Orderly(a, c, m) /\ Moved(LineOf(c, q), LineOf(c, m))
       /\ Entire(LineOf(c, m)) = Entire(LineOf(c, q)) /\ LineOf(c, m)[1] = LineOf(c, q)[1]
    <2>1. LoopSet(c, <<>>) = {} /\ LoopOrder(a, c, <<>>) /\ <<>> \in Seq(Callbacks)
        BY <1>1, <1>3, LoopFew
    <2>2. /\ \/ m.ready = q.ready \o <<>>
             \/ q.ready # <<>> /\ m.ready = Tail(q.ready) /\ CallbackMarks(c, Head(q.ready)) = {}
          /\ m.events = q.events /\ m.todo = q.todo /\ m.mail = q.mail /\ m.posts = q.posts
          /\ m.batch = q.batch
        BY <1>1, <1>9
    <2>3. scenario \in Scenarios /\ a \in BOOLEAN /\ q \in Pipes /\ m \in Pipes /\ Orderly(a, c, q)
        BY <1>1, <1>3, <1>4, <1>9
    <2> QED
        BY <2>1, <2>2, <2>3, UnmarkedReady
<1>12. LineOf(c, m) \in Lines /\ K \in Lines
    BY <1>1, <1>9, <1>10, LineTyped
(* Nothing of the end of the call is on its way yet.                        *)
<1>13. Entire(Line(c)) \subseteq T /\ Looped(Line(c)) \cup Line(c)[6] \subseteq T
    <2>1. ~Concluded(c)
        BY <1>1 DEF Concluded, Current
    <2>2. Known(c)
        BY <1>1 DEF CallCore
    <2> QED
        BY <2>1, <2>2 DEF Known
<1>14. T \subseteq 1..N
    BY <1>1 DEF Told
<1>15. t \in Seq(Messages) /\ MailSet(c, t) = SpecSet(c, b.specs) /\ MailOrder(a, c, t)
    <2>1. SpecOrder(a, c, b.specs)
        BY <1>1, <1>4 DEF Orderly, Sorted
    <2> QED
        BY <1>1, <1>3, <2>1, FlushedMarks
<1>16. w \in Seq(Messages) /\ MailOrder(a, c, w) /\ MailSet(c, w) \subseteq {N + 1}
    BY <1>1, <1>3, FarewellMarks
<1> HIDE DEF t, w
<1>17. a => LineOf(c, m)[4] = {} /\ LineOf(c, m)[5] = {}
    <2>1. a => Looped(Line(c)) = {}
        BY DEF a
    <2> QED
        BY <1>1, <1>11, <2>1 DEF Moved, Looped
<1>18. Apart(a, Entire(LineOf(c, m)), MailSet(c, w))
    <2> SUFFICES ASSUME NEW x \in Entire(LineOf(c, m)), NEW y \in MailSet(c, w)
                 PROVE  x # y /\ x < y
        BY DEF Apart
    <2>1. x \in 1..N /\ y = N + 1
        BY <1>1, <1>11, <1>13, <1>14, <1>16
    <2> QED
        BY <1>1, <2>1
<1>19. /\ Orderly(a, c, r) /\ K[1] = Line(c)[1] /\ K[6] = {}
       /\ K[4] = LineOf(c, m)[4] /\ K[5] = LineOf(c, m)[5]
       /\ Entire(K) = Entire(Line(c)) \cup MailSet(c, w)
    <2>1. Flushes(a, c, m, r, t, w)
        BY <1>9, <1>10, <1>15, <1>16, <1>17, <1>18 DEF Flushes
    <2>2. /\ scenario \in Scenarios /\ a \in BOOLEAN /\ m \in Pipes /\ r \in Pipes
          /\ Orderly(a, c, m) /\ t \in Seq(Messages) /\ w \in Seq(Messages)
          /\ Flushes(a, c, m, r, t, w)
        BY <1>1, <1>3, <1>9, <1>10, <1>11, <1>15, <1>16, <2>1
    <2>3. Orderly(a, c, r)
        BY <2>2, PipeFlushes
    <2>4. LineOf(c, r)[6] = {} /\ Entire(LineOf(c, r)) = Entire(LineOf(c, m)) \cup MailSet(c, w)
        BY <2>2, PipeFlushes
    <2>5. LineOf(c, r)[1] = LineOf(c, m)[1]
        BY <2>2, PipeFlushes
    <2>6. LineOf(c, r)[4] = LineOf(c, m)[4] /\ LineOf(c, r)[5] = LineOf(c, m)[5]
        BY <2>2, PipeFlushes
    <2> QED
        BY <1>1, <1>11, <2>3, <2>4, <2>5, <2>6
<1>20. MarkersOf(c, batch'[c].gen, e, f, ready', posts[c], timers)
    <2>1. MarkersOf(c, b.gen, over[c], f, ready, posts[c], timers)
        BY <1>1 DEF Markers
    <2>2. MarkersOf(c, b.gen, e, f, ready, posts[c], timers)
        BY <1>1, <1>3, <2>1, MarkersDue
    <2> HIDE DEF e, f
    <2>3. MarkersOf(c, b.gen, e, f, ready', posts[c], timers)
        <3>1. CASE ready' = ready
            BY <2>2, <3>1
        <3>2. CASE ready # <<>> /\ ready' = Tail(ready)
            <4>1. e \in BOOLEAN /\ f \in BOOLEAN
                BY <1>3 DEF e
            <4> DEFINE g == b.gen
                       p == posts[c]
            <4>2. /\ scenario \in Scenarios /\ ready \in Seq(Callbacks) /\ ready # <<>>
                  /\ MarkersOf(c, g, e, f, ready, p, timers)
                BY <1>1, <2>2, <3>2
            <4> HIDE DEF g, p
            <4>5. /\ Calm(c, g, ready) /\ Calm(c, g, p) /\ (HasMarker(c, g, ready) => LoopSet(c, p) = {})
                  /\ Due(c, g, e, f, ready) /\ Due(c, g, e, f, p)
                  /\ \A x \in timers : x[1] = c => x[2] \in 0..g
                BY <4>2 DEF MarkersOf
            <4>6. /\ HasMarker(c, g, ready) <=> IsMarker(c, g, Head(ready)) \/ HasMarker(c, g, Tail(ready))
                  /\ Due(c, g, e, f, ready) <=> Fits(c, g, e, f, Head(ready)) /\ Due(c, g, e, f, Tail(ready))
                  /\ Calm(c, g, ready) => Calm(c, g, Tail(ready))
                BY <4>1, <4>2, MarkerTail
            <4>4. MarkersOf(c, g, e, f, Tail(ready), p, timers)
                BY <4>5, <4>6 DEF MarkersOf
            <4>3. MarkersOf(c, b.gen, e, f, Tail(ready), posts[c], timers)
                BY <4>4 DEF g, p
            <4> QED
                BY <3>2, <4>3
        <3> QED
            BY <3>1, <3>2
    <2>4. e \in BOOLEAN /\ f \in BOOLEAN
        BY <1>3 DEF e
    <2> QED
        BY <1>1, <1>7, <1>8, <2>3, <2>4, MarkersNewer
<1>21. /\ c[2] = attempt'[c[1]] /\ task'[c[1]] \in {"done", "succeeded", "backoff", "failed"}
       /\ task'[c[1]] = "succeeded" => ok
    BY <1>1, ConcludeTask DEF Current
<1>22. Concluded(c)' /\ ~Streaming(c)' /\ Current(c)'
    BY <1>21 DEF Concluded, Streaming, Current
<1>23. N + 2 \notin Entire(K) /\ K[1] \subseteq Entire(K)
    <2>1. N + 2 \notin Entire(Line(c))
        BY <1>1, <1>13, <1>14
    <2>2. N + 2 \notin MailSet(c, w)
        <3>1. MailSet(c, w) \subseteq {N + 1} /\ N \in Nat
            BY <1>1, <1>16
        <3> HIDE DEF N
        <3>2. N + 2 # N + 1
            BY <3>1
        <3> QED
            BY <3>1, <3>2
    <2>3. Entire(K) = Entire(Line(c)) \cup MailSet(c, w)
        BY <1>19
    <2>4. N + 2 \notin Entire(K)
        BY <2>1, <2>2, <2>3
    <2>5. \A line : line[1] \subseteq Entire(line)
        BY DEF Entire
    <2> QED
        BY <2>4, <2>5
<1>24. Looped(K) \subseteq Looped(Line(c))
    BY <1>1, <1>11, <1>19 DEF Moved, Looped
<1>25. \A k : k \in T <=> k \in Told(c)'
    <2>1. \A k : k \in Told(c)' <=> k \in Sayings(c) /\ k <= position'[c]
        BY OwnPrimes
    <2> QED
        BY <2>1 DEF Told
<1> QED
    <2>1. /\ K = LineOf(c, Pipe(c)') /\ Orderly(a, c, Pipe(c)') /\ a \in BOOLEAN
          /\ (Awaited(c)' <=> a)
        BY <1>3, <1>19 DEF a, r
    <2>2. /\ Entire(K) \subseteq T \cup {N + 1, N + 2} /\ Looped(K) \cup K[6] \subseteq T
          /\ N + 1 \in Entire(K) => Concluded(c)'
          /\ N + 2 \in Entire(K) => task'[c[1]] = "done"
        BY <1>13, <1>16, <1>19, <1>22, <1>23, <1>24
    <2>3. /\ a /\ ~Cancelled' => T \subseteq Entire(K)
          /\ N + 2 \in K[1] => Sayings(c) \subseteq K[1]
        <3>1. a /\ ~Cancelled' => Awaited(c) /\ ~Cancelled
            BY DEF a, Cancelled
        <3> QED
            BY <1>1, <1>19, <1>23, <3>1 DEF CallCore, Whole
    <2>4. /\ Current(c)' /\ (task'[c[1]] = "succeeded" \/ N + 2 \in Entire(K))
                => a /\ position'[c] = N
          /\ c[2] > attempt'[c[1]] => position'[c] = 0 /\ ~over'[c]
          /\ Current(c)' /\ task'[c[1]] = "closing" => over'[c] /\ Mode(c) = "async"
        BY <1>1, <1>21, <1>23 DEF a
    <2>5. a => over'[c] /\ Looped(K) = {} /\ K[6] = {}
        BY <1>19, <1>24 DEF a
    <2>6. Mode(c) = "async" => Looped(K) = {}
        BY <1>1, <1>24 DEF CallCore, Phases
    <2>7. c \in givenUp' => c[2] <= attempt'[c[1]] /\ ~Streaming(c)'
        BY <1>1, <1>21, <1>22
    <2>8. MarkersOf(c, batch'[c].gen, over'[c], position'[c] = N, ready', posts'[c], timers')
        BY <1>20 DEF e, f
    <2> HIDE DEF K, T, N
    <2>9. N = Len(Chunks(c)) /\ scenario' = scenario
        BY DEF N
    <2> QED
        <3>1. Stands(c, a, K, T, N)
            BY <1>25, <2>1, <2>2, <2>3, <2>4, <2>5, <2>6, <2>7, <2>8, <2>9 DEF Stands
        <3> QED
            BY <3>1, OwnStep

(* What a thread handed over: a batch comes to the mailbox, which takes it   *)
(* as long as somebody waits for the stream.                                *)
LEMMA PutKeeps ==
    ASSUME Ground, IInv', MailInv', NEW c \in Calls, RunCallback, Head(ready) \in Own(c),
           Head(ready).do = "put"
    PROVE  CallInv(c)'
<1> DEFINE q == Pipe(c)
           r == Pipe(c)'
           o == Awaited(c)
           g == batch[c].gen
           e == over[c]
           f == position[c] = Len(Chunks(c))
           h == Head(ready)
           v == Tail(ready)
           w == <<h.message>>
<1>1. /\ q \in Pipes /\ q.events = events /\ q.todo = todo /\ q.mail = mailbox
      /\ q.ready = ready /\ q.posts = posts[c] /\ q.batch = batch[c].specs
      /\ Orderly(o, c, q) /\ o \in BOOLEAN /\ scenario \in Scenarios /\ Line(c) = LineOf(c, q)
      /\ ready \in Seq(Callbacks) /\ mailbox \in Seq(Messages) /\ Course /\ c[1] \in Nodes
      /\ CallCore(c) /\ Markers(c) /\ e \in BOOLEAN /\ g \in Nat
    BY GroundTyped, PipeTyped
<1>2. /\ UNCHANGED <<scenario, attempt, task, over, position, posts, givenUp, timers, batch,
                     events, todo, drive, state>>
      /\ ready # <<>> /\ ready' = v /\ mailbox' = Mail(w)
    BY DEF RunCallback, handlerVars, driverVars
<1>3. h \in Callbacks /\ v \in Seq(Callbacks)
    BY <1>1, <1>2, ToSetTail
<1>4. h.message \in Messages /\ w \in Seq(Messages)
    <2>1. h.message \in Messages
        BY <1>3 DEF Callbacks, Messages
    <2> QED
        BY <2>1
<1>5. /\ r \in Pipes /\ r.events = events /\ r.todo = todo /\ r.mail = mailbox'
      /\ r.ready = v /\ r.posts = posts[c] /\ r.batch = batch[c].specs
    BY <1>2, PipePrime
<1>6. f \in BOOLEAN /\ h.do = "put"
    OBVIOUS
<1>7. Alike(c) /\ (Cancelled' <=> Cancelled)
    BY <1>2 DEF Alike, Cancelled
<1> HIDE DEF q, r, o, g, e, f, h
<1>8. LoopOrder(o, c, ready)
    BY <1>1 DEF Orderly, Sorted
<1>9. /\ LoopSet(c, ready) = CallbackMarks(c, h) \cup LoopSet(c, v)
      /\ LoopOrder(o, c, v) /\ Tidy(o, c, h)
      /\ Apart(o, CallbackMarks(c, h), LoopSet(c, v))
    BY <1>1, <1>2, <1>8, LoopTail DEF h
<1>10. MailSet(c, w) = CallbackMarks(c, h) /\ MailOrder(o, c, w)
    BY <1>1, <1>4, <1>6, <1>9, MailFew DEF CallbackMarks, Tidy
<1>11. MarkersOf(c, g, e, f, v, posts[c], timers)
    <2>1. MarkersOf(c, g, e, f, ready, posts[c], timers)
        BY <1>1 DEF Markers, e, f, g
    <2>2. /\ Calm(c, g, ready) /\ Calm(c, g, posts[c]) /\ Due(c, g, e, f, ready)
          /\ Due(c, g, e, f, posts[c]) /\ (HasMarker(c, g, ready) => LoopSet(c, posts[c]) = {})
          /\ \A t \in timers : t[1] = c => t[2] \in 0..g
        BY <2>1 DEF MarkersOf
    <2>3. /\ HasMarker(c, g, ready) <=> IsMarker(c, g, Head(ready)) \/ HasMarker(c, g, Tail(ready))
          /\ Due(c, g, e, f, ready) <=> Fits(c, g, e, f, Head(ready)) /\ Due(c, g, e, f, Tail(ready))
          /\ Calm(c, g, ready) => Calm(c, g, Tail(ready))
        BY <1>1, <1>2, <1>6, MarkerTail
    <2> QED
        BY <2>2, <2>3 DEF MarkersOf
<1> HIDE DEF v, w
<1>12. /\ Orderly(o, c, r) /\ Moved(LineOf(c, q), LineOf(c, r))
       /\ LineOf(c, r)[1] = LineOf(c, q)[1]
       /\ o => Told(c) \cap Entire(LineOf(c, q)) \subseteq Entire(LineOf(c, r))
    <2>1. scenario \in Scenarios /\ o \in BOOLEAN /\ q \in Pipes /\ r \in Pipes /\ Orderly(o, c, q)
        BY <1>1, <1>5
    <2>2. CASE accepting
        <3>1. /\ r.mail = q.mail \o w /\ r.ready = v
              /\ r.events = q.events /\ r.todo = q.todo /\ r.posts = q.posts /\ r.batch = q.batch
              /\ LoopSet(c, q.ready) = MailSet(c, w) \cup LoopSet(c, v)
              /\ Apart(o, MailSet(c, w), LoopSet(c, v))
            BY <1>1, <1>2, <1>5, <1>9, <1>10, <2>2 DEF Mail
        <3>2. Orderly(o, c, r) /\ Shifted(LineOf(c, q), LineOf(c, r), 3, 4)
            BY <1>3, <1>4, <1>9, <1>10, <2>1, <3>1, MailFromReady
        <3>3. LineOf(c, q) \in Lines /\ LineOf(c, r) \in Lines /\ 3 \in Places /\ 4 \in Places
            BY <2>1, LineTyped DEF Places
        <3>4. /\ Moved(LineOf(c, q), LineOf(c, r)) /\ Entire(LineOf(c, r)) = Entire(LineOf(c, q))
              /\ LineOf(c, r)[1] = LineOf(c, q)[1]
            BY <3>2, <3>3, ShiftedMoves
        <3> QED
            BY <3>2, <3>4
    <2>3. CASE ~accepting
        <3>1. /\ r.events = q.events /\ r.mail = q.mail /\ r.posts = q.posts /\ r.batch = q.batch
              /\ r.todo = q.todo /\ q.ready # <<>> /\ r.ready = Tail(q.ready)
            BY <1>1, <1>2, <1>5, <2>3 DEF Mail, v
        <3>2. Orderly(o, c, r) /\ Moved(LineOf(c, q), LineOf(c, r))
            BY <2>1, <3>1, PipeShrinks
        <3>3. /\ LineOf(c, r)[1] = LineOf(c, q)[1] /\ LineOf(c, r)[2] = LineOf(c, q)[2]
              /\ LineOf(c, r)[3] = LineOf(c, q)[3] /\ LineOf(c, r)[5] = LineOf(c, q)[5]
              /\ LineOf(c, r)[6] = LineOf(c, q)[6]
            BY <2>1, <3>1, PipeShrinks
        <3>4. ASSUME o
              PROVE  Told(c) = {} \/ LineOf(c, q)[4] = {}
            <4>1. task[c[1]] = "done"
                BY <1>1, <2>3 DEF Course, AllDone
            <4> QED
                BY <1>1, <3>4, <4>1, AllSaid DEF o
        <3>5. ASSUME o
              PROVE  Told(c) \cap Entire(LineOf(c, q)) \subseteq Entire(LineOf(c, r))
            BY <3>3, <3>4, <3>5 DEF Entire
        <3> QED
            BY <3>2, <3>3, <3>5
    <2> QED
        BY <2>2, <2>3
<1>13. o /\ <<c, g>> \in timers => Looped(LineOf(c, r)) = {}
    BY <1>1, <1>12 DEF CallCore, Phases, Moved, o, g
<1>14. /\ Orderly(Awaited(c), c, Pipe(c)') /\ Moved(Line(c), LineOf(c, Pipe(c)'))
       /\ LineOf(c, Pipe(c)')[1] = Line(c)[1]
       /\ Awaited(c) => Told(c) \cap Entire(Line(c)) \subseteq Entire(LineOf(c, Pipe(c)'))
    BY <1>1, <1>12 DEF o, r
<1>15. MarkersOf(c, batch'[c].gen, over[c], position[c] = Len(Chunks(c)), ready', posts'[c], timers')
    BY <1>2, <1>11 DEF e, f, g
<1>16. Awaited(c) /\ <<c, batch'[c].gen>> \in timers' => Looped(LineOf(c, Pipe(c)')) = {}
    BY <1>2, <1>13 DEF g, o, r
<1> QED
    BY <1>7, <1>14, <1>15, <1>16, CallStep

(* A deadline is set; the batch it is set for is not on its way any more.   *)
LEMMA DeadlineKeeps ==
    ASSUME Ground, IInv', MailInv', NEW c \in Calls, RunCallback, Head(ready) \in Own(c),
           Head(ready).do = "deadline"
    PROVE  CallInv(c)'
<1> DEFINE q == Pipe(c)
           r == Pipe(c)'
           o == Awaited(c)
           g == batch[c].gen
           e == over[c]
           f == position[c] = Len(Chunks(c))
           h == Head(ready)
           v == Tail(ready)
           p == posts[c]
           due == timers \cup {<<c, h.gen>>}
<1>1. /\ q \in Pipes /\ q.events = events /\ q.todo = todo /\ q.mail = mailbox
      /\ q.ready = ready /\ q.posts = p /\ q.batch = batch[c].specs
      /\ Orderly(o, c, q) /\ o \in BOOLEAN /\ scenario \in Scenarios /\ Line(c) = LineOf(c, q)
      /\ ready \in Seq(Callbacks) /\ mailbox \in Seq(Messages)
      /\ CallCore(c) /\ Markers(c) /\ e \in BOOLEAN /\ g \in Nat
    BY GroundTyped, PipeTyped
<1>2. h.call = c /\ h.gen \in Nat /\ h.do = "deadline"
    BY DEF Own
<1>3. /\ UNCHANGED <<scenario, attempt, task, over, position, posts, givenUp, batch,
                     events, todo, drive, state, mailbox>>
      /\ ready # <<>> /\ ready' = v /\ timers' = due
    BY <1>2 DEF RunCallback, handlerVars, driverVars
<1>4. v \in Seq(Callbacks)
    BY <1>1, <1>3, ToSetTail
<1>5. /\ r \in Pipes /\ r.events = events /\ r.todo = todo /\ r.mail = mailbox
      /\ r.ready = v /\ r.posts = p /\ r.batch = batch[c].specs
    BY <1>3, PipePrime
<1>6. f \in BOOLEAN
    OBVIOUS
<1>7. Alike(c) /\ (Cancelled' <=> Cancelled)
    BY <1>3 DEF Alike, Cancelled
<1> HIDE DEF q, r, o, g, e, f, p
<1>8. /\ Orderly(o, c, r) /\ Moved(LineOf(c, q), LineOf(c, r))
      /\ Entire(LineOf(c, r)) = Entire(LineOf(c, q)) /\ LineOf(c, r)[1] = LineOf(c, q)[1]
    <2>1. LoopSet(c, <<>>) = {} /\ LoopOrder(o, c, <<>>) /\ <<>> \in Seq(Callbacks)
        BY <1>1, LoopFew
    <2>2. CallbackMarks(c, h) = {}
        BY <1>2 DEF CallbackMarks
    <2>3. /\ \/ r.ready = q.ready \o <<>>
             \/ q.ready # <<>> /\ r.ready = Tail(q.ready) /\ CallbackMarks(c, Head(q.ready)) = {}
          /\ r.events = q.events /\ r.todo = q.todo /\ r.mail = q.mail /\ r.posts = q.posts
          /\ r.batch = q.batch
        BY <1>1, <1>3, <1>5, <2>2
    <2>4. scenario \in Scenarios /\ o \in BOOLEAN /\ q \in Pipes /\ r \in Pipes /\ Orderly(o, c, q)
        BY <1>1, <1>5
    <2> QED
        BY <2>1, <2>3, <2>4, UnmarkedReady
<1>9. /\ Calm(c, g, ready) /\ Calm(c, g, p) /\ (HasMarker(c, g, ready) => LoopSet(c, p) = {})
      /\ Due(c, g, e, f, ready) /\ Due(c, g, e, f, p)
      /\ \A t \in timers : t[1] = c => t[2] \in 0..g
    <2>1. MarkersOf(c, g, e, f, ready, p, timers)
        BY <1>1 DEF Markers, e, f, g, p
    <2> QED
        BY <2>1 DEF MarkersOf
<1>10. /\ HasMarker(c, g, ready) <=> IsMarker(c, g, Head(ready)) \/ HasMarker(c, g, Tail(ready))
       /\ Due(c, g, e, f, ready) <=> Fits(c, g, e, f, Head(ready)) /\ Due(c, g, e, f, Tail(ready))
       /\ Calm(c, g, Tail(ready)) /\ (IsMarker(c, g, Head(ready)) => LoopSet(c, Tail(ready)) = {})
    <2>1. scenario \in Scenarios /\ ready \in Seq(Callbacks) /\ ready # <<>> /\ e \in BOOLEAN
          /\ f \in BOOLEAN /\ Calm(c, g, ready)
        BY <1>1, <1>3, <1>6, <1>9
    <2>2. /\ HasMarker(c, g, ready) <=> IsMarker(c, g, Head(ready)) \/ HasMarker(c, g, Tail(ready))
          /\ Due(c, g, e, f, ready) <=> Fits(c, g, e, f, Head(ready)) /\ Due(c, g, e, f, Tail(ready))
        BY <2>1, MarkerTail
    <2>4. Calm(c, g, Tail(ready))
        BY <2>1, MarkerTail
    <2>5. IsMarker(c, g, Head(ready)) => LoopSet(c, Tail(ready)) = {}
        BY <2>1, MarkerTail
    <2> QED
        BY <2>2, <2>4, <2>5
<1>11. MarkersOf(c, g, e, f, v, p, due)
    <2>1. Fits(c, g, e, f, h) /\ h.gen \in 0..g
        BY <1>1, <1>2, <1>9, <1>10 DEF Fits
    <2>2. \A t \in due : t[1] = c => t[2] \in 0..g
        BY <1>9, <2>1
    <2> QED
        BY <1>9, <1>10, <2>2 DEF MarkersOf
<1>12. o /\ <<c, g>> \in due => Looped(LineOf(c, r)) = {}
    <2>1. CASE <<c, g>> \in timers
        BY <1>1, <1>8, <2>1 DEF CallCore, Phases, Moved, o, g
    <2>2. CASE h.gen = g
        <3>1. IsMarker(c, g, h)
            BY <1>2, <2>2 DEF IsMarker
        <3>2. LoopSet(c, v) = {} /\ LoopSet(c, p) = {}
            BY <1>9, <1>10, <3>1
        <3>3. LineOf(c, r)[4] = LoopSet(c, v) /\ LineOf(c, r)[5] = LoopSet(c, p)
            BY <1>1, <1>5, LineTyped
        <3> QED
            BY <3>2, <3>3 DEF Looped
    <2> QED
        BY <1>1, <2>1, <2>2
<1>13. /\ Orderly(Awaited(c), c, Pipe(c)') /\ Moved(Line(c), LineOf(c, Pipe(c)'))
       /\ LineOf(c, Pipe(c)')[1] = Line(c)[1]
       /\ Told(c) \cap Entire(Line(c)) \subseteq Entire(LineOf(c, Pipe(c)'))
    BY <1>1, <1>8 DEF o, r
<1>14. MarkersOf(c, batch'[c].gen, over[c], position[c] = Len(Chunks(c)), ready', posts'[c], timers')
    BY <1>3, <1>11 DEF e, f, g, p
<1>15. Awaited(c) /\ <<c, batch'[c].gen>> \in timers' => Looped(LineOf(c, Pipe(c)')) = {}
    BY <1>3, <1>12 DEF g, o, r
<1> QED
    BY <1>7, <1>13, <1>14, <1>15, CallStep

(* The end of a handler in a thread comes to the loop.                      *)
LEMMA EndedKeeps ==
    ASSUME Ground, IInv', MailInv', NEW c \in Calls, RunCallback, Head(ready) \in Own(c),
           Head(ready).do = "ended"
    PROVE  CallInv(c)'
<1> DEFINE g == batch[c].gen
           e == over[c]
           f == position[c] = Len(Chunks(c))
           h == Head(ready)
           p == posts[c]
           o == Awaited(c)
<1>1. /\ o \in BOOLEAN /\ scenario \in Scenarios /\ Line(c) \in Lines
      /\ ready \in Seq(Callbacks) /\ mailbox \in Seq(Messages)
      /\ CallCore(c) /\ Markers(c) /\ e \in BOOLEAN /\ g \in Nat
      /\ Line(c)[4] = LoopSet(c, ready) /\ Line(c)[5] = LoopSet(c, p)
    BY GroundTyped, LinesOf
<1>2. h.call = c /\ h.ok \in BOOLEAN /\ h.do = "ended"
    BY DEF Own
<1>3. /\ UNCHANGED <<scenario, attempt, over, position, posts, givenUp, timers,
                     events, todo, drive, state>>
      /\ ready # <<>> /\ ready' = Tail(ready)
      /\ IF Streaming(c) THEN Conclude(c, h.ok) ELSE UNCHANGED <<mailbox, batch, task>>
    BY <1>2 DEF RunCallback, handlerVars, driverVars
<1>4. f \in BOOLEAN
    OBVIOUS
<1>5. CallbackMarks(c, h) = {}
    BY <1>2 DEF CallbackMarks
<1>6. CASE ~Streaming(c)
    <2>1. /\ UNCHANGED <<mailbox, batch, task>> /\ Alike(c)
        BY <1>3, <1>6 DEF Alike
    <2>2. mailbox' = Mail(<<>>) /\ <<>> \in Seq(Messages)
        BY <1>1, <2>1, MailNothing
    <2>3. MailSet(c, <<>>) = {} /\ MailOrder(Awaited(c), c, <<>>)
        BY <1>1, MailFew
    <2>4. <<>> \in Seq(Callbacks) /\ LoopSet(c, <<>>) = {} /\ LoopOrder(Awaited(c), c, <<>>)
        BY <1>1, LoopFew
    <2>5. \A x : ~HasMarker(c, x, <<>>) /\ Calm(c, x, <<>>)
        BY DEF HasMarker, Calm
    <2>6. \A x, y, z : Due(c, x, y, z, <<>>)
        BY DEF Due
    <2>7. /\ posts'[c] = posts[c] /\ batch'[c] = batch[c]
          /\ UNCHANGED <<events, todo, drive, state>> /\ timers' = timers
          /\ ready # <<>> /\ ready' = Tail(ready) /\ CallbackMarks(c, Head(ready)) = {}
        BY <1>3, <1>5, <2>1
    <2> QED
        BY <2>1, <2>2, <2>3, <2>4, <2>5, <2>6, <2>7, ForeignKeeps
<1>7. CASE Streaming(c)
    <2> HIDE DEF g, e, f, p, o
    <2>1. /\ Calm(c, g, ready) /\ (HasMarker(c, g, ready) => LoopSet(c, p) = {})
          /\ Due(c, g, e, f, ready)
        <3>1. MarkersOf(c, g, e, f, ready, p, timers)
            BY <1>1 DEF Markers, e, f, g, p
        <3> QED
            BY <3>1 DEF MarkersOf
    <2>2. /\ HasMarker(c, g, ready) <=> IsMarker(c, g, Head(ready)) \/ HasMarker(c, g, Tail(ready))
          /\ Due(c, g, e, f, ready) <=> Fits(c, g, e, f, Head(ready)) /\ Due(c, g, e, f, Tail(ready))
          /\ IsMarker(c, g, Head(ready)) => LoopSet(c, Tail(ready)) = {}
        <3>1. scenario \in Scenarios /\ ready \in Seq(Callbacks) /\ ready # <<>> /\ e \in BOOLEAN
              /\ f \in BOOLEAN /\ Calm(c, g, ready)
            BY <1>1, <1>3, <1>4, <2>1 DEF e, f
        <3>2. /\ HasMarker(c, g, ready) <=> IsMarker(c, g, Head(ready)) \/ HasMarker(c, g, Tail(ready))
              /\ Due(c, g, e, f, ready) <=> Fits(c, g, e, f, Head(ready)) /\ Due(c, g, e, f, Tail(ready))
            BY <3>1, MarkerTail
        <3>4. IsMarker(c, g, Head(ready)) => LoopSet(c, Tail(ready)) = {}
            BY <3>1, MarkerTail
        <3> QED
            BY <3>2, <3>4
    <2>3. e /\ (h.ok => f)
        BY <1>2, <2>1, <2>2 DEF Fits
    <2>4. LoopSet(c, Tail(ready)) = {} /\ LoopSet(c, p) = {}
        BY <1>2, <2>1, <2>2 DEF IsMarker
    <2>5. LoopSet(c, ready) = {}
        <3>1. LoopSet(c, ready) = CallbackMarks(c, Head(ready)) \cup LoopSet(c, Tail(ready))
            BY <1>1, <1>3, LoopTail DEF o
        <3> QED
            BY <1>5, <2>4, <3>1
    <2>6. Looped(Line(c)) = {}
        BY <1>1, <2>4, <2>5 DEF Looped
    <2>7. Awaited(c)
        BY <1>1, <1>7 DEF CallCore, Watched, Awaited
    <2>8. Awaited(c)' <=> Awaited(c)
        BY <1>3 DEF Awaited, Mode
    <2>9. /\ Current(c) /\ task[c[1]] \in {"streaming", "closing"} /\ Conclude(c, h.ok)
          /\ UNCHANGED <<scenario, attempt, position, posts, timers, events, todo, drive, state>>
          /\ ready # <<>> /\ ready' = Tail(ready) /\ CallbackMarks(c, Head(ready)) = {}
        BY <1>3, <1>5, <1>7 DEF Streaming
    <2>10. over'[c] \in BOOLEAN /\ over[c] /\ over'[c]
        BY <1>1, <1>3, <2>3 DEF e
    <2>11. h.ok => position[c] = Len(Chunks(c))
        BY <2>3 DEF f
    <2> HIDE DEF h
    <2> QED
        BY <1>2, <2>6, <2>7, <2>8, <2>9, <2>10, <2>11, ConcludeKeeps
<1> QED
    BY <1>6, <1>7

LEMMA CallbackKeeps ==
    ASSUME Ground, IInv', MailInv', NEW c \in Calls, RunCallback, Head(ready) \in Own(c)
    PROVE  CallInv(c)'
<1>1. Head(ready).do \in {"put", "deadline", "ended"}
    BY DEF Own
<1> QED
    BY <1>1, PutKeeps, DeadlineKeeps, EndedKeeps

(* The handler has ended, and its end is on its way, or its source is closed.*)
LEMMA OverKeeps ==
    ASSUME Ground, IInv', MailInv', NEW c \in Calls,
           UNCHANGED <<scenario, attempt, position, timers, events, todo, drive, state, mailbox,
                       batch, ready>>,
           over'[c] = TRUE, c[2] <= attempt[c[1]], Awaited(c)' <=> Awaited(c),
           NEW u \in Seq(Callbacks), posts'[c] = posts[c] \o u, LoopSet(c, u) = {},
           LoopOrder(Awaited(c), c, u),
           \/ task'[c[1]] = task[c[1]]
           \/ Streaming(c) /\ task'[c[1]] = "closing" /\ Mode(c) = "async",
           c \in givenUp' => ~Streaming(c)',
           MarkersOf(c, batch[c].gen, TRUE, position[c] = Len(Chunks(c)), ready, posts'[c], timers)
    PROVE  CallInv(c)'
<1> DEFINE q == Pipe(c)
           r == Pipe(c)'
           a == Awaited(c)
           N == Len(Chunks(c))
           T == Told(c)
           K == LineOf(c, r)
<1>1. /\ q \in Pipes /\ q.events = events /\ q.todo = todo /\ q.mail = mailbox
      /\ q.ready = ready /\ q.posts = posts[c] /\ q.batch = batch[c].specs
      /\ Orderly(a, c, q) /\ a \in BOOLEAN /\ scenario \in Scenarios /\ Line(c) = LineOf(c, q)
      /\ CallCore(c) /\ N \in Nat /\ c[2] \in Nat /\ attempt[c[1]] \in Nat
    BY GroundTyped, PipeTyped, ChunksTyped
<1>2. /\ r \in Pipes /\ r.events = events /\ r.todo = todo /\ r.mail = mailbox
      /\ r.ready = ready /\ r.posts = posts[c] \o u /\ r.batch = batch[c].specs
    BY PipePrime
<1> HIDE DEF q, r, a
<1>3. Orderly(a, c, r) /\ Added(LineOf(c, q), LineOf(c, r), 5, LoopSet(c, u))
    <2>1. Fresh(a, LineOf(c, q), 5, LoopSet(c, u))
        BY DEF Fresh, Apart
    <2>2. /\ scenario \in Scenarios /\ a \in BOOLEAN /\ q \in Pipes /\ r \in Pipes
          /\ Orderly(a, c, q) /\ LoopOrder(a, c, u)
        BY <1>1, <1>2 DEF a
    <2>3. /\ r.posts = q.posts \o u /\ r.events = q.events /\ r.todo = q.todo
          /\ r.mail = q.mail /\ r.ready = q.ready /\ r.batch = q.batch
        BY <1>1, <1>2
    <2> QED
        BY <2>1, <2>2, <2>3, PostsGrow
<1>4. Entire(K) = Entire(Line(c)) /\ Looped(K) = Looped(Line(c)) /\ K[1] = Line(c)[1]
      /\ K[6] = Line(c)[6]
    <2>1. LineOf(c, q) \in Lines /\ LineOf(c, r) \in Lines /\ 5 \in Places /\ {} \in Marks
        BY <1>1, <1>2, LineTyped DEF Places, Marks
    <2> DEFINE L == LineOf(c, q)
               X == LoopSet(c, u)
    <2>2. L \in Lines /\ K \in Lines /\ 5 \in Places /\ X \in Marks /\ X = {} /\ Added(L, K, 5, X)
        BY <1>3, <2>1
    <2>3. L = Line(c)
        BY <1>1
    <2> HIDE DEF L, K, X
    <2>4. /\ Entire(K) = Entire(L)
          /\ Looped(K) = Looped(L) /\ K[1] = L[1]
        BY <2>2, AddedIs
    <2>5. K[6] = L[6]
        BY <2>2 DEF Added, Places
    <2> QED
        BY <2>3, <2>4, <2>5
<1>5. \A k : k \in T <=> k \in Told(c)'
    <2>1. \A k : k \in Told(c)' <=> k \in Sayings(c) /\ k <= position'[c]
        BY OwnPrimes
    <2> QED
        BY <2>1 DEF Told
<1>6. /\ Current(c)' <=> Current(c)
      /\ Concluded(c)' <=> Concluded(c)
    BY DEF Concluded, Current, Streaming
<1>7. Known(c) /\ Whole(c) /\ Finished(c) /\ Phases(c) /\ Watched(c)
    BY <1>1 DEF CallCore
<1>8. task[c[1]] = "done" => task'[c[1]] = "done"
    BY DEF Streaming
<1>9. (task'[c[1]] = "succeeded" => task[c[1]] = "succeeded")
    OBVIOUS
<1>10. Stands(c, a, K, T, N)
    <2>1. /\ scenario' = scenario /\ a \in BOOLEAN /\ (Awaited(c)' <=> a)
          /\ K = LineOf(c, Pipe(c)') /\ N = Len(Chunks(c)) /\ Orderly(a, c, Pipe(c)')
        BY <1>1, <1>3 DEF a, r
    <2>2. /\ Entire(K) \subseteq T \cup {N + 1, N + 2} /\ Looped(K) \cup K[6] \subseteq T
          /\ N + 1 \in Entire(K) => Concluded(c)'
          /\ N + 2 \in Entire(K) => task'[c[1]] = "done"
        BY <1>4, <1>6, <1>7, <1>8 DEF Known
    <2>3. /\ a /\ ~Cancelled' => T \subseteq Entire(K)
          /\ N + 2 \in K[1] => Sayings(c) \subseteq K[1]
        BY <1>4, <1>7 DEF Whole, Cancelled, a
    <2>4. Current(c)' /\ (task'[c[1]] = "succeeded" \/ N + 2 \in Entire(K))
              => a /\ position'[c] = N
        BY <1>4, <1>6, <1>7, <1>9 DEF Finished, a
    <2>5. c[2] > attempt'[c[1]] => position'[c] = 0 /\ ~over'[c]
        BY <1>1
    <2>6. Concluded(c)' /\ a => over'[c] /\ Looped(K) = {} /\ K[6] = {}
        BY <1>4, <1>6, <1>7 DEF Phases, a
    <2>7. Current(c)' /\ task'[c[1]] = "closing" => over'[c] /\ Mode(c) = "async"
        BY <1>6, <1>7 DEF Phases
    <2>8. Mode(c) = "async" => Looped(K) = {}
        BY <1>4, <1>7 DEF Phases
    <2>9. <<c, batch'[c].gen>> \in timers' /\ a => Looped(K) = {}
        BY <1>4, <1>7 DEF Phases, a
    <2>10. c \in givenUp' => c[2] <= attempt'[c[1]] /\ ~Streaming(c)'
        OBVIOUS
    <2>11. MarkersOf(c, batch'[c].gen, over'[c], position'[c] = N, ready', posts'[c], timers')
        OBVIOUS
    <2> HIDE DEF K, T, N
    <2> QED
        BY <1>5, <2>1, <2>2, <2>3, <2>4, <2>5, <2>6, <2>7, <2>8, <2>9, <2>10, <2>11 DEF Stands
<1> HIDE DEF K, T, N
<1> QED
    BY <1>10, OwnStep

(* The handler returns or raises.                                          *)
LEMMA EndKeeps ==
    ASSUME Ground, IInv', MailInv', NEW c \in Calls, NEW ok \in BOOLEAN, EndStream(c, ok)
    PROVE  CallInv(c)'
<1> DEFINE g == batch[c].gen
           e == over[c]
           f == position[c] = Len(Chunks(c))
           p == posts[c]
           o == Awaited(c)
<1>1. /\ o \in BOOLEAN /\ scenario \in Scenarios /\ e \in BOOLEAN /\ g \in Nat
      /\ ready \in Seq(Callbacks) /\ CallCore(c) /\ Markers(c) /\ IInv /\ Sound /\ Course
      /\ p \in Seq(Callbacks) /\ c[1] \in Nodes /\ task \in [Nodes -> TaskStates]
    BY GroundTyped DEF Course
<1>2. /\ UNCHANGED <<scenario, attempt, position, timers, events, todo, drive, state, ready, givenUp>>
      /\ c[2] <= attempt[c[1]] /\ ~e /\ p = <<>> /\ (ok => f)
    BY DEF EndStream, loopVars, driverVars
<1>3. over'[c] = TRUE
    BY <1>1 DEF EndStream, Course
<1>4. /\ f \in BOOLEAN /\ (Awaited(c)' <=> Awaited(c)) /\ (Streaming(c)' => c[2] = attempt[c[1]])
    BY <1>2 DEF Awaited, Mode, Streaming, Current
<1>5. MarkersOf(c, g, TRUE, f, ready, p, timers)
    <2>1. MarkersOf(c, g, e, f, ready, p, timers)
        BY <1>1 DEF Markers
    <2> HIDE DEF g, e, f, p
    <2> QED
        BY <1>1, <1>4, <2>1, MarkersDue
<1>6. CASE Mode(c) = "sync"
    <2> DEFINE u == <<Ended(c, ok)>>
    <2>1. UNCHANGED <<batch, mailbox, task>> /\ posts'[c] = u
        BY <1>1, <1>6 DEF EndStream, IInv, BatcherTypeOK
    <2>2. Ended(c, ok) \in Callbacks
        BY DEF Ended, Callbacks
    <2>3. u \in Seq(Callbacks) /\ LoopSet(c, u) = {} /\ LoopOrder(o, c, u)
        <3>1. CallbackMarks(c, Ended(c, ok)) = {} /\ Tidy(o, c, Ended(c, ok))
            BY DEF CallbackMarks, Tidy, Ended
        <3> HIDE DEF o
        <3> QED
            BY <1>1, <2>2, <3>1, LoopFew
    <2>4. MarkersOf(c, g, TRUE, f, ready, u, timers)
        <3>1. Fits(c, g, TRUE, f, Ended(c, ok))
            BY <1>2 DEF Fits, Ended
        <3> HIDE DEF f, g
        <3>2. Calm(c, g, u) /\ Due(c, g, TRUE, f, u)
            BY <1>4, <3>1, MarkerFew
        <3>3. /\ Calm(c, g, ready) /\ Due(c, g, TRUE, f, ready)
              /\ \A t \in timers : t[1] = c => t[2] \in 0..g
            BY <1>5 DEF MarkersOf
        <3> HIDE DEF u
        <3> QED
            BY <2>3, <3>2, <3>3 DEF MarkersOf
    <2>5. posts'[c] = posts[c] \o u
        BY <1>2, <2>1
    <2>6. c \in givenUp' => ~Streaming(c)'
        BY <1>1, <1>2, <2>1 DEF CallCore, Watched, Streaming, Current
    <2> HIDE DEF u
    <2> QED
        BY <1>2, <1>3, <1>4, <2>1, <2>3, <2>4, <2>5, <2>6, OverKeeps
<1>7. CASE Mode(c) = "async" /\ ok
    <2>1. Conclude(c, ok) /\ Streaming(c) /\ UNCHANGED posts
        BY <1>7 DEF EndStream
    <2>2. Awaited(c) /\ Awaited(c)' /\ Looped(Line(c)) = {}
        BY <1>1, <1>4, <1>7 DEF Awaited, CallCore, Phases
    <2>3. Current(c) /\ task[c[1]] \in {"streaming", "closing"}
        BY <2>1 DEF Streaming
    <2> QED
        BY <1>2, <1>3, <2>1, <2>2, <2>3, ConcludeKeeps
<1>8. CASE Mode(c) = "async" /\ ~ok
    <2>1. /\ UNCHANGED <<batch, mailbox, posts>> /\ Streaming(c)
          /\ task' = [task EXCEPT ![c[1]] = "closing"]
        BY <1>8 DEF EndStream
    <2>2. task'[c[1]] = "closing"
        BY <1>1, <2>1
    <2>3. /\ <<>> \in Seq(Callbacks) /\ LoopSet(c, <<>>) = {} /\ LoopOrder(o, c, <<>>)
        BY <1>1, LoopFew
    <2>4. posts'[c] = posts[c] \o <<>>
        BY <1>2, <2>1
    <2>5. MarkersOf(c, g, TRUE, f, ready, posts'[c], timers)
        BY <1>5, <2>1
    <2>6. ~Streaming(c)'
        BY <1>2, <2>2 DEF Streaming
    <2> QED
        BY <1>2, <1>3, <1>4, <1>8, <2>1, <2>2, <2>3, <2>4, <2>5, <2>6, OverKeeps
<1> QED
    BY <1>1, <1>6, <1>7, <1>8, ChunksTyped

(* The attempt is given up.                                                *)
LEMMA GiveUpKeeps ==
    ASSUME Ground, IInv', MailInv', NEW c \in Calls, GiveUp(c)
    PROVE  CallInv(c)'
<1> DEFINE g == batch[c].gen
           e == over[c]
           f == position[c] = Len(Chunks(c))
           p == posts[c]
           o == Awaited(c)
<1>1. /\ o \in BOOLEAN /\ scenario \in Scenarios /\ e \in BOOLEAN /\ g \in Nat
      /\ ready \in Seq(Callbacks) /\ CallCore(c) /\ Markers(c) /\ IInv /\ Sound /\ Course
      /\ p \in Seq(Callbacks) /\ c[1] \in Nodes /\ task \in [Nodes -> TaskStates]
      /\ attempt[c[1]] \in Nat
    BY GroundTyped DEF Course
<1>2. /\ UNCHANGED <<scenario, attempt, position, posts, timers, events, todo, drive, state, ready>>
      /\ Streaming(c) /\ Current(c) /\ givenUp' = givenUp \cup {c}
    BY DEF GiveUp, loopVars, driverVars, Streaming
<1>3. CASE Mode(c) = "sync"
    <2>1. Conclude(c, FALSE) /\ UNCHANGED over
        BY <1>3 DEF GiveUp
    <2>2. Awaited(c)' = FALSE
        BY <1>2, <1>3 DEF Awaited, Mode
    <2>3. task[c[1]] \in {"streaming", "closing"}
        BY <1>2 DEF Streaming
    <2>4. FALSE \in BOOLEAN /\ over'[c] \in BOOLEAN
        BY <1>1, <2>1
    <2> QED
        BY <1>2, <2>1, <2>2, <2>3, <2>4, ConcludeKeeps
<1>4. CASE Mode(c) = "async"
    <2>1. /\ UNCHANGED <<batch, mailbox>> /\ over'[c] = TRUE /\ task'[c[1]] = "closing"
        BY <1>1, <1>4 DEF GiveUp, Course
    <2>2. f \in BOOLEAN /\ (Awaited(c)' <=> Awaited(c)) /\ ~Streaming(c)' /\ c[2] <= attempt[c[1]]
        BY <1>1, <1>2, <1>4, <2>1 DEF Awaited, Mode, Streaming, Current
    <2>3. MarkersOf(c, g, TRUE, f, ready, p, timers)
        <3>1. MarkersOf(c, g, e, f, ready, p, timers)
            BY <1>1 DEF Markers
        <3> HIDE DEF g, e, f, p
        <3> QED
            BY <1>1, <2>2, <3>1, MarkersDue
    <2>4. /\ <<>> \in Seq(Callbacks) /\ LoopSet(c, <<>>) = {} /\ LoopOrder(o, c, <<>>)
        BY <1>1, LoopFew
    <2>5. posts'[c] = posts[c] \o <<>>
        BY <1>1, <1>2
    <2>6. MarkersOf(c, g, TRUE, f, ready, posts'[c], timers)
        BY <1>2, <2>3
    <2> QED
        BY <1>2, <1>4, <2>1, <2>2, <2>4, <2>5, <2>6, OverKeeps
<1> QED
    BY <1>1, <1>3, <1>4, ChunksTyped

(* Its source is closed.                                                   *)
LEMMA CloseSourceKeeps ==
    ASSUME Ground, IInv', MailInv', NEW c \in Calls, CloseSource(c)
    PROVE  CallInv(c)'
<1>1. CallCore(c) /\ over[c] \in BOOLEAN
    BY GroundTyped
<1>2. /\ UNCHANGED <<scenario, attempt, position, posts, timers, events, todo, drive, state, ready,
                     over, givenUp>>
      /\ Current(c) /\ task[c[1]] \in {"streaming", "closing"} /\ Conclude(c, FALSE)
      /\ task[c[1]] = "closing"
    BY DEF CloseSource, loopVars, driverVars, handlerVars
<1>3. over[c] /\ Mode(c) = "async" /\ Looped(Line(c)) = {}
    BY <1>1, <1>2 DEF CallCore, Phases
<1>4. Awaited(c) /\ Awaited(c)'
    BY <1>2, <1>3 DEF Awaited, Mode
<1>5. FALSE \in BOOLEAN /\ over'[c] = over[c]
    BY <1>2
<1> QED
    BY <1>1, <1>2, <1>3, <1>4, <1>5, ConcludeKeeps

(* The next chunk is behind all that is under way.                         *)
LEMMA ChunkFresh ==
    ASSUME Ground, NEW c \in Calls, ~over[c], position[c] < Len(Chunks(c)), c[2] <= attempt[c[1]],
           NEW X, X \subseteq {position[c] + 1}
    PROVE  X \in Marks /\ Fresh(Awaited(c), Line(c), 6, X)
<1> DEFINE N == Len(Chunks(c))
           L == Line(c)
           k == position[c] + 1
           o == Awaited(c)
<1>1. /\ CallCore(c) /\ N \in Nat /\ c[2] \in Nat /\ attempt[c[1]] \in Nat /\ position[c] \in Nat
      /\ L \in Lines /\ o \in BOOLEAN
    BY GroundTyped, ChunksTyped
<1>2. k \in 1..N /\ X \in Marks
    BY <1>1 DEF Marks
<1>3. /\ Entire(L) \subseteq Told(c) \cup {N + 1, N + 2}
      /\ \A x \in Told(c) : x < k
    <2>1. Entire(L) \subseteq Told(c) \cup {N + 1, N + 2}
        BY <1>1 DEF CallCore, Known
    <2>2. \A x \in Told(c) : x \in 1..N /\ x <= position[c]
        BY GroundTyped DEF Told
    <2> QED
        BY <1>1, <2>1, <2>2
<1>4. k \notin Entire(L)
    BY <1>1, <1>2, <1>3
<1>5. o => \A x \in Entire(L) : x < k
    <2>1. o => ~Concluded(c)
        BY <1>1 DEF CallCore, Phases
    <2>2. o => N + 1 \notin Entire(L)
        BY <1>1, <2>1 DEF CallCore, Known
    <2>3. o => N + 2 \notin Entire(L)
        <3>1. task[c[1]] = "done" => Concluded(c)
            BY <1>1 DEF Concluded, Current
        <3> QED
            BY <1>1, <2>1, <3>1 DEF CallCore, Known
    <2> QED
        BY <1>3, <2>2, <2>3
<1>6. \A p \in Places : L[p] \subseteq Entire(L)
    BY <1>1, InEntire
<1> HIDE DEF L, k, o
<1>7. \A p \in Places : Apart(FALSE, L[p], X)
    BY <1>4, <1>6 DEF Apart, k
<1>8. o => \A p \in Places : Apart(TRUE, L[p], X)
    BY <1>4, <1>5, <1>6 DEF Apart, k
<1>9. \A p \in Places : p <= 6
    BY DEF Places
<1> QED
    BY <1>2, <1>7, <1>8, <1>9 DEF Fresh, o, L

(* A batch b that grows to G, and is B when it was published as it was full; *)
(* t is what the loop is told.  Its generations.                           *)
Grows(c, b, specs, G, B, t) ==
    /\ G = Grown(b, specs) /\ B = IF Full(G) THEN Taken(G) ELSE G
    /\ t = Deadlines(c, b, specs)

LEMMA ChunkGen ==
    ASSUME NEW c \in Calls, NEW b \in Batches, NEW specs \in Seq(Specs), NEW G, NEW B, NEW t,
           Grows(c, b, specs, G, B, t)
    PROVE  /\ G \in Batches /\ B \in Batches /\ G.specs = b.specs \o specs
           /\ b.gen <= G.gen /\ G.gen <= B.gen
           /\ B.gen = b.gen => ~Full(G) /\ t = <<>>
           /\ Full(G) => G.gen < B.gen /\ B.specs = <<>>
           /\ ~Full(G) => B.specs = G.specs
           /\ t = <<>> \/ t = <<Deadline(c, G.gen)>>
<1> USE DEF Grows
<1>1. /\ G \in Batches /\ G.specs = b.specs \o specs
      /\ G.gen = IF b.specs = <<>> /\ specs # <<>> THEN b.gen + 1 ELSE b.gen
    BY DEF Grown, Batches
<1>2. Full(G) => G.specs # <<>>
    BY <1>1, ScenarioAssumption DEF Full
<1>3. Full(G) => B = [specs |-> <<>>, gen |-> G.gen + 1]
    BY <1>2 DEF Taken
<1>4. B \in Batches
    <2>1. [specs |-> <<>>, gen |-> G.gen + 1] \in Batches
        BY <1>1 DEF Batches
    <2>2. CASE Full(G)
        BY <1>3, <2>1, <2>2
    <2>3. CASE ~Full(G)
        BY <1>1, <2>3
    <2> QED
        BY <2>2, <2>3
<1>5. b.gen \in Nat /\ G.gen \in Nat /\ B.gen \in Nat
    BY <1>1, <1>4 DEF Batches
<1>6. B.gen = IF Full(G) THEN G.gen + 1 ELSE G.gen
    BY <1>3
<1>7. B.gen = b.gen => ~Full(G) /\ ~(b.specs = <<>> /\ specs # <<>>)
    BY <1>1, <1>5, <1>6
<1> QED
    BY <1>1, <1>3, <1>4, <1>5, <1>6, <1>7 DEF Deadlines

(* The deadline of a batch carries no marks, and marks its generation.      *)
LEMMA DeadlineMarks ==
    ASSUME scenario \in Scenarios, NEW c \in Calls, NEW x \in Nat,
           NEW t, t = <<>> \/ t = <<Deadline(c, x)>>, NEW o \in BOOLEAN
    PROVE  t \in Seq(Callbacks) /\ LoopSet(c, t) = {} /\ LoopOrder(o, c, t)
<1> DEFINE d == Deadline(c, x)
<1>1. d \in Callbacks /\ CallbackMarks(c, d) = {} /\ Tidy(o, c, d)
    BY DEF Deadline, Callbacks, CallbackMarks, Tidy
<1> HIDE DEF d
<1>2. CASE t = <<>>
    BY <1>2, LoopFew
<1>3. CASE t = <<d>>
    <2>1. LoopSet(c, <<d>>) = {} /\ LoopOrder(o, c, <<d>>)
        BY <1>1, LoopFew
    <2>2. <<d>> \in Seq(Callbacks)
        BY <1>1
    <2> QED
        BY <1>3, <2>1, <2>2
<1> QED
    BY <1>2, <1>3 DEF d

LEMMA DeadlineFits ==
    ASSUME NEW c \in Calls, NEW x \in Nat, NEW h \in Nat, x <= h,
           NEW t, t = <<>> \/ t = <<Deadline(c, x)>>, NEW e \in BOOLEAN, NEW f \in BOOLEAN
    PROVE  Calm(c, h, t) /\ Due(c, h, e, f, t) /\ (HasMarker(c, h, t) => x = h)
<1> DEFINE d == Deadline(c, x)
<1>1. Fits(c, h, e, f, d) /\ (IsMarker(c, h, d) => x = h)
    BY DEF Deadline, Fits, IsMarker
<1> HIDE DEF d
<1>2. CASE t = <<>>
    <2>1. ~HasMarker(c, h, <<>>) /\ Calm(c, h, <<>>) /\ Due(c, h, e, f, <<>>)
        BY MarkerFew
    <2> QED
        BY <1>2, <2>1
<1>3. CASE t = <<d>>
    <2>1. /\ HasMarker(c, h, <<d>>) <=> IsMarker(c, h, d)
          /\ Due(c, h, e, f, <<d>>) <=> Fits(c, h, e, f, d)
          /\ Calm(c, h, <<d>>)
        BY MarkerFew
    <2> QED
        BY <1>1, <1>3, <2>1
<1> QED
    BY <1>2, <1>3 DEF d

(* What a chunk adds to the line of its call: its mark, behind all others.  *)
Extends(o, c, q, r, X) ==
    /\ Orderly(o, c, r) /\ LineOf(c, r)[1] = LineOf(c, q)[1]
    /\ Entire(LineOf(c, r)) = Entire(LineOf(c, q)) \cup X
    /\ Looped(LineOf(c, r)) \cup LineOf(c, r)[6]
         \subseteq Looped(LineOf(c, q)) \cup LineOf(c, q)[6] \cup X

(* Specs come to the batch, and a deadline to the loop or to the thread.    *)
Starts(o, c, q, specs, t, X) ==
    /\ Orderly(o, c, q) /\ Fresh(o, LineOf(c, q), 6, X) /\ X \in Marks
    /\ specs \in Seq(Specs) /\ SpecSet(c, specs) = X /\ SpecOrder(o, c, specs)
    /\ t \in Seq(Callbacks) /\ LoopSet(c, t) = {} /\ LoopOrder(o, c, t)

LEMMA ChunkBatched ==
    ASSUME scenario \in Scenarios, NEW c \in Calls, NEW o \in BOOLEAN, NEW q \in Pipes,
           NEW n \in Pipes, NEW specs, NEW t, NEW X, Starts(o, c, q, specs, t, X),
           n.batch = q.batch \o specs, n.events = q.events, n.todo = q.todo, n.mail = q.mail,
           \/ n.ready = q.ready \o t /\ n.posts = q.posts
           \/ n.ready = q.ready /\ n.posts = q.posts \o t
    PROVE  Extends(o, c, q, n, X) /\ Looped(LineOf(c, n)) = Looped(LineOf(c, q))
<1> DEFINE m == [q EXCEPT !.batch = q.batch \o specs]
           L == LineOf(c, q)
           M == LineOf(c, m)
           K == LineOf(c, n)
<1>1. /\ q.events \in Seq(Specs) /\ q.todo \in Seq(Messages) /\ q.mail \in Seq(Messages)
      /\ q.ready \in Seq(Callbacks) /\ q.posts \in Seq(Callbacks)
      /\ q.batch \o specs \in Seq(Specs) /\ specs \in Seq(Specs) /\ t \in Seq(Callbacks)
      /\ X \in Marks /\ Orderly(o, c, q)
    BY DEF Pipes, Starts
<1>2. /\ m \in Pipes /\ m.events = q.events /\ m.todo = q.todo /\ m.mail = q.mail
      /\ m.ready = q.ready /\ m.posts = q.posts /\ m.batch = q.batch \o specs
    BY <1>1 DEF Pipes
<1> HIDE DEF m
<1>3. Orderly(o, c, m) /\ Added(L, M, 6, X)
    BY <1>1, <1>2, BatchGrow DEF Starts
<1>4. L \in Lines /\ M \in Lines /\ K \in Lines /\ {4, 5, 6} \subseteq Places
    BY <1>2, LineTyped DEF Places
<1>5. Fresh(o, M, 4, {}) /\ Fresh(o, M, 5, {}) /\ {} \in Marks
    BY DEF Fresh, Apart, Marks
<1>6. LoopSet(c, t) = {} /\ LoopOrder(o, c, t)
    BY DEF Starts
<1>7. /\ Orderly(o, c, n) /\ Entire(K) = Entire(M) /\ Looped(K) = Looped(M)
      /\ K[1] = M[1] /\ K[6] = M[6]
    <2>1. CASE n.ready = q.ready \o t /\ n.posts = q.posts
        <3>1. /\ n.ready = m.ready \o t /\ n.events = m.events /\ n.todo = m.todo
              /\ n.mail = m.mail /\ n.posts = m.posts /\ n.batch = m.batch
            BY <1>2, <2>1
        <3>2. Orderly(o, c, n) /\ Added(M, K, 4, LoopSet(c, t))
            BY <1>1, <1>2, <1>3, <1>5, <1>6, <3>1, ReadyGrow
        <3> HIDE DEF L, M, K
        <3> QED
            BY <1>4, <1>6, <3>2 DEF Added, Entire, Looped, Places
    <2>2. CASE n.ready = q.ready /\ n.posts = q.posts \o t
        <3>1. /\ n.posts = m.posts \o t /\ n.events = m.events /\ n.todo = m.todo
              /\ n.mail = m.mail /\ n.ready = m.ready /\ n.batch = m.batch
            BY <1>2, <2>2
        <3>2. Orderly(o, c, n) /\ Added(M, K, 5, LoopSet(c, t))
            BY <1>1, <1>2, <1>3, <1>5, <1>6, <3>1, PostsGrow
        <3> HIDE DEF L, M, K
        <3> QED
            BY <1>4, <1>6, <3>2 DEF Added, Entire, Looped, Places
    <2> QED
        BY <2>1, <2>2
<1> HIDE DEF L, M, K
<1>8. /\ Entire(M) = Entire(L) \cup X /\ Looped(M) = Looped(L)
      /\ M[1] = L[1] /\ M[6] = L[6] \cup X
    <2>1. M[6] = L[6] \cup X
        BY <1>3 DEF Added
    <2>2. M[1] = L[1] /\ M[2] = L[2] /\ M[3] = L[3] /\ M[4] = L[4] /\ M[5] = L[5]
        BY <1>3 DEF Added, Places
    <2> QED
        BY <2>1, <2>2 DEF Entire, Looped
<1> QED
    BY <1>7, <1>8 DEF Extends, L, K

(* A full batch is published: handed to the loop, or to the mailbox.        *)
LEMMA BatchPosted ==
    ASSUME scenario \in Scenarios, NEW c \in Calls, NEW o \in BOOLEAN, NEW q \in Pipes,
           NEW r \in Pipes, Orderly(o, c, q), r.batch = <<>>,
           r.posts = q.posts \o <<Put(Events_(q.batch))>>,
           r.events = q.events, r.todo = q.todo, r.mail = q.mail, r.ready = q.ready
    PROVE  Extends(o, c, q, r, {})
<1> DEFINE L == LineOf(c, q)
           K == LineOf(c, r)
           d == Put(Events_(q.batch))
           t == <<d>>
<1>1. q.batch \in Seq(Specs) /\ SpecOrder(o, c, q.batch)
    BY DEF Pipes, Orderly, Sorted
<1>2. d \in Callbacks
    BY <1>1 DEF Put, Events_, Callbacks, Messages
<1>3. CallbackMarks(c, d) = SpecSet(c, q.batch) /\ Tidy(o, c, d)
    BY <1>1 DEF Put, Events_, CallbackMarks, MessageMarks, Tidy, Neat
<1> HIDE DEF d
<1>4. t \in Seq(Callbacks) /\ LoopSet(c, t) = SpecSet(c, q.batch) /\ LoopOrder(o, c, t)
    BY <1>2, <1>3, LoopFew
<1>5. SpecSet(c, <<>>) = {} /\ SpecOrder(o, c, <<>>) /\ <<>> \in Seq(Specs)
    BY SpecFew
<1>6. L \in Lines /\ K \in Lines
    BY LineTyped
<1>7. Orderly(o, c, r) /\ Shifted(L, K, 5, 6)
    <2> DEFINE u == <<>>
    <2>1. /\ r.posts = q.posts \o t /\ r.batch = u /\ u \in Seq(Specs)
          /\ r.events = q.events /\ r.todo = q.todo /\ r.mail = q.mail /\ r.ready = q.ready
          /\ LoopOrder(o, c, t) /\ SpecOrder(o, c, u)
          /\ SpecSet(c, q.batch) = LoopSet(c, t) \cup SpecSet(c, u)
          /\ Apart(o, LoopSet(c, t), SpecSet(c, u)) /\ t \in Seq(Callbacks)
        BY <1>4, <1>5 DEF d, Apart
    <2> HIDE DEF t, u
    <2> QED
        BY <2>1, PostsFromBatch
<1> HIDE DEF L, K
<1>8. /\ K[5] \cup K[6] = L[5] \cup L[6]
      /\ K[1] = L[1] /\ K[2] = L[2] /\ K[3] = L[3] /\ K[4] = L[4]
    BY <1>7 DEF Shifted, Places
<1>9. Entire(K) = Entire(L) /\ Looped(K) \cup K[6] \subseteq Looped(L) \cup L[6]
    BY <1>8 DEF Entire, Looped
<1> QED
    BY <1>7, <1>8, <1>9 DEF Extends, L, K

LEMMA BatchMailed ==
    ASSUME scenario \in Scenarios, NEW c \in Calls, NEW o \in BOOLEAN, NEW q \in Pipes,
           NEW r \in Pipes, Orderly(o, c, q), r.batch = <<>>,
           r.mail = q.mail \o <<Events_(q.batch)>>, Looped(LineOf(c, q)) = {},
           r.events = q.events, r.todo = q.todo, r.posts = q.posts, r.ready = q.ready
    PROVE  Extends(o, c, q, r, {}) /\ Looped(LineOf(c, r)) = {}
<1> DEFINE L == LineOf(c, q)
           K == LineOf(c, r)
           m == Events_(q.batch)
           t == <<m>>
           w == <<>>
<1>1. q.batch \in Seq(Specs) /\ SpecOrder(o, c, q.batch) /\ q.mail \in Seq(Messages)
    BY DEF Pipes, Orderly, Sorted
<1>2. m \in Messages
    BY <1>1 DEF Events_, Messages
<1>3. MessageMarks(c, m) = SpecSet(c, q.batch) /\ Neat(o, c, m)
    BY <1>1 DEF Events_, MessageMarks, Neat
<1>4. r.mail = q.mail \o (t \o w)
    BY <1>1, <1>2
<1> HIDE DEF m
<1>5. t \in Seq(Messages) /\ MailSet(c, t) = SpecSet(c, q.batch) /\ MailOrder(o, c, t)
    BY <1>2, <1>3, MailFew
<1>6. MailSet(c, w) = {} /\ MailOrder(o, c, w) /\ w \in Seq(Messages)
    BY MailFew
<1>7. L[4] = {} /\ L[5] = {}
    BY DEF Looped
<1> HIDE DEF t, w
<1>8. Flushes(o, c, q, r, t, w)
    <2>1. Apart(o, Entire(L), MailSet(c, w))
        BY <1>6 DEF Apart
    <2> QED
        BY <1>4, <1>5, <1>6, <1>7, <2>1 DEF Flushes
<1>9. /\ Orderly(o, c, r) /\ K[1] = L[1]
      /\ K[4] = L[4] /\ K[5] = L[5] /\ K[6] = {} /\ Entire(K) = Entire(L) \cup MailSet(c, w)
    <2>1. /\ t \in Seq(Messages) /\ w \in Seq(Messages) /\ Flushes(o, c, q, r, t, w)
        BY <1>5, <1>6, <1>8
    <2>2. Orderly(o, c, r)
        BY <2>1, PipeFlushes
    <2>3. LineOf(c, r)[6] = {} /\ Entire(LineOf(c, r)) = Entire(LineOf(c, q)) \cup MailSet(c, w)
        BY <2>1, PipeFlushes
    <2>4. LineOf(c, r)[1] = LineOf(c, q)[1]
        BY <2>1, PipeFlushes
    <2>5. LineOf(c, r)[4] = LineOf(c, q)[4] /\ LineOf(c, r)[5] = LineOf(c, q)[5]
        BY <2>1, PipeFlushes
    <2> QED
        BY <2>2, <2>3, <2>4, <2>5
<1> HIDE DEF L, K
<1>10. Looped(K) = {} /\ Entire(K) = Entire(L)
    BY <1>6, <1>7, <1>9 DEF Looped
<1> QED
    BY <1>9, <1>10 DEF Extends, L, K

(* What the next chunk changes.                                            *)
Adds(c, specs, b, G, B, t) ==
    specs = Mapped(c, position[c] + 1) /\ b = batch[c] /\ Grows(c, b, specs, G, B, t)

LEMMA ChunkFacts ==
    ASSUME Ground, NEW c \in Calls, NextChunk(c), NEW specs, NEW b, NEW G, NEW B, NEW t,
           Adds(c, specs, b, G, B, t)
    PROVE  /\ UNCHANGED <<scenario, attempt, task, over, givenUp, timers, events, todo, drive, state>>
           /\ ~over[c] /\ position[c] < Len(Chunks(c)) /\ posts[c] = <<>> /\ c[2] <= attempt[c[1]]
           /\ Mode(c) = "async" => Streaming(c)
           /\ position'[c] = position[c] + 1
           /\ specs \in Seq(Specs) /\ specs \in Seq(ChunkSpecs(c)) /\ b \in Batches
           /\ batch'[c] = B
           /\ Mode(c) = "sync" =>
                 /\ ready' = ready /\ mailbox' = mailbox
                 /\ posts'[c] = IF Full(G) THEN t \o <<Put(Events_(G.specs))>> ELSE t
           /\ Mode(c) = "async" =>
                 /\ ready' = ready \o t /\ posts'[c] = <<>>
                 /\ mailbox' = IF Full(G) THEN mailbox \o <<Events_(G.specs)>> ELSE mailbox
<1> DEFINE puts == [k \in DOMAIN Published(G) |-> Put(Published(G)[k])]
<1> USE DEF Adds, Grows
<1>1. /\ scenario \in Scenarios /\ IInv /\ Sound /\ Course /\ b \in Batches /\ c[1] \in Nodes
      /\ position[c] \in Nat /\ Len(Chunks(c)) \in Nat /\ mailbox \in Seq(Messages)
    BY GroundTyped
<1>2. /\ UNCHANGED <<scenario, attempt, task, over, givenUp, timers, events, todo, drive, state>>
      /\ ~over[c] /\ position[c] < Len(Chunks(c)) /\ posts[c] = <<>> /\ c[2] <= attempt[c[1]]
      /\ Mode(c) = "async" => Streaming(c)
    BY DEF NextChunk, driverVars
<1>3. specs \in Seq(ChunkSpecs(c))
    <2>1. position[c] + 1 \in 1..Len(Chunks(c))
        BY <1>1, <1>2
    <2> QED
        BY <1>1, <2>1, MappedChunk
<1>4. specs \in Seq(Specs)
    BY <1>3, WiderSeq DEF ChunkSpecs
<1>5. t = <<>> \/ t = <<Deadline(c, G.gen)>>
    BY DEF Deadlines
<1>6. t \o <<>> = t
    BY <1>5
<1>7. puts = IF Full(G) THEN <<Put(Events_(G.specs))>> ELSE <<>>
    BY PutsAre
<1>8. Published(G) = IF Full(G) THEN <<Events_(G.specs)>> ELSE <<>>
    BY DEF Published
<1> HIDE DEF puts
<1>9. /\ batch' = [batch EXCEPT ![c] = IF Full(G) THEN Taken(G) ELSE G]
      /\ position' = [position EXCEPT ![c] = @ + 1]
      /\ IF Mode(c) = "sync"
         THEN posts' = [posts EXCEPT ![c] = t \o puts] /\ UNCHANGED <<ready, mailbox>>
         ELSE ready' = ready \o t /\ mailbox' = Mail(Published(G)) /\ UNCHANGED posts
    BY DEF NextChunk, puts
<1>10. /\ position \in [Calls -> Nat] /\ DOMAIN batch = Calls /\ DOMAIN posts = Calls
    BY <1>1 DEF IInv, BatcherTypeOK
<1>11. /\ position'[c] = position[c] + 1 /\ batch'[c] = (IF Full(G) THEN Taken(G) ELSE G)
    BY <1>9, <1>10
<1>12. ASSUME Mode(c) = "sync"
       PROVE  /\ ready' = ready /\ mailbox' = mailbox
              /\ posts'[c] = IF Full(G) THEN t \o <<Put(Events_(G.specs))>> ELSE t
    <2>1. posts'[c] = t \o puts /\ ready' = ready /\ mailbox' = mailbox
        BY <1>9, <1>10, <1>12
    <2> QED
        BY <1>6, <1>7, <2>1
<1>13. ASSUME Mode(c) = "async"
       PROVE  /\ ready' = ready \o t /\ posts'[c] = <<>>
              /\ mailbox' = IF Full(G) THEN mailbox \o <<Events_(G.specs)>> ELSE mailbox
    <2>1. accepting
        BY <1>1, <1>2, <1>13 DEF Course, AllDone, Streaming
    <2>2. ready' = ready \o t /\ mailbox' = mailbox \o Published(G) /\ posts' = posts
        BY <1>9, <1>13, <2>1 DEF Mail
    <2>3. mailbox \o <<>> = mailbox
        BY <1>1
    <2> QED
        BY <1>2, <1>8, <2>2, <2>3
<1> QED
    BY <1>1, <1>2, <1>3, <1>4, <1>11, <1>12, <1>13

(* The line of the call after its next chunk.                              *)
LEMMA ChunkLine ==
    ASSUME Ground, IInv', MailInv', NEW c \in Calls, NextChunk(c),
           NEW specs, specs = Mapped(c, position[c] + 1), NEW X, X = SpecSet(c, specs)
    PROVE  /\ Extends(Awaited(c), c, Pipe(c), Pipe(c)', X)
           /\ batch'[c].gen = batch[c].gen =>
                 Looped(LineOf(c, Pipe(c)')) = Looped(LineOf(c, Pipe(c)))
           /\ Mode(c) = "async" => Looped(LineOf(c, Pipe(c)')) = {}
<1> DEFINE q == Pipe(c)
           r == Pipe(c)'
           o == Awaited(c)
           b == batch[c]
           G == Grown(b, specs)
           B == IF Full(G) THEN Taken(G) ELSE G
           t == Deadlines(c, b, specs)
           k == position[c] + 1
           N == Len(Chunks(c))
           n == IF Mode(c) = "sync" THEN [q EXCEPT !.batch = G.specs, !.posts = t]
                ELSE [q EXCEPT !.batch = G.specs, !.ready = ready \o t]
           full == Full(G)
<1>1. /\ q \in Pipes /\ q.events = events /\ q.todo = todo /\ q.mail = mailbox
      /\ q.ready = ready /\ q.posts = posts[c] /\ q.batch = b.specs
      /\ Orderly(o, c, q) /\ o \in BOOLEAN /\ scenario \in Scenarios /\ Line(c) = LineOf(c, q)
      /\ ready \in Seq(Callbacks) /\ mailbox \in Seq(Messages)
      /\ CallCore(c) /\ N \in Nat /\ position[c] \in Nat
      /\ Mode(c) \in {"async", "sync"} /\ Line(c) \in Lines
    BY GroundTyped, PipeTyped, ChunksTyped
<1>0. Adds(c, specs, b, G, B, t) /\ Grows(c, b, specs, G, B, t) /\ b = batch[c]
    BY DEF Adds, Grows
<1> HIDE DEF b, G, B, t, q, r, o
<1>2. /\ UNCHANGED <<scenario, attempt, task, over, givenUp, timers, events, todo, drive, state>>
      /\ ~over[c] /\ position[c] < N /\ posts[c] = <<>> /\ c[2] <= attempt[c[1]]
      /\ specs \in Seq(Specs) /\ b \in Batches /\ batch'[c] = B
    <2>1. /\ UNCHANGED <<scenario, attempt, task, over, givenUp, timers, events, todo, drive, state>>
          /\ ~over[c] /\ position[c] < N /\ posts[c] = <<>> /\ c[2] <= attempt[c[1]]
        BY <1>0, ChunkFacts
    <2>2. specs \in Seq(Specs) /\ b \in Batches
        BY <1>0, ChunkFacts
    <2>3. batch'[c] = B
        BY <1>0, ChunkFacts
    <2> QED
        BY <1>0, <2>1, <2>2, <2>3
<1>3. Mode(c) = "sync" =>
        /\ ready' = ready /\ mailbox' = mailbox
        /\ posts'[c] = IF full THEN t \o <<Put(Events_(G.specs))>> ELSE t
    BY <1>0, ChunkFacts
<1>4. Mode(c) = "async" =>
        /\ ready' = ready \o t /\ posts'[c] = <<>>
        /\ mailbox' = IF full THEN mailbox \o <<Events_(G.specs)>> ELSE mailbox
    BY <1>0, ChunkFacts
<1>5. X \subseteq {k} /\ SpecOrder(o, c, specs)
    <2>1. k \in 1..N
        BY <1>1, <1>2
    <2>2. SpecSet(c, Mapped(c, k)) = IF k \in Sayings(c) THEN {k} ELSE {}
        BY <1>1, <2>1, MappedChunk
    <2>3. SpecOrder(o, c, Mapped(c, k))
        BY <1>1, <2>1, MappedChunk
    <2> QED
        BY <2>2, <2>3
<1>6. X \in Marks /\ Fresh(o, Line(c), 6, X)
    BY <1>2, <1>5, ChunkFresh DEF o
<1>7. /\ G.specs = b.specs \o specs /\ G \in Batches
      /\ B.gen = b.gen => ~full
      /\ full => B.specs = <<>>
      /\ ~full => B.specs = G.specs
      /\ t = <<>> \/ t = <<Deadline(c, G.gen)>>
    <2>1. b \in Batches /\ specs \in Seq(Specs)
        BY <1>2
    <2>2. G.specs = b.specs \o specs
        BY <1>0 DEF Grows, Grown
    <2>6. G \in Batches
        BY <1>0, <2>1, ChunkGen
    <2>3. B.gen = b.gen => ~Full(G)
        BY <1>0, <2>1, ChunkGen
    <2>4. (Full(G) => B.specs = <<>>) /\ (~Full(G) => B.specs = G.specs)
        BY <1>0, <2>1, ChunkGen
    <2>5. t = <<>> \/ t = <<Deadline(c, G.gen)>>
        BY <1>0, <2>1, ChunkGen
    <2> QED
        BY <2>2, <2>3, <2>4, <2>5, <2>6 DEF full
<1>8. t \in Seq(Callbacks) /\ LoopSet(c, t) = {} /\ LoopOrder(o, c, t)
    <2>1. G.gen \in Nat
        BY <1>7 DEF Batches
    <2> QED
        BY <1>1, <1>7, <2>1, DeadlineMarks
<1>9. /\ n \in Pipes /\ n.events = events /\ n.todo = todo /\ n.mail = mailbox
      /\ n.batch = b.specs \o specs
      /\ n.ready = IF Mode(c) = "sync" THEN ready ELSE ready \o t
      /\ n.posts = IF Mode(c) = "sync" THEN t ELSE posts[c]
    <2>1. ready \o t \in Seq(Callbacks)
        BY <1>1, <1>8
    <2>2. G.specs \in Seq(Specs)
        BY <1>7 DEF Batches
    <2> QED
        BY <1>1, <1>7, <1>8, <2>1, <2>2 DEF Pipes
<1>10. /\ r \in Pipes /\ r.events = events /\ r.todo = todo /\ r.mail = mailbox'
       /\ r.ready = ready' /\ r.posts = posts'[c] /\ r.batch = B.specs
    BY <1>2, PipePrime DEF r
<1> HIDE DEF n, full
<1>11. Extends(o, c, q, n, X) /\ Looped(LineOf(c, n)) = Looped(LineOf(c, q))
    <2>1. Starts(o, c, q, specs, t, X)
        BY <1>1, <1>2, <1>5, <1>6, <1>8 DEF Starts
    <2>2. /\ n.batch = q.batch \o specs /\ n.events = q.events /\ n.todo = q.todo
          /\ n.mail = q.mail
          /\ \/ n.ready = q.ready \o t /\ n.posts = q.posts
             \/ n.ready = q.ready /\ n.posts = q.posts \o t
        <3>1. <<>> \o t = t
            BY <1>8
        <3> QED
            BY <1>1, <1>2, <1>9, <3>1
    <2> QED
        BY <1>1, <1>9, <2>1, <2>2, ChunkBatched
<1>12. CASE ~full
    <2>1. /\ r.events = n.events /\ r.todo = n.todo /\ r.mail = n.mail /\ r.ready = n.ready
          /\ r.posts = n.posts /\ r.batch = n.batch
        BY <1>1, <1>2, <1>3, <1>4, <1>7, <1>9, <1>10, <1>12
    <2>2. LineOf(c, r) = LineOf(c, n) /\ (Orderly(o, c, r) <=> Orderly(o, c, n))
        <3>1. LineOf(c, r) = LineOf(c, n)
            BY <2>1 DEF LineOf
        <3> QED
            BY <2>1, <3>1 DEF Orderly, Sorted
    <2>3. Mode(c) = "async" => Looped(LineOf(c, q)) = {}
        BY <1>1 DEF CallCore, Phases
    <2> QED
        BY <1>1, <1>11, <2>2, <2>3 DEF q, r, o, Extends
<1>13. CASE full
    <2>1. batch'[c].gen # batch[c].gen
        BY <1>2, <1>7, <1>13 DEF b
    <2>2. Orderly(o, c, n) /\ r.batch = <<>> /\ r.events = n.events /\ r.todo = n.todo
        BY <1>7, <1>9, <1>10, <1>11, <1>13 DEF Extends
    <2>3. n.batch = G.specs
        BY <1>7, <1>9
    <2>4. CASE Mode(c) = "sync"
        <3>1. /\ r.posts = n.posts \o <<Put(Events_(n.batch))>> /\ r.mail = n.mail
              /\ r.ready = n.ready
            BY <1>3, <1>9, <1>10, <1>13, <2>3, <2>4
        <3>2. Extends(o, c, n, r, {})
            BY <1>1, <1>9, <1>10, <2>2, <3>1, BatchPosted
        <3>3. Extends(o, c, q, r, X)
            BY <1>11, <3>2 DEF Extends
        <3> QED
            BY <2>1, <2>4, <3>3 DEF q, r, o
    <2>5. CASE Mode(c) = "async"
        <3>1. /\ r.mail = n.mail \o <<Events_(n.batch)>> /\ r.posts = n.posts
              /\ r.ready = n.ready
            BY <1>2, <1>4, <1>9, <1>10, <1>13, <2>3, <2>5
        <3>2. Looped(LineOf(c, n)) = {}
            BY <1>1, <1>11, <2>5 DEF CallCore, Phases
        <3>3. Extends(o, c, n, r, {}) /\ Looped(LineOf(c, r)) = {}
            BY <1>1, <1>9, <1>10, <2>2, <3>1, <3>2, BatchMailed
        <3>4. Extends(o, c, q, r, X)
            BY <1>11, <3>3 DEF Extends
        <3> QED
            BY <2>1, <3>3, <3>4 DEF q, r, o
    <2> QED
        BY <1>1, <2>4, <2>5
<1> QED
    BY <1>12, <1>13

(* Its markers.                                                            *)
LEMMA ChunkMarkers ==
    ASSUME Ground, NEW c \in Calls, NextChunk(c)
    PROVE  /\ MarkersOf(c, batch'[c].gen, over[c], position'[c] = Len(Chunks(c)), ready', posts'[c],
                        timers')
           /\ batch'[c].gen = batch[c].gen \/ <<c, batch'[c].gen>> \notin timers
<1> DEFINE specs == Mapped(c, position[c] + 1)
           b == batch[c]
           G == Grown(b, specs)
           B == IF Full(G) THEN Taken(G) ELSE G
           t == Deadlines(c, b, specs)
           g == b.gen
           h == B.gen
           N == Len(Chunks(c))
           f == position[c] = N
           e == position'[c] = N
           d == Put(Events_(G.specs))
           z == over[c]
           o == Awaited(c)
           p == <<d>>
<1>1. /\ scenario \in Scenarios /\ Markers(c) /\ z \in BOOLEAN /\ o \in BOOLEAN /\ N \in Nat
      /\ position[c] \in Nat /\ ready \in Seq(Callbacks) /\ Mode(c) \in {"async", "sync"}
    BY GroundTyped, ChunksTyped
<1>2. Adds(c, specs, b, G, B, t) /\ Grows(c, b, specs, G, B, t) /\ b = batch[c]
    BY DEF Adds, Grows
<1>3. f \in BOOLEAN /\ e \in BOOLEAN
    OBVIOUS
<1> HIDE DEF specs, b, G, B, t
<1>4. /\ timers' = timers /\ ~z /\ position[c] < N /\ posts[c] = <<>>
      /\ specs \in Seq(Specs) /\ b \in Batches /\ batch'[c] = B
    <2>1. timers' = timers /\ ~z /\ position[c] < N /\ posts[c] = <<>>
        BY <1>2, ChunkFacts
    <2>2. specs \in Seq(Specs) /\ b \in Batches
        BY <1>2, ChunkFacts
    <2>3. batch'[c] = B
        BY <1>2, ChunkFacts
    <2> QED
        BY <2>1, <2>2, <2>3
<1>5. Mode(c) = "sync" => ready' = ready /\ posts'[c] = IF Full(G) THEN t \o p ELSE t
    BY <1>2, ChunkFacts
<1>6. Mode(c) = "async" => ready' = ready \o t /\ posts'[c] = <<>>
    BY <1>2, ChunkFacts
<1>7. /\ g \in Nat /\ h \in Nat /\ G.gen \in Nat /\ g <= h /\ G.gen <= h
      /\ h = g => ~Full(G) /\ t = <<>>
      /\ Full(G) => G.gen < h
      /\ t = <<>> \/ t = <<Deadline(c, G.gen)>>
      /\ G.specs \in Seq(Specs)
    <2>1. G \in Batches /\ B \in Batches
        BY <1>2, <1>4, ChunkGen
    <2>2. g <= G.gen /\ G.gen <= h
        BY <1>2, <1>4, ChunkGen
    <2>3. (h = g => ~Full(G) /\ t = <<>>) /\ (Full(G) => G.gen < h)
        BY <1>2, <1>4, ChunkGen
    <2>4. t = <<>> \/ t = <<Deadline(c, G.gen)>>
        BY <1>2, <1>4, ChunkGen
    <2>5. g \in Nat /\ h \in Nat /\ G.gen \in Nat /\ G.specs \in Seq(Specs)
        BY <1>4, <2>1 DEF Batches
    <2> QED
        BY <2>2, <2>3, <2>4, <2>5
<1>8. MarkersOf(c, g, z, e, ready, <<>>, timers)
    <2>1. f => e
        BY <1>1, <1>4
    <2>2. MarkersOf(c, g, z, f, ready, <<>>, timers)
        BY <1>1, <1>4 DEF Markers, b
    <2> HIDE DEF e, f, g, z
    <2> QED
        BY <1>1, <1>3, <2>1, <2>2, MarkersDue
<1> HIDE DEF g, h, e, f, d, z, o
<1>9. MarkersOf(c, h, z, e, ready, <<>>, timers)
    <2>1. <<>> \in Seq(Callbacks) /\ timers \subseteq timers
        OBVIOUS
    <2> QED
        BY <1>1, <1>3, <1>7, <1>8, <2>1, MarkersNewer
<1>10. /\ Calm(c, h, ready) /\ Due(c, h, z, e, ready) /\ LoopSet(c, <<>>) = {}
       /\ \A x \in timers : x[1] = c => x[2] \in 0..h
       /\ Calm(c, h, <<>>) /\ Due(c, h, z, e, <<>>)
    <2>1. LoopSet(c, <<>>) = {}
        BY <1>1, LoopFew
    <2> QED
        BY <1>9, <2>1 DEF MarkersOf
<1>11. /\ t \in Seq(Callbacks) /\ LoopSet(c, t) = {}
       /\ Calm(c, h, t) /\ Due(c, h, z, e, t)
       /\ HasMarker(c, h, t) => G.gen = h
    <2>1. t \in Seq(Callbacks) /\ LoopSet(c, t) = {} /\ LoopOrder(o, c, t)
        BY <1>1, <1>7, DeadlineMarks
    <2>2. Calm(c, h, t) /\ Due(c, h, z, e, t) /\ (HasMarker(c, h, t) => G.gen = h)
        BY <1>1, <1>3, <1>7, DeadlineFits
    <2> QED
        BY <2>1, <2>2
<1>12. MarkersOf(c, h, z, e, ready', posts'[c], timers)
    <2>1. CASE h = g
        <3>1. ready \o <<>> = ready
            BY <1>1
        <3>2. ready' = ready /\ posts'[c] = <<>>
            BY <1>1, <1>5, <1>6, <1>7, <2>1, <3>1
        <3> QED
            BY <1>9, <3>2
    <2>2. CASE g < h
        <3>1. ~HasMarker(c, h, ready)
            <4>1. Due(c, g, z, e, ready)
                BY <1>8 DEF MarkersOf
            <4>2. z \in BOOLEAN /\ ~z
                BY <1>1, <1>4
            <4>3. (HasMarker(c, h, ready) => z /\ HasMarker(c, g, ready))
                  /\ Due(c, h, z, e, ready)
                BY <1>1, <1>3, <1>7, <2>2, <4>1, <4>2, MarkerNewer
            <4> QED
                BY <4>2, <4>3
        <3>2. CASE Mode(c) = "async"
            <4>1. z \in BOOLEAN
                BY <1>1
            <4>2. /\ HasMarker(c, h, ready \o t) <=> HasMarker(c, h, ready) \/ HasMarker(c, h, t)
                  /\ Due(c, h, z, e, ready \o t) <=> Due(c, h, z, e, ready) /\ Due(c, h, z, e, t)
                  /\ Calm(c, h, ready) /\ Calm(c, h, t) /\ (HasMarker(c, h, ready) => LoopSet(c, t) = {})
                        => Calm(c, h, ready \o t)
                BY <1>1, <1>3, <1>11, <4>1, MarkerConcat
            <4>3. Calm(c, h, ready \o t) /\ Due(c, h, z, e, ready \o t)
                BY <1>10, <1>11, <3>1, <4>2
            <4> QED
                BY <1>6, <1>10, <3>2, <4>3 DEF MarkersOf
        <3>3. CASE Mode(c) = "sync"
            <4>1. Calm(c, h, posts'[c]) /\ Due(c, h, z, e, posts'[c])
                <5>1. CASE ~Full(G)
                    BY <1>5, <1>11, <3>3, <5>1
                <5>2. CASE Full(G)
                    <6>1. ~HasMarker(c, h, t)
                        BY <1>7, <1>11, <5>2
                    <6>2. d \in Callbacks
                        BY <1>7 DEF d, Put, Events_, Callbacks, Messages
                    <6>3. Fits(c, h, z, e, d)
                        BY DEF d, Put, Fits
                    <6>4. z \in BOOLEAN
                        BY <1>1
                    <6>5. p \in Seq(Callbacks) /\ Calm(c, h, p) /\ Due(c, h, z, e, p)
                        <7>1. /\ Due(c, h, z, e, <<d>>) <=> Fits(c, h, z, e, d)
                              /\ Calm(c, h, <<d>>)
                            BY <1>3, <6>4, MarkerFew
                        <7>2. <<d>> \in Seq(Callbacks)
                            BY <6>2
                        <7> QED
                            BY <6>3, <7>1, <7>2
                    <6> HIDE DEF p
                    <6>6. /\ Due(c, h, z, e, t \o p) <=> Due(c, h, z, e, t) /\ Due(c, h, z, e, p)
                          /\ Calm(c, h, t) /\ Calm(c, h, p) /\ (HasMarker(c, h, t) => LoopSet(c, p) = {})
                                => Calm(c, h, t \o p)
                        BY <1>3, <1>11, <6>4, <6>5, MarkerConcat
                    <6> QED
                        BY <1>5, <1>11, <3>3, <5>2, <6>1, <6>5, <6>6
                <5> QED
                    BY <5>1, <5>2
            <4> QED
                BY <1>5, <1>10, <3>1, <3>3, <4>1 DEF MarkersOf
        <3> QED
            BY <1>1, <3>2, <3>3
    <2>3. h = g \/ g < h
        BY <1>7
    <2> QED
        BY <2>1, <2>2, <2>3
<1>13. h = g \/ <<c, h>> \notin timers
    <2>1. \A x \in timers : x[1] = c => x[2] \in 0..g
        BY <1>8 DEF MarkersOf
    <2> QED
        BY <1>7, <2>1
<1> QED
    BY <1>4, <1>12, <1>13 DEF h, g, e, b, z

LEMMA NextChunkKeeps ==
    ASSUME Ground, IInv', MailInv', NEW c \in Calls, NextChunk(c)
    PROVE  CallInv(c)'
<1> DEFINE specs == Mapped(c, position[c] + 1)
           b == batch[c]
           G == Grown(b, specs)
           B == IF Full(G) THEN Taken(G) ELSE G
           t == Deadlines(c, b, specs)
           q == Pipe(c)
           r == Pipe(c)'
           a == Awaited(c)
           N == Len(Chunks(c))
           T == Told(c)'
           K == LineOf(c, r)
           k == position[c] + 1
           X == SpecSet(c, specs)
<1>1. /\ scenario \in Scenarios /\ Line(c) = LineOf(c, q) /\ CallCore(c) /\ N \in Nat
      /\ position[c] \in Nat /\ c[2] \in Nat /\ attempt[c[1]] \in Nat /\ over[c] \in BOOLEAN
      /\ Sayings(c) \subseteq 1..N /\ a \in BOOLEAN
    BY GroundTyped, ChunksTyped
<1>2. Adds(c, specs, b, G, B, t)
    BY DEF Adds, Grows
<1>3. /\ UNCHANGED <<scenario, attempt, task, over, givenUp, timers, events, todo, drive, state>>
      /\ ~over[c] /\ position[c] < N /\ c[2] <= attempt[c[1]] /\ position'[c] = k
    <2> HIDE DEF specs, b, G, B, t
    <2>1. /\ UNCHANGED <<scenario, attempt, task, over, givenUp, timers, events, todo, drive, state>>
          /\ ~over[c] /\ position[c] < N /\ c[2] <= attempt[c[1]]
        BY <1>2, ChunkFacts
    <2>2. position'[c] = position[c] + 1
        BY <1>2, ChunkFacts
    <2> QED
        BY <2>1, <2>2
<1>4. X = IF k \in Sayings(c) THEN {k} ELSE {}
    <2>1. k \in 1..N
        BY <1>1, <1>3
    <2> QED
        BY <1>1, <2>1, MappedChunk
<1>5. /\ Extends(a, c, q, r, X)
      /\ batch'[c].gen = b.gen => Looped(K) = Looped(LineOf(c, q))
      /\ Mode(c) = "async" => Looped(K) = {}
    <2> HIDE DEF specs, X
    <2>1. specs = Mapped(c, position[c] + 1) /\ X = SpecSet(c, specs)
        BY DEF specs, X
    <2> QED
        BY <2>1, ChunkLine
<1>6. /\ MarkersOf(c, batch'[c].gen, over[c], position'[c] = N, ready', posts'[c], timers')
      /\ batch'[c].gen = b.gen \/ <<c, batch'[c].gen>> \notin timers
    BY ChunkMarkers
<1> HIDE DEF specs, b, G, B, t, X
<1>7. \A x : x \in T <=> x \in Told(c) \/ x \in X
    <2>1. \A x : x \in Told(c)' <=> x \in Sayings(c) /\ x <= position'[c]
        BY <1>3, OwnPrimes
    <2>2. \A x \in Sayings(c) : x <= k <=> x <= position[c] \/ x = k
        BY <1>1
    <2> HIDE DEF k
    <2> QED
        BY <1>3, <1>4, <2>1, <2>2 DEF Told
<1>8. Known(c) /\ Whole(c) /\ Finished(c) /\ Phases(c) /\ Watched(c)
    BY <1>1 DEF CallCore
<1>9. /\ (Current(c)' <=> Current(c)) /\ (Concluded(c)' <=> Concluded(c))
      /\ (Awaited(c)' <=> a) /\ (Streaming(c)' <=> Streaming(c))
    BY <1>3 DEF Concluded, Current, Streaming, Awaited, Mode
<1>10. N + 1 \notin X /\ N + 2 \notin X
    BY <1>1, <1>3, <1>4
<1>11. ~(a /\ Concluded(c))
    BY <1>3, <1>8 DEF Phases
<1>12. /\ K[1] = Line(c)[1] /\ Entire(K) = Entire(Line(c)) \cup X
       /\ Looped(K) \cup K[6] \subseteq Looped(Line(c)) \cup Line(c)[6] \cup X
       /\ Orderly(a, c, r)
    BY <1>1, <1>5 DEF Extends
<1> HIDE DEF q, r, a, N, T, K, k
<1>13. Stands(c, a, K, T, N)
    <2>1. /\ scenario' = scenario /\ a \in BOOLEAN /\ (Awaited(c)' <=> a)
          /\ K = LineOf(c, Pipe(c)') /\ N = Len(Chunks(c)) /\ Orderly(a, c, Pipe(c)')
          /\ \A x : x \in T <=> x \in Told(c)'
        BY <1>1, <1>3, <1>9, <1>12 DEF r, K, N, T
    <2>2. Entire(K) \subseteq T \cup {N + 1, N + 2} /\ Looped(K) \cup K[6] \subseteq T
        BY <1>7, <1>8, <1>12 DEF Known, N
    <2>3. /\ N + 1 \in Entire(K) => Concluded(c)'
          /\ N + 2 \in Entire(K) => task'[c[1]] = "done"
        BY <1>3, <1>8, <1>9, <1>10, <1>12 DEF Known, N
    <2>4. a /\ ~Cancelled' => T \subseteq Entire(K)
        <3>1. Cancelled' <=> Cancelled
            BY <1>3 DEF Cancelled
        <3> QED
            BY <1>7, <1>8, <1>12, <3>1 DEF Whole, a
    <2>5. N + 2 \in K[1] => Sayings(c) \subseteq K[1]
        BY <1>8, <1>12 DEF Whole, N
    <2>6. ~(Current(c)' /\ (task'[c[1]] = "succeeded" \/ N + 2 \in Entire(K)))
        <3>1. position[c] # N
            BY <1>1, <1>3
        <3> QED
            BY <1>3, <1>8, <1>9, <1>10, <1>12, <3>1 DEF Finished, N
    <2>7. ~(c[2] > attempt'[c[1]])
        BY <1>1, <1>3
    <2>8. ~(Concluded(c)' /\ a)
        BY <1>9, <1>11
    <2>9. Current(c)' /\ task'[c[1]] = "closing" => over'[c] /\ Mode(c) = "async"
        BY <1>3, <1>8, <1>9 DEF Phases
    <2>10. Mode(c) = "async" => Looped(K) = {}
        BY <1>5 DEF K, r
    <2>11. <<c, batch'[c].gen>> \in timers' /\ a => Looped(K) = {}
        <3> SUFFICES ASSUME <<c, batch'[c].gen>> \in timers', a
                     PROVE  Looped(K) = {}
            OBVIOUS
        <3>1. batch'[c].gen = b.gen
            BY <1>3, <1>6
        <3>2. <<c, batch[c].gen>> \in timers
            BY <1>3, <3>1 DEF b
        <3>3. Looped(Line(c)) = {}
            BY <1>8, <3>2 DEF Phases, a
        <3> QED
            BY <1>1, <1>5, <3>1, <3>3
    <2>12. c \in givenUp' => c[2] <= attempt'[c[1]] /\ ~Streaming(c)'
        BY <1>3, <1>8, <1>9 DEF Watched
    <2>13. MarkersOf(c, batch'[c].gen, over'[c], position'[c] = N, ready', posts'[c], timers')
        BY <1>3, <1>6
    <2> QED
        BY <2>1, <2>2, <2>3, <2>4, <2>5, <2>6, <2>7, <2>8, <2>9, <2>10, <2>11, <2>12, <2>13
           DEF Stands
<1> QED
    BY <1>13, OwnStep

(* The task of a node goes on, to the next attempt.                        *)
LEMMA RetryKeeps ==
    ASSUME Ground, IInv', MailInv', NEW c \in Calls, task[c[1]] = "backoff",
           attempt'[c[1]] = attempt[c[1]] + 1, task'[c[1]] = "streaming",
           UNCHANGED <<scenario, position, over, posts, givenUp, batch, ready, timers, events,
                       todo, drive, state, mailbox>>
    PROVE  CallInv(c)'
<1> DEFINE q == Pipe(c)
           r == Pipe(c)'
           a == Awaited(c)
           N == Len(Chunks(c))
           T == Told(c)
           K == LineOf(c, r)
<1>1. /\ scenario \in Scenarios /\ a \in BOOLEAN /\ CallCore(c) /\ Markers(c)
      /\ Orderly(a, c, q) /\ Line(c) = LineOf(c, q) /\ attempt[c[1]] \in Nat
      /\ c[1] \in Nodes /\ N \in Nat /\ c[2] \in Nat
    BY GroundTyped, ChunksTyped
<1>2. r = q
    BY DEF Pipe
<1>3. (Awaited(c)' <=> a) /\ (\A k : k \in T <=> k \in Told(c)')
    <2>1. /\ Awaited(c)' <=> Mode(c) = "async" \/ c \notin givenUp'
          /\ \A k : k \in Told(c)' <=> k \in Sayings(c) /\ k <= position'[c]
        BY OwnPrimes
    <2> QED
        BY <2>1 DEF Awaited, Told
<1>4. /\ c[2] < attempt'[c[1]] <=> c[2] <= attempt[c[1]]
      /\ c[2] > attempt'[c[1]] => c[2] > attempt[c[1]]
    BY <1>1
<1>5. Concluded(c)' <=> c[2] <= attempt[c[1]]
    BY <1>4 DEF Concluded, Current
<1>6. Concluded(c) <=> c[2] <= attempt[c[1]]
    BY <1>1 DEF Concluded, Current
<1>7. Streaming(c)' => c[2] > attempt[c[1]]
    BY <1>1 DEF Streaming, Current
<1>8. Cancelled' <=> Cancelled
    BY DEF Cancelled
<1>9. K = Line(c) /\ N + 2 \notin Entire(K)
    BY <1>1, <1>2 DEF CallCore, Known
<1> HIDE DEF r, q, K
<1>10. /\ scenario' = scenario /\ a \in BOOLEAN /\ (Awaited(c)' <=> a)
       /\ K = LineOf(c, Pipe(c)') /\ (\A k : k \in T <=> k \in Told(c)') /\ N = Len(Chunks(c))
       /\ Orderly(a, c, Pipe(c)')
    BY <1>1, <1>2, <1>3 DEF K, r
<1>11. /\ Entire(K) \subseteq T \cup {N + 1, N + 2} /\ Looped(K) \cup K[6] \subseteq T
       /\ N + 1 \in Entire(K) => Concluded(c)'
       /\ N + 2 \in Entire(K) => task'[c[1]] = "done"
    BY <1>1, <1>5, <1>6, <1>9 DEF CallCore, Known
<1>12. /\ a /\ ~Cancelled' => T \subseteq Entire(K)
       /\ N + 2 \in K[1] => Sayings(c) \subseteq K[1]
    BY <1>1, <1>8, <1>9 DEF CallCore, Whole
<1>13. Current(c)' /\ (task'[c[1]] = "succeeded" \/ N + 2 \in Entire(K)) => a /\ position'[c] = N
    BY <1>9
<1>14. /\ c[2] > attempt'[c[1]] => position'[c] = 0 /\ ~over'[c]
       /\ Concluded(c)' /\ a => over'[c] /\ Looped(K) = {} /\ K[6] = {}
       /\ Current(c)' /\ task'[c[1]] = "closing" => over'[c] /\ Mode(c) = "async"
       /\ Mode(c) = "async" => Looped(K) = {}
       /\ <<c, batch'[c].gen>> \in timers' /\ a => Looped(K) = {}
    BY <1>1, <1>4, <1>5, <1>6, <1>9 DEF CallCore, Phases
<1>15. c \in givenUp' => c[2] <= attempt'[c[1]] /\ ~Streaming(c)'
    BY <1>1, <1>4, <1>7 DEF CallCore, Watched
<1>16. MarkersOf(c, batch'[c].gen, over'[c], position'[c] = N, ready', posts'[c], timers')
    BY <1>1 DEF Markers
<1> HIDE DEF T, N, a
<1>17. Stands(c, a, K, T, N)
    BY <1>10, <1>11, <1>12, <1>13, <1>14, <1>15, <1>16 DEF Stands
<1> QED
    BY <1>17, OwnStep

(* Its end: the mailbox takes the result, with nothing behind it.          *)
LEMMA ResultKeeps ==
    ASSUME Ground, IInv', MailInv', NEW c \in Calls, NEW ok \in BOOLEAN,
           task[c[1]] \in {"backoff", "succeeded", "failed"}, ok => task[c[1]] = "succeeded",
           mailbox' = Mail(<<Result(c[1], ok)>>), task'[c[1]] = "done",
           UNCHANGED <<scenario, attempt, position, over, posts, givenUp, batch, ready, timers,
                       events, todo, drive, state>>
    PROVE  CallInv(c)'
<1> DEFINE q == Pipe(c)
           r == Pipe(c)'
           a == Awaited(c)
           N == Len(Chunks(c))
           T == Told(c)
           L == LineOf(c, q)
           K == LineOf(c, r)
           m == Result(c[1], ok)
           t == <<m>>
           X == IF ok THEN {N + 2} ELSE {}
<1>1. /\ scenario \in Scenarios /\ a \in BOOLEAN /\ CallCore(c) /\ Markers(c)
      /\ Orderly(a, c, q) /\ Line(c) = L /\ L \in Lines /\ attempt[c[1]] \in Nat
      /\ c[1] \in Nodes /\ N \in Nat /\ c[2] \in Nat /\ Course /\ q \in Pipes
      /\ q.events = events /\ q.todo = todo /\ q.mail = mailbox
      /\ q.ready = ready /\ q.posts = posts[c] /\ q.batch = batch[c].specs
      /\ Sayings(c) \subseteq 1..N
    BY GroundTyped, ChunksTyped, PipeTyped
<1>2. accepting
    BY <1>1 DEF Course, AllDone
<1>3. mailbox' = mailbox \o t
    BY <1>2 DEF Mail
<1>4. m \in Messages /\ MessageMarks(c, m) = X /\ Neat(a, c, m)
    BY <1>1 DEF Result, Messages, MessageMarks, Neat
<1>5. /\ r \in Pipes /\ r.events = events /\ r.todo = todo /\ r.mail = mailbox \o t
      /\ r.ready = ready /\ r.posts = posts[c] /\ r.batch = batch[c].specs
    BY <1>3, PipePrime
<1> HIDE DEF q, r, m
<1> HIDE DEF X, a
<1>6. t \in Seq(Messages) /\ MailSet(c, t) = X /\ MailOrder(a, c, t)
    <2>1. t \in Seq(Messages)
        BY <1>4
    <2>2. MailSet(c, t) = MessageMarks(c, m)
        BY <1>1, <1>4, MailFew
    <2>3. MailOrder(a, c, t)
        BY <1>1, <1>4, MailFew
    <2> QED
        BY <1>4, <2>1, <2>2, <2>3
<1>7. /\ Entire(L) \subseteq T \cup {N + 1} /\ T \subseteq 1..N
    BY <1>1 DEF CallCore, Known, Told
<1>8. a => L[4] = {} /\ L[5] = {} /\ L[6] = {}
    <2>1. CASE c[2] <= attempt[c[1]]
        <3>1. Concluded(c)
            BY <1>1, <2>1 DEF Concluded, Current
        <3> QED
            BY <1>1, <3>1 DEF CallCore, Phases, Looped, a
    <2>2. CASE c[2] > attempt[c[1]]
        <3>1. position[c] = 0
            BY <1>1, <2>2 DEF CallCore, Phases
        <3>2. T = {}
            BY <1>1, <3>1 DEF Told
        <3> QED
            BY <1>1, <3>2 DEF CallCore, Known, Looped
    <2> QED
        BY <1>1, <2>1, <2>2
<1>9. \A x \in Entire(L) : x < N + 2
    BY <1>1, <1>7
<1> HIDE DEF L, N, T
<1>10. Fresh(a, L, 3, X)
    <2>1. \A p \in Places : \A x \in L[p] : x < N + 2
        BY <1>1, <1>9, InEntire
    <2>2. \A x \in X : x = N + 2
        BY DEF X
    <2>3. \A p \in Places : Apart(FALSE, L[p], X) /\ Apart(TRUE, L[p], X)
        BY <1>1, <2>1, <2>2 DEF Apart
    <2>4. a => \A p \in Places : p <= 3 \/ L[p] = {}
        BY <1>8 DEF Places
    <2> QED
        BY <2>3, <2>4 DEF Fresh
<1> HIDE DEF t
<1>11. Orderly(a, c, r) /\ Added(LineOf(c, q), LineOf(c, r), 3, MailSet(c, t))
    <2>1. /\ scenario \in Scenarios /\ a \in BOOLEAN /\ q \in Pipes /\ r \in Pipes
          /\ Orderly(a, c, q) /\ t \in Seq(Messages) /\ r.mail = q.mail \o t
          /\ r.events = q.events /\ r.todo = q.todo /\ r.ready = q.ready /\ r.posts = q.posts
          /\ r.batch = q.batch /\ MailOrder(a, c, t) /\ Fresh(a, LineOf(c, q), 3, MailSet(c, t))
        BY <1>1, <1>5, <1>6, <1>10 DEF L
    <2> QED
        BY <2>1, MailGrow
<1>12. K \in Lines
    BY <1>1, <1>5, LineTyped
<1> HIDE DEF K
<1>13. Added(L, K, 3, X)
    BY <1>6, <1>11 DEF L, K
<1>14. /\ Entire(K) = Entire(L) \cup X /\ K[1] = L[1] /\ K[6] = L[6] /\ Looped(K) = Looped(L)
    <2>1. 3 \in Places
        BY DEF Places
    <2>2. X \in Marks
        BY <1>1 DEF X, Marks
    <2>3. /\ Entire(K) = Entire(L) \cup X
          /\ \A p \in {1, 2, 3, 4, 5, 6} : p # 3 => K[p] = L[p]
        BY <1>1, <1>12, <1>13, <2>1, <2>2, AddedIs
    <2> QED
        BY <2>3 DEF Looped
<1>15. (Awaited(c)' <=> a) /\ (\A k : k \in T <=> k \in Told(c)')
    <2>1. /\ Awaited(c)' <=> Mode(c) = "async" \/ c \notin givenUp'
          /\ \A k : k \in Told(c)' <=> k \in Sayings(c) /\ k <= position'[c]
        BY OwnPrimes
    <2> QED
        BY <2>1 DEF Awaited, Told, T, a
<1>16. /\ Concluded(c)' <=> Concluded(c)
       /\ Current(c)' <=> Current(c)
       /\ ~Streaming(c)'
    BY DEF Concluded, Current, Streaming
<1>17. Cancelled' <=> Cancelled
    BY DEF Cancelled
<1>18. X \subseteq {N + 2} /\ (N + 2 \in X => task[c[1]] = "succeeded") /\ N + 2 \notin Entire(L)
    BY <1>1, <1>9 DEF X
<1>19. N + 1 # N + 2
    BY <1>1
<1>20. /\ scenario' = scenario /\ a \in BOOLEAN /\ (Awaited(c)' <=> a)
       /\ K = LineOf(c, Pipe(c)') /\ (\A k : k \in T <=> k \in Told(c)') /\ N = Len(Chunks(c))
       /\ Orderly(a, c, Pipe(c)')
    BY <1>1, <1>11, <1>15 DEF K, r, N, a
<1>21. /\ Entire(K) \subseteq T \cup {N + 1, N + 2} /\ Looped(K) \cup K[6] \subseteq T
       /\ N + 1 \in Entire(K) => Concluded(c)'
       /\ N + 2 \in Entire(K) => task'[c[1]] = "done"
    BY <1>1, <1>7, <1>14, <1>16, <1>18, <1>19 DEF CallCore, Known, N, T
<1>22. /\ a /\ ~Cancelled' => T \subseteq Entire(K)
       /\ N + 2 \in K[1] => Sayings(c) \subseteq K[1]
    BY <1>1, <1>14, <1>17 DEF CallCore, Whole, N, T, a
<1>23. Current(c)' /\ (task'[c[1]] = "succeeded" \/ N + 2 \in Entire(K)) => a /\ position'[c] = N
    BY <1>1, <1>14, <1>16, <1>18 DEF CallCore, Finished, N, a
<1>24. /\ c[2] > attempt'[c[1]] => position'[c] = 0 /\ ~over'[c]
       /\ Concluded(c)' /\ a => over'[c] /\ Looped(K) = {} /\ K[6] = {}
       /\ Current(c)' /\ task'[c[1]] = "closing" => over'[c] /\ Mode(c) = "async"
       /\ Mode(c) = "async" => Looped(K) = {}
       /\ <<c, batch'[c].gen>> \in timers' /\ a => Looped(K) = {}
    BY <1>1, <1>14, <1>16 DEF CallCore, Phases, a
<1>25. c \in givenUp' => c[2] <= attempt'[c[1]] /\ ~Streaming(c)'
    BY <1>1, <1>16 DEF CallCore, Watched
<1>26. MarkersOf(c, batch'[c].gen, over'[c], position'[c] = N, ready', posts'[c], timers')
    BY <1>1 DEF Markers, N
<1>27. Stands(c, a, K, T, N)
    BY <1>20, <1>21, <1>22, <1>23, <1>24, <1>25, <1>26 DEF Stands
<1> QED
    BY <1>27, OwnStep

LEMMA ContinueKeeps ==
    ASSUME Ground, IInv', MailInv', NEW c \in Calls, ContinueTask(c[1])
    PROVE  CallInv(c)'
<1>1. Course /\ MailInv /\ c[1] \in Nodes
    BY GroundTyped
<1>2. UNCHANGED <<scenario, position, over, posts, givenUp, batch, ready, timers, events, todo,
                  drive, state>>
    BY DEF ContinueTask, handlerVars, loopVars, driverVars
<1>3. CASE /\ drive # "abandon" /\ task[c[1]] = "backoff"
           /\ attempt' = [attempt EXCEPT ![c[1]] = @ + 1]
           /\ task' = [task EXCEPT ![c[1]] = "streaming"]
           /\ UNCHANGED mailbox
    <2>1. attempt'[c[1]] = attempt[c[1]] + 1 /\ task'[c[1]] = "streaming"
        BY <1>1, <1>3 DEF Course, MailInv
    <2> QED
        BY <1>2, <1>3, <2>1, RetryKeeps
<1>4. CASE /\ drive = "abandon" \/ task[c[1]] # "backoff"
           /\ mailbox' = Mail(<<Result(c[1], task[c[1]] = "succeeded" /\ drive # "abandon")>>)
           /\ task' = [task EXCEPT ![c[1]] = "done"]
           /\ UNCHANGED attempt
    <2> DEFINE ok == task[c[1]] = "succeeded" /\ drive # "abandon"
    <2>1. /\ ok \in BOOLEAN /\ (ok => task[c[1]] = "succeeded") /\ mailbox' = Mail(<<Result(c[1], ok)>>)
          /\ task'[c[1]] = "done" /\ task[c[1]] \in {"backoff", "succeeded", "failed"}
        BY <1>1, <1>4 DEF Course, ContinueTask
    <2> HIDE DEF ok
    <2> QED
        BY <1>2, <1>4, <2>1, ResultKeeps
<1> QED
    BY <1>3, <1>4 DEF ContinueTask

--------------------------------------------------------------------------------
(* Every call is the one that takes the step, or another.                  *)
LEMMA CallsKeep ==
    ASSUME Ground, IInv', MailInv', NEW c \in Calls, [Next]_vars
    PROVE  CallInv(c)'
<1>1. ASSUME NEW d \in Calls, NextChunk(d) PROVE CallInv(c)'
    BY <1>1, NextChunkKeeps, ForeignChunk
<1>2. ASSUME NEW d \in Calls, Post(d) PROVE CallInv(c)'
    BY <1>2, PostKeeps, ForeignPost
<1>3. ASSUME NEW d \in Calls, NEW ok \in BOOLEAN, EndStream(d, ok) PROVE CallInv(c)'
    BY <1>3, EndKeeps, ForeignEnd
<1>4. ASSUME NEW d \in Calls, GiveUp(d) PROVE CallInv(c)'
    BY <1>4, GiveUpKeeps, ForeignGiveUp
<1>5. ASSUME NEW d \in Calls, CloseSource(d) PROVE CallInv(c)'
    BY <1>5, CloseSourceKeeps, ForeignCloseSource
<1>6. ASSUME NEW d \in Calls, NEW g \in 1..batch[d].gen, FlushGeneration(d, g) PROVE CallInv(c)'
    BY <1>6, FlushKeeps, ForeignFlush
<1>7. ASSUME NEW n \in Nodes, ContinueTask(n) PROVE CallInv(c)'
    BY <1>7, ContinueKeeps, ForeignContinue
<1>8. ASSUME RunCallback PROVE CallInv(c)'
    <2>1. scenario \in Scenarios /\ Sound /\ ready # <<>>
        BY <1>8, GroundTyped DEF RunCallback
    <2>2. Head(ready) \in Owned
        BY <2>1, HeadSound
    <2>3. PICK d \in Calls : Head(ready) \in Own(d)
        BY <2>2 DEF Owned
    <2> QED
        BY <1>8, <2>3, CallbackKeeps, ForeignCallback
<1>9. ASSUME DriverStep \/ CancelInvocation PROVE CallInv(c)'
    BY <1>9, DriverKeeps
<1>10. ASSUME Commit \/ FollowerStep \/ Heartbeat \/ UNCHANGED vars PROVE CallInv(c)'
    BY <1>10, OthersKeep
<1>11. TRUE \in BOOLEAN /\ FALSE \in BOOLEAN
    OBVIOUS
<1> QED
    BY <1>1, <1>2, <1>3, <1>4, <1>5, <1>6, <1>7, <1>8, <1>9, <1>10, <1>11
    DEF Next, HandlerStep, LoopStep

(* An output is that of the last attempt: its task has ended for good.      *)
OfLastAttempt(c) == Len(Chunks(c)) + 2 \in Line(c)[1] => Current(c)

LEMMA AttemptStays ==
    ASSUME [Next]_vars, MailInv, NEW n \in Nodes, task[n] = "done"
    PROVE  attempt'[n] = attempt[n]
<1>1. ASSUME NEW m \in Nodes, ContinueTask(m) PROVE attempt'[n] = attempt[n]
    BY <1>1 DEF ContinueTask, MailInv
<1>2. ASSUME \/ HandlerStep \/ RunCallback
             \/ \E c \in Calls : EndStream(c, FALSE) \/ GiveUp(c) \/ CloseSource(c)
             \/ \E c \in Calls : \E g \in 1..batch[c].gen : FlushGeneration(c, g)
      PROVE  attempt'[n] = attempt[n]
    BY <1>2 DEF HandlerStep, NextChunk, Post, EndStream, RunCallback, GiveUp, CloseSource,
       FlushGeneration
<1>3. ASSUME DriverStep \/ CancelInvocation \/ Commit PROVE attempt'[n] = attempt[n]
    BY <1>3 DEF DriverStep, Take, RecordUserEvents, Notify, ApplyResult, FailInvocation,
       AbandonWork, SkipResult, Complete, RecordEnd, Close, Settle, CancelInvocation, Commit
<1>4. ASSUME FollowerStep \/ Heartbeat \/ UNCHANGED vars PROVE attempt'[n] = attempt[n]
    BY <1>4 DEF FollowerStep, Wake, Clear, ListUserEvents, LoadUserEvents, SendPage,
       ReadDetail, Continue, Heartbeat, OnlyFollower, vars
<1> QED
    BY <1>1, <1>2, <1>3, <1>4 DEF Next, LoopStep

(* What a step records.                                                    *)
LEMMA StepRecords ==
    ASSUME [Next]_vars
    PROVE  /\ scenario' = scenario
           /\ \/ events' = events
              \/ RecordUserEvents \/ Close
              \/ ApplyResult /\ Head(todo).ok
<1>1. ASSUME \/ HandlerStep \/ LoopStep
             \/ \E c \in Calls : EndStream(c, FALSE) \/ GiveUp(c)
      PROVE  scenario' = scenario /\ events' = events
    BY <1>1, WorkIsUnseen
<1>2. ASSUME RecordUserEvents \/ Close \/ ApplyResult
      PROVE  scenario' = scenario /\ (ApplyResult => Head(todo).ok \/ events' = events)
    BY <1>2 DEF RecordUserEvents, Close, ApplyResult
<1>3. ASSUME \/ Take \/ Notify \/ FailInvocation \/ AbandonWork \/ SkipResult \/ Complete
             \/ RecordEnd \/ Settle \/ CancelInvocation \/ Commit
      PROVE  scenario' = scenario /\ events' = events
    BY <1>3 DEF Take, Notify, FailInvocation, AbandonWork, SkipResult, Complete, RecordEnd,
       Settle, CancelInvocation, Commit
<1>4. ASSUME FollowerStep \/ Heartbeat \/ UNCHANGED vars
      PROVE  scenario' = scenario /\ events' = events
    BY <1>4 DEF FollowerStep, Wake, Clear, ListUserEvents, LoadUserEvents, SendPage,
       ReadDetail, Continue, Heartbeat, OnlyFollower, vars
<1> QED
    BY <1>1, <1>2, <1>3, <1>4 DEF Next, DriverStep

(* Nothing but the success of its node is an output of the call.            *)
LEMMA RecordedOutput ==
    ASSUME Ground, NEW c \in Calls,
           RecordUserEvents \/ Close \/ (ApplyResult /\ Head(todo).ok),
           Len(Chunks(c)) + 2 \in SpecSet(c, events')
    PROVE  Len(Chunks(c)) + 2 \in SpecSet(c, events) \/ Current(c)
<1> DEFINE N == Len(Chunks(c))
<1>1. /\ scenario \in Scenarios /\ events \in Seq(Specs) /\ todo \in Seq(Letters)
      /\ todo \in Seq(Messages) /\ MailInv /\ N \in Nat
    BY GroundTyped DEF Sound
<1>2. ASSUME NEW specs \in Seq(Specs), events' = events \o Recorded(specs)
      PROVE  N + 2 \in SpecSet(c, events) \/ N + 2 \in SpecSet(c, specs)
    <2>1. Recorded(specs) \in Seq(Specs) /\ SpecSet(c, Recorded(specs)) = SpecSet(c, specs)
        BY <1>1, RecordedTyped, RecordedMarks
    <2>2. SpecSet(c, events \o Recorded(specs)) = SpecSet(c, events) \cup SpecSet(c, Recorded(specs))
        <3> DEFINE o == Awaited(c)
                   u == Recorded(specs)
        <3>1. o \in BOOLEAN /\ u \in Seq(Specs)
            BY <2>1, GroundTyped
        <3> HIDE DEF o, u
        <3>2. /\ SpecSet(c, events \o u) = SpecSet(c, events) \cup SpecSet(c, u)
              /\ SpecOrder(o, c, events) /\ SpecOrder(o, c, u)
                    /\ Apart(o, SpecSet(c, events), SpecSet(c, u)) => SpecOrder(o, c, events \o u)
            BY <1>1, <3>1, SpecConcat
        <3> QED
            BY <3>2 DEF u
    <2> QED
        BY <1>2, <2>1, <2>2
<1>3. CASE RecordUserEvents
    <2>1. /\ todo # <<>> /\ IsEvents(Head(todo)) /\ events' = events \o Recorded(Head(todo).specs)
        BY <1>3 DEF RecordUserEvents, Append_
    <2>2. Head(todo) \in Letters
        BY <1>1, <2>1, ToSetTail
    <2>3. Head(todo) \in Messages /\ Head(todo).kind = "user_event"
        BY <1>1, <2>1, <2>2, Wider DEF IsEvents
    <2>4. /\ Head(todo).specs \in Seq(Specs)
          /\ MessageMarks(c, Head(todo)) = SpecSet(c, Head(todo).specs)
        BY <2>3 DEF Messages, MessageMarks
    <2>5. N + 2 \notin SpecSet(c, Head(todo).specs)
        BY <1>1, <2>1, <2>2, <2>4, LetterMarks
    <2> QED
        BY <1>2, <2>1, <2>4, <2>5
<1>4. CASE Close
    <2>1. events' = events \o Recorded(LastWords) /\ LastWords \in Seq(Specs)
        BY <1>1, <1>4, LastSpecs DEF Close, Append_
    <2>2. SpecSet(c, LastWords) = {}
        BY <1>1, LastWordsMarks
    <2> QED
        BY <1>2, <2>1, <2>2
<1>5. CASE ApplyResult /\ Head(todo).ok
    <2> DEFINE n == Head(todo).node
               s == Spec_(<<n, attempt[n]>>, 0, "output")
    <2>1. todo # <<>> /\ ~IsEvents(Head(todo)) /\ events' = events \o Recorded(<<s>>)
        BY <1>5 DEF ApplyResult, Append_
    <2>2. n \in Nodes
        BY <1>1, <2>1, ToSetTail, LetterMarks
    <2>3. <<s>> \in Seq(Specs)
        BY <1>1, <2>2, LastSpecs
    <2>4. MarkOf(c, s) # {} => Current(c)
        BY DEF MarkOf, Spec_, Current
    <2> HIDE DEF s
    <2>5. s \in Specs
        BY <2>3
    <2>6. SpecSet(c, <<s>>) = MarkOf(c, s)
        BY <1>1, <2>5, SpecFew
    <2> QED
        BY <1>2, <2>1, <2>3, <2>4, <2>6
<1> QED
    BY <1>3, <1>4, <1>5

LEMMA OutputsLast ==
    ASSUME Ground, IInv', MailInv', NEW c \in Calls, OfLastAttempt(c), [Next]_vars
    PROVE  OfLastAttempt(c)'
<1> DEFINE N == Len(Chunks(c))
<1>1. /\ scenario' = scenario
      /\ events' = events \/ RecordUserEvents \/ Close \/ (ApplyResult /\ Head(todo).ok)
    BY StepRecords
<1>2. Line(c)[1] = SpecSet(c, events) /\ scenario \in Scenarios /\ MailInv /\ c[1] \in Nodes
    BY GroundTyped, LinesOf
<1>3. Line(c)'[1] = SpecSet(c, events')
    <2>1. Pipe(c)' \in Pipes /\ Pipe(c)'.events = events'
        BY <1>1, PipePrime
    <2> HIDE DEF Pipe
    <2>2. LineOf(c, Pipe(c)')[1] = SpecSet(c, Pipe(c)'.events)
        BY <1>2, <2>1, LineTyped
    <2> QED
        BY <1>1, <2>1, <2>2, LinePrime
<1>4. Len(Chunks(c))' = N
    BY <1>1, OwnPrimes
<1> SUFFICES ASSUME N + 2 \in SpecSet(c, events') PROVE Current(c)'
    BY <1>3, <1>4 DEF OfLastAttempt
<1>5. CASE N + 2 \in SpecSet(c, events)
    <2>1. Current(c)
        BY <1>2, <1>5 DEF OfLastAttempt
    <2>2. task[c[1]] = "done"
        <3>1. CallCore(c) /\ Line(c) \in Lines
            BY GroundTyped
        <3> QED
            BY <1>2, <1>5, <3>1 DEF CallCore, Known, Entire
    <2>3. attempt'[c[1]] = attempt[c[1]]
        BY <1>2, <2>2, AttemptStays
    <2> QED
        BY <2>1, <2>3 DEF Current
<1>6. CASE N + 2 \notin SpecSet(c, events)
    <2>1. RecordUserEvents \/ Close \/ (ApplyResult /\ Head(todo).ok)
        BY <1>1, <1>6
    <2>2. Current(c)
        BY <1>6, <2>1, RecordedOutput
    <2>3. attempt' = attempt
        BY <2>1 DEF RecordUserEvents, Close, ApplyResult
    <2> QED
        BY <2>2, <2>3 DEF Current
<1> QED
    BY <1>5, <1>6

(* The inductive invariant of the journal of streams.                      *)
StreamInv == Ground /\ \A c \in Calls : OfLastAttempt(c)

LEMMA NextStreams == StreamInv /\ FInv /\ [Next]_vars => StreamInv' /\ FInv'
<1> SUFFICES ASSUME StreamInv, FInv, [Next]_vars PROVE StreamInv' /\ FInv'
    OBVIOUS
<1>1. Ground /\ IInv /\ MailInv /\ Sound /\ Course
    BY DEF StreamInv, Ground
<1>2. IInv' /\ MailInv' /\ FInv'
    BY <1>1, NextPreserves, NextFollows
<1>3. Sound' /\ Course'
    BY <1>1, NextSound, NextCourse
<1>4. Calls' = Calls
    <2>1. scenario' = scenario
        BY StepRecords
    <2> QED
        BY <2>1, SoundSets
<1>5. \A c \in Calls : CallInv(c)'
    BY <1>1, <1>2, CallsKeep
<1>6. \A c \in Calls : OfLastAttempt(c)'
    <2>1. \A c \in Calls : OfLastAttempt(c)
        BY DEF StreamInv
    <2> QED
        BY <1>1, <1>2, <2>1, OutputsLast
<1>7. Ground'
    BY <1>2, <1>3, <1>4, <1>5 DEF Ground
<1> QED
    BY <1>2, <1>4, <1>6, <1>7 DEF StreamInv

(* At the beginning nothing is under way.                                  *)
LEMMA InitStreams == Init => StreamInv /\ FInv
<1> SUFFICES ASSUME Init PROVE StreamInv /\ FInv
    OBVIOUS
<1>1. IInv /\ MailInv /\ FInv /\ Sound /\ Course
    BY InitEstablishes, InitFollows, InitSound, InitCourse
<1> SUFFICES ASSUME NEW c \in Calls PROVE CallInv(c) /\ OfLastAttempt(c)
    BY <1>1 DEF StreamInv, Ground
<1> DEFINE q == Pipe(c)
           o == Awaited(c)
           L == Line(c)
           N == Len(Chunks(c))
           g == batch[c].gen
           e == over[c]
           f == position[c] = N
<1>2. /\ scenario \in Scenarios /\ L = LineOf(c, q) /\ q \in Pipes /\ L \in Lines /\ o \in BOOLEAN
      /\ c[1] \in Nodes /\ N \in Nat /\ Sayings(c) \subseteq 1..N /\ c[2] \in Nat \ {0}
    BY <1>1, PipeTyped, LinesOf, ChunksTyped DEF IInv, BatcherTypeOK, Line
<1>3. /\ events = <<>> /\ todo = <<>> /\ mailbox = <<>> /\ ready = <<>> /\ timers = {}
      /\ posts[c] = <<>> /\ batch[c].specs = <<>> /\ batch[c].gen = 0 /\ position[c] = 0
      /\ ~over[c] /\ givenUp = {} /\ attempt[c[1]] = 1 /\ task[c[1]] = "streaming"
    BY <1>2 DEF Init
<1>4. /\ q.events = <<>> /\ q.todo = <<>> /\ q.mail = <<>> /\ q.ready = <<>>
      /\ q.posts = <<>> /\ q.batch = <<>>
    BY <1>1, <1>3, PipeTyped
<1> HIDE DEF q, o
<1>5. /\ SpecSet(c, <<>>) = {} /\ SpecOrder(o, c, <<>>)
      /\ MailSet(c, <<>>) = {} /\ MailOrder(o, c, <<>>)
      /\ LoopSet(c, <<>>) = {} /\ LoopOrder(o, c, <<>>)
    BY <1>2, SpecFew, MailFew, LoopFew
<1>6. L[1] = {} /\ L[2] = {} /\ L[3] = {} /\ L[4] = {} /\ L[5] = {} /\ L[6] = {}
    BY <1>2, <1>4, <1>5, LineTyped
<1>7. InLine(c)
    <2>1. \A p \in Places : LineOf(c, q)[p] = {}
        BY <1>2, <1>6 DEF Places
    <2>2. InOrder(o, LineOf(c, q))
        BY <1>2, <2>1 DEF InOrder, Apart, Lines
    <2>3. Sorted(o, c, q)
        BY <1>4, <1>5 DEF Sorted
    <2> QED
        BY <2>2, <2>3 DEF InLine, Orderly, q, o
<1>8. Entire(L) = {} /\ Looped(L) = {} /\ Told(c) = {}
    BY <1>2, <1>3, <1>6 DEF Entire, Looped, Told
<1>9. Known(c) /\ Whole(c) /\ Finished(c) /\ Watched(c)
    BY <1>3, <1>6, <1>8 DEF Known, Whole, Finished, Watched
<1>10. Phases(c)
    BY <1>2, <1>3, <1>6, <1>8 DEF Phases, Concluded, Current
<1>11. Markers(c)
    <2>1. e \in BOOLEAN /\ f \in BOOLEAN
        BY <1>1 DEF Course
    <2> HIDE DEF e, f, g
    <2>2. ~HasMarker(c, g, <<>>) /\ Calm(c, g, <<>>) /\ Due(c, g, e, f, <<>>)
        BY <2>1, MarkerFew
    <2>3. MarkersOf(c, g, e, f, <<>>, <<>>, {})
        BY <2>2 DEF MarkersOf
    <2> QED
        BY <1>3, <2>3 DEF Markers, g, e, f
<1>12. OfLastAttempt(c)
    BY <1>6 DEF OfLastAttempt
<1> QED
    BY <1>7, <1>9, <1>10, <1>11, <1>12 DEF CallInv, CallCore

(* What is recorded of a call, and in which order.                         *)
LEMMA SaidMarks ==
    ASSUME StreamInv, NEW c \in Calls
    PROVE  /\ \A i \in DOMAIN events : MarkOf(c, events[i]) \subseteq Line(c)[1]
           /\ \A i \in Said(c) :
                 /\ events[i].item \in Sayings(c) /\ MarkOf(c, events[i]) = {events[i].item}
                 /\ <<events[i]>> = Recorded(Mapped(c, events[i].item))
           /\ \A i \in DOMAIN events :
                 /\ Announces(i, c, Aborted) => MarkOf(c, events[i]) = {Len(Chunks(c)) + 1}
                 /\ Announces(i, c, "output") => MarkOf(c, events[i]) = {Len(Chunks(c)) + 2}
           /\ \A i, j \in DOMAIN events : i < j =>
                 Apart(Awaited(c), MarkOf(c, events[i]), MarkOf(c, events[j]))
           /\ \A k \in Sayings(c) : k \in Line(c)[1] => \E j \in Said(c) : events[j].item = k
<1> DEFINE N == Len(Chunks(c))
           M == SpecMarks(c, events)
<1>1. /\ IInv /\ MailInv /\ Sound /\ scenario \in Scenarios /\ Sayings(c) \subseteq 1..N
      /\ N \in Nat /\ events \in Seq(Specs) /\ events \in Seq(Entries)
      /\ Orderly(Awaited(c), c, Pipe(c)) /\ Pipe(c).events = events
      /\ Line(c)[1] = SpecSet(c, events)
    BY GroundTyped, PipeTyped, LinesOf DEF StreamInv, Sound
<1>2. DOMAIN M = DOMAIN events /\ \A i \in DOMAIN events : M[i] = MarkOf(c, events[i])
    BY DEF SpecMarks
<1>3. \A i \in DOMAIN events : events[i] \in Specs /\ events[i] \in Entries
    BY <1>1
<1>4. \A i \in DOMAIN events : MarkOf(c, events[i]) \subseteq Line(c)[1]
    BY <1>1, <1>2 DEF SpecSet, All
<1>5. ASSUME NEW i \in Said(c)
      PROVE  /\ events[i].item \in Sayings(c) /\ MarkOf(c, events[i]) = {events[i].item}
             /\ <<events[i]>> = Recorded(Mapped(c, events[i].item))
    <2>1. i \in DOMAIN events /\ events[i].call = c /\ events[i].item > 0
        BY DEF Said
    <2>2. events[i] \in Entries
        BY <1>3, <2>1
    <2> QED
        BY <2>1, <2>2 DEF Entries, MarkOf
<1>6. ASSUME NEW i \in DOMAIN events
      PROVE  /\ Announces(i, c, Aborted) => MarkOf(c, events[i]) = {N + 1}
             /\ Announces(i, c, "output") => MarkOf(c, events[i]) = {N + 2}
    BY DEF Announces, MarkOf, Aborted
<1>7. \A i, j \in DOMAIN events : i < j =>
          Apart(Awaited(c), MarkOf(c, events[i]), MarkOf(c, events[j]))
    <2>1. InOrder(Awaited(c), M)
        BY <1>1 DEF Orderly, Sorted, SpecOrder
    <2> HIDE DEF M
    <2> QED
        BY <1>2, <2>1 DEF InOrder
<1>8. ASSUME NEW k \in Sayings(c), k \in Line(c)[1]
      PROVE  \E j \in Said(c) : events[j].item = k
    <2>1. PICK j \in DOMAIN events : k \in MarkOf(c, events[j])
        BY <1>1, <1>2, <1>8 DEF SpecSet, All
    <2>2. k # N + 1 /\ k # N + 2
        BY <1>1
    <2>3. events[j].call = c /\ events[j].item > 0 /\ events[j].item = k
        BY <2>1, <2>2 DEF MarkOf
    <2> QED
        BY <2>3 DEF Said
<1> QED
    BY <1>4, <1>5, <1>6, <1>7, <1>8

LEMMA CallExact ==
    ASSUME StreamInv, NEW c \in Calls
    PROVE  /\ \A i \in Said(c) :
                 /\ events[i].item \in Sayings(c)
                 /\ <<events[i]>> = Recorded(Mapped(c, events[i].item))
           /\ \A i, j \in Said(c) : i # j => events[i].item # events[j].item
           /\ Awaited(c) =>
                 /\ \A i, j \in Said(c) : i < j => events[i].item < events[j].item
                 /\ Cancelled \/ \A i \in Said(c) : \A k \in Sayings(c) :
                       k < events[i].item => \E j \in Said(c) : events[j].item = k
                 /\ \A i \in DOMAIN events :
                       Announces(i, c, Aborted) => \A j \in Said(c) : j < i
           /\ \A i \in DOMAIN events : Announces(i, c, "output") =>
                 \A k \in Sayings(c) : \E j \in Said(c) : j < i /\ events[j].item = k
<1> DEFINE N == Len(Chunks(c))
           L == Line(c)
           o == Awaited(c)
<1>1. /\ N \in Nat /\ Sayings(c) \subseteq 1..N /\ CallCore(c) /\ L \in Lines /\ o \in BOOLEAN
      /\ L = LineOf(c, Pipe(c)) /\ Orderly(o, c, Pipe(c)) /\ events \in Seq(Specs)
      /\ position[c] \in Nat /\ OfLastAttempt(c)
    BY GroundTyped DEF StreamInv
<1>2. \A i \in DOMAIN events : i \in Nat
    BY <1>1
<1>3. Said(c) \subseteq DOMAIN events
    BY DEF Said
<1>4. /\ \A i \in DOMAIN events : MarkOf(c, events[i]) \subseteq L[1]
      /\ \A i \in Said(c) :
            /\ events[i].item \in Sayings(c) /\ MarkOf(c, events[i]) = {events[i].item}
            /\ <<events[i]>> = Recorded(Mapped(c, events[i].item))
      /\ \A i \in DOMAIN events :
            /\ Announces(i, c, Aborted) => MarkOf(c, events[i]) = {N + 1}
            /\ Announces(i, c, "output") => MarkOf(c, events[i]) = {N + 2}
      /\ \A i, j \in DOMAIN events : i < j =>
            Apart(o, MarkOf(c, events[i]), MarkOf(c, events[j]))
      /\ \A k \in Sayings(c) : k \in L[1] => \E j \in Said(c) : events[j].item = k
    BY SaidMarks
<1> HIDE DEF L, o
<1>5. ASSUME NEW i \in Said(c), NEW j \in Said(c), i < j
      PROVE  events[i].item # events[j].item /\ (o => events[i].item < events[j].item)
    <2>1. i \in DOMAIN events /\ j \in DOMAIN events
        BY <1>3
    <2>2. Apart(o, MarkOf(c, events[i]), MarkOf(c, events[j]))
        BY <1>4, <1>5, <2>1
    <2>3. events[i].item \in MarkOf(c, events[i]) /\ events[j].item \in MarkOf(c, events[j])
        BY <1>4
    <2> QED
        BY <2>2, <2>3 DEF Apart
<1>6. \A i, j \in Said(c) : i # j => events[i].item # events[j].item
    <2> SUFFICES ASSUME NEW i \in Said(c), NEW j \in Said(c), i # j
                 PROVE  events[i].item # events[j].item
        OBVIOUS
    <2>1. i < j \/ j < i
        BY <1>2, <1>3
    <2> QED
        BY <1>5, <2>1
<1>7. ASSUME o, ~Cancelled, NEW i \in Said(c), NEW k \in Sayings(c), k < events[i].item
      PROVE  \E j \in Said(c) : events[j].item = k
    <2> DEFINE x == events[i].item
    <2>1. x \in Sayings(c) /\ x \in L[1]
        BY <1>3, <1>4
    <2>2. x \in Told(c)
        BY <1>1, <2>1 DEF CallCore, Known, Entire, L
    <2>3. k \in Told(c)
        BY <1>1, <1>7, <2>2 DEF Told
    <2>4. k \in Entire(L)
        BY <1>1, <1>7, <2>3 DEF CallCore, Whole, o, L
    <2>5. ASSUME NEW p \in Places, 1 < p, k \in L[p] PROVE FALSE
        <3>1. InOrder(o, L) /\ 1 \in Places /\ DOMAIN L = Places
            BY <1>1 DEF Orderly, Places, Lines
        <3>2. Apart(o, L[1], L[p])
            BY <2>5, <3>1 DEF InOrder
        <3>3. x < k
            BY <1>7, <2>1, <2>5, <3>2 DEF Apart
        <3> QED
            BY <1>1, <1>7, <2>1, <3>3
    <2>6. k \in L[1]
        BY <2>4, <2>5 DEF Entire, Places
    <2> QED
        BY <1>4, <2>6
<1>8. ASSUME o, NEW i \in DOMAIN events, NEW j \in Said(c), NEW y \in Nat, y > N,
             MarkOf(c, events[i]) = {y}
      PROVE  j < i
    <2>1. events[j].item \in Sayings(c) /\ MarkOf(c, events[j]) = {events[j].item}
        BY <1>4
    <2>2. events[j].item <= N /\ events[j].item \in Nat
        BY <1>1, <2>1
    <2>3. i # j
        <3>1. CASE i = j
            <4>1. events[j].item = y
                BY <1>8, <2>1, <3>1
            <4> QED
                BY <1>1, <1>8, <2>2, <4>1
        <3> QED
            BY <3>1
    <2>4. ~(i < j)
        <3>1. CASE i < j
            <4>1. j \in DOMAIN events
                BY <1>3
            <4>3. Apart(o, MarkOf(c, events[i]), MarkOf(c, events[j]))
                BY <1>4, <3>1, <4>1
            <4>2. y < events[j].item
                BY <1>8, <2>1, <4>3 DEF Apart
            <4> QED
                BY <1>1, <1>8, <2>2, <4>2
        <3> QED
            BY <3>1
    <2> QED
        BY <1>2, <1>3, <2>3, <2>4
<1>9. ASSUME o, NEW i \in DOMAIN events, Announces(i, c, Aborted), NEW j \in Said(c)
      PROVE  j < i
    <2>1. N + 1 \in Nat /\ N + 1 > N /\ MarkOf(c, events[i]) = {N + 1}
        BY <1>1, <1>4, <1>9
    <2> QED
        BY <1>8, <1>9, <2>1
<1>10. ASSUME NEW i \in DOMAIN events, Announces(i, c, "output"), NEW k \in Sayings(c)
       PROVE  \E j \in Said(c) : j < i /\ events[j].item = k
    <2>1. N + 2 \in Nat /\ N + 2 > N /\ MarkOf(c, events[i]) = {N + 2}
        BY <1>1, <1>4, <1>10
    <2>2. N + 2 \in L[1]
        BY <1>4, <2>1
    <2>3. k \in L[1]
        BY <1>1, <2>2 DEF CallCore, Whole, L
    <2>4. o
        BY <1>1, <2>2 DEF CallCore, Finished, OfLastAttempt, Entire, L, o
    <2>5. PICK j \in Said(c) : events[j].item = k
        BY <1>4, <2>3
    <2>6. j < i
        BY <1>8, <2>1, <2>4
    <2> QED
        BY <2>5, <2>6
<1>11. o => /\ \A i, j \in Said(c) : i < j => events[i].item < events[j].item
            /\ Cancelled \/ \A i \in Said(c) : \A k \in Sayings(c) :
                  k < events[i].item => \E j \in Said(c) : events[j].item = k
            /\ \A i \in DOMAIN events : Announces(i, c, Aborted) => \A j \in Said(c) : j < i
    BY <1>5, <1>7, <1>9
<1>12. \A i \in Said(c) : /\ events[i].item \in Sayings(c)
                          /\ <<events[i]>> = Recorded(Mapped(c, events[i].item))
    BY <1>4
<1>13. \A i \in DOMAIN events : Announces(i, c, "output") =>
           \A k \in Sayings(c) : \E j \in Said(c) : j < i /\ events[j].item = k
    BY <1>10
<1> QED
    BY <1>6, <1>11, <1>12, <1>13 DEF o

(* For any number of nodes, attempts and chunks, any size of a batch and    *)
(* any interleaving of threads, loop and driver: what a stream says is      *)
(* recorded at most once, as its mapping said it; unless the stream runs in *)
(* a thread nobody waits for any more, in its order, with nothing missing   *)
(* in between unless the caller cancelled, before the announcement of its   *)
(* end; and all of it before the output of its node (node_executor.py:      *)
(* 102-236, 1293-1355).                                                     *)
THEOREM StreamsAreExact == StreamSpec => []StreamExact
<1>1. StreamInv => StreamExact
    BY CallExact DEF StreamExact
<1> QED
    BY <1>1, InitStreams, NextStreams, PTL DEF StreamSpec
===============================================================================
