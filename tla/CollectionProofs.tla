-------------------------- MODULE CollectionProofs --------------------------
(* Sums over finite sets, filtered sequences and sequences made of sets:    *)
(* what the proofs about the components need to know of them.               *)
EXTENDS Subsequences, SequencesExt, FiniteSetsExt, FiniteSetTheorems,
        WellFoundedInduction, TLAPS

-----------------------------------------------------------------------------
(* Sets of numbers and finite sets.                                        *)

LEMMA LeastExists ==
  ASSUME NEW S \in SUBSET Nat, S # {}
  PROVE  \E x \in S : \A y \in S : x <= y
<1>1. PICK x \in S : \A y \in S : ~(<<y, x>> \in OpToRel(<, Nat))
  BY NatLessThanWellFounded, WFMin
<1>2. \A y \in S : ~(y < x)
  BY <1>1 DEF OpToRel
<1> QED
  BY <1>2

(* A set of finite sets that is not empty has one of which no proper       *)
(* subset belongs to it.                                                   *)
LEMMA SmallestSet ==
  ASSUME NEW C, C # {}, \A T \in C : IsFiniteSet(T)
  PROVE  \E T \in C : \A x \in T : T \ {x} \notin C
<1> DEFINE N == {Cardinality(T) : T \in C}
<1>1. \A T \in C : Cardinality(T) \in Nat
  BY FS_CardinalityType
<1>2. N \in SUBSET Nat /\ N # {}
  BY <1>1
<1>3. PICK n \in N : \A m \in N : n <= m
  BY <1>2, LeastExists
<1>4. PICK T \in C : n = Cardinality(T)
  OBVIOUS
<1>5. ASSUME NEW x \in T, T \ {x} \in C PROVE FALSE
  <2>1. Cardinality(T \ {x}) = Cardinality(T) - 1
    BY FS_RemoveElement
  <2>2. Cardinality(T \ {x}) \in N
    BY <1>5
  <2> QED
    BY <1>1, <1>3, <1>4, <2>1, <2>2
<1> QED
  BY <1>4, <1>5

-----------------------------------------------------------------------------
(* Sums.                                                                   *)

Some(T) == CHOOSE x \in T : TRUE
SumOver(w, S) == MapThenSumSet(LAMBDA e : w[e], S)

(* f sums w over the subsets of S, an element at a time.                   *)
AddsUp(f, w, S) ==
  f = [T \in SUBSET S |-> IF T = {} THEN 0 ELSE w[Some(T)] + f[T \ {Some(T)}]]

LEMMA SumIsFold ==
  ASSUME NEW w, NEW S, \E f : AddsUp(f, w, S)
  PROVE  \E f : AddsUp(f, w, S) /\ SumOver(w, S) = f[S]
<1> DEFINE iter[T \in SUBSET S] ==
      IF T = {} THEN 0 ELSE w[Some(T)] + iter[T \ {Some(T)}]
<1>1. AddsUp(iter, w, S)
  BY DEF AddsUp
<1>2. SumOver(w, S) = iter[S]
  BY DEF SumOver, MapThenSumSet, MapThenFoldSet, Some
<1> QED
  BY <1>1, <1>2

(* Such an f exists: it is built for the subsets of 0, 1, 2, ... elements. *)
LEMMA FoldExists ==
  ASSUME NEW w, NEW S, IsFiniteSet(S), \A x \in S : w[x] \in Int
  PROVE  \E f : AddsUp(f, w, S) /\ f \in [SUBSET S -> Int]
<1> DEFINE D(n) == {T \in SUBSET S : Cardinality(T) <= n}
           Next1(g, T) == IF T = {} THEN 0 ELSE w[Some(T)] + g[T \ {Some(T)}]
           Good(g, n) == g \in [D(n) -> Int] /\ \A T \in D(n) : g[T] = Next1(g, T)
           Bad == {n \in Nat : ~ \E g : Good(g, n)}
<1>1. \A T \in SUBSET S :
        /\ IsFiniteSet(T) /\ Cardinality(T) \in Nat
        /\ Cardinality(T) = 0 <=> T = {}
        /\ T # {} => /\ Some(T) \in T /\ w[Some(T)] \in Int
                     /\ T \ {Some(T)} \in SUBSET S
                     /\ Cardinality(T \ {Some(T)}) = Cardinality(T) - 1
  <2> SUFFICES ASSUME NEW T \in SUBSET S
               PROVE  /\ IsFiniteSet(T) /\ Cardinality(T) \in Nat
                      /\ Cardinality(T) = 0 <=> T = {}
                      /\ T # {} => /\ Some(T) \in T /\ w[Some(T)] \in Int
                                   /\ T \ {Some(T)} \in SUBSET S
                                   /\ Cardinality(T \ {Some(T)}) = Cardinality(T) - 1
    OBVIOUS
  <2>1. IsFiniteSet(T)
    BY FS_Subset
  <2>2. Cardinality(T) \in Nat /\ (Cardinality(T) = 0 <=> T = {})
    BY <2>1, FS_CardinalityType, FS_EmptySet
  <2>3. T # {} => Some(T) \in T
    BY DEF Some
  <2> QED
    BY <2>1, <2>2, <2>3, FS_RemoveElement
<1>2. Bad = {}
  <2> SUFFICES ASSUME Bad # {} PROVE FALSE
    OBVIOUS
  <2>1. PICK n \in Bad : \A m \in Bad : n <= m
    BY LeastExists
  <2>2. CASE n = 0
    <3>1. Good([T \in D(0) |-> 0], 0)
      BY <1>1
    <3> QED
      BY <2>2, <3>1
  <2>3. CASE n # 0
    <3> HIDE DEF Good
    <3>0. n \in Nat /\ n - 1 \in Nat
      BY <2>3
    <3>1. n - 1 \in Nat /\ n - 1 \notin Bad
      BY <2>1, <3>0
    <3> USE DEF Good
    <3>2. PICK g : Good(g, n - 1)
      BY <3>1
    <3> DEFINE h == [T \in D(n) |-> Next1(g, T)]
    <3>3. \A T \in D(n) : T # {} => T \ {Some(T)} \in D(n - 1) /\ T \ {Some(T)} \in D(n)
      BY <1>1, <3>1
    <3>4. \A T \in D(n) : Next1(g, T) \in Int
      BY <1>1, <3>2, <3>3
    <3>5. \A T \in D(n - 1) : T \in D(n) /\ h[T] = g[T]
      BY <1>1, <3>1, <3>2
    <3>6. \A T \in D(n) : Next1(h, T) = Next1(g, T)
      BY <3>3, <3>5
    <3>7. Good(h, n)
      BY <3>4, <3>6
    <3> QED
      BY <3>7
  <2> QED
    BY <2>2, <2>3
<1>3. Cardinality(S) \in Nat /\ D(Cardinality(S)) = SUBSET S
  BY <1>1, FS_Subset
<1>4. PICK f : Good(f, Cardinality(S))
  BY <1>2, <1>3
<1>5. AddsUp(f, w, S) /\ f \in [SUBSET S -> Int]
  BY <1>3, <1>4 DEF AddsUp
<1> QED
  BY <1>5

(* The order in which the elements are added does not matter.              *)
Sums(f, w, S) ==
  /\ f \in [SUBSET S -> Int] /\ f[{}] = 0
  /\ \A T \in SUBSET S : \A y \in T : f[T] = w[y] + f[T \ {y}]

LEMMA FoldSums ==
  ASSUME NEW w, NEW S, IsFiniteSet(S), \A x \in S : w[x] \in Int,
         NEW f \in [SUBSET S -> Int], AddsUp(f, w, S)
  PROVE  Sums(f, w, S)
<1>1. f[{}] = 0
  BY DEF AddsUp
<1> DEFINE Bad == {T \in SUBSET S : ~ \A y \in T : f[T] = w[y] + f[T \ {y}]}
<1>2. Bad = {}
  <2> SUFFICES ASSUME Bad # {} PROVE FALSE
    OBVIOUS
  <2>1. \A T \in Bad : IsFiniteSet(T)
    BY FS_Subset
  <2>2. PICK T \in Bad : \A x \in T : T \ {x} \notin Bad
    BY <2>1, SmallestSet
  <2>3. PICK y \in T : f[T] # w[y] + f[T \ {y}]
    OBVIOUS
  <2> DEFINE c == Some(T)
  <2>4. c \in T
    BY <2>3 DEF Some
  <2>5. f[T] = w[c] + f[T \ {c}]
    BY <2>3 DEF AddsUp
  <2>6. y # c
    BY <2>3, <2>5
  <2> HIDE DEF c
  <2>7. f[T \ {c}] = w[y] + f[(T \ {c}) \ {y}]
    BY <2>2, <2>4, <2>6
  <2>8. f[T \ {y}] = w[c] + f[(T \ {y}) \ {c}]
    BY <2>2, <2>3, <2>4, <2>6
  <2>9. (T \ {c}) \ {y} = (T \ {y}) \ {c}
    OBVIOUS
  <2> DEFINE rest == f[(T \ {y}) \ {c}]
  <2>10. rest \in Int /\ w[y] \in Int /\ w[c] \in Int
    BY <2>3, <2>4
  <2>11. f[T \ {c}] = w[y] + rest /\ f[T \ {y}] = w[c] + rest
    BY <2>7, <2>8, <2>9
  <2> HIDE DEF rest
  <2>12. w[c] + f[T \ {c}] = w[y] + f[T \ {y}]
    BY <2>10, <2>11
  <2> QED
    BY <2>3, <2>5, <2>12
<1> QED
  BY <1>1, <1>2 DEF Sums

LEMMA SumsAgree ==
  ASSUME NEW f, NEW w, NEW S, Sums(f, w, S),
         NEW g, NEW v, NEW R, Sums(g, v, R),
         NEW U \in SUBSET (S \cap R), IsFiniteSet(U), \A x \in U : w[x] = v[x]
  PROVE  f[U] = g[U]
<1> DEFINE Bad == {T \in SUBSET U : f[T] # g[T]}
<1> SUFFICES ASSUME Bad # {} PROVE FALSE
  OBVIOUS
<1>1. \A T \in Bad : IsFiniteSet(T)
  BY FS_Subset
<1>2. PICK T \in Bad : \A x \in T : T \ {x} \notin Bad
  BY <1>1, SmallestSet
<1>3. T # {}
  BY DEF Sums
<1>4. PICK y \in T : TRUE
  BY <1>3
<1>5. f[T] = w[y] + f[T \ {y}] /\ g[T] = v[y] + g[T \ {y}]
  BY DEF Sums
<1>6. f[T \ {y}] = g[T \ {y}]
  BY <1>2
<1> QED
  BY <1>5, <1>6

LEMMA FoldTyped ==
  ASSUME NEW w, NEW S, IsFiniteSet(S), \A x \in S : w[x] \in Int,
         NEW f, AddsUp(f, w, S)
  PROVE  f \in [SUBSET S -> Int]
<1> DEFINE Bad == {T \in SUBSET S : f[T] \notin Int}
<1>1. Bad = {}
  <2> SUFFICES ASSUME Bad # {} PROVE FALSE
    OBVIOUS
  <2>1. \A T \in Bad : IsFiniteSet(T)
    BY FS_Subset
  <2>2. PICK T \in Bad : \A x \in T : T \ {x} \notin Bad
    BY <2>1, SmallestSet
  <2>3. f[T] = IF T = {} THEN 0 ELSE w[Some(T)] + f[T \ {Some(T)}]
    BY DEF AddsUp
  <2>4. T # {}
    BY <2>3
  <2>5. Some(T) \in T
    BY <2>4 DEF Some
  <2>6. f[T \ {Some(T)}] \in Int /\ w[Some(T)] \in Int
    BY <2>2, <2>5
  <2> QED
    BY <2>3, <2>4, <2>6
<1>2. \E h : f = [T \in SUBSET S |-> h[T]]
  <2> DEFINE h == [T \in SUBSET S |-> IF T = {} THEN 0 ELSE w[Some(T)] + f[T \ {Some(T)}]]
  <2>1. f = [T \in SUBSET S |-> h[T]]
    BY DEF AddsUp
  <2> QED
    BY <2>1
<1> QED
  BY <1>1, <1>2

LEMMA SumIs ==
  ASSUME NEW w, NEW S, IsFiniteSet(S), \A x \in S : w[x] \in Int
  PROVE  \E f : Sums(f, w, S) /\ SumOver(w, S) = f[S]
<1>1. PICK f : AddsUp(f, w, S) /\ f \in [SUBSET S -> Int]
  BY FoldExists
<1>2. PICK g : AddsUp(g, w, S) /\ SumOver(w, S) = g[S]
  BY <1>1, SumIsFold
<1>3. g \in [SUBSET S -> Int]
  BY <1>2, FoldTyped
<1> QED
  BY <1>2, <1>3, FoldSums

LEMMA SumEmpty ==
  ASSUME NEW w
  PROVE  SumOver(w, {}) = 0
<1>1. PICK f : Sums(f, w, {}) /\ SumOver(w, {}) = f[{}]
  BY FS_EmptySet, SumIs
<1> QED
  BY <1>1 DEF Sums

LEMMA SumInInt ==
  ASSUME NEW w, NEW S, IsFiniteSet(S), \A x \in S : w[x] \in Int
  PROVE  SumOver(w, S) \in Int
<1>1. PICK f : Sums(f, w, S) /\ SumOver(w, S) = f[S]
  BY SumIs
<1> QED
  BY <1>1 DEF Sums

LEMMA SumOfNats ==
  ASSUME NEW w, NEW S, IsFiniteSet(S), \A x \in S : w[x] \in Nat
  PROVE  SumOver(w, S) \in Nat
<1>1. PICK f : Sums(f, w, S) /\ SumOver(w, S) = f[S]
  BY SumIs
<1> DEFINE Bad == {T \in SUBSET S : f[T] \notin Nat}
<1>2. Bad = {}
  <2> SUFFICES ASSUME Bad # {} PROVE FALSE
    OBVIOUS
  <2>1. \A T \in Bad : IsFiniteSet(T)
    BY FS_Subset
  <2>2. PICK T \in Bad : \A x \in T : T \ {x} \notin Bad
    BY <2>1, SmallestSet
  <2>3. T # {}
    <3>1. f[{}] \in Nat
      BY <1>1 DEF Sums
    <3> QED
      BY <3>1
  <2>4. PICK y \in T : f[T] = w[y] + f[T \ {y}]
    BY <1>1, <2>3 DEF Sums
  <2>5. f[T \ {y}] \in Nat /\ w[y] \in Nat
    BY <2>2
  <2> QED
    BY <2>4, <2>5
<1> QED
  BY <1>1, <1>2

(* One element more, the others weighing the same.                         *)
LEMMA SumAdd ==
  ASSUME NEW w, NEW v, NEW S, IsFiniteSet(S), NEW e, e \notin S,
         \A x \in S : w[x] \in Int /\ v[x] = w[x], v[e] \in Int
  PROVE  SumOver(v, S \cup {e}) = SumOver(w, S) + v[e]
<1> DEFINE T == S \cup {e}
<1>1. IsFiniteSet(T) /\ \A x \in T : v[x] \in Int
  BY FS_AddElement
<1>2. PICK f : Sums(f, w, S) /\ SumOver(w, S) = f[S]
  BY SumIs
<1>3. PICK g : Sums(g, v, T) /\ SumOver(v, T) = g[T]
  BY <1>1, SumIs
<1>4. S \in SUBSET (S \cap T)
  OBVIOUS
<1>5. f[S] = g[S]
  BY <1>2, <1>3, <1>4, SumsAgree
<1>6. g[T] = v[e] + g[T \ {e}]
  BY <1>3 DEF Sums
<1>7. T \ {e} = S
  OBVIOUS
<1>8. f[S] \in Int
  BY <1>2 DEF Sums
<1>9. SumOver(v, T) = v[e] + f[S]
  BY <1>3, <1>5, <1>6, <1>7
<1>10. v[e] + f[S] = f[S] + v[e]
  BY <1>8
<1> QED
  BY <1>2, <1>9, <1>10

(* One element of the set weighs something else.                           *)
LEMMA SumMoved ==
  ASSUME NEW w, NEW v, NEW S, IsFiniteSet(S), NEW e \in S,
         \A x \in S : w[x] \in Int /\ v[x] \in Int,
         \A x \in S : x # e => v[x] = w[x]
  PROVE  SumOver(v, S) = SumOver(w, S) - w[e] + v[e]
<1> DEFINE R == S \ {e}
<1>1. IsFiniteSet(R) /\ e \notin R /\ R \cup {e} = S
  BY FS_RemoveElement
<1>2. \A x \in R : w[x] \in Int /\ v[x] = w[x]
  OBVIOUS
<1> HIDE DEF R
<1>3. SumOver(v, R \cup {e}) = SumOver(w, R) + v[e]
  BY <1>1, <1>2, SumAdd
<1>4. SumOver(w, R \cup {e}) = SumOver(w, R) + w[e]
  BY <1>1, <1>2, SumAdd
<1>5. SumOver(w, R) \in Int /\ w[e] \in Int /\ v[e] \in Int
  BY <1>1, <1>2, SumInInt
<1>6. SumOver(v, S) = SumOver(w, R) + v[e] /\ SumOver(w, S) = SumOver(w, R) + w[e]
  BY <1>1, <1>3, <1>4
<1> DEFINE rest == SumOver(w, R)
<1>7. rest \in Int /\ SumOver(v, S) = rest + v[e] /\ SumOver(w, S) = rest + w[e]
  BY <1>5, <1>6
<1> HIDE DEF rest
<1> QED
  BY <1>5, <1>7

(* Weights of zero.                                                        *)
LEMMA SumOfZeros ==
  ASSUME NEW w, NEW S, IsFiniteSet(S), \A x \in S : w[x] = 0
  PROVE  SumOver(w, S) = 0
<1>1. PICK f : Sums(f, w, S) /\ SumOver(w, S) = f[S]
  BY SumIs
<1> DEFINE Bad == {T \in SUBSET S : f[T] # 0}
<1> SUFFICES ASSUME Bad # {} PROVE FALSE
  BY <1>1
<1>2. \A T \in Bad : IsFiniteSet(T)
  BY FS_Subset
<1>3. PICK T \in Bad : \A x \in T : T \ {x} \notin Bad
  BY <1>2, SmallestSet
<1>4. T # {}
  BY <1>1 DEF Sums
<1>5. PICK y \in T : f[T] = w[y] + f[T \ {y}]
  BY <1>1, <1>4 DEF Sums
<1> QED
  BY <1>3, <1>5

(* An element of a set, and the sum without it.                            *)
LEMMA SumTake ==
  ASSUME NEW w, NEW S, IsFiniteSet(S), \A x \in S : w[x] \in Int, NEW e \in S
  PROVE  SumOver(w, S) = SumOver(w, S \ {e}) + w[e]
<1>1. IsFiniteSet(S \ {e}) /\ e \notin S \ {e} /\ (S \ {e}) \cup {e} = S
  BY FS_RemoveElement
<1>2. SumOver(w, (S \ {e}) \cup {e}) = SumOver(w, S \ {e}) + w[e]
  BY <1>1, SumAdd
<1> QED
  BY <1>1, <1>2

(* Other names for the elements.                                           *)
LEMMA SumRenamed ==
  ASSUME NEW S, IsFiniteSet(S), NEW name, \A x, y \in S : name[x] = name[y] => x = y,
         NEW w, NEW v, \A x \in S : w[x] \in Int /\ v[name[x]] = w[x]
  PROVE  SumOver(v, {name[x] : x \in S}) = SumOver(w, S)
<1> DEFINE Names(T) == {name[x] : x \in T}
           Bad == {T \in SUBSET S : SumOver(v, Names(T)) # SumOver(w, T)}
<1> SUFFICES ASSUME Bad # {} PROVE FALSE
  OBVIOUS
<1>1. \A T \in Bad : IsFiniteSet(T)
  BY FS_Subset
<1>2. PICK T \in Bad : \A x \in T : T \ {x} \notin Bad
  BY <1>1, SmallestSet
<1>3. T # {}
  <2> SUFFICES ASSUME T = {} PROVE FALSE
    OBVIOUS
  <2>1. Names(T) = {}
    OBVIOUS
  <2> QED
    BY <2>1, SumEmpty
<1>4. PICK y \in T : TRUE
  BY <1>3
<1> DEFINE R == T \ {y}
<1>5. IsFiniteSet(T) /\ T \in SUBSET S /\ IsFiniteSet(R) /\ R \in SUBSET S
  BY <1>1, FS_RemoveElement
<1>6. SumOver(v, Names(R)) = SumOver(w, R)
  BY <1>2, <1>4
<1>7. SumOver(w, T) = SumOver(w, R) + w[y]
  BY <1>4, <1>5, SumTake
<1>8. /\ Names(T) = Names(R) \cup {name[y]} /\ name[y] \notin Names(R)
      /\ \A n \in Names(R) : v[n] \in Int
      /\ v[name[y]] \in Int
  BY <1>4, <1>5
<1>9. IsFiniteSet(Names(R))
  <2> DEFINE f == [x \in R |-> name[x]]
  <2>1. f \in Surjection(R, Names(R))
    BY DEF Surjection
  <2> QED
    BY <1>5, <2>1, FS_Surjection
<1> HIDE DEF Names, R
<1>10. SumOver(v, Names(R) \cup {name[y]}) = SumOver(v, Names(R)) + v[name[y]]
  BY <1>8, <1>9, SumAdd
<1>11. SumOver(v, Names(T)) = SumOver(w, T)
  BY <1>4, <1>5, <1>6, <1>7, <1>8, <1>10
<1> QED
  BY <1>2, <1>11

(* What consists of one, of b and of c for every element.                  *)
LEMMA SumOfParts ==
  ASSUME NEW S, IsFiniteSet(S), NEW a, NEW b, NEW c,
         \A x \in S : b[x] \in Int /\ c[x] \in Int /\ a[x] = 1 + b[x] + c[x]
  PROVE  SumOver(a, S) = Cardinality(S) + SumOver(b, S) + SumOver(c, S)
<1> DEFINE Adds(T) == SumOver(a, T) = Cardinality(T) + SumOver(b, T) + SumOver(c, T)
           Bad == {T \in SUBSET S : ~Adds(T)}
<1> SUFFICES ASSUME Bad # {} PROVE FALSE
  OBVIOUS
<1>1. \A T \in Bad : IsFiniteSet(T)
  BY FS_Subset
<1>2. PICK T \in Bad : \A x \in T : T \ {x} \notin Bad
  BY <1>1, SmallestSet
<1>3. T # {}
  <2> SUFFICES ASSUME T = {} PROVE FALSE
    OBVIOUS
  <2>1. Adds({})
    BY SumEmpty, FS_EmptySet
  <2> QED
    BY <2>1
<1>4. PICK y \in T : TRUE
  BY <1>3
<1> DEFINE R == T \ {y}
<1>5. IsFiniteSet(T) /\ T \in SUBSET S /\ IsFiniteSet(R) /\ R \in SUBSET S
  BY <1>1, FS_RemoveElement
<1>6. Adds(R)
  BY <1>2, <1>4
<1>7. Cardinality(R) = Cardinality(T) - 1 /\ Cardinality(T) \in Nat
  BY <1>4, <1>5, FS_RemoveElement, FS_CardinalityType
<1>8. \A x \in S : a[x] \in Int
  OBVIOUS
<1>9. /\ SumOver(a, T) = SumOver(a, R) + a[y] /\ SumOver(b, T) = SumOver(b, R) + b[y]
      /\ SumOver(c, T) = SumOver(c, R) + c[y]
  BY <1>4, <1>5, <1>8, SumTake
<1>10. SumOver(b, R) \in Int /\ SumOver(c, R) \in Int
  BY <1>5, SumInInt
<1>11. a[y] = 1 + b[y] + c[y] /\ b[y] \in Int /\ c[y] \in Int
  BY <1>4, <1>5
<1> HIDE DEF R
<1>12. Adds(T)
  BY <1>6, <1>7, <1>9, <1>10, <1>11
<1> QED
  BY <1>2, <1>12

-----------------------------------------------------------------------------
(* Sequences.                                                              *)

(* Removing position j keeps the other elements in their order.            *)
LEMMA RemoveAtProperties ==
  ASSUME NEW S, NEW s \in Seq(S), NEW j \in 1 .. Len(s)
  PROVE  /\ RemoveAt(s, j) \in Seq(S)
         /\ Len(RemoveAt(s, j)) = Len(s) - 1
         /\ \A n \in 1 .. Len(s) - 1 :
              RemoveAt(s, j)[n] = IF n < j THEN s[n] ELSE s[n + 1]
<1> DEFINE front == SubSeq(s, 1, j - 1)
           back == SubSeq(s, j + 1, Len(s))
<1>1. front \in Seq(S) /\ Len(front) = j - 1
  OBVIOUS
<1>2. back \in Seq(S) /\ Len(back) = Len(s) - j
  OBVIOUS
<1>3. \A n \in 1 .. j - 1 : front[n] = s[n]
  OBVIOUS
<1>4. \A n \in 1 .. Len(s) - j : back[n] = s[n + j]
  OBVIOUS
<1>5. RemoveAt(s, j) = front \o back
  BY DEF RemoveAt
<1> HIDE DEF front, back
<1>6. front \o back \in Seq(S) /\ Len(front \o back) = Len(s) - 1
  BY <1>1, <1>2
<1>7. ASSUME NEW n \in 1 .. Len(s) - 1
      PROVE  (front \o back)[n] = IF n < j THEN s[n] ELSE s[n + 1]
  <2>1. CASE n < j
    BY <2>1, <1>1, <1>2, <1>3
  <2>2. CASE ~(n < j)
    <3>1. (front \o back)[n] = back[n - (j - 1)]
      BY <2>2, <1>1, <1>2
    <3>2. n - (j - 1) \in 1 .. Len(s) - j
      BY <2>2
    <3> QED
      BY <2>2, <3>1, <3>2, <1>4
  <2> QED
    BY <2>1, <2>2
<1> QED
  BY <1>5, <1>6, <1>7

(* A sequence that is not empty has a head.                                  *)
LEMMA NonEmptyLength ==
  ASSUME NEW S, NEW s \in Seq(S)
  PROVE  s # <<>> <=> Len(s) > 0
OBVIOUS

-----------------------------------------------------------------------------
(* Filtered sequences.                                                     *)

(* f filters each prefix of s by S.                                        *)
Filters(f, s, S) ==
  f = [n \in 0 .. Len(s) |->
         IF n = 0 THEN <<>>
         ELSE IF s[n] \in S THEN Append(f[n - 1], s[n]) ELSE f[n - 1]]

LEMMA KeptIsFilter ==
  ASSUME NEW s, NEW S, \E f : Filters(f, s, S)
  PROVE  \E f : Filters(f, s, S) /\ Kept(s, S) = f[Len(s)]
<1> DEFINE kept[n \in 0 .. Len(s)] ==
      IF n = 0 THEN <<>>
      ELSE IF s[n] \in S THEN Append(kept[n - 1], s[n]) ELSE kept[n - 1]
<1>1. Filters(kept, s, S)
  BY DEF Filters
<1>2. Kept(s, S) = kept[Len(s)]
  BY DEF Kept
<1> QED
  BY <1>1, <1>2

LEMMA FilterExists ==
  ASSUME NEW T, NEW s \in Seq(T), NEW S
  PROVE  \E f : Filters(f, s, S)
<1> DEFINE Step(g, n) ==
             IF n = 0 THEN <<>>
             ELSE IF s[n] \in S THEN Append(g[n - 1], s[n]) ELSE g[n - 1]
           Good(g, n) == g = [m \in 0 .. n |-> Step(g, m)]
           Bad == {n \in Nat : ~ \E g : Good(g, n)}
<1>1. Bad = {}
  <2> SUFFICES ASSUME Bad # {} PROVE FALSE
    OBVIOUS
  <2>1. PICK n \in Bad : \A m \in Bad : n <= m
    BY LeastExists
  <2>2. CASE n = 0
    <3> DEFINE g == [m \in 0 .. 0 |-> <<>>]
    <3>1. \A m \in 0 .. 0 : Step(g, m) = <<>>
      OBVIOUS
    <3>2. g = [m \in 0 .. 0 |-> Step(g, m)]
      BY <3>1
    <3> QED
      BY <2>1, <2>2, <3>2
  <2>3. CASE n # 0
    <3> HIDE DEF Good
    <3>1. n - 1 \in Nat /\ n - 1 \notin Bad
      BY <2>1, <2>3
    <3>2. PICK g : Good(g, n - 1)
      BY <3>1
    <3> DEFINE h == [m \in 0 .. n |-> Step(g, m)]
    <3> HIDE DEF Step
    <3>3. \A m \in 0 .. n - 1 : h[m] = g[m]
      <4>1. g = [m \in 0 .. n - 1 |-> Step(g, m)]
        BY <3>2 DEF Good
      <4>2. \A m \in 0 .. n - 1 : m \in 0 .. n
        BY <2>1
      <4> QED
        BY <4>1, <4>2
    <3>4. \A m \in 0 .. n : m # 0 => h[m - 1] = g[m - 1]
      <4>1. \A m \in 0 .. n : m # 0 => m - 1 \in 0 .. n - 1
        BY <2>1
      <4> HIDE DEF h
      <4> QED
        BY <3>3, <4>1
    <3>5. \A m \in 0 .. n : Step(h, m) = Step(g, m)
      <4> HIDE DEF h
      <4> QED
        BY <3>4 DEF Step
    <3>6. h = [m \in 0 .. n |-> Step(h, m)]
      BY <3>5
    <3> HIDE DEF h
    <3>7. Good(h, n)
      BY <3>6 DEF Good
    <3> QED
      BY <2>1, <3>7
  <2> QED
    BY <2>2, <2>3
<1>2. Len(s) \in Nat
  OBVIOUS
<1> HIDE DEF Good
<1>3. PICK f : Good(f, Len(s))
  BY <1>1, <1>2
<1>4. Filters(f, s, S)
  BY <1>3 DEF Good, Filters
<1> QED
  BY <1>4

(* h embeds the sequence q in the first n elements of s, in their order,    *)
(* and hits those that belong to S.                                        *)
Embeds(h, q, s, n, S) ==
  /\ h \in [1 .. Len(q) -> 1 .. n]
  /\ \A j, k \in 1 .. Len(q) : j < k => h[j] < h[k]
  /\ \A k \in 1 .. Len(q) : q[k] = s[h[k]] /\ s[h[k]] \in S
  /\ \A m \in 1 .. n : s[m] \in S => \E k \in 1 .. Len(q) : h[k] = m

LEMMA EmbedNext ==
  ASSUME NEW T, NEW s \in Seq(T), NEW S, NEW n \in 1 .. Len(s),
         NEW q \in Seq(T), NEW h, Embeds(h, q, s, n - 1, S)
  PROVE  LET p == IF s[n] \in S THEN Append(q, s[n]) ELSE q
         IN  p \in Seq(T) /\ \E g : Embeds(g, p, s, n, S)
<1>1. s[n] \in T /\ Len(q) \in Nat /\ n \in Nat
  OBVIOUS
<1>2. CASE s[n] \notin S
  <2>1. h \in [1 .. Len(q) -> 1 .. n]
    BY <1>1 DEF Embeds
  <2>2. \A m \in 1 .. n : s[m] \in S => m \in 1 .. n - 1
    BY <1>1, <1>2
  <2>3. Embeds(h, q, s, n, S)
    BY <2>1, <2>2 DEF Embeds
  <2> QED
    BY <1>2, <2>3
<1>3. CASE s[n] \in S
  <2> DEFINE p == Append(q, s[n])
             g == [k \in 1 .. Len(p) |-> IF k = Len(p) THEN n ELSE h[k]]
  <2>1. /\ p \in Seq(T) /\ Len(p) = Len(q) + 1 /\ p[Len(p)] = s[n]
        /\ \A k \in 1 .. Len(q) : p[k] = q[k]
    BY <1>1
  <2> HIDE DEF p
  <2>2. \A k \in 1 .. Len(p) : k # Len(p) => k \in 1 .. Len(q)
    BY <1>1, <2>1
  <2>3. \A k \in 1 .. Len(q) : h[k] \in 1 .. n - 1 /\ h[k] \in 1 .. n /\ h[k] < n
    BY <1>1 DEF Embeds
  <2>4. /\ \A k \in 1 .. Len(q) : k \in 1 .. Len(p) /\ k # Len(p)
        /\ Len(p) \in 1 .. Len(p)
    BY <1>1, <2>1
  <2>5. g \in [1 .. Len(p) -> 1 .. n]
    BY <1>1, <2>2, <2>3
  <2>6. g[Len(p)] = n /\ \A k \in 1 .. Len(q) : g[k] = h[k]
    BY <2>4
  <2> HIDE DEF g
  <2>7. ASSUME NEW j \in 1 .. Len(p), NEW k \in 1 .. Len(p), j < k PROVE g[j] < g[k]
    <3>1. j # Len(p)
      BY <1>1, <2>1, <2>7
    <3>2. j \in 1 .. Len(q)
      BY <2>2, <3>1
    <3>3. CASE k = Len(p)
      BY <2>3, <2>6, <3>2, <3>3
    <3>4. CASE k # Len(p)
      BY <2>2, <2>6, <2>7, <3>2, <3>4 DEF Embeds
    <3> QED
      BY <3>3, <3>4
  <2>8. \A k \in 1 .. Len(p) : p[k] = s[g[k]] /\ s[g[k]] \in S
    BY <1>3, <2>1, <2>2, <2>6 DEF Embeds
  <2>9. ASSUME NEW m \in 1 .. n, s[m] \in S PROVE \E k \in 1 .. Len(p) : g[k] = m
    <3>1. CASE m = n
      BY <2>4, <2>6, <3>1
    <3>2. CASE m # n
      <4>1. m \in 1 .. n - 1
        BY <1>1, <3>2
      <4>2. PICK k \in 1 .. Len(q) : h[k] = m
        BY <2>9, <4>1 DEF Embeds
      <4> QED
        BY <2>4, <2>6, <4>2
    <3> QED
      BY <3>1, <3>2
  <2>10. Embeds(g, p, s, n, S)
    BY <2>5, <2>7, <2>8, <2>9 DEF Embeds
  <2> QED
    BY <1>3, <2>1, <2>10 DEF p
<1> QED
  BY <1>2, <1>3

(* Kept embeds in the sequence it is taken from.                           *)
LEMMA KeptEmbeds ==
  ASSUME NEW T, NEW s \in Seq(T), NEW S
  PROVE  Kept(s, S) \in Seq(T) /\ \E h : Embeds(h, Kept(s, S), s, Len(s), S)
<1>1. PICK f : Filters(f, s, S) /\ Kept(s, S) = f[Len(s)]
  BY FilterExists, KeptIsFilter
<1> DEFINE Good(n) == f[n] \in Seq(T) /\ \E h : Embeds(h, f[n], s, n, S)
           Bad == {n \in 0 .. Len(s) : ~Good(n)}
<1>2. Len(s) \in Nat /\ Bad \in SUBSET Nat
  OBVIOUS
<1> HIDE DEF Good
<1>3. Bad = {}
  <2> SUFFICES ASSUME Bad # {} PROVE FALSE
    OBVIOUS
  <2>1. PICK n \in Bad : \A m \in Bad : n <= m
    BY <1>2, LeastExists
  <2>2. CASE n = 0
    <3>1. f[0] = <<>>
      BY <1>1, <1>2 DEF Filters
    <3>2. <<>> \in Seq(T) /\ Len(<<>>) = 0 /\ 1 .. 0 = {}
      OBVIOUS
    <3> DEFINE h == [k \in 1 .. 0 |-> 0]
    <3>3. Embeds(h, <<>>, s, 0, S)
      BY <3>2 DEF Embeds
    <3>4. Good(0)
      BY <3>1, <3>2, <3>3 DEF Good
    <3> QED
      BY <2>1, <2>2, <3>4
  <2>3. CASE n # 0
    <3>1. n \in 1 .. Len(s) /\ n - 1 \in 0 .. Len(s) /\ ~(n <= n - 1)
      BY <1>2, <2>1, <2>3
    <3>2. Good(n - 1)
      BY <2>1, <3>1
    <3>3. f[n] = IF s[n] \in S THEN Append(f[n - 1], s[n]) ELSE f[n - 1]
      BY <1>1, <1>2, <2>1, <2>3 DEF Filters
    <3>4. Good(n)
      BY <3>1, <3>2, <3>3, EmbedNext DEF Good
    <3> QED
      BY <2>1, <3>4
  <2> QED
    BY <2>2, <2>3
<1>4. Good(Len(s))
  BY <1>2, <1>3
<1> QED
  BY <1>1, <1>4 DEF Good

LEMMA KeptIs ==
  ASSUME NEW T, NEW s \in Seq(T), NEW S
  PROVE  /\ Kept(s, S) \in Seq(T) /\ Len(Kept(s, S)) <= Len(s)
         /\ Range(Kept(s, S)) = Range(s) \cap S
         /\ IsInjective(s) => IsInjective(Kept(s, S))
<1> DEFINE q == Kept(s, S)
<1>1. PICK h : q \in Seq(T) /\ Embeds(h, q, s, Len(s), S)
  BY KeptEmbeds
<1> HIDE DEF q
<1>2. /\ Len(q) \in Nat /\ Len(s) \in Nat
      /\ DOMAIN q = 1 .. Len(q) /\ DOMAIN s = 1 .. Len(s)
  BY <1>1
<1>3. Range(q) = Range(s) \cap S
  <2>1. ASSUME NEW k \in 1 .. Len(q)
        PROVE  q[k] \in Range(s) \cap S
    BY <1>1, <1>2, <2>1 DEF Range, Embeds
  <2>2. ASSUME NEW m \in 1 .. Len(s), s[m] \in S
        PROVE  s[m] \in Range(q)
    <3>1. PICK k \in 1 .. Len(q) : h[k] = m
      BY <1>1, <2>2 DEF Embeds
    <3> QED
      BY <1>1, <1>2, <3>1 DEF Range, Embeds
  <2> QED
    BY <1>2, <2>1, <2>2 DEF Range
<1>4. \A j, k \in 1 .. Len(q) : j # k => h[j] # h[k]
  <2>1. \A k \in 1 .. Len(q) : h[k] \in Int
    BY <1>1, <1>2 DEF Embeds
  <2> QED
    BY <1>1, <1>2, <2>1 DEF Embeds
<1>5. IsInjective(s) => IsInjective(q)
  BY <1>1, <1>2, <1>4 DEF IsInjective, Embeds
<1>6. Len(q) <= Len(s)
  <2>1. h \in Injection(1 .. Len(q), 1 .. Len(s))
    BY <1>1, <1>4 DEF Injection, IsInjective, Embeds
  <2>2. \A n \in Nat : IsFiniteSet(1 .. n) /\ Cardinality(1 .. n) = n
    BY FS_Interval
  <2>3. IsFiniteSet(1 .. Len(s))
    BY <1>2, <2>2
  <2>4. Cardinality(1 .. Len(q)) <= Cardinality(1 .. Len(s))
    BY <2>1, <2>3, FS_Injection
  <2> QED
    BY <1>2, <2>2, <2>4
<1> QED
  BY <1>1, <1>3, <1>5, <1>6 DEF q

(* What is kept comes in the order in which it was.                        *)
LEMMA KeptOrder ==
  ASSUME NEW T, NEW s \in Seq(T), NEW S,
         NEW j \in 1 .. Len(Kept(s, S)), NEW k \in 1 .. Len(Kept(s, S)), j < k
  PROVE  \E m, n \in 1 .. Len(s) :
           m < n /\ Kept(s, S)[j] = s[m] /\ Kept(s, S)[k] = s[n]
<1> DEFINE q == Kept(s, S)
<1>1. PICK h : q \in Seq(T) /\ Embeds(h, q, s, Len(s), S)
  BY KeptEmbeds
<1> HIDE DEF q
<1>2. j \in 1 .. Len(q) /\ k \in 1 .. Len(q)
  BY DEF q
<1>3. /\ h[j] \in 1 .. Len(s) /\ h[k] \in 1 .. Len(s) /\ h[j] < h[k]
      /\ q[j] = s[h[j]] /\ q[k] = s[h[k]]
  BY <1>1, <1>2 DEF Embeds
<1> QED
  BY <1>3 DEF q

-----------------------------------------------------------------------------
(* Sequences made of sets, and one after the other.                        *)

LEMMA SequenceOf ==
  ASSUME NEW S, IsFiniteSet(S)
  PROVE  /\ SetToSeq(S) \in Seq(S) /\ Len(SetToSeq(S)) = Cardinality(S)
         /\ Range(SetToSeq(S)) = S
         /\ IsInjective(SetToSeq(S))
<1>1. Cardinality(S) \in Nat /\ ExistsBijection(1 .. Cardinality(S), S)
  BY FS_CardinalityType
<1>2. \E f \in [1 .. Cardinality(S) -> S] : IsInjective(f)
  BY <1>1 DEF ExistsBijection, Bijection, Injection
<1> DEFINE q == SetToSeq(S)
<1>3. q \in [1 .. Cardinality(S) -> S] /\ IsInjective(q)
  BY <1>2 DEF SetToSeq
<1> HIDE DEF q
<1>4. q \in Seq(S) /\ Len(q) = Cardinality(S)
  BY <1>1, <1>3
<1>5. q \in Injection(1 .. Cardinality(S), S)
  BY <1>3 DEF Injection
<1>6. Cardinality(1 .. Cardinality(S)) = Cardinality(S)
  BY <1>1, FS_Interval
<1>7. q \in Surjection(1 .. Cardinality(S), S)
  BY <1>5, <1>6, FS_Injection
<1>8. Range(q) = S
  <2>1. \A y \in S : \E k \in 1 .. Cardinality(S) : q[k] = y
    BY <1>7 DEF Surjection
  <2> QED
    BY <1>3, <2>1 DEF Range
<1> QED
  BY <1>3, <1>4, <1>8 DEF q

LEMMA Concatenated ==
  ASSUME NEW T, NEW s \in Seq(T), NEW t \in Seq(T)
  PROVE  /\ s \o t \in Seq(T) /\ Range(s \o t) = Range(s) \cup Range(t)
         /\ IsInjective(s) /\ IsInjective(t) /\ Range(s) \cap Range(t) = {}
              => IsInjective(s \o t)
<1> DEFINE q == s \o t
<1>1. /\ q \in Seq(T) /\ Len(q) = Len(s) + Len(t)
      /\ \A n \in 1 .. Len(s) : q[n] = s[n]
      /\ \A n \in 1 .. Len(t) : q[Len(s) + n] = t[n]
  OBVIOUS
<1> HIDE DEF q
<1>2. /\ Len(s) \in Nat /\ Len(t) \in Nat
      /\ DOMAIN q = 1 .. Len(q) /\ DOMAIN s = 1 .. Len(s) /\ DOMAIN t = 1 .. Len(t)
  BY <1>1
<1>3. \A n \in 1 .. Len(q) :
        \/ n \in 1 .. Len(s) /\ q[n] = s[n]
        \/ n - Len(s) \in 1 .. Len(t) /\ q[n] = t[n - Len(s)]
  <2> TAKE n \in 1 .. Len(q)
  <2>1. CASE n <= Len(s)
    <3>1. n \in 1 .. Len(s)
      BY <1>1, <1>2, <2>1
    <3> QED
      BY <1>1, <3>1
  <2>2. CASE ~(n <= Len(s))
    <3>1. n - Len(s) \in 1 .. Len(t) /\ Len(s) + (n - Len(s)) = n
      BY <1>1, <1>2, <2>2
    <3> QED
      BY <1>1, <3>1
  <2> QED
    BY <2>1, <2>2
<1>4. Range(q) = Range(s) \cup Range(t)
  <2>1. \A n \in 1 .. Len(q) : q[n] \in Range(s) \cup Range(t)
    BY <1>2, <1>3 DEF Range
  <2>2. \A n \in 1 .. Len(s) : n \in 1 .. Len(q)
    BY <1>1, <1>2
  <2>3. \A n \in 1 .. Len(t) : Len(s) + n \in 1 .. Len(q)
    BY <1>1, <1>2
  <2>4. Range(s) \subseteq Range(q)
    BY <1>1, <1>2, <2>2 DEF Range
  <2>5. \A n \in 1 .. Len(t) : t[n] \in Range(q)
    BY <1>1, <1>2, <2>3 DEF Range
  <2>6. Range(t) \subseteq Range(q) /\ Range(q) \subseteq Range(s) \cup Range(t)
    BY <1>2, <2>1, <2>5 DEF Range
  <2> QED
    BY <2>4, <2>6
<1>5. ASSUME IsInjective(s), IsInjective(t), Range(s) \cap Range(t) = {},
             NEW m \in 1 .. Len(q), NEW n \in 1 .. Len(q), q[m] = q[n]
      PROVE  m = n
  <2>1. CASE m \in 1 .. Len(s) /\ q[m] = s[m] /\ n \in 1 .. Len(s) /\ q[n] = s[n]
    BY <1>2, <1>5, <2>1 DEF IsInjective
  <2>2. CASE /\ m - Len(s) \in 1 .. Len(t) /\ q[m] = t[m - Len(s)]
             /\ n - Len(s) \in 1 .. Len(t) /\ q[n] = t[n - Len(s)]
    <3>1. m - Len(s) = n - Len(s)
      BY <1>2, <1>5, <2>2 DEF IsInjective
    <3> QED
      BY <1>1, <1>2, <3>1
  <2>3. ASSUME NEW a \in 1 .. Len(s), NEW b \in 1 .. Len(t), s[a] = t[b] PROVE FALSE
    BY <1>2, <1>5, <2>3 DEF Range
  <2> QED
    BY <1>3, <1>5, <2>1, <2>2, <2>3
<1> QED
  BY <1>1, <1>4, <1>5, <1>2 DEF IsInjective, q

(* The first element leaves.                                               *)
LEMMA TailIs ==
  ASSUME NEW T, NEW s \in Seq(T), s # <<>>
  PROVE  /\ Tail(s) \in Seq(T) /\ Head(s) \in T
         /\ Range(s) = {Head(s)} \cup Range(Tail(s))
         /\ IsInjective(s) => IsInjective(Tail(s)) /\ Head(s) \notin Range(Tail(s))
<1> DEFINE t == Tail(s)
<1>1. /\ t \in Seq(T) /\ Len(s) \in Nat /\ Len(s) > 0 /\ Len(t) = Len(s) - 1
      /\ Head(s) = s[1] /\ s[1] \in T
      /\ \A n \in 1 .. Len(s) - 1 : t[n] = s[n + 1]
  OBVIOUS
<1> HIDE DEF t
<1>2. DOMAIN s = 1 .. Len(s) /\ DOMAIN t = 1 .. Len(t)
  BY <1>1
<1>3. /\ \A n \in 1 .. Len(t) : n + 1 \in 1 .. Len(s) /\ n + 1 # 1 /\ t[n] = s[n + 1]
      /\ \A m \in 1 .. Len(s) : m = 1 \/ (m - 1 \in 1 .. Len(t) /\ s[m] = t[m - 1])
      /\ 1 \in 1 .. Len(s)
  <2>1. ASSUME NEW m \in 1 .. Len(s), m # 1
        PROVE  m - 1 \in 1 .. Len(t) /\ s[m] = t[m - 1]
    <3>1. m - 1 \in 1 .. Len(s) - 1 /\ (m - 1) + 1 = m
      BY <1>1, <2>1
    <3> QED
      BY <1>1, <3>1
  <2> QED
    BY <1>1, <2>1
<1>4. Range(s) = {Head(s)} \cup Range(t)
  <2>1. \A m \in 1 .. Len(s) : s[m] \in {Head(s)} \cup Range(t)
    BY <1>1, <1>2, <1>3 DEF Range
  <2>2. Head(s) \in Range(s) /\ \A n \in 1 .. Len(t) : t[n] \in Range(s)
    BY <1>1, <1>2, <1>3 DEF Range
  <2> QED
    BY <1>2, <2>1, <2>2 DEF Range
<1>5. ASSUME IsInjective(s)
      PROVE  IsInjective(t) /\ Head(s) \notin Range(t)
  <2>1. ASSUME NEW m \in 1 .. Len(t), NEW n \in 1 .. Len(t), t[m] = t[n] PROVE m = n
    <3>1. m + 1 \in DOMAIN s /\ n + 1 \in DOMAIN s /\ s[m + 1] = s[n + 1]
      BY <1>2, <1>3, <2>1
    <3> DEFINE a == m + 1
               b == n + 1
    <3>2. a \in DOMAIN s /\ b \in DOMAIN s /\ s[a] = s[b]
      BY <3>1
    <3> HIDE DEF a, b
    <3>3. a = b
      BY <1>5, <3>2 DEF IsInjective
    <3> QED
      BY <1>1, <3>3 DEF a, b
  <2>2. \A n \in 1 .. Len(t) : t[n] # s[1]
    BY <1>2, <1>3, <1>5 DEF IsInjective
  <2> QED
    BY <1>1, <1>2, <2>1, <2>2 DEF IsInjective, Range
<1> QED
  BY <1>1, <1>4, <1>5 DEF t
=============================================================================
