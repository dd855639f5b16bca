---------------------------- MODULE QueueLemmas ----------------------------
(***************************************************************************)
(* What the sequence operators that LRUQueue and BufferPool use do to a    *)
(* sequence without duplicates: which elements it has afterwards, and that *)
(* it still has no duplicates.                                             *)
(*                                                                         *)
(* And the two facts about the naturals that the walks along the lists of  *)
(* LRUReplacer and HeapTable need: induction, stated of a set instead of a *)
(* formula (NatInd), and that a function can be iterated (Iteration).      *)
(***************************************************************************)
EXTENDS Integers, Sequences, SequencesExt, FiniteSets, FiniteSetTheorems,
        SequenceTheorems, WellFoundedInduction, TLAPS

(* Dropping the first element, as free_frames.pop_front does.              *)
LEMMA TailProps ==
  ASSUME NEW S, NEW q \in Seq(S), q # <<>>, IsInjective(q)
  PROVE  /\ Head(q) \in S
         /\ Tail(q) \in Seq(S)
         /\ IsInjective(Tail(q))
         /\ Contains(q, Head(q))
         /\ \A x : Contains(Tail(q), x) <=> Contains(q, x) /\ x # Head(q)
<1>1. /\ Len(q) \in Nat \ {0}
      /\ Head(q) = q[1]
      /\ Head(q) \in S
      /\ Tail(q) \in Seq(S)
      /\ Len(Tail(q)) = Len(q) - 1
      /\ \A i \in 1 .. Len(Tail(q)) : Tail(q)[i] = q[i + 1]
  BY HeadTailProperties, LenProperties, EmptySeq
<1>2. DOMAIN q = 1 .. Len(q) /\ DOMAIN Tail(q) = 1 .. Len(Tail(q))
  BY <1>1, LenProperties
<1>3. IsInjective(Tail(q))
  BY <1>1, <1>2 DEF IsInjective
<1>4. Contains(q, Head(q))
  BY <1>1 DEF Contains
<1>5. ASSUME NEW x
      PROVE  Contains(Tail(q), x) <=> Contains(q, x) /\ x # Head(q)
  <2>1. ASSUME Contains(Tail(q), x)
        PROVE  Contains(q, x) /\ x # Head(q)
    <3>1. PICK i \in 1 .. Len(Tail(q)) : Tail(q)[i] = x
      BY <2>1 DEF Contains
    <3>2. i + 1 \in 1 .. Len(q) /\ q[i + 1] = x
      BY <3>1, <1>1
    <3> QED BY <3>1, <3>2, <1>1, <1>2 DEF Contains, IsInjective
  <2>2. ASSUME Contains(q, x), x # Head(q)
        PROVE  Contains(Tail(q), x)
    <3>1. PICK i \in 1 .. Len(q) : q[i] = x
      BY <2>2 DEF Contains
    <3>2. i # 1
      BY <3>1, <2>2, <1>1
    <3>3. i - 1 \in 1 .. Len(Tail(q)) /\ Tail(q)[i - 1] = x
      BY <3>1, <3>2, <1>1
    <3> QED BY <3>3 DEF Contains
  <2> QED BY <2>1, <2>2
<1> QED BY <1>1, <1>3, <1>4, <1>5

(* Dropping the last element, as LRUReplacer::Victim does.                 *)
LEMMA FrontProps ==
  ASSUME NEW S, NEW q \in Seq(S), q # <<>>, IsInjective(q)
  PROVE  /\ Last(q) \in S
         /\ Front(q) \in Seq(S)
         /\ IsInjective(Front(q))
         /\ Contains(q, Last(q))
         /\ \A x : Contains(Front(q), x) <=> Contains(q, x) /\ x # Last(q)
<1>1. Len(q) \in Nat \ {0} /\ DOMAIN q = 1 .. Len(q)
  BY LenProperties, EmptySeq
<1>2. \A i \in 1 .. Len(q) : q[i] \in S
  BY ElementOfSeq
<1>3. Last(q) \in S /\ Contains(q, Last(q))
  BY <1>1, <1>2 DEF Last, Contains
<1>4. /\ Front(q) \in Seq(S)
      /\ Len(Front(q)) = Len(q) - 1
      /\ \A i \in 1 .. Len(q) - 1 : Front(q)[i] = q[i]
  BY <1>1, SubSeqProperties DEF Front
<1>5. DOMAIN Front(q) = 1 .. Len(q) - 1
  BY <1>4, LenProperties
<1>6. IsInjective(Front(q))
  BY <1>1, <1>4, <1>5 DEF IsInjective
<1>7. ASSUME NEW x
      PROVE  Contains(Front(q), x) <=> Contains(q, x) /\ x # Last(q)
  <2>1. ASSUME Contains(Front(q), x)
        PROVE  Contains(q, x) /\ x # Last(q)
    <3>1. PICK i \in 1 .. Len(q) - 1 : q[i] = x
      BY <2>1, <1>4 DEF Contains
    <3> QED BY <3>1, <1>1 DEF Contains, Last, IsInjective
  <2>2. ASSUME Contains(q, x), x # Last(q)
        PROVE  Contains(Front(q), x)
    <3>1. PICK i \in 1 .. Len(q) : q[i] = x
      BY <2>2 DEF Contains
    <3>2. i \in 1 .. Len(q) - 1
      BY <3>1, <2>2, <1>1 DEF Last
    <3> QED BY <3>1, <3>2, <1>4 DEF Contains
  <2> QED BY <2>1, <2>2
<1> QED BY <1>3, <1>4, <1>6, <1>7

(* The length of what is right of position k, as SubSeqProperties gives it. *)
LEMMA UpToEnd ==
  ASSUME NEW n \in Nat, NEW k \in 1 .. n
  PROVE  (IF k + 1 <= n THEN n - (k + 1) + 1 ELSE 0) = n - k
OBVIOUS

(* Dropping an element wherever it is, as LRUReplacer::Pin does: those     *)
(* behind it move up by one.                                               *)
LEMMA RemoveFirstAt ==
  ASSUME NEW S, NEW q \in Seq(S), IsInjective(q), NEW k \in 1 .. Len(q), NEW e, e = q[k]
  PROVE  /\ RemoveFirst(q, e) \in Seq(S)
         /\ RemoveFirst(q, e) = [i \in 1 .. Len(q) - 1 |-> IF i < k THEN q[i] ELSE q[i + 1]]
<1>1. Len(q) \in Nat /\ DOMAIN q = 1 .. Len(q)
  BY LenProperties
<1> DEFINE I == {i \in 1 .. Len(q) : q[i] = e}
<1>2. I = {k}
  BY <1>1 DEF IsInjective
<1>3. SelectInSeq(q, LAMBDA v : v = e) = k
  <2>1. Min(I) = k
    BY <1>1, <1>2 DEF Min
  <2> QED BY <2>1, <1>2 DEF SelectInSeq
<1> DEFINE left == SubSeq(q, 1, k - 1)
           right == SubSeq(q, k + 1, Len(q))
           r == left \o right
<1>4. RemoveFirst(q, e) = r
  BY <1>1, <1>3 DEF RemoveFirst, RemoveAt
<1>5. /\ left \in Seq(S) /\ Len(left) = k - 1
      /\ \A i \in 1 .. k - 1 : left[i] = q[i]
  BY <1>1, SubSeqProperties
<1>6. /\ right \in Seq(S) /\ Len(right) = Len(q) - k
      /\ \A i \in 1 .. Len(q) - k : right[i] = q[k + i]
  <2>1. k + 1 \in 1 .. Len(q) + 1 /\ Len(q) \in k .. Len(q)
    BY <1>1
  <2>2. /\ right \in Seq(S)
        /\ Len(right) = IF k + 1 <= Len(q) THEN Len(q) - (k + 1) + 1 ELSE 0
        /\ \A i \in 1 .. Len(q) - (k + 1) + 1 : right[i] = q[(k + 1) + i - 1]
    BY <2>1, SubSeqProperties
  <2> HIDE DEF right
  <2>3. Len(right) = Len(q) - k
    BY <2>2, UpToEnd, LenProperties
  <2>4. ASSUME NEW i \in 1 .. Len(q) - k
        PROVE  right[i] = q[k + i]
    <3>1. i \in 1 .. Len(q) - (k + 1) + 1 /\ (k + 1) + i - 1 = k + i
      BY <1>1
    <3> QED BY <3>1, <2>2
  <2> QED BY <2>2, <2>3, <2>4
<1>7. /\ r \in Seq(S) /\ Len(r) = Len(left) + Len(right)
      /\ \A i \in 1 .. Len(left) + Len(right) :
           r[i] = IF i <= Len(left) THEN left[i] ELSE right[i - Len(left)]
  BY <1>5, <1>6, ConcatProperties
<1> HIDE DEF left, right, r
<1>8. Len(r) = Len(q) - 1 /\ DOMAIN r = 1 .. Len(q) - 1
  <2>1. Len(r) = Len(q) - 1
    BY <1>5, <1>6, <1>7, <1>1
  <2> QED BY <2>1, <1>7, LenProperties
<1>9. \A i \in 1 .. Len(q) - 1 : r[i] = IF i < k THEN q[i] ELSE q[i + 1]
  <2> TAKE i \in 1 .. Len(q) - 1
  <2> DEFINE m == Len(left)
             n == Len(right)
  <2>0. m = k - 1 /\ n = Len(q) - k /\ i \in 1 .. m + n
    BY <1>5, <1>6, <1>1
  <2>a. r[i] = IF i <= m THEN left[i] ELSE right[i - m]
    BY <2>0, <1>7
  <2> HIDE DEF m, n
  <2>1. CASE i < k
    <3>1. i \in 1 .. k - 1 /\ i <= m
      BY <2>0, <2>1, <1>1
    <3> QED BY <3>1, <2>a, <2>1, <1>5
  <2>2. CASE i >= k
    <3>1. r[i] = right[i - (k - 1)]
      <4>1. ~(i <= m)
        BY <2>0, <2>2, <1>1
      <4> QED BY <4>1, <2>0, <2>a
    <3>2. i - (k - 1) \in 1 .. Len(q) - k /\ k + (i - (k - 1)) = i + 1
      BY <2>2, <1>1
    <3>3. right[i - (k - 1)] = q[k + (i - (k - 1))]
      BY <3>2, <1>6
    <3> QED BY <3>1, <3>2, <3>3, <2>2, <1>1
  <2> QED BY <2>1, <2>2, <1>1
<1>10. r = [i \in 1 .. Len(q) - 1 |-> r[i]]
  BY <1>7, <1>8, LenProperties
<1> QED BY <1>4, <1>7, <1>9, <1>10

(* Its elements afterwards, whether it was there or not.                   *)
LEMMA RemoveFirstProps ==
  ASSUME NEW S, NEW q \in Seq(S), IsInjective(q), NEW e
  PROVE  /\ RemoveFirst(q, e) \in Seq(S)
         /\ IsInjective(RemoveFirst(q, e))
         /\ \A x : Contains(RemoveFirst(q, e), x) <=> Contains(q, x) /\ x # e
<1>1. Len(q) \in Nat /\ DOMAIN q = 1 .. Len(q)
  BY LenProperties
<1>2. CASE ~Contains(q, e)
  BY <1>2 DEF Contains, RemoveFirst
<1>3. CASE Contains(q, e)
  <2> DEFINE r == RemoveFirst(q, e)
  <2>1. PICK k \in 1 .. Len(q) : q[k] = e
    BY <1>3 DEF Contains
  <2>2. r \in Seq(S) /\ r = [i \in 1 .. Len(q) - 1 |-> IF i < k THEN q[i] ELSE q[i + 1]]
    BY <2>1, RemoveFirstAt
  <2> HIDE DEF r
  <2>3. Len(r) = Len(q) - 1 /\ DOMAIN r = 1 .. Len(q) - 1
    BY <2>2, <1>1, LenProperties
  <2>4. \A i \in 1 .. Len(q) - 1 : r[i] = IF i < k THEN q[i] ELSE q[i + 1]
    BY <2>2
  <2>5. IsInjective(r)
    <3> SUFFICES ASSUME NEW i \in 1 .. Len(q) - 1, NEW j \in 1 .. Len(q) - 1, r[i] = r[j]
                 PROVE  i = j
      BY <2>3 DEF IsInjective
    <3> DEFINE at(n) == IF n < k THEN n ELSE n + 1
    <3>1. at(i) \in DOMAIN q /\ at(j) \in DOMAIN q /\ q[at(i)] = q[at(j)]
      BY <2>4, <1>1
    <3>2. at(i) = at(j)
      BY <3>1 DEF IsInjective
    <3> QED BY <3>2
  <2>6. ASSUME NEW x
         PROVE  Contains(r, x) <=> Contains(q, x) /\ x # e
    <3>1. ASSUME Contains(r, x)
          PROVE  Contains(q, x) /\ x # e
      <4>1. PICK i \in 1 .. Len(q) - 1 : r[i] = x
        BY <3>1, <2>3 DEF Contains
      <4>2. PICK j \in 1 .. Len(q) : j # k /\ q[j] = x
        BY <4>1, <2>4, <1>1
      <4> QED BY <4>2, <2>1, <1>1 DEF Contains, IsInjective
    <3>2. ASSUME Contains(q, x), x # e
          PROVE  Contains(r, x)
      <4>1. PICK j \in 1 .. Len(q) : q[j] = x
        BY <3>2 DEF Contains
      <4>2. j # k
        BY <4>1, <3>2, <2>1
      <4>3. PICK i \in 1 .. Len(q) - 1 : r[i] = x
        <5>1. CASE j < k
          BY <5>1, <4>1, <2>4, <1>1
        <5>2. CASE j > k
          <6>1. j - 1 \in 1 .. Len(q) - 1 /\ r[j - 1] = q[j]
            BY <5>2, <2>4, <1>1
          <6> QED BY <6>1, <4>1
        <5> QED BY <5>1, <5>2, <4>2
      <4> QED BY <4>3, <2>3 DEF Contains
    <3> QED BY <3>1, <3>2
  <2> QED BY <2>2, <2>5, <2>6 DEF r
<1> QED BY <1>2, <1>3

(* Putting an element in front, as LRUReplacer::Unpin does.                *)
LEMMA ConsProps ==
  ASSUME NEW S, NEW q \in Seq(S), IsInjective(q), NEW e \in S, ~Contains(q, e)
  PROVE  /\ Cons(e, q) \in Seq(S)
         /\ IsInjective(Cons(e, q))
         /\ \A x : Contains(Cons(e, q), x) <=> Contains(q, x) \/ x = e
<1> DEFINE r == <<e>> \o q
<1>1. Len(q) \in Nat /\ DOMAIN q = 1 .. Len(q)
  BY LenProperties
<1>2. <<e>> \in Seq(S) /\ Len(<<e>>) = 1 /\ <<e>>[1] = e
  OBVIOUS
<1>3. /\ r \in Seq(S)
      /\ Len(r) = 1 + Len(q)
      /\ \A i \in 1 .. 1 + Len(q) : r[i] = IF i = 1 THEN e ELSE q[i - 1]
  BY <1>1, <1>2, ConcatProperties
<1>4. DOMAIN r = 1 .. 1 + Len(q)
  BY <1>3, LenProperties
<1>5. Cons(e, q) = r
  BY DEF Cons
<1> HIDE DEF r
<1>6. \A j \in 1 .. Len(q) : q[j] # e
  BY DEF Contains
<1>7. IsInjective(r)
  <2> SUFFICES ASSUME NEW i \in 1 .. 1 + Len(q), NEW j \in 1 .. 1 + Len(q), r[i] = r[j]
               PROVE  i = j
    BY <1>4 DEF IsInjective
  <2>1. CASE i = 1 \/ j = 1
    BY <2>1, <1>1, <1>3, <1>6
  <2>2. CASE i # 1 /\ j # 1
    <3>1. i - 1 \in DOMAIN q /\ j - 1 \in DOMAIN q /\ q[i - 1] = q[j - 1]
      BY <2>2, <1>1, <1>3
    <3>2. i - 1 = j - 1
      BY <3>1 DEF IsInjective
    <3> QED BY <3>2
  <2> QED BY <2>1, <2>2
<1>8. ASSUME NEW x
      PROVE  Contains(r, x) <=> Contains(q, x) \/ x = e
  <2>1. ASSUME Contains(r, x)
        PROVE  Contains(q, x) \/ x = e
    <3>1. PICK i \in 1 .. 1 + Len(q) : r[i] = x
      BY <2>1, <1>3 DEF Contains
    <3> QED BY <3>1, <1>1, <1>3 DEF Contains
  <2>2. ASSUME x = e
        PROVE  Contains(r, x)
    BY <2>2, <1>1, <1>3 DEF Contains
  <2>3. ASSUME Contains(q, x)
        PROVE  Contains(r, x)
    <3>1. PICK i \in 1 .. Len(q) : q[i] = x
      BY <2>3 DEF Contains
    <3>2. i + 1 \in 1 .. 1 + Len(q) /\ r[i + 1] = x
      BY <3>1, <1>1, <1>3
    <3> QED BY <3>2, <1>3 DEF Contains
  <2> QED BY <2>1, <2>2, <2>3
<1> QED BY <1>3, <1>5, <1>7, <1>8

(* A sequence of distinct elements of a finite set that misses one of them *)
(* is shorter than the set is large: the replacer never is at its capacity *)
(* when the pool unpins a frame.                                           *)
LEMMA MissingOneIsShorter ==
  ASSUME NEW S, IsFiniteSet(S), NEW q \in Seq(S), IsInjective(q),
         NEW e \in S, ~Contains(q, e)
  PROVE  Len(q) < Cardinality(S)
<1>1. Len(q) \in Nat /\ q \in [1 .. Len(q) -> S]
  BY LenProperties
<1>2. \A i \in 1 .. Len(q) : q[i] \in S \ {e}
  BY <1>1 DEF Contains
<1>3. q \in Injection(1 .. Len(q), S \ {e})
  BY <1>1, <1>2 DEF Injection
<1>4. /\ IsFiniteSet(S \ {e})
      /\ Cardinality(S \ {e}) = Cardinality(S) - 1
  BY FS_RemoveElement
<1>5. Cardinality(1 .. Len(q)) <= Cardinality(S \ {e})
  BY <1>3, <1>4, FS_Injection
<1>6. Cardinality(1 .. Len(q)) = Len(q)
  BY <1>1, FS_Interval
<1>7. Cardinality(S) \in Nat
  BY FS_CardinalityType
<1> QED BY <1>1, <1>4, <1>5, <1>6, <1>7

(* Induction over the naturals, as a fact about a set.                     *)
LEMMA NatInd ==
  ASSUME NEW T, 0 \in T, \A n \in Nat : n \in T => n + 1 \in T
  PROVE  Nat \subseteq T
<1> DEFINE U == Nat \ T
<1>1. SUFFICES ASSUME U # {}
               PROVE  FALSE
  OBVIOUS
<1>2. PICK x \in U : \A y \in U : <<y, x>> \notin OpToRel(<, Nat)
  BY <1>1, WFMin, NatLessThanWellFounded
<1>3. \A y \in U : ~(y < x)
  BY <1>2 DEF OpToRel
<1>4. x # 0 /\ x - 1 \in Nat
  OBVIOUS
<1>5. x - 1 \in U /\ x - 1 < x
  BY <1>4
<1> QED BY <1>3, <1>5

(* A function on a set can be iterated from any element: the recursive     *)
(* functions that follow a pointer n times exist.                          *)
Iterates(g, x, G) == g[0] = x /\ \A n \in Nat : g[n + 1] = G[g[n]]

LEMMA Iteration ==
  ASSUME NEW S, NEW x \in S, NEW G \in [S -> S]
  PROVE  \E g \in [Nat -> S] : Iterates(g, x, G)
<1> DEFINE Starts(h, n) == /\ h \in [0 .. n -> S] /\ h[0] = x
                           /\ \A i \in 0 .. n - 1 : h[i + 1] = G[h[i]]
           T == {n \in Nat : \E h : Starts(h, n)}
           h0 == [i \in 0 .. 0 |-> x]
<1>1. 0 \in T
  <2>1. Starts(h0, 0)
    OBVIOUS
  <2> QED BY <2>1
<1>2. ASSUME NEW n \in Nat, n \in T
      PROVE  n + 1 \in T
  <2>1. PICK h : Starts(h, n)
    BY <1>2
  <2> DEFINE h2 == [i \in 0 .. n + 1 |-> IF i = n + 1 THEN G[h[n]] ELSE h[i]]
  <2>2. Starts(h2, n + 1)
    BY <2>1
  <2> HIDE DEF Starts, h2
  <2> QED BY <2>2
<1>3. Nat \subseteq T
  <2> HIDE DEF T
  <2> QED BY <1>1, <1>2, NatInd
<1> DEFINE H(n) == CHOOSE h : Starts(h, n)
           g == [n \in Nat |-> H(n)[n]]
<1>4. ASSUME NEW n \in Nat
      PROVE  Starts(H(n), n)
  <2> HIDE DEF Starts
  <2> QED BY <1>3
<1> HIDE DEF H
<1>5. ASSUME NEW n \in Nat
      PROVE  H(n + 1)[n] = H(n)[n]
  <2> DEFINE V == {m \in Nat : m <= n => H(n + 1)[m] = H(n)[m]}
  <2>1. Starts(H(n), n) /\ Starts(H(n + 1), n + 1)
    BY <1>4
  <2>2. 0 \in V
    BY <2>1
  <2>3. ASSUME NEW m \in Nat, m \in V
        PROVE  m + 1 \in V
    <3> SUFFICES ASSUME m + 1 <= n
                 PROVE  H(n + 1)[m + 1] = H(n)[m + 1]
      OBVIOUS
    <3>1. m \in 0 .. n - 1 /\ m \in 0 .. (n + 1) - 1
      OBVIOUS
    <3> QED BY <2>1, <2>3, <3>1
  <2>4. Nat \subseteq V
    <3> HIDE DEF V
    <3> QED BY <2>2, <2>3, NatInd
  <2> QED BY <2>4
<1>6. g \in [Nat -> S]
  BY <1>4
<1>7. g[0] = x
  BY <1>4
<1>8. ASSUME NEW n \in Nat
      PROVE  g[n + 1] = G[g[n]]
  <2>1. n \in 0 .. (n + 1) - 1
    OBVIOUS
  <2>2. H(n + 1)[n + 1] = G[H(n + 1)[n]]
    BY <1>4, <2>1
  <2> QED BY <2>2, <1>5
<1> HIDE DEF g
<1> QED BY <1>6, <1>7, <1>8 DEF Iterates
=============================================================================
