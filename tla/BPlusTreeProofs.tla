-------------------------- MODULE BPlusTreeProofs --------------------------
(***************************************************************************)
(* Proofs about BPlusTree, for every fan-out, set of keys, pool and file.  *)
(*                                                                         *)
(* The inductive invariant IInv has a part for each thing a step relies    *)
(* on: what the pages contain (PagesInv), what the parent pointers lead to *)
(* (ParentsInv), what is left to do and in which order (StackInv), the     *)
(* pins that statements will give back (PinsInv) and the changes that wait *)
(* to be declared (DirtyInv).  The searches and the insertions into a node *)
(* come first, then the sequence `stack`, then one lemma per action.       *)
(***************************************************************************)
EXTENDS BPlusTree, QueueLemmas

-----------------------------------------------------------------------------
(* The searches in a node.                                                 *)

Span == [left : Int, right : Int]

Middle(s) == s.left + (s.right - s.left) \div 2

(* A loop is the iteration of its round.                                   *)
Runs(after, s, Round) ==
  /\ after \in [Nat -> Span]
  /\ after[0] = s
  /\ \A n \in Nat : after[n + 1] = Round[after[n]]

LEMMA LoopExists ==
  ASSUME NEW s \in Span, NEW Round \in [Span -> Span]
  PROVE  \E f : /\ Runs(f, s, Round)
                /\ f = [n \in Nat |-> IF n = 0 THEN s ELSE Round[f[n - 1]]]
<1>1. PICK f \in [Nat -> Span] : Iterates(f, s, Round)
  <2> HIDE DEF Span
  <2> QED BY Iteration
<1>2. Runs(f, s, Round)
  BY <1>1 DEF Runs, Iterates
<1>3. ASSUME NEW n \in Nat
      PROVE  f[n] = IF n = 0 THEN s ELSE Round[f[n - 1]]
  <2>1. n # 0 => n - 1 \in Nat /\ (n - 1) + 1 = n
    OBVIOUS
  <2> QED BY <2>1, <1>2 DEF Runs
<1>4. f = [n \in Nat |-> IF n = 0 THEN s ELSE Round[f[n - 1]]]
  <2>1. DOMAIN f = Nat
    BY <1>1
  <2> HIDE DEF Span
  <2> QED BY <2>1, <1>1, <1>3
<1> QED BY <1>2, <1>4

LEMMA LoopRuns ==
  ASSUME NEW s \in Span, NEW Round \in [Span -> Span], NEW after,
         after = [n \in Nat |-> after[n]], after[0] = s,
         \A n \in Nat : after[n] \in Span => after[n + 1] = Round[after[n]]
  PROVE  Runs(after, s, Round)
<1> DEFINE T == {n \in Nat : after[n] \in Span}
<1>1. Nat \subseteq T
  <2>1. 0 \in T
    OBVIOUS
  <2>2. ASSUME NEW n \in Nat, n \in T
        PROVE  n + 1 \in T
    BY <2>2
  <2> HIDE DEF T
  <2> QED BY <2>1, <2>2, NatInd
<1>2. \A n \in Nat : after[n] \in Span
  BY <1>1
<1>3. after \in [Nat -> Span]
  BY <1>2
<1> QED BY <1>2, <1>3 DEF Runs

(* The binary search, for the set Low of the positions to the left of the  *)
(* one it looks for.                                                       *)
Halve(Low) ==
  [s \in Span |->
     IF s.left >= s.right THEN s
     ELSE IF Middle(s) \in Low THEN [s EXCEPT !.left = Middle(s) + 1]
     ELSE [s EXCEPT !.right = Middle(s)]]

LEMMA HalveType == ASSUME NEW Low PROVE Halve(Low) \in [Span -> Span]
BY DEF Halve, Middle, Span

Bounds(r, first, len, Low) ==
  /\ r \in first .. len + 1
  /\ r > first => r - 1 \in Low
  /\ r <= len => r \notin Low

LEMMA HalvingFinds ==
  ASSUME NEW Low, NEW first \in Nat, NEW len \in Nat, 1 <= first, first <= len + 1,
         NEW after, Runs(after, [left |-> first, right |-> len + 1], Halve(Low))
  PROVE  Bounds(after[len].left, first, len, Low)
<1> DEFINE Good(s) == /\ first <= s.left /\ s.left <= s.right /\ s.right <= len + 1
                      /\ s.left > first => s.left - 1 \in Low
                      /\ s.right <= len => s.right \notin Low
           T == {n \in Nat : /\ Good(after[n])
                             /\ after[n].right - after[n].left <=
                                  IF n <= len THEN len - n ELSE 0}
<1>1. 0 \in T
  BY DEF Runs
<1>2. ASSUME NEW n \in Nat, n \in T
      PROVE  n + 1 \in T
  <2>1. PICK s : s = after[n]
    OBVIOUS
  <2>2. PICK t : t = after[n + 1]
    OBVIOUS
  <2>3. s \in Span /\ t = Halve(Low)[s]
    BY <2>1, <2>2 DEF Runs
  <2>4. s.left \in Int /\ s.right \in Int /\ s = [left |-> s.left, right |-> s.right]
    BY <2>3 DEF Span
  <2>5. Good(s) /\ s.right - s.left <= IF n <= len THEN len - n ELSE 0
    BY <1>2, <2>1
  <2>6. CASE s.left >= s.right
    <3>1. t = s
      BY <2>3, <2>6 DEF Halve
    <3> QED BY <3>1, <2>2, <2>4, <2>5, <2>6
  <2>7. CASE s.left < s.right
    <3>1. Middle(s) \in Int /\ s.left <= Middle(s) /\ Middle(s) < s.right
      BY <2>4, <2>7 DEF Middle
    <3>2. CASE Middle(s) \in Low
      <4>1. t = [s EXCEPT !.left = Middle(s) + 1]
        BY <2>3, <2>4, <2>7, <3>2 DEF Halve
      <4>2. t.left = Middle(s) + 1 /\ t.right = s.right
        BY <4>1, <2>4
      <4> QED BY <4>2, <2>2, <2>4, <2>5, <2>7, <3>1, <3>2
    <3>3. CASE Middle(s) \notin Low
      <4>1. t = [s EXCEPT !.right = Middle(s)]
        BY <2>3, <2>4, <2>7, <3>3 DEF Halve
      <4>2. t.left = s.left /\ t.right = Middle(s)
        BY <4>1, <2>4
      <4> QED BY <4>2, <2>2, <2>4, <2>5, <2>7, <3>1, <3>3
    <3> QED BY <3>2, <3>3
  <2> QED BY <2>4, <2>6, <2>7
<1>3. len \in T
  <2> HIDE DEF T
  <2> QED BY <1>1, <1>2, NatInd
<1>4. after[len].left \in Int /\ after[len].right \in Int
  BY DEF Runs, Span
<1> QED BY <1>3, <1>4 DEF Bounds

LEMMA LowerBoundFinds ==
  ASSUME NEW array, NEW first \in Nat, Len(array) \in Nat, NEW key,
         1 <= first, first <= Len(array) + 1
  PROVE  Bounds(LowerBound(array, first, key), first, Len(array),
                {i \in Int : array[i].key < key})
<1> DEFINE Low      == {i \in Int : array[i].key < key}
           start    == [left |-> first, right |-> Len(array) + 1]
           Round(s) == LET mid == s.left + (s.right - s.left) \div 2 IN
                       IF s.left >= s.right THEN s
                       ELSE IF array[mid].key < key THEN [s EXCEPT !.left = mid + 1]
                       ELSE [s EXCEPT !.right = mid]
           Goes(f)  == f = [n \in Nat |-> IF n = 0 THEN start ELSE Round(f[n - 1])]
           after    == CHOOSE f : Goes(f)
<1>1. start \in Span
  BY DEF Span
<1>2. \A s \in Span : Round(s) = Halve(Low)[s]
  BY DEF Span, Halve, Middle
<1>3. LowerBound(array, first, key) = after[Len(array)].left
  BY DEF LowerBound, FirstNot
<1> DEFINE G == Halve(Low)
<1>4. G \in [Span -> Span] /\ \A s \in Span : Round(s) = G[s]
  BY <1>2, HalveType
<1> HIDE DEF Low, G, start, Round
<1>5. \E f : Goes(f)
  <2>1. PICK f : /\ Runs(f, start, G)
                 /\ f = [n \in Nat |-> IF n = 0 THEN start ELSE G[f[n - 1]]]
    BY <1>1, <1>4, LoopExists
  <2>2. ASSUME NEW n \in Nat, n # 0
        PROVE  G[f[n - 1]] = Round(f[n - 1])
    <3>1. n - 1 \in Nat
      BY <2>2
    <3> QED BY <3>1, <1>4, <2>1 DEF Runs
  <2>3. Goes(f)
    BY <2>1, <2>2
  <2> QED BY <2>3
<1>6. Goes(after)
  <2> HIDE DEF Goes
  <2> QED BY <1>5
<1> HIDE DEF after
<1>7. Runs(after, start, G)
  <2>1. after = [n \in Nat |-> after[n]] /\ after[0] = start
    BY <1>6
  <2>2. ASSUME NEW n \in Nat, after[n] \in Span
        PROVE  after[n + 1] = G[after[n]]
    <3>1. n + 1 \in Nat /\ n + 1 # 0 /\ (n + 1) - 1 = n
      OBVIOUS
    <3>2. after[n + 1] = Round(after[n])
      BY <3>1, <1>6
    <3> QED BY <3>2, <2>2, <1>4
  <2> QED BY <1>1, <1>4, <2>1, <2>2, LoopRuns
<1>8. Bounds(after[Len(array)].left, first, Len(array), Low)
  BY <1>7, HalvingFinds DEF G, start
<1> QED BY <1>3, <1>8 DEF Low

LEMMA UpperBoundFinds ==
  ASSUME NEW array, NEW first \in Nat, Len(array) \in Nat, NEW key,
         1 <= first, first <= Len(array) + 1
  PROVE  Bounds(UpperBound(array, first, key), first, Len(array),
                {i \in Int : array[i].key <= key})
<1> DEFINE Low      == {i \in Int : array[i].key <= key}
           start    == [left |-> first, right |-> Len(array) + 1]
           Round(s) == LET mid == s.left + (s.right - s.left) \div 2 IN
                       IF s.left >= s.right THEN s
                       ELSE IF array[mid].key <= key THEN [s EXCEPT !.left = mid + 1]
                       ELSE [s EXCEPT !.right = mid]
           Goes(f)  == f = [n \in Nat |-> IF n = 0 THEN start ELSE Round(f[n - 1])]
           after    == CHOOSE f : Goes(f)
<1>1. start \in Span
  BY DEF Span
<1>2. \A s \in Span : Round(s) = Halve(Low)[s]
  BY DEF Span, Halve, Middle
<1>3. UpperBound(array, first, key) = after[Len(array)].left
  BY DEF UpperBound, FirstNot
<1> DEFINE G == Halve(Low)
<1>4. G \in [Span -> Span] /\ \A s \in Span : Round(s) = G[s]
  BY <1>2, HalveType
<1> HIDE DEF Low, G, start, Round
<1>5. \E f : Goes(f)
  <2>1. PICK f : /\ Runs(f, start, G)
                 /\ f = [n \in Nat |-> IF n = 0 THEN start ELSE G[f[n - 1]]]
    BY <1>1, <1>4, LoopExists
  <2>2. ASSUME NEW n \in Nat, n # 0
        PROVE  G[f[n - 1]] = Round(f[n - 1])
    <3>1. n - 1 \in Nat
      BY <2>2
    <3> QED BY <3>1, <1>4, <2>1 DEF Runs
  <2>3. Goes(f)
    BY <2>1, <2>2
  <2> QED BY <2>3
<1>6. Goes(after)
  <2> HIDE DEF Goes
  <2> QED BY <1>5
<1> HIDE DEF after
<1>7. Runs(after, start, G)
  <2>1. after = [n \in Nat |-> after[n]] /\ after[0] = start
    BY <1>6
  <2>2. ASSUME NEW n \in Nat, after[n] \in Span
        PROVE  after[n + 1] = G[after[n]]
    <3>1. n + 1 \in Nat /\ n + 1 # 0 /\ (n + 1) - 1 = n
      OBVIOUS
    <3>2. after[n + 1] = Round(after[n])
      BY <3>1, <1>6
    <3> QED BY <3>2, <2>2, <1>4
  <2> QED BY <1>1, <1>4, <2>1, <2>2, LoopRuns
<1>8. Bounds(after[Len(array)].left, first, Len(array), Low)
  BY <1>7, HalvingFinds DEF G, start
<1> QED BY <1>3, <1>8 DEF Low

(* The same in a leaf, for a key that may not be there.                    *)
InOrder(array) ==
  \A i, j \in 1 .. Len(array) : i < j => array[i].key <= array[j].key

LookupRound(array, key) ==
  [s \in Span |->
     IF s.left > s.right THEN s
     ELSE CASE array[Middle(s)].key < key -> [s EXCEPT !.left = Middle(s) + 1]
            [] array[Middle(s)].key > key -> [s EXCEPT !.right = Middle(s) - 1]
            [] OTHER                      -> s]

LEMMA LookupRoundType ==
  ASSUME NEW array, NEW key
  PROVE  LookupRound(array, key) \in [Span -> Span]
<1> SUFFICES ASSUME NEW s \in Span
             PROVE  LookupRound(array, key)[s] \in Span
  BY DEF LookupRound
<1>1. s \in Span /\ Middle(s) \in Int
  BY DEF Span, Middle
<1>2. [s EXCEPT !.left = Middle(s) + 1] \in Span /\ [s EXCEPT !.right = Middle(s) - 1] \in Span
  BY <1>1 DEF Span
<1> QED BY <1>1, <1>2 DEF LookupRound

LEMMA LookupRuns ==
  ASSUME NEW array, Len(array) \in Nat, NEW key \in Int,
         \A i \in 1 .. Len(array) : array[i].key \in Int,
         NEW after, Runs(after, [left |-> 1, right |-> Len(array)], LookupRound(array, key)),
         NEW last, last = after[Len(array)]
  PROVE  /\ last \in Span
         /\ last.left <= last.right =>
              Middle(last) \in 1 .. Len(array) /\ array[Middle(last)].key = key
         /\ InOrder(array) /\ last.left > last.right =>
              \A i \in 1 .. Len(array) : array[i].key # key
<1> DEFINE len == Len(array)
           Hit(s)  == s.left <= s.right /\ array[Middle(s)].key = key
           Good(s) == /\ 1 <= s.left /\ s.right <= len
                      /\ InOrder(array) =>
                           /\ \A i \in 1 .. len : i < s.left => array[i].key < key
                           /\ \A i \in 1 .. len : i > s.right => array[i].key > key
           T == {n \in Nat : /\ Good(after[n])
                             /\ \/ Hit(after[n])
                                \/ after[n].left > after[n].right
                                \/ after[n].right - after[n].left < len - n}
<1>1. 0 \in T
  <2>1. after[0].left = 1 /\ after[0].right = len
    BY DEF Runs
  <2>2. Good(after[0])
    BY <2>1
  <2>3. after[0].right - after[0].left < len - 0
    BY <2>1
  <2> HIDE DEF Good, Hit
  <2> QED BY <2>2, <2>3
<1>2. ASSUME NEW n \in Nat, n \in T
      PROVE  n + 1 \in T
  <2>1. PICK s : s = after[n]
    OBVIOUS
  <2>2. PICK t : t = after[n + 1]
    OBVIOUS
  <2>3. s \in Span /\ t = LookupRound(array, key)[s]
    BY <2>1, <2>2 DEF Runs
  <2>4. s.left \in Int /\ s.right \in Int
    BY <2>3 DEF Span
  <2>5. Good(s)
    BY <1>2, <2>1
  <2>6. Hit(s) \/ s.left > s.right \/ s.right - s.left < len - n
    BY <1>2, <2>1
  <2>7. CASE s.left > s.right
    <3>1. t = s
      BY <2>3, <2>7 DEF LookupRound
    <3> QED BY <3>1, <2>2, <2>5, <2>7
  <2>8. CASE s.left <= s.right
    <3> DEFINE m == Middle(s)
    <3>1. m \in Int /\ s.left <= m /\ m <= s.right
      BY <2>4, <2>8 DEF Middle
    <3>2. m \in 1 .. len
      BY <3>1, <2>5, <2>4
    <3>3. t = CASE array[m].key < key -> [s EXCEPT !.left = m + 1]
                [] array[m].key > key -> [s EXCEPT !.right = m - 1]
                [] OTHER              -> s
      BY <2>3, <2>4, <2>8 DEF LookupRound
    <3> HIDE DEF m
    <3>4. CASE array[m].key < key
      <4>1. t = [s EXCEPT !.left = m + 1]
        BY <3>2, <3>3, <3>4
      <4>2. t.left = m + 1 /\ t.right = s.right
        BY <4>1, <2>3 DEF Span
      <4>3. InOrder(array) => \A i \in 1 .. len : i < m + 1 => array[i].key < key
        BY <3>2, <3>4 DEF InOrder
      <4>4. Good(t)
        BY <4>2, <4>3, <2>4, <2>5, <3>1
      <4>5. ~Hit(s)
        BY <3>2, <3>4 DEF m
      <4>6. t.left > t.right \/ t.right - t.left < len - (n + 1)
        BY <4>2, <4>5, <2>4, <2>6, <3>1
      <4> HIDE DEF Good, Hit
      <4> QED BY <4>4, <4>6, <2>2
    <3>5. CASE array[m].key > key
      <4>1. t = [s EXCEPT !.right = m - 1]
        BY <3>2, <3>3, <3>5
      <4>2. t.left = s.left /\ t.right = m - 1
        BY <4>1, <2>3 DEF Span
      <4>3. InOrder(array) => \A i \in 1 .. len : i > m - 1 => array[i].key > key
        BY <3>2, <3>5 DEF InOrder
      <4>4. Good(t)
        BY <4>2, <4>3, <2>4, <2>5, <3>1
      <4>5. ~Hit(s)
        BY <3>2, <3>5 DEF m
      <4>6. t.left > t.right \/ t.right - t.left < len - (n + 1)
        BY <4>2, <4>5, <2>4, <2>6, <3>1
      <4> HIDE DEF Good, Hit
      <4> QED BY <4>4, <4>6, <2>2
    <3>6. CASE array[m].key = key
      <4>1. t = s
        BY <3>2, <3>3, <3>6
      <4>2. Hit(s)
        BY <3>6, <2>8 DEF m
      <4> HIDE DEF Good, Hit
      <4> QED BY <4>1, <4>2, <2>2, <2>5
    <3> QED BY <3>2, <3>4, <3>5, <3>6
  <2> QED BY <2>4, <2>7, <2>8
<1>3. len \in T
  <2> HIDE DEF T
  <2> QED BY <1>1, <1>2, NatInd
<1>4. last \in Span /\ last.left \in Int /\ last.right \in Int
  BY DEF Runs, Span
<1>5. Good(last) /\ (Hit(last) \/ last.left > last.right)
  BY <1>3, <1>4
<1>6. ASSUME last.left <= last.right
      PROVE  Middle(last) \in 1 .. len /\ array[Middle(last)].key = key
  <2>1. array[Middle(last)].key = key
    BY <1>4, <1>5, <1>6
  <2>2. last.left <= Middle(last) /\ Middle(last) <= last.right /\ Middle(last) \in Int
    BY <1>4, <1>6 DEF Middle
  <2> QED BY <2>1, <2>2, <1>4, <1>5
<1>7. ASSUME InOrder(array), last.left > last.right
      PROVE  \A i \in 1 .. len : array[i].key # key
  BY <1>4, <1>5, <1>7
<1> QED BY <1>4, <1>6, <1>7

LEMMA LookupFinds ==
  ASSUME NEW node, Len(node.array) \in Nat, NEW key \in Int,
         \A i \in 1 .. Len(node.array) : node.array[i].key \in Int,
         NEW hit, hit = LeafLookup(node, key)
  PROVE  /\ hit \in 0 .. Len(node.array)
         /\ hit # 0 => node.array[hit].key = key
         /\ InOrder(node.array) /\ hit = 0 =>
              \A i \in 1 .. Len(node.array) : node.array[i].key # key
<1> DEFINE array    == node.array
           start    == [left |-> 1, right |-> Len(array)]
           Mid(s)   == s.left + (s.right - s.left) \div 2
           Round(s) == IF s.left > s.right THEN s
                       ELSE CASE array[Mid(s)].key < key -> [s EXCEPT !.left = Mid(s) + 1]
                              [] array[Mid(s)].key > key -> [s EXCEPT !.right = Mid(s) - 1]
                              [] OTHER -> s
           Goes(f)  == f = [n \in Nat |-> IF n = 0 THEN start ELSE Round(f[n - 1])]
           after    == CHOOSE f : Goes(f)
           last     == after[Len(array)]
           G        == LookupRound(array, key)
<1>1. start \in Span
  BY DEF Span
<1>2. hit = IF last.left > last.right THEN 0 ELSE Middle(last)
  BY DEF LeafLookup, Middle
<1>3. G \in [Span -> Span]
  BY LookupRoundType
<1>4. \A s \in Span : Round(s) = G[s]
  BY DEF LookupRound, Middle
<1> HIDE DEF G, start, Round
<1>5. \E f : Goes(f)
  <2>1. PICK f : /\ Runs(f, start, G)
                 /\ f = [n \in Nat |-> IF n = 0 THEN start ELSE G[f[n - 1]]]
    BY <1>1, <1>3, LoopExists
  <2>2. ASSUME NEW n \in Nat, n # 0
        PROVE  G[f[n - 1]] = Round(f[n - 1])
    <3>1. n - 1 \in Nat
      BY <2>2
    <3> QED BY <3>1, <1>4, <2>1 DEF Runs
  <2>3. Goes(f)
    BY <2>1, <2>2
  <2> QED BY <2>3
<1>6. Goes(after)
  <2> HIDE DEF Goes
  <2> QED BY <1>5
<1> HIDE DEF after
<1>7. Runs(after, start, G)
  <2>1. after = [n \in Nat |-> after[n]] /\ after[0] = start
    BY <1>6
  <2>2. ASSUME NEW n \in Nat, after[n] \in Span
        PROVE  after[n + 1] = G[after[n]]
    <3>1. n + 1 \in Nat /\ n + 1 # 0 /\ (n + 1) - 1 = n
      OBVIOUS
    <3>2. after[n + 1] = Round(after[n])
      BY <3>1, <1>6
    <3> QED BY <3>2, <2>2, <1>4
  <2> QED BY <1>1, <1>3, <2>1, <2>2, LoopRuns
<1>8. Runs(after, [left |-> 1, right |-> Len(array)], LookupRound(array, key))
  BY <1>7 DEF start, G
<1>9. PICK end : end = last
  OBVIOUS
<1>10. /\ end \in Span
       /\ end.left <= end.right =>
            Middle(end) \in 1 .. Len(array) /\ array[Middle(end)].key = key
       /\ InOrder(array) /\ end.left > end.right =>
            \A i \in 1 .. Len(array) : array[i].key # key
  BY <1>8, <1>9, LookupRuns
<1>11. end.left \in Int /\ end.right \in Int
  BY <1>10 DEF Span
<1> HIDE DEF array, last
<1>12. CASE end.left > end.right
  BY <1>2, <1>9, <1>10, <1>11, <1>12 DEF array
<1>13. CASE end.left <= end.right
  <2>1. hit = Middle(end) /\ hit \in 1 .. Len(array) /\ array[hit].key = key
    BY <1>2, <1>9, <1>10, <1>11, <1>13
  <2> QED BY <2>1 DEF array
<1> QED BY <1>11, <1>12, <1>13

(* Statements and the stack.                                               *)

LEMMA StatementFields ==
  ASSUME NEW s \in Statement
  PROVE  /\ s.do \in {"Descend", "StartNewTree", "SplitLeaf", "InsertIntoParent",
                      "SplitInternal", "AdoptChildren", "UnpinPage", "Return"}
         /\ s.do = "Descend" =>
              /\ s.page \in PageId /\ s.key \in Key
              /\ s.op \in {"Insert", "GetValue"} /\ s.value \in RecordID \cup {NoReply}
         /\ s.do = "StartNewTree" => s.key \in Key /\ s.value \in RecordID
         /\ s.do = "SplitLeaf" =>
              s.page \in PageId /\ s.key \in Key /\ s.value \in RecordID
         /\ s.do \in {"InsertIntoParent", "SplitInternal"} =>
              s.page \in PageId /\ s.key \in Key /\ s.new \in PageId
         /\ s.do = "AdoptChildren" => s.page \in PageId /\ s.i \in 1 .. INTERNAL_MAX
         /\ s.do = "UnpinPage" =>
              /\ s.page \in PageId /\ s.is_dirty \in BOOLEAN
              /\ s = UnpinPage(s.page, s.is_dirty)
         /\ s.do = "Return" => s.answer \in Answer
BY DEF Statement, UnpinPage

LEMMA MakeStatement ==
  /\ \A page \in PageId, key \in Key, op \in {"Insert", "GetValue"},
        value \in RecordID \cup {NoReply} : Descend(page, key, op, value) \in Statement
  /\ \A key \in Key, value \in RecordID : StartNewTree(key, value) \in Statement
  /\ \A page \in PageId, key \in Key, value \in RecordID :
       SplitLeaf(page, key, value) \in Statement
  /\ \A page \in PageId, key \in Key, new \in PageId :
       /\ InsertIntoParent(page, key, new) \in Statement
       /\ SplitInternal(page, key, new) \in Statement
  /\ \A page \in PageId, i \in 1 .. INTERNAL_MAX : AdoptChildren(page, i) \in Statement
  /\ \A page \in PageId, is_dirty \in BOOLEAN : UnpinPage(page, is_dirty) \in Statement
  /\ \A answer \in Answer : Return(answer) \in Statement
BY DEF Statement, Descend, StartNewTree, SplitLeaf, InsertIntoParent, SplitInternal,
       AdoptChildren, UnpinPage, Return

(* The stack after Then: new statements in front of all but the head.      *)
LEMMA ThenProps ==
  ASSUME NEW S, NEW q \in Seq(S), q # <<>>, NEW xs \in Seq(S), NEW r, r = xs \o Tail(q)
  PROVE  /\ r \in Seq(S)
         /\ Len(r) = Len(xs) + Len(q) - 1
         /\ Len(q) \in Nat \ {0} /\ Len(xs) \in Nat
         /\ Head(q) = q[1]
         /\ \A i \in 1 .. Len(xs) : r[i] = xs[i]
         /\ \A i \in Len(xs) + 1 .. Len(r) : r[i] = q[i - Len(xs) + 1]
<1>1. /\ Tail(q) \in Seq(S) /\ Len(Tail(q)) = Len(q) - 1
      /\ \A i \in 1 .. Len(Tail(q)) : Tail(q)[i] = q[i + 1]
  BY HeadTailProperties
<1>2. Len(q) \in Nat \ {0} /\ Len(xs) \in Nat /\ Head(q) = q[1]
  BY LenProperties, EmptySeq
<1>3. /\ r \in Seq(S) /\ Len(r) = Len(xs) + Len(Tail(q))
      /\ \A i \in 1 .. Len(xs) + Len(Tail(q)) :
           r[i] = IF i <= Len(xs) THEN xs[i] ELSE Tail(q)[i - Len(xs)]
  BY <1>1, ConcatProperties
<1>4. ASSUME NEW i \in Len(xs) + 1 .. Len(r)
      PROVE  r[i] = q[i - Len(xs) + 1]
  <2>1. /\ i - Len(xs) \in 1 .. Len(Tail(q)) /\ ~(i <= Len(xs))
        /\ i \in 1 .. Len(xs) + Len(Tail(q))
    BY <1>1, <1>2, <1>3
  <2> QED BY <2>1, <1>1, <1>3
<1> QED BY <1>1, <1>2, <1>3, <1>4

-----------------------------------------------------------------------------
(* The pins that the statements of a stack will give back.                 *)

Owes(s, p) == s.do \in {"UnpinPage", "SplitLeaf", "SplitInternal"} /\ s.page = p

Owing(q, p) == {i \in 1 .. Len(q) : Owes(q[i], p)}

Count(q, p) == Cardinality(Owing(q, p))

One(b) == IF b THEN 1 ELSE 0

LEMMA CountType ==
  ASSUME NEW S, NEW q \in Seq(S), NEW p
  PROVE  IsFiniteSet(Owing(q, p)) /\ Count(q, p) \in Nat
<1>1. Len(q) \in Nat /\ IsFiniteSet(1 .. Len(q)) /\ Owing(q, p) \subseteq 1 .. Len(q)
  BY LenProperties, FS_Interval DEF Owing
<1> QED BY <1>1, FS_Subset, FS_CardinalityType DEF Count

LEMMA CountEmpty == ASSUME NEW p PROVE Count(<<>>, p) = 0
<1>1. Owing(<<>>, p) = {}
  BY DEF Owing
<1> QED BY <1>1, FS_EmptySet DEF Count

LEMMA CountConcat ==
  ASSUME NEW S, NEW s \in Seq(S), NEW t \in Seq(S), NEW p
  PROVE  Count(s \o t, p) = Count(s, p) + Count(t, p)
<1> DEFINE n == Len(s)
           A == Owing(s, p)
           B == Owing(t, p)
           C == {i + n : i \in B}
<1>1. /\ n \in Nat /\ Len(t) \in Nat /\ Len(s \o t) = n + Len(t)
      /\ \A i \in 1 .. n + Len(t) : (s \o t)[i] = IF i <= n THEN s[i] ELSE t[i - n]
  BY ConcatProperties, LenProperties
<1>2. Owing(s \o t, p) = A \cup C
  <2>1. ASSUME NEW i \in Owing(s \o t, p)
        PROVE  i \in A \cup C
    <3>1. i \in 1 .. n + Len(t) /\ Owes((s \o t)[i], p)
      BY <1>1 DEF Owing
    <3>2. CASE i <= n
      BY <3>1, <3>2, <1>1 DEF Owing
    <3>3. CASE ~(i <= n)
      <4>1. i - n \in 1 .. Len(t) /\ Owes(t[i - n], p) /\ i = (i - n) + n
        BY <3>1, <3>3, <1>1
      <4> QED BY <4>1 DEF Owing
    <3> QED BY <3>2, <3>3
  <2>2. ASSUME NEW i \in A
        PROVE  i \in Owing(s \o t, p)
    BY <1>1 DEF Owing
  <2>3. ASSUME NEW j \in B
        PROVE  j + n \in Owing(s \o t, p)
    <3>1. /\ j \in 1 .. Len(t) /\ Owes(t[j], p)
          /\ j + n \in 1 .. n + Len(t) /\ ~(j + n <= n) /\ (j + n) - n = j
      BY <1>1 DEF Owing
    <3> QED BY <3>1, <1>1 DEF Owing
  <2> QED BY <2>1, <2>2, <2>3
<1>3. A \cap C = {}
  BY <1>1 DEF Owing
<1>4. IsFiniteSet(A) /\ IsFiniteSet(B)
  BY CountType
<1>5. IsFiniteSet(C) /\ Cardinality(C) = Cardinality(B)
  <2> DEFINE f == [i \in B |-> i + n]
  <2>1. f \in Bijection(B, C)
    <3>1. B \subseteq Int
      BY DEF Owing
    <3>2. f \in Injection(B, C)
      BY <3>1, <1>1 DEF Injection, IsInjective
    <3>3. f \in Surjection(B, C)
      BY DEF Surjection
    <3> QED BY <3>2, <3>3 DEF Bijection
  <2> QED BY <2>1, <1>4, FS_Bijection DEF ExistsBijection
<1>6. Cardinality(A \cup C) = Cardinality(A) + Cardinality(C)
  <2>1. Cardinality(A \cup C) = Cardinality(A) + Cardinality(C) - Cardinality(A \cap C)
    BY <1>4, <1>5, FS_Union
  <2>2. Cardinality({}) = 0
    BY FS_EmptySet
  <2>3. Cardinality(A) \in Nat /\ Cardinality(C) \in Nat
    BY <1>4, <1>5, FS_CardinalityType
  <2>4. Cardinality(A \cap C) = 0
    BY <1>3, <2>2
  <2> HIDE DEF A, C
  <2> QED BY <2>1, <2>3, <2>4
<1> QED BY <1>2, <1>5, <1>6 DEF Count

LEMMA CountOne ==
  ASSUME NEW s, NEW p
  PROVE  Count(<<s>>, p) = One(Owes(s, p))
<1>1. Owing(<<s>>, p) = IF Owes(s, p) THEN {1} ELSE {}
  BY DEF Owing
<1>2. Cardinality({1}) = 1 /\ Cardinality({}) = 0
  BY FS_Singleton, FS_EmptySet
<1> QED BY <1>1, <1>2 DEF Count, One

LEMMA CountThen ==
  ASSUME NEW S, NEW q \in Seq(S), q # <<>>, NEW xs \in Seq(S), NEW r, r = xs \o Tail(q), NEW p
  PROVE  /\ Count(r, p) = Count(xs, p) + Count(q, p) - One(Owes(q[1], p))
         /\ Count(r, p) \in Nat /\ Count(xs, p) \in Nat /\ Count(q, p) \in Nat
         /\ Owes(q[1], p) => Count(q, p) > 0
<1>1. Head(q) \in S /\ Tail(q) \in Seq(S) /\ Head(q) = q[1]
  BY HeadTailProperties
<1>2. q = <<Head(q)>> \o Tail(q) /\ <<Head(q)>> \in Seq(S)
  BY <1>1
<1>3. Count(q, p) = Count(<<Head(q)>>, p) + Count(Tail(q), p)
  BY <1>1, <1>2, CountConcat, ZenonT(60)
<1>4. Count(r, p) = Count(xs, p) + Count(Tail(q), p)
  BY <1>1, CountConcat
<1>5. Count(<<Head(q)>>, p) = One(Owes(q[1], p))
  BY <1>1, CountOne
<1>6. Count(xs, p) \in Nat /\ Count(Tail(q), p) \in Nat /\ Count(q, p) \in Nat
  BY <1>1, CountType
<1> QED BY <1>3, <1>4, <1>5, <1>6 DEF One

LEMMA OwedIsCounted ==
  ASSUME NEW S, NEW q \in Seq(S), NEW i \in 1 .. Len(q), NEW p, Owes(q[i], p)
  PROVE  Count(q, p) > 0
<1>1. i \in Owing(q, p) /\ IsFiniteSet(Owing(q, p)) /\ Count(q, p) \in Nat
  BY CountType DEF Owing
<1>2. Count(q, p) # 0
  BY <1>1, FS_EmptySet DEF Count
<1> QED BY <1>1, <1>2

-----------------------------------------------------------------------------
(* Nodes.                                                                  *)

LEMMA Sizes ==
  /\ LEAF_MAX \in Nat /\ LEAF_MAX >= 2
  /\ INTERNAL_MAX \in Nat /\ INTERNAL_MAX >= 2
  /\ Key \subseteq Int
  /\ MAX_PAGES \in Nat /\ PageId = 0 .. MAX_PAGES - 1
  /\ NoPage = -1
BY NodeAssumption, TreeAssumption DEF PageId, Pool!PageId, NoPage

LEMMA InsertAtProps ==
  ASSUME NEW S, NEW s \in Seq(S), NEW i \in 1 .. Len(s) + 1, NEW e \in S,
         NEW t, t = InsertAt(s, i, e)
  PROVE  /\ t \in Seq(S) /\ Len(t) = Len(s) + 1
         /\ \A j \in 1 .. i - 1 : t[j] = s[j]
         /\ t[i] = e
         /\ \A j \in i + 1 .. Len(s) + 1 : t[j] = s[j - 1]
<1> DEFINE a == SubSeq(s, 1, i - 1)
           b == SubSeq(s, i, Len(s))
<1>1. Len(s) \in Nat /\ \A j \in 1 .. Len(s) : s[j] \in S
  BY LenProperties, ElementOfSeq
<1>2. /\ a \in Seq(S) /\ Len(a) = i - 1
      /\ \A j \in 1 .. i - 1 : a[j] = s[j]
  <2>1. \A j \in 1 .. i - 1 : s[j] \in S
    BY <1>1
  <2>2. /\ a \in Seq(S) /\ Len(a) = IF 1 <= i - 1 THEN (i - 1) - 1 + 1 ELSE 0
        /\ \A j \in 1 .. (i - 1) - 1 + 1 : a[j] = s[1 + j - 1]
    BY <2>1, <1>1, SubSeqProperties
  <2> QED BY <2>2, <1>1
<1>3. /\ b \in Seq(S) /\ Len(b) = Len(s) - i + 1
      /\ \A j \in 1 .. Len(s) - i + 1 : b[j] = s[i + j - 1]
  <2>1. \A j \in i .. Len(s) : s[j] \in S
    BY <1>1
  <2>2. /\ b \in Seq(S) /\ Len(b) = IF i <= Len(s) THEN Len(s) - i + 1 ELSE 0
        /\ \A j \in 1 .. Len(s) - i + 1 : b[j] = s[i + j - 1]
    BY <2>1, <1>1, SubSeqProperties
  <2> QED BY <2>2, <1>1
<1>4. t = (a \o <<e>>) \o b
  BY DEF InsertAt
<1> HIDE DEF a, b
<1> DEFINE c == a \o <<e>>
<1>5. /\ c \in Seq(S) /\ Len(c) = i
      /\ \A j \in 1 .. i - 1 : c[j] = s[j]
      /\ c[i] = e
  <2>1. <<e>> \in Seq(S) /\ Len(<<e>>) = 1 /\ <<e>>[1] = e
    OBVIOUS
  <2>2. /\ c \in Seq(S) /\ Len(c) = Len(a) + 1
        /\ \A j \in 1 .. Len(a) + 1 : c[j] = IF j <= Len(a) THEN a[j] ELSE <<e>>[j - Len(a)]
    BY <1>2, <2>1, ConcatProperties
  <2> HIDE DEF c
  <2> QED BY <1>1, <1>2, <2>1, <2>2
<1> HIDE DEF c
<1>6. /\ t \in Seq(S) /\ Len(t) = i + Len(b)
      /\ \A j \in 1 .. i + Len(b) : t[j] = IF j <= i THEN c[j] ELSE b[j - i]
  <2>1. t = c \o b
    BY <1>4 DEF c
  <2>2. c \in Seq(S) /\ b \in Seq(S)
    BY <1>3, <1>5
  <2>3. /\ c \o b \in Seq(S) /\ Len(c \o b) = Len(c) + Len(b)
        /\ \A j \in 1 .. Len(c) + Len(b) : (c \o b)[j] = IF j <= Len(c) THEN c[j] ELSE b[j - Len(c)]
    BY <2>2, ConcatProperties
  <2> QED BY <2>1, <2>3, <1>5
<1>7. ASSUME NEW j \in i + 1 .. Len(s) + 1
      PROVE  t[j] = s[j - 1]
  <2>1. j \in 1 .. i + Len(b) /\ ~(j <= i) /\ j - i \in 1 .. Len(s) - i + 1
    BY <1>1, <1>3
  <2>2. i + (j - i) - 1 = j - 1
    BY <1>1
  <2> QED BY <2>1, <2>2, <1>3, <1>6
<1> QED BY <1>1, <1>3, <1>5, <1>6, <1>7

LEMMA HalfProps ==
  ASSUME NEW max \in Nat, max >= 2
  PROVE  max \div 2 \in 1 .. max - 1
OBVIOUS

LEMMA KeptProps ==
  ASSUME NEW S, NEW max \in Nat, max >= 2, NEW s \in Seq(S), Len(s) = max,
         NEW half, half = max \div 2, NEW t, t = Kept(s, max)
  PROVE  /\ t \in Seq(S) /\ Len(t) = half /\ half \in 1 .. max - 1
         /\ \A i \in 1 .. half : t[i] = s[i]
<1>1. half \in 1 .. max - 1
  BY HalfProps
<1>2. \A i \in 1 .. half : s[i] \in S
  BY <1>1, ElementOfSeq
<1>3. t = SubSeq(s, 1, half)
  BY DEF Kept
<1>4. /\ t \in Seq(S) /\ Len(t) = IF 1 <= half THEN half - 1 + 1 ELSE 0
      /\ \A i \in 1 .. half - 1 + 1 : t[i] = s[1 + i - 1]
  BY <1>1, <1>2, <1>3, SubSeqProperties
<1> QED BY <1>1, <1>4

IsUpperHalf(t, S, s, max, half) ==
  /\ t \in Seq(S) /\ Len(t) = max - half /\ half \in 1 .. max - 1
  /\ \A i \in 1 .. max - half : t[i] = s[half + i]

LEMMA MovedProps ==
  ASSUME NEW S, NEW max \in Nat, max >= 2, NEW s \in Seq(S), Len(s) = max,
         NEW half, half = max \div 2, NEW t, t = Moved(s, max)
  PROVE  IsUpperHalf(t, S, s, max, half)
<1>1. half \in 1 .. max - 1
  BY HalfProps
<1>2. \A i \in half + 1 .. max : s[i] \in S
  BY <1>1, ElementOfSeq
<1>3. t = SubSeq(s, half + 1, max)
  BY DEF Moved
<1>4. /\ t \in Seq(S) /\ Len(t) = IF half + 1 <= max THEN max - (half + 1) + 1 ELSE 0
      /\ \A i \in 1 .. max - (half + 1) + 1 : t[i] = s[half + 1 + i - 1]
  BY <1>1, <1>2, <1>3, SubSeqProperties
<1>5. \A i \in 1 .. max - half : t[i] = s[half + i]
  <2> TAKE i \in 1 .. max - half
  <2>1. i \in 1 .. max - (half + 1) + 1 /\ half + 1 + i - 1 = half + i
    BY <1>1
  <2> QED BY <1>4, <2>1
<1> QED BY <1>1, <1>4, <1>5 DEF IsUpperHalf

LeafEntry     == [key : Key, value : RecordID]
InternalEntry == [key : Key \cup {0}, value : PageId]

LeafRecord ==
  [type : {"leaf"}, parent : PageId \cup {NoPage}, next : PageId \cup {NoPage},
   array : Seq(LeafEntry)]

InternalRecord ==
  [type : {"internal"}, parent : PageId \cup {NoPage}, next : {NoPage},
   array : Seq(InternalEntry)]

LeafOK(n) == n \in LeafRecord /\ Len(n.array) \in 1 .. LEAF_MAX

InternalOK(n) ==
  /\ n \in InternalRecord /\ Len(n.array) \in 1 .. INTERNAL_MAX
  /\ \A i \in 2 .. Len(n.array) : n.array[i].key \in Key

(* An insert puts the entry where the search says; it is the only change.  *)
InsertedAt(array, r, e, new) ==
  /\ Len(new) = Len(array) + 1
  /\ \A j \in 1 .. r - 1 : new[j] = array[j]
  /\ new[r] = e
  /\ \A j \in r + 1 .. Len(array) + 1 : new[j] = array[j - 1]

LEMMA LeafInsertProps ==
  ASSUME NEW n \in LeafRecord, Len(n.array) < LEAF_MAX, NEW key \in Key, NEW value \in RecordID,
         NEW m, m = LeafInsert(n, key, value)
  PROVE  /\ LeafOK(m) /\ m.parent = n.parent /\ m.next = n.next
         /\ \E r \in 1 .. Len(n.array) + 1 :
              /\ Bounds(r, 1, Len(n.array), {i \in Int : n.array[i].key < key})
              /\ InsertedAt(n.array, r, Entry(key, value), m.array)
<1>1. /\ n.array \in Seq(LeafEntry) /\ n.parent \in PageId \cup {NoPage}
      /\ n.next \in PageId \cup {NoPage} /\ n.type = "leaf"
      /\ n = [type |-> "leaf", parent |-> n.parent, next |-> n.next, array |-> n.array]
  BY DEF LeafRecord
<1>2. Len(n.array) \in Nat
  BY <1>1, LenProperties
<1> DEFINE r == LowerBound(n.array, 1, key)
           a == InsertAt(n.array, r, Entry(key, value))
<1>3. Bounds(r, 1, Len(n.array), {i \in Int : n.array[i].key < key})
  BY <1>2, LowerBoundFinds
<1>4. r \in 1 .. Len(n.array) + 1
  BY <1>3 DEF Bounds
<1>5. m = [n EXCEPT !.array = a]
  BY <1>2, Sizes DEF LeafInsert, LeafHasRoom
<1>6. a \in Seq(LeafEntry) /\ InsertedAt(n.array, r, Entry(key, value), a)
  <2>1. Entry(key, value) \in LeafEntry
    BY DEF Entry, LeafEntry
  <2> HIDE DEF r
  <2> QED BY <2>1, <1>1, <1>4, InsertAtProps, SMTT(60) DEF InsertedAt
<1> HIDE DEF r, a
<1>7. m = [type |-> "leaf", parent |-> n.parent, next |-> n.next, array |-> a]
  BY <1>1, <1>5
<1>8. m \in LeafRecord /\ m.parent = n.parent /\ m.next = n.next /\ m.array = a
  BY <1>1, <1>6, <1>7 DEF LeafRecord
<1>9. Len(a) \in 1 .. LEAF_MAX
  BY <1>2, <1>6, Sizes DEF InsertedAt
<1> QED BY <1>3, <1>4, <1>6, <1>8, <1>9 DEF LeafOK

LEMMA InternalInsertProps ==
  ASSUME NEW n, InternalOK(n), Len(n.array) < INTERNAL_MAX, NEW key \in Key, NEW child \in PageId,
         NEW m, m = InternalInsert(n, key, child)
  PROVE  /\ InternalOK(m) /\ m.parent = n.parent
         /\ \E r \in 2 .. Len(n.array) + 1 :
              /\ Bounds(r, 2, Len(n.array), {i \in Int : n.array[i].key < key})
              /\ InsertedAt(n.array, r, Entry(key, child), m.array)
<1>1. /\ n.array \in Seq(InternalEntry) /\ n.parent \in PageId \cup {NoPage}
      /\ n.next = NoPage /\ n.type = "internal"
      /\ n = [type |-> "internal", parent |-> n.parent, next |-> n.next, array |-> n.array]
      /\ Len(n.array) >= 1
      /\ \A i \in 2 .. Len(n.array) : n.array[i].key \in Key
  BY DEF InternalRecord, InternalOK
<1>2. Len(n.array) \in Nat
  BY <1>1, LenProperties
<1> DEFINE r == LowerBound(n.array, 2, key)
           a == InsertAt(n.array, r, Entry(key, child))
<1>3. Bounds(r, 2, Len(n.array), {i \in Int : n.array[i].key < key})
  <2>1. 2 \in Nat /\ 1 <= 2 /\ 2 <= Len(n.array) + 1
    BY <1>1, <1>2
  <2> QED BY <2>1, <1>2, LowerBoundFinds
<1>4. r \in 2 .. Len(n.array) + 1
  BY <1>3 DEF Bounds
<1>5. m = [n EXCEPT !.array = a]
  BY <1>2, Sizes DEF InternalInsert
<1>6. a \in Seq(InternalEntry) /\ InsertedAt(n.array, r, Entry(key, child), a)
  <2>1. Entry(key, child) \in InternalEntry
    BY DEF Entry, InternalEntry
  <2>2. r \in 1 .. Len(n.array) + 1
    BY <1>2, <1>4
  <2> HIDE DEF r
  <2> QED BY <2>1, <2>2, <1>1, InsertAtProps DEF InsertedAt
<1> HIDE DEF r, a
<1>7. m = [type |-> "internal", parent |-> n.parent, next |-> n.next, array |-> a]
  BY <1>1, <1>5
<1>8. m \in InternalRecord /\ m.parent = n.parent /\ m.array = a
  BY <1>1, <1>6, <1>7 DEF InternalRecord
<1>9. Len(a) \in 1 .. INTERNAL_MAX
  BY <1>2, <1>6, Sizes DEF InsertedAt
<1>10. \A i \in 2 .. Len(a) : a[i].key \in Key
  <2> TAKE i \in 2 .. Len(a)
  <2>1. CASE i < r
    BY <2>1, <1>1, <1>2, <1>4, <1>6 DEF InsertedAt
  <2>2. CASE i = r
    BY <2>2, <1>6 DEF InsertedAt, Entry
  <2>3. CASE i > r
    <3>1. i \in r + 1 .. Len(n.array) + 1 /\ i - 1 \in 2 .. Len(n.array)
      BY <2>3, <1>2, <1>4, <1>6 DEF InsertedAt
    <3>2. a[i] = n.array[i - 1]
      BY <3>1, <1>6 DEF InsertedAt
    <3> QED BY <3>1, <3>2, <1>1
  <2> QED BY <2>1, <2>2, <2>3, <1>4
<1> QED BY <1>3, <1>4, <1>6, <1>8, <1>9, <1>10 DEF InternalOK

-----------------------------------------------------------------------------
(* The invariant: pages, parent pointers, the stack, pins and dirty bits.  *)

Leaves == {p \in PageId : contents[p].type = "leaf"}

Internals == {p \in PageId : contents[p].type = "internal"}

Nodes == Leaves \cup Internals

PagesInv ==
  /\ num_pages \in 0 .. MAX_PAGES
  /\ contents = [p \in PageId |-> contents[p]]
  /\ \A p \in PageId :
       /\ contents[p] = BlankPage \/ LeafOK(contents[p]) \/ InternalOK(contents[p])
       /\ p >= num_pages => contents[p] = BlankPage
  /\ root_page_id \in Nodes \cup {NoPage}
  /\ root_page_id = NoPage => Nodes = {}
  /\ \A p \in Internals : \A i \in 1 .. Len(contents[p].array) :
       contents[p].array[i].value \in Nodes \ {root_page_id}

(* A node has no parent if it is the root, or split off from the root and  *)
(* waits for the new one.                                                  *)
SplitsRoot(p) ==
  \E i \in 1 .. Len(stack) :
    /\ stack[i].do = "InsertIntoParent"
    /\ stack[i].page = root_page_id /\ stack[i].new = p

ParentsInv ==
  /\ root_page_id # NoPage => contents[root_page_id].parent = NoPage
  /\ \A p \in Nodes \ {root_page_id} :
       \/ contents[p].parent \in Internals
       \/ contents[p].parent = NoPage /\ SplitsRoot(p)

(* What the statements expect of the pages they name.                      *)
IsReady(s) ==
  /\ s.do = "Descend" => s.page \in Nodes /\ (s.op = "Insert" => s.value \in RecordID)
  /\ s.do = "StartNewTree" => root_page_id = NoPage
  /\ s.do = "SplitLeaf" => s.page \in Leaves /\ Len(contents[s.page].array) = LEAF_MAX
  /\ s.do = "InsertIntoParent" =>
       s.page \in Nodes /\ s.new \in Nodes \ {root_page_id, s.page}
  /\ s.do = "SplitInternal" =>
       /\ s.page \in Internals /\ Len(contents[s.page].array) = INTERNAL_MAX
       /\ s.new \in Nodes \ {root_page_id}
  /\ s.do = "AdoptChildren" =>
       s.page \in Internals /\ s.i \in 1 .. Len(contents[s.page].array)
  /\ s.do = "UnpinPage" => s.page < num_pages

(* Behind position i only pins are given back, up to the answer.           *)
IsQuiet(q, i) == \A j \in i + 1 .. Len(q) : q[j].do \in {"UnpinPage", "Return"}

ShapeAt(q, i) ==
  /\ q[i].do \in {"StartNewTree", "SplitLeaf"} => i = 1 /\ Len(q) = 1
  /\ q[i].do = "Descend" =>
       i = Len(q) /\ (i = 1 \/ (i = 2 /\ q[1].do = "UnpinPage"))
  /\ q[i].do = "SplitInternal" => i = 1 /\ IsQuiet(q, i)
  /\ q[i].do = "InsertIntoParent" =>
       /\ i + 2 <= Len(q)
       /\ q[i + 1] = UnpinPage(q[i].page, TRUE)
       /\ q[i + 2] = UnpinPage(q[i].new, TRUE)
       /\ IsQuiet(q, i)
       /\ \A j \in 1 .. i - 1 : q[j].do \in {"UnpinPage", "AdoptChildren"}
  /\ q[i].do = "AdoptChildren" =>
       /\ i + 1 <= Len(q)
       /\ q[i + 1].do = "InsertIntoParent" /\ q[i + 1].new = q[i].page

Shape(q) == \A i \in 1 .. Len(q) : ShapeAt(q, i)

StackInv ==
  /\ stack \in Seq(Statement)
  /\ Shape(stack)
  /\ \A i \in 1 .. Len(stack) : IsReady(stack[i])

(* Every statement that will give a pin back has one.                      *)
PinsInv ==
  /\ pins \in [PageId -> Nat]
  /\ held \subseteq {p \in PageId : p < num_pages}
  /\ \A p \in PageId :
       /\ pins[p] >= Count(stack, p) + One(p \in held)
       /\ p >= num_pages => pins[p] = 0

DirtyInv ==
  /\ touched \subseteq PageId
  /\ \A p \in touched : \E i \in 1 .. Len(stack) : stack[i] = UnpinPage(p, TRUE)

RestInv ==
  /\ crashed \in BOOLEAN
  /\ reply \in Answer \cup {NoReply}
  /\ inserts \in 0 .. MAX_INSERTS

IInv == PagesInv /\ ParentsInv /\ StackInv /\ PinsInv /\ DirtyInv /\ RestInv

(* Nobody else has a pin: so it stays until the split of a leaf finds no   *)
(* room for the new one and returns without a call of UnpinPage.           *)
PinsAreExact == \A p \in PageId : pins[p] = Count(stack, p) + One(p \in held)

HasRoomToSplit == Executing("SplitLeaf") => Pool!HasRoom

Keeps == IInv' /\ (PinsAreExact /\ HasRoomToSplit => PinsAreExact')

-----------------------------------------------------------------------------
(* The statement at the head.                                              *)

LEMMA HeadProps ==
  ASSUME StackInv, NEW do, Executing(do), NEW s, s = Head(stack)
  PROVE  /\ s \in Statement /\ s = stack[1] /\ s.do = do /\ IsReady(s)
         /\ stack \in Seq(Statement) /\ stack # <<>> /\ Len(stack) \in Nat \ {0}
         /\ crashed = FALSE
<1>1. stack \in Seq(Statement) /\ stack # <<>>
  BY DEF StackInv, Executing
<1>2. Head(stack) \in Statement /\ Head(stack) = stack[1] /\ Len(stack) \in Nat \ {0}
  BY <1>1, HeadTailProperties, LenProperties, EmptySeq
<1>3. IsReady(stack[1])
  BY <1>2 DEF StackInv
<1> QED BY <1>1, <1>2, <1>3 DEF Executing

(* What is behind the head.                                                *)
Rest(q) == \A i \in 2 .. Len(q) : q[i].do \in {"UnpinPage", "Return"}

LEMMA ShapeOfHead ==
  ASSUME NEW q \in Seq(Statement), Len(q) \in Nat \ {0}, Shape(q)
  PROVE  /\ q[1].do \in {"StartNewTree", "SplitLeaf", "Descend"} => Len(q) = 1
         /\ q[1].do \in {"SplitInternal", "InsertIntoParent"} => Rest(q)
         /\ q[1].do = "InsertIntoParent" =>
              /\ 3 <= Len(q)
              /\ q[2] = UnpinPage(q[1].page, TRUE) /\ q[3] = UnpinPage(q[1].new, TRUE)
         /\ q[1].do = "AdoptChildren" =>
              2 <= Len(q) /\ q[2].do = "InsertIntoParent" /\ q[2].new = q[1].page
<1>1. 1 \in 1 .. Len(q) /\ 1 + 1 = 2 /\ 1 + 2 = 3
  OBVIOUS
<1> QED BY <1>1, ZenonT(60) DEF Shape, ShapeAt, IsQuiet, Rest

(* A sequence of unpins and answers behind its first statement.            *)
LEMMA ShapeOfRest ==
  ASSUME NEW r \in Seq(Statement), Rest(r),
         Len(r) > 0 => r[1].do \in {"UnpinPage", "Return", "SplitInternal"}
  PROVE  Shape(r)
<1> SUFFICES ASSUME NEW i \in 1 .. Len(r)
             PROVE  /\ r[i].do \in {"UnpinPage", "Return"} \/ (i = 1 /\ r[i].do = "SplitInternal")
                    /\ i = 1 => IsQuiet(r, i)
  BY DEF Shape, ShapeAt
<1>1. Len(r) \in Nat
  BY LenProperties
<1> QED BY <1>1 DEF Rest, IsQuiet

(* Popping an unpin or an answer.                                          *)
LEMMA ShapeOfPop ==
  ASSUME NEW q \in Seq(Statement), q # <<>>, Shape(q),
         NEW r, r = <<>> \o Tail(q)
  PROVE  q[1].do \in {"UnpinPage", "Return"} => Shape(r)
<1> SUFFICES ASSUME q[1].do \in {"UnpinPage", "Return"}
             PROVE  Shape(r)
  OBVIOUS
<1>1. /\ r \in Seq(Statement) /\ Len(r) = Len(q) - 1 /\ Len(q) \in Nat \ {0}
      /\ \A i \in 1 .. Len(r) : r[i] = q[i + 1]
  <2>1. <<>> \in Seq(Statement) /\ Len(<<>>) = 0
    OBVIOUS
  <2>2. /\ r \in Seq(Statement) /\ Len(r) = Len(<<>>) + Len(q) - 1 /\ Len(q) \in Nat \ {0}
        /\ \A i \in Len(<<>>) + 1 .. Len(r) : r[i] = q[i - Len(<<>>) + 1]
    BY <2>1, ThenProps
  <2> QED BY <2>1, <2>2
<1> SUFFICES ASSUME NEW i \in 1 .. Len(r)
             PROVE  ShapeAt(r, i)
  BY DEF Shape
<1>2. /\ i + 1 \in 1 .. Len(q) /\ r[i] = q[i + 1] /\ i + 1 # 1
      /\ i + 1 <= Len(r) => r[i + 1] = q[(i + 1) + 1]
      /\ i + 2 <= Len(r) => r[i + 2] = q[(i + 1) + 2]
  <2>1. i + 1 <= Len(r) => i + 1 \in 1 .. Len(r)
    BY <1>1
  <2>2. i + 2 <= Len(r) => i + 2 \in 1 .. Len(r) /\ (i + 2) + 1 = (i + 1) + 2
    BY <1>1
  <2> QED BY <2>1, <2>2, <1>1
<1>3. IsQuiet(q, i + 1) => IsQuiet(r, i)
  <2> SUFFICES ASSUME IsQuiet(q, i + 1), NEW j \in i + 1 .. Len(r)
               PROVE  r[j].do \in {"UnpinPage", "Return"}
    BY DEF IsQuiet
  <2>1. j \in 1 .. Len(r) /\ j + 1 \in (i + 1) + 1 .. Len(q)
    BY <1>1
  <2> QED BY <2>1, <1>1 DEF IsQuiet
<1>4. ASSUME r[i].do = "InsertIntoParent"
      PROVE  \A j \in 1 .. i - 1 : r[j].do \in {"UnpinPage", "AdoptChildren"}
  <2> TAKE j \in 1 .. i - 1
  <2>1. j \in 1 .. Len(r) /\ j + 1 \in 1 .. (i + 1) - 1
    BY <1>1
  <2>2. q[i + 1].do = "InsertIntoParent"
    BY <1>2, <1>4
  <2> QED BY <1>1, <1>2, <2>1, <2>2 DEF Shape, ShapeAt
<1>5. ShapeAt(q, i + 1)
  BY <1>2 DEF Shape
<1>6. r[i].do \in {"StartNewTree", "SplitLeaf"} => i = 1 /\ Len(r) = 1
  BY <1>1, <1>2, <1>5 DEF ShapeAt
<1>7. ASSUME r[i].do = "Descend"
      PROVE  i = Len(r) /\ i = 1
  <2>1. q[i + 1].do = "Descend"
    BY <1>2, <1>7
  <2>2. i + 1 = Len(q) /\ (i + 1 = 1 \/ i + 1 = 2)
    BY <2>1, <1>5 DEF ShapeAt
  <2> QED BY <2>2, <1>1
<1>8. r[i].do = "SplitInternal" => i = 1 /\ IsQuiet(r, i)
  BY <1>1, <1>2, <1>5 DEF ShapeAt
<1>9. ASSUME r[i].do = "InsertIntoParent"
      PROVE  /\ i + 2 <= Len(r)
             /\ r[i + 1] = UnpinPage(r[i].page, TRUE)
             /\ r[i + 2] = UnpinPage(r[i].new, TRUE)
             /\ IsQuiet(r, i)
  <2>1. q[i + 1].do = "InsertIntoParent"
    BY <1>2, <1>9
  <2>2. /\ (i + 1) + 2 <= Len(q)
        /\ q[(i + 1) + 1] = UnpinPage(q[i + 1].page, TRUE)
        /\ q[(i + 1) + 2] = UnpinPage(q[i + 1].new, TRUE)
        /\ IsQuiet(q, i + 1)
    BY <2>1, <1>5 DEF ShapeAt
  <2>3. i + 1 <= Len(r) /\ i + 2 <= Len(r)
    BY <2>2, <1>1
  <2> QED BY <2>2, <2>3, <1>2, <1>3
<1>10. r[i].do = "AdoptChildren" =>
         /\ i + 1 <= Len(r)
         /\ r[i + 1].do = "InsertIntoParent" /\ r[i + 1].new = r[i].page
  BY <1>1, <1>2, <1>5 DEF ShapeAt
<1> QED BY <1>4, <1>6, <1>7, <1>8, <1>9, <1>10 DEF ShapeAt

(* Around the InsertIntoParent of a split.                                 *)
LEMMA ShapeOfSplit ==
  ASSUME NEW r \in Seq(Statement), NEW k \in 1 .. Len(r),
         r[k].do = "InsertIntoParent", k + 2 <= Len(r),
         r[k + 1] = UnpinPage(r[k].page, TRUE), r[k + 2] = UnpinPage(r[k].new, TRUE),
         IsQuiet(r, k),
         \A j \in 1 .. k - 1 :
           \/ r[j].do = "UnpinPage"
           \/ r[j].do = "AdoptChildren" /\ j + 1 = k /\ r[k].new = r[j].page
  PROVE  Shape(r)
<1> SUFFICES ASSUME NEW i \in 1 .. Len(r)
             PROVE  ShapeAt(r, i)
  BY DEF Shape
<1>1. CASE i < k
  <2>1. i \in 1 .. k - 1
    BY <1>1
  <2>2. CASE r[i].do = "UnpinPage"
    BY <2>2 DEF ShapeAt
  <2>3. CASE r[i].do = "AdoptChildren" /\ i + 1 = k /\ r[k].new = r[i].page
    BY <2>3 DEF ShapeAt
  <2> QED BY <2>1, <2>2, <2>3
<1>2. CASE i = k
  BY <1>2 DEF ShapeAt
<1>3. CASE i > k
  <2>1. r[i].do \in {"UnpinPage", "Return"}
    BY <1>3 DEF IsQuiet
  <2> QED BY <2>1 DEF ShapeAt
<1> QED BY <1>1, <1>2, <1>3

(* A step that executes the head puts ready statements in its place.       *)
LEMMA StackThen ==
  ASSUME StackInv, stack # <<>>, NEW xs \in Seq(Statement), Then(xs),
         NEW q, q = stack,
         Shape(stack'),
         \A i \in 1 .. Len(xs) : IsReady(xs[i])',
         \A i \in 2 .. Len(q) : IsReady(q[i])'
  PROVE  StackInv'
<1>1. q \in Seq(Statement) /\ q # <<>>
  BY DEF StackInv
<1>2. PICK r : r = stack'
  OBVIOUS
<1>3. r = xs \o Tail(q)
  BY <1>2 DEF Then
<1>4. /\ r \in Seq(Statement) /\ Len(r) = Len(xs) + Len(q) - 1
      /\ Len(q) \in Nat \ {0} /\ Len(xs) \in Nat
      /\ \A i \in 1 .. Len(xs) : r[i] = xs[i]
      /\ \A i \in Len(xs) + 1 .. Len(r) : r[i] = q[i - Len(xs) + 1]
  BY <1>1, <1>3, ThenProps
<1>5. ASSUME NEW i \in 1 .. Len(r)
      PROVE  IsReady(r[i])'
  <2>1. CASE i <= Len(xs)
    <3>1. i \in 1 .. Len(xs)
      BY <2>1, <1>4
    <3> QED BY <3>1, <1>4
  <2>2. CASE ~(i <= Len(xs))
    <3>1. i \in Len(xs) + 1 .. Len(r) /\ i - Len(xs) + 1 \in 2 .. Len(q)
      BY <2>2, <1>4
    <3> QED BY <3>1, <1>4
  <2> QED BY <2>1, <2>2
<1> QED BY <1>2, <1>4, <1>5 DEF StackInv

-----------------------------------------------------------------------------
(* Pages.                                                                  *)

IsPages(c) == c = [p \in PageId |-> c[p]]

LEMMA NodeFacts ==
  ASSUME PagesInv
  PROVE  /\ Nodes \subseteq PageId /\ Leaves \cap Internals = {} /\ NoPage \notin PageId
         /\ IsPages(contents) /\ num_pages \in 0 .. MAX_PAGES /\ num_pages \in Nat
         /\ \A p \in PageId : p \notin Nodes <=> contents[p] = BlankPage
         /\ \A p \in Nodes : p < num_pages
         /\ \A p \in Leaves : LeafOK(contents[p])
         /\ \A p \in Internals : InternalOK(contents[p])
         /\ num_pages \notin Nodes
<1>1. \A p \in PageId : contents[p] = BlankPage \/ LeafOK(contents[p]) \/ InternalOK(contents[p])
  BY DEF PagesInv
<1>2. BlankPage.type = "invalid"
  BY DEF BlankPage
<1>3. \A n : (LeafOK(n) => n.type = "leaf") /\ (InternalOK(n) => n.type = "internal")
  BY DEF LeafOK, InternalOK, LeafRecord, InternalRecord
<1>4. \A p \in PageId : p \notin Nodes <=> contents[p] = BlankPage
  BY <1>1, <1>2, <1>3 DEF Nodes, Leaves, Internals
<1>5. \A p \in Leaves : LeafOK(contents[p])
  BY <1>1, <1>2, <1>3 DEF Leaves
<1>6. \A p \in Internals : InternalOK(contents[p])
  BY <1>1, <1>2, <1>3 DEF Internals
<1>7. Nodes \subseteq PageId /\ Leaves \cap Internals = {}
  BY DEF Nodes, Leaves, Internals
<1>8. NoPage \notin PageId /\ num_pages \in 0 .. MAX_PAGES /\ num_pages \in Nat
  BY Sizes DEF PagesInv
<1>9. \A p \in PageId : p >= num_pages => contents[p] = BlankPage
  BY DEF PagesInv
<1>10. \A p \in Nodes : p < num_pages
  BY <1>4, <1>7, <1>8, <1>9, Sizes
<1>11. num_pages \notin Nodes
  BY <1>8, <1>10
<1> QED BY <1>4, <1>5, <1>6, <1>7, <1>8, <1>10, <1>11 DEF PagesInv, IsPages

(* Nodes change into nodes of their type, new pages into nodes.            *)
Becomes(p, n) ==
  \/ p \in Leaves /\ LeafOK(n)
  \/ p \in Internals /\ InternalOK(n)
  \/ p \notin Nodes /\ num_pages <= p /\ p < num_pages' /\ (LeafOK(n) \/ InternalOK(n))

LEMMA PagesStep ==
  ASSUME PagesInv, IsPages(contents'), num_pages' \in num_pages .. MAX_PAGES,
         \A p \in PageId : contents'[p] = contents[p] \/ Becomes(p, contents'[p])
  PROVE  /\ Leaves \subseteq Leaves' /\ Internals \subseteq Internals' /\ Nodes \subseteq Nodes'
         /\ \A p \in PageId : LeafOK(contents'[p]) => p \in Leaves'
         /\ \A p \in PageId : InternalOK(contents'[p]) => p \in Internals'
         /\ (/\ root_page_id' \in Nodes'
             /\ root_page_id' = root_page_id \/ root_page_id' \notin Nodes
             /\ \A p \in PageId : InternalOK(contents'[p]) /\ contents'[p] # contents[p] =>
                  \A i \in 1 .. Len(contents'[p].array) :
                    contents'[p].array[i].value \in Nodes' \ {root_page_id'})
            => PagesInv'
<1>1. \A n : (LeafOK(n) => n.type = "leaf") /\ (InternalOK(n) => n.type = "internal")
  BY DEF LeafOK, InternalOK, LeafRecord, InternalRecord
<1>2. /\ Leaves' = {p \in PageId : contents'[p].type = "leaf"}
      /\ Internals' = {p \in PageId : contents'[p].type = "internal"}
      /\ Nodes' = Leaves' \cup Internals'
  BY DEF Leaves, Internals, Nodes, PageId, Pool!PageId
<1>3. \A p \in PageId : /\ LeafOK(contents'[p]) => p \in Leaves'
                        /\ InternalOK(contents'[p]) => p \in Internals'
  BY <1>1, <1>2
<1>4. Leaves \subseteq Leaves'
  <2> SUFFICES ASSUME NEW p \in Leaves
               PROVE  p \in Leaves'
    OBVIOUS
  <2>1. p \in PageId /\ p \in Nodes /\ p \notin Internals
    BY NodeFacts DEF Nodes
  <2>2. CASE contents'[p] = contents[p]
    BY <2>1, <2>2, <1>2 DEF Leaves
  <2>3. CASE Becomes(p, contents'[p])
    BY <2>1, <2>3, <1>3 DEF Becomes
  <2> QED BY <2>1, <2>2, <2>3
<1>5. Internals \subseteq Internals'
  <2> SUFFICES ASSUME NEW p \in Internals
               PROVE  p \in Internals'
    OBVIOUS
  <2>1. p \in PageId /\ p \in Nodes /\ p \notin Leaves
    BY NodeFacts DEF Nodes
  <2>2. CASE contents'[p] = contents[p]
    BY <2>1, <2>2, <1>2 DEF Internals
  <2>3. CASE Becomes(p, contents'[p])
    BY <2>1, <2>3, <1>3 DEF Becomes
  <2> QED BY <2>1, <2>2, <2>3
<1>6. Nodes \subseteq Nodes'
  BY <1>2, <1>4, <1>5 DEF Nodes
<1>7. ASSUME root_page_id' \in Nodes',
             root_page_id' = root_page_id \/ root_page_id' \notin Nodes,
             \A p \in PageId : InternalOK(contents'[p]) /\ contents'[p] # contents[p] =>
               \A i \in 1 .. Len(contents'[p].array) :
                 contents'[p].array[i].value \in Nodes' \ {root_page_id'}
      PROVE  PagesInv'
  <2>1. num_pages' \in 0 .. MAX_PAGES /\ num_pages <= num_pages' /\ num_pages' \in Int
    BY NodeFacts
  <2>2. ASSUME NEW p \in PageId
        PROVE  /\ contents'[p] = BlankPage \/ LeafOK(contents'[p]) \/ InternalOK(contents'[p])
               /\ p >= num_pages' => contents'[p] = BlankPage
    <3>1. p \in Int /\ num_pages \in Int
      BY Sizes, NodeFacts
    <3>2. CASE contents'[p] = contents[p]
      BY <3>1, <3>2, <2>1 DEF PagesInv
    <3>3. CASE Becomes(p, contents'[p])
      <4>1. p \in Nodes => p < num_pages
        BY NodeFacts
      <4>2. p \in Leaves \cup Internals => p \in Nodes
        BY DEF Nodes
      <4> QED BY <3>1, <3>3, <2>1, <4>1, <4>2 DEF Becomes
    <3> QED BY <3>2, <3>3
  <2>3. ASSUME NEW p \in Internals', NEW i \in 1 .. Len(contents'[p].array)
        PROVE  contents'[p].array[i].value \in Nodes' \ {root_page_id'}
    <3>1. p \in PageId /\ contents'[p].type = "internal"
      BY <1>2
    <3>2. CASE contents'[p] = contents[p]
      <4>1. p \in Internals
        BY <3>1, <3>2 DEF Internals
      <4>2. contents[p].array[i].value \in Nodes \ {root_page_id}
        BY <4>1, <3>2 DEF PagesInv
      <4> QED BY <4>2, <3>2, <1>6, <1>7
    <3>3. CASE contents'[p] # contents[p]
      <4>1. InternalOK(contents'[p])
        BY <3>1, <3>3, <1>1, <2>2 DEF BlankPage
      <4> QED BY <4>1, <3>1, <3>3, <1>7
    <3> QED BY <3>2, <3>3
  <2>4. contents' = [p \in PageId |-> contents'[p]]
    BY DEF IsPages
  <2>5. root_page_id' \in Nodes' \cup {NoPage} /\ root_page_id' # NoPage
    <3>1. NoPage \notin PageId /\ Nodes' \subseteq PageId
      BY <1>2, NodeFacts
    <3> QED BY <3>1, <1>7
  <2>6. PageId' = PageId
    BY DEF PageId, Pool!PageId
  <2> QED BY <2>1, <2>2, <2>3, <2>4, <2>5, <2>6 DEF PagesInv
<1> QED BY <1>3, <1>4, <1>5, <1>6, <1>7

-----------------------------------------------------------------------------
(* Pins and dirty bits.                                                    *)

LEMMA CountJoin ==
  ASSUME NEW S, NEW p
  PROVE  \A s, t \in Seq(S) : Count(s \o t, p) = Count(s, p) + Count(t, p)
BY CountConcat

LEMMA PairOfOnes ==
  ASSUME NEW S, NEW a \in S, NEW b \in S
  PROVE  <<a, b>> = <<a>> \o <<b>>
<1>1. PICK r : r = <<a>> \o <<b>>
  OBVIOUS
<1>2. <<a>> \in Seq(S) /\ <<b>> \in Seq(S)
  OBVIOUS
<1>3. /\ r \in Seq(S) /\ Len(r) = Len(<<a>>) + Len(<<b>>)
      /\ \A i \in 1 .. Len(<<a>>) + Len(<<b>>) :
           r[i] = IF i <= Len(<<a>>) THEN <<a>>[i] ELSE <<b>>[i - Len(<<a>>)]
  BY <1>1, <1>2, ConcatProperties
<1>4. r \in Seq(S) /\ Len(r) = 2 /\ r[1] = a /\ r[2] = b
  BY <1>3
<1>5. r = <<a, b>>
  BY <1>4
<1> QED BY <1>1, <1>5

LEMMA CountsThen ==
  ASSUME NEW p
  PROVE  \A xs, q \in Seq(Statement) : q # <<>> =>
           /\ Count(xs \o Tail(q), p) = Count(xs, p) + Count(q, p) - One(Owes(q[1], p))
           /\ Count(xs \o Tail(q), p) \in Nat /\ Count(xs, p) \in Nat /\ Count(q, p) \in Nat
BY CountThen

LEMMA CountTwo ==
  ASSUME NEW S, NEW a \in S, NEW b \in S, NEW p
  PROVE  Count(<<a, b>>, p) = One(Owes(a, p)) + One(Owes(b, p))
<1>1. <<a>> \in Seq(S) /\ <<b>> \in Seq(S)
  OBVIOUS
<1>2. PICK r : r = <<a, b>>
  OBVIOUS
<1>3. r = <<a>> \o <<b>>
  <2>1. <<a, b>> = <<a>> \o <<b>>
    BY PairOfOnes
  <2> QED BY <1>2, <2>1, Zenon
<1>4. Count(r, p) = Count(<<a>>, p) + Count(<<b>>, p)
  BY <1>1, <1>3, CountJoin
<1>5. Count(<<a>>, p) = One(Owes(a, p)) /\ Count(<<b>>, p) = One(Owes(b, p))
  BY CountOne
<1> QED BY <1>2, <1>4, <1>5

LEMMA PairOfPairs ==
  ASSUME NEW S, NEW a \in S, NEW b \in S, NEW c \in S, NEW d \in S
  PROVE  <<a, b, c, d>> = <<a, b>> \o <<c, d>>
OBVIOUS

LEMMA CountFour ==
  ASSUME NEW S, NEW a \in S, NEW b \in S, NEW c \in S, NEW d \in S, NEW p
  PROVE  Count(<<a, b, c, d>>, p) =
           One(Owes(a, p)) + One(Owes(b, p)) + One(Owes(c, p)) + One(Owes(d, p))
<1>1. PICK r : r = <<a, b, c, d>>
  OBVIOUS
<1>2. <<a, b>> \in Seq(S) /\ <<c, d>> \in Seq(S)
  OBVIOUS
<1>3. r = <<a, b>> \o <<c, d>>
  <2>1. <<a, b, c, d>> = <<a, b>> \o <<c, d>>
    BY PairOfPairs, SMTT(60)
  <2> QED BY <1>1, <2>1, Zenon
<1>4. Count(r, p) = Count(<<a, b>>, p) + Count(<<c, d>>, p)
  BY <1>2, <1>3, CountJoin
<1>5. /\ Count(<<a, b>>, p) = One(Owes(a, p)) + One(Owes(b, p))
      /\ Count(<<c, d>>, p) = One(Owes(c, p)) + One(Owes(d, p))
  BY CountTwo
<1>6. /\ One(Owes(a, p)) \in Nat /\ One(Owes(b, p)) \in Nat
      /\ One(Owes(c, p)) \in Nat /\ One(Owes(d, p)) \in Nat
  BY DEF One
<1> QED BY <1>1, <1>4, <1>5, <1>6

LEMMA PinChanges ==
  ASSUME pins \in [PageId -> Nat], NEW a \in PageId
  PROVE  /\ Pool!PlusPin(a) \in [PageId -> Nat]
         /\ \A p \in PageId : Pool!PlusPin(a)[p] = pins[p] + One(a = p)
         /\ pins[a] > 0 => Pool!MinusPin(a) \in [PageId -> Nat]
         /\ \A p \in PageId : Pool!MinusPin(a)[p] = pins[p] - One(a = p)
BY DEF Pool!PlusPin, Pool!MinusPin, One


LEMMA PinsMove ==
  ASSUME PinsInv, StackInv, stack # <<>>, NEW xs \in Seq(Statement), Then(xs),
         held' = held, num_pages \in Nat, num_pages' \in Nat, num_pages <= num_pages',
         pins' \in [PageId -> Nat],
         \A p \in PageId :
           /\ pins'[p] >= pins[p] + Count(xs, p) - One(Owes(stack[1], p))
           /\ HasRoomToSplit => pins'[p] = pins[p] + Count(xs, p) - One(Owes(stack[1], p))
           /\ p >= num_pages' => pins'[p] = 0
  PROVE  PinsInv' /\ (PinsAreExact /\ HasRoomToSplit => PinsAreExact')
<1>1. stack \in Seq(Statement)
  BY DEF StackInv
<1>2. PICK r : r = stack'
  OBVIOUS
<1>3. ASSUME NEW p \in PageId
      PROVE  /\ Count(r, p) = Count(xs, p) + Count(stack, p) - One(Owes(stack[1], p))
             /\ Count(r, p) \in Nat /\ Count(xs, p) \in Nat /\ Count(stack, p) \in Nat
  <2>1. PICK q \in Seq(Statement) : q = stack
    BY <1>1
  <2>2. r = xs \o Tail(q) /\ q # <<>>
    BY <1>2, <2>1 DEF Then
  <2>3. /\ Count(r, p) = Count(xs, p) + Count(q, p) - One(Owes(q[1], p))
        /\ Count(r, p) \in Nat /\ Count(xs, p) \in Nat /\ Count(q, p) \in Nat
    BY <2>2, CountsThen
  <2> QED BY <2>1, <2>3
<1>4. \A p \in PageId : One(p \in held) \in Nat /\ One(Owes(stack[1], p)) \in Nat
  BY DEF One
<1>5. ASSUME NEW p \in PageId
      PROVE  /\ pins'[p] >= Count(r, p) + One(p \in held)
             /\ PinsAreExact /\ HasRoomToSplit => pins'[p] = Count(r, p) + One(p \in held)
  <2>1. /\ pins[p] >= Count(stack, p) + One(p \in held) /\ pins[p] \in Nat /\ pins'[p] \in Nat
        /\ PinsAreExact => pins[p] = Count(stack, p) + One(p \in held)
    BY DEF PinsInv, PinsAreExact
  <2> QED BY <2>1, <1>3, <1>4, SMTT(60)
<1>6. held' \subseteq {p \in PageId : p < num_pages'}
  BY Sizes DEF PinsInv
<1>7. PageId' = PageId
  BY DEF PageId, Pool!PageId
<1>8. PinsInv'
  BY <1>2, <1>5, <1>6, <1>7 DEF PinsInv
<1>9. ASSUME PinsAreExact, HasRoomToSplit
      PROVE  PinsAreExact'
  BY <1>2, <1>5, <1>7, <1>9 DEF PinsAreExact
<1> QED BY <1>8, <1>9

LEMMA DirtyMove ==
  ASSUME DirtyInv, StackInv, stack # <<>>, NEW xs \in Seq(Statement), Then(xs),
         NEW q, q = stack,
         touched' \subseteq PageId,
         \A p \in touched' :
           \/ p \in touched /\ q[1] # UnpinPage(p, TRUE)
           \/ \E i \in 1 .. Len(xs) : xs[i] = UnpinPage(p, TRUE)
           \/ \E i \in 2 .. Len(q) : q[i] = UnpinPage(p, TRUE)
  PROVE  DirtyInv'
<1>1. q \in Seq(Statement) /\ q # <<>>
  BY DEF StackInv
<1>2. PICK r : r = stack' /\ r = xs \o Tail(q)
  BY DEF Then
<1>3. /\ Len(r) = Len(xs) + Len(q) - 1
      /\ Len(q) \in Nat \ {0} /\ Len(xs) \in Nat
      /\ \A i \in 1 .. Len(xs) : r[i] = xs[i]
      /\ \A i \in Len(xs) + 1 .. Len(r) : r[i] = q[i - Len(xs) + 1]
  BY <1>1, <1>2, ThenProps
<1>4. ASSUME NEW p \in touched'
      PROVE  \E i \in 1 .. Len(r) : r[i] = UnpinPage(p, TRUE)
  <2>1. ASSUME NEW i \in 2 .. Len(q), q[i] = UnpinPage(p, TRUE)
        PROVE  \E j \in 1 .. Len(r) : r[j] = UnpinPage(p, TRUE)
    <3>1. /\ i - 1 + Len(xs) \in Len(xs) + 1 .. Len(r)
          /\ (i - 1 + Len(xs)) - Len(xs) + 1 = i
          /\ i - 1 + Len(xs) \in 1 .. Len(r)
      BY <1>3
    <3>2. r[i - 1 + Len(xs)] = q[i]
      BY <3>1, <1>3
    <3> QED BY <3>1, <3>2, <2>1
  <2>2. ASSUME NEW i \in 1 .. Len(xs), xs[i] = UnpinPage(p, TRUE)
        PROVE  \E j \in 1 .. Len(r) : r[j] = UnpinPage(p, TRUE)
    <3>1. i \in 1 .. Len(r)
      BY <1>3
    <3> QED BY <3>1, <2>2, <1>3
  <2>3. ASSUME p \in touched, q[1] # UnpinPage(p, TRUE)
        PROVE  \E i \in 2 .. Len(q) : q[i] = UnpinPage(p, TRUE)
    <3>1. PICK i \in 1 .. Len(q) : q[i] = UnpinPage(p, TRUE)
      BY <2>3 DEF DirtyInv
    <3>2. i # 1
      BY <3>1, <2>3
    <3>3. i \in 2 .. Len(q)
      BY <3>2, <1>3
    <3> QED BY <3>1, <3>3
  <2> QED BY <2>1, <2>2, <2>3
<1>5. PageId' = PageId
  BY DEF PageId, Pool!PageId
<1> QED BY <1>2, <1>4, <1>5 DEF DirtyInv

LEMMA RestStays ==
  ASSUME RestInv, crashed' \in BOOLEAN, UNCHANGED <<reply, inserts>>
  PROVE  RestInv'
BY DEF RestInv, Answer, Found, Missing, Inserted

-----------------------------------------------------------------------------
(* Nodes, parents and the statements behind the head across a step.        *)

LEMMA SplitsRootStays ==
  ASSUME StackInv, stack # <<>>, NEW xs \in Seq(Statement), Then(xs),
         root_page_id' = root_page_id,
         NEW q, q = stack,
         q[1].do # "InsertIntoParent" \/ q[1].page # root_page_id
  PROVE  /\ \A p : SplitsRoot(p) => SplitsRoot(p)'
         /\ \A p : (\E i \in 1 .. Len(xs) :
                      /\ xs[i].do = "InsertIntoParent"
                      /\ xs[i].page = root_page_id /\ xs[i].new = p) => SplitsRoot(p)'
<1>1. q \in Seq(Statement) /\ q # <<>>
  BY DEF StackInv
<1>2. PICK r : r = stack' /\ r = xs \o Tail(q)
  BY DEF Then
<1>3. /\ Len(r) = Len(xs) + Len(q) - 1
      /\ Len(q) \in Nat \ {0} /\ Len(xs) \in Nat
      /\ \A i \in 1 .. Len(xs) : r[i] = xs[i]
      /\ \A i \in Len(xs) + 1 .. Len(r) : r[i] = q[i - Len(xs) + 1]
  BY <1>1, <1>2, ThenProps
<1>4. ASSUME NEW p, SplitsRoot(p)
      PROVE  SplitsRoot(p)'
  <2>1. PICK i \in 1 .. Len(q) : /\ q[i].do = "InsertIntoParent"
                                 /\ q[i].page = root_page_id /\ q[i].new = p
    BY <1>4 DEF SplitsRoot
  <2>2. i # 1
    BY <2>1
  <2>3. i \in 2 .. Len(q)
    BY <2>2, <1>3
  <2>4. PICK j : j = i - 1 + Len(xs)
    OBVIOUS
  <2>5. j \in Len(xs) + 1 .. Len(r) /\ j - Len(xs) + 1 = i /\ j \in 1 .. Len(r)
    BY <2>3, <2>4, <1>3
  <2>6. r[j] = q[i]
    BY <2>5, <1>3
  <2> QED BY <2>1, <2>5, <2>6, <1>2 DEF SplitsRoot
<1>5. ASSUME NEW p, NEW i \in 1 .. Len(xs),
             xs[i].do = "InsertIntoParent", xs[i].page = root_page_id, xs[i].new = p
      PROVE  SplitsRoot(p)'
  <2>1. i \in 1 .. Len(r) /\ r[i] = xs[i]
    BY <1>3
  <2> QED BY <2>1, <1>5, <1>2 DEF SplitsRoot
<1> QED BY <1>4, <1>5

(* Nothing but the stack changes.                                          *)
LEMMA SameNodes ==
  ASSUME PagesInv, contents' = contents, root_page_id' = root_page_id,
         num_pages' \in num_pages .. MAX_PAGES
  PROVE  /\ PagesInv' /\ Leaves' = Leaves /\ Internals' = Internals /\ Nodes' = Nodes
         /\ \A s \in Statement : IsReady(s) => IsReady(s)'
         /\ (\A p : SplitsRoot(p) => SplitsRoot(p)') /\ ParentsInv => ParentsInv'
<1>1. Leaves' = Leaves /\ Internals' = Internals /\ Nodes' = Nodes /\ PageId' = PageId
  BY DEF Leaves, Internals, Nodes, PageId, Pool!PageId
<1>2. num_pages' \in 0 .. MAX_PAGES /\ num_pages <= num_pages' /\ num_pages \in Int
  BY NodeFacts
<1>3. PagesInv'
  <2>1. \A p \in PageId : p >= num_pages' => p >= num_pages
    BY <1>2, Sizes
  <2>2. \A p \in PageId : LeafOK(contents'[p]) <=> LeafOK(contents[p])
    OBVIOUS
  <2> QED BY <1>1, <1>2, <2>1 DEF PagesInv
<1>4. ASSUME NEW s \in Statement, IsReady(s)
      PROVE  IsReady(s)'
  <2>1. s.do = "UnpinPage" => s.page \in Int /\ s.page < num_pages
    BY <1>4, StatementFields, Sizes DEF IsReady
  <2>2. s.do = "UnpinPage" => s.page < num_pages'
    BY <2>1, <1>2
  <2> QED BY <1>1, <1>4, <2>2 DEF IsReady
<1>5. ASSUME \A p : SplitsRoot(p) => SplitsRoot(p)', ParentsInv
      PROVE  ParentsInv'
  BY <1>1, <1>5 DEF ParentsInv
<1> QED BY <1>1, <1>3, <1>4, <1>5

(* Readiness of what does not depend on the contents of a node.            *)
LEMMA StaysReady ==
  ASSUME Nodes \subseteq Nodes', root_page_id' = root_page_id \/ root_page_id' \notin Nodes,
         NEW s, IsReady(s), s.do \in {"UnpinPage", "Return", "InsertIntoParent"},
         s.do = "UnpinPage" => s.page < num_pages'
  PROVE  IsReady(s)'
<1>1. CASE s.do = "UnpinPage"
  BY <1>1 DEF IsReady
<1>2. CASE s.do = "Return"
  BY <1>2 DEF IsReady
<1>3. CASE s.do = "InsertIntoParent"
  <2>1. /\ s.page \in Nodes' /\ s.new \in Nodes'
        /\ s.new # root_page_id /\ s.new # s.page /\ s.new \in Nodes
    BY <1>3 DEF IsReady
  <2>2. s.new # root_page_id'
    BY <2>1
  <2> QED BY <1>3, <2>1, <2>2 DEF IsReady
<1> QED BY <1>1, <1>2, <1>3

(* Nodes change.                                                           *)
ParentOK(p) ==
  \/ p \in Nodes /\ contents'[p].parent = contents[p].parent
  \/ p # root_page_id /\ contents'[p].parent \in Internals'
  \/ p # root_page_id /\ contents'[p].parent = NoPage /\ SplitsRoot(p)'

ChildrenOK(p) ==
  InternalOK(contents'[p]) =>
    \A i \in 1 .. Len(contents'[p].array) :
      contents'[p].array[i].value \in Nodes' \ {root_page_id}

LEMMA NodesStep ==
  ASSUME PagesInv, ParentsInv, root_page_id \in Nodes, root_page_id' = root_page_id,
         IsPages(contents'), num_pages' \in num_pages .. MAX_PAGES,
         \A p \in PageId :
           \/ contents'[p] = contents[p]
           \/ Becomes(p, contents'[p]) /\ ChildrenOK(p) /\ ParentOK(p),
         \A p : SplitsRoot(p) => SplitsRoot(p)'
  PROVE  PagesInv' /\ ParentsInv'
<1>1. /\ Leaves \subseteq Leaves' /\ Internals \subseteq Internals' /\ Nodes \subseteq Nodes'
      /\ (/\ root_page_id' \in Nodes'
          /\ root_page_id' = root_page_id \/ root_page_id' \notin Nodes
          /\ \A p \in PageId : InternalOK(contents'[p]) /\ contents'[p] # contents[p] =>
               \A i \in 1 .. Len(contents'[p].array) :
                 contents'[p].array[i].value \in Nodes' \ {root_page_id'})
         => PagesInv'
  BY PagesStep
<1>2. PagesInv'
  BY <1>1 DEF ChildrenOK
<1>3. root_page_id' # NoPage /\ root_page_id \in PageId
  BY NodeFacts
<1>4. contents[root_page_id].parent = NoPage
  BY <1>3 DEF ParentsInv
<1>5. contents'[root_page_id].parent = NoPage
  <2>1. CASE contents'[root_page_id] = contents[root_page_id]
    BY <2>1, <1>4
  <2>2. CASE ParentOK(root_page_id)
    BY <2>2, <1>4 DEF ParentOK
  <2> QED BY <2>1, <2>2, <1>3
<1>6. ASSUME NEW p \in Nodes', p # root_page_id
      PROVE  \/ contents'[p].parent \in Internals'
             \/ contents'[p].parent = NoPage /\ SplitsRoot(p)'
  <2>1. /\ p \in PageId /\ (p \in Nodes <=> contents[p] # BlankPage)
        /\ p \in Nodes' <=> contents'[p] # BlankPage
    <3>1. Nodes' \subseteq PageId /\ (p \in Nodes' => contents'[p].type # "invalid")
      BY DEF Nodes, Leaves, Internals, PageId, Pool!PageId
    <3> QED BY <3>1, <1>6, NodeFacts DEF BlankPage
  <2>2. ASSUME p \in Nodes, contents'[p].parent = contents[p].parent
        PROVE  \/ contents'[p].parent \in Internals'
               \/ contents'[p].parent = NoPage /\ SplitsRoot(p)'
    BY <2>2, <1>1, <1>6 DEF ParentsInv
  <2>3. CASE contents'[p] = contents[p]
    BY <2>1, <2>2, <2>3, <1>6
  <2>4. CASE ParentOK(p)
    BY <2>2, <2>4 DEF ParentOK
  <2> QED BY <2>1, <2>3, <2>4
<1>7. ParentsInv'
  BY <1>5, <1>6 DEF ParentsInv
<1> QED BY <1>2, <1>7

-----------------------------------------------------------------------------
(* The steps that leave every node as it is.                               *)

LEMMA ChildForIsChild ==
  ASSUME NEW n, InternalOK(n), NEW key
  PROVE  \E i \in 1 .. Len(n.array) :
           /\ ChildFor(n, key) = n.array[i].value
           /\ i > 1 => n.array[i].key <= key
           /\ i < Len(n.array) => ~(n.array[i + 1].key <= key)
<1>1. Len(n.array) \in Nat /\ Len(n.array) >= 1
  BY DEF InternalOK
<1>2. PICK r : r = UpperBound(n.array, 2, key)
  OBVIOUS
<1>3. Bounds(r, 2, Len(n.array), {i \in Int : n.array[i].key <= key})
  BY <1>1, <1>2, UpperBoundFinds
<1>4. ChildFor(n, key) = n.array[r - 1].value
  BY <1>2 DEF ChildFor
<1>5. r \in 2 .. Len(n.array) + 1
  BY <1>3 DEF Bounds
<1>6. r - 1 \in 1 .. Len(n.array) /\ (r - 1) + 1 = r
  BY <1>1, <1>5
<1>7. r - 1 > 1 => n.array[r - 1].key <= key
  BY <1>3, <1>5 DEF Bounds
<1>8. r - 1 < Len(n.array) => ~(n.array[r].key <= key)
  BY <1>1, <1>3, <1>5 DEF Bounds
<1> QED BY <1>4, <1>6, <1>7, <1>8

LEMMA FetchSame ==
  ASSUME NEW p, FetchPage(p, contents)
  PROVE  /\ pins' = Pool!PlusPin(p) /\ Pool!CanPin(p)
         /\ contents' = contents /\ touched' = touched
         /\ num_pages' = num_pages /\ crashed' = crashed
BY DEF FetchPage, Assign

LEMMA SingleThen ==
  ASSUME stack \in Seq(Statement), Len(stack) = 1, NEW xs \in Seq(Statement), Then(xs)
  PROVE  stack' = xs
<1>1. stack # <<>> /\ Tail(stack) \in Seq(Statement) /\ Len(Tail(stack)) = 0
  BY HeadTailProperties, EmptySeq
<1>2. Tail(stack) = <<>>
  BY <1>1, EmptySeq
<1> QED BY <1>2, ConcatEmptySeq DEF Then

(* What a step may put in place of the head, and do to pins and dirty bits *)
(* when no node changes.                                                   *)
GoesOn(xs) ==
  /\ Then(xs) /\ Shape(stack')
  /\ \A i \in 1 .. Len(xs) : IsReady(xs[i])
  /\ stack[1].do # "InsertIntoParent" \/ stack[1].page # root_page_id

PinsFollow(xs) ==
  /\ pins' \in [PageId -> Nat]
  /\ \A p \in PageId :
       /\ pins'[p] = pins[p] + Count(xs, p) - One(Owes(stack[1], p))
       /\ pins'[p] > 0 => p < num_pages

NothingNewDirty ==
  /\ touched' \subseteq touched
  /\ \A p \in touched' : stack[1] # UnpinPage(p, TRUE)

SameTree == UNCHANGED <<contents, root_page_id, num_pages, held>>

LEMMA SameNodesStep ==
  ASSUME IInv, stack # <<>>, NEW xs \in Seq(Statement),
         SameTree, GoesOn(xs), NothingNewDirty, PinsFollow(xs), RestInv'
  PROVE  Keeps
<1>1. PICK q : q = stack
  OBVIOUS
<1>2. /\ Then(xs) /\ Shape(stack')
      /\ \A i \in 1 .. Len(xs) : IsReady(xs[i])
      /\ q[1].do # "InsertIntoParent" \/ q[1].page # root_page_id
      /\ touched' \subseteq touched
      /\ \A p \in touched' : q[1] # UnpinPage(p, TRUE)
      /\ UNCHANGED <<contents, root_page_id, num_pages, held>>
  BY <1>1 DEF GoesOn, NothingNewDirty, SameTree
<1>3. /\ pins' \in [PageId -> Nat]
      /\ \A p \in PageId :
           /\ pins'[p] = pins[p] + Count(xs, p) - One(Owes(stack[1], p))
           /\ pins'[p] > 0 => p < num_pages
  BY DEF PinsFollow
<1>4. PagesInv /\ ParentsInv /\ StackInv /\ PinsInv /\ DirtyInv
  BY DEF IInv
<1>5. num_pages' = num_pages /\ num_pages \in Nat /\ num_pages' \in num_pages .. MAX_PAGES
  BY <1>4, <1>2, NodeFacts
<1>6. \A p : SplitsRoot(p) => SplitsRoot(p)'
  BY <1>1, <1>4, <1>2, SplitsRootStays
<1>7. PagesInv' /\ ParentsInv' /\ \A s \in Statement : IsReady(s) => IsReady(s)'
  BY <1>4, <1>5, <1>6, <1>2, SameNodes
<1>8. StackInv'
  <2>1. \A i \in 1 .. Len(xs) : IsReady(xs[i])'
    BY <1>7, <1>2, ElementOfSeq
  <2>2. \A i \in 2 .. Len(q) : IsReady(q[i])'
    <3>1. q \in Seq(Statement) /\ \A i \in 1 .. Len(q) : IsReady(q[i])
      BY <1>1, <1>4 DEF StackInv
    <3>2. \A i \in 2 .. Len(q) : i \in 1 .. Len(q)
      OBVIOUS
    <3> QED BY <3>1, <3>2, <1>7, ElementOfSeq
  <2> QED BY <1>1, <1>4, <1>2, <2>1, <2>2, StackThen
<1>9. PinsInv' /\ (PinsAreExact /\ HasRoomToSplit => PinsAreExact')
  <2>1. \A p \in PageId : p >= num_pages' => pins'[p] = 0
    BY <1>5, <1>3, Sizes
  <2>3. ASSUME NEW p \in PageId
        PROVE  pins'[p] >= pins[p] + Count(xs, p) - One(Owes(stack[1], p))
    <3>1. pins'[p] \in Nat
      BY <1>3
    <3> QED BY <3>1, <1>3
  <2>4. num_pages <= num_pages'
    BY <1>5
  <2> QED BY <1>4, <1>5, <1>2, <1>3, <2>1, <2>3, <2>4, PinsMove
<1>10. DirtyInv'
  <2>1. touched' \subseteq PageId
    BY <1>4, <1>2 DEF DirtyInv
  <2> QED BY <1>1, <1>4, <1>2, <2>1, DirtyMove
<1> QED BY <1>7, <1>8, <1>9, <1>10 DEF IInv, Keeps

LEMMA DescendHead ==
  ASSUME IInv, Executing("Descend"), NEW s, s = Head(stack)
  PROVE  /\ s = stack[1] /\ s.do = "Descend" /\ s.page \in Nodes /\ s.page \in PageId
         /\ s.page < num_pages
         /\ s.key \in Key /\ s.op \in {"Insert", "GetValue"} /\ s.value \in RecordID \cup {NoReply}
         /\ s.op = "Insert" => s.value \in RecordID
         /\ stack \in Seq(Statement) /\ stack # <<>> /\ Len(stack) = 1
         /\ \A p : ~Owes(stack[1], p) /\ stack[1] # UnpinPage(p, TRUE)
         /\ IsInternal(contents[s.page]) => s.page \in Internals /\ InternalOK(contents[s.page])
         /\ ~IsInternal(contents[s.page]) => s.page \in Leaves /\ LeafOK(contents[s.page])
<1>1. PagesInv /\ StackInv
  BY DEF IInv
<1>2. /\ s \in Statement /\ s = stack[1] /\ s.do = "Descend" /\ IsReady(s)
      /\ stack \in Seq(Statement) /\ stack # <<>> /\ Len(stack) \in Nat \ {0}
  BY <1>1, HeadProps
<1>3. Len(stack) = 1
  BY <1>1, <1>2, ShapeOfHead DEF StackInv
<1>4. /\ s.page \in PageId /\ s.key \in Key
      /\ s.op \in {"Insert", "GetValue"} /\ s.value \in RecordID \cup {NoReply}
  BY <1>2, StatementFields
<1>5. s.page \in Nodes /\ (s.op = "Insert" => s.value \in RecordID)
  BY <1>2 DEF IsReady
<1>6. \A p : ~Owes(stack[1], p) /\ stack[1] # UnpinPage(p, TRUE)
  BY <1>2 DEF Owes, UnpinPage
<1>7. /\ IsInternal(contents[s.page]) => s.page \in Internals /\ InternalOK(contents[s.page])
      /\ ~IsInternal(contents[s.page]) => s.page \in Leaves /\ LeafOK(contents[s.page])
  <2>1. s.page \in Internals => IsInternal(contents[s.page])
    BY DEF Internals, IsInternal
  <2>2. s.page \in Leaves => ~IsInternal(contents[s.page])
    BY DEF Leaves, IsInternal
  <2> QED BY <1>1, <1>5, <2>1, <2>2, NodeFacts DEF Nodes
<1>8. s.page < num_pages
  BY <1>1, <1>5, NodeFacts
<1> QED BY <1>2, <1>3, <1>4, <1>5, <1>6, <1>7, <1>8

LEMMA ReadyUnpin ==
  ASSUME NEW page, page < num_pages, NEW is_dirty
  PROVE  IsReady(UnpinPage(page, is_dirty))
BY DEF IsReady, UnpinPage

LEMMA ReadyReturn == ASSUME NEW answer PROVE IsReady(Return(answer))
BY DEF IsReady, Return

LEMMA ReadyDescend ==
  ASSUME NEW page \in Nodes, NEW key, NEW op, NEW value, op = "Insert" => value \in RecordID
  PROVE  IsReady(Descend(page, key, op, value))
BY DEF IsReady, Descend

LEMMA ShapeOfDescent ==
  ASSUME NEW a \in Statement, NEW b \in Statement, a.do = "UnpinPage", b.do \in {"Return", "Descend"}
  PROVE  Shape(<<a, b>>)
<1>1. Len(<<a, b>>) = 2 /\ <<a, b>>[1] = a /\ <<a, b>>[2] = b
  OBVIOUS
<1>2. ASSUME NEW i \in 1 .. 2
      PROVE  ShapeAt(<<a, b>>, i)
  <2>1. CASE i = 1
    BY <1>1, <2>1 DEF ShapeAt
  <2>2. CASE i = 2
    BY <1>1, <2>2 DEF ShapeAt
  <2> QED BY <2>1, <2>2
<1> QED BY <1>1, <1>2 DEF Shape

LEMMA ShapeOfOne ==
  ASSUME NEW a \in Statement, a.do \in {"Return", "Descend", "SplitLeaf", "StartNewTree"}
  PROVE  Shape(<<a>>)
<1>1. Len(<<a>>) = 1 /\ <<a>>[1] = a
  OBVIOUS
<1>2. ShapeAt(<<a>>, 1)
  BY <1>1 DEF ShapeAt
<1> QED BY <1>1, <1>2 DEF Shape

(* A read of a page that is given back at once.                            *)
LEMMA ReadStep ==
  ASSUME IInv, Executing("Descend"), NEW s, s = Head(stack), FetchPage(s.page, contents),
         NEW b \in Statement, b.do \in {"Return", "Descend"}, IsReady(b),
         Then(<<UnpinPage(s.page, FALSE), b>>),
         UNCHANGED <<root_page_id, held, reply, inserts>>
  PROVE  Keeps
<1>1. /\ s = stack[1] /\ s.do = "Descend" /\ s.page \in PageId /\ s.page < num_pages
      /\ stack \in Seq(Statement) /\ stack # <<>> /\ Len(stack) = 1
      /\ \A p : ~Owes(stack[1], p) /\ stack[1] # UnpinPage(p, TRUE)
  BY DescendHead
<1>2. PICK a \in Statement : a = UnpinPage(s.page, FALSE)
  BY <1>1, MakeStatement
<1>3. PICK xs \in Seq(Statement) : xs = <<a, b>>
  <2>1. <<a, b>> \in Seq(Statement)
    OBVIOUS
  <2> QED BY <2>1
<1>4. Then(xs)
  BY <1>2, <1>3
<1>5. /\ pins' = Pool!PlusPin(s.page) /\ contents' = contents /\ touched' = touched
      /\ num_pages' = num_pages /\ crashed' = crashed
  BY FetchSame
<1>6. Shape(stack')
  <2>1. a.do = "UnpinPage"
    BY <1>2 DEF UnpinPage
  <2>2. stack' = xs
    BY <1>1, <1>4, SingleThen
  <2> QED BY <1>3, <2>1, <2>2, ShapeOfDescent
<1>7. \A i \in 1 .. Len(xs) : IsReady(xs[i])
  <2>1. IsReady(a)
    BY <1>1, <1>2, ReadyUnpin
  <2>2. Len(xs) = 2 /\ xs[1] = a /\ xs[2] = b
    BY <1>3
  <2>3. ASSUME NEW i \in 1 .. 2
        PROVE  IsReady(xs[i])
    <3>1. i = 1 \/ i = 2
      OBVIOUS
    <3> QED BY <3>1, <2>1, <2>2
  <2> QED BY <2>2, <2>3
<1>8. pins \in [PageId -> Nat] /\ \A p \in PageId : p >= num_pages => pins[p] = 0
  BY DEF IInv, PinsInv
<1>9. pins' \in [PageId -> Nat] /\ \A p \in PageId : pins'[p] = pins[p] + One(s.page = p)
  BY <1>1, <1>5, <1>8, PinChanges
<1>10. ASSUME NEW p \in PageId
       PROVE  /\ pins'[p] = pins[p] + Count(xs, p) - One(Owes(stack[1], p))
              /\ pins'[p] > 0 => p < num_pages
  <2>1. Count(xs, p) = One(Owes(a, p)) + One(Owes(b, p))
    BY <1>3, CountTwo
  <2>2. a.do = "UnpinPage" /\ a.page = s.page
    BY <1>2 DEF UnpinPage
  <2>3. Count(xs, p) = One(s.page = p) /\ One(Owes(stack[1], p)) = 0
    BY <1>1, <2>1, <2>2 DEF One, Owes
  <2>4. pins'[p] > 0 => p < num_pages
    <3>1. p \in Int /\ num_pages \in Int /\ pins[p] \in Nat
      BY <1>8, Sizes, NodeFacts DEF IInv
    <3> QED BY <3>1, <1>1, <1>8, <1>9 DEF One
  <2>5. pins[p] \in Nat /\ One(s.page = p) \in Nat
    BY <1>8 DEF One
  <2> QED BY <2>3, <2>4, <2>5, <1>9
<1>11. RestInv'
  BY <1>5, RestStays DEF IInv, RestInv
<1>12. stack[1].do # "InsertIntoParent"
  BY <1>1
<1>13. SameTree /\ NothingNewDirty
  BY <1>1, <1>5 DEF SameTree, NothingNewDirty
<1>14. GoesOn(xs) /\ PinsFollow(xs)
  BY <1>4, <1>6, <1>7, <1>9, <1>10, <1>12 DEF GoesOn, PinsFollow
<1> QED BY <1>1, <1>11, <1>13, <1>14, SameNodesStep

LEMMA PassInternalKeeps ==
  ASSUME IInv, PassInternal, UNCHANGED <<held, reply, inserts>>
  PROVE  Keeps
<1> DEFINE s    == Head(stack)
           node == contents[s.page]
           b    == Descend(ChildFor(node, s.key), s.key, s.op, s.value)
<1>1. /\ Executing("Descend") /\ IsInternal(node) /\ FetchPage(s.page, contents)
      /\ Then(<<UnpinPage(s.page, FALSE), b>>)
      /\ root_page_id' = root_page_id
  BY DEF PassInternal
<1>2. /\ s.page \in Internals /\ InternalOK(node) /\ s.page \in PageId
      /\ s.key \in Key /\ s.op \in {"Insert", "GetValue"} /\ s.value \in RecordID \cup {NoReply}
      /\ s.op = "Insert" => s.value \in RecordID
  BY <1>1, DescendHead
<1>3. ChildFor(node, s.key) \in Nodes
  <2>1. PICK i \in 1 .. Len(node.array) : ChildFor(node, s.key) = node.array[i].value
    BY <1>2, ChildForIsChild
  <2> QED BY <1>2, <2>1 DEF IInv, PagesInv
<1>4. ChildFor(node, s.key) \in PageId
  BY <1>3, NodeFacts DEF IInv
<1>5. b \in Statement /\ b.do \in {"Return", "Descend"} /\ IsReady(b)
  <2>1. b \in Statement
    BY <1>2, <1>4, MakeStatement
  <2>2. IsReady(b)
    BY <1>2, <1>3, ReadyDescend
  <2> QED BY <2>1, <2>2 DEF Descend
<1> HIDE DEF b, s, node
<1>6. PICK t : t = s
  OBVIOUS
<1>7. t = Head(stack)
  BY <1>6 DEF s
<1> QED BY <1>1, <1>5, <1>6, <1>7, ReadStep

LEMMA LookUpInLeafKeeps ==
  ASSUME IInv, LookUpInLeaf, UNCHANGED <<held, reply, inserts>>
  PROVE  Keeps
<1> DEFINE s    == Head(stack)
           leaf == contents[s.page]
           hit  == LeafLookup(leaf, s.key)
           answer == IF hit = 0 THEN Missing(s.key)
                     ELSE Found(Entry(s.key, leaf.array[hit].value))
           b    == Return(answer)
<1>1. /\ Executing("Descend") /\ ~IsInternal(leaf) /\ FetchPage(s.page, contents)
      /\ Then(<<UnpinPage(s.page, FALSE), b>>)
      /\ root_page_id' = root_page_id
  BY DEF LookUpInLeaf
<1>2. s.page \in Leaves /\ LeafOK(leaf) /\ s.page \in PageId /\ s.key \in Key
  BY <1>1, DescendHead
<1>3. answer \in Answer
  <2>1. /\ Len(leaf.array) \in Nat
        /\ \A i \in 1 .. Len(leaf.array) : leaf.array[i] \in LeafEntry
    BY <1>2, ElementOfSeq, LenProperties DEF LeafOK, LeafRecord
  <2>2. s.key \in Int /\ \A i \in 1 .. Len(leaf.array) : leaf.array[i].key \in Int
    BY <1>2, <2>1, Sizes DEF LeafEntry
  <2>3. hit \in 0 .. Len(leaf.array)
    BY <2>1, <2>2, LookupFinds
  <2> HIDE DEF hit
  <2>4. CASE hit = 0
    BY <1>2, <2>4 DEF Answer
  <2>5. CASE hit # 0
    <3>1. hit \in 1 .. Len(leaf.array)
      BY <2>1, <2>3, <2>5
    <3>2. leaf.array[hit] \in LeafEntry
      BY <2>1, <3>1
    <3>3. PICK e \in LeafEntry : e = leaf.array[hit]
      BY <3>2
    <3>4. e.value \in RecordID
      BY DEF LeafEntry
    <3>5. Found(Entry(s.key, e.value)) \in Answer
      BY <1>2, <3>4 DEF Answer
    <3>6. answer = Found(Entry(s.key, e.value))
      BY <2>5, <3>3
    <3> QED BY <3>5, <3>6
  <2> QED BY <2>4, <2>5
<1>4. b \in Statement /\ b.do \in {"Return", "Descend"} /\ IsReady(b)
  <2> HIDE DEF answer
  <2>1. b \in Statement
    BY <1>3, MakeStatement
  <2>2. IsReady(b)
    BY ReadyReturn
  <2> QED BY <2>1, <2>2 DEF Return
<1> HIDE DEF b, s, leaf
<1>6. PICK t : t = s
  OBVIOUS
<1>7. t = Head(stack)
  BY <1>6 DEF s
<1> QED BY <1>1, <1>4, <1>6, <1>7, ReadStep

(* A page is fetched for the statement that will give it back.             *)
LEMMA TakeStep ==
  ASSUME IInv, stack # <<>>, NEW q, q = stack,
         q[1].do \in {"Descend", "InsertIntoParent"},
         q[1].do # "InsertIntoParent" \/ q[1].page # root_page_id,
         NEW page \in PageId, page < num_pages, FetchPage(page, contents),
         NEW b \in Statement, b.do \in {"SplitLeaf", "SplitInternal"}, b.page = page,
         IsReady(b), Then(<<b>>), Shape(stack'),
         UNCHANGED <<root_page_id, held, reply, inserts>>
  PROVE  Keeps
<1>1. PICK xs \in Seq(Statement) : xs = <<b>>
  <2>1. <<b>> \in Seq(Statement)
    OBVIOUS
  <2> QED BY <2>1
<1>2. Then(xs)
  BY <1>1
<1>3. /\ pins' = Pool!PlusPin(page) /\ contents' = contents /\ touched' = touched
      /\ num_pages' = num_pages /\ crashed' = crashed
  BY FetchSame
<1>4. \A i \in 1 .. Len(xs) : IsReady(xs[i])
  <2>1. Len(xs) = 1 /\ xs[1] = b
    BY <1>1
  <2> QED BY <2>1
<1>5. pins \in [PageId -> Nat] /\ \A p \in PageId : p >= num_pages => pins[p] = 0
  BY DEF IInv, PinsInv
<1>6. pins' \in [PageId -> Nat] /\ \A p \in PageId : pins'[p] = pins[p] + One(page = p)
  BY <1>3, <1>5, PinChanges
<1>7. ASSUME NEW p \in PageId
      PROVE  /\ pins'[p] = pins[p] + Count(xs, p) - One(Owes(q[1], p))
             /\ pins'[p] > 0 => p < num_pages
  <2>1. Count(xs, p) = One(Owes(b, p))
    BY <1>1, CountOne
  <2>2. Count(xs, p) = One(page = p) /\ One(Owes(q[1], p)) = 0
    BY <2>1 DEF One, Owes
  <2>3. pins'[p] > 0 => p < num_pages
    <3>1. p \in Int /\ num_pages \in Int /\ pins[p] \in Nat
      BY <1>5, Sizes, NodeFacts DEF IInv
    <3> QED BY <3>1, <1>5, <1>6 DEF One
  <2>4. pins[p] \in Nat /\ One(page = p) \in Nat
    BY <1>5 DEF One
  <2> QED BY <2>2, <2>3, <2>4, <1>6
<1>8. RestInv'
  BY <1>3, RestStays DEF IInv, RestInv
<1>9. SameTree /\ NothingNewDirty
  BY <1>3 DEF SameTree, NothingNewDirty, UnpinPage
<1>10. GoesOn(xs)
  BY <1>2, <1>4 DEF GoesOn
<1>11. PinsFollow(xs)
  BY <1>6, <1>7 DEF PinsFollow
<1> QED BY <1>8, <1>9, <1>10, <1>11, SameNodesStep

(* The head is done and no page is touched.                                *)
LEMMA DropStep ==
  ASSUME IInv, stack # <<>>, NEW q, q = stack,
         q[1].do \in {"StartNewTree", "Return"},
         NEW xs \in Seq(Statement), Then(xs), \A i \in 1 .. Len(xs) : xs[i].do = "Return",
         Shape(stack'),
         UNCHANGED <<root_page_id, pool, held, crashed, inserts>>, RestInv'
  PROVE  Keeps
<1>1. \A i \in 1 .. Len(xs) : IsReady(xs[i])
  BY DEF IsReady
<1>2. pins \in [PageId -> Nat] /\ \A p \in PageId : p >= num_pages => pins[p] = 0
  BY DEF IInv, PinsInv
<1>3. /\ pins' = pins /\ contents' = contents /\ touched' = touched
      /\ num_pages' = num_pages
  BY DEF pool
<1>4. ASSUME NEW p \in PageId
      PROVE  /\ pins'[p] = pins[p] + Count(xs, p) - One(Owes(q[1], p))
             /\ pins'[p] > 0 => p < num_pages
  <2>1. Owing(xs, p) = {} /\ One(Owes(q[1], p)) = 0
    BY DEF Owing, Owes, One
  <2>2. Count(xs, p) = 0
    BY <2>1, FS_EmptySet DEF Count
  <2>3. p \in Int /\ num_pages \in Int /\ pins[p] \in Nat
    BY <1>2, Sizes, NodeFacts DEF IInv
  <2> QED BY <2>1, <2>2, <2>3, <1>2, <1>3
<1>5. SameTree /\ NothingNewDirty
  BY <1>3 DEF SameTree, NothingNewDirty, UnpinPage
<1>6. GoesOn(xs)
  BY <1>1 DEF GoesOn
<1>7. PinsFollow(xs)
  BY <1>2, <1>3, <1>4 DEF PinsFollow
<1> QED BY <1>5, <1>6, <1>7, SameNodesStep

(* Nothing of the tree changes and the call in progress is where it was.   *)
LEMMA NoStep ==
  ASSUME IInv, UNCHANGED <<root_page_id, pool, held, stack>>, RestInv'
  PROVE  Keeps
<1>1. /\ pins' = pins /\ contents' = contents /\ touched' = touched
      /\ num_pages' = num_pages /\ PageId' = PageId
  BY DEF pool, PageId, Pool!PageId
<1>2. num_pages' \in num_pages .. MAX_PAGES
  BY <1>1, NodeFacts DEF IInv
<1>3. \A p : SplitsRoot(p) => SplitsRoot(p)'
  BY DEF SplitsRoot
<1>4. PagesInv' /\ ParentsInv' /\ \A s \in Statement : IsReady(s) => IsReady(s)'
  BY <1>1, <1>2, <1>3, SameNodes DEF IInv
<1>5. StackInv'
  <2>1. PICK q \in Seq(Statement) : q = stack
    BY DEF IInv, StackInv
  <2>2. Shape(q) /\ \A i \in 1 .. Len(q) : IsReady(q[i])
    BY <2>1 DEF IInv, StackInv
  <2>3. \A i \in 1 .. Len(q) : IsReady(q[i])'
    BY <2>2, <1>4, ElementOfSeq
  <2>4. stack' = q
    BY <2>1
  <2> QED BY <2>2, <2>3, <2>4 DEF StackInv
<1>6. PinsInv'
  BY <1>1 DEF IInv, PinsInv
<1>7. DirtyInv'
  BY <1>1 DEF IInv, DirtyInv
<1>8. PinsAreExact => PinsAreExact'
  BY <1>1 DEF PinsAreExact
<1> QED BY <1>4, <1>5, <1>6, <1>7, <1>8 DEF IInv, Keeps

LEMMA CrashKeeps ==
  ASSUME IInv, Crash, UNCHANGED <<held, reply, inserts>>
  PROVE  Keeps
<1>1. RestInv'
  BY RestStays DEF IInv, Crash
<1> QED BY <1>1, NoStep DEF Crash

LEMMA DoReturnKeeps ==
  ASSUME IInv, DoReturn
  PROVE  Keeps
<1>1. PICK s : s = Head(stack)
  OBVIOUS
<1>2. /\ s \in Statement /\ s = stack[1] /\ s.do = "Return"
      /\ stack \in Seq(Statement) /\ stack # <<>>
  BY <1>1, HeadProps DEF DoReturn, IInv
<1>3. PICK xs \in Seq(Statement) : xs = <<>>
  <2>1. <<>> \in Seq(Statement)
    OBVIOUS
  <2> QED BY <2>1
<1>4. Then(xs)
  BY <1>3 DEF DoReturn
<1>5. Shape(stack')
  <2>1. PICK r : r = stack'
    OBVIOUS
  <2>2. r = <<>> \o Tail(stack)
    BY <2>1 DEF DoReturn, Then
  <2>3. stack[1].do \in {"UnpinPage", "Return"}
    BY <1>2
  <2>4. Shape(r)
    BY <1>2, <2>2, <2>3, ShapeOfPop DEF IInv, StackInv
  <2> QED BY <2>1, <2>4
<1>6. s.answer \in Answer /\ Answer' = Answer
  BY <1>2, StatementFields DEF Answer, Found, Missing, Inserted
<1>7. RestInv'
  BY <1>1, <1>6 DEF DoReturn, RestInv, IInv
<1>8. \A i \in 1 .. Len(xs) : xs[i].do = "Return"
  BY <1>3
<1>9. UNCHANGED <<root_page_id, pool, held, crashed, inserts>>
  BY DEF DoReturn
<1>10. stack[1].do \in {"StartNewTree", "Return"}
  BY <1>2
<1> HIDE DEF IInv
<1> QED BY <1>2, <1>4, <1>5, <1>7, <1>8, <1>9, <1>10, DropStep

LEMMA DoUnpinPageKeeps ==
  ASSUME IInv, DoUnpinPage, UNCHANGED <<held, reply, inserts>>
  PROVE  Keeps
<1>1. PICK s : s = Head(stack)
  OBVIOUS
<1>2. PICK q : q = stack
  OBVIOUS
<1>3. /\ s \in Statement /\ s = q[1] /\ s.do = "UnpinPage"
      /\ q \in Seq(Statement) /\ q # <<>>
  BY <1>1, <1>2, HeadProps DEF DoUnpinPage, IInv
<1>4. /\ s.page \in PageId /\ s.is_dirty \in BOOLEAN
      /\ s = UnpinPage(s.page, s.is_dirty)
  BY <1>3, StatementFields
<1>5. /\ pins[s.page] > 0 /\ pins' = Pool!MinusPin(s.page)
      /\ touched' = IF s.is_dirty THEN touched \ {s.page} ELSE touched
      /\ UNCHANGED <<contents, num_pages, root_page_id, crashed>>
  BY <1>1 DEF DoUnpinPage
<1>6. PICK xs \in Seq(Statement) : xs = <<>>
  <2>1. <<>> \in Seq(Statement)
    OBVIOUS
  <2> QED BY <2>1
<1>7. Then(xs)
  BY <1>6 DEF DoUnpinPage
<1>8. Shape(stack')
  <2>1. PICK r : r = stack'
    OBVIOUS
  <2>2. r = <<>> \o Tail(q)
    BY <2>1, <1>2 DEF DoUnpinPage, Then
  <2>3. q[1].do \in {"UnpinPage", "Return"}
    BY <1>3
  <2>4. Shape(r)
    BY <1>2, <1>3, <2>2, <2>3, ShapeOfPop DEF IInv, StackInv
  <2> QED BY <2>1, <2>4
<1>9. \A i \in 1 .. Len(xs) : IsReady(xs[i])
  BY <1>6
<1>10. pins \in [PageId -> Nat] /\ \A p \in PageId : p >= num_pages => pins[p] = 0
  BY DEF IInv, PinsInv
<1>11. pins' \in [PageId -> Nat] /\ \A p \in PageId : pins'[p] = pins[p] - One(s.page = p)
  BY <1>4, <1>5, <1>10, PinChanges
<1>12. ASSUME NEW p \in PageId
       PROVE  /\ pins'[p] = pins[p] + Count(xs, p) - One(Owes(q[1], p))
              /\ pins'[p] > 0 => p < num_pages
  <2>1. Count(xs, p) = 0
    BY <1>6, CountEmpty
  <2>2. One(Owes(q[1], p)) = One(s.page = p)
    BY <1>3 DEF One, Owes
  <2>3. p \in Int /\ num_pages \in Int /\ pins[p] \in Nat /\ One(s.page = p) \in Nat
    BY <1>10, Sizes, NodeFacts DEF IInv, One
  <2> QED BY <2>1, <2>2, <2>3, <1>10, <1>11
<1>13. \A p \in touched' : q[1] # UnpinPage(p, TRUE)
  <2> SUFFICES ASSUME NEW p \in touched', q[1] = UnpinPage(p, TRUE)
               PROVE  FALSE
    OBVIOUS
  <2>1. s.page = p /\ s.is_dirty = TRUE
    BY <1>3 DEF UnpinPage
  <2> QED BY <2>1, <1>5
<1>14. touched' \subseteq touched
  BY <1>5
<1>15. RestInv'
  BY <1>5, RestStays DEF IInv, RestInv
<1>16. SameTree /\ NothingNewDirty
  BY <1>2, <1>5, <1>13, <1>14 DEF SameTree, NothingNewDirty
<1>17. GoesOn(xs)
  BY <1>2, <1>3, <1>7, <1>8, <1>9 DEF GoesOn
<1>18. PinsFollow(xs)
  BY <1>2, <1>11, <1>12 DEF PinsFollow
<1>19. stack # <<>>
  BY <1>2, <1>3
<1> QED BY <1>15, <1>16, <1>17, <1>18, <1>19, SameNodesStep

-----------------------------------------------------------------------------
(* The steps that change nodes.                                            *)

ReadyAfter(xs) == \A i \in 1 .. Len(xs) : IsReady(xs[i])'

CalmBehind ==
  \A i \in 2 .. Len(stack) : stack[i].do \in {"UnpinPage", "Return", "InsertIntoParent"}

PinsFollowTo(xs) ==
  /\ pins' \in [PageId -> Nat]
  /\ \A p \in PageId :
       /\ pins'[p] >= pins[p] + Count(xs, p) - One(Owes(stack[1], p))
       /\ HasRoomToSplit => pins'[p] = pins[p] + Count(xs, p) - One(Owes(stack[1], p))
       /\ p >= num_pages' => pins'[p] = 0

WillUnpin(xs, p) ==
  \/ \E i \in 1 .. Len(xs) : xs[i] = UnpinPage(p, TRUE)
  \/ \E i \in 2 .. Len(stack) : stack[i] = UnpinPage(p, TRUE)

DirtyAfter(xs) ==
  /\ touched' \subseteq PageId
  /\ \A p \in touched' : (p \in touched /\ stack[1].do # "UnpinPage") \/ WillUnpin(xs, p)

TreeGrows ==
  /\ Nodes \subseteq Nodes' /\ num_pages' \in num_pages .. MAX_PAGES
  /\ root_page_id' = root_page_id \/ root_page_id' \notin Nodes

LEMMA StepDone ==
  ASSUME IInv, stack # <<>>, NEW xs \in Seq(Statement), Then(xs), Shape(stack'),
         PagesInv', ParentsInv', TreeGrows, held' = held,
         ReadyAfter(xs), CalmBehind, PinsFollowTo(xs), DirtyAfter(xs), RestInv'
  PROVE  Keeps
<1>1. PagesInv /\ StackInv /\ PinsInv /\ DirtyInv
  BY DEF IInv
<1>2. PICK q : q = stack
  OBVIOUS
<1>3. /\ num_pages \in Nat /\ num_pages' \in Nat /\ num_pages <= num_pages'
      /\ num_pages' \in num_pages .. MAX_PAGES
  BY <1>1, NodeFacts DEF TreeGrows
<1>4. StackInv'
  <2>1. ASSUME NEW i \in 2 .. Len(q)
        PROVE  IsReady(q[i])'
    <3>1. q \in Seq(Statement) /\ IsReady(q[i]) /\ i \in 1 .. Len(q)
      BY <1>1, <1>2 DEF StackInv
    <3>2. PICK s \in Statement : s = q[i]
      BY <3>1, ElementOfSeq
    <3>3. s.do \in {"UnpinPage", "Return", "InsertIntoParent"}
      BY <1>2, <3>2 DEF CalmBehind
    <3>4. IsReady(s)
      BY <3>1, <3>2
    <3>5. s.do = "UnpinPage" => s.page < num_pages'
      <4>1. s.do = "UnpinPage" => s.page \in Int /\ s.page < num_pages
        BY <3>4, StatementFields, Sizes DEF IsReady
      <4> QED BY <4>1, <1>3
    <3>6. Nodes \subseteq Nodes' /\ (root_page_id' = root_page_id \/ root_page_id' \notin Nodes)
      BY DEF TreeGrows
    <3>7. IsReady(s)'
      BY <3>3, <3>4, <3>5, <3>6, StaysReady
    <3> QED BY <3>2, <3>7
  <2>2. \A i \in 1 .. Len(xs) : IsReady(xs[i])'
    BY DEF ReadyAfter
  <2> QED BY <1>1, <1>2, <2>1, <2>2, StackThen
<1>5. PinsInv' /\ (PinsAreExact /\ HasRoomToSplit => PinsAreExact')
  <2>1. /\ pins' \in [PageId -> Nat]
        /\ \A p \in PageId :
             /\ pins'[p] >= pins[p] + Count(xs, p) - One(Owes(stack[1], p))
             /\ HasRoomToSplit => pins'[p] = pins[p] + Count(xs, p) - One(Owes(stack[1], p))
             /\ p >= num_pages' => pins'[p] = 0
    BY DEF PinsFollowTo
  <2> QED BY <1>1, <1>3, <2>1, PinsMove
<1>6. DirtyInv'
  <2>1. /\ touched' \subseteq PageId
        /\ \A p \in touched' :
             \/ p \in touched /\ q[1] # UnpinPage(p, TRUE)
             \/ \E i \in 1 .. Len(xs) : xs[i] = UnpinPage(p, TRUE)
             \/ \E i \in 2 .. Len(q) : q[i] = UnpinPage(p, TRUE)
    <3>1. \A p : UnpinPage(p, TRUE).do = "UnpinPage"
      BY DEF UnpinPage
    <3> QED BY <1>2, <3>1 DEF DirtyAfter, WillUnpin
  <2> QED BY <1>1, <1>2, <2>1, DirtyMove
<1> QED BY <1>4, <1>5, <1>6 DEF IInv, Keeps

(* The new pin is given back, and those the head owed still are.           *)
Balanced(xs, page) ==
  \A p \in PageId : Count(xs, p) = One(page = p) + One(Owes(stack[1], p))

LEMMA BalancedPins ==
  ASSUME IInv, NEW xs \in Seq(Statement), NEW page \in PageId, Balanced(xs, page),
         pins' = Pool!PlusPin(page), page < num_pages', num_pages' \in num_pages .. MAX_PAGES
  PROVE  PinsFollowTo(xs)
<1>1. pins \in [PageId -> Nat] /\ \A p \in PageId : p >= num_pages => pins[p] = 0
  BY DEF IInv, PinsInv
<1>2. pins' \in [PageId -> Nat] /\ \A p \in PageId : pins'[p] = pins[p] + One(page = p)
  BY <1>1, PinChanges
<1>3. ASSUME NEW p \in PageId
      PROVE  /\ pins'[p] = pins[p] + Count(xs, p) - One(Owes(stack[1], p))
             /\ pins'[p] >= pins[p] + Count(xs, p) - One(Owes(stack[1], p))
             /\ p >= num_pages' => pins'[p] = 0
  <2>1. Count(xs, p) = One(page = p) + One(Owes(stack[1], p))
    BY DEF Balanced
  <2>2. /\ One(page = p) \in Nat /\ One(Owes(stack[1], p)) \in Nat /\ pins[p] \in Nat
        /\ p \in Int /\ num_pages \in Int /\ num_pages' \in Int
    BY <1>1, Sizes, NodeFacts DEF IInv, One
  <2>3. p >= num_pages' => pins'[p] = 0
    BY <1>1, <1>2, <2>2 DEF One
  <2> QED BY <1>2, <2>1, <2>2, <2>3
<1> QED BY <1>2, <1>3 DEF PinsFollowTo

LEMMA WhatIsDirty ==
  ASSUME IInv, NEW xs, NEW nodes, Assign(nodes), stack[1].do # "UnpinPage",
         \A p \in PageId : nodes[p] # contents[p] => WillUnpin(xs, p)
  PROVE  DirtyAfter(xs)
<1>1. touched' = touched \cup {p \in PageId : nodes[p] # contents[p]}
  BY DEF Assign
<1>2. touched \subseteq PageId
  BY DEF IInv, DirtyInv
<1> HIDE DEF WillUnpin, IInv
<1> QED BY <1>1, <1>2 DEF DirtyAfter

LEMMA FetchFacts ==
  ASSUME NEW p, NEW nodes, FetchPage(p, nodes)
  PROVE  /\ pins' = Pool!PlusPin(p) /\ Assign(nodes) /\ contents' = nodes
         /\ num_pages' = num_pages /\ crashed' = crashed
BY DEF FetchPage, Assign

LEMMA NewFacts ==
  ASSUME IInv, NEW nodes, NewPage(nodes)
  PROVE  /\ pins' = Pool!PlusPin(num_pages) /\ Assign(nodes) /\ contents' = nodes
         /\ num_pages \in PageId /\ num_pages \notin Nodes
         /\ num_pages' = num_pages + 1 /\ num_pages' \in num_pages .. MAX_PAGES
         /\ num_pages < num_pages' /\ crashed' = crashed
<1>1. num_pages \in PageId /\ num_pages' = num_pages + 1
  BY DEF NewPage, PageId, Pool!PageId
<1>2. num_pages' \in num_pages .. MAX_PAGES /\ num_pages < num_pages'
  BY <1>1, Sizes
<1>3. num_pages \notin Nodes
  BY NodeFacts DEF IInv
<1> QED BY <1>1, <1>2, <1>3 DEF NewPage, Assign

LEMMA InsertedAnswer ==
  ASSUME NEW key \in Key, NEW value \in RecordID, NEW ok \in BOOLEAN
  PROVE  Return(Inserted(key, value, ok)) \in Statement
<1>1. Inserted(key, value, ok) \in Answer
  BY DEF Answer
<1> QED BY <1>1, MakeStatement

Put(c, p, n) == [c EXCEPT ![p] = n]

LEMMA PutProps ==
  ASSUME NEW c, IsPages(c), NEW a, NEW x
  PROVE  IsPages(Put(c, a, x)) /\ \A p \in PageId : Put(c, a, x)[p] = IF p = a THEN x ELSE c[p]
<1>1. DOMAIN c = PageId
  BY DEF IsPages
<1>2. /\ DOMAIN Put(c, a, x) = PageId
      /\ \A p \in PageId : Put(c, a, x)[p] = IF p = a THEN x ELSE c[p]
  BY <1>1 DEF Put
<1>3. Put(c, a, x) = [p \in PageId |-> Put(c, a, x)[p]]
  BY <1>1 DEF Put
<1> QED BY <1>2, <1>3 DEF IsPages

(* A page is changed, unpinned and the answer given.                       *)
ChangeAndReturn(page, r) == <<UnpinPage(page, TRUE), r>>

LEMMA ChangeAndReturnProps ==
  ASSUME NEW page \in PageId, NEW r \in Statement, r.do = "Return",
         NEW xs, xs = ChangeAndReturn(page, r)
  PROVE  /\ xs \in Seq(Statement) /\ Shape(xs)
         /\ \A p \in PageId : Count(xs, p) = One(page = p)
         /\ WillUnpin(xs, page)
         /\ page < num_pages' => ReadyAfter(xs)
<1>1. PICK a \in Statement : a = UnpinPage(page, TRUE)
  BY MakeStatement
<1>2. a.do = "UnpinPage" /\ a.page = page
  BY <1>1 DEF UnpinPage
<1>3. xs \in Seq(Statement) /\ Len(xs) = 2 /\ xs[1] = a /\ xs[2] = r /\ xs = <<a, r>>
  <2>1. xs = <<a, r>>
    BY <1>1 DEF ChangeAndReturn
  <2> QED BY <2>1
<1>4. Shape(xs)
  <2>1. Shape(<<a, r>>)
    BY <1>2, ShapeOfDescent
  <2> QED BY <1>3, <2>1
<1>5. ASSUME NEW p \in PageId
      PROVE  Count(xs, p) = One(page = p)
  <2>1. Count(<<a, r>>, p) = One(Owes(a, p)) + One(Owes(r, p))
    BY CountTwo
  <2> QED BY <2>1, <1>2, <1>3 DEF One, Owes
<1>6. WillUnpin(xs, page)
  <2>1. 1 \in 1 .. Len(xs) /\ xs[1] = UnpinPage(page, TRUE)
    BY <1>1, <1>3
  <2> QED BY <2>1 DEF WillUnpin
<1>7. ASSUME page < num_pages'
      PROVE  ReadyAfter(xs)
  <2>1. IsReady(a)' /\ IsReady(r)'
    BY <1>2, <1>7 DEF IsReady
  <2>2. ASSUME NEW i \in 1 .. 2
        PROVE  IsReady(xs[i])'
    <3>1. i = 1 \/ i = 2
      OBVIOUS
    <3> QED BY <3>1, <2>1, <1>3
  <2> QED BY <1>3, <2>2 DEF ReadyAfter
<1> QED BY <1>3, <1>4, <1>5, <1>6, <1>7

LEMMA InsertIntoLeafKeeps ==
  ASSUME IInv, InsertIntoLeaf, UNCHANGED <<held, reply, inserts>>
  PROVE  Keeps
<1> DEFINE h    == Head(stack)
           leaf == contents[h.page]
           new  == LeafInsert(leaf, h.key, h.value)
           b    == SplitLeaf(h.page, h.key, h.value)
<1>1. /\ Executing("Descend") /\ h.op = "Insert" /\ ~IsInternal(leaf) /\ root_page_id' = root_page_id
      /\ IF LeafHasRoom(leaf)
         THEN /\ FetchPage(h.page, [contents EXCEPT ![h.page] = new])
              /\ Then(<<UnpinPage(h.page, TRUE), Return(Inserted(h.key, h.value, TRUE))>>)
         ELSE FetchPage(h.page, contents) /\ Then(<<b>>)
  BY DEF InsertIntoLeaf
<1> HIDE DEF new, b
<1>2. PICK s : s = h
  OBVIOUS
<1>3. PICK page : page = s.page
  OBVIOUS
<1>4. /\ s = stack[1] /\ s.do = "Descend" /\ page \in PageId /\ page < num_pages
      /\ s.key \in Key /\ s.value \in RecordID
      /\ stack \in Seq(Statement) /\ stack # <<>> /\ Len(stack) = 1
      /\ page \in Leaves /\ LeafOK(contents[page])
  BY <1>1, <1>2, <1>3, DescendHead
<1>5. /\ stack[1].do = "Descend" /\ \A p : ~Owes(stack[1], p)
      /\ stack # <<>> /\ CalmBehind
  BY <1>4 DEF CalmBehind, Owes
<1>6. CASE ~LeafHasRoom(leaf)
  <2>1. PICK t : t = b
    OBVIOUS
  <2>2. /\ t \in Statement /\ t.do = "SplitLeaf" /\ t.page = page
        /\ t.do \in {"SplitLeaf", "SplitInternal"}
    <3>1. b = SplitLeaf(page, s.key, s.value)
      BY <1>2, <1>3 DEF b
    <3>2. SplitLeaf(page, s.key, s.value) \in Statement
      BY <1>4, MakeStatement
    <3>3. t = SplitLeaf(page, s.key, s.value)
      BY <2>1, <3>1
    <3> QED BY <3>2, <3>3 DEF SplitLeaf
  <2>3. IsReady(t)
    <3>1. Len(contents[page].array) = LEAF_MAX
      BY <1>2, <1>3, <1>6 DEF LeafHasRoom
    <3> QED BY <2>2, <3>1, <1>4 DEF IsReady
  <2>4. FetchPage(page, contents) /\ Then(<<t>>)
    BY <1>1, <1>2, <1>3, <1>6, <2>1
  <2>5. Shape(stack')
    <3>1. Shape(<<t>>)
      BY <2>2, ShapeOfOne
    <3>2. <<t>> \in Seq(Statement)
      BY <2>2
    <3>3. stack' = <<t>>
      BY <3>2, <2>4, <1>4, SingleThen
    <3> QED BY <3>1, <3>3
  <2>6. stack[1].do \in {"Descend", "InsertIntoParent"} /\ stack[1].do # "InsertIntoParent"
    BY <1>5
  <2>7. UNCHANGED <<root_page_id, held, reply, inserts>>
    BY <1>1
  <2> QED BY <1>4, <2>2, <2>3, <2>4, <2>5, <2>6, <2>7, TakeStep
<1>7. CASE LeafHasRoom(leaf)
  <2>1. PICK r : r = Return(Inserted(s.key, s.value, TRUE))
    OBVIOUS
  <2>2. r \in Statement /\ r.do = "Return"
    BY <2>1, <1>4, InsertedAnswer DEF Return
  <2>3. PICK xs : xs = ChangeAndReturn(page, r)
    OBVIOUS
  <2>4. Then(xs)
    BY <1>1, <1>2, <1>3, <1>7, <2>1, <2>3 DEF ChangeAndReturn
  <2>5. PICK nodes : nodes = Put(contents, page, new)
    OBVIOUS
  <2>6. FetchPage(page, nodes)
    BY <1>1, <1>2, <1>3, <1>7, <2>5 DEF Put
  <2>7. /\ pins' = Pool!PlusPin(page) /\ Assign(nodes) /\ contents' = nodes
        /\ num_pages' = num_pages /\ crashed' = crashed
    BY <2>6, FetchFacts
  <2>8. num_pages' \in num_pages .. MAX_PAGES /\ page < num_pages'
    BY <1>4, <2>7, NodeFacts DEF IInv
  <2>9. /\ xs \in Seq(Statement) /\ Shape(xs)
        /\ \A p \in PageId : Count(xs, p) = One(page = p)
        /\ WillUnpin(xs, page) /\ ReadyAfter(xs)
    BY <1>4, <2>2, <2>3, <2>8, ChangeAndReturnProps
  <2>10. Shape(stack')
    <3>1. stack' = xs
      BY <2>4, <2>9, <1>4, SingleThen
    <3> QED BY <2>9, <3>1
  <2>11. IsPages(nodes) /\ \A p \in PageId : nodes[p] = IF p = page THEN new ELSE contents[p]
    BY <2>5, PutProps, NodeFacts DEF IInv
  <2>12. LeafOK(new) /\ new.parent = contents[page].parent
    <3>1. contents[page] \in LeafRecord /\ Len(contents[page].array) \in 1 .. LEAF_MAX
      BY <1>4 DEF LeafOK
    <3>2. Len(contents[page].array) # LEAF_MAX
      BY <1>2, <1>3, <1>7 DEF LeafHasRoom
    <3>3. Len(contents[page].array) < LEAF_MAX
      BY <3>1, <3>2, Sizes
    <3>4. new = LeafInsert(contents[page], s.key, s.value)
      BY <1>2, <1>3 DEF new
    <3> QED BY <3>1, <3>3, <3>4, <1>4, LeafInsertProps
  <2>13. \A p \in PageId :
           \/ contents'[p] = contents[p]
           \/ Becomes(p, contents'[p]) /\ ChildrenOK(p) /\ ParentOK(p)
    <3> SUFFICES ASSUME NEW p \in PageId, contents'[p] # contents[p]
                 PROVE  Becomes(p, contents'[p]) /\ ChildrenOK(p) /\ ParentOK(p)
      OBVIOUS
    <3>1. p = page /\ contents'[p] = new
      BY <2>7, <2>11
    <3>2. Becomes(p, contents'[p])
      BY <3>1, <2>12, <1>4 DEF Becomes
    <3>3. ChildrenOK(p)
      BY <3>1, <2>12 DEF ChildrenOK, LeafOK, InternalOK, LeafRecord, InternalRecord
    <3>4. ParentOK(p)
      BY <3>1, <2>12, <1>4 DEF ParentOK, Nodes
    <3> QED BY <3>2, <3>3, <3>4
  <2>14. \A p : SplitsRoot(p) => SplitsRoot(p)'
    <3>1. PICK q : q = stack
      OBVIOUS
    <3>2. q[1].do # "InsertIntoParent"
      BY <3>1, <1>5
    <3>3. StackInv /\ root_page_id' = root_page_id
      BY <1>1 DEF IInv
    <3> QED BY <1>5, <2>4, <2>9, <3>1, <3>2, <3>3, SplitsRootStays
  <2>15. root_page_id \in Nodes /\ page \in Nodes
    BY <1>4 DEF IInv, PagesInv, Nodes
  <2>16. PagesInv' /\ ParentsInv'
    <3>1. IsPages(contents') /\ PagesInv /\ ParentsInv
      BY <2>7, <2>11 DEF IInv
    <3> QED BY <3>1, <1>1, <2>8, <2>13, <2>14, <2>15, NodesStep
  <2>17. TreeGrows
    <3>1. IsPages(contents') /\ PagesInv
      BY <2>7, <2>11 DEF IInv
    <3>2. Nodes \subseteq Nodes'
      BY <3>1, <2>8, <2>13, PagesStep
    <3> QED BY <3>2, <1>1, <2>8 DEF TreeGrows
  <2>18. PinsFollowTo(xs)
    <3>1. Balanced(xs, page)
      BY <2>9, <1>5 DEF Balanced, One
    <3> QED BY <3>1, <1>4, <2>7, <2>8, <2>9, BalancedPins
  <2>19. DirtyAfter(xs)
    <3>1. \A p \in PageId : nodes[p] # contents[p] => WillUnpin(xs, p)
      BY <2>9, <2>11
    <3> QED BY <3>1, <1>5, <2>7, WhatIsDirty
  <2>20. RestInv'
    BY <2>7, RestStays DEF IInv, RestInv
  <2>21. held' = held
    OBVIOUS
  <2> QED BY <1>5, <2>4, <2>9, <2>10, <2>16, <2>17, <2>18, <2>19, <2>20, <2>21, StepDone
<1> QED BY <1>6, <1>7

LEMMA BecomesNode ==
  ASSUME NEW p \in PageId,
         contents'[p] # BlankPage => LeafOK(contents'[p]) \/ InternalOK(contents'[p])
  PROVE  p \in Nodes' <=> contents'[p] # BlankPage
<1>1. /\ Nodes' = Leaves' \cup Internals'
      /\ Leaves' = {q \in PageId : contents'[q].type = "leaf"}
      /\ Internals' = {q \in PageId : contents'[q].type = "internal"}
  BY DEF Nodes, Leaves, Internals, PageId, Pool!PageId
<1>2. /\ LeafOK(contents'[p]) => contents'[p].type = "leaf"
      /\ InternalOK(contents'[p]) => contents'[p].type = "internal"
  BY DEF LeafOK, InternalOK, LeafRecord, InternalRecord
<1>3. BlankPage.type = "invalid"
  BY DEF BlankPage
<1> QED BY <1>1, <1>2, <1>3

LEMMA DoStartNewTreeKeeps ==
  ASSUME IInv, DoStartNewTree, UNCHANGED <<held, reply, inserts>>
  PROVE  Keeps
<1> DEFINE h   == Head(stack)
           new == LeafInsert(Leaf(NoPage, NoPage, <<>>), h.key, h.value)
           ret == Return(Inserted(h.key, h.value, TRUE))
<1>1. /\ Executing("StartNewTree")
      /\ \/ /\ NewPage([contents EXCEPT ![num_pages] = new])
            /\ root_page_id' = num_pages
            /\ Then(<<UnpinPage(num_pages, TRUE), ret>>)
         \/ /\ Then(<<ret>>)
            /\ UNCHANGED <<pool, root_page_id, crashed>>
  BY DEF DoStartNewTree
<1> HIDE DEF new, ret
<1>2. PICK s : s = h
  OBVIOUS
<1>3. PICK q : q = stack
  OBVIOUS
<1>4. /\ s \in Statement /\ s = q[1] /\ s.do = "StartNewTree" /\ IsReady(s)
      /\ q \in Seq(Statement) /\ q # <<>> /\ Len(q) \in Nat \ {0}
  BY <1>1, <1>2, <1>3, HeadProps DEF IInv
<1>5. Len(q) = 1 /\ s.key \in Key /\ s.value \in RecordID /\ root_page_id = NoPage
  <2>1. Shape(q) /\ q[1].do \in {"StartNewTree", "SplitLeaf", "Descend"}
    BY <1>3, <1>4 DEF IInv, StackInv
  <2>2. Len(q) = 1
    BY <1>4, <2>1, ShapeOfHead
  <2> QED BY <1>4, <2>2, StatementFields DEF IsReady
<1>6. PICK r : r = ret
  OBVIOUS
<1>7. r \in Statement /\ r.do = "Return"
  <2>1. r = Return(Inserted(s.key, s.value, TRUE))
    BY <1>2, <1>6 DEF ret
  <2> QED BY <2>1, <1>5, InsertedAnswer DEF Return
<1>8. /\ stack[1].do = "StartNewTree" /\ \A p : ~Owes(stack[1], p)
      /\ stack # <<>> /\ CalmBehind /\ stack \in Seq(Statement) /\ Len(stack) = 1
  BY <1>3, <1>4, <1>5 DEF CalmBehind, Owes
<1>9. ASSUME Then(<<ret>>), UNCHANGED <<pool, root_page_id, crashed>>
      PROVE  Keeps
  <2>1. PICK xs \in Seq(Statement) : xs = <<r>>
    <3>1. <<r>> \in Seq(Statement)
      BY <1>7
    <3> QED BY <3>1
  <2>2. Then(xs)
    BY <1>6, <1>9, <2>1
  <2>3. stack' = xs
    BY <1>8, <2>2, SingleThen
  <2>4. Shape(stack')
    <3>1. Shape(<<r>>)
      BY <1>7, ShapeOfOne
    <3> QED BY <2>1, <2>3, <3>1
  <2>5. \A i \in 1 .. Len(xs) : xs[i].do = "Return"
    BY <1>7, <2>1
  <2>6. RestInv'
    BY <1>9, RestStays DEF IInv, RestInv
  <2>7. stack[1].do \in {"StartNewTree", "Return"}
    BY <1>8
  <2>8. UNCHANGED <<root_page_id, pool, held, crashed, inserts>>
    BY <1>9
  <2> QED BY <1>8, <2>2, <2>4, <2>5, <2>6, <2>7, <2>8, DropStep
<1>10. ASSUME NewPage([contents EXCEPT ![num_pages] = new]), root_page_id' = num_pages,
              Then(<<UnpinPage(num_pages, TRUE), ret>>)
       PROVE  Keeps
  <2>1. PICK page : page = num_pages
    OBVIOUS
  <2>2. PICK nodes : nodes = Put(contents, page, new)
    OBVIOUS
  <2>3. NewPage(nodes)
    BY <1>10, <2>1, <2>2 DEF Put
  <2>4. PICK xs : xs = ChangeAndReturn(page, r)
    OBVIOUS
  <2>5. Then(xs)
    BY <1>6, <1>10, <2>1, <2>4 DEF ChangeAndReturn
  <2>6. /\ pins' = Pool!PlusPin(num_pages) /\ Assign(nodes) /\ contents' = nodes
        /\ num_pages \in PageId /\ num_pages \notin Nodes
        /\ num_pages' = num_pages + 1 /\ num_pages' \in num_pages .. MAX_PAGES
        /\ num_pages < num_pages' /\ crashed' = crashed
    BY <2>3, NewFacts
  <2>7. /\ xs \in Seq(Statement) /\ Shape(xs)
        /\ \A p \in PageId : Count(xs, p) = One(page = p)
        /\ WillUnpin(xs, page) /\ ReadyAfter(xs)
    <3>1. page \in PageId /\ page < num_pages'
      BY <2>1, <2>6
    <3> QED BY <1>7, <2>4, <3>1, ChangeAndReturnProps
  <2>8. Shape(stack')
    <3>1. stack' = xs
      BY <1>8, <2>5, <2>7, SingleThen
    <3> QED BY <2>7, <3>1
  <2>9. IsPages(nodes) /\ \A p \in PageId : nodes[p] = IF p = page THEN new ELSE contents[p]
    BY <2>2, PutProps, NodeFacts DEF IInv
  <2>10. LeafOK(new) /\ new.parent = NoPage
    <3>1. PICK n : n = Leaf(NoPage, NoPage, <<>>)
      OBVIOUS
    <3>2. n \in LeafRecord /\ Len(n.array) = 0 /\ n.parent = NoPage
      BY <3>1 DEF Leaf, LeafRecord
    <3>3. Len(n.array) < LEAF_MAX
      BY <3>2, Sizes
    <3>4. new = LeafInsert(n, s.key, s.value)
      BY <1>2, <3>1 DEF new
    <3> QED BY <3>2, <3>3, <3>4, <1>5, LeafInsertProps
  <2>11. /\ Nodes = {}
         /\ \A p \in PageId : contents[p] = BlankPage
    BY <1>5, NodeFacts DEF IInv, PagesInv
  <2>12. \A p \in PageId : contents'[p] = contents[p] \/ Becomes(p, contents'[p])
    <3> SUFFICES ASSUME NEW p \in PageId, contents'[p] # contents[p]
                 PROVE  Becomes(p, contents'[p])
      OBVIOUS
    <3>1. p = num_pages /\ contents'[p] = new
      BY <2>1, <2>6, <2>9
    <3>2. num_pages \in Int
      BY NodeFacts DEF IInv
    <3> QED BY <3>1, <3>2, <2>6, <2>10 DEF Becomes
  <2>13. IsPages(contents') /\ PagesInv
    BY <2>6, <2>9 DEF IInv
  <2>14. /\ Nodes \subseteq Nodes'
         /\ \A p \in PageId : LeafOK(contents'[p]) => p \in Leaves'
         /\ (/\ root_page_id' \in Nodes'
             /\ root_page_id' = root_page_id \/ root_page_id' \notin Nodes
             /\ \A p \in PageId : InternalOK(contents'[p]) /\ contents'[p] # contents[p] =>
                  \A i \in 1 .. Len(contents'[p].array) :
                    contents'[p].array[i].value \in Nodes' \ {root_page_id'})
            => PagesInv'
    BY <2>6, <2>12, <2>13, PagesStep
  <2>15. contents'[num_pages] = new
    BY <2>1, <2>6, <2>9
  <2>16. root_page_id' \in Nodes' /\ root_page_id' \notin Nodes
    <3>1. num_pages \in Leaves'
      BY <2>6, <2>10, <2>14, <2>15
    <3> QED BY <1>10, <2>6, <3>1 DEF Nodes
  <2>17. \A p \in PageId : ~(InternalOK(contents'[p]) /\ contents'[p] # contents[p])
    <3> SUFFICES ASSUME NEW p \in PageId, contents'[p] # contents[p]
                 PROVE  ~InternalOK(contents'[p])
      OBVIOUS
    <3>1. contents'[p] = new
      BY <2>6, <2>9
    <3> QED BY <3>1, <2>10 DEF LeafOK, InternalOK, LeafRecord, InternalRecord
  <2>18. PagesInv'
    BY <2>14, <2>16, <2>17
  <2>19. ParentsInv'
    <3>1. Nodes' \subseteq {num_pages}
      <4> SUFFICES ASSUME NEW p \in Nodes', p # num_pages
                   PROVE  FALSE
        OBVIOUS
      <4>1. p \in PageId
        BY DEF Nodes, Leaves, Internals, PageId, Pool!PageId
      <4>2. contents'[p] = BlankPage
        BY <4>1, <2>1, <2>6, <2>9, <2>11
      <4> QED BY <4>1, <4>2, BecomesNode
    <3>2. contents'[root_page_id'].parent = NoPage
      BY <1>10, <2>10, <2>15
    <3> QED BY <1>10, <3>1, <3>2 DEF ParentsInv
  <2>20. TreeGrows
    BY <2>6, <2>14, <2>16 DEF TreeGrows
  <2>21. PinsFollowTo(xs)
    <3>1. Balanced(xs, page) /\ page \in PageId /\ page < num_pages' /\ pins' = Pool!PlusPin(page)
      BY <2>1, <2>6, <2>7, <1>8 DEF Balanced, One
    <3> QED BY <3>1, <2>6, <2>7, BalancedPins
  <2>22. DirtyAfter(xs)
    <3>1. \A p \in PageId : nodes[p] # contents[p] => WillUnpin(xs, p)
      BY <2>7, <2>9
    <3>2. stack[1].do # "UnpinPage"
      BY <1>8
    <3> QED BY <3>1, <3>2, <2>6, WhatIsDirty
  <2>23. RestInv'
    BY <2>6, RestStays DEF IInv, RestInv
  <2>24. held' = held
    OBVIOUS
  <2> QED BY <1>8, <2>5, <2>7, <2>8, <2>18, <2>19, <2>20, <2>21, <2>22, <2>23, <2>24, StepDone
<1> QED BY <1>1, <1>9, <1>10

-----------------------------------------------------------------------------
(* Splitting a leaf.                                                       *)

LeftLeaf(n, key, value, new) ==
  LET left   == Leaf(n.parent, new, Kept(n.array, LEAF_MAX))
      right  == Leaf(n.parent, n.next, Moved(n.array, LEAF_MAX))
  IN IF key < MiddleKey(right) THEN LeafInsert(left, key, value) ELSE left

RightLeaf(n, key, value) ==
  LET right == Leaf(n.parent, n.next, Moved(n.array, LEAF_MAX))
  IN IF key < MiddleKey(right) THEN right ELSE LeafInsert(right, key, value)

MiddleOfLeaf(n) == MiddleKey(Leaf(n.parent, n.next, Moved(n.array, LEAF_MAX)))

LEMMA SplitLeafProps ==
  ASSUME NEW n, LeafOK(n), Len(n.array) = LEAF_MAX,
         NEW key \in Key, NEW value \in RecordID, NEW new \in PageId
  PROVE  /\ LeafOK(LeftLeaf(n, key, value, new)) /\ LeafOK(RightLeaf(n, key, value))
         /\ LeftLeaf(n, key, value, new).parent = n.parent
         /\ RightLeaf(n, key, value).parent = n.parent
         /\ LeftLeaf(n, key, value, new).next = new
         /\ RightLeaf(n, key, value).next = n.next
         /\ MiddleOfLeaf(n) \in Key
<1>1. /\ n.array \in Seq(LeafEntry) /\ n.parent \in PageId \cup {NoPage}
      /\ n.next \in PageId \cup {NoPage}
  BY DEF LeafOK, LeafRecord
<1>2. PICK half : half = LEAF_MAX \div 2
  OBVIOUS
<1>3. PICK kept : kept = Kept(n.array, LEAF_MAX)
  OBVIOUS
<1>4. PICK moved : moved = Moved(n.array, LEAF_MAX)
  OBVIOUS
<1>5. LEAF_MAX \in Nat /\ LEAF_MAX >= 2
  BY Sizes
<1>6. /\ kept \in Seq(LeafEntry) /\ Len(kept) = half /\ half \in 1 .. LEAF_MAX - 1
  BY <1>1, <1>2, <1>3, <1>5, KeptProps
<1>7. moved \in Seq(LeafEntry) /\ Len(moved) = LEAF_MAX - half
  <2>1. PICK array : array = n.array
    OBVIOUS
  <2>2. array \in Seq(LeafEntry) /\ Len(array) = LEAF_MAX /\ moved = Moved(array, LEAF_MAX)
    BY <1>1, <1>4, <2>1
  <2>3. IsUpperHalf(moved, LeafEntry, array, LEAF_MAX, half)
    BY <1>2, <1>5, <2>2, MovedProps
  <2> QED BY <2>3 DEF IsUpperHalf
<1>8. PICK left : left = Leaf(n.parent, new, kept)
  OBVIOUS
<1>9. PICK right : right = Leaf(n.parent, n.next, moved)
  OBVIOUS
<1>10. /\ left \in LeafRecord /\ left.array = kept /\ left.parent = n.parent /\ left.next = new
  BY <1>1, <1>6, <1>8 DEF Leaf, LeafRecord
<1>11. /\ right \in LeafRecord /\ right.array = moved /\ right.parent = n.parent
       /\ right.next = n.next
  BY <1>1, <1>7, <1>9 DEF Leaf, LeafRecord
<1>12. LeafOK(left) /\ Len(left.array) < LEAF_MAX
  BY <1>5, <1>6, <1>10 DEF LeafOK
<1>13. LeafOK(right) /\ Len(right.array) < LEAF_MAX
  BY <1>5, <1>6, <1>7, <1>11 DEF LeafOK
<1>14. MiddleKey(right) \in Key
  <2>1. 1 \in 1 .. Len(moved)
    BY <1>5, <1>6, <1>7
  <2>2. moved[1] \in LeafEntry
    BY <2>1, <1>7, ElementOfSeq
  <2> QED BY <2>2, <1>11 DEF MiddleKey, LeafEntry
<1>15. PICK l : l = LeafInsert(left, key, value)
  OBVIOUS
<1>16. LeafOK(l) /\ l.parent = n.parent /\ l.next = new
  BY <1>10, <1>12, <1>15, LeafInsertProps
<1>17. PICK r : r = LeafInsert(right, key, value)
  OBVIOUS
<1>18. LeafOK(r) /\ r.parent = n.parent /\ r.next = n.next
  BY <1>11, <1>13, <1>17, LeafInsertProps
<1>19. /\ MiddleOfLeaf(n) = MiddleKey(right)
       /\ LeftLeaf(n, key, value, new) = IF key < MiddleKey(right) THEN l ELSE left
       /\ RightLeaf(n, key, value) = IF key < MiddleKey(right) THEN right ELSE r
  BY <1>3, <1>4, <1>8, <1>9, <1>15, <1>17 DEF MiddleOfLeaf, LeftLeaf, RightLeaf
<1> QED BY <1>10, <1>11, <1>12, <1>13, <1>14, <1>16, <1>18, <1>19

LEMMA ThreeAndOne ==
  ASSUME NEW S, NEW a \in S, NEW b \in S, NEW c \in S, NEW d \in S
  PROVE  <<a, b, c>> \o <<d>> = <<a, b, c, d>>
<1>1. PICK r : r = <<a, b, c>> \o <<d>>
  OBVIOUS
<1>2. <<a, b, c>> \in Seq(S) /\ <<d>> \in Seq(S)
  OBVIOUS
<1>3. /\ r \in Seq(S) /\ Len(r) = Len(<<a, b, c>>) + Len(<<d>>)
      /\ \A i \in 1 .. Len(<<a, b, c>>) + Len(<<d>>) :
           r[i] = IF i <= Len(<<a, b, c>>) THEN <<a, b, c>>[i] ELSE <<d>>[i - Len(<<a, b, c>>)]
  BY <1>1, <1>2, ConcatProperties
<1>4. r \in Seq(S) /\ Len(r) = 4 /\ r[1] = a /\ r[2] = b /\ r[3] = c /\ r[4] = d
  BY <1>3
<1>5. r = <<a, b, c, d>>
  BY <1>4
<1> QED BY <1>1, <1>5

(* The statements of a leaf split.                                         *)
GoUpAndReturn(old, key, new, r) ==
  <<InsertIntoParent(old, key, new), UnpinPage(old, TRUE), UnpinPage(new, TRUE), r>>

LEMMA GoUpAndReturnIs ==
  ASSUME NEW old \in PageId, NEW key \in Key, NEW new \in PageId, NEW r \in Statement
  PROVE  PassUp(old, key, new) \o <<r>> = GoUpAndReturn(old, key, new, r)
<1>1. PICK a \in Statement, b \in Statement, c \in Statement :
        /\ a = InsertIntoParent(old, key, new)
        /\ b = UnpinPage(old, TRUE) /\ c = UnpinPage(new, TRUE)
  <2>1. /\ InsertIntoParent(old, key, new) \in Statement
        /\ UnpinPage(old, TRUE) \in Statement /\ UnpinPage(new, TRUE) \in Statement
    BY MakeStatement
  <2> QED BY <2>1
<1>2. <<a, b, c>> \o <<r>> = <<a, b, c, r>>
  BY ThreeAndOne
<1>3. PassUp(old, key, new) = <<a, b, c>>
  BY <1>1 DEF PassUp
<1>4. GoUpAndReturn(old, key, new, r) = <<a, b, c, r>>
  BY <1>1 DEF GoUpAndReturn
<1> QED BY <1>2, <1>3, <1>4

LEMMA GoUpAndReturnProps ==
  ASSUME NEW old \in PageId, NEW key \in Key, NEW new \in PageId,
         NEW r \in Statement, r.do = "Return",
         NEW xs, xs = GoUpAndReturn(old, key, new, r)
  PROVE  /\ xs \in Seq(Statement) /\ Shape(xs)
         /\ \A p \in PageId : Count(xs, p) = One(new = p) + One(old = p)
         /\ WillUnpin(xs, old) /\ WillUnpin(xs, new)
         /\ 1 \in 1 .. Len(xs) /\ xs[1] = InsertIntoParent(old, key, new)
         /\ /\ old < num_pages' /\ new < num_pages'
            /\ old \in Nodes' /\ new \in Nodes' /\ new # root_page_id' /\ new # old
            => ReadyAfter(xs)
<1>1. PICK a \in Statement, b \in Statement, c \in Statement :
        /\ a = InsertIntoParent(old, key, new)
        /\ b = UnpinPage(old, TRUE) /\ c = UnpinPage(new, TRUE)
  <2>1. /\ InsertIntoParent(old, key, new) \in Statement
        /\ UnpinPage(old, TRUE) \in Statement /\ UnpinPage(new, TRUE) \in Statement
    BY MakeStatement
  <2> QED BY <2>1
<1>2. /\ a.do = "InsertIntoParent" /\ a.page = old /\ a.new = new
      /\ b.do = "UnpinPage" /\ b.page = old
      /\ c.do = "UnpinPage" /\ c.page = new
  BY <1>1 DEF InsertIntoParent, UnpinPage
<1>3. /\ xs \in Seq(Statement) /\ Len(xs) = 4 /\ xs = <<a, b, c, r>>
      /\ xs[1] = a /\ xs[2] = b /\ xs[3] = c /\ xs[4] = r
  <2>1. xs = <<a, b, c, r>>
    BY <1>1 DEF GoUpAndReturn
  <2> QED BY <2>1
<1>4. Shape(xs)
  <2>1. /\ 1 \in 1 .. Len(xs) /\ 1 + 2 <= Len(xs) /\ 1 + 1 = 2 /\ 1 + 2 = 3
        /\ xs[1].do = "InsertIntoParent"
    BY <1>2, <1>3
  <2>2. xs[1 + 1] = UnpinPage(xs[1].page, TRUE) /\ xs[1 + 2] = UnpinPage(xs[1].new, TRUE)
    BY <1>1, <1>2, <1>3, <2>1
  <2>3. IsQuiet(xs, 1)
    <3>1. ASSUME NEW j \in 2 .. 4
          PROVE  xs[j].do \in {"UnpinPage", "Return"}
      <4>1. j = 2 \/ j = 3 \/ j = 4
        OBVIOUS
      <4> QED BY <4>1, <1>2, <1>3
    <3> QED BY <3>1, <1>3 DEF IsQuiet
  <2>4. \A j \in 1 .. 1 - 1 :
           \/ xs[j].do = "UnpinPage"
           \/ xs[j].do = "AdoptChildren" /\ j + 1 = 1 /\ xs[1].new = xs[j].page
    OBVIOUS
  <2> QED BY <1>3, <2>1, <2>2, <2>3, <2>4, ShapeOfSplit
<1>5. ASSUME NEW p \in PageId
      PROVE  Count(xs, p) = One(new = p) + One(old = p)
  <2>1. Count(<<a, b, c, r>>, p) =
          One(Owes(a, p)) + One(Owes(b, p)) + One(Owes(c, p)) + One(Owes(r, p))
    BY CountFour
  <2> QED BY <2>1, <1>2, <1>3 DEF One, Owes
<1>6. WillUnpin(xs, old) /\ WillUnpin(xs, new)
  <2>1. 2 \in 1 .. Len(xs) /\ xs[2] = UnpinPage(old, TRUE)
    BY <1>1, <1>3
  <2>2. 3 \in 1 .. Len(xs) /\ xs[3] = UnpinPage(new, TRUE)
    BY <1>1, <1>3
  <2> QED BY <2>1, <2>2 DEF WillUnpin
<1>7. ASSUME old < num_pages', new < num_pages',
             old \in Nodes', new \in Nodes', new # root_page_id', new # old
      PROVE  ReadyAfter(xs)
  <2>1. IsReady(a)' /\ IsReady(b)' /\ IsReady(c)' /\ IsReady(r)'
    BY <1>2, <1>7 DEF IsReady
  <2>2. ASSUME NEW i \in 1 .. 4
        PROVE  IsReady(xs[i])'
    <3>1. i = 1 \/ i = 2 \/ i = 3 \/ i = 4
      OBVIOUS
    <3> QED BY <3>1, <2>1, <1>3
  <2> QED BY <1>3, <2>2 DEF ReadyAfter
<1>8. 1 \in 1 .. Len(xs) /\ xs[1] = InsertIntoParent(old, key, new)
  BY <1>1, <1>3
<1> QED BY <1>3, <1>4, <1>5, <1>6, <1>7, <1>8

LEMMA DoSplitLeafKeeps ==
  ASSUME IInv, DoSplitLeaf, UNCHANGED <<held, reply, inserts>>
  PROVE  Keeps
<1> DEFINE h   == Head(stack)
           lf  == contents[h.page]
           yes == Return(Inserted(h.key, h.value, TRUE))
           no  == Return(Refused(h.key, h.value))
<1>1. /\ Executing("SplitLeaf") /\ root_page_id' = root_page_id
      /\ \/ /\ NewPage([contents EXCEPT ![h.page] = LeftLeaf(lf, h.key, h.value, num_pages),
                                        ![num_pages] = RightLeaf(lf, h.key, h.value)])
            /\ Then(PassUp(h.page, MiddleOfLeaf(lf), num_pages) \o <<yes>>)
         \/ /\ ~Pool!HasRoom
            /\ Then(<<no>>)
            /\ UNCHANGED <<pool, crashed>>
  BY DEF DoSplitLeaf, LeftLeaf, RightLeaf, MiddleOfLeaf
<1> HIDE DEF yes, no
<1>2. PICK s : s = h
  OBVIOUS
<1>3. PICK q : q = stack
  OBVIOUS
<1>4. /\ s \in Statement /\ s = q[1] /\ s.do = "SplitLeaf" /\ IsReady(s)
      /\ q \in Seq(Statement) /\ q # <<>> /\ Len(q) \in Nat \ {0}
  BY <1>1, <1>2, <1>3, HeadProps DEF IInv
<1>5. Len(q) = 1 /\ s.page \in PageId /\ s.key \in Key /\ s.value \in RecordID
  <2>1. Shape(q) /\ q[1].do \in {"StartNewTree", "SplitLeaf", "Descend"}
    BY <1>3, <1>4 DEF IInv, StackInv
  <2>2. Len(q) = 1
    BY <1>4, <2>1, ShapeOfHead
  <2> QED BY <1>4, <2>2, StatementFields
<1>6. PICK page : page = s.page
  OBVIOUS
<1>7. PICK leaf : leaf = contents[page]
  OBVIOUS
<1>8. /\ page \in Leaves /\ page \in Nodes /\ page \in PageId /\ page < num_pages
      /\ LeafOK(leaf) /\ Len(leaf.array) = LEAF_MAX
  <2>1. page \in Leaves /\ Len(leaf.array) = LEAF_MAX
    BY <1>4, <1>6, <1>7 DEF IsReady
  <2>2. page \in Nodes
    BY <2>1 DEF Nodes
  <2> QED BY <1>5, <1>6, <1>7, <2>1, <2>2, NodeFacts DEF IInv
<1>9. /\ stack[1].do = "SplitLeaf" /\ stack[1].page = page
      /\ stack # <<>> /\ CalmBehind /\ stack \in Seq(Statement) /\ Len(stack) = 1
  BY <1>3, <1>4, <1>5, <1>6 DEF CalmBehind
<1>10. \A p : ~SplitsRoot(p)
  <2> SUFFICES ASSUME NEW p, SplitsRoot(p) PROVE FALSE
    OBVIOUS
  <2>1. PICK i \in 1 .. Len(stack) : stack[i].do = "InsertIntoParent"
    BY DEF SplitsRoot
  <2> QED BY <2>1, <1>9
<1>11. ASSUME ~Pool!HasRoom, Then(<<no>>), UNCHANGED <<pool, crashed>>
       PROVE  Keeps
  <2>1. PICK r : r = no
    OBVIOUS
  <2>2. r \in Statement /\ r.do = "Return"
    <3>1. r = Return(Inserted(s.key, s.value, FALSE))
      BY <1>2, <2>1 DEF no, Refused
    <3> QED BY <3>1, <1>5, InsertedAnswer DEF Return
  <2>3. PICK xs \in Seq(Statement) : xs = <<r>>
    <3>1. <<r>> \in Seq(Statement)
      BY <2>2
    <3> QED BY <3>1
  <2>4. Then(xs)
    BY <1>11, <2>1, <2>3
  <2>5. stack' = xs
    BY <1>9, <2>4, SingleThen
  <2>6. Shape(stack')
    <3>1. Shape(<<r>>)
      BY <2>2, ShapeOfOne
    <3> QED BY <2>3, <2>5, <3>1
  <2>7. /\ pins' = pins /\ contents' = contents /\ touched' = touched
        /\ num_pages' = num_pages
    BY <1>11 DEF pool
  <2>8. num_pages' \in num_pages .. MAX_PAGES
    BY <2>7, NodeFacts DEF IInv
  <2>9. PagesInv' /\ ParentsInv' /\ Nodes' = Nodes
    BY <1>1, <1>10, <2>7, <2>8, SameNodes DEF IInv
  <2>10. TreeGrows
    BY <1>1, <2>8, <2>9 DEF TreeGrows
  <2>11. ReadyAfter(xs)
    BY <2>2, <2>3 DEF ReadyAfter, IsReady
  <2>12. PinsFollowTo(xs)
    <3>1. ~HasRoomToSplit
      BY <1>1, <1>11 DEF HasRoomToSplit
    <3>2. pins \in [PageId -> Nat] /\ \A p \in PageId : p >= num_pages => pins[p] = 0
      BY DEF IInv, PinsInv
    <3>3. ASSUME NEW p \in PageId
          PROVE  pins'[p] >= pins[p] + Count(xs, p) - One(Owes(stack[1], p))
      <4>1. Count(xs, p) = 0
        <5>1. Count(<<r>>, p) = One(Owes(r, p))
          BY CountOne
        <5> QED BY <5>1, <2>2, <2>3 DEF One, Owes
      <4>2. One(Owes(stack[1], p)) \in Nat /\ pins[p] \in Nat
        BY <3>2 DEF One
      <4> QED BY <4>1, <4>2, <2>7
    <3> QED BY <3>1, <3>2, <3>3, <2>7 DEF PinsFollowTo
  <2>13. DirtyAfter(xs)
    BY <1>9, <2>7 DEF DirtyAfter, IInv, DirtyInv
  <2>14. RestInv'
    BY <1>11, RestStays DEF IInv, RestInv
  <2>15. held' = held
    OBVIOUS
  <2> QED BY <1>9, <2>4, <2>6, <2>9, <2>10, <2>11, <2>12, <2>13, <2>14, <2>15, StepDone
<1>12. ASSUME NewPage([contents EXCEPT ![h.page] = LeftLeaf(lf, h.key, h.value, num_pages),
                                       ![num_pages] = RightLeaf(lf, h.key, h.value)]),
              Then(PassUp(h.page, MiddleOfLeaf(lf), num_pages) \o <<yes>>)
       PROVE  Keeps
  <2>1. PICK new : new = num_pages
    OBVIOUS
  <2>2. PICK l : l = LeftLeaf(leaf, s.key, s.value, new)
    OBVIOUS
  <2>3. PICK rt : rt = RightLeaf(leaf, s.key, s.value)
    OBVIOUS
  <2>4. PICK key : key = MiddleOfLeaf(leaf)
    OBVIOUS
  <2>5. PICK nodes : nodes = Put(Put(contents, page, l), new, rt)
    OBVIOUS
  <2>6. NewPage(nodes)
    <3>1. /\ lf = leaf /\ h.page = page
          /\ l = LeftLeaf(lf, h.key, h.value, num_pages) /\ rt = RightLeaf(lf, h.key, h.value)
      BY <1>2, <1>6, <1>7, <2>1, <2>2, <2>3
    <3>2. nodes = [contents EXCEPT ![page] = l, ![num_pages] = rt]
      BY <2>1, <2>5 DEF Put
    <3> HIDE DEF h, lf
    <3> QED BY <1>12, <3>1, <3>2
  <2>7. /\ pins' = Pool!PlusPin(num_pages) /\ Assign(nodes) /\ contents' = nodes
        /\ num_pages \in PageId /\ num_pages \notin Nodes
        /\ num_pages' = num_pages + 1 /\ num_pages' \in num_pages .. MAX_PAGES
        /\ num_pages < num_pages' /\ crashed' = crashed
    BY <2>6, NewFacts
  <2>8. /\ LeafOK(l) /\ LeafOK(rt) /\ l.parent = leaf.parent /\ rt.parent = leaf.parent
        /\ key \in Key
    BY <1>5, <1>8, <2>1, <2>2, <2>3, <2>4, <2>7, SplitLeafProps
  <2>9. PICK r : r = yes
    OBVIOUS
  <2>10. r \in Statement /\ r.do = "Return"
    <3>1. r = Return(Inserted(s.key, s.value, TRUE))
      BY <1>2, <2>9 DEF yes
    <3> QED BY <3>1, <1>5, InsertedAnswer DEF Return
  <2>11. PICK xs : xs = GoUpAndReturn(page, key, new, r)
    OBVIOUS
  <2>12. new \in PageId /\ new < num_pages' /\ page < num_pages' /\ new # page
    <3>1. page \in Int /\ num_pages \in Int /\ num_pages' \in Int
      BY <1>8, <2>7, Sizes, NodeFacts DEF IInv
    <3> QED BY <1>8, <2>1, <2>7, <3>1
  <2>13. Then(xs)
    <3>1. PassUp(page, key, new) \o <<r>> = GoUpAndReturn(page, key, new, r)
      BY <1>8, <2>8, <2>10, <2>12, GoUpAndReturnIs
    <3>2. Then(PassUp(page, key, new) \o <<r>>)
      BY <1>2, <1>6, <1>7, <1>12, <2>1, <2>4, <2>9
    <3> QED BY <3>1, <3>2, <2>11
  <2>14. /\ IsPages(nodes)
         /\ \A p \in PageId : nodes[p] = IF p = new THEN rt ELSE IF p = page THEN l ELSE contents[p]
    <3>1. PICK c : c = Put(contents, page, l)
      OBVIOUS
    <3>2. IsPages(c) /\ \A p \in PageId : c[p] = IF p = page THEN l ELSE contents[p]
      BY <3>1, PutProps, NodeFacts DEF IInv
    <3>3. nodes = Put(c, new, rt)
      BY <2>5, <3>1
    <3>4. IsPages(nodes) /\ \A p \in PageId : nodes[p] = IF p = new THEN rt ELSE c[p]
      BY <3>2, <3>3, PutProps
    <3> QED BY <3>2, <3>4
  <2>15. ASSUME NEW p \in PageId, contents'[p] # contents[p]
         PROVE  (p = page /\ contents'[p] = l) \/ (p = new /\ contents'[p] = rt)
    BY <2>7, <2>14, <2>15
  <2>16. \A p \in PageId : contents'[p] = contents[p] \/ Becomes(p, contents'[p])
    <3> SUFFICES ASSUME NEW p \in PageId, contents'[p] # contents[p]
                 PROVE  Becomes(p, contents'[p])
      OBVIOUS
    <3>1. num_pages \in Int
      BY NodeFacts DEF IInv
    <3> QED BY <3>1, <1>8, <2>1, <2>7, <2>8, <2>12, <2>15 DEF Becomes
  <2>17. IsPages(contents') /\ PagesInv /\ ParentsInv
    BY <2>7, <2>14 DEF IInv
  <2>18. /\ Leaves \subseteq Leaves' /\ Internals \subseteq Internals' /\ Nodes \subseteq Nodes'
         /\ \A p \in PageId : LeafOK(contents'[p]) => p \in Leaves'
    BY <2>7, <2>16, <2>17, PagesStep
  <2>19. contents'[new] = rt /\ contents'[page] = l
    BY <1>8, <2>7, <2>12, <2>14
  <2>20. new \in Nodes' /\ page \in Nodes'
    BY <1>8, <2>8, <2>12, <2>18, <2>19 DEF Nodes
  <2>21. /\ xs \in Seq(Statement) /\ Shape(xs)
         /\ \A p \in PageId : Count(xs, p) = One(new = p) + One(page = p)
         /\ WillUnpin(xs, page) /\ WillUnpin(xs, new)
         /\ 1 \in 1 .. Len(xs) /\ xs[1] = InsertIntoParent(page, key, new)
         /\ /\ page < num_pages' /\ new < num_pages'
            /\ page \in Nodes' /\ new \in Nodes' /\ new # root_page_id' /\ new # page
            => ReadyAfter(xs)
    BY <1>8, <2>8, <2>10, <2>11, <2>12, GoUpAndReturnProps
  <2>22. root_page_id \in Nodes /\ new # root_page_id
    BY <1>8, <2>1, <2>7 DEF IInv, PagesInv
  <2>23. ReadyAfter(xs)
    BY <1>1, <2>12, <2>20, <2>21, <2>22
  <2>24. Shape(stack')
    <3>1. stack' = xs
      BY <1>9, <2>13, <2>21, SingleThen
    <3> QED BY <2>21, <3>1
  <2>25. page = root_page_id => SplitsRoot(new)'
    <3>1. stack[1].do # "InsertIntoParent" /\ StackInv
      BY <1>9 DEF IInv
    <3>2. \A p : (\E i \in 1 .. Len(xs) :
                    /\ xs[i].do = "InsertIntoParent"
                    /\ xs[i].page = root_page_id /\ xs[i].new = p) => SplitsRoot(p)'
      BY <1>1, <1>9, <2>13, <2>21, <3>1, SplitsRootStays
    <3>3. xs[1].do = "InsertIntoParent" /\ xs[1].page = page /\ xs[1].new = new
      BY <2>21 DEF InsertIntoParent
    <3> QED BY <2>21, <3>2, <3>3
  <2>26. \/ page = root_page_id /\ leaf.parent = NoPage
         \/ page # root_page_id /\ leaf.parent \in Internals
    BY <1>7, <1>8, <1>10 DEF IInv, ParentsInv, PagesInv
  <2>27. \A p \in PageId :
           \/ contents'[p] = contents[p]
           \/ Becomes(p, contents'[p]) /\ ChildrenOK(p) /\ ParentOK(p)
    <3> SUFFICES ASSUME NEW p \in PageId, contents'[p] # contents[p]
                 PROVE  Becomes(p, contents'[p]) /\ ChildrenOK(p) /\ ParentOK(p)
      OBVIOUS
    <3>1. (p = page /\ contents'[p] = l) \/ (p = new /\ contents'[p] = rt)
      BY <2>15
    <3>2. ChildrenOK(p)
      BY <3>1, <2>8 DEF ChildrenOK, LeafOK, InternalOK, LeafRecord, InternalRecord
    <3>3. ASSUME p = page, contents'[p] = l PROVE ParentOK(p)
      BY <3>3, <1>7, <1>8, <2>8 DEF ParentOK
    <3>4. ASSUME p = new, contents'[p] = rt PROVE ParentOK(p)
      BY <3>4, <2>8, <2>18, <2>22, <2>25, <2>26 DEF ParentOK
    <3> QED BY <2>16, <3>1, <3>2, <3>3, <3>4
  <2>28. PagesInv' /\ ParentsInv'
    BY <1>1, <1>10, <2>7, <2>17, <2>22, <2>27, NodesStep
  <2>29. TreeGrows
    BY <1>1, <2>7, <2>18 DEF TreeGrows
  <2>30. PinsFollowTo(xs)
    <3>1. Balanced(xs, new)
      BY <2>21, <1>9 DEF Balanced, One, Owes
    <3>2. pins' = Pool!PlusPin(new)
      BY <2>1, <2>7
    <3> QED BY <3>1, <3>2, <2>7, <2>12, <2>21, BalancedPins
  <2>31. DirtyAfter(xs)
    <3>1. \A p \in PageId : nodes[p] # contents[p] => WillUnpin(xs, p)
      BY <2>14, <2>21
    <3>2. stack[1].do # "UnpinPage"
      BY <1>9
    <3> QED BY <3>1, <3>2, <2>7, WhatIsDirty
  <2>32. RestInv'
    BY <2>7, RestStays DEF IInv, RestInv
  <2>33. held' = held
    OBVIOUS
  <2> QED BY <1>9, <2>13, <2>21, <2>23, <2>24, <2>28, <2>29, <2>30, <2>31, <2>32, <2>33, StepDone
<1> QED BY <1>1, <1>11, <1>12

-----------------------------------------------------------------------------
(* A new root.                                                             *)

WithParent(n, p) == [n EXCEPT !.parent = p]

LEMMA WithParentProps ==
  ASSUME NEW n, NEW p \in PageId, LeafOK(n) \/ InternalOK(n)
  PROVE  /\ LeafOK(n) => LeafOK(WithParent(n, p))
         /\ InternalOK(n) => InternalOK(WithParent(n, p))
         /\ WithParent(n, p).parent = p /\ WithParent(n, p).array = n.array
         /\ WithParent(n, p).next = n.next /\ WithParent(n, p).type = n.type
<1>1. CASE LeafOK(n)
  <2>1. /\ n.array \in Seq(LeafEntry) /\ n.next \in PageId \cup {NoPage} /\ n.type = "leaf"
        /\ n = [type |-> "leaf", parent |-> n.parent, next |-> n.next, array |-> n.array]
    BY <1>1 DEF LeafOK, LeafRecord
  <2>2. WithParent(n, p) = [type |-> "leaf", parent |-> p, next |-> n.next, array |-> n.array]
    BY <2>1 DEF WithParent
  <2>3. ~InternalOK(n)
    BY <2>1 DEF InternalOK, InternalRecord
  <2> QED BY <1>1, <2>1, <2>2, <2>3 DEF LeafOK, LeafRecord
<1>2. CASE InternalOK(n)
  <2>1. /\ n.array \in Seq(InternalEntry) /\ n.next = NoPage /\ n.type = "internal"
        /\ n = [type |-> "internal", parent |-> n.parent, next |-> n.next, array |-> n.array]
    BY <1>2 DEF InternalOK, InternalRecord
  <2>2. WithParent(n, p) = [type |-> "internal", parent |-> p, next |-> n.next, array |-> n.array]
    BY <2>1 DEF WithParent
  <2>3. ~LeafOK(n)
    BY <2>1 DEF LeafOK, LeafRecord
  <2> QED BY <1>2, <2>1, <2>2, <2>3 DEF InternalOK, InternalRecord
<1> QED BY <1>1, <1>2

(* What a full step up leaves: one statement, then pins and the answer.    *)
LEMMA ShapeOfStepUp ==
  ASSUME NEW q \in Seq(Statement), q # <<>>, Rest(q),
         NEW u \in Statement, u.do \in {"UnpinPage", "SplitInternal"},
         NEW xs, xs = <<u>>, NEW r, r = xs \o Tail(q)
  PROVE  Shape(r) /\ xs \in Seq(Statement)
<1>1. xs \in Seq(Statement) /\ Len(xs) = 1 /\ xs[1] = u
  OBVIOUS
<1>2. /\ r \in Seq(Statement) /\ Len(r) = Len(xs) + Len(q) - 1
      /\ Len(q) \in Nat \ {0}
      /\ \A i \in 1 .. Len(xs) : r[i] = xs[i]
      /\ \A i \in Len(xs) + 1 .. Len(r) : r[i] = q[i - Len(xs) + 1]
  BY <1>1, ThenProps
<1>3. r[1] = u
  BY <1>1, <1>2
<1>4. ASSUME NEW i \in 2 .. Len(r)
      PROVE  r[i].do \in {"UnpinPage", "Return"}
  <2>1. i \in Len(xs) + 1 .. Len(r) /\ i - Len(xs) + 1 = i /\ i \in 2 .. Len(q)
    BY <1>1, <1>2
  <2> QED BY <2>1, <1>2 DEF Rest
<1>5. Rest(r)
  BY <1>4 DEF Rest
<1> QED BY <1>1, <1>2, <1>3, <1>5, ShapeOfRest

LEMMA InsertIntoParentHead ==
  ASSUME IInv, Executing("InsertIntoParent"), NEW s, s = Head(stack)
  PROVE  /\ s = stack[1] /\ s \in Statement /\ s.do = "InsertIntoParent"
         /\ s.page \in Nodes /\ s.new \in Nodes /\ s.new # root_page_id /\ s.new # s.page
         /\ s.page \in PageId /\ s.new \in PageId /\ s.key \in Key
         /\ stack \in Seq(Statement) /\ stack # <<>> /\ Rest(stack) /\ CalmBehind
         /\ \A p : ~Owes(stack[1], p)
         /\ 3 \in 2 .. Len(stack) /\ 2 \in 2 .. Len(stack)
         /\ stack[2] = UnpinPage(s.page, TRUE) /\ stack[3] = UnpinPage(s.new, TRUE)
         /\ root_page_id \in Nodes
         /\ \A p : SplitsRoot(p) => s.page = root_page_id /\ s.new = p
<1>1. PICK q : q = stack
  OBVIOUS
<1>2. /\ s \in Statement /\ s = q[1] /\ s.do = "InsertIntoParent" /\ IsReady(s)
      /\ q \in Seq(Statement) /\ q # <<>> /\ Len(q) \in Nat \ {0}
  BY <1>1, HeadProps DEF IInv
<1>3. /\ Rest(q) /\ 3 <= Len(q)
      /\ q[2] = UnpinPage(q[1].page, TRUE) /\ q[3] = UnpinPage(q[1].new, TRUE)
  <2>1. Shape(q)
    BY <1>1 DEF IInv, StackInv
  <2> QED BY <1>2, <2>1, ShapeOfHead
<1>4. s.page \in Nodes /\ s.new \in Nodes /\ s.new # root_page_id /\ s.new # s.page
  BY <1>2 DEF IsReady
<1>5. s.page \in PageId /\ s.new \in PageId /\ s.key \in Key
  BY <1>2, StatementFields
<1>6. root_page_id \in Nodes
  BY <1>4 DEF IInv, PagesInv
<1>7. ASSUME NEW p, SplitsRoot(p)
      PROVE  s.page = root_page_id /\ s.new = p
  <2>1. PICK i \in 1 .. Len(q) : /\ q[i].do = "InsertIntoParent"
                                 /\ q[i].page = root_page_id /\ q[i].new = p
    BY <1>1, <1>7 DEF SplitsRoot
  <2>2. i = 1
    <3>1. i \in 2 .. Len(q) => q[i].do \in {"UnpinPage", "Return"}
      BY <1>3 DEF Rest
    <3> QED BY <2>1, <3>1, <1>2
  <2> QED BY <2>1, <2>2, <1>2
<1>8. 3 \in 2 .. Len(q) /\ 2 \in 2 .. Len(q)
  BY <1>2, <1>3
<1>9. CalmBehind
  BY <1>1, <1>3 DEF CalmBehind, Rest
<1>10. \A p : ~Owes(stack[1], p)
  BY <1>1, <1>2 DEF Owes
<1> QED BY <1>1, <1>2, <1>3, <1>4, <1>5, <1>6, <1>7, <1>8, <1>9, <1>10

(* One page is unpinned before the rest.                                   *)
JustUnpin(page) == <<UnpinPage(page, TRUE)>>

LEMMA UnpinOne ==
  ASSUME NEW page \in PageId, NEW xs, xs = JustUnpin(page)
  PROVE  /\ xs \in Seq(Statement)
         /\ \A p \in PageId : Count(xs, p) = One(page = p)
         /\ WillUnpin(xs, page)
         /\ page < num_pages' => ReadyAfter(xs)
         /\ \E u \in Statement : xs = <<u>> /\ u.do = "UnpinPage"
<1>1. PICK u \in Statement : u = UnpinPage(page, TRUE)
  BY MakeStatement
<1>2. u.do = "UnpinPage" /\ u.page = page
  BY <1>1 DEF UnpinPage
<1>3. xs = <<u>>
  BY <1>1 DEF JustUnpin
<1>4. xs \in Seq(Statement) /\ Len(xs) = 1 /\ xs[1] = u
  BY <1>3
<1>5. ASSUME NEW p \in PageId
      PROVE  Count(xs, p) = One(page = p)
  <2>1. Count(<<u>>, p) = One(Owes(u, p))
    BY CountOne
  <2> QED BY <2>1, <1>2, <1>3 DEF One, Owes
<1>6. WillUnpin(xs, page)
  <2>1. 1 \in 1 .. Len(xs) /\ xs[1] = UnpinPage(page, TRUE)
    BY <1>1, <1>4
  <2> QED BY <2>1 DEF WillUnpin
<1>7. ASSUME page < num_pages'
      PROVE  ReadyAfter(xs)
  <2>1. IsReady(u)'
    BY <1>2, <1>7 DEF IsReady
  <2> QED BY <2>1, <1>4 DEF ReadyAfter
<1> QED BY <1>2, <1>3, <1>4, <1>5, <1>6, <1>7

(* The nodes under a new root.                                             *)
Rooted(c, n, x, a, b) == [c EXCEPT ![n] = x, ![a].parent = n, ![b].parent = n]

LEMMA RootedProps ==
  ASSUME NEW c, IsPages(c), NEW n \in PageId, NEW x, NEW a \in PageId, NEW b \in PageId,
         n # a, n # b, a # b
  PROVE  /\ IsPages(Rooted(c, n, x, a, b))
         /\ \A p \in PageId : Rooted(c, n, x, a, b)[p] =
              IF p = n THEN x
              ELSE IF p \in {a, b} THEN WithParent(c[p], n) ELSE c[p]
<1>1. PICK d : d = Put(c, n, x)
  OBVIOUS
<1>2. IsPages(d) /\ \A p \in PageId : d[p] = IF p = n THEN x ELSE c[p]
  BY <1>1, PutProps
<1>3. PICK e : e = Put(d, a, WithParent(d[a], n))
  OBVIOUS
<1>4. IsPages(e) /\ \A p \in PageId : e[p] = IF p = a THEN WithParent(d[a], n) ELSE d[p]
  BY <1>2, <1>3, PutProps
<1>5. PICK f : f = Put(e, b, WithParent(e[b], n))
  OBVIOUS
<1>6. IsPages(f) /\ \A p \in PageId : f[p] = IF p = b THEN WithParent(e[b], n) ELSE e[p]
  BY <1>4, <1>5, PutProps
<1>7. Rooted(c, n, x, a, b) = f
  BY <1>1, <1>3, <1>5 DEF Rooted, Put, WithParent
<1> QED BY <1>2, <1>4, <1>6, <1>7

NewRoot(a, key, b) == Internal(NoPage, <<Entry(0, a), Entry(key, b)>>)

LEMMA NewRootProps ==
  ASSUME NEW a \in PageId, NEW key \in Key, NEW b \in PageId, NEW n, n = NewRoot(a, key, b)
  PROVE  /\ InternalOK(n) /\ n.parent = NoPage
         /\ \A i \in 1 .. Len(n.array) : n.array[i].value \in {a, b}
<1>1. PICK x \in InternalEntry : x = Entry(0, a)
  BY DEF Entry, InternalEntry
<1>2. PICK y \in InternalEntry : y = Entry(key, b)
  BY DEF Entry, InternalEntry
<1>3. PICK t \in Seq(InternalEntry) : t = <<x, y>>
  <2>1. <<x, y>> \in Seq(InternalEntry)
    OBVIOUS
  <2> QED BY <2>1
<1>4. Len(t) = 2 /\ t[1] = x /\ t[2] = y
  BY <1>3
<1>5. n = [type |-> "internal", parent |-> NoPage, next |-> NoPage, array |-> t]
  BY <1>1, <1>2, <1>3 DEF NewRoot, Internal
<1>6. n \in InternalRecord /\ n.array = t /\ n.parent = NoPage
  BY <1>3, <1>5 DEF InternalRecord
<1>7. \A i \in 2 .. Len(t) : t[i].key \in Key
  <2> TAKE i \in 2 .. Len(t)
  <2>1. i = 2
    BY <1>4
  <2> QED BY <2>1, <1>2, <1>4 DEF Entry
<1>8. Len(t) \in 1 .. INTERNAL_MAX
  BY <1>4, Sizes
<1>9. \A i \in 1 .. Len(t) : t[i].value \in {a, b}
  <2> TAKE i \in 1 .. Len(t)
  <2>1. i = 1 \/ i = 2
    BY <1>4
  <2> QED BY <2>1, <1>1, <1>2, <1>4 DEF Entry
<1> QED BY <1>6, <1>7, <1>8, <1>9 DEF InternalOK

LEMMA GrowRootKeeps ==
  ASSUME IInv, GrowRoot, UNCHANGED <<held, reply, inserts>>
  PROVE  Keeps
<1> DEFINE h == Head(stack)
           nds == [contents EXCEPT
                     ![num_pages]     = Internal(NoPage, <<Entry(0, h.page), Entry(h.key, h.new)>>),
                     ![h.page].parent = num_pages,
                     ![h.new].parent  = num_pages]
<1>1. /\ Executing("InsertIntoParent") /\ h.page = root_page_id
      /\ \/ /\ NewPage(nds)
            /\ root_page_id' = num_pages
            /\ Then(<<UnpinPage(num_pages, TRUE)>>)
         \/ Crash
  BY DEF GrowRoot
<1>2. CASE Crash
  BY <1>2, CrashKeeps
<1>3. ASSUME NewPage(nds), root_page_id' = num_pages, Then(<<UnpinPage(num_pages, TRUE)>>)
      PROVE  Keeps
  <2>1. PICK s : s = h
    OBVIOUS
  <2>2. /\ s = stack[1] /\ s.do = "InsertIntoParent"
        /\ s.page \in Nodes /\ s.new \in Nodes /\ s.new # root_page_id /\ s.new # s.page
        /\ s.page \in PageId /\ s.new \in PageId /\ s.key \in Key
        /\ stack \in Seq(Statement) /\ stack # <<>> /\ Rest(stack) /\ CalmBehind
        /\ \A p : ~Owes(stack[1], p)
        /\ 3 \in 2 .. Len(stack) /\ 2 \in 2 .. Len(stack)
        /\ stack[2] = UnpinPage(s.page, TRUE) /\ stack[3] = UnpinPage(s.new, TRUE)
        /\ \A p : SplitsRoot(p) => s.new = p
    BY <1>1, <2>1, InsertIntoParentHead
  <2>3. PICK page : page = s.page
    OBVIOUS
  <2>4. PICK other : other = s.new
    OBVIOUS
  <2>5. PICK root : root = num_pages
    OBVIOUS
  <2>6. PICK node : node = NewRoot(page, s.key, other)
    OBVIOUS
  <2>7. PICK nodes : nodes = Rooted(contents, root, node, page, other)
    OBVIOUS
  <2>8. NewPage(nodes)
    <3>1. h.page = page /\ h.new = other /\ h.key = s.key
      BY <2>1, <2>3, <2>4
    <3>2. nodes = nds
      BY <3>1, <2>5, <2>6, <2>7 DEF Rooted, NewRoot
    <3> QED BY <3>2, <1>3
  <2> HIDE DEF nds, h
  <2>9. /\ pins' = Pool!PlusPin(num_pages) /\ Assign(nodes) /\ contents' = nodes
        /\ num_pages \in PageId /\ num_pages \notin Nodes
        /\ num_pages' = num_pages + 1 /\ num_pages' \in num_pages .. MAX_PAGES
        /\ num_pages < num_pages' /\ crashed' = crashed
    BY <2>8, NewFacts
  <2>10. root # page /\ root # other /\ page # other /\ page = root_page_id
    BY <1>1, <2>1, <2>2, <2>3, <2>4, <2>5, <2>9
  <2>11. /\ IsPages(nodes)
         /\ \A p \in PageId : nodes[p] =
              IF p = root THEN node
              ELSE IF p \in {page, other} THEN WithParent(contents[p], root) ELSE contents[p]
    <3>1. IsPages(contents) /\ page \in PageId /\ other \in PageId /\ root \in PageId
      BY <2>2, <2>3, <2>4, <2>5, <2>9, NodeFacts DEF IInv
    <3> QED BY <3>1, <2>7, <2>10, RootedProps
  <2>12. /\ InternalOK(node) /\ node.parent = NoPage
         /\ \A i \in 1 .. Len(node.array) : node.array[i].value \in {page, other}
    BY <2>2, <2>3, <2>4, <2>6, NewRootProps
  <2>13. ASSUME NEW p \in {page, other}
         PROVE  /\ p \in Nodes /\ p \in PageId /\ contents'[p] = WithParent(contents[p], root)
                /\ p \in Leaves => LeafOK(contents'[p])
                /\ p \in Internals => InternalOK(contents'[p])
                /\ contents'[p].parent = root /\ contents'[p].array = contents[p].array
                /\ InternalOK(contents'[p]) => p \in Internals
    <3>1. p \in Nodes /\ p \in PageId /\ p # root
      BY <2>2, <2>3, <2>4, <2>10
    <3>2. contents'[p] = WithParent(contents[p], root)
      BY <3>1, <2>9, <2>11
    <3>3. /\ p \in Leaves => LeafOK(contents[p])
          /\ p \in Internals => InternalOK(contents[p])
          /\ p \in Leaves \/ p \in Internals
      BY <3>1, NodeFacts DEF IInv, Nodes
    <3>4. /\ LeafOK(contents[p]) => LeafOK(WithParent(contents[p], root))
          /\ InternalOK(contents[p]) => InternalOK(WithParent(contents[p], root))
          /\ WithParent(contents[p], root).parent = root
          /\ WithParent(contents[p], root).array = contents[p].array
      BY <3>3, <2>5, <2>9, WithParentProps
    <3>5. LeafOK(contents'[p]) => ~InternalOK(contents'[p])
      BY DEF LeafOK, InternalOK, LeafRecord, InternalRecord
    <3> QED BY <3>1, <3>2, <3>3, <3>4, <3>5
  <2>14. contents'[root] = node /\ root \in PageId
    BY <2>5, <2>9, <2>11
  <2>15. \A p \in PageId : contents'[p] = contents[p] \/ Becomes(p, contents'[p])
    <3> SUFFICES ASSUME NEW p \in PageId, contents'[p] # contents[p]
                 PROVE  Becomes(p, contents'[p])
      OBVIOUS
    <3>1. p = root \/ p \in {page, other}
      BY <2>9, <2>11
    <3>2. ASSUME p = root PROVE Becomes(p, contents'[p])
      <4>1. num_pages \in Int
        BY NodeFacts DEF IInv
      <4> QED BY <3>2, <4>1, <2>5, <2>9, <2>12, <2>14 DEF Becomes
    <3>3. ASSUME p \in {page, other} PROVE Becomes(p, contents'[p])
      BY <3>3, <2>13 DEF Becomes, Nodes
    <3> QED BY <3>1, <3>2, <3>3
  <2>16. IsPages(contents') /\ PagesInv /\ ParentsInv
    BY <2>9, <2>11 DEF IInv
  <2>17. /\ Leaves \subseteq Leaves' /\ Internals \subseteq Internals' /\ Nodes \subseteq Nodes'
         /\ \A p \in PageId : InternalOK(contents'[p]) => p \in Internals'
         /\ (/\ root_page_id' \in Nodes'
             /\ root_page_id' = root_page_id \/ root_page_id' \notin Nodes
             /\ \A p \in PageId : InternalOK(contents'[p]) /\ contents'[p] # contents[p] =>
                  \A i \in 1 .. Len(contents'[p].array) :
                    contents'[p].array[i].value \in Nodes' \ {root_page_id'})
            => PagesInv'
    BY <2>9, <2>15, <2>16, PagesStep
  <2>18. root \in Internals' /\ root \in Nodes' /\ root_page_id' = root /\ root \notin Nodes
    BY <1>3, <2>5, <2>9, <2>12, <2>14, <2>17 DEF Nodes
  <2>19. ASSUME NEW p \in PageId, InternalOK(contents'[p]), contents'[p] # contents[p],
                NEW i \in 1 .. Len(contents'[p].array)
         PROVE  contents'[p].array[i].value \in Nodes' \ {root_page_id'}
    <3>1. p = root \/ p \in {page, other}
      BY <2>9, <2>11, <2>19
    <3>2. ASSUME p = root PROVE contents'[p].array[i].value \in Nodes
      BY <2>2, <2>3, <2>4, <2>12, <2>14, <2>19, <3>2
    <3>3. ASSUME p \in {page, other} PROVE contents'[p].array[i].value \in Nodes
      <4>1. p \in Internals /\ contents'[p].array = contents[p].array
        BY <2>13, <2>19, <3>3
      <4> QED BY <4>1, <2>16, <2>19 DEF PagesInv
    <3> QED BY <3>1, <3>2, <3>3, <2>17, <2>18
  <2>20. PagesInv'
    BY <2>17, <2>18, <2>19
  <2>21. ParentsInv'
    <3>1. contents'[root_page_id'].parent = NoPage
      BY <2>12, <2>14, <2>18
    <3>2. ASSUME NEW p \in Nodes', p # root
          PROVE  contents'[p].parent \in Internals'
      <4>1. p \in PageId /\ contents'[p] # BlankPage
        <5>1. PagesInv' => \A x \in Nodes' : x \in PageId /\ contents'[x] # BlankPage
          BY DEF PagesInv, Nodes, Leaves, Internals, BlankPage, PageId, Pool!PageId
        <5> QED BY <5>1, <2>20, <3>2
      <4>2. CASE p \in {page, other}
        BY <4>2, <2>13, <2>18
      <4>3. CASE p \notin {page, other}
        <5>1. contents'[p] = contents[p]
          BY <4>1, <4>3, <3>2, <2>9, <2>11
        <5>2. p \in Nodes
          BY <4>1, <5>1, <2>16, NodeFacts
        <5>3. contents[p].parent \in Internals \/ SplitsRoot(p)
          BY <4>3, <5>2, <2>10, <2>16 DEF ParentsInv
        <5>4. ~SplitsRoot(p)
          BY <4>3, <2>2, <2>4
        <5> QED BY <5>1, <5>3, <5>4, <2>17
      <4> QED BY <4>2, <4>3
    <3> QED BY <3>1, <3>2, <2>18 DEF ParentsInv
  <2>22. TreeGrows
    BY <2>9, <2>17, <2>18 DEF TreeGrows
  <2>23. PICK xs : xs = JustUnpin(root)
    OBVIOUS
  <2>24. Then(xs)
    BY <1>3, <2>5, <2>23 DEF JustUnpin
  <2>25. root \in PageId /\ root < num_pages'
    BY <2>5, <2>9
  <2>26. /\ xs \in Seq(Statement)
         /\ \A p \in PageId : Count(xs, p) = One(root = p)
         /\ WillUnpin(xs, root) /\ ReadyAfter(xs)
         /\ \E u \in Statement : xs = <<u>> /\ u.do = "UnpinPage"
    BY <2>23, <2>25, UnpinOne
  <2>27. Shape(stack')
    <3>1. PICK u \in Statement : xs = <<u>> /\ u.do = "UnpinPage"
      BY <2>26
    <3>2. PICK r : r = stack' /\ r = xs \o Tail(stack)
      BY <2>24 DEF Then
    <3>3. u.do \in {"UnpinPage", "SplitInternal"}
      BY <3>1
    <3>4. Shape(r)
      BY <2>2, <3>1, <3>2, <3>3, ShapeOfStepUp
    <3> QED BY <3>2, <3>4
  <2>28. PinsFollowTo(xs)
    <3>1. Balanced(xs, root) /\ pins' = Pool!PlusPin(root)
      BY <2>2, <2>5, <2>9, <2>26 DEF Balanced, One
    <3> QED BY <3>1, <2>9, <2>25, <2>26, BalancedPins
  <2>29. DirtyAfter(xs)
    <3>1. WillUnpin(xs, page) /\ WillUnpin(xs, other)
      BY <2>2, <2>3, <2>4 DEF WillUnpin
    <3>2. \A p \in PageId : nodes[p] # contents[p] => WillUnpin(xs, p)
      BY <2>11, <2>26, <3>1
    <3>3. stack[1].do # "UnpinPage"
      BY <2>2
    <3> QED BY <3>2, <3>3, <2>9, WhatIsDirty
  <2>30. RestInv'
    BY <2>9, RestStays DEF IInv, RestInv
  <2>31. held' = held
    OBVIOUS
  <2> QED BY <2>2, <2>20, <2>21, <2>22, <2>24, <2>26, <2>27, <2>28, <2>29, <2>30, <2>31, StepDone
<1> QED BY <1>1, <1>2, <1>3

-----------------------------------------------------------------------------
(* An entry for the new node in the old parent.                            *)

LEMMA InsertedValues ==
  ASSUME NEW array, Len(array) \in Nat, NEW r \in 1 .. Len(array) + 1, NEW key, NEW v, NEW t,
         InsertedAt(array, r, Entry(key, v), t), NEW j \in 1 .. Len(t)
  PROVE  t[j].value = v \/ \E i \in 1 .. Len(array) : t[j].value = array[i].value
<1>1. Len(t) = Len(array) + 1
  BY DEF InsertedAt
<1>2. CASE j < r
  <2>1. j \in 1 .. r - 1 /\ j \in 1 .. Len(array)
    BY <1>1, <1>2
  <2>2. t[j] = array[j]
    BY <2>1 DEF InsertedAt
  <2> QED BY <2>1, <2>2
<1>3. CASE j = r
  <2>1. t[j] = Entry(key, v)
    BY <1>3 DEF InsertedAt
  <2> QED BY <2>1 DEF Entry
<1>4. CASE j > r
  <2>1. j \in r + 1 .. Len(array) + 1 /\ j - 1 \in 1 .. Len(array)
    BY <1>1, <1>4
  <2>2. t[j] = array[j - 1]
    BY <2>1 DEF InsertedAt
  <2> QED BY <2>1, <2>2
<1> QED BY <1>2, <1>3, <1>4

(* The children of n, with one more.                                       *)
ChildrenFrom(m, n, child) ==
  \A j \in 1 .. Len(m.array) :
    \/ m.array[j].value = child
    \/ \E i \in 1 .. Len(n.array) : m.array[j].value = n.array[i].value

LEMMA InternalInsertValues ==
  ASSUME NEW n, InternalOK(n), Len(n.array) < INTERNAL_MAX, NEW key \in Key, NEW child \in PageId,
         NEW m, m = InternalInsert(n, key, child)
  PROVE  /\ InternalOK(m) /\ m.parent = n.parent
         /\ ChildrenFrom(m, n, child)
<1>1. Len(n.array) \in Nat
  BY DEF InternalOK
<1>2. /\ InternalOK(m) /\ m.parent = n.parent
      /\ \E r \in 2 .. Len(n.array) + 1 : InsertedAt(n.array, r, Entry(key, child), m.array)
  BY InternalInsertProps
<1>3. PICK r \in 2 .. Len(n.array) + 1 : InsertedAt(n.array, r, Entry(key, child), m.array)
  BY <1>2
<1>4. r \in 1 .. Len(n.array) + 1
  BY <1>1, <1>3
<1>5. PICK old : old = n.array
  OBVIOUS
<1>6. PICK new : new = m.array
  OBVIOUS
<1>7. ASSUME NEW j \in 1 .. Len(new)
      PROVE  new[j].value = child \/ \E i \in 1 .. Len(old) : new[j].value = old[i].value
  <2>1. Len(old) \in Nat /\ r \in 1 .. Len(old) + 1 /\ InsertedAt(old, r, Entry(key, child), new)
    BY <1>1, <1>3, <1>4, <1>5, <1>6
  <2> QED BY <2>1, InsertedValues
<1> QED BY <1>2, <1>5, <1>6, <1>7 DEF ChildrenFrom

LEMMA InsertIntoOldParentKeeps ==
  ASSUME IInv, InsertIntoOldParent, UNCHANGED <<held, reply, inserts>>
  PROVE  Keeps
<1> DEFINE h == Head(stack)
           par == contents[h.page].parent
           nod == contents[par]
<1>1. /\ Executing("InsertIntoParent") /\ h.page # root_page_id
      /\ \/ /\ InternalHasRoom(nod)
            /\ FetchPage(par, [contents EXCEPT ![par] = InternalInsert(nod, h.key, h.new)])
            /\ Then(<<UnpinPage(par, TRUE)>>)
            /\ UNCHANGED root_page_id
         \/ /\ ~InternalHasRoom(nod)
            /\ FetchPage(par, contents)
            /\ Then(<<SplitInternal(par, h.key, h.new)>>)
            /\ UNCHANGED root_page_id
         \/ Crash
  BY DEF InsertIntoOldParent
<1>2. CASE Crash
  BY <1>2, CrashKeeps
<1>3. PICK s : s = h
  OBVIOUS
<1>4. /\ s = stack[1] /\ s.do = "InsertIntoParent"
      /\ s.page \in Nodes /\ s.new \in Nodes /\ s.new # root_page_id /\ s.new # s.page
      /\ s.page \in PageId /\ s.new \in PageId /\ s.key \in Key
      /\ stack \in Seq(Statement) /\ stack # <<>> /\ Rest(stack) /\ CalmBehind
      /\ \A p : ~Owes(stack[1], p)
      /\ root_page_id \in Nodes
      /\ \A p : SplitsRoot(p) => s.page = root_page_id
  BY <1>1, <1>3, InsertIntoParentHead
<1>5. s.page # root_page_id /\ \A p : ~SplitsRoot(p)
  BY <1>1, <1>3, <1>4
<1>6. PICK parent : parent = contents[s.page].parent
  OBVIOUS
<1>7. PICK node : node = contents[parent]
  OBVIOUS
<1>8. /\ parent \in Internals /\ parent \in Nodes /\ parent \in PageId /\ parent < num_pages
      /\ InternalOK(node)
  <2>1. parent \in Internals
    BY <1>4, <1>5, <1>6 DEF IInv, ParentsInv
  <2>2. parent \in Nodes
    BY <2>1 DEF Nodes
  <2> QED BY <1>7, <2>1, <2>2, NodeFacts DEF IInv
<1>9. par = parent /\ nod = node /\ h.key = s.key /\ h.new = s.new
  BY <1>3, <1>6, <1>7
<1> HIDE DEF par, nod, h
<1>10. ASSUME InternalHasRoom(nod),
              FetchPage(par, [contents EXCEPT ![par] = InternalInsert(nod, h.key, h.new)]),
              Then(<<UnpinPage(par, TRUE)>>), UNCHANGED root_page_id
       PROVE  Keeps
  <2>1. PICK m : m = InternalInsert(node, s.key, s.new)
    OBVIOUS
  <2>2. PICK nodes : nodes = Put(contents, parent, m)
    OBVIOUS
  <2>3. FetchPage(parent, nodes)
    BY <1>9, <1>10, <2>1, <2>2 DEF Put
  <2>4. /\ pins' = Pool!PlusPin(parent) /\ Assign(nodes) /\ contents' = nodes
        /\ num_pages' = num_pages /\ crashed' = crashed
    BY <2>3, FetchFacts
  <2>5. Len(node.array) < INTERNAL_MAX
    BY <1>9, <1>10 DEF InternalHasRoom
  <2>6. /\ InternalOK(m) /\ m.parent = node.parent
        /\ ChildrenFrom(m, node, s.new)
    BY <1>4, <1>8, <2>1, <2>5, InternalInsertValues
  <2>7. /\ IsPages(nodes)
        /\ \A p \in PageId : nodes[p] = IF p = parent THEN m ELSE contents[p]
    BY <2>2, PutProps, NodeFacts DEF IInv
  <2>8. PICK xs : xs = JustUnpin(parent)
    OBVIOUS
  <2>9. Then(xs)
    BY <1>9, <1>10, <2>8 DEF JustUnpin
  <2>10. num_pages' \in num_pages .. MAX_PAGES /\ parent < num_pages'
    BY <1>8, <2>4, NodeFacts DEF IInv
  <2>11. /\ xs \in Seq(Statement)
         /\ \A p \in PageId : Count(xs, p) = One(parent = p)
         /\ WillUnpin(xs, parent) /\ ReadyAfter(xs)
         /\ \E u \in Statement : xs = <<u>> /\ u.do = "UnpinPage"
    BY <1>8, <2>8, <2>10, UnpinOne
  <2>12. PagesInv /\ ParentsInv /\ IsPages(contents')
    BY <2>4, <2>7 DEF IInv
  <2>13. \A p \in PageId : contents'[p] = contents[p] \/ Becomes(p, contents'[p])
    BY <1>8, <2>4, <2>6, <2>7 DEF Becomes
  <2>14. Nodes \subseteq Nodes'
    BY <2>10, <2>12, <2>13, PagesStep
  <2>15. \A p \in PageId :
           \/ contents'[p] = contents[p]
           \/ Becomes(p, contents'[p]) /\ ChildrenOK(p) /\ ParentOK(p)
    <3> SUFFICES ASSUME NEW p \in PageId, contents'[p] # contents[p]
                 PROVE  ChildrenOK(p) /\ ParentOK(p)
      BY <2>13
    <3>1. p = parent /\ contents'[p] = m
      BY <2>4, <2>7
    <3>2. ParentOK(p)
      BY <3>1, <1>7, <1>8, <2>6 DEF ParentOK
    <3>3. ASSUME NEW j \in 1 .. Len(m.array)
          PROVE  m.array[j].value \in Nodes \ {root_page_id}
      <4>1. CASE m.array[j].value = s.new
        BY <4>1, <1>4
      <4>2. ASSUME NEW i \in 1 .. Len(node.array), m.array[j].value = node.array[i].value
            PROVE  m.array[j].value \in Nodes \ {root_page_id}
        BY <4>2, <1>7, <1>8, <2>12 DEF PagesInv
      <4> QED BY <4>1, <4>2, <2>6 DEF ChildrenFrom
    <3>4. ChildrenOK(p)
      BY <3>1, <3>3, <2>14 DEF ChildrenOK
    <3> QED BY <3>2, <3>4
  <2>16. PagesInv' /\ ParentsInv'
    BY <1>4, <1>5, <1>10, <2>10, <2>12, <2>15, NodesStep
  <2>17. TreeGrows
    BY <1>10, <2>10, <2>14 DEF TreeGrows
  <2>18. Shape(stack')
    <3>1. PICK u \in Statement : xs = <<u>> /\ u.do = "UnpinPage"
      BY <2>11
    <3>2. PICK r : r = stack' /\ r = xs \o Tail(stack)
      BY <2>9 DEF Then
    <3>3. u.do \in {"UnpinPage", "SplitInternal"}
      BY <3>1
    <3>4. Shape(r)
      BY <1>4, <3>1, <3>2, <3>3, ShapeOfStepUp
    <3> QED BY <3>2, <3>4
  <2>19. PinsFollowTo(xs)
    <3>1. Balanced(xs, parent)
      BY <1>4, <2>11 DEF Balanced, One
    <3> QED BY <3>1, <1>8, <2>4, <2>10, <2>11, BalancedPins
  <2>20. DirtyAfter(xs)
    <3>1. \A p \in PageId : nodes[p] # contents[p] => WillUnpin(xs, p)
      BY <2>7, <2>11
    <3>2. stack[1].do # "UnpinPage"
      BY <1>4
    <3> QED BY <3>1, <3>2, <2>4, WhatIsDirty
  <2>21. RestInv'
    BY <2>4, RestStays DEF IInv, RestInv
  <2>22. held' = held
    OBVIOUS
  <2> QED BY <1>4, <2>9, <2>11, <2>16, <2>17, <2>18, <2>19, <2>20, <2>21, <2>22, StepDone
<1>11. ASSUME ~InternalHasRoom(nod), FetchPage(par, contents),
              Then(<<SplitInternal(par, h.key, h.new)>>), UNCHANGED root_page_id
       PROVE  Keeps
  <2>1. PICK b \in Statement : b = SplitInternal(parent, s.key, s.new)
    BY <1>4, <1>8, MakeStatement
  <2>2. b.do = "SplitInternal" /\ b.page = parent /\ b.new = s.new
    BY <2>1 DEF SplitInternal
  <2>3. Len(node.array) = INTERNAL_MAX
    BY <1>8, <1>9, <1>11, Sizes DEF InternalHasRoom, InternalOK
  <2>4. IsReady(b)
    BY <1>4, <1>7, <1>8, <2>2, <2>3 DEF IsReady
  <2>5. FetchPage(parent, contents) /\ Then(<<b>>)
    BY <1>9, <1>11, <2>1
  <2>6. Shape(stack')
    <3>1. PICK xs : xs = <<b>>
      OBVIOUS
    <3>2. PICK r : r = stack' /\ r = xs \o Tail(stack)
      BY <2>5, <3>1 DEF Then
    <3>3. b.do \in {"UnpinPage", "SplitInternal"}
      BY <2>2
    <3>4. Shape(r)
      BY <1>4, <3>1, <3>2, <3>3, ShapeOfStepUp
    <3> QED BY <3>2, <3>4
  <2>7. PICK q : q = stack
    OBVIOUS
  <2>8. /\ q[1].do \in {"Descend", "InsertIntoParent"}
        /\ q[1].do # "InsertIntoParent" \/ q[1].page # root_page_id
        /\ stack # <<>>
    BY <1>4, <1>5, <2>7
  <2>9. b.do \in {"SplitLeaf", "SplitInternal"} /\ b.page = parent
    BY <2>2
  <2>10. UNCHANGED <<root_page_id, held, reply, inserts>>
    BY <1>11
  <2> QED BY <1>8, <2>4, <2>5, <2>6, <2>7, <2>8, <2>9, <2>10, TakeStep
<1> QED BY <1>1, <1>2, <1>10, <1>11

-----------------------------------------------------------------------------
(* Splitting an internal page.                                             *)

LeftInternal(n, key, child) ==
  LET left  == Internal(n.parent, Kept(n.array, INTERNAL_MAX))
      right == Internal(n.parent, Moved(n.array, INTERNAL_MAX))
  IN IF MiddleKey(right) <= key THEN left ELSE InternalInsert(left, key, child)

RightInternal(n, key, child) ==
  LET right == Internal(n.parent, Moved(n.array, INTERNAL_MAX))
  IN IF MiddleKey(right) <= key THEN InternalInsert(right, key, child) ELSE right

MiddleOfInternal(n) == MiddleKey(Internal(n.parent, Moved(n.array, INTERNAL_MAX)))

LEMMA SplitInternalProps ==
  ASSUME NEW n, InternalOK(n), Len(n.array) = INTERNAL_MAX,
         NEW key \in Key, NEW child \in PageId
  PROVE  /\ InternalOK(LeftInternal(n, key, child)) /\ InternalOK(RightInternal(n, key, child))
         /\ LeftInternal(n, key, child).parent = n.parent
         /\ RightInternal(n, key, child).parent = n.parent
         /\ ChildrenFrom(LeftInternal(n, key, child), n, child)
         /\ ChildrenFrom(RightInternal(n, key, child), n, child)
         /\ MiddleOfInternal(n) \in Key
<1>1. PICK array : array = n.array
  OBVIOUS
<1>2. /\ array \in Seq(InternalEntry) /\ n.parent \in PageId \cup {NoPage}
      /\ Len(array) = INTERNAL_MAX /\ \A i \in 2 .. INTERNAL_MAX : array[i].key \in Key
  BY <1>1 DEF InternalOK, InternalRecord
<1>3. PICK half : half = INTERNAL_MAX \div 2
  OBVIOUS
<1>4. PICK kept : kept = Kept(array, INTERNAL_MAX)
  OBVIOUS
<1>5. PICK moved : moved = Moved(array, INTERNAL_MAX)
  OBVIOUS
<1>6. INTERNAL_MAX \in Nat /\ INTERNAL_MAX >= 2
  BY Sizes
<1>7. /\ kept \in Seq(InternalEntry) /\ Len(kept) = half /\ half \in 1 .. INTERNAL_MAX - 1
      /\ \A i \in 1 .. half : kept[i] = array[i]
  BY <1>2, <1>3, <1>4, <1>6, KeptProps
<1>8. /\ moved \in Seq(InternalEntry) /\ Len(moved) = INTERNAL_MAX - half
      /\ half \in 1 .. INTERNAL_MAX - 1
      /\ \A i \in 1 .. INTERNAL_MAX - half : moved[i] = array[half + i]
  <2>1. array \in Seq(InternalEntry) /\ Len(array) = INTERNAL_MAX
    BY <1>2
  <2>2. IsUpperHalf(moved, InternalEntry, array, INTERNAL_MAX, half)
    BY <2>1, <1>3, <1>5, <1>6, MovedProps
  <2> QED BY <2>2 DEF IsUpperHalf
<1>9. PICK left : left = Internal(n.parent, kept)
  OBVIOUS
<1>10. PICK right : right = Internal(n.parent, moved)
  OBVIOUS
<1>11. left \in InternalRecord /\ left.array = kept /\ left.parent = n.parent
  BY <1>2, <1>7, <1>9 DEF Internal, InternalRecord
<1>12. right \in InternalRecord /\ right.array = moved /\ right.parent = n.parent
  BY <1>2, <1>8, <1>10 DEF Internal, InternalRecord
<1>13. InternalOK(left) /\ Len(left.array) < INTERNAL_MAX
  <2>1. \A i \in 2 .. half : kept[i].key \in Key
    BY <1>2, <1>6, <1>7
  <2> QED BY <1>6, <1>7, <1>11, <2>1 DEF InternalOK
<1>14. InternalOK(right) /\ Len(right.array) < INTERNAL_MAX
  <2>1. ASSUME NEW i \in 2 .. INTERNAL_MAX - half
        PROVE  moved[i].key \in Key
    <3>1. half + i \in 2 .. INTERNAL_MAX /\ i \in 1 .. INTERNAL_MAX - half
      BY <1>6, <1>7
    <3> QED BY <3>1, <1>2, <1>8
  <2> QED BY <1>6, <1>7, <1>8, <1>12, <2>1 DEF InternalOK
<1>15. MiddleKey(right) \in Key
  <2>1. 1 \in 1 .. INTERNAL_MAX - half /\ half + 1 \in 2 .. INTERNAL_MAX
    BY <1>6, <1>7
  <2>2. moved[1].key = array[half + 1].key
    BY <2>1, <1>8
  <2> QED BY <2>1, <2>2, <1>2, <1>12 DEF MiddleKey
<1>16. ChildrenFrom(left, n, child)
  <2> SUFFICES ASSUME NEW j \in 1 .. Len(kept)
               PROVE  \E i \in 1 .. Len(array) : kept[j].value = array[i].value
    BY <1>1, <1>11 DEF ChildrenFrom
  <2>1. j \in 1 .. half /\ j \in 1 .. Len(array)
    BY <1>2, <1>6, <1>7
  <2> QED BY <2>1, <1>7
<1>17. ChildrenFrom(right, n, child)
  <2> SUFFICES ASSUME NEW j \in 1 .. Len(moved)
               PROVE  \E i \in 1 .. Len(array) : moved[j].value = array[i].value
    BY <1>1, <1>12 DEF ChildrenFrom
  <2>1. j \in 1 .. INTERNAL_MAX - half /\ half + j \in 1 .. Len(array)
    BY <1>2, <1>6, <1>7, <1>8
  <2>2. moved[j] = array[half + j]
    BY <2>1, <1>8
  <2> QED BY <2>1, <2>2
<1>18. ASSUME NEW m, m \in {left, right}
       PROVE  /\ InternalOK(InternalInsert(m, key, child))
              /\ InternalInsert(m, key, child).parent = n.parent
              /\ ChildrenFrom(InternalInsert(m, key, child), n, child)
  <2>1. InternalOK(m) /\ Len(m.array) < INTERNAL_MAX /\ m.parent = n.parent /\ ChildrenFrom(m, n, child)
    BY <1>11, <1>12, <1>13, <1>14, <1>16, <1>17, <1>18
  <2>2. PICK t : t = InternalInsert(m, key, child)
    OBVIOUS
  <2>3. InternalOK(t) /\ t.parent = m.parent /\ ChildrenFrom(t, m, child)
    BY <2>1, <2>2, InternalInsertValues
  <2>4. ChildrenFrom(t, n, child)
    BY <2>1, <2>3 DEF ChildrenFrom
  <2> QED BY <2>1, <2>2, <2>3, <2>4
<1>19. /\ MiddleOfInternal(n) = MiddleKey(right)
       /\ LeftInternal(n, key, child) =
            IF MiddleKey(right) <= key THEN left ELSE InternalInsert(left, key, child)
       /\ RightInternal(n, key, child) =
            IF MiddleKey(right) <= key THEN InternalInsert(right, key, child) ELSE right
  BY <1>1, <1>4, <1>5, <1>9, <1>10 DEF MiddleOfInternal, LeftInternal, RightInternal
<1>20. /\ InternalOK(InternalInsert(left, key, child))
       /\ InternalInsert(left, key, child).parent = n.parent
       /\ ChildrenFrom(InternalInsert(left, key, child), n, child)
       /\ InternalOK(InternalInsert(right, key, child))
       /\ InternalInsert(right, key, child).parent = n.parent
       /\ ChildrenFrom(InternalInsert(right, key, child), n, child)
  BY <1>18
<1> QED BY <1>11, <1>12, <1>13, <1>14, <1>15, <1>16, <1>17, <1>19, <1>20

LEMMA OneAndThree ==
  ASSUME NEW S, NEW a \in S, NEW b \in S, NEW c \in S, NEW d \in S
  PROVE  <<a>> \o <<b, c, d>> = <<a, b, c, d>>
<1>1. PICK r : r = <<a>> \o <<b, c, d>>
  OBVIOUS
<1>2. <<a>> \in Seq(S) /\ <<b, c, d>> \in Seq(S)
  OBVIOUS
<1>3. /\ r \in Seq(S) /\ Len(r) = Len(<<a>>) + Len(<<b, c, d>>)
      /\ \A i \in 1 .. Len(<<a>>) + Len(<<b, c, d>>) :
           r[i] = IF i <= Len(<<a>>) THEN <<a>>[i] ELSE <<b, c, d>>[i - Len(<<a>>)]
  BY <1>1, <1>2, ConcatProperties
<1>4. r \in Seq(S) /\ Len(r) = 4 /\ r[1] = a /\ r[2] = b /\ r[3] = c /\ r[4] = d
  BY <1>3
<1>5. r = <<a, b, c, d>>
  BY <1>4
<1> QED BY <1>1, <1>5

(* The statements of the split of an internal page.                        *)
AdoptAndGoUp(old, key, new) ==
  <<AdoptChildren(new, 1), InsertIntoParent(old, key, new),
    UnpinPage(old, TRUE), UnpinPage(new, TRUE)>>

LEMMA AdoptAndGoUpIs ==
  ASSUME NEW old \in PageId, NEW key \in Key, NEW new \in PageId
  PROVE  <<AdoptChildren(new, 1)>> \o PassUp(old, key, new) = AdoptAndGoUp(old, key, new)
<1>1. PICK a \in Statement, b \in Statement, c \in Statement, d \in Statement :
        /\ a = AdoptChildren(new, 1) /\ b = InsertIntoParent(old, key, new)
        /\ c = UnpinPage(old, TRUE) /\ d = UnpinPage(new, TRUE)
  <2>1. 1 \in 1 .. INTERNAL_MAX
    BY Sizes
  <2>2. /\ AdoptChildren(new, 1) \in Statement /\ InsertIntoParent(old, key, new) \in Statement
        /\ UnpinPage(old, TRUE) \in Statement /\ UnpinPage(new, TRUE) \in Statement
    BY <2>1, MakeStatement
  <2> QED BY <2>2
<1>2. <<a>> \o <<b, c, d>> = <<a, b, c, d>>
  BY OneAndThree
<1>3. PassUp(old, key, new) = <<b, c, d>>
  BY <1>1 DEF PassUp
<1>4. AdoptAndGoUp(old, key, new) = <<a, b, c, d>>
  BY <1>1 DEF AdoptAndGoUp
<1> QED BY <1>1, <1>2, <1>3, <1>4

LEMMA AdoptAndGoUpProps ==
  ASSUME NEW old \in PageId, NEW key \in Key, NEW new \in PageId,
         NEW xs, xs = AdoptAndGoUp(old, key, new)
  PROVE  /\ xs \in Seq(Statement)
         /\ \A p \in PageId : Count(xs, p) = One(new = p) + One(old = p)
         /\ WillUnpin(xs, old) /\ WillUnpin(xs, new)
         /\ 2 \in 1 .. Len(xs) /\ xs[2] = InsertIntoParent(old, key, new)
         /\ \A q \in Seq(Statement) : q # <<>> /\ Rest(q) => Shape(xs \o Tail(q))
         /\ /\ old < num_pages' /\ new < num_pages'
            /\ old \in Nodes' /\ new \in Nodes' /\ new # root_page_id' /\ new # old
            /\ new \in Internals' /\ 1 \in 1 .. Len(contents'[new].array)
            => ReadyAfter(xs)
<1>1. PICK a \in Statement, b \in Statement, c \in Statement, d \in Statement :
        /\ a = AdoptChildren(new, 1) /\ b = InsertIntoParent(old, key, new)
        /\ c = UnpinPage(old, TRUE) /\ d = UnpinPage(new, TRUE)
  <2>1. 1 \in 1 .. INTERNAL_MAX
    BY Sizes
  <2>2. /\ AdoptChildren(new, 1) \in Statement /\ InsertIntoParent(old, key, new) \in Statement
        /\ UnpinPage(old, TRUE) \in Statement /\ UnpinPage(new, TRUE) \in Statement
    BY <2>1, MakeStatement
  <2> QED BY <2>2
<1>2. /\ a.do = "AdoptChildren" /\ a.page = new /\ a.i = 1
      /\ b.do = "InsertIntoParent" /\ b.page = old /\ b.new = new
      /\ c.do = "UnpinPage" /\ c.page = old
      /\ d.do = "UnpinPage" /\ d.page = new
  BY <1>1 DEF AdoptChildren, InsertIntoParent, UnpinPage
<1>3. /\ xs \in Seq(Statement) /\ Len(xs) = 4 /\ xs = <<a, b, c, d>>
      /\ xs[1] = a /\ xs[2] = b /\ xs[3] = c /\ xs[4] = d
  <2>1. xs = <<a, b, c, d>>
    BY <1>1 DEF AdoptAndGoUp
  <2> QED BY <2>1
<1>4. ASSUME NEW q \in Seq(Statement), q # <<>>, Rest(q)
      PROVE  Shape(xs \o Tail(q))
  <2>1. PICK r : r = xs \o Tail(q)
    OBVIOUS
  <2>2. /\ r \in Seq(Statement) /\ Len(r) = Len(xs) + Len(q) - 1
        /\ Len(q) \in Nat \ {0}
        /\ \A i \in 1 .. Len(xs) : r[i] = xs[i]
        /\ \A i \in Len(xs) + 1 .. Len(r) : r[i] = q[i - Len(xs) + 1]
    BY <1>3, <1>4, <2>1, ThenProps
  <2>3. Len(r) = Len(q) + 3 /\ r[1] = a /\ r[2] = b /\ r[3] = c /\ r[4] = d
    BY <1>3, <2>2
  <2>4. IsQuiet(r, 2)
    <3>1. ASSUME NEW j \in 3 .. Len(r)
          PROVE  r[j].do \in {"UnpinPage", "Return"}
      <4>1. CASE j = 3 \/ j = 4
        BY <4>1, <1>2, <2>3
      <4>2. CASE j \in 5 .. Len(r)
        <5>1. j \in Len(xs) + 1 .. Len(r) /\ j - Len(xs) + 1 \in 2 .. Len(q)
          BY <4>2, <1>3, <2>2, <2>3
        <5> QED BY <5>1, <1>4, <2>2 DEF Rest
      <4> QED BY <4>1, <4>2
    <3>2. 2 + 1 = 3
      OBVIOUS
    <3> QED BY <3>1, <3>2 DEF IsQuiet
  <2>5. /\ 2 \in 1 .. Len(r) /\ 2 + 2 <= Len(r) /\ 2 + 1 = 3 /\ 2 + 2 = 4
        /\ r[2].do = "InsertIntoParent"
    BY <1>2, <2>2, <2>3
  <2>6. r[2 + 1] = UnpinPage(r[2].page, TRUE) /\ r[2 + 2] = UnpinPage(r[2].new, TRUE)
    BY <1>1, <1>2, <2>3, <2>5
  <2>7. \A j \in 1 .. 2 - 1 :
          \/ r[j].do = "UnpinPage"
          \/ r[j].do = "AdoptChildren" /\ j + 1 = 2 /\ r[2].new = r[j].page
    <3> TAKE j \in 1 .. 2 - 1
    <3>1. j = 1
      OBVIOUS
    <3> QED BY <3>1, <1>2, <2>3
  <2>8. Shape(r)
    BY <2>2, <2>4, <2>5, <2>6, <2>7, ShapeOfSplit
  <2> QED BY <2>1, <2>8
<1>5. ASSUME NEW p \in PageId
      PROVE  Count(xs, p) = One(new = p) + One(old = p)
  <2>1. Count(<<a, b, c, d>>, p) =
          One(Owes(a, p)) + One(Owes(b, p)) + One(Owes(c, p)) + One(Owes(d, p))
    BY CountFour
  <2> QED BY <2>1, <1>2, <1>3 DEF One, Owes
<1>6. WillUnpin(xs, old) /\ WillUnpin(xs, new)
  <2>1. 3 \in 1 .. Len(xs) /\ xs[3] = UnpinPage(old, TRUE)
    BY <1>1, <1>3
  <2>2. 4 \in 1 .. Len(xs) /\ xs[4] = UnpinPage(new, TRUE)
    BY <1>1, <1>3
  <2> QED BY <2>1, <2>2 DEF WillUnpin
<1>7. ASSUME old < num_pages', new < num_pages',
             old \in Nodes', new \in Nodes', new # root_page_id', new # old,
             new \in Internals', 1 \in 1 .. Len(contents'[new].array)
      PROVE  ReadyAfter(xs)
  <2>1. IsReady(a)' /\ IsReady(b)' /\ IsReady(c)' /\ IsReady(d)'
    BY <1>2, <1>7 DEF IsReady
  <2>2. ASSUME NEW i \in 1 .. 4
        PROVE  IsReady(xs[i])'
    <3>1. i = 1 \/ i = 2 \/ i = 3 \/ i = 4
      OBVIOUS
    <3> QED BY <3>1, <2>1, <1>3
  <2> QED BY <1>3, <2>2 DEF ReadyAfter
<1>8. 2 \in 1 .. Len(xs) /\ xs[2] = InsertIntoParent(old, key, new)
  BY <1>1, <1>3
<1> QED BY <1>3, <1>4, <1>5, <1>6, <1>7, <1>8

LEMMA SplitInternalHead ==
  ASSUME IInv, Executing("SplitInternal"), NEW s, s = Head(stack)
  PROVE  /\ s = stack[1] /\ s.do = "SplitInternal"
         /\ s.page \in Internals /\ s.page \in Nodes /\ s.page \in PageId /\ s.page < num_pages
         /\ InternalOK(contents[s.page]) /\ Len(contents[s.page].array) = INTERNAL_MAX
         /\ s.new \in Nodes /\ s.new # root_page_id /\ s.new \in PageId /\ s.key \in Key
         /\ stack \in Seq(Statement) /\ stack # <<>> /\ Rest(stack) /\ CalmBehind
         /\ root_page_id \in Nodes
         /\ \A p : ~SplitsRoot(p)
<1>1. PICK q : q = stack
  OBVIOUS
<1>2. /\ s \in Statement /\ s = q[1] /\ s.do = "SplitInternal" /\ IsReady(s)
      /\ q \in Seq(Statement) /\ q # <<>> /\ Len(q) \in Nat \ {0}
  BY <1>1, HeadProps DEF IInv
<1>3. Rest(q)
  <2>1. Shape(q)
    BY <1>1 DEF IInv, StackInv
  <2> QED BY <1>2, <2>1, ShapeOfHead
<1>4. /\ s.page \in Internals /\ Len(contents[s.page].array) = INTERNAL_MAX
      /\ s.new \in Nodes /\ s.new # root_page_id
  BY <1>2 DEF IsReady
<1>5. s.page \in PageId /\ s.new \in PageId /\ s.key \in Key
  BY <1>2, StatementFields
<1>6. s.page \in Nodes /\ InternalOK(contents[s.page]) /\ s.page < num_pages
  <2>1. s.page \in Nodes
    BY <1>4 DEF Nodes
  <2> QED BY <2>1, <1>4, NodeFacts DEF IInv
<1>7. root_page_id \in Nodes
  BY <1>6 DEF IInv, PagesInv
<1>8. CalmBehind
  BY <1>1, <1>3 DEF CalmBehind, Rest
<1>9. ASSUME NEW p, SplitsRoot(p)
      PROVE  FALSE
  <2>1. PICK i \in 1 .. Len(q) : q[i].do = "InsertIntoParent"
    BY <1>1, <1>9 DEF SplitsRoot
  <2>2. i \in 2 .. Len(q) => q[i].do \in {"UnpinPage", "Return"}
    BY <1>3 DEF Rest
  <2> QED BY <2>1, <2>2, <1>2
<1> QED BY <1>1, <1>2, <1>3, <1>4, <1>5, <1>6, <1>7, <1>8, <1>9

LEMMA DoSplitInternalKeeps ==
  ASSUME IInv, DoSplitInternal, UNCHANGED <<held, reply, inserts>>
  PROVE  Keeps
<1> DEFINE h  == Head(stack)
           nd == contents[h.page]
<1>1. /\ Executing("SplitInternal")
      /\ \/ /\ NewPage([contents EXCEPT ![h.page] = LeftInternal(nd, h.key, h.new),
                                        ![num_pages] = RightInternal(nd, h.key, h.new)])
            /\ Then(<<AdoptChildren(num_pages, 1)>> \o
                    PassUp(h.page, MiddleOfInternal(nd), num_pages))
            /\ UNCHANGED root_page_id
         \/ Crash
  BY DEF DoSplitInternal, LeftInternal, RightInternal, MiddleOfInternal
<1>2. CASE Crash
  BY <1>2, CrashKeeps
<1>3. ASSUME NewPage([contents EXCEPT ![h.page] = LeftInternal(nd, h.key, h.new),
                                      ![num_pages] = RightInternal(nd, h.key, h.new)]),
             Then(<<AdoptChildren(num_pages, 1)>> \o
                  PassUp(h.page, MiddleOfInternal(nd), num_pages)),
             UNCHANGED root_page_id
      PROVE  Keeps
  <2>1. PICK s : s = h
    OBVIOUS
  <2>2. PICK page : page = s.page
    OBVIOUS
  <2>3. PICK node : node = contents[page]
    OBVIOUS
  <2>4. /\ s = stack[1] /\ s.do = "SplitInternal"
        /\ page \in Internals /\ page \in Nodes /\ page \in PageId /\ page < num_pages
        /\ InternalOK(node) /\ Len(node.array) = INTERNAL_MAX
        /\ s.new \in Nodes /\ s.new # root_page_id /\ s.new \in PageId /\ s.key \in Key
        /\ stack \in Seq(Statement) /\ stack # <<>> /\ Rest(stack) /\ CalmBehind
        /\ root_page_id \in Nodes
        /\ \A p : ~SplitsRoot(p)
    BY <1>1, <2>1, <2>2, <2>3, SplitInternalHead
  <2>5. PICK new : new = num_pages
    OBVIOUS
  <2>6. PICK l : l = LeftInternal(node, s.key, s.new)
    OBVIOUS
  <2>7. PICK rt : rt = RightInternal(node, s.key, s.new)
    OBVIOUS
  <2>8. PICK key : key = MiddleOfInternal(node)
    OBVIOUS
  <2>9. PICK nodes : nodes = Put(Put(contents, page, l), new, rt)
    OBVIOUS
  <2>10. NewPage(nodes) /\ Then(<<AdoptChildren(new, 1)>> \o PassUp(page, key, new))
    <3>1. /\ nd = node /\ h.page = page
          /\ l = LeftInternal(nd, h.key, h.new) /\ rt = RightInternal(nd, h.key, h.new)
          /\ key = MiddleOfInternal(nd)
      BY <2>1, <2>2, <2>3, <2>6, <2>7, <2>8
    <3>2. nodes = [contents EXCEPT ![page] = l, ![num_pages] = rt]
      BY <2>5, <2>9 DEF Put
    <3> HIDE DEF h, nd
    <3> QED BY <1>3, <2>5, <3>1, <3>2
  <2> HIDE DEF h, nd
  <2>11. /\ pins' = Pool!PlusPin(num_pages) /\ Assign(nodes) /\ contents' = nodes
         /\ num_pages \in PageId /\ num_pages \notin Nodes
         /\ num_pages' = num_pages + 1 /\ num_pages' \in num_pages .. MAX_PAGES
         /\ num_pages < num_pages' /\ crashed' = crashed
    BY <2>10, NewFacts
  <2>12. /\ InternalOK(l) /\ InternalOK(rt) /\ l.parent = node.parent /\ rt.parent = node.parent
         /\ ChildrenFrom(l, node, s.new) /\ ChildrenFrom(rt, node, s.new)
         /\ key \in Key
    BY <2>4, <2>6, <2>7, <2>8, SplitInternalProps
  <2>13. PICK xs : xs = AdoptAndGoUp(page, key, new)
    OBVIOUS
  <2>14. new \in PageId /\ new < num_pages' /\ page < num_pages' /\ new # page /\ new \notin Nodes
    <3>1. page \in Int /\ num_pages \in Int /\ num_pages' \in Int
      BY <2>4, <2>11, Sizes, NodeFacts DEF IInv
    <3> QED BY <2>4, <2>5, <2>11, <3>1
  <2>15. Then(xs)
    <3>1. <<AdoptChildren(new, 1)>> \o PassUp(page, key, new) = AdoptAndGoUp(page, key, new)
      BY <2>4, <2>12, <2>14, AdoptAndGoUpIs
    <3> QED BY <3>1, <2>10, <2>13
  <2>16. /\ IsPages(nodes)
         /\ \A p \in PageId : nodes[p] = IF p = new THEN rt ELSE IF p = page THEN l ELSE contents[p]
    <3>1. PICK c : c = Put(contents, page, l)
      OBVIOUS
    <3>2. IsPages(c) /\ \A p \in PageId : c[p] = IF p = page THEN l ELSE contents[p]
      BY <3>1, PutProps, NodeFacts DEF IInv
    <3>3. nodes = Put(c, new, rt)
      BY <2>9, <3>1
    <3>4. IsPages(nodes) /\ \A p \in PageId : nodes[p] = IF p = new THEN rt ELSE c[p]
      BY <3>2, <3>3, PutProps
    <3> QED BY <3>2, <3>4
  <2>17. ASSUME NEW p \in PageId, contents'[p] # contents[p]
         PROVE  (p = page /\ contents'[p] = l) \/ (p = new /\ contents'[p] = rt)
    BY <2>11, <2>16, <2>17
  <2>18. \A p \in PageId : contents'[p] = contents[p] \/ Becomes(p, contents'[p])
    <3> SUFFICES ASSUME NEW p \in PageId, contents'[p] # contents[p]
                 PROVE  Becomes(p, contents'[p])
      OBVIOUS
    <3>1. num_pages \in Int
      BY NodeFacts DEF IInv
    <3> QED BY <3>1, <2>4, <2>5, <2>11, <2>12, <2>14, <2>17 DEF Becomes
  <2>19. IsPages(contents') /\ PagesInv /\ ParentsInv
    BY <2>11, <2>16 DEF IInv
  <2>20. /\ Leaves \subseteq Leaves' /\ Internals \subseteq Internals' /\ Nodes \subseteq Nodes'
         /\ \A p \in PageId : InternalOK(contents'[p]) => p \in Internals'
    BY <2>11, <2>18, <2>19, PagesStep
  <2>21. contents'[new] = rt
    BY <2>11, <2>14, <2>16
  <2>22. new \in Nodes' /\ page \in Nodes' /\ new \in Internals' /\ new # root_page_id
    BY <2>4, <2>12, <2>14, <2>20, <2>21 DEF Nodes
  <2>23. /\ xs \in Seq(Statement)
         /\ \A p \in PageId : Count(xs, p) = One(new = p) + One(page = p)
         /\ WillUnpin(xs, page) /\ WillUnpin(xs, new)
         /\ 2 \in 1 .. Len(xs) /\ xs[2] = InsertIntoParent(page, key, new)
         /\ \A q \in Seq(Statement) : q # <<>> /\ Rest(q) => Shape(xs \o Tail(q))
         /\ /\ page < num_pages' /\ new < num_pages'
            /\ page \in Nodes' /\ new \in Nodes' /\ new # root_page_id' /\ new # page
            /\ new \in Internals' /\ 1 \in 1 .. Len(contents'[new].array)
            => ReadyAfter(xs)
    BY <2>4, <2>12, <2>13, <2>14, AdoptAndGoUpProps, SMTT(90)
  <2>24. ReadyAfter(xs)
    <3>1. 1 \in 1 .. Len(contents'[new].array)
      BY <2>12, <2>21 DEF InternalOK
    <3> QED BY <1>3, <2>14, <2>22, <2>23, <3>1
  <2>25. Shape(stack')
    <3>1. PICK q : q = stack
      OBVIOUS
    <3>2. q \in Seq(Statement) /\ q # <<>> /\ Rest(q)
      BY <2>4, <3>1
    <3>3. Shape(xs \o Tail(q))
      BY <3>2, <2>23
    <3>4. stack' = xs \o Tail(q)
      BY <2>15, <3>1 DEF Then
    <3> QED BY <3>3, <3>4
  <2>26. page = root_page_id => SplitsRoot(new)'
    <3>1. stack[1].do # "InsertIntoParent" /\ StackInv
      BY <2>4 DEF IInv
    <3>2. \A p : (\E i \in 1 .. Len(xs) :
                    /\ xs[i].do = "InsertIntoParent"
                    /\ xs[i].page = root_page_id /\ xs[i].new = p) => SplitsRoot(p)'
      BY <1>3, <2>4, <2>15, <2>23, <3>1, SplitsRootStays
    <3>3. xs[2].do = "InsertIntoParent" /\ xs[2].page = page /\ xs[2].new = new
      BY <2>23 DEF InsertIntoParent
    <3> QED BY <2>23, <3>2, <3>3
  <2>27. \/ page = root_page_id /\ node.parent = NoPage
         \/ page # root_page_id /\ node.parent \in Internals
    BY <2>3, <2>4 DEF IInv, ParentsInv, PagesInv
  <2>28. ASSUME NEW m, ChildrenFrom(m, node, s.new), NEW j \in 1 .. Len(m.array)
         PROVE  m.array[j].value \in Nodes \ {root_page_id}
    <3>1. CASE m.array[j].value = s.new
      BY <3>1, <2>4
    <3>2. ASSUME NEW i \in 1 .. Len(node.array), m.array[j].value = node.array[i].value
          PROVE  m.array[j].value \in Nodes \ {root_page_id}
      BY <3>2, <2>3, <2>4, <2>19 DEF PagesInv
    <3> QED BY <3>1, <3>2, <2>28 DEF ChildrenFrom
  <2>29. \A p \in PageId :
           \/ contents'[p] = contents[p]
           \/ Becomes(p, contents'[p]) /\ ChildrenOK(p) /\ ParentOK(p)
    <3> SUFFICES ASSUME NEW p \in PageId, contents'[p] # contents[p]
                 PROVE  Becomes(p, contents'[p]) /\ ChildrenOK(p) /\ ParentOK(p)
      OBVIOUS
    <3>1. (p = page /\ contents'[p] = l) \/ (p = new /\ contents'[p] = rt)
      BY <2>17
    <3>2. ChildrenOK(p)
      <4>1. contents'[p] \in {l, rt}
        BY <3>1
      <4>2. ChildrenFrom(contents'[p], node, s.new)
        BY <4>1, <2>12
      <4> QED BY <4>2, <2>20, <2>28 DEF ChildrenOK
    <3>3. ASSUME p = page, contents'[p] = l PROVE ParentOK(p)
      BY <3>3, <2>3, <2>4, <2>12 DEF ParentOK
    <3>4. ASSUME p = new, contents'[p] = rt PROVE ParentOK(p)
      BY <3>4, <2>12, <2>20, <2>22, <2>26, <2>27 DEF ParentOK
    <3> QED BY <2>18, <3>1, <3>2, <3>3, <3>4
  <2>30. PagesInv' /\ ParentsInv'
    BY <1>3, <2>4, <2>11, <2>19, <2>29, NodesStep
  <2>31. TreeGrows
    BY <1>3, <2>11, <2>20 DEF TreeGrows
  <2>32. PinsFollowTo(xs)
    <3>1. Balanced(xs, new)
      BY <2>2, <2>4, <2>23 DEF Balanced, One, Owes
    <3>2. pins' = Pool!PlusPin(new)
      BY <2>5, <2>11
    <3> QED BY <3>1, <3>2, <2>11, <2>14, <2>23, BalancedPins
  <2>33. DirtyAfter(xs)
    <3>1. \A p \in PageId : nodes[p] # contents[p] => WillUnpin(xs, p)
      BY <2>16, <2>23
    <3>2. stack[1].do # "UnpinPage"
      BY <2>4
    <3> QED BY <3>1, <3>2, <2>11, WhatIsDirty
  <2>34. RestInv'
    BY <2>11, RestStays DEF IInv, RestInv
  <2>35. held' = held
    OBVIOUS
  <2> QED BY <2>4, <2>15, <2>23, <2>24, <2>25, <2>30, <2>31, <2>32, <2>33, <2>34, <2>35, StepDone
<1> QED BY <1>1, <1>2, <1>3

-----------------------------------------------------------------------------
(* Telling a child of its new parent.                                      *)

AdoptNext(child, page, i, n) ==
  <<UnpinPage(child, TRUE)>> \o IF i < n THEN <<AdoptChildren(page, i + 1)>> ELSE <<>>

(* Behind the head the split goes on up.                                   *)
GoesUp(q) ==
  /\ 4 <= Len(q)
  /\ q[2].do = "InsertIntoParent" /\ q[2].new = q[1].page
  /\ q[3] = UnpinPage(q[2].page, TRUE) /\ q[4] = UnpinPage(q[2].new, TRUE)
  /\ IsQuiet(q, 2)

OneOrTwo(xs, i, n, a, b) == xs = IF i < n THEN <<a, b>> ELSE <<a>>

LEMMA AdoptNextIs ==
  ASSUME NEW child \in PageId, NEW page \in PageId, NEW i \in Nat, i >= 1,
         NEW n \in 1 .. INTERNAL_MAX,
         NEW xs, xs = AdoptNext(child, page, i, n)
  PROVE  \E a \in Statement, b \in Statement :
           /\ a = UnpinPage(child, TRUE) /\ b = AdoptChildren(page, IF i < n THEN i + 1 ELSE 1)
           /\ OneOrTwo(xs, i, n, a, b)
<1>1. PICK a \in Statement : a = UnpinPage(child, TRUE)
  BY MakeStatement
<1>2. PICK b \in Statement : b = AdoptChildren(page, IF i < n THEN i + 1 ELSE 1)
  <2>1. (IF i < n THEN i + 1 ELSE 1) \in 1 .. INTERNAL_MAX
    BY Sizes
  <2> QED BY <2>1, MakeStatement
<1>3. <<a, b>> = <<a>> \o <<b>>
  BY PairOfOnes
<1>4. PICK t \in Seq(Statement) : t = <<a>>
  <2>1. <<a>> \in Seq(Statement)
    OBVIOUS
  <2> QED BY <2>1
<1>5. t \o <<>> = t
  BY ConcatEmptySeq
<1>6. CASE i < n
  <2>1. xs = <<a>> \o <<b>>
    BY <1>1, <1>2, <1>6 DEF AdoptNext
  <2>2. xs = <<a, b>>
    BY <1>3, <2>1, Zenon
  <2> QED BY <1>1, <1>2, <1>6, <2>2 DEF OneOrTwo
<1>7. CASE ~(i < n)
  <2>1. xs = <<a>> \o <<>>
    BY <1>1, <1>7 DEF AdoptNext
  <2>2. xs = <<a>>
    BY <1>4, <1>5, <2>1, Zenon
  <2> QED BY <1>1, <1>2, <1>7, <2>2 DEF OneOrTwo
<1> QED BY <1>6, <1>7

(* What the stack may be once it is in place of the head.                  *)
FitsUnder(xs, page) ==
  \A q \in Seq(Statement) : q # <<>> /\ GoesUp(q) /\ q[1].page = page => Shape(xs \o Tail(q))

HasNext(page, i, n) ==
  page \in Internals /\ (i < n => i + 1 \in 1 .. Len(contents[page].array))

LEMMA BehindTheHead ==
  ASSUME NEW m, m = 1 \/ m = 2, NEW l \in Nat, l >= 4,
         NEW n, n = m + l - 1, NEW k, k = m + 1
  PROVE  /\ k \in 1 .. n /\ k + 2 <= n /\ k \in 2 .. 3
         /\ k - m + 1 = 2 /\ k + 1 - m + 1 = 3 /\ k + 2 - m + 1 = 4
         /\ k \in m + 1 .. n /\ k + 1 \in m + 1 .. n /\ k + 2 \in m + 1 .. n
OBVIOUS

LEMMA AdoptNextProps ==
  ASSUME NEW child \in PageId, NEW page \in PageId, NEW i \in Nat, i >= 1,
         NEW n \in 1 .. INTERNAL_MAX,
         NEW xs, xs = AdoptNext(child, page, i, n)
  PROVE  /\ xs \in Seq(Statement)
         /\ \A p \in PageId : Count(xs, p) = One(child = p)
         /\ WillUnpin(xs, child)
         /\ FitsUnder(xs, page)
         /\ child < num_pages' /\ HasNext(page, i, n)' => ReadyAfter(xs)
<1>1. PICK a \in Statement, b \in Statement :
        /\ a = UnpinPage(child, TRUE) /\ b = AdoptChildren(page, IF i < n THEN i + 1 ELSE 1)
        /\ OneOrTwo(xs, i, n, a, b)
  BY AdoptNextIs
<1>2. /\ a.do = "UnpinPage" /\ a.page = child
      /\ b.do = "AdoptChildren" /\ b.page = page /\ (i < n => b.i = i + 1)
  BY <1>1 DEF UnpinPage, AdoptChildren
<1>3. /\ xs \in Seq(Statement) /\ xs[1] = a /\ 1 \in 1 .. Len(xs)
      /\ \/ Len(xs) = 1
         \/ i < n /\ Len(xs) = 2 /\ xs[2] = b
  <2>1. CASE i < n
    <3>1. xs = <<a, b>>
      BY <1>1, <2>1 DEF OneOrTwo
    <3> QED BY <2>1, <3>1
  <2>2. CASE ~(i < n)
    <3>1. xs = <<a>>
      BY <1>1, <2>2 DEF OneOrTwo
    <3> QED BY <3>1
  <2> QED BY <2>1, <2>2
<1>4. ASSUME NEW q \in Seq(Statement), q # <<>>, GoesUp(q), q[1].page = page
      PROVE  Shape(xs \o Tail(q))
  <2>1. PICK r : r = xs \o Tail(q)
    OBVIOUS
  <2>2. /\ r \in Seq(Statement) /\ Len(r) = Len(xs) + Len(q) - 1
        /\ Len(q) \in Nat \ {0} /\ Len(xs) \in Nat
        /\ \A j \in 1 .. Len(xs) : r[j] = xs[j]
        /\ \A j \in Len(xs) + 1 .. Len(r) : r[j] = q[j - Len(xs) + 1]
    BY <1>3, <1>4, <2>1, ThenProps
  <2>3. PICK k : k = Len(xs) + 1
    OBVIOUS
  <2>4. /\ k \in 1 .. Len(r) /\ k + 2 <= Len(r) /\ k \in 2 .. 3
        /\ k - Len(xs) + 1 = 2 /\ k + 1 - Len(xs) + 1 = 3 /\ k + 2 - Len(xs) + 1 = 4
        /\ k \in Len(xs) + 1 .. Len(r) /\ k + 1 \in Len(xs) + 1 .. Len(r)
        /\ k + 2 \in Len(xs) + 1 .. Len(r)
    <3>1. PICK m : m = Len(xs)
      OBVIOUS
    <3>2. m = 1 \/ m = 2
      BY <1>3, <3>1, Zenon
    <3>3. PICK l : l = Len(q)
      OBVIOUS
    <3>4. l \in Nat /\ l >= 4
      BY <1>4, <2>2, <3>3 DEF GoesUp
    <3>5. Len(r) = m + l - 1 /\ k = m + 1
      BY <2>2, <2>3, <3>1, <3>3
    <3> QED BY <3>1, <3>2, <3>4, <3>5, BehindTheHead
  <2>5. r[k] = q[2] /\ r[k + 1] = q[3] /\ r[k + 2] = q[4]
    <3>1. \A j : j \in Len(xs) + 1 .. Len(r) => r[j] = q[j - Len(xs) + 1]
      BY <2>2
    <3>3. r[k] = q[k - Len(xs) + 1]
      BY <3>1, <2>4
    <3>4. r[k + 1] = q[3]
      <4>1. PICK j : j = k + 1
        OBVIOUS
      <4>2. j \in Len(xs) + 1 .. Len(r) /\ j - Len(xs) + 1 = 3
        BY <2>4, <4>1
      <4> QED BY <3>1, <4>1, <4>2
    <3>2. r[k + 2] = q[4]
      <4>1. PICK j : j = k + 2
        OBVIOUS
      <4>2. j \in Len(xs) + 1 .. Len(r) /\ j - Len(xs) + 1 = 4
        BY <2>4, <4>1
      <4> QED BY <3>1, <4>1, <4>2
    <3> QED BY <3>2, <3>3, <3>4, <2>4
  <2>6. /\ r[k].do = "InsertIntoParent" /\ r[k].new = page
        /\ r[k + 1] = UnpinPage(r[k].page, TRUE) /\ r[k + 2] = UnpinPage(r[k].new, TRUE)
    BY <1>4, <2>5 DEF GoesUp
  <2>7. IsQuiet(r, k)
    <3> SUFFICES ASSUME NEW j \in k + 1 .. Len(r)
                 PROVE  r[j].do \in {"UnpinPage", "Return"}
      BY DEF IsQuiet
    <3>1. j \in Len(xs) + 1 .. Len(r) /\ j - Len(xs) + 1 \in 2 + 1 .. Len(q)
      BY <2>2, <2>3, <2>4
    <3>2. r[j] = q[j - Len(xs) + 1]
      BY <3>1, <2>2
    <3> QED BY <3>1, <3>2, <1>4 DEF GoesUp, IsQuiet
  <2>8. ASSUME NEW j \in 1 .. k - 1
        PROVE  \/ r[j].do = "UnpinPage"
               \/ r[j].do = "AdoptChildren" /\ j + 1 = k /\ r[k].new = r[j].page
    <3>1. j \in 1 .. Len(xs) /\ r[j] = xs[j]
      BY <1>3, <2>2, <2>3
    <3>2. CASE j = 1
      BY <3>1, <3>2, <1>2, <1>3
    <3>3. CASE j # 1
      <4>1. Len(xs) = 2 /\ xs[2] = b
        BY <3>1, <3>3, <1>3
      <4>2. j = 2 /\ k = 3
        BY <3>1, <3>3, <4>1, <2>3
      <4> QED BY <4>1, <4>2, <3>1, <2>6, <1>2
    <3> QED BY <3>2, <3>3
  <2>9. Shape(r)
    BY <2>2, <2>4, <2>6, <2>7, <2>8, ShapeOfSplit
  <2> QED BY <2>1, <2>9
<1>5. ASSUME NEW p \in PageId
      PROVE  Count(xs, p) = One(child = p)
  <2>1. Count(<<a, b>>, p) = One(Owes(a, p)) + One(Owes(b, p))
    BY CountTwo
  <2>2. Count(<<a>>, p) = One(Owes(a, p))
    BY CountOne
  <2>3. CASE xs = <<a>>
    BY <2>2, <2>3, <1>2 DEF One, Owes
  <2>4. CASE xs = <<a, b>>
    BY <2>1, <2>4, <1>2 DEF One, Owes
  <2> QED BY <2>3, <2>4, <1>1 DEF OneOrTwo
<1>6. WillUnpin(xs, child)
  <2>1. 1 \in 1 .. Len(xs) /\ xs[1] = UnpinPage(child, TRUE)
    BY <1>1, <1>3
  <2> QED BY <2>1 DEF WillUnpin
<1>7. ASSUME child < num_pages', HasNext(page, i, n)'
      PROVE  ReadyAfter(xs)
  <2>1. IsReady(a)'
    BY <1>2, <1>7 DEF IsReady, HasNext
  <2>2. i < n => IsReady(b)'
    BY <1>2, <1>7 DEF IsReady, HasNext
  <2>3. ASSUME NEW j \in 1 .. Len(xs)
        PROVE  IsReady(xs[j])'
    <3>1. xs[j] = a \/ (i < n /\ xs[j] = b)
      BY <1>3
    <3> QED BY <3>1, <2>1, <2>2
  <2> QED BY <2>3 DEF ReadyAfter
<1>8. FitsUnder(xs, page)
  BY <1>4 DEF FitsUnder
<1> QED BY <1>3, <1>5, <1>6, <1>7, <1>8

LEMMA AdoptChildrenHead ==
  ASSUME IInv, Executing("AdoptChildren"), NEW s, s = Head(stack)
  PROVE  /\ s = stack[1] /\ s.do = "AdoptChildren"
         /\ s.page \in Internals /\ s.page \in Nodes /\ s.page \in PageId
         /\ InternalOK(contents[s.page]) /\ s.i \in 1 .. Len(contents[s.page].array)
         /\ contents[s.page].array[s.i].value \in Nodes \ {root_page_id}
         /\ stack \in Seq(Statement) /\ stack # <<>> /\ GoesUp(stack) /\ CalmBehind
         /\ \A p : ~Owes(stack[1], p)
         /\ root_page_id \in Nodes
<1>1. PICK q : q = stack
  OBVIOUS
<1>2. /\ s \in Statement /\ s = q[1] /\ s.do = "AdoptChildren" /\ IsReady(s)
      /\ q \in Seq(Statement) /\ q # <<>> /\ Len(q) \in Nat \ {0}
  BY <1>1, HeadProps DEF IInv
<1>3. Shape(q)
  BY <1>1 DEF IInv, StackInv
<1>4. 2 <= Len(q) /\ q[2].do = "InsertIntoParent" /\ q[2].new = q[1].page
  BY <1>2, <1>3, ShapeOfHead
<1>5. GoesUp(q)
  <2>1. 2 \in 1 .. Len(q) /\ 2 + 1 = 3 /\ 2 + 2 = 4
    BY <1>2, <1>4
  <2>2. ShapeAt(q, 2)
    BY <1>3, <2>1 DEF Shape
  <2>3. /\ 2 + 2 <= Len(q)
        /\ q[2 + 1] = UnpinPage(q[2].page, TRUE)
        /\ q[2 + 2] = UnpinPage(q[2].new, TRUE)
        /\ IsQuiet(q, 2)
    BY <1>4, <2>2 DEF ShapeAt
  <2> QED BY <1>4, <2>1, <2>3 DEF GoesUp
<1>6. /\ s.page \in Internals /\ s.i \in 1 .. Len(contents[s.page].array)
  BY <1>2 DEF IsReady
<1>7. s.page \in PageId /\ s.page \in Nodes /\ InternalOK(contents[s.page])
  BY <1>6, NodeFacts DEF IInv, Nodes
<1>8. contents[s.page].array[s.i].value \in Nodes \ {root_page_id}
  BY <1>6 DEF IInv, PagesInv
<1>9. root_page_id \in Nodes
  BY <1>7 DEF IInv, PagesInv
<1>10. CalmBehind
  <2> SUFFICES ASSUME NEW i \in 2 .. Len(q)
               PROVE  q[i].do \in {"UnpinPage", "Return", "InsertIntoParent"}
    BY <1>1 DEF CalmBehind
  <2>1. CASE i = 2
    BY <2>1, <1>4
  <2>2. CASE i # 2
    <3>1. i \in 2 + 1 .. Len(q)
      BY <2>2, <1>2
    <3> QED BY <3>1, <1>5 DEF GoesUp, IsQuiet
  <2> QED BY <2>1, <2>2
<1>11. \A p : ~Owes(stack[1], p)
  BY <1>1, <1>2 DEF Owes
<1> QED BY <1>1, <1>2, <1>5, <1>6, <1>7, <1>8, <1>9, <1>10, <1>11

LEMMA DoAdoptChildrenKeeps ==
  ASSUME IInv, DoAdoptChildren, UNCHANGED <<held, reply, inserts>>
  PROVE  Keeps
<1> DEFINE h   == Head(stack)
           arr == contents[h.page].array
           chi == arr[h.i].value
<1>1. /\ Executing("AdoptChildren")
      /\ \/ /\ FetchPage(chi, [contents EXCEPT ![chi].parent = h.page])
            /\ Then(AdoptNext(chi, h.page, h.i, Len(arr)))
            /\ UNCHANGED root_page_id
         \/ Crash
  BY DEF DoAdoptChildren, AdoptNext
<1>2. CASE Crash
  BY <1>2, CrashKeeps
<1>3. ASSUME FetchPage(chi, [contents EXCEPT ![chi].parent = h.page]),
             Then(AdoptNext(chi, h.page, h.i, Len(arr))),
             UNCHANGED root_page_id
      PROVE  Keeps
  <2>1. PICK s : s = h
    OBVIOUS
  <2>2. PICK page : page = s.page
    OBVIOUS
  <2>3. PICK i : i = s.i
    OBVIOUS
  <2>4. PICK child : child = contents[page].array[i].value
    OBVIOUS
  <2>5. PICK n : n = Len(contents[page].array)
    OBVIOUS
  <2>6. /\ s = stack[1] /\ s.do = "AdoptChildren"
        /\ page \in Internals /\ page \in Nodes /\ page \in PageId
        /\ InternalOK(contents[page]) /\ i \in 1 .. n
        /\ child \in Nodes \ {root_page_id}
        /\ stack \in Seq(Statement) /\ stack # <<>> /\ GoesUp(stack) /\ CalmBehind
        /\ \A p : ~Owes(stack[1], p)
        /\ root_page_id \in Nodes
    BY <1>1, <2>1, <2>2, <2>3, <2>4, <2>5, AdoptChildrenHead
  <2>7. /\ child \in PageId /\ child < num_pages
        /\ LeafOK(contents[child]) \/ InternalOK(contents[child])
        /\ child \in Leaves => LeafOK(contents[child])
        /\ child \in Internals => InternalOK(contents[child])
    BY <2>6, NodeFacts DEF IInv, Nodes
  <2>8. PICK m : m = WithParent(contents[child], page)
    OBVIOUS
  <2>9. PICK nodes : nodes = Put(contents, child, m)
    OBVIOUS
  <2>10. PICK xs : xs = AdoptNext(child, page, i, n)
    OBVIOUS
  <2>11. FetchPage(child, nodes) /\ Then(xs)
    <3>1. h.page = page /\ h.i = i /\ chi = child /\ Len(arr) = n
      BY <2>1, <2>2, <2>3, <2>4, <2>5
    <3>2. nodes = [contents EXCEPT ![child].parent = page]
      BY <2>8, <2>9 DEF Put, WithParent
    <3> HIDE DEF h, arr, chi
    <3> QED BY <1>3, <2>10, <3>1, <3>2
  <2> HIDE DEF h, arr, chi
  <2>12. /\ pins' = Pool!PlusPin(child) /\ Assign(nodes) /\ contents' = nodes
         /\ num_pages' = num_pages /\ crashed' = crashed
    BY <2>11, FetchFacts
  <2>13. /\ IsPages(nodes)
         /\ \A p \in PageId : nodes[p] = IF p = child THEN m ELSE contents[p]
    BY <2>9, PutProps, NodeFacts DEF IInv
  <2>14. /\ LeafOK(contents[child]) => LeafOK(m)
         /\ InternalOK(contents[child]) => InternalOK(m)
         /\ m.parent = page /\ m.array = contents[child].array
    BY <2>6, <2>7, <2>8, WithParentProps
  <2>15. num_pages' \in num_pages .. MAX_PAGES /\ child < num_pages'
    BY <2>7, <2>12, NodeFacts DEF IInv
  <2>16. n \in 1 .. INTERNAL_MAX /\ i \in Nat /\ i >= 1
    BY <2>5, <2>6 DEF InternalOK
  <2>17. /\ xs \in Seq(Statement)
         /\ \A p \in PageId : Count(xs, p) = One(child = p)
         /\ WillUnpin(xs, child)
         /\ FitsUnder(xs, page)
         /\ child < num_pages' /\ HasNext(page, i, n)' => ReadyAfter(xs)
    <3>1. child \in PageId /\ page \in PageId /\ i \in Nat /\ n \in 1 .. INTERNAL_MAX /\ i >= 1
      BY <2>6, <2>7, <2>16
    <3> QED BY <3>1, <2>10, AdoptNextProps
  <2>18. PagesInv /\ ParentsInv /\ StackInv /\ IsPages(contents')
    BY <2>12, <2>13 DEF IInv
  <2>19. \A p \in PageId : contents'[p] = contents[p] \/ Becomes(p, contents'[p])
    <3> SUFFICES ASSUME NEW p \in PageId, contents'[p] # contents[p]
                 PROVE  Becomes(p, contents'[p])
      OBVIOUS
    <3>1. p = child /\ contents'[p] = m
      BY <2>12, <2>13
    <3>2. child \in Leaves \/ child \in Internals
      BY <2>6 DEF Nodes
    <3> QED BY <3>1, <3>2, <2>7, <2>14 DEF Becomes
  <2>20. /\ Internals \subseteq Internals' /\ Nodes \subseteq Nodes'
         /\ \A p \in PageId : InternalOK(contents'[p]) => p \in Internals'
    BY <2>15, <2>18, <2>19, PagesStep
  <2>21. ReadyAfter(xs)
    <3>1. contents'[page].array = contents[page].array
      BY <2>6, <2>12, <2>13, <2>14
    <3>2. i < n => i + 1 \in 1 .. n
      BY <2>6, <2>16
    <3> QED BY <3>1, <3>2, <2>5, <2>6, <2>15, <2>17, <2>20 DEF HasNext
  <2>22. Shape(stack')
    <3>1. PICK q : q = stack
      OBVIOUS
    <3>2. q \in Seq(Statement) /\ q # <<>> /\ GoesUp(q) /\ q[1].page = page
      BY <2>2, <2>6, <3>1
    <3>3. Shape(xs \o Tail(q))
      BY <3>2, <2>17 DEF FitsUnder
    <3>4. stack' = xs \o Tail(q)
      BY <2>11, <3>1 DEF Then
    <3> QED BY <3>3, <3>4
  <2>23. \A p : SplitsRoot(p) => SplitsRoot(p)'
    <3>1. PICK q : q = stack
      OBVIOUS
    <3>2. q[1].do # "InsertIntoParent"
      BY <2>6, <3>1
    <3> QED BY <1>3, <2>6, <2>11, <2>17, <2>18, <3>1, <3>2, SplitsRootStays
  <2>24. \A p \in PageId :
           \/ contents'[p] = contents[p]
           \/ Becomes(p, contents'[p]) /\ ChildrenOK(p) /\ ParentOK(p)
    <3> SUFFICES ASSUME NEW p \in PageId, contents'[p] # contents[p]
                 PROVE  ChildrenOK(p) /\ ParentOK(p)
      BY <2>19
    <3>1. p = child /\ contents'[p] = m
      BY <2>12, <2>13
    <3>2. ParentOK(p)
      BY <3>1, <2>6, <2>14, <2>20 DEF ParentOK
    <3>3. InternalOK(m) => child \in Internals
      <4>1. ~(LeafOK(m) /\ InternalOK(m))
        BY DEF LeafOK, InternalOK, LeafRecord, InternalRecord
      <4> QED BY <4>1, <2>6, <2>7, <2>14 DEF Nodes
    <3>4. ASSUME InternalOK(m), NEW j \in 1 .. Len(m.array)
          PROVE  m.array[j].value \in Nodes \ {root_page_id}
      BY <3>3, <3>4, <2>14, <2>18 DEF PagesInv
    <3>5. ChildrenOK(p)
      BY <3>1, <3>4, <2>20 DEF ChildrenOK
    <3> QED BY <3>2, <3>5
  <2>25. PagesInv' /\ ParentsInv'
    BY <1>3, <2>6, <2>15, <2>18, <2>23, <2>24, NodesStep
  <2>26. TreeGrows
    BY <1>3, <2>15, <2>20 DEF TreeGrows
  <2>27. PinsFollowTo(xs)
    <3>1. Balanced(xs, child)
      BY <2>6, <2>17 DEF Balanced, One
    <3> QED BY <3>1, <2>7, <2>12, <2>15, <2>17, BalancedPins
  <2>28. DirtyAfter(xs)
    <3>1. \A p \in PageId : nodes[p] # contents[p] => WillUnpin(xs, p)
      BY <2>13, <2>17
    <3>2. stack[1].do # "UnpinPage"
      BY <2>6
    <3> QED BY <3>1, <3>2, <2>12, WhatIsDirty
  <2>29. RestInv'
    BY <2>12, RestStays DEF IInv, RestInv
  <2>30. held' = held
    OBVIOUS
  <2> QED BY <2>6, <2>11, <2>17, <2>21, <2>22, <2>25, <2>26, <2>27, <2>28, <2>29, <2>30, StepDone
<1> QED BY <1>1, <1>2, <1>3

-----------------------------------------------------------------------------
(* Between calls: the calls of the tree, and of the other callers.         *)

LEMMA IdleFacts ==
  ASSUME IInv, stack = <<>>
  PROVE  /\ touched = {} /\ (\A p : ~SplitsRoot(p)) /\ (\A p : Count(stack, p) = 0)
         /\ pins \in [PageId -> Nat] /\ held \subseteq {p \in PageId : p < num_pages}
         /\ \A p \in PageId :
              /\ pins[p] >= One(p \in held)
              /\ PinsAreExact => pins[p] = One(p \in held)
              /\ p >= num_pages => pins[p] = 0
<1>1. PICK q : q = stack
  OBVIOUS
<1>2. q = <<>> /\ Len(q) = 0
  BY <1>1
<1>3. touched = {}
  BY <1>1, <1>2 DEF IInv, DirtyInv
<1>4. \A p : ~SplitsRoot(p)
  BY <1>1, <1>2 DEF SplitsRoot
<1>5. \A p : Count(stack, p) = 0
  BY CountEmpty
<1>6. PinsInv
  BY DEF IInv
<1>7. \A p \in PageId :
        /\ pins[p] >= 0 + One(p \in held)
        /\ PinsAreExact => pins[p] = 0 + One(p \in held)
  BY <1>5, <1>6 DEF PinsInv, PinsAreExact
<1>8. \A p \in PageId : One(p \in held) \in Nat
  BY DEF One
<1> QED BY <1>3, <1>4, <1>5, <1>6, <1>7, <1>8 DEF PinsInv

LEMMA CallStarts ==
  ASSUME IInv, stack = <<>>, NEW b \in Statement, stack' = <<b>>,
         b.do \in {"Return", "Descend", "StartNewTree"}, IsReady(b),
         UNCHANGED <<pool, root_page_id, held>>, RestInv'
  PROVE  Keeps
<1>1. /\ pins' = pins /\ contents' = contents /\ touched' = touched
      /\ num_pages' = num_pages /\ PageId' = PageId
  BY DEF pool, PageId, Pool!PageId
<1>2. num_pages' \in num_pages .. MAX_PAGES
  BY <1>1, NodeFacts DEF IInv
<1>3. /\ touched = {} /\ (\A p : ~SplitsRoot(p)) /\ (\A p : Count(stack, p) = 0)
  BY IdleFacts
<1>4. PagesInv' /\ ParentsInv' /\ \A s \in Statement : IsReady(s) => IsReady(s)'
  BY <1>1, <1>2, <1>3, SameNodes DEF IInv
<1>5. PICK xs : xs = <<b>>
  OBVIOUS
<1>6. xs \in Seq(Statement) /\ Len(xs) = 1 /\ xs[1] = b
  BY <1>5
<1>7. StackInv'
  <2>1. Shape(<<b>>)
    BY ShapeOfOne
  <2>2. Shape(xs) /\ \A i \in 1 .. Len(xs) : IsReady(xs[i])'
    BY <1>4, <1>5, <1>6, <2>1
  <2>3. stack' = xs
    BY <1>5
  <2> QED BY <1>6, <2>2, <2>3 DEF StackInv
<1>8. \A p : Count(stack', p) = 0
  <2> TAKE p
  <2>1. Count(<<b>>, p) = One(Owes(b, p))
    BY CountOne
  <2> QED BY <2>1 DEF One, Owes
<1>9. PinsInv' /\ (PinsAreExact => PinsAreExact')
  <2>1. \A p \in PageId : One(p \in held) \in Nat
    BY DEF One
  <2>2. Count(stack, 0) = 0 /\ PinsInv
    BY <1>3 DEF IInv
  <2> QED BY <1>1, <1>3, <1>8, <2>1, <2>2 DEF PinsInv, PinsAreExact
<1>10. DirtyInv'
  BY <1>1, <1>3 DEF DirtyInv
<1> QED BY <1>4, <1>7, <1>9, <1>10 DEF IInv, Keeps

(* The statement a call starts with.                                       *)
IsFirst(b) ==
  b \in Statement /\ b.do \in {"Return", "Descend", "StartNewTree"} /\ IsReady(b)

LEMMA CallInsertIsReady ==
  ASSUME IInv, NEW key \in Key, NEW value \in RecordID
  PROVE  IsFirst(CallInsert(key, value))
<1>1. PICK b : b = CallInsert(key, value)
  OBVIOUS
<1>2. root_page_id \in Nodes \cup {NoPage} /\ Nodes \subseteq PageId
  BY NodeFacts DEF IInv, PagesInv
<1>3. CASE root_page_id = NoPage
  <2>1. b = StartNewTree(key, value)
    BY <1>1, <1>3 DEF CallInsert
  <2>2. b \in Statement
    BY <2>1, MakeStatement
  <2> QED BY <1>1, <1>3, <2>1, <2>2 DEF StartNewTree, IsReady, IsFirst
<1>4. CASE root_page_id # NoPage
  <2>1. b = Descend(root_page_id, key, "Insert", value)
    BY <1>1, <1>4 DEF CallInsert
  <2>2. root_page_id \in Nodes /\ root_page_id \in PageId
    BY <1>2, <1>4
  <2>3. b \in Statement
    BY <2>1, <2>2, MakeStatement
  <2> QED BY <1>1, <2>1, <2>2, <2>3 DEF Descend, IsReady, IsFirst
<1> QED BY <1>3, <1>4

LEMMA CallGetValueIsReady ==
  ASSUME IInv, NEW key \in Key
  PROVE  IsFirst(CallGetValue(key))
<1>1. PICK b : b = CallGetValue(key)
  OBVIOUS
<1>2. root_page_id \in Nodes \cup {NoPage} /\ Nodes \subseteq PageId
  BY NodeFacts DEF IInv, PagesInv
<1>3. CASE root_page_id = NoPage
  <2>1. b = Return(Missing(key))
    BY <1>1, <1>3 DEF CallGetValue
  <2>2. Missing(key) \in Answer
    BY DEF Answer
  <2>3. b \in Statement
    BY <2>1, <2>2, MakeStatement
  <2> QED BY <1>1, <2>1, <2>3 DEF Return, IsReady, IsFirst
<1>4. CASE root_page_id # NoPage
  <2>1. b = Descend(root_page_id, key, "GetValue", NoReply)
    BY <1>1, <1>4 DEF CallGetValue
  <2>2. root_page_id \in Nodes /\ root_page_id \in PageId
    BY <1>2, <1>4
  <2>3. b \in Statement
    BY <2>1, <2>2, MakeStatement
  <2> QED BY <1>1, <2>1, <2>2, <2>3 DEF Descend, IsReady, IsFirst
<1> QED BY <1>3, <1>4

LEMMA InsertKeeps ==
  ASSUME IInv, NEW key \in Key, NEW value \in RecordID, Insert(key, value)
  PROVE  Keeps
<1>1. PICK b : b = CallInsert(key, value)
  OBVIOUS
<1>2. /\ stack = <<>> /\ inserts < MAX_INSERTS /\ inserts' = inserts + 1 /\ reply' = NoReply
      /\ stack' = <<b>> /\ UNCHANGED <<pool, root_page_id, held, crashed>>
  BY <1>1 DEF Insert, Idle
<1>3. IsFirst(b)
  BY <1>1, CallInsertIsReady
<1>4. RestInv'
  <2>1. inserts' \in 0 .. MAX_INSERTS
    BY <1>2, TreeAssumption DEF IInv, RestInv
  <2> QED BY <1>2, <2>1 DEF IInv, RestInv
<1>5. UNCHANGED <<pool, root_page_id, held>>
  BY <1>2
<1> QED BY <1>2, <1>3, <1>4, <1>5, CallStarts DEF IsFirst

LEMMA GetValueKeeps ==
  ASSUME IInv, NEW key \in Key, GetValue(key)
  PROVE  Keeps
<1>1. PICK b : b = CallGetValue(key)
  OBVIOUS
<1>2. /\ stack = <<>> /\ reply' = NoReply /\ inserts' = inserts
      /\ stack' = <<b>> /\ UNCHANGED <<pool, root_page_id, held, crashed>>
  BY <1>1 DEF GetValue, Idle
<1>3. IsFirst(b)
  BY <1>1, CallGetValueIsReady
<1>4. RestInv'
  BY <1>2 DEF IInv, RestInv
<1>5. UNCHANGED <<pool, root_page_id, held>>
  BY <1>2
<1> QED BY <1>2, <1>3, <1>4, <1>5, CallStarts DEF IsFirst

(* A pin of another caller comes or goes.                                  *)
PinsOfOthers ==
  /\ pins' \in [PageId -> Nat]
  /\ held' \subseteq {p \in PageId : p < num_pages'}
  /\ \A p \in PageId :
       /\ pins'[p] - One(p \in held') = pins[p] - One(p \in held)
       /\ p >= num_pages' => pins'[p] = 0

LEMMA OthersStep ==
  ASSUME IInv, stack = <<>>, num_pages' \in num_pages .. MAX_PAGES, PinsOfOthers,
         UNCHANGED <<contents, root_page_id, touched, stack>>, RestInv'
  PROVE  Keeps
<1>1. PageId' = PageId
  BY DEF PageId, Pool!PageId
<1>2. /\ touched = {} /\ (\A p : ~SplitsRoot(p)) /\ (\A p : Count(stack, p) = 0)
      /\ pins \in [PageId -> Nat]
      /\ \A p \in PageId :
           /\ pins[p] >= One(p \in held)
           /\ PinsAreExact => pins[p] = One(p \in held)
  BY IdleFacts
<1>3. PagesInv' /\ ParentsInv'
  BY <1>2, SameNodes DEF IInv
<1>4. StackInv'
  <2>1. PICK q : q = stack'
    OBVIOUS
  <2>2. q = <<>> /\ Len(q) = 0 /\ q \in Seq(Statement)
    BY <2>1
  <2> QED BY <2>1, <2>2 DEF StackInv, Shape
<1>5. PinsInv' /\ (PinsAreExact => PinsAreExact')
  <2>1. \A p : Count(stack', p) = 0
    BY CountEmpty
  <2>2. ASSUME NEW p \in PageId
        PROVE  /\ pins'[p] >= 0 + One(p \in held')
               /\ PinsAreExact => pins'[p] = 0 + One(p \in held')
    <3>1. pins'[p] - One(p \in held') = pins[p] - One(p \in held)
      BY DEF PinsOfOthers
    <3>2. /\ pins'[p] \in Nat /\ pins[p] \in Nat
          /\ One(p \in held') \in Nat /\ One(p \in held) \in Nat
      BY <1>2 DEF PinsOfOthers, One
    <3> QED BY <3>1, <3>2, <1>2
  <2> QED BY <1>1, <2>1, <2>2 DEF PinsInv, PinsAreExact, PinsOfOthers
<1>6. DirtyInv'
  BY <1>2 DEF DirtyInv
<1> QED BY <1>3, <1>4, <1>5, <1>6 DEF IInv, Keeps

LEMMA HoldDataPageKeeps ==
  ASSUME IInv, HoldDataPage
  PROVE  Keeps
<1>1. stack = <<>> /\ UNCHANGED <<root_page_id, stack, reply, inserts>>
  BY DEF HoldDataPage, Idle
<1>2. /\ pins \in [PageId -> Nat] /\ held \subseteq {p \in PageId : p < num_pages}
      /\ \A p \in PageId : p >= num_pages => pins[p] = 0
      /\ num_pages \in Nat /\ num_pages \in 0 .. MAX_PAGES
  BY <1>1, IdleFacts, NodeFacts DEF IInv
<1>3. ASSUME NEW a \in PageId, a \notin held, a < num_pages', pins' = Pool!PlusPin(a),
             held' = held \cup {a}, num_pages' \in num_pages .. MAX_PAGES,
             contents' = contents, touched' = touched, crashed' = crashed
      PROVE  Keeps
  <2>1. pins' \in [PageId -> Nat] /\ \A p \in PageId : pins'[p] = pins[p] + One(a = p)
    BY <1>2, <1>3, PinChanges
  <2>2. held' \subseteq {p \in PageId : p < num_pages'}
    <3>1. \A p \in PageId : p < num_pages => p < num_pages'
      BY <1>2, <1>3, Sizes
    <3> QED BY <3>1, <1>2, <1>3
  <2>3. ASSUME NEW p \in PageId
        PROVE  /\ pins'[p] - One(p \in held') = pins[p] - One(p \in held)
               /\ p >= num_pages' => pins'[p] = 0
    <3>1. pins[p] \in Nat /\ p \in Int /\ a \in Int /\ num_pages' \in Int
      BY <1>2, <1>3, Sizes
    <3>2. CASE p = a
      BY <3>1, <3>2, <2>1, <1>3 DEF One
    <3>3. CASE p # a
      <4>1. pins'[p] = pins[p] /\ (p \in held' <=> p \in held)
        BY <3>1, <3>3, <2>1, <1>3 DEF One
      <4> QED BY <4>1, <3>1, <1>2, <1>3 DEF One
    <3> QED BY <3>2, <3>3
  <2>4. PinsOfOthers
    BY <2>1, <2>2, <2>3 DEF PinsOfOthers
  <2>5. RestInv'
    BY <1>1, <1>3, RestStays DEF IInv, RestInv
  <2> QED BY <1>1, <1>3, <2>4, <2>5, OthersStep
<1>4. ASSUME NewPage(contents), held' = held \cup {num_pages}
      PROVE  Keeps
  <2>1. /\ pins' = Pool!PlusPin(num_pages) /\ Assign(contents) /\ contents' = contents
        /\ num_pages \in PageId
        /\ num_pages' \in num_pages .. MAX_PAGES
        /\ num_pages < num_pages' /\ crashed' = crashed
    BY <1>4, NewFacts
  <2>2. touched' = touched
    BY <2>1 DEF Assign
  <2>3. num_pages \notin held
    BY <1>2
  <2> QED BY <1>3, <1>4, <2>1, <2>2, <2>3
<1>5. ASSUME NEW a \in DataPages \ held, FetchPage(a, contents), held' = held \cup {a}
      PROVE  Keeps
  <2>1. a \in PageId /\ a < num_pages
    BY <1>2, <1>5, Sizes DEF DataPages
  <2>2. /\ pins' = Pool!PlusPin(a) /\ contents' = contents /\ touched' = touched
        /\ num_pages' = num_pages /\ crashed' = crashed
    BY <1>5, FetchSame
  <2>3. num_pages' \in num_pages .. MAX_PAGES /\ a < num_pages'
    BY <1>2, <2>1, <2>2
  <2> QED BY <1>3, <1>5, <2>1, <2>2, <2>3
<1> QED BY <1>4, <1>5 DEF HoldDataPage

LEMMA ReleaseDataPageKeeps ==
  ASSUME IInv, ReleaseDataPage
  PROVE  Keeps
<1>1. /\ stack = <<>>
      /\ UNCHANGED <<root_page_id, contents, num_pages, touched, stack, crashed, reply, inserts>>
  BY DEF ReleaseDataPage, Idle
<1>2. PICK a \in held : pins' = Pool!MinusPin(a) /\ held' = held \ {a}
  BY DEF ReleaseDataPage
<1>3. /\ pins \in [PageId -> Nat] /\ held \subseteq {p \in PageId : p < num_pages}
      /\ \A p \in PageId : pins[p] >= One(p \in held) /\ (p >= num_pages => pins[p] = 0)
      /\ num_pages \in Nat /\ num_pages \in 0 .. MAX_PAGES
  BY <1>1, IdleFacts, NodeFacts DEF IInv
<1>4. a \in PageId /\ a < num_pages /\ pins[a] > 0
  <2>1. a \in PageId /\ One(a \in held) = 1 /\ pins[a] \in Nat
    BY <1>2, <1>3 DEF One
  <2> QED BY <2>1, <1>2, <1>3
<1>5. pins' \in [PageId -> Nat] /\ \A p \in PageId : pins'[p] = pins[p] - One(a = p)
  BY <1>2, <1>3, <1>4, PinChanges
<1>6. held' \subseteq {p \in PageId : p < num_pages'}
  BY <1>1, <1>2, <1>3
<1>7. ASSUME NEW p \in PageId
      PROVE  /\ pins'[p] - One(p \in held') = pins[p] - One(p \in held)
             /\ p >= num_pages' => pins'[p] = 0
  <2>1. pins[p] \in Nat /\ p \in Int /\ a \in Int /\ num_pages' \in Int
    BY <1>1, <1>3, <1>4, Sizes
  <2>2. CASE p = a
    BY <2>1, <2>2, <1>1, <1>2, <1>4, <1>5 DEF One
  <2>3. CASE p # a
    <3>1. pins'[p] = pins[p] /\ (p \in held' <=> p \in held)
      BY <2>1, <2>3, <1>2, <1>5 DEF One
    <3> QED BY <3>1, <2>1, <1>1, <1>3 DEF One
  <2> QED BY <2>2, <2>3
<1>8. PinsOfOthers
  BY <1>5, <1>6, <1>7 DEF PinsOfOthers
<1>9. RestInv'
  BY <1>1, RestStays DEF IInv, RestInv
<1>10. num_pages' \in num_pages .. MAX_PAGES
  BY <1>1, <1>3
<1> QED BY <1>1, <1>8, <1>9, <1>10, OthersStep

-----------------------------------------------------------------------------
(* The invariant holds.                                                    *)

(* A process that has just started, on a file with or without pages.       *)
NoTree ==
  /\ contents = [p \in PageId |-> BlankPage] /\ pins = [p \in PageId |-> 0]
  /\ stack = <<>> /\ held = {} /\ touched = {} /\ root_page_id = NoPage
  /\ num_pages \in 0 .. MAX_PAGES

LEMMA NoTreeHasIInv == NoTree /\ RestInv => IInv /\ PinsAreExact
<1> SUFFICES ASSUME NoTree, RestInv PROVE IInv /\ PinsAreExact
  OBVIOUS
<1>1. /\ \A p \in PageId : contents[p] = BlankPage /\ pins[p] = 0
      /\ contents = [p \in PageId |-> contents[p]] /\ pins \in [PageId -> Nat]
      /\ stack = <<>> /\ held = {} /\ touched = {} /\ root_page_id = NoPage
      /\ num_pages \in 0 .. MAX_PAGES
  BY DEF NoTree
<1>2. Nodes = {} /\ Leaves = {} /\ Internals = {}
  BY <1>1 DEF Nodes, Leaves, Internals, BlankPage
<1>3. PagesInv
  BY <1>1, <1>2 DEF PagesInv
<1>4. ParentsInv
  BY <1>1, <1>2 DEF ParentsInv
<1>5. StackInv
  <2>1. PICK q : q = stack
    OBVIOUS
  <2>2. q = <<>> /\ Len(q) = 0 /\ q \in Seq(Statement)
    BY <1>1, <2>1
  <2> QED BY <2>1, <2>2 DEF StackInv, Shape
<1>6. PinsInv /\ PinsAreExact
  <2>1. \A p : Count(stack, p) = 0
    BY <1>1, CountEmpty
  <2>2. \A p \in PageId : pins[p] >= 0 + One(p \in held) /\ pins[p] = 0 + One(p \in held)
    BY <1>1 DEF One
  <2> QED BY <1>1, <2>1, <2>2 DEF PinsInv, PinsAreExact
<1>7. DirtyInv
  BY <1>1 DEF DirtyInv
<1> QED BY <1>3, <1>4, <1>5, <1>6, <1>7 DEF IInv

LEMMA InitHasIInv == Init => IInv /\ PinsAreExact
<1> SUFFICES ASSUME Init PROVE NoTree /\ RestInv
  BY NoTreeHasIInv
<1>1. 0 \in 0 .. MAX_PAGES /\ 0 \in 0 .. MAX_INSERTS
  BY TreeAssumption
<1> QED BY <1>1 DEF Init, NoTree, RestInv

LEMMA NextKeepsIInv == IInv /\ [Next]_vars => Keeps
<1> SUFFICES ASSUME IInv, [Next]_vars PROVE Keeps
  OBVIOUS
<1>1. ASSUME UNCHANGED <<held, reply, inserts>>
      PROVE  /\ DoStartNewTree => Keeps
             /\ PassInternal => Keeps
             /\ FetchFails => Keeps
             /\ LookUpInLeaf => Keeps
             /\ InsertIntoLeaf => Keeps
             /\ DoSplitLeaf => Keeps
             /\ GrowRoot => Keeps
             /\ InsertIntoOldParent => Keeps
             /\ DoSplitInternal => Keeps
             /\ DoAdoptChildren => Keeps
             /\ DoUnpinPage => Keeps
  <2>1. DoStartNewTree => Keeps
    BY <1>1, DoStartNewTreeKeeps
  <2>2. PassInternal => Keeps
    BY <1>1, PassInternalKeeps
  <2>3. FetchFails => Keeps
    BY <1>1, CrashKeeps DEF FetchFails
  <2>4. LookUpInLeaf => Keeps
    BY <1>1, LookUpInLeafKeeps
  <2>5. InsertIntoLeaf => Keeps
    BY <1>1, InsertIntoLeafKeeps
  <2>6. DoSplitLeaf => Keeps
    BY <1>1, DoSplitLeafKeeps
  <2>7. GrowRoot => Keeps
    BY <1>1, GrowRootKeeps
  <2>8. InsertIntoOldParent => Keeps
    BY <1>1, InsertIntoOldParentKeeps
  <2>9. DoSplitInternal => Keeps
    BY <1>1, DoSplitInternalKeeps
  <2>10. DoAdoptChildren => Keeps
    BY <1>1, DoAdoptChildrenKeeps
  <2>11. DoUnpinPage => Keeps
    BY <1>1, DoUnpinPageKeeps
  <2> QED BY <2>1, <2>2, <2>3, <2>4, <2>5, <2>6, <2>7, <2>8, <2>9, <2>10, <2>11
<1>2. CASE Step
  BY <1>1, <1>2, DoReturnKeeps DEF Step
<1>3. CASE \E key \in Key : GetValue(key) \/ \E value \in RecordID : Insert(key, value)
  BY <1>3, GetValueKeeps, InsertKeeps
<1>4. CASE HoldDataPage
  BY <1>4, HoldDataPageKeeps
<1>5. CASE ReleaseDataPage
  BY <1>5, ReleaseDataPageKeeps
<1>6. CASE UNCHANGED vars
  <2>1. /\ UNCHANGED <<root_page_id, pool, held, stack>>
        /\ UNCHANGED <<crashed, reply, inserts>>
    BY <1>6 DEF vars, pool
  <2>2. RestInv'
    BY <2>1, RestStays DEF IInv, RestInv
  <2> QED BY <2>1, <2>2, NoStep
<1> QED BY <1>2, <1>3, <1>4, <1>5, <1>6 DEF Next

LEMMA TypesFollow == IInv => TypeOK
<1> SUFFICES ASSUME IInv PROVE TypeOK
  OBVIOUS
<1>1. ASSUME NEW p \in PageId
      PROVE  LET node == contents[p] IN
             \/ node = BlankPage
             \/ /\ node.type = "leaf"
                /\ {node.parent, node.next} \subseteq PageId \cup {NoPage}
                /\ node.array \in Seq([key : Key, value : RecordID])
                /\ Len(node.array) <= LEAF_MAX
             \/ /\ node.type = "internal"
                /\ node.parent \in PageId \cup {NoPage}
                /\ node.array \in Seq([key : Key \cup {0}, value : PageId])
                /\ Len(node.array) <= INTERNAL_MAX
  <2>1. PICK n : n = contents[p]
    OBVIOUS
  <2>2. n = BlankPage \/ LeafOK(n) \/ InternalOK(n)
    BY <2>1 DEF IInv, PagesInv
  <2>3. LeafOK(n) =>
          /\ n.type = "leaf" /\ {n.parent, n.next} \subseteq PageId \cup {NoPage}
          /\ n.array \in Seq([key : Key, value : RecordID]) /\ Len(n.array) <= LEAF_MAX
    BY DEF LeafOK, LeafRecord, LeafEntry
  <2>4. InternalOK(n) =>
          /\ n.type = "internal" /\ n.parent \in PageId \cup {NoPage}
          /\ n.array \in Seq([key : Key \cup {0}, value : PageId]) /\ Len(n.array) <= INTERNAL_MAX
    BY DEF InternalOK, InternalRecord, InternalEntry
  <2> QED BY <2>1, <2>2, <2>3, <2>4
<1>2. root_page_id \in PageId \cup {NoPage}
  BY NodeFacts DEF IInv, PagesInv
<1> QED BY <1>1, <1>2 DEF TypeOK, IInv, PagesInv, PinsInv, DirtyInv, StackInv, RestInv

LEMMA PinsFollowCalls ==
  ASSUME IInv, PinsAreExact
  PROVE  PinsAreReturned
<1> SUFFICES ASSUME stack = <<>>, NEW p \in PageId
             PROVE  pins[p] = IF p \in held THEN 1 ELSE 0
  BY DEF PinsAreReturned, Idle
<1> QED BY IdleFacts DEF One

(* A page that still waits to be unpinned as dirty is pinned.              *)
LEMMA ChangesWaitPinned == IInv => ChangesAreDeclaredDirty
<1> SUFFICES ASSUME IInv, NEW p \in PageId, pins[p] = 0, p \in touched
             PROVE  FALSE
  BY DEF ChangesAreDeclaredDirty
<1>1. PICK q : q = stack
  OBVIOUS
<1>2. PICK i \in 1 .. Len(q) : q[i] = UnpinPage(p, TRUE)
  BY <1>1 DEF IInv, DirtyInv
<1>3. q \in Seq(Statement)
  BY <1>1 DEF IInv, StackInv
<1>4. Owes(q[i], p)
  BY <1>2 DEF Owes, UnpinPage
<1>5. Count(q, p) > 0 /\ Count(q, p) \in Nat
  BY <1>3, <1>4, OwedIsCounted, CountType
<1>6. pins[p] >= Count(q, p) + One(p \in held)
  BY <1>1 DEF IInv, PinsInv
<1> QED BY <1>5, <1>6 DEF One

(* Every change is noted, so every change happens to a page that waits to  *)
(* be unpinned.                                                            *)
LEMMA ChangesAreNoted ==
  ASSUME [Next]_vars, NEW p \in PageId, contents'[p] # contents[p]
  PROVE  p \in touched'
<1>1. \A nodes : Assign(nodes) => p \in touched'
  BY DEF Assign
<1>2. /\ \A nodes : NewPage(nodes) => p \in touched'
      /\ \A a, nodes : FetchPage(a, nodes) => p \in touched'
  BY <1>1 DEF NewPage, FetchPage
<1>3. ~(UNCHANGED contents)
  OBVIOUS
<1>4. ~(UNCHANGED pool) /\ ~Crash
  BY DEF pool, Crash
<1>5. CASE Step
  <2>1. DoStartNewTree => p \in touched'
    BY <1>2, <1>4 DEF DoStartNewTree
  <2>2. PassInternal => p \in touched'
    BY <1>2 DEF PassInternal
  <2>3. ~FetchFails
    BY <1>4 DEF FetchFails
  <2>4. LookUpInLeaf => p \in touched'
    BY <1>2 DEF LookUpInLeaf
  <2>5. InsertIntoLeaf => p \in touched'
    BY <1>2 DEF InsertIntoLeaf
  <2>6. DoSplitLeaf => p \in touched'
    BY <1>2, <1>4 DEF DoSplitLeaf
  <2>7. GrowRoot => p \in touched'
    BY <1>2, <1>4 DEF GrowRoot
  <2>8. InsertIntoOldParent => p \in touched'
    BY <1>2, <1>4 DEF InsertIntoOldParent
  <2>9. DoSplitInternal => p \in touched'
    BY <1>2, <1>4 DEF DoSplitInternal
  <2>10. DoAdoptChildren => p \in touched'
    BY <1>2, <1>4 DEF DoAdoptChildren
  <2>11. ~DoUnpinPage /\ ~DoReturn
    BY <1>3, <1>4 DEF DoUnpinPage, DoReturn
  <2> QED BY <1>5, <2>1, <2>2, <2>3, <2>4, <2>5, <2>6, <2>7, <2>8, <2>9, <2>10, <2>11 DEF Step
<1>6. CASE \E key \in Key : GetValue(key) \/ \E value \in RecordID : Insert(key, value)
  BY <1>4, <1>6 DEF GetValue, Insert
<1>7. CASE HoldDataPage
  BY <1>2, <1>7 DEF HoldDataPage
<1>8. CASE ReleaseDataPage
  BY <1>3, <1>8 DEF ReleaseDataPage
<1>9. CASE UNCHANGED vars
  BY <1>3, <1>9 DEF vars
<1> QED BY <1>5, <1>6, <1>7, <1>8, <1>9 DEF Next

LEMMA ChangedPagesArePinned ==
  ASSUME IInv', [Next]_vars, NEW p \in PageId, contents'[p] # contents[p]
  PROVE  pins'[p] > 0
<1>1. p \in touched'
  BY ChangesAreNoted
<1>2. IInv' => ChangesAreDeclaredDirty'
  BY ChangesWaitPinned, PTL
<1>3. PageId' = PageId /\ pins' \in [PageId -> Nat]
  BY DEF IInv, PinsInv, PageId, Pool!PageId
<1> QED BY <1>1, <1>2, <1>3 DEF ChangesAreDeclaredDirty

-----------------------------------------------------------------------------
(* The theorems.                                                           *)

LEMMA IInvHolds == Spec => []IInv
<1>1. IInv /\ [Next]_vars => IInv'
  BY NextKeepsIInv DEF Keeps
<1> QED BY <1>1, InitHasIInv, PTL DEF Spec

(* The nodes, the stack of a call and what callers hold have their types   *)
(* in every state of a tree of any size: no node outgrows its page, every  *)
(* entry of an internal page names a page, and the statements a call has   *)
(* left name pages and keys.                                               *)
THEOREM TypeIsCorrect == Spec => []TypeOK
BY IInvHolds, TypesFollow, PTL

(* A page the tree changed is pinned until a call of UnpinPage declares it *)
(* dirty, on every path through Insert, the ones that fail included.       *)
THEOREM ChangesAreDirty == Spec => []ChangesAreDeclaredDirty
BY IInvHolds, ChangesWaitPinned, PTL

(* The tree writes to no page it has not pinned: the pointers it keeps     *)
(* through the recursion up the tree are into frames it still holds.       *)
THEOREM PinnedPagesOnlyChange == Spec => OnlyPinnedPagesChange
<1>1. IInv' /\ [Next]_vars =>
        [\A p \in PageId : contents'[p] # contents[p] => pins[p] > 0 \/ pins'[p] > 0]_vars
  BY ChangedPagesArePinned
<1> QED BY <1>1, IInvHolds, PTL DEF Spec, OnlyPinnedPagesChange

(* Every pin the tree takes is given back when its call returns, on every  *)
(* path but one: the split of a leaf for which the pool has no page left.  *)
THEOREM PinsComeBack == Spec /\ []HasRoomToSplit => []PinsAreReturned
<1>1. IInv /\ PinsAreExact /\ HasRoomToSplit /\ [Next]_vars => IInv' /\ PinsAreExact'
  BY NextKeepsIInv DEF Keeps
<1>2. IInv /\ PinsAreExact => PinsAreReturned
  BY PinsFollowCalls
<1> QED BY <1>1, <1>2, InitHasIInv, PTL DEF Spec
=============================================================================
