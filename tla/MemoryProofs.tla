---------------------------- MODULE MemoryProofs ----------------------------
(***************************************************************************)
(* Proofs of the two classes that manage memory themselves.                *)
(*                                                                         *)
(* LRUReplacer, for every set of frames and of addresses and every         *)
(* capacity: its linked list implements LRUQueue.  "No pointer dangles"    *)
(* does not say that the nodes form one list: two rings would do.  The     *)
(* invariant says that there is a sequence s of nodes from head to tail    *)
(* which next and prev link, which has every allocated node once, and      *)
(* which has the node of every key of the map.                             *)
(*                                                                         *)
(* Tuple, for every schema and every row, and any number of Tuples: what   *)
(* TupleLayout packs reads back and stays inside its bytes, and whoever    *)
(* owns bytes in TupleMemory owns them alone.  The invariant of            *)
(* TupleLayout says of the data after any number of columns: behind the    *)
(* offset of the next column it is still zero, and in the range of every   *)
(* column before it are the bytes its value is written as, and zeroes.     *)
(* Columns do not disturb each other because their ranges, from one offset *)
(* to the next, are disjoint (OffsetsGrow).                                *)
(***************************************************************************)
EXTENDS LRUReplacer, TupleLayout, TupleMemory, QueueLemmas

-----------------------------------------------------------------------------
(* The list of the replacer.                                               *)

IsList(s, n) ==
  /\ s \in [0 .. n + 1 -> Node]
  /\ s[0] = head /\ s[n + 1] = tail
  /\ \A i \in 1 .. n : s[i] \in Addr
  /\ \A i, j \in 1 .. n : s[i] = s[j] => i = j
  /\ \A i \in 0 .. n : next[s[i]] = s[i + 1] /\ prev[s[i + 1]] = s[i]
  /\ \A i \in 1 .. n : frame_id[s[i]] \in Frame /\ mp[frame_id[s[i]]] = s[i]
  /\ \A f \in Frame : IsKey(f) => \E i \in 1 .. n : s[i] = mp[f] /\ frame_id[s[i]] = f
  /\ live = {s[i] : i \in 0 .. n + 1}

ListInv == \E s : IsList(s, curr_size)

StructuresOK ==
  /\ next \in [Node -> Node \cup {nullptr}]
  /\ prev \in [Node -> Node \cup {nullptr}]
  /\ frame_id \in [Node -> Frame \cup {NoFrame}]
  /\ live \subseteq Node
  /\ mp \in [Frame -> Addr \cup {nullptr}]
  /\ curr_size \in Nat

ReplyOK ==
  reply \in
    [turn : {0, 1},
     answer : {[op |-> "none"]}
              \cup [op : {"Victim"}, ok : BOOLEAN, fid : Frame \cup {NoFrame}]
              \cup [op : {"Pin", "Unpin"}, fid : Frame]]

IInv ==
  /\ StructuresOK /\ ReplyOK
  /\ IsAlive => ListInv
  /\ IsAlive \/ live = {}

-----------------------------------------------------------------------------
(* The nodes are distinct, the sentinels included.                         *)
LEMMA NodesAreDistinct ==
  ASSUME NEW n \in Nat, NEW s, IsList(s, n),
         NEW i \in 0 .. n + 1, NEW j \in 0 .. n + 1, s[i] = s[j]
  PROVE  i = j
<1>1. \A k \in 0 .. n + 1 : (s[k] = head <=> k = 0) /\ (s[k] = tail <=> k = n + 1)
  <2> TAKE k \in 0 .. n + 1
  <2>1. k = 0 \/ k = n + 1 \/ k \in 1 .. n
    OBVIOUS
  <2> QED BY <2>1, ReplacerAssumption DEF IsList
<1>2. CASE i \in 1 .. n /\ j \in 1 .. n
  BY <1>2 DEF IsList
<1>3. CASE ~(i \in 1 .. n /\ j \in 1 .. n)
  <2>1. i = 0 \/ j = 0 \/ i = n + 1 \/ j = n + 1
    BY <1>3
  <2> QED BY <2>1, <1>1
<1> QED BY <1>2, <1>3

(* The list without its k-th node, and with one node more behind the head. *)
WithoutNode(s, n, k) == [i \in 0 .. n |-> IF i < k THEN s[i] ELSE s[i + 1]]

WithFirst(s, n, a) ==
  [i \in 0 .. n + 2 |-> IF i = 0 THEN head ELSE IF i = 1 THEN a ELSE s[i - 1]]

(* deleteNode, and the map entry of its frame with it.                     *)
LEMMA DeleteKeepsList ==
  ASSUME StructuresOK, IsAlive, NEW n, n = curr_size, NEW s, IsList(s, n), NEW k \in 1 .. n,
         DeleteNode(s[k]), Erase(frame_id[s[k]])
  PROVE  /\ StructuresOK'
         /\ curr_size' = n - 1
         /\ IsList(WithoutNode(s, n, k), n - 1)'
         /\ IsAlive'
<1> DEFINE a == s[k]
           r == WithoutNode(s, n, k)
<1>1. /\ n \in Nat \ {0} /\ curr_size' = n - 1
      /\ k \in 0 .. n + 1 /\ k - 1 \in 0 .. n /\ k - 1 \in 0 .. n + 1 /\ k + 1 \in 0 .. n + 1
  BY DEF StructuresOK, DeleteNode
<1>2. /\ a \in Addr /\ frame_id[a] \in Frame /\ mp[frame_id[a]] = a
      /\ prev[a] = s[k - 1] /\ next[a] = s[k + 1]
  <2>1. k - 1 \in 0 .. n /\ (k - 1) + 1 = k /\ k \in 0 .. n
    BY <1>1
  <2> QED BY <2>1 DEF IsList
<1>3. \A i, j \in 0 .. n + 1 : s[i] = s[j] => i = j
  BY <1>1, NodesAreDistinct
<1>4. s \in [0 .. n + 1 -> Node] /\ s[0] = head /\ s[n + 1] = tail
  BY DEF IsList
<1>5. /\ next' = [next EXCEPT ![s[k - 1]] = s[k + 1]]
      /\ prev' = [prev EXCEPT ![s[k + 1]] = s[k - 1]]
      /\ live' = live \ {a}
      /\ frame_id' = frame_id
      /\ mp' = [mp EXCEPT ![frame_id[a]] = nullptr]
  BY <1>2 DEF DeleteNode, Erase
<1>6. StructuresOK'
  BY <1>1, <1>2, <1>4, <1>5 DEF StructuresOK, DeleteNode
<1>7. IsAlive'
  BY <1>2, <1>5, ReplacerAssumption DEF IsAlive
<1>8. /\ r \in [0 .. n -> Node]
      /\ \A i \in 0 .. n : r[i] = IF i < k THEN s[i] ELSE s[i + 1]
  BY <1>1, <1>4 DEF WithoutNode
<1> HIDE DEF r
<1>9. r[0] = head /\ r[n] = tail
  BY <1>1, <1>4, <1>8
<1>10. \A i \in 1 .. n - 1 : r[i] \in Addr
  BY <1>1, <1>8 DEF IsList
<1>11. \A i, j \in 1 .. n - 1 : r[i] = r[j] => i = j
  <2> SUFFICES ASSUME NEW i \in 1 .. n - 1, NEW j \in 1 .. n - 1, r[i] = r[j]
               PROVE  i = j
    OBVIOUS
  <2> DEFINE pos(x) == IF x < k THEN x ELSE x + 1
  <2>1. pos(i) \in 0 .. n + 1 /\ pos(j) \in 0 .. n + 1 /\ s[pos(i)] = s[pos(j)]
    BY <1>1, <1>8
  <2>2. pos(i) = pos(j)
    BY <2>1, <1>3
  <2> QED BY <2>2
<1>12. ASSUME NEW i \in 0 .. n - 1
       PROVE  next'[r[i]] = r[i + 1] /\ prev'[r[i + 1]] = r[i]
  <2>0. next \in [Node -> Node \cup {nullptr}] /\ prev \in [Node -> Node \cup {nullptr}]
    BY DEF StructuresOK
  <2>1. CASE i = k - 1
    <3>1. r[i] = s[k - 1] /\ r[i + 1] = s[k + 1]
      BY <2>1, <1>1, <1>8
    <3>2. s[k - 1] \in Node /\ s[k + 1] \in Node
      BY <1>1, <1>4
    <3> QED BY <3>1, <3>2, <2>0, <1>5
  <2>2. CASE i # k - 1
    <3> DEFINE m == IF i < k THEN i ELSE i + 1
    <3>1. /\ m \in 0 .. n /\ m \in 0 .. n + 1 /\ m + 1 \in 0 .. n + 1
          /\ r[i] = s[m] /\ r[i + 1] = s[m + 1]
          /\ m # k - 1 /\ m + 1 # k + 1
      BY <2>2, <1>1, <1>8
    <3> HIDE DEF m
    <3>2. s[m] # s[k - 1] /\ s[m + 1] # s[k + 1]
      BY <3>1, <1>1, <1>3
    <3>3. next[s[m]] = s[m + 1] /\ prev[s[m + 1]] = s[m]
      BY <3>1 DEF IsList
    <3>4. s[m] \in Node /\ s[m + 1] \in Node
      BY <3>1, <1>4
    <3> QED BY <3>1, <3>2, <3>3, <3>4, <2>0, <1>5
  <2> QED BY <2>1, <2>2
<1>13. ASSUME NEW i \in 1 .. n - 1
       PROVE  frame_id'[r[i]] \in Frame /\ mp'[frame_id'[r[i]]] = r[i]
  <2> DEFINE m == IF i < k THEN i ELSE i + 1
  <2>1. m \in 1 .. n /\ m \in 0 .. n + 1 /\ r[i] = s[m] /\ m # k
    BY <1>1, <1>8
  <2> HIDE DEF m
  <2>2. frame_id[s[m]] \in Frame /\ mp[frame_id[s[m]]] = s[m]
    BY <2>1 DEF IsList
  <2>3. s[m] # a
    BY <2>1, <1>1, <1>3
  <2>4. frame_id[s[m]] # frame_id[a]
    BY <2>2, <2>3, <1>2
  <2> QED BY <2>1, <2>2, <2>4, <1>5 DEF StructuresOK
<1>14. ASSUME NEW f \in Frame, IsKey(f)'
       PROVE  \E i \in 1 .. n - 1 : r[i] = mp'[f] /\ frame_id'[r[i]] = f
  <2>1. f # frame_id[a] /\ mp'[f] = mp[f] /\ IsKey(f)
    BY <1>14, <1>2, <1>5 DEF IsKey, StructuresOK
  <2>2. PICK m \in 1 .. n : s[m] = mp[f] /\ frame_id[s[m]] = f
    BY <2>1 DEF IsList
  <2>3. m # k
    BY <2>1, <2>2
  <2> DEFINE i == IF m < k THEN m ELSE m - 1
  <2>4. i \in 1 .. n - 1 /\ r[i] = s[m]
    BY <2>3, <1>1, <1>8
  <2> QED BY <2>1, <2>2, <2>4, <1>5
<1>15. live' = {r[i] : i \in 0 .. n}
  <2>1. live = {s[i] : i \in 0 .. n + 1}
    BY DEF IsList
  <2>2. ASSUME NEW i \in 0 .. n + 1, s[i] # a
        PROVE  \E j \in 0 .. n : s[i] = r[j]
    <3> DEFINE j == IF i < k THEN i ELSE i - 1
    <3>1. i # k
      BY <2>2
    <3>2. j \in 0 .. n /\ r[j] = s[i]
      BY <3>1, <1>1, <1>8
    <3> QED BY <3>2
  <2>3. ASSUME NEW j \in 0 .. n
        PROVE  r[j] # a /\ \E i \in 0 .. n + 1 : r[j] = s[i]
    <3> DEFINE i == IF j < k THEN j ELSE j + 1
    <3>1. i \in 0 .. n + 1 /\ r[j] = s[i] /\ i # k
      BY <1>1, <1>8
    <3> QED BY <3>1, <1>1, <1>3
  <2> QED BY <2>1, <2>2, <2>3, <1>5
<1>16. IsList(r, n - 1)'
  <2>1. (n - 1) + 1 = n
    BY <1>1
  <2> HIDE DEF a
  <2> QED BY <2>1, <1>8, <1>9, <1>10, <1>11, <1>12, <1>13, <1>14, <1>15 DEF IsList
<1> QED BY <1>1, <1>6, <1>7, <1>16 DEF r

(* new Node and putNode behind the head, with the map entry of its frame.  *)
LEMMA PutKeepsList ==
  ASSUME StructuresOK, IsAlive, NEW n, n = curr_size, NEW s, IsList(s, n),
         NEW f \in Frame, ~IsKey(f), NEW a \in Addr \ live,
         PutNode(a, f), mp' = [mp EXCEPT ![f] = a]
  PROVE  /\ StructuresOK'
         /\ curr_size' = n + 1
         /\ IsList(WithFirst(s, n, a), n + 1)'
         /\ IsAlive'
<1> DEFINE r == WithFirst(s, n, a)
<1>1. n \in Nat /\ curr_size' = n + 1
  BY DEF StructuresOK, PutNode
<1>2. s \in [0 .. n + 1 -> Node] /\ s[0] = head /\ s[n + 1] = tail
  BY DEF IsList
<1>3. \A i, j \in 0 .. n + 1 : s[i] = s[j] => i = j
  BY <1>1, NodesAreDistinct
<1>4. \A i \in 0 .. n + 1 : s[i] # a
  BY DEF IsList
<1>5. next[head] = s[1] /\ prev[s[1]] = head
  <2>1. 0 \in 0 .. n /\ 0 + 1 = 1
    BY <1>1
  <2> QED BY <2>1, <1>2 DEF IsList
<1>6. /\ next' = [next EXCEPT ![head] = a, ![a] = s[1]]
      /\ prev' = [prev EXCEPT ![a] = head, ![s[1]] = a]
      /\ frame_id' = [frame_id EXCEPT ![a] = f]
      /\ live' = live \cup {a}
      /\ mp' = [mp EXCEPT ![f] = a]
  BY <1>5 DEF PutNode
<1>7. a \in Node /\ head \in Node /\ s[1] \in Node /\ a # head /\ a # s[1]
  BY <1>1, <1>2, <1>4, ReplacerAssumption DEF Node
<1>8. StructuresOK'
  BY <1>1, <1>6, <1>7 DEF StructuresOK
<1>9. IsAlive'
  BY <1>6 DEF IsAlive
<1>10. /\ r \in [0 .. n + 2 -> Node]
       /\ \A i \in 0 .. n + 2 : r[i] = IF i = 0 THEN head ELSE IF i = 1 THEN a ELSE s[i - 1]
  BY <1>1, <1>2, <1>7 DEF WithFirst
<1> HIDE DEF r
<1>11. r[0] = head /\ r[n + 2] = tail
  BY <1>1, <1>2, <1>10
<1>12. \A i \in 1 .. n + 1 : r[i] \in Addr
  <2> TAKE i \in 1 .. n + 1
  <2>1. i \in 0 .. n + 2 /\ (i # 1 => i - 1 \in 1 .. n)
    BY <1>1
  <2>2. r[i] = IF i = 1 THEN a ELSE s[i - 1]
    BY <2>1, <1>1, <1>10
  <2> QED BY <2>1, <2>2 DEF IsList
<1>13. \A i, j \in 1 .. n + 1 : r[i] = r[j] => i = j
  <2> TAKE i, j \in 1 .. n + 1
  <2>1. /\ i - 1 \in 0 .. n + 1 /\ j - 1 \in 0 .. n + 1
        /\ r[i] = IF i = 1 THEN a ELSE s[i - 1]
        /\ r[j] = IF j = 1 THEN a ELSE s[j - 1]
    BY <1>1, <1>10
  <2>2. i - 1 = j - 1 => i = j
    BY <1>1
  <2> QED BY <2>1, <2>2, <1>3, <1>4
<1>14. ASSUME NEW i \in 0 .. n + 1
       PROVE  next'[r[i]] = r[i + 1] /\ prev'[r[i + 1]] = r[i]
  <2>0. next \in [Node -> Node \cup {nullptr}] /\ prev \in [Node -> Node \cup {nullptr}]
    BY DEF StructuresOK
  <2>1. CASE i = 0
    <3>1. r[i] = head /\ r[i + 1] = a
      BY <2>1, <1>1, <1>10
    <3> QED BY <3>1, <2>0, <1>6, <1>7
  <2>2. CASE i = 1
    <3>1. r[i] = a /\ r[i + 1] = s[1]
      BY <2>2, <1>1, <1>10
    <3> QED BY <3>1, <2>0, <1>6, <1>7
  <2>3. CASE i # 0 /\ i # 1
    <3> DEFINE m == i - 1
    <3>1. /\ m \in 0 .. n /\ m \in 0 .. n + 1 /\ m + 1 \in 0 .. n + 1 /\ 0 \in 0 .. n + 1 /\ 1 \in 0 .. n + 1
          /\ r[i] = s[m] /\ r[i + 1] = s[m + 1] /\ m # 0 /\ m + 1 # 1
      BY <2>3, <1>1, <1>10
    <3> HIDE DEF m
    <3>2. s[m] # head /\ s[m] # a /\ s[m + 1] # s[1] /\ s[m + 1] # a
      BY <3>1, <1>2, <1>3, <1>4
    <3>3. next[s[m]] = s[m + 1] /\ prev[s[m + 1]] = s[m]
      BY <3>1 DEF IsList
    <3>4. s[m] \in Node /\ s[m + 1] \in Node
      BY <3>1, <1>2
    <3> QED BY <3>1, <3>2, <3>3, <3>4, <2>0, <1>6
  <2> QED BY <2>1, <2>2, <2>3
<1>15. ASSUME NEW i \in 1 .. n + 1
       PROVE  frame_id'[r[i]] \in Frame /\ mp'[frame_id'[r[i]]] = r[i]
  <2>1. CASE i = 1
    <3>1. r[i] = a
      BY <2>1, <1>1, <1>10
    <3> QED BY <3>1, <1>6, <1>7 DEF StructuresOK
  <2>2. CASE i # 1
    <3>1. i - 1 \in 1 .. n /\ i - 1 \in 0 .. n + 1 /\ r[i] = s[i - 1]
      BY <2>2, <1>1, <1>10
    <3>2. frame_id[s[i - 1]] \in Frame /\ mp[frame_id[s[i - 1]]] = s[i - 1]
      BY <3>1 DEF IsList
    <3>3. s[i - 1] # a /\ s[i - 1] # nullptr
      <4>1. s[i - 1] \in Node
        BY <3>1, <1>2
      <4> QED BY <4>1, <3>1, <1>4, ReplacerAssumption DEF Node
    <3>4. frame_id[s[i - 1]] # f
      BY <3>2, <3>3 DEF IsKey
    <3> QED BY <3>1, <3>2, <3>3, <3>4, <1>6 DEF StructuresOK
  <2> QED BY <2>1, <2>2
<1>16. ASSUME NEW g \in Frame, IsKey(g)'
       PROVE  \E i \in 1 .. n + 1 : r[i] = mp'[g] /\ frame_id'[r[i]] = g
  <2>1. CASE g = f
    <3>1. 1 \in 1 .. n + 1 /\ r[1] = a
      BY <1>1, <1>10
    <3> QED BY <3>1, <2>1, <1>6, <1>7 DEF StructuresOK
  <2>2. CASE g # f
    <3>1. mp'[g] = mp[g] /\ IsKey(g)
      BY <2>2, <1>6, <1>16 DEF IsKey, StructuresOK
    <3>2. PICK m \in 1 .. n : s[m] = mp[g] /\ frame_id[s[m]] = g
      BY <3>1 DEF IsList
    <3>3. m + 1 \in 1 .. n + 1 /\ r[m + 1] = s[m] /\ s[m] # a /\ s[m] \in Node
      BY <1>1, <1>2, <1>4, <1>10
    <3> QED BY <3>1, <3>2, <3>3, <1>6 DEF StructuresOK
  <2> QED BY <2>1, <2>2
<1>17. live' = {r[i] : i \in 0 .. n + 2}
  <2>1. live = {s[i] : i \in 0 .. n + 1}
    BY DEF IsList
  <2>2. ASSUME NEW i \in 0 .. n + 1
        PROVE  \E j \in 0 .. n + 2 : s[i] = r[j]
    <3>1. CASE i = 0
      BY <3>1, <1>1, <1>2, <1>11
    <3>2. CASE i # 0
      <4>1. i + 1 \in 0 .. n + 2 /\ r[i + 1] = s[i]
        BY <3>2, <1>1, <1>10
      <4> QED BY <4>1
    <3> QED BY <3>1, <3>2
  <2>3. ASSUME NEW j \in 0 .. n + 2
        PROVE  r[j] = a \/ \E i \in 0 .. n + 1 : r[j] = s[i]
    <3>1. CASE j = 0
      BY <3>1, <1>1, <1>2, <1>11
    <3>2. CASE j = 1
      BY <3>2, <1>1, <1>10
    <3>3. CASE j # 0 /\ j # 1
      <4>1. j - 1 \in 0 .. n + 1 /\ r[j] = s[j - 1]
        BY <3>3, <1>1, <1>10
      <4> QED BY <4>1
    <3> QED BY <3>1, <3>2, <3>3
  <2>4. 1 \in 0 .. n + 2 /\ r[1] = a
    BY <1>1, <1>10
  <2> QED BY <2>1, <2>2, <2>3, <2>4, <1>6
<1>18. IsList(r, n + 1)'
  <2>1. (n + 1) + 1 = n + 2
    BY <1>1
  <2> QED BY <2>1, <1>10, <1>11, <1>12, <1>13, <1>14, <1>15, <1>16, <1>17 DEF IsList
<1> QED BY <1>1, <1>8, <1>9, <1>18 DEF r

-----------------------------------------------------------------------------
(* Walking from the head n times along the pointers nx.                    *)
Walk(nx) ==
  CHOOSE w : w = [n \in Nat |-> IF n = 0 THEN head
                                ELSE IF w[n - 1] \in Node THEN nx[w[n - 1]] ELSE nullptr]

LEMMA WalkAlong ==
  ASSUME NEW nx \in [Node -> Node \cup {nullptr}], NEW n \in Nat,
         NEW s \in [0 .. n + 1 -> Node], s[0] = head,
         \A i \in 0 .. n : nx[s[i]] = s[i + 1]
  PROVE  \A i \in 0 .. n + 1 : Walk(nx)[i] = s[i]
<1> DEFINE S == Node \cup {nullptr}
           G == [a \in S |-> IF a \in Node THEN nx[a] ELSE nullptr]
           IsWalk(w) == w = [m \in Nat |-> IF m = 0 THEN head
                                ELSE IF w[m - 1] \in Node THEN nx[w[m - 1]] ELSE nullptr]
<1>1. \E w : IsWalk(w)
  <2>1. head \in S /\ G \in [S -> S]
    BY DEF Node
  <2>2. PICK g \in [Nat -> S] : Iterates(g, head, G)
    <3> HIDE DEF S, G
    <3> QED BY <2>1, Iteration
  <2>3. ASSUME NEW m \in Nat, m # 0
        PROVE  g[m] = IF g[m - 1] \in Node THEN nx[g[m - 1]] ELSE nullptr
    <3>1. m - 1 \in Nat /\ (m - 1) + 1 = m
      BY <2>3
    <3>2. g[m] = G[g[m - 1]] /\ g[m - 1] \in S
      <4> HIDE DEF G, S
      <4> QED BY <3>1, <2>2 DEF Iterates
    <3> QED BY <3>2
  <2>4. g = [m \in Nat |-> g[m]]
    OBVIOUS
  <2>5. IsWalk(g)
    <3>1. g[0] = head
      BY <2>2 DEF Iterates
    <3> QED BY <3>1, <2>3, <2>4
  <2> QED BY <2>5
<1>2. IsWalk(Walk(nx))
  <2>1. Walk(nx) = CHOOSE w : IsWalk(w)
    BY DEF Walk
  <2> HIDE DEF IsWalk
  <2> QED BY <1>1, <2>1
<1> DEFINE w == Walk(nx)
<1> HIDE DEF w
<1>3. w[0] = head /\ \A m \in Nat : w[m + 1] = IF w[m] \in Node THEN nx[w[m]] ELSE nullptr
  <2>1. IsWalk(w)
    BY <1>2 DEF w
  <2>2. w[0] = head
    BY <2>1
  <2>3. ASSUME NEW m \in Nat
        PROVE  w[m + 1] = IF w[m] \in Node THEN nx[w[m]] ELSE nullptr
    <3>1. m + 1 \in Nat /\ m + 1 # 0 /\ (m + 1) - 1 = m
      OBVIOUS
    <3> DEFINE k == m + 1
    <3>2. w[k] = IF w[k - 1] \in Node THEN nx[w[k - 1]] ELSE nullptr
      <4> HIDE DEF k
      <4>1. k \in Nat /\ k # 0
        BY <3>1 DEF k
      <4> QED BY <4>1, <2>1
    <3> QED BY <3>1, <3>2
  <2> QED BY <2>2, <2>3
<1> DEFINE T == {i \in Nat : i <= n + 1 => w[i] = s[i]}
<1>4. 0 \in T
  BY <1>3
<1>5. ASSUME NEW i \in Nat, i \in T
      PROVE  i + 1 \in T
  <2> SUFFICES ASSUME i + 1 <= n + 1
               PROVE  w[i + 1] = s[i + 1]
    OBVIOUS
  <2>1. i \in 0 .. n /\ i \in 0 .. n + 1
    OBVIOUS
  <2>2. w[i] = s[i] /\ s[i] \in Node
    BY <2>1, <1>5
  <2>3. w[i + 1] = nx[s[i]]
    BY <2>2, <1>3
  <2> QED BY <2>1, <2>3
<1>6. Nat \subseteq T
  <2> HIDE DEF T
  <2> QED BY <1>4, <1>5, NatInd
<1> QED BY <1>6 DEF w

-----------------------------------------------------------------------------
(* The queue LRUQueue sees, and what it is once the list is known.         *)
Order == [n \in 1 .. curr_size |-> FrameAt(n)]

LEMMA NodesByIndex ==
  ASSUME StructuresOK, NEW n, n = curr_size, NEW s, IsList(s, n)
  PROVE  \A i \in 0 .. n + 1 : NodeAt[i] = s[i]
<1>1. NodeAt = Walk(next)
  BY DEF NodeAt, Successor, Walk
<1>2. /\ n \in Nat /\ next \in [Node -> Node \cup {nullptr}] /\ s \in [0 .. n + 1 -> Node]
      /\ s[0] = head /\ \A i \in 0 .. n : next[s[i]] = s[i + 1]
  BY DEF StructuresOK, IsList
<1> QED BY <1>1, <1>2, WalkAlong

Frames(s, n, fid) == [i \in 1 .. n |-> fid[s[i]]]

LEMMA OrderIsTheList ==
  ASSUME StructuresOK, NEW n, n = curr_size, NEW s, IsList(s, n)
  PROVE  Order = Frames(s, n, frame_id)
<1>0. n \in Nat /\ \A i \in 1 .. n : i \in 0 .. n + 1
  BY DEF StructuresOK
<1>1. \A i \in 1 .. n : NodeAt[i] = s[i] /\ s[i] \in Node
  <2>1. s \in [0 .. n + 1 -> Node]
    BY DEF IsList
  <2> QED BY <1>0, <2>1, NodesByIndex
<1>2. \A i \in 1 .. n : FrameAt(i) = frame_id[s[i]]
  BY <1>1 DEF FrameAt
<1> QED BY <1>2 DEF Order, Frames

LEMMA OrderIsTheListAfter ==
  ASSUME StructuresOK', NEW n, n = curr_size', NEW s, IsList(s, n)'
  PROVE  Order' = Frames(s, n, frame_id')
<1>0. n \in Nat /\ \A i \in 1 .. n : i \in 0 .. n + 1
  <2>1. n \in Nat
    BY DEF StructuresOK
  <2>2. \A m \in Nat : \A i \in 1 .. m : i \in 0 .. m + 1
    OBVIOUS
  <2> QED BY <2>1, <2>2
<1>1. NodeAt' = Walk(next')
  BY DEF NodeAt, Successor, Walk
<1>2. /\ n \in Nat /\ next' \in [Node -> Node \cup {nullptr}] /\ s \in [0 .. n + 1 -> Node]
      /\ s[0] = head /\ \A i \in 0 .. n : next'[s[i]] = s[i + 1]
  BY DEF StructuresOK, IsList
<1>3. \A i \in 1 .. n : NodeAt'[i] = s[i] /\ s[i] \in Node
  <2>1. \A i \in 0 .. n + 1 : NodeAt'[i] = s[i]
    BY <1>1, <1>2, WalkAlong
  <2> QED BY <2>1, <1>0, <1>2
<1>4. \A i \in 1 .. n : FrameAt(i)' = frame_id'[s[i]]
  BY <1>3 DEF FrameAt
<1> QED BY <1>4 DEF Order, Frames

(* A frame is in the queue once, and exactly while it is a key of the map. *)
LEMMA FramesProps ==
  ASSUME StructuresOK, NEW n, n = curr_size, NEW s, IsList(s, n)
  PROVE  LET q == Frames(s, n, frame_id) IN
         /\ q \in Seq(Frame) /\ Len(q) = n /\ IsInjective(q)
         /\ \A f \in Frame : Contains(q, f) <=> IsKey(f)
<1> DEFINE q == Frames(s, n, frame_id)
<1>1. n \in Nat
  BY DEF StructuresOK
<1>2. \A i \in 1 .. n : q[i] \in Frame /\ q[i] = frame_id[s[i]] /\ mp[q[i]] = s[i] /\ s[i] # nullptr
  BY ReplacerAssumption DEF Frames, IsList
<1>3. q \in [1 .. n -> Frame]
  BY <1>2 DEF Frames
<1> HIDE DEF q
<1>4. q \in Seq(Frame) /\ Len(q) = n /\ DOMAIN q = 1 .. n
  BY <1>1, <1>3, SeqDef, LenProperties
<1>5. IsInjective(q)
  <2> SUFFICES ASSUME NEW i \in 1 .. n, NEW j \in 1 .. n, q[i] = q[j]
               PROVE  i = j
    BY <1>4 DEF IsInjective
  <2>1. s[i] = s[j]
    BY <1>2
  <2> QED BY <2>1 DEF IsList
<1>6. ASSUME NEW f \in Frame
      PROVE  Contains(q, f) <=> IsKey(f)
  <2>1. ASSUME Contains(q, f)
        PROVE  IsKey(f)
    BY <2>1, <1>2, <1>4 DEF Contains, IsKey
  <2>2. ASSUME IsKey(f)
        PROVE  Contains(q, f)
    BY <2>2, <1>2, <1>4 DEF Contains, IsList
  <2> QED BY <2>1, <2>2
<1> QED BY <1>4, <1>5, <1>6 DEF q

-----------------------------------------------------------------------------
(* Each operation keeps the invariant, and is the one of LRUQueue.         *)

(* A call that returns early leaves the queue as it was.                   *)
LEMMA EarlyReturn ==
  ASSUME StructuresOK, UNCHANGED structures
  PROVE  /\ StructuresOK' /\ (IsAlive' <=> IsAlive) /\ (ListInv => ListInv')
         /\ UNCHANGED live
         /\ UNCHANGED Order
<1>1. UNCHANGED <<next, prev, frame_id, live, mp, curr_size>>
  BY DEF structures
<1>2. NodeAt' = NodeAt
  BY <1>1 DEF NodeAt, Successor
<1>3. UNCHANGED Order
  BY <1>1, <1>2 DEF Order, FrameAt
<1>4. StructuresOK' /\ (IsAlive' <=> IsAlive)
  BY <1>1 DEF StructuresOK, IsAlive
<1>5. ASSUME ListInv
      PROVE  ListInv'
  <2>1. PICK s : IsList(s, curr_size)
    BY <1>5 DEF ListInv
  <2>2. IsList(s, curr_size)'
    BY <1>1, <2>1 DEF IsList, IsKey
  <2> QED BY <2>2 DEF ListInv
<1> QED BY <1>1, <1>3, <1>4, <1>5

LEMMA VictimStep ==
  ASSUME StructuresOK, IsAlive, ListInv, Victim, curr_size # 0
  PROVE  StructuresOK' /\ IsAlive' /\ ListInv' /\ Queue!Evict
<1>1. PICK n : n = curr_size
  OBVIOUS
<1>2. n \in Nat \ {0}
  BY <1>1 DEF StructuresOK, Victim
<1>3. PICK s : IsList(s, n)
  BY <1>1 DEF ListInv
<1>4. VictimNode = s[n]
  BY <1>2, <1>3 DEF IsList, VictimNode
<1>5. /\ DeleteNode(s[n]) /\ Erase(frame_id[s[n]]) /\ n \in 1 .. n
      /\ Answers([op |-> "Victim", ok |-> TRUE, fid |-> frame_id[s[n]]])
  BY <1>2, <1>4 DEF Victim
<1> DEFINE r == WithoutNode(s, n, n)
<1>6. StructuresOK' /\ curr_size' = n - 1 /\ IsList(r, n - 1)' /\ IsAlive'
  BY <1>1, <1>3, <1>5, DeleteKeepsList
<1> DEFINE q == Frames(s, n, frame_id)
<1>7. Order = q /\ q \in Seq(Frame) /\ Len(q) = n
  BY <1>1, <1>3, OrderIsTheList, FramesProps
<1>8. Order' = Frames(r, n - 1, frame_id)
  <2>1. frame_id' = frame_id
    BY <1>5 DEF DeleteNode
  <2> HIDE DEF r
  <2> QED BY <2>1, <1>6, OrderIsTheListAfter
<1>9. Frames(r, n - 1, frame_id) = [i \in 1 .. n - 1 |-> q[i]]
  BY <1>2 DEF Frames, WithoutNode
<1>15. q[Len(q)] = frame_id[s[n]]
  BY <1>2, <1>7 DEF Frames
<1> HIDE DEF q, r
<1>10. SubSeq(q, 1, Len(q) - 1) = [i \in 1 .. n - 1 |-> q[i]]
  <2>1. SubSeq(q, 1, n - 1) \in Seq(Frame) /\ Len(SubSeq(q, 1, n - 1)) = n - 1
        /\ \A i \in 1 .. n - 1 : SubSeq(q, 1, n - 1)[i] = q[i]
    BY <1>2, <1>7, SubSeqProperties
  <2> QED BY <2>1, <1>7, LenProperties
<1>11. Order # <<>> /\ Order' = Queue!AfterVictim(Order)
  BY <1>2, <1>7, <1>8, <1>9, <1>10 DEF Queue!AfterVictim, Queue!Front
<1>12. Queue!Victim(Order) = frame_id[s[n]]
  BY <1>7, <1>15 DEF Queue!Victim, Queue!Last
<1>14. Queue!Evict
  BY <1>5, <1>11, <1>12 DEF Queue!Evict, Queue!Answers, Answers, Order
<1>13. ListInv'
  BY <1>6 DEF ListInv
<1> QED BY <1>6, <1>13, <1>14

LEMMA PinStep ==
  ASSUME StructuresOK, IsAlive, ListInv, NEW f \in Frame, Pin(f), IsKey(f)
  PROVE  StructuresOK' /\ IsAlive' /\ ListInv' /\ Queue!Pin(f)
<1>1. PICK n : n = curr_size
  OBVIOUS
<1>2. n \in Nat
  BY <1>1 DEF StructuresOK
<1>3. PICK s : IsList(s, n)
  BY <1>1 DEF ListInv
<1>4. PICK k \in 1 .. n : s[k] = mp[f] /\ frame_id[s[k]] = f
  BY <1>3 DEF IsList
<1>5. DeleteNode(s[k]) /\ Erase(frame_id[s[k]])
  BY <1>4 DEF Pin
<1> DEFINE r == WithoutNode(s, n, k)
<1>6. StructuresOK' /\ curr_size' = n - 1 /\ IsList(r, n - 1)' /\ IsAlive'
  BY <1>1, <1>3, <1>5, DeleteKeepsList
<1> DEFINE q == Frames(s, n, frame_id)
<1>7. Order = q /\ q \in Seq(Frame) /\ Len(q) = n /\ IsInjective(q)
  BY <1>1, <1>3, OrderIsTheList, FramesProps
<1>8. Order' = Frames(r, n - 1, frame_id)
  <2>1. frame_id' = frame_id
    BY <1>5 DEF DeleteNode
  <2> HIDE DEF r
  <2> QED BY <2>1, <1>6, OrderIsTheListAfter
<1>9. Frames(r, n - 1, frame_id) = [i \in 1 .. n - 1 |-> IF i < k THEN q[i] ELSE q[i + 1]]
  <2>1. \A i \in 1 .. n - 1 : /\ i \in 1 .. n /\ i + 1 \in 1 .. n
                              /\ r[i] = IF i < k THEN s[i] ELSE s[i + 1]
    BY <1>2 DEF WithoutNode
  <2> HIDE DEF r
  <2> QED BY <2>1 DEF Frames
<1>10. q[k] = f
  BY <1>4 DEF Frames
<1> HIDE DEF q, r
<1>11. RemoveFirst(q, f) = [i \in 1 .. n - 1 |-> IF i < k THEN q[i] ELSE q[i + 1]]
  BY <1>7, <1>10, RemoveFirstAt
<1>12. Queue!RemoveFirst(q, f) = RemoveFirst(q, f)
  <2>1. Queue!SelectInSeq(q, LAMBDA v : v = f) = SelectInSeq(q, LAMBDA v : v = f)
    BY DEF Queue!SelectInSeq, SelectInSeq, Queue!Min, Min
  <2> QED BY <2>1 DEF Queue!RemoveFirst, RemoveFirst, Queue!RemoveAt, RemoveAt
<1>13. Order' = Queue!AfterPin(Order, f)
  BY <1>7, <1>8, <1>9, <1>11, <1>12 DEF Queue!AfterPin
<1>14. Queue!Pin(f)
  BY <1>13 DEF Queue!Pin, Queue!Answers, Pin, Answers, Order
<1>15. ListInv'
  BY <1>6 DEF ListInv
<1> QED BY <1>6, <1>14, <1>15

LEMMA UnpinStep ==
  ASSUME StructuresOK, IsAlive, ListInv, NEW f \in Frame, Unpin(f),
         ~IsKey(f), curr_size < CAPACITY
  PROVE  StructuresOK' /\ IsAlive' /\ ListInv' /\ Queue!Unpin(f)
<1>1. PICK n : n = curr_size
  OBVIOUS
<1>2. n \in Nat /\ n < CAPACITY /\ ~IsKey(f) /\ CAPACITY \in Nat
  BY <1>1, ReplacerAssumption DEF StructuresOK
<1>3. PICK s : IsList(s, n)
  BY <1>1 DEF ListInv
<1>4. PICK a \in Addr \ live : PutNode(a, f) /\ mp' = [mp EXCEPT ![f] = a]
  BY <1>1, <1>2 DEF Unpin
<1> DEFINE r == WithFirst(s, n, a)
<1>5. StructuresOK' /\ curr_size' = n + 1 /\ IsList(r, n + 1)' /\ IsAlive'
  BY <1>1, <1>2, <1>3, <1>4, PutKeepsList
<1> DEFINE q == Frames(s, n, frame_id)
<1>6. Order = q /\ q \in Seq(Frame) /\ Len(q) = n /\ ~Contains(q, f)
  BY <1>1, <1>2, <1>3, OrderIsTheList, FramesProps
<1>7. Order' = Frames(r, n + 1, frame_id')
  <2> HIDE DEF r
  <2> QED BY <1>5, OrderIsTheListAfter
<1>8. Frames(r, n + 1, frame_id') = [i \in 1 .. n + 1 |-> IF i = 1 THEN f ELSE q[i - 1]]
  <2>1. ASSUME NEW i \in 1 .. n + 1
        PROVE  frame_id'[r[i]] = IF i = 1 THEN f ELSE q[i - 1]
    <3>0. frame_id' = [frame_id EXCEPT ![a] = f] /\ a \in Node
      BY <1>4, ReplacerAssumption DEF PutNode, Node
    <3>1. i \in 0 .. n + 2 /\ (i # 1 => i - 1 \in 1 .. n) /\ r[i] = IF i = 1 THEN a ELSE s[i - 1]
      BY <1>2 DEF WithFirst
    <3> HIDE DEF r
    <3>2. CASE i = 1
      BY <3>0, <3>1, <3>2 DEF StructuresOK
    <3>3. CASE i # 1
      <4>1. s[i - 1] \in live /\ s[i - 1] \in Node
        BY <3>1, <3>3, <1>2, <1>3 DEF IsList
      <4>2. s[i - 1] # a
        BY <4>1
      <4> QED BY <3>0, <3>1, <3>3, <4>1, <4>2 DEF StructuresOK, Frames
    <3> QED BY <3>2, <3>3
  <2> HIDE DEF r, q
  <2> QED BY <2>1 DEF Frames
<1> HIDE DEF q, r
<1>9. <<f>> \o q = [i \in 1 .. n + 1 |-> IF i = 1 THEN f ELSE q[i - 1]]
  <2>1. <<f>> \in Seq(Frame) /\ Len(<<f>>) = 1 /\ <<f>>[1] = f
    OBVIOUS
  <2>2. /\ <<f>> \o q \in Seq(Frame) /\ Len(<<f>> \o q) = 1 + n
        /\ \A i \in 1 .. 1 + n : (<<f>> \o q)[i] = IF i <= 1 THEN <<f>>[i] ELSE q[i - 1]
    BY <2>1, <1>6, ConcatProperties
  <2> QED BY <2>1, <2>2, <1>2, LenProperties
<1>10. Order' = Queue!AfterUnpin(Order, f)
  <2>1. ~Queue!Contains(q, f) /\ ~(Len(q) >= CAPACITY)
    BY <1>2, <1>6 DEF Queue!Contains, Contains
  <2>2. Queue!AfterUnpin(q, f) = <<f>> \o q
    BY <2>1 DEF Queue!AfterUnpin, Queue!Cons
  <2> QED BY <2>2, <1>6, <1>7, <1>8, <1>9
<1>11. Queue!Unpin(f)
  BY <1>10 DEF Queue!Unpin, Queue!Answers, Unpin, Answers, Order
<1>12. ListInv'
  BY <1>5 DEF ListInv
<1> QED BY <1>5, <1>11, <1>12

(* The calls that return early: LRUQueue does nothing either.              *)
LEMMA EarlySteps ==
  ASSUME StructuresOK, ListInv, UNCHANGED structures
  PROVE  /\ Victim /\ curr_size = 0 => Queue!Evict
         /\ \A f \in Frame :
              /\ Pin(f) /\ ~IsKey(f) => Queue!Pin(f)
              /\ Unpin(f) /\ (IsKey(f) \/ curr_size >= CAPACITY) => Queue!Unpin(f)
<1>1. PICK n : n = curr_size
  OBVIOUS
<1>2. PICK s : IsList(s, n)
  BY <1>1 DEF ListInv
<1> DEFINE q == Frames(s, n, frame_id)
<1>3. /\ Order = q /\ q \in Seq(Frame) /\ Len(q) = n
      /\ \A f \in Frame : Contains(q, f) <=> IsKey(f)
  BY <1>1, <1>2, OrderIsTheList, FramesProps
<1>4. Order' = Order
  BY EarlyReturn
<1> HIDE DEF q
<1>5. ASSUME Victim, curr_size = 0
      PROVE  Queue!Evict
  <2>1. Order = <<>>
    BY <1>1, <1>3, <1>5
  <2>2. Answers([op |-> "Victim", ok |-> FALSE, fid |-> NoFrame])
    BY <1>5 DEF Victim
  <2> QED BY <1>4, <2>1, <2>2
          DEF Queue!Evict, Queue!Answers, Answers, Queue!NoFrame, NoFrame, Order
<1>6. ASSUME NEW f \in Frame, Pin(f), ~IsKey(f)
      PROVE  Queue!Pin(f)
  <2>1. ~\E i \in 1 .. Len(q) : q[i] = f
    BY <1>3, <1>6 DEF Contains
  <2>2. Queue!AfterPin(Order, f) = Order
    BY <1>3, <2>1 DEF Queue!AfterPin, Queue!RemoveFirst
  <2> QED BY <1>4, <1>6, <2>2 DEF Queue!Pin, Queue!Answers, Pin, Answers, Order
<1>7. ASSUME NEW f \in Frame, Unpin(f), IsKey(f) \/ curr_size >= CAPACITY
      PROVE  Queue!Unpin(f)
  <2>1. Queue!Contains(Order, f) \/ Len(Order) >= CAPACITY
    BY <1>1, <1>3, <1>7 DEF Queue!Contains, Contains
  <2>2. Queue!AfterUnpin(Order, f) = Order
    BY <2>1 DEF Queue!AfterUnpin
  <2> QED BY <1>4, <1>7, <2>2 DEF Queue!Unpin, Queue!Answers, Unpin, Answers, Order
<1> QED BY <1>5, <1>6, <1>7

(* The reply has its type.                                                 *)
LEMMA RepliesAreTyped ==
  ASSUME StructuresOK, ReplyOK, IsAlive => ListInv, [Next]_vars
  PROVE  ReplyOK'
<1>8. Next => ListInv
  BY DEF Next
<1>1. reply.turn \in {0, 1} /\ (1 - reply.turn) \in {0, 1}
  BY DEF ReplyOK
<1> DEFINE Answer == {[op |-> "none"]}
                     \cup [op : {"Victim"}, ok : BOOLEAN, fid : Frame \cup {NoFrame}]
                     \cup [op : {"Pin", "Unpin"}, fid : Frame]
<1>2. ASSUME NEW answer \in Answer, Answers(answer)
      PROVE  ReplyOK'
  BY <1>1, <1>2 DEF ReplyOK, Answers
<1>3. CASE UNCHANGED vars
  BY <1>3 DEF vars, ReplyOK
<1>4. CASE Destroy
  BY <1>4 DEF Destroy, ReplyOK
<1>5. CASE Next /\ Victim
  <2>1. CASE curr_size = 0
    <3>1. Answers([op |-> "Victim", ok |-> FALSE, fid |-> NoFrame])
      BY <1>5, <2>1 DEF Victim
    <3> QED BY <3>1, <1>2
  <2>2. CASE curr_size # 0
    <3>1. Answers([op |-> "Victim", ok |-> TRUE, fid |-> frame_id[VictimNode]])
      BY <1>5, <2>2 DEF Victim
    <3>2. frame_id[VictimNode] \in Frame \cup {NoFrame}
      <4>1. PICK s : IsList(s, curr_size)
        BY <1>5, <1>8 DEF ListInv
      <4>2. curr_size \in 0 .. curr_size /\ curr_size \in 0 .. curr_size + 1
        BY DEF StructuresOK
      <4>3. VictimNode = s[curr_size] /\ s[curr_size] \in Node
        BY <4>1, <4>2 DEF IsList, VictimNode
      <4> QED BY <4>3 DEF StructuresOK
    <3> QED BY <3>1, <3>2, <1>2
  <2> QED BY <2>1, <2>2
<1>6. ASSUME NEW f \in Frame, Pin(f)
      PROVE  ReplyOK'
  BY <1>2, <1>6 DEF Pin
<1>7. ASSUME NEW f \in Frame, Unpin(f)
      PROVE  ReplyOK'
  BY <1>2, <1>7 DEF Unpin
<1> QED BY <1>3, <1>4, <1>5, <1>6, <1>7 DEF Next

(* The destructor goes from the head over the whole list to the tail.      *)
LEMMA DestroyStep ==
  ASSUME StructuresOK, IsAlive, ListInv, Destroy
  PROVE  StructuresOK' /\ live' = {} /\ UNCHANGED <<Order, reply>>
<1>1. PICK n : n = curr_size
  OBVIOUS
<1>2. n \in Nat
  BY <1>1 DEF StructuresOK
<1>3. PICK s : IsList(s, n)
  BY <1>1 DEF ListInv
<1>4. \A i \in 0 .. n + 1 : NodeAt[i] = s[i]
  BY <1>1, <1>3, NodesByIndex
<1>5. n <= Cardinality(Addr)
  <2> DEFINE h == [i \in 1 .. n |-> s[i]]
  <2>1. h \in Injection(1 .. n, Addr)
    BY <1>3 DEF IsList, Injection, IsInjective
  <2>2. IsFiniteSet(Addr) /\ IsFiniteSet(1 .. n) /\ Cardinality(1 .. n) = n
    BY <1>2, FS_Interval, ReplacerAssumption
  <2> HIDE DEF h
  <2> QED BY <2>1, <2>2, FS_Injection
<1>6. Cardinality(Addr) \in Nat
  BY FS_CardinalityType, ReplacerAssumption
<1>7. live = {s[i] : i \in 0 .. n + 1}
  BY <1>3 DEF IsList
<1>8. live' = {}
  <2>1. \A i \in 0 .. n + 1 : i \in 0 .. Cardinality(Addr) + 1
    BY <1>2, <1>5, <1>6
  <2> QED BY <2>1, <1>4, <1>7 DEF Destroy
<1>9. StructuresOK'
  BY <1>8 DEF StructuresOK, Destroy
<1>10. UNCHANGED Order
  <2>1. UNCHANGED <<next, frame_id, curr_size>>
    BY DEF Destroy
  <2>2. NodeAt' = NodeAt
    BY <2>1 DEF NodeAt, Successor
  <2> QED BY <2>1, <2>2 DEF Order, FrameAt
<1> QED BY <1>8, <1>9, <1>10 DEF Destroy

-----------------------------------------------------------------------------
LEMMA InitHolds == Init => IInv /\ Queue!Init
<1> SUFFICES ASSUME Init
             PROVE  IInv /\ Queue!Init
  OBVIOUS
<1> DEFINE s == [i \in 0 .. 1 |-> IF i = 0 THEN head ELSE tail]
<1>1. StructuresOK
  BY DEF Init, StructuresOK, Node, NoFrame
<1>2. IsList(s, 0)
  BY ReplacerAssumption DEF Init, IsList, Node, IsKey
<1>3. ListInv
  <2> HIDE DEF s
  <2> QED BY <1>2 DEF ListInv, Init
<1>4. IsAlive
  BY DEF Init, IsAlive
<1>5. Queue!Init
  BY DEF Init, Queue!Init
<1>6. ReplyOK
  BY DEF Init, ReplyOK
<1> QED BY <1>1, <1>3, <1>4, <1>5, <1>6 DEF IInv

LEMMA StepHolds ==
  ASSUME IInv, [Next]_vars
  PROVE  IInv' /\ [Queue!Next]_<<Order, reply>>
<1>1. ReplyOK'
  BY RepliesAreTyped DEF IInv
<1>2. CASE UNCHANGED vars
  BY <1>1, <1>2, EarlyReturn DEF vars, IInv
<1>3. CASE Next
  <2> USE <1>1, <1>3 DEF IInv
  <2>1. StructuresOK /\ IsAlive /\ ListInv
    BY DEF Next
  <2>2. ASSUME UNCHANGED structures
        PROVE  IInv'
    BY <2>1, <2>2, EarlyReturn
  <2>3. CASE Victim
    <3>1. CASE curr_size # 0
      BY <2>1, <2>3, <3>1, VictimStep DEF Queue!Next
    <3>2. CASE curr_size = 0
      <4>1. UNCHANGED structures
        BY <2>3, <3>2 DEF Victim
      <4> QED BY <2>1, <2>2, <2>3, <3>2, <4>1, EarlySteps DEF Queue!Next
    <3> QED BY <3>1, <3>2
  <2>4. CASE Destroy
    BY <2>1, <2>4, DestroyStep, ReplacerAssumption DEF IsAlive
  <2>5. ASSUME NEW f \in Frame, Pin(f)
        PROVE  IInv' /\ [Queue!Next]_<<Order, reply>>
    <3>1. CASE IsKey(f)
      BY <2>1, <2>5, <3>1, PinStep DEF Queue!Next
    <3>2. CASE ~IsKey(f)
      <4>1. UNCHANGED structures
        BY <2>5, <3>2 DEF Pin
      <4> QED BY <2>1, <2>2, <2>5, <3>2, <4>1, EarlySteps DEF Queue!Next
    <3> QED BY <3>1, <3>2
  <2>6. ASSUME NEW f \in Frame, Unpin(f)
        PROVE  IInv' /\ [Queue!Next]_<<Order, reply>>
    <3>1. CASE ~IsKey(f) /\ curr_size < CAPACITY
      BY <2>1, <2>6, <3>1, UnpinStep DEF Queue!Next
    <3>2. CASE IsKey(f) \/ curr_size >= CAPACITY
      <4>1. UNCHANGED structures
        <5>1. curr_size \in Nat /\ CAPACITY \in Nat
          BY <2>1, ReplacerAssumption DEF StructuresOK
        <5> QED BY <2>6, <3>2, <5>1 DEF Unpin
      <4> QED BY <2>1, <2>2, <2>6, <3>2, <4>1, EarlySteps DEF Queue!Next
    <3>3. curr_size < CAPACITY \/ curr_size >= CAPACITY
      BY <2>1, ReplacerAssumption DEF StructuresOK
    <3> QED BY <3>1, <3>2, <3>3
  <2> QED BY <2>3, <2>4, <2>5, <2>6 DEF Next
<1> QED BY <1>2, <1>3

LEMMA IInvHolds == Spec => []IInv
<1>1. Init => IInv
  BY InitHolds
<1>2. IInv /\ [Next]_vars => IInv'
  BY StepHolds
<1> QED BY <1>1, <1>2, PTL DEF Spec

-----------------------------------------------------------------------------
(* Theorems.                                                               *)

(* Every variable keeps its type.                                          *)
THEOREM TypeIsCorrect == Spec => []TypeOK
<1>1. IInv => TypeOK
  BY DEF IInv, StructuresOK, ReplyOK, TypeOK
<1> QED BY <1>1, IInvHolds, PTL

(* No pointer the replacer follows leads to a node that was freed, however *)
(* frames were unpinned, pinned and evicted before.                        *)
THEOREM PointersAreSound == Spec => []NoDanglingPointer
<1>1. IInv => NoDanglingPointer
  <2> SUFFICES ASSUME StructuresOK, IsAlive, ListInv
               PROVE  /\ \A f \in Frame : IsKey(f) => mp[f] \in live /\ frame_id[mp[f]] = f
                      /\ \A a \in live \ {tail} : next[a] \in live /\ prev[next[a]] = a
                      /\ \A a \in live \ {head} : prev[a] \in live /\ next[prev[a]] = a
    BY DEF IInv, NoDanglingPointer
  <2>1. PICK s : IsList(s, curr_size)
    BY DEF ListInv
  <2>2. curr_size \in Nat
    BY DEF StructuresOK
  <2>3. \A i \in 0 .. curr_size + 1 : s[i] \in live
    BY <2>1 DEF IsList
  <2>4. ASSUME NEW f \in Frame, IsKey(f)
        PROVE  mp[f] \in live /\ frame_id[mp[f]] = f
    <3>1. PICK i \in 1 .. curr_size : s[i] = mp[f] /\ frame_id[s[i]] = f
      BY <2>1, <2>4 DEF IsList
    <3> QED BY <3>1, <2>2, <2>3
  <2>5. ASSUME NEW a \in live \ {tail}
        PROVE  next[a] \in live /\ prev[next[a]] = a
    <3>1. PICK i \in 0 .. curr_size + 1 : a = s[i]
      BY <2>1 DEF IsList
    <3>2. i # curr_size + 1
      BY <3>1, <2>1 DEF IsList
    <3>3. i \in 0 .. curr_size /\ i + 1 \in 0 .. curr_size + 1
      BY <3>2, <2>2
    <3> QED BY <3>1, <3>3, <2>1, <2>3 DEF IsList
  <2>6. ASSUME NEW a \in live \ {head}
        PROVE  prev[a] \in live /\ next[prev[a]] = a
    <3>1. PICK i \in 0 .. curr_size + 1 : a = s[i]
      BY <2>1 DEF IsList
    <3>2. i # 0
      BY <3>1, <2>1 DEF IsList
    <3> DEFINE j == i - 1
    <3>3. j \in 0 .. curr_size /\ j \in 0 .. curr_size + 1 /\ j + 1 = i
      BY <3>2, <2>2
    <3> HIDE DEF j
    <3>4. next[s[j]] = s[j + 1] /\ prev[s[j + 1]] = s[j]
      BY <3>3, <2>1 DEF IsList
    <3> QED BY <3>1, <3>3, <3>4, <2>3
  <2> QED BY <2>4, <2>5, <2>6
<1> QED BY <1>1, IInvHolds, PTL

(* The map, the list and the count agree.                                  *)
THEOREM StructuresAgree == Spec => []MapListAndCountAgree
<1>1. IInv => MapListAndCountAgree
  <2> SUFFICES ASSUME StructuresOK, IsAlive, ListInv
               PROVE  /\ \A a \in live \cap Addr : frame_id[a] \in Frame /\ mp[frame_id[a]] = a
                      /\ curr_size = Cardinality(live \cap Addr)
    BY DEF IInv, MapListAndCountAgree
  <2>1. PICK n : n = curr_size /\ n \in Nat
    BY DEF StructuresOK
  <2>2. PICK s : IsList(s, n)
    BY <2>1 DEF ListInv
  <2>3. ASSUME NEW a \in live \cap Addr
        PROVE  \E i \in 1 .. n : a = s[i]
    <3>1. PICK i \in 0 .. n + 1 : a = s[i]
      BY <2>2 DEF IsList
    <3>2. i # 0 /\ i # n + 1
      BY <3>1, <2>2, ReplacerAssumption DEF IsList
    <3> QED BY <3>1, <3>2, <2>1
  <2>4. \A i \in 1 .. n : s[i] \in live \cap Addr
    BY <2>1, <2>2 DEF IsList
  <2>5. \A a \in live \cap Addr : frame_id[a] \in Frame /\ mp[frame_id[a]] = a
    BY <2>2, <2>3 DEF IsList
  <2> DEFINE h == [i \in 1 .. n |-> s[i]]
  <2>6. h \in Bijection(1 .. n, live \cap Addr)
    <3>1. h \in [1 .. n -> live \cap Addr]
      BY <2>4
    <3>2. \A i, j \in 1 .. n : h[i] = h[j] => i = j
      BY <2>2 DEF IsList
    <3>3. \A a \in live \cap Addr : \E i \in 1 .. n : h[i] = a
      BY <2>3
    <3> HIDE DEF h
    <3> QED BY <3>1, <3>2, <3>3 DEF Bijection, Injection, Surjection, IsInjective
  <2>7. Cardinality(live \cap Addr) = n
    <3> HIDE DEF h
    <3> QED BY <2>1, <2>6, FS_CountingElements DEF ExistsBijection
  <2> QED BY <2>1, <2>5, <2>7
<1> QED BY <1>1, IInvHolds, PTL

(* The destructor leaks no node.                                           *)
THEOREM NothingIsLeaked == Spec => []DestructorFreesEverything
<1>1. IInv => DestructorFreesEverything
  BY DEF IInv, DestructorFreesEverything
<1> QED BY <1>1, IInvHolds, PTL

(* The linked list implements LRUQueue, call by call: Victim evicts and    *)
(* returns the frame that was unpinned the longest ago, and fails only     *)
(* when there is none; Pin takes out the frame it is given, wherever it is *)
(* and no other; Unpin of a tracked frame or of one too many changes       *)
(* nothing, and any other is put in front.                                 *)
THEOREM ListIsAQueue == Spec => ImplementsQueue
<1>1. Init => Queue!Init
  BY InitHolds
<1>2. IInv /\ [Next]_vars => [Queue!Next]_(Queue!vars)
  BY StepHolds DEF Queue!vars, Order
<1> QED BY <1>1, <1>2, IInvHolds, PTL DEF Spec, ImplementsQueue, Queue!Spec

-----------------------------------------------------------------------------
(* The bytes of a Tuple.                                                   *)

ColumnRecord == [type : TypeId, length : Nat]

LEMMA ColumnTypes ==
  ASSUME NEW cols \in Seq(ColumnRecord)
  PROVE  \A k \in 1 .. Len(cols) : cols[k].type \in TypeId /\ cols[k].length \in Nat
<1>1. \A k \in 1 .. Len(cols) : cols[k] \in ColumnRecord
  OBVIOUS
<1>2. \A c \in ColumnRecord : c.type \in TypeId /\ c.length \in Nat
  BY DEF ColumnRecord
<1> QED BY <1>1, <1>2

(* Schema::Schema: the running offset, and that it is a sum of lengths.    *)
Sums(h, cols, n) ==
  /\ h = [k \in 0 .. n |-> IF k = 0 THEN 0 ELSE h[k - 1] + cols[k].length]
  /\ h \in [0 .. n -> Nat]

LEMMA SumsExist ==
  ASSUME NEW cols \in Seq(ColumnRecord)
  PROVE  \E h : Sums(h, cols, Len(cols))
<1> DEFINE T == {n \in Nat : n <= Len(cols) => \E h : Sums(h, cols, n)}
<1>1. 0 \in T
  <2> DEFINE h == [k \in 0 .. 0 |-> 0]
  <2>1. \A k \in 0 .. 0 : h[k] = IF k = 0 THEN 0 ELSE h[k - 1] + cols[k].length
    OBVIOUS
  <2>2. h \in [0 .. 0 -> Nat]
    OBVIOUS
  <2> HIDE DEF h
  <2>3. Sums(h, cols, 0)
    BY <2>1, <2>2 DEF Sums
  <2> QED BY <2>3
<1>2. ASSUME NEW n \in Nat, n \in T
      PROVE  n + 1 \in T
  <2>1. SUFFICES ASSUME n + 1 <= Len(cols)
                 PROVE  \E h : Sums(h, cols, n + 1)
    OBVIOUS
  <2>2. PICK h : Sums(h, cols, n)
    BY <1>2, <2>1
  <2>3. cols[n + 1].length \in Nat
    BY <2>1, ColumnTypes
  <2> DEFINE g == [k \in 0 .. n + 1 |->
                     IF k <= n THEN h[k] ELSE h[n] + cols[n + 1].length]
  <2>4. g \in [0 .. n + 1 -> Nat]
    BY <2>2, <2>3 DEF Sums
  <2>5. ASSUME NEW k \in 0 .. n + 1
        PROVE  g[k] = IF k = 0 THEN 0 ELSE g[k - 1] + cols[k].length
    <3>1. \A j \in 0 .. n : h[j] = IF j = 0 THEN 0 ELSE h[j - 1] + cols[j].length
      BY <2>2 DEF Sums
    <3>2. CASE k <= n
      <4>1. k \in 0 .. n /\ (k # 0 => k - 1 \in 0 .. n)
        BY <3>2
      <4> QED BY <3>1, <4>1
    <3>3. CASE k = n + 1
      BY <3>3
    <3> QED BY <3>2, <3>3
  <2>6. Sums(g, cols, n + 1)
    <3>1. g = [k \in 0 .. n + 1 |-> IF k = 0 THEN 0 ELSE g[k - 1] + cols[k].length]
      <4>1. DOMAIN g = 0 .. n + 1
        OBVIOUS
      <4> HIDE DEF g
      <4> QED BY <2>4, <2>5, <4>1
    <3> QED BY <2>4, <3>1 DEF Sums
  <2> QED BY <2>6
<1>3. Nat \subseteq T
  <2> HIDE DEF T
  <2> QED BY <1>1, <1>2, NatInd
<1> QED BY <1>3

LEMMA OffsetFacts ==
  ASSUME NEW cols \in Seq(ColumnRecord)
  PROVE  /\ Offset(cols, 1) = 0
         /\ \A i \in 1 .. Len(cols) + 1 : Offset(cols, i) \in Nat
         /\ \A i \in 1 .. Len(cols) :
              Offset(cols, i + 1) = Offset(cols, i) + cols[i].length
<1> DEFINE IsSum(f) == f = [k \in 0 .. Len(cols) |->
                              IF k = 0 THEN 0 ELSE f[k - 1] + cols[k].length]
           sum == CHOOSE f : IsSum(f)
<1>1. PICK h : Sums(h, cols, Len(cols))
  BY SumsExist
<1>2. IsSum(h)
  BY <1>1 DEF Sums
<1>3. IsSum(sum)
  <2> HIDE DEF IsSum
  <2> QED BY <1>2
<1>4. \A i : Offset(cols, i) = sum[i - 1]
  BY DEF Offset
<1> HIDE DEF sum
<1>5. /\ sum[0] = 0
      /\ \A k \in 1 .. Len(cols) : sum[k] = sum[k - 1] + cols[k].length
  BY <1>3
<1> DEFINE T == {n \in Nat : n <= Len(cols) => sum[n] \in Nat}
<1>6. Nat \subseteq T
  <2>1. 0 \in T
    BY <1>5
  <2>2. ASSUME NEW n \in Nat, n \in T
        PROVE  n + 1 \in T
    <3> SUFFICES ASSUME n + 1 <= Len(cols)
                 PROVE  sum[n + 1] \in Nat
      OBVIOUS
    <3>1. n + 1 \in 1 .. Len(cols) /\ (n + 1) - 1 = n
      OBVIOUS
    <3>2. sum[n] \in Nat /\ cols[n + 1].length \in Nat
      BY <2>2, <3>1, ColumnTypes
    <3>3. sum[n + 1] = sum[n] + cols[n + 1].length
      BY <1>5, <3>1
    <3> QED BY <3>2, <3>3
  <2> HIDE DEF T
  <2> QED BY <2>1, <2>2, NatInd
<1>7. \A i \in 1 .. Len(cols) + 1 : i - 1 \in Nat /\ i - 1 <= Len(cols)
  OBVIOUS
<1>8. \A i \in 1 .. Len(cols) : (i + 1) - 1 = i
  OBVIOUS
<1>9. Offset(cols, 1) = 0
  BY <1>4, <1>5
<1>10. \A i \in 1 .. Len(cols) + 1 : Offset(cols, i) \in Nat
  BY <1>4, <1>6, <1>7
<1>11. \A i \in 1 .. Len(cols) : Offset(cols, i + 1) = Offset(cols, i) + cols[i].length
  BY <1>4, <1>5, <1>8
<1> QED BY <1>9, <1>10, <1>11

(* The range of a column ends before that of the next one begins.          *)
LEMMA OffsetsGrow ==
  ASSUME NEW cols \in Seq(ColumnRecord),
         NEW i \in 1 .. Len(cols), NEW j \in 1 .. Len(cols) + 1, i < j
  PROVE  Offset(cols, i) + cols[i].length <= Offset(cols, j)
<1> DEFINE off == [k \in 1 .. Len(cols) + 1 |-> Offset(cols, k)]
       T == {n \in Nat : i + 1 + n <= Len(cols) + 1 =>
                           off[i] + cols[i].length <= off[i + 1 + n]}
<1>1. /\ \A k \in 1 .. Len(cols) + 1 : off[k] \in Nat
      /\ \A k \in 1 .. Len(cols) : off[k + 1] = off[k] + cols[k].length
      /\ \A k \in 1 .. Len(cols) : cols[k].length \in Nat
  <2>1. \A k \in 1 .. Len(cols) : k \in 1 .. Len(cols) + 1 /\ k + 1 \in 1 .. Len(cols) + 1
    OBVIOUS
  <2> QED BY <2>1, OffsetFacts, ColumnTypes
<1> HIDE DEF off
<1>2. 0 \in T
  <2>1. i + 1 + 0 = i + 1
    OBVIOUS
  <2> QED BY <1>1, <2>1
<1>3. ASSUME NEW n \in Nat, n \in T
      PROVE  n + 1 \in T
  <2> SUFFICES ASSUME i + 1 + (n + 1) <= Len(cols) + 1
               PROVE  off[i] + cols[i].length <= off[i + 1 + (n + 1)]
    OBVIOUS
  <2> DEFINE k == i + 1 + n
  <2>1. k \in 1 .. Len(cols) /\ i + 1 + (n + 1) = k + 1 /\ k \in 1 .. Len(cols) + 1
    OBVIOUS
  <2>2. off[i] + cols[i].length <= off[k]
    BY <1>3
  <2> HIDE DEF k
  <2>3. off[k + 1] = off[k] + cols[k].length /\ cols[k].length \in Nat /\ off[k] \in Nat
    BY <1>1, <2>1
  <2>4. off[i] + cols[i].length \in Nat
    <3>1. i \in 1 .. Len(cols) + 1
      OBVIOUS
    <3>2. off[i] \in Nat /\ cols[i].length \in Nat
      BY <1>1, <3>1
    <3> QED BY <3>2
  <2>5. off[k + 1] \in Nat /\ off[k] <= off[k + 1]
    BY <2>3
  <2>6. off[i] + cols[i].length <= off[k + 1]
    BY <2>2, <2>3, <2>4, <2>5
  <2> QED BY <2>1, <2>6
<1>4. Nat \subseteq T
  <2> HIDE DEF T
  <2> QED BY <1>2, <1>3, NatInd
<1>5. j - i - 1 \in Nat /\ i + 1 + (j - i - 1) = j
  OBVIOUS
<1>6. j - i - 1 \in T
  <2> HIDE DEF T
  <2> QED BY <1>4, <1>5
<1> QED BY <1>5, <1>6 DEF off

-----------------------------------------------------------------------------
(* What one column's value is written as.                                  *)
Wide(col) ==
  col.length >= (CASE col.type = "INTEGER" -> INT_BYTES
                   [] col.type = "BOOLEAN" -> 1
                   [] OTHER                -> 0)

Accepts(col, val) == val.null \/ val.type = col.type

LEMMA RowValueCases ==
  ASSUME NEW val \in RowValue
  PROVE  \/ val.null /\ val.bytes = <<>>
         \/ /\ ~val.null /\ val.type = "INTEGER" /\ val.bytes \in [1 .. 4 -> Byte]
            /\ val = [type |-> "INTEGER", null |-> FALSE, bytes |-> val.bytes]
         \/ /\ ~val.null /\ val.type = "BOOLEAN" /\ val.bytes \in [1 .. 1 -> Byte]
            /\ val = [type |-> "BOOLEAN", null |-> FALSE, bytes |-> val.bytes]
         \/ /\ ~val.null /\ val.type = "VARCHAR" /\ val.bytes \in Seq(Byte \ {0})
            /\ val = [type |-> "VARCHAR", null |-> FALSE, bytes |-> val.bytes]
<1>1. CASE val \in [type : TypeId, null : {TRUE}, bytes : {<<>>}]
  <2>1. val.null = TRUE /\ val.bytes = <<>>
    BY <1>1
  <2> QED BY <2>1
<1>2. CASE val \in [type : {"INTEGER"}, null : {FALSE}, bytes : [1 .. INT_BYTES -> Byte]]
  <2>1. /\ val.null = FALSE /\ val.type = "INTEGER" /\ val.bytes \in [1 .. 4 -> Byte]
        /\ val = [type |-> "INTEGER", null |-> FALSE, bytes |-> val.bytes]
    BY <1>2 DEF INT_BYTES
  <2> QED BY <2>1
<1>3. CASE val \in [type : {"BOOLEAN"}, null : {FALSE}, bytes : [1 .. 1 -> 0 .. 1]]
  <2>1. /\ val.null = FALSE /\ val.type = "BOOLEAN" /\ val.bytes \in [1 .. 1 -> Byte]
        /\ val = [type |-> "BOOLEAN", null |-> FALSE, bytes |-> val.bytes]
    <3>1. val.bytes \in [1 .. 1 -> 0 .. 1]
      BY <1>3
    <3>2. val.bytes \in [1 .. 1 -> Byte]
      BY <3>1 DEF Byte
    <3> QED BY <1>3, <3>2
  <2> QED BY <2>1
<1>4. CASE val \in [type : {"VARCHAR"}, null : {FALSE}, bytes : Seq(Byte \ {0})]
  <2>1. /\ val.null = FALSE /\ val.type = "VARCHAR" /\ val.bytes \in Seq(Byte \ {0})
        /\ val = [type |-> "VARCHAR", null |-> FALSE, bytes |-> val.bytes]
    BY <1>4
  <2> QED BY <2>1
<1> QED BY <1>1, <1>2, <1>3, <1>4 DEF RowValue

LEMMA BytesReplaced ==
  ASSUME NEW t, NEW n, NEW b, NEW c,
         NEW val, val = [type |-> t, null |-> n, bytes |-> b]
  PROVE  [val EXCEPT !.bytes = c] = [type |-> t, null |-> n, bytes |-> c]
OBVIOUS

LEMMA BytesAreASequence ==
  ASSUME NEW n \in Nat, NEW b \in [1 .. n -> Byte]
  PROVE  b \in Seq(Byte) /\ Len(b) = n
OBVIOUS

LEMMA WrittenFits ==
  ASSUME NEW col \in ColumnRecord, NEW val \in RowValue, Accepts(col, val)
  PROVE  /\ Written(col, val) \in Seq(Byte)
         /\ val.null => Written(col, val) = <<>>
         /\ Wide(col) => Len(Written(col, val)) <= col.length
<1> DEFINE w == Written(col, val)
<1>1. col.length \in Nat
  BY DEF ColumnRecord
<1>2. CASE val.null
  <2>1. val.bytes = <<>>
    BY <1>2, RowValueCases
  <2>2. w = <<>>
    BY <1>1, <2>1 DEF Written
  <2> QED BY <1>1, <2>2
<1>3. CASE ~val.null /\ val.type = "INTEGER"
  <2>1. w = val.bytes /\ val.bytes \in [1 .. 4 -> Byte] /\ col.type = "INTEGER"
    BY <1>3, RowValueCases DEF Written, Accepts
  <2>2. w \in Seq(Byte) /\ Len(w) = 4
    <3> HIDE DEF w
    <3> QED BY <2>1, BytesAreASequence
  <2> HIDE DEF w
  <2>3. Wide(col) => Len(w) <= col.length
    BY <2>1, <2>2 DEF Wide, INT_BYTES
  <2> QED BY <1>3, <2>2, <2>3 DEF w
<1>4. CASE ~val.null /\ val.type = "BOOLEAN"
  <2>1. w = val.bytes /\ val.bytes \in [1 .. 1 -> Byte] /\ col.type = "BOOLEAN"
    BY <1>4, RowValueCases DEF Written, Accepts
  <2>2. w \in Seq(Byte) /\ Len(w) = 1
    <3> HIDE DEF w
    <3> QED BY <2>1, BytesAreASequence
  <2> HIDE DEF w
  <2>3. Wide(col) => Len(w) <= col.length
    BY <2>1, <2>2 DEF Wide
  <2> QED BY <1>4, <2>2, <2>3 DEF w
<1>5. CASE ~val.null /\ val.type = "VARCHAR"
  <2> DEFINE n == IF Len(val.bytes) < col.length THEN Len(val.bytes) ELSE col.length
  <2>1. /\ val.bytes \in Seq(Byte)
        /\ col.type = "VARCHAR"
    BY <1>5, RowValueCases DEF Accepts
  <2>2. w = SubSeq(val.bytes, 1, n)
    BY <2>1 DEF Written
  <2>3. n \in 0 .. Len(val.bytes) /\ n <= col.length
    BY <1>1, <2>1
  <2> HIDE DEF n, w
  <2>4. w \in Seq(Byte) /\ Len(w) = n
    BY <2>1, <2>2, <2>3
  <2> QED BY <1>5, <2>3, <2>4 DEF w
<1> QED BY <1>2, <1>3, <1>4, <1>5, RowValueCases

(* The range of column i holds what its value is written as, and zeroes.   *)
Lies(cols, vals, bytes, i) ==
  \A k \in 1 .. cols[i].length :
    bytes[Offset(cols, i) + k] =
      IF k \in DOMAIN Written(cols[i], vals[i]) THEN Written(cols[i], vals[i])[k] ELSE 0

(* A string cut at its first zero byte is the string that was written.     *)
LEMMA UntilZeroFinds ==
  ASSUME NEW w \in Seq(Byte \ {0}), NEW n \in Nat, Len(w) <= n,
         NEW s, s = [k \in 1 .. n |-> IF k \in DOMAIN w THEN w[k] ELSE 0]
  PROVE  UntilZero(s) = w
<1> DEFINE zeroes == {k \in DOMAIN s : s[k] = 0}
           m == CHOOSE k \in zeroes : \A j \in zeroes : k <= j
<1>0. /\ DOMAIN w = 1 .. Len(w) /\ Len(w) \in Nat
      /\ \A k \in 1 .. Len(w) : w[k] \in Byte /\ w[k] # 0
  OBVIOUS
<1>1. /\ DOMAIN s = 1 .. n /\ Len(s) = n /\ s \in Seq(Byte)
      /\ DOMAIN w = 1 .. Len(w) /\ Len(w) \in Nat
      /\ \A k \in 1 .. Len(w) : s[k] = w[k] /\ w[k] # 0
      /\ \A k \in Len(w) + 1 .. n : s[k] = 0
  <2>1. 0 \in Byte
    BY DEF Byte
  <2>2. \A k \in 1 .. n : s[k] \in Byte
    BY <1>0, <2>1
  <2>3. DOMAIN s = 1 .. n /\ Len(s) = n /\ s \in Seq(Byte)
    BY <2>2
  <2>4. \A k \in 1 .. Len(w) : s[k] = w[k]
    BY <1>0
  <2>5. \A k \in Len(w) + 1 .. n : s[k] = 0
    BY <1>0
  <2> QED BY <1>0, <2>3, <2>4, <2>5
<1>2. zeroes = Len(w) + 1 .. n
  BY <1>1
<1>3. CASE zeroes = {}
  <2>1. Len(w) = n
    <3>1. Len(w) + 1 \notin Len(w) + 1 .. n
      BY <1>2, <1>3
    <3>2. ASSUME NEW l \in Nat, l <= n, l + 1 \notin l + 1 .. n
          PROVE  l = n
      BY <3>2
    <3> HIDE DEF zeroes, m
    <3> QED BY <1>0, <3>1, <3>2
  <2>2. s = w
    BY <1>1, <2>1
  <2> QED BY <1>3, <2>2 DEF UntilZero
<1>4. CASE zeroes # {}
  <2> HIDE DEF zeroes
  <2>1. Len(w) + 1 \in zeroes /\ \A j \in zeroes : Len(w) + 1 <= j
    BY <1>1, <1>2, <1>4
  <2>2. m \in zeroes /\ \A j \in zeroes : m <= j
    BY <2>1
  <2> HIDE DEF m
  <2>3. m = Len(w) + 1
    BY <1>1, <1>2, <2>1, <2>2
  <2>4. UntilZero(s) = SubSeq(s, 1, m - 1)
    BY <1>4 DEF UntilZero, zeroes, m
  <2>5. SubSeq(s, 1, Len(w)) = w
    <3>1. /\ SubSeq(s, 1, Len(w)) \in Seq(Byte)
          /\ Len(SubSeq(s, 1, Len(w))) = Len(w)
          /\ \A k \in 1 .. Len(w) : SubSeq(s, 1, Len(w))[k] = s[k]
      <4>1. Len(w) <= n
        OBVIOUS
      <4> QED BY <1>1, <4>1
    <3>2. w \in Seq(Byte)
      BY DEF Byte
    <3> HIDE DEF zeroes
    <3> QED BY <1>1, <3>1, <3>2
  <2> QED BY <1>1, <2>3, <2>4, <2>5
<1> QED BY <1>3, <1>4

(* GetValue on a range that holds a value: the value comes back.           *)
LEMMA ReadsBack ==
  ASSUME NEW cols \in Seq(ColumnRecord), NEW vals \in Seq(RowValue),
         NEW i \in 1 .. Len(cols), i \in 1 .. Len(vals),
         NEW bytes \in [1 .. TupleLength(cols) -> Byte],
         Wide(cols[i]), Accepts(cols[i], vals[i]), Lies(cols, vals, bytes, i)
  PROVE  GetValue(cols, bytes, i) = ReadsAs(cols[i], vals[i])
<1> DEFINE col == cols[i]
           val == vals[i]
           off == Offset(cols, i)
           w   == Written(col, val)
<1>1. /\ col \in ColumnRecord /\ val \in RowValue
      /\ col.type \in TypeId /\ col.length \in Nat
  BY ColumnTypes
<1>2. /\ w \in Seq(Byte)
      /\ val.null => w = <<>>
      /\ Len(w) <= col.length
  BY <1>1, WrittenFits
<1>3. /\ off \in Nat /\ TupleLength(cols) \in Nat
      /\ off + col.length <= TupleLength(cols)
  <2>1. /\ i \in 1 .. Len(cols) + 1 /\ i < Len(cols) + 1
        /\ Len(cols) + 1 \in 1 .. Len(cols) + 1
    OBVIOUS
  <2> QED BY <2>1, OffsetFacts, OffsetsGrow DEF TupleLength
<1> DEFINE read(n) == [k \in 1 .. n |-> IF k \in DOMAIN w THEN w[k] ELSE 0]
<1>4. \A k \in 1 .. col.length : bytes[off + k] = IF k \in DOMAIN w THEN w[k] ELSE 0
  BY DEF Lies
<1> HIDE DEF off, w, col, val
<1>5. ASSUME NEW n \in Nat, n <= col.length
      PROVE  BytesFrom(bytes, off, n) = read(n)
  <2>1. \A k \in 1 .. n : off + k \in DOMAIN bytes /\ k \in 1 .. col.length
    BY <1>1, <1>3, <1>5
  <2> QED BY <1>4, <2>1 DEF BytesFrom
<1>6. ASSUME NEW n \in Nat, Len(w) = n
      PROVE  read(n) = w
  BY <1>2, <1>6
<1>7. CASE col.type = "INTEGER"
  <2>1. 4 <= col.length
    BY <1>7 DEF Wide, INT_BYTES, col
  <2>2. GetValue(cols, bytes, i) = Value("INTEGER", read(4))
    BY <1>5, <1>7, <2>1 DEF GetValue, INT_BYTES, off, col
  <2>3. CASE val.null
    <3>1. w = <<>>
      BY <1>2, <2>3
    <3>2. read(4) = <<0, 0, 0, 0>>
      BY <3>1
    <3> QED BY <1>7, <2>2, <2>3, <3>2 DEF ReadsAs, col, val
  <2>4. CASE ~val.null
    <3>1. val.type = "INTEGER" /\ val.bytes \in [1 .. 4 -> Byte]
      BY <1>1, <1>7, <2>4, RowValueCases DEF Accepts, col, val
    <3>2. w = val.bytes
      BY <1>7 DEF w, Written
    <3>3. read(4) = val.bytes
      BY <3>1, <3>2
    <3>4. val = [type |-> "INTEGER", null |-> FALSE, bytes |-> val.bytes]
      BY <1>1, <1>7, <2>4, RowValueCases DEF Accepts, col, val
    <3> QED BY <2>2, <2>4, <3>2, <3>3, <3>4 DEF ReadsAs, Value, col, val, w
  <2> QED BY <2>3, <2>4
<1>8. CASE col.type = "BOOLEAN"
  <2>1. 1 <= col.length
    BY <1>8 DEF Wide, col
  <2>2. GetValue(cols, bytes, i) = Value("BOOLEAN", read(1))
    BY <1>5, <1>8, <2>1 DEF GetValue, off, col
  <2>3. CASE val.null
    <3>1. w = <<>>
      BY <1>2, <2>3
    <3>2. read(1) = <<0>>
      BY <3>1
    <3> QED BY <1>8, <2>2, <2>3, <3>2 DEF ReadsAs, col, val
  <2>4. CASE ~val.null
    <3>1. val.type = "BOOLEAN" /\ val.bytes \in [1 .. 1 -> Byte]
      BY <1>1, <1>8, <2>4, RowValueCases DEF Accepts, col, val
    <3>2. w = val.bytes
      BY <1>8 DEF w, Written
    <3>3. read(1) = val.bytes
      BY <3>1, <3>2
    <3>4. val = [type |-> "BOOLEAN", null |-> FALSE, bytes |-> val.bytes]
      BY <1>1, <1>8, <2>4, RowValueCases DEF Accepts, col, val
    <3> QED BY <2>2, <2>4, <3>2, <3>3, <3>4 DEF ReadsAs, Value, col, val, w
  <2> QED BY <2>3, <2>4
<1>9. CASE col.type = "VARCHAR"
  <2>1. GetValue(cols, bytes, i) = Value("VARCHAR", UntilZero(read(col.length)))
    <3> HIDE DEF read
    <3>1. BytesFrom(bytes, off, col.length) = read(col.length)
      BY <1>1, <1>5
    <3> QED BY <1>9, <3>1 DEF GetValue, off, col
  <2>2. w \in Seq(Byte \ {0})
    <3>1. CASE val.null
      BY <1>2, <3>1
    <3>2. CASE ~val.null
      <4>1. val.bytes \in Seq(Byte \ {0})
        BY <1>1, <1>9, <3>2, RowValueCases DEF Accepts, col, val
      <4> DEFINE n == IF Len(val.bytes) < col.length THEN Len(val.bytes) ELSE col.length
      <4>2. w = SubSeq(val.bytes, 1, n)
        BY <1>9 DEF w, Written
      <4>3. n \in 0 .. Len(val.bytes)
        BY <1>1, <4>1
      <4> HIDE DEF n
      <4> QED BY <4>1, <4>2, <4>3
    <3> QED BY <3>1, <3>2
  <2>3. UntilZero(read(col.length)) = w
    BY <1>1, <1>2, <2>2, UntilZeroFinds
  <2>4. CASE val.null
    BY <1>2, <1>9, <2>1, <2>3, <2>4 DEF ReadsAs, col, val
  <2>5. CASE ~val.null
    <3>1. val.type = "VARCHAR"
      BY <1>1, <1>9, <2>5, RowValueCases DEF Accepts, col, val
    <3>2. val = [type |-> "VARCHAR", null |-> FALSE, bytes |-> val.bytes]
      BY <1>1, <1>9, <2>5, RowValueCases DEF Accepts, col, val
    <3>3. [val EXCEPT !.bytes = w] = Value("VARCHAR", w)
      <4> HIDE DEF read
      <4> DEFINE no == FALSE
      <4>1. val = [type |-> "VARCHAR", null |-> no, bytes |-> val.bytes]
        BY <3>2
      <4> HIDE DEF no
      <4>2. [val EXCEPT !.bytes = w] = [type |-> "VARCHAR", null |-> no, bytes |-> w]
        BY <4>1, BytesReplaced
      <4> QED BY <4>2 DEF no, Value
    <3>4. ReadsAs(col, val) = [val EXCEPT !.bytes = w]
      BY <2>5 DEF ReadsAs, w
    <3> QED BY <2>1, <2>3, <3>3, <3>4 DEF col, val
  <2> QED BY <2>4, <2>5
<1>10. CASE col.type = "INVALID"
  <2>1. val.null
    BY <1>1, <1>10, RowValueCases DEF Accepts, col, val
  <2> QED BY <1>10, <2>1 DEF GetValue, ReadsAs, col, val
<1> QED BY <1>1, <1>7, <1>8, <1>9, <1>10 DEF TypeId

-----------------------------------------------------------------------------
(* The bytes after the columns before at.                                  *)
RowIsTyped ==
  /\ columns \in Seq(ColumnRecord) /\ columns # <<>>
  /\ values \in Seq(RowValue)

Allocated ==
  /\ at \in 1 .. Len(columns) + 1
  /\ Len(values) = Len(columns)
  /\ data \in [1 .. TupleLength(columns) -> Byte]
  /\ outcome = "packed" => at = Len(columns) + 1
  /\ \A i \in 1 .. at - 1 : Accepts(columns[i], values[i])

BlankBehind ==
  \A o \in 1 .. TupleLength(columns) : o > Offset(columns, at) => data[o] = 0

PackedSoFar ==
  /\ \A i \in 1 .. at - 1 : Lies(columns, values, data, i)
  /\ BlankBehind

AllWide == \A i \in 1 .. Len(columns) : Wide(columns[i])

LayoutInv ==
  /\ RowIsTyped
  /\ \/ at = 0 /\ outcome # "packed"
     \/ Allocated /\ (AllWide => PackedSoFar)

LEMMA WidthsFitIsAllWide == RowIsTyped => (WidthsFit <=> AllWide)
<1> SUFFICES ASSUME RowIsTyped
             PROVE  WidthsFit <=> AllWide
  OBVIOUS
<1>1. DOMAIN columns = 1 .. Len(columns)
  BY DEF RowIsTyped
<1> QED BY <1>1 DEF WidthsFit, AllWide, Wide

LEMMA InitIsTyped == PackInit => LayoutInv
<1> SUFFICES ASSUME PackInit
             PROVE  LayoutInv
  OBVIOUS
<1>1. at = 0 /\ outcome # "packed"
  BY DEF PackInit
<1>2. RowIsTyped
  <2>1. CASE /\ columns \in UNION {[1 .. n -> Columns] : n \in 1 .. MAX_COLUMNS}
             /\ values \in UNION {[1 .. n -> Values] : n \in 1 .. MAX_COLUMNS}
    <3>1. PICK n \in 1 .. MAX_COLUMNS, m \in 1 .. MAX_COLUMNS :
            columns \in [1 .. n -> Columns] /\ values \in [1 .. m -> Values]
      BY <2>1
    <3>2. n \in Nat \ {0} /\ m \in Nat \ {0}
      BY TupleLayoutAssumption
    <3>3. Columns \subseteq ColumnRecord /\ Values \subseteq RowValue
      BY TupleLayoutAssumption DEF ColumnRecord
    <3>4. columns \in [1 .. n -> ColumnRecord] /\ values \in [1 .. m -> RowValue]
      BY <3>1, <3>3
    <3>5. columns \in Seq(ColumnRecord) /\ Len(columns) = n /\ values \in Seq(RowValue)
      BY <3>2, <3>4
    <3> QED BY <3>2, <3>5 DEF RowIsTyped
  <2>2. CASE columns = DemoColumns /\ values = DemoValues
    <3>1. columns \in Seq(ColumnRecord) /\ columns # <<>>
      <4>1. /\ Column("INTEGER", 4) \in ColumnRecord
            /\ Column("BOOLEAN", 1) \in ColumnRecord
            /\ Column("VARCHAR", 20) \in ColumnRecord
        BY DEF Column, ColumnRecord, TypeId
      <4> QED BY <2>2, <4>1 DEF DemoColumns
    <3>2. values \in Seq(RowValue)
      <4>1. Value("INTEGER", <<105, 0, 0, 0>>) \in RowValue
        <5>1. <<105, 0, 0, 0>> \in [1 .. 4 -> Byte]
          BY DEF Byte
        <5> QED BY <5>1 DEF Value, RowValue, INT_BYTES
      <4>2. Value("BOOLEAN", <<1>>) \in RowValue
        <5>1. <<1>> \in [1 .. 1 -> 0 .. 1]
          OBVIOUS
        <5> QED BY <5>1 DEF Value, RowValue
      <4>3. Value("VARCHAR", <<65, 108, 105, 99, 101>>) \in RowValue
        <5>1. <<65, 108, 105, 99, 101>> \in Seq(Byte \ {0})
          BY DEF Byte
        <5> QED BY <5>1 DEF Value, RowValue
      <4> QED BY <2>2, <4>1, <4>2, <4>3 DEF DemoValues
    <3> QED BY <3>1, <3>2 DEF RowIsTyped
  <2> QED BY <2>1, <2>2 DEF PackInit
<1> QED BY <1>1, <1>2 DEF LayoutInv

LEMMA AllocateZeroes == LayoutInv /\ Allocate => LayoutInv'
<1> SUFFICES ASSUME LayoutInv, Allocate
             PROVE  LayoutInv'
  OBVIOUS
<1>1. RowIsTyped' /\ columns' = columns /\ values' = values /\ at = 0
  BY DEF LayoutInv, RowIsTyped, Allocate, Throws
<1>2. CASE Throws("count mismatch")
  BY <1>1, <1>2 DEF Throws, LayoutInv
<1>3. CASE /\ Len(values) = Len(columns)
           /\ data' = [o \in 1 .. TupleLength(columns) |-> 0]
           /\ at' = 1
           /\ outcome' = outcome
  <2>1. Len(columns) \in Nat
    BY DEF LayoutInv, RowIsTyped
  <2>2. outcome' # "packed" /\ at' \in 1 .. Len(columns) + 1
    BY <1>3, <2>1 DEF Allocate
  <2>3. data' \in [1 .. TupleLength(columns) -> Byte]
    BY <1>3 DEF Byte
  <2>4. 1 .. at' - 1 = {}
    BY <1>3
  <2>5. Allocated'
    BY <1>1, <1>3, <2>2, <2>3, <2>4 DEF Allocated
  <2>6. BlankBehind'
    BY <1>1, <1>3 DEF BlankBehind
  <2>7. PackedSoFar'
    BY <2>4, <2>6 DEF PackedSoFar
  <2> QED BY <1>1, <2>5, <2>7 DEF LayoutInv
<1> QED BY <1>2, <1>3 DEF Allocate

(* memcpy behind the columns packed so far: they are not touched, the      *)
(* column holds its value, and behind it there are still zeroes.           *)
LEMMA CopyLies ==
  ASSUME RowIsTyped, Allocated, AllWide, PackedSoFar, at \in 1 .. Len(columns),
         Accepts(columns[at], values[at]),
         NEW bytes, bytes = CopyTo(data, Offset(columns, at),
                                   Written(columns[at], values[at]))
  PROVE  /\ \A i \in 1 .. at : Lies(columns, values, bytes, i)
         /\ \A o \in 1 .. TupleLength(columns) :
              o > Offset(columns, at + 1) => bytes[o] = 0
<1> DEFINE off(i) == Offset(columns, i)
           w == Written(columns[at], values[at])
           len == Len(columns)
<1>1. /\ columns \in Seq(ColumnRecord) /\ len \in Nat
      /\ columns[at] \in ColumnRecord /\ values[at] \in RowValue
      /\ Wide(columns[at])
  BY DEF RowIsTyped, Allocated, AllWide
<1>2. /\ w \in Seq(Byte) /\ Len(w) \in Nat /\ DOMAIN w = 1 .. Len(w)
      /\ Len(w) <= columns[at].length
  BY <1>1, WrittenFits
<1>3. /\ \A i \in 1 .. len + 1 : off(i) \in Nat
      /\ off(at + 1) = off(at) + columns[at].length
      /\ \A i \in 1 .. len : columns[i].length \in Nat
  BY <1>1, OffsetFacts, ColumnTypes
<1>4. /\ DOMAIN data = 1 .. TupleLength(columns)
      /\ TupleLength(columns) = off(len + 1) /\ len + 1 \in 1 .. len + 1
  BY <1>1 DEF Allocated, TupleLength
<1>5. \A o \in 1 .. TupleLength(columns) :
        bytes[o] = IF o - off(at) \in 1 .. Len(w) THEN w[o - off(at)] ELSE data[o]
  BY <1>2, <1>4 DEF CopyTo
<1>6. ASSUME NEW i \in 1 .. at, NEW k \in 1 .. columns[i].length
      PROVE  off(i) + k \in 1 .. TupleLength(columns)
  <2>1. i \in 1 .. len /\ i < len + 1
    BY <1>1
  <2>2. off(i) + columns[i].length <= off(len + 1)
    BY <1>1, <1>4, <2>1, OffsetsGrow
  <2>3. off(i) \in Nat /\ columns[i].length \in Nat /\ off(len + 1) \in Nat
    BY <1>3, <1>4, <2>1
  <2> HIDE DEF off
  <2> QED BY <1>4, <2>2, <2>3
<1>7. at \in 1 .. len + 1 /\ off(at) \in Nat /\ columns[at].length \in Nat
  BY <1>1, <1>3
<1>8. ASSUME NEW o \in 1 .. TupleLength(columns), o > off(at)
      PROVE  data[o] = 0
  BY <1>8 DEF PackedSoFar, BlankBehind
<1>9. ASSUME NEW i \in 1 .. at - 1
      PROVE  Lies(columns, values, bytes, i)
  <2>1. i \in 1 .. len /\ i < at /\ i \in 1 .. at
    BY <1>1
  <2>2. off(i) + columns[i].length <= off(at)
    BY <1>1, <1>7, <2>1, OffsetsGrow
  <2>3. Lies(columns, values, data, i)
    BY DEF PackedSoFar
  <2>4. ASSUME NEW k \in 1 .. columns[i].length
        PROVE  bytes[off(i) + k] = data[off(i) + k]
    <3>1. off(i) \in Nat /\ columns[i].length \in Nat
      BY <1>3, <2>1
    <3> DEFINE o == off(i) + k
    <3>2. o \in Nat /\ o <= off(at)
      <4> HIDE DEF off
      <4> QED BY <1>7, <2>2, <3>1, SMTT(30)
    <3>3. o \in 1 .. TupleLength(columns)
      BY <1>6, <2>1
    <3> HIDE DEF o, off, w
    <3>4. o - off(at) \notin 1 .. Len(w)
      BY <1>2, <1>7, <3>2
    <3>5. bytes[o] = data[o]
      BY <1>5, <3>3, <3>4
    <3> QED BY <3>5 DEF o
  <2> QED BY <2>3, <2>4 DEF Lies
<1>10. Lies(columns, values, bytes, at)
  <2>1. ASSUME NEW k \in 1 .. columns[at].length
        PROVE  bytes[off(at) + k] = IF k \in DOMAIN w THEN w[k] ELSE 0
    <3>1. off(at) + k \in 1 .. TupleLength(columns) /\ off(at) + k > off(at)
      <4>1. at \in 1 .. at
        OBVIOUS
      <4>2. off(at) + k \in 1 .. TupleLength(columns)
        BY <1>6, <4>1
      <4> HIDE DEF off
      <4> QED BY <1>7, <4>2
    <3>2. data[off(at) + k] = 0
      BY <1>8, <3>1
    <3>3. (off(at) + k) - off(at) = k
      <4> HIDE DEF off
      <4> QED BY <1>7
    <3> HIDE DEF off, w
    <3> QED BY <1>2, <1>5, <3>1, <3>2, <3>3
  <2> QED BY <2>1 DEF Lies
<1>11. ASSUME NEW o \in 1 .. TupleLength(columns), o > off(at + 1)
       PROVE  bytes[o] = 0
  <2>1. o > off(at) /\ o - off(at) \notin 1 .. Len(w)
    <3> HIDE DEF off, w
    <3> QED BY <1>2, <1>3, <1>7, <1>11
  <2>2. data[o] = 0
    BY <1>8, <2>1
  <2> HIDE DEF off, w
  <2> QED BY <1>5, <2>1, <2>2
<1>12. \A i \in 1 .. at : i = at \/ i \in 1 .. at - 1
  BY <1>1
<1> QED BY <1>9, <1>10, <1>11, <1>12

(* A null is skipped, over zeroes: as if nothing had been written there.   *)
LEMMA SkipIsACopy ==
  ASSUME RowIsTyped, Allocated, at \in 1 .. Len(columns), values[at].null
  PROVE  data = CopyTo(data, Offset(columns, at), Written(columns[at], values[at]))
<1>1. columns[at] \in ColumnRecord /\ values[at] \in RowValue
  BY DEF RowIsTyped, Allocated
<1>2. Written(columns[at], values[at]) = <<>>
  BY <1>1, WrittenFits DEF Accepts
<1>3. data \in [1 .. TupleLength(columns) -> Byte]
  BY DEF Allocated
<1> HIDE DEF TupleLength
<1> QED BY <1>2, <1>3 DEF CopyTo

LEMMA PackColumnLies == LayoutInv /\ PackColumn => LayoutInv'
<1> SUFFICES ASSUME LayoutInv, PackColumn
             PROVE  LayoutInv'
  OBVIOUS
<1> DEFINE col == columns[at]
           val == values[at]
           w   == Written(col, val)
<1>1. /\ RowIsTyped
      /\ at \in 1 .. Len(columns) /\ Len(columns) \in Nat
  <2>1. RowIsTyped /\ at \in DOMAIN columns
    BY DEF LayoutInv, PackColumn
  <2> QED BY <2>1 DEF RowIsTyped
<1>2. Allocated /\ (AllWide => PackedSoFar)
  BY <1>1 DEF LayoutInv
<1>3. columns' = columns /\ values' = values
  BY DEF PackColumn, Throws, Pack, Advance
<1>4. RowIsTyped'
  BY <1>1, <1>3 DEF RowIsTyped
<1>5. ASSUME NEW reason, reason # "packed", Throws(reason)
      PROVE  LayoutInv'
  <2>1. Allocated'
    BY <1>2, <1>5 DEF Throws, Allocated
  <2>2. AllWide' => PackedSoFar'
    BY <1>2, <1>5 DEF Throws, AllWide, PackedSoFar, BlankBehind
  <2> QED BY <1>4, <2>1, <2>2 DEF LayoutInv
<1>6. ASSUME Accepts(col, val), Advance, data' = CopyTo(data, Offset(columns, at), w)
      PROVE  LayoutInv'
  <2>1. at' = at + 1 /\ (outcome' = "packed" => at = Len(columns))
    BY <1>6 DEF Advance
  <2>2. /\ col \in ColumnRecord /\ val \in RowValue
    BY <1>1, <1>2 DEF RowIsTyped, Allocated
  <2>3. w \in Seq(Byte)
    BY <1>6, <2>2, WrittenFits
  <2>4. data' \in [1 .. TupleLength(columns) -> Byte]
    <3>1. data \in [1 .. TupleLength(columns) -> Byte]
      BY <1>2 DEF Allocated
    <3> HIDE DEF w
    <3> QED BY <1>6, <2>3, <3>1 DEF CopyTo
  <2>5. \A i \in 1 .. at : Accepts(columns[i], values[i])
    BY <1>1, <1>2, <1>6 DEF Allocated
  <2>6. Allocated'
    BY <1>1, <1>2, <1>3, <2>1, <2>4, <2>5 DEF Allocated
  <2>7. ASSUME AllWide'
        PROVE  PackedSoFar'
    <3>1. AllWide
      BY <1>3, <2>7 DEF AllWide
    <3>2. /\ \A i \in 1 .. at : Lies(columns, values, data', i)
          /\ \A o \in 1 .. TupleLength(columns) :
               o > Offset(columns, at + 1) => data'[o] = 0
      BY <1>1, <1>2, <1>6, <3>1, CopyLies
    <3>3. 1 .. at' - 1 = 1 .. at
      BY <1>1, <2>1
    <3> QED BY <1>3, <2>1, <3>2, <3>3 DEF PackedSoFar, BlankBehind
  <2> QED BY <1>4, <2>6, <2>7 DEF LayoutInv
<1>7. CASE ~Mismatch(col, val) /\ val.null /\ Advance /\ data' = data
  <2>1. Accepts(col, val)
    BY <1>7 DEF Accepts
  <2>2. data = CopyTo(data, Offset(columns, at), w)
    BY <1>1, <1>2, <1>7, SkipIsACopy
  <2> QED BY <1>6, <1>7, <2>1, <2>2
<1>8. CASE ~Mismatch(col, val) /\ ~val.null /\ Pack(col, val)
  <2>1. CASE HasBytesOf(col, val)
    BY <1>6, <1>8, <2>1 DEF Pack, HasBytesOf, Accepts
  <2>2. CASE ~HasBytesOf(col, val)
    <3>1. Throws("wrong accessor")
      BY <1>8, <2>2 DEF Pack
    <3> QED BY <1>5, <3>1
  <2> QED BY <2>1, <2>2
<1>9. CASE Throws("type mismatch")
  BY <1>5, <1>9
<1> HIDE DEF w
<1> QED BY <1>7, <1>8, <1>9 DEF PackColumn

LEMMA LayoutInvHolds == PackSpec => []LayoutInv
<1>1. LayoutInv /\ [PackNext]_packVars => LayoutInv'
  <2> SUFFICES ASSUME LayoutInv, [PackNext]_packVars
               PROVE  LayoutInv'
    OBVIOUS
  <2>1. CASE UNCHANGED packVars
    BY <2>1 DEF packVars, LayoutInv, RowIsTyped, Allocated, AllWide, PackedSoFar, BlankBehind
  <2> QED BY <2>1, AllocateZeroes, PackColumnLies DEF PackNext
<1> QED BY <1>1, InitIsTyped, PTL DEF PackSpec

(* "pulling a Value back out from the byte array" (tuple.h:12): whatever   *)
(* the schema and the row, every column packed so far reads back.          *)
THEOREM ValuesReadBack == PackSpec => []PackedColumnsReadBack
<1>1. LayoutInv => PackedColumnsReadBack
  <2> SUFFICES ASSUME LayoutInv, WidthsFit,
                      NEW i \in DOMAIN columns, i < at
               PROVE  GetValue(columns, data, i) = ReadsAs(columns[i], values[i])
    BY DEF PackedColumnsReadBack
  <2>1. /\ RowIsTyped
        /\ columns \in Seq(ColumnRecord) /\ values \in Seq(RowValue)
        /\ i \in 1 .. Len(columns)
    BY DEF LayoutInv, RowIsTyped
  <2>2. AllWide
    BY <2>1, WidthsFitIsAllWide
  <2>3. Allocated /\ PackedSoFar
    BY <2>1, <2>2 DEF LayoutInv
  <2>4. i \in 1 .. at - 1 /\ i \in 1 .. Len(values)
    BY <2>1, <2>3 DEF Allocated
  <2>5. /\ data \in [1 .. TupleLength(columns) -> Byte]
        /\ Wide(columns[i]) /\ Accepts(columns[i], values[i])
        /\ Lies(columns, values, data, i)
    BY <2>1, <2>2, <2>3, <2>4 DEF Allocated, AllWide, PackedSoFar
  <2> QED BY <2>1, <2>4, <2>5, ReadsBack
<1> QED BY <1>1, LayoutInvHolds, PTL

LEMMA ReadsBytes ==
  ASSUME NEW col \in ColumnRecord, NEW val \in RowValue, Written(col, val) \in Seq(Byte)
  PROVE  ReadsAs(col, val).bytes \in Seq(Byte)
<1>1. CASE val.null
  <2>1. 0 \in Byte
    BY DEF Byte
  <2>2. <<0, 0, 0, 0>> \in Seq(Byte) /\ <<0>> \in Seq(Byte) /\ <<>> \in Seq(Byte)
    BY <2>1
  <2>3. col.type \in TypeId
    BY DEF ColumnRecord
  <2> QED BY <1>1, <2>2, <2>3 DEF ReadsAs, Value, NullValue, TypeId
<1>2. CASE ~val.null
  <2>1. val = [type |-> val.type, null |-> val.null, bytes |-> val.bytes]
    BY DEF RowValue
  <2>2. [val EXCEPT !.bytes = Written(col, val)].bytes = Written(col, val)
    BY <2>1
  <2> QED BY <1>2, <2>2 DEF ReadsAs
<1> QED BY <1>1, <1>2

(* The constructor and GetValue touch the bytes of the tuple, and no       *)
(* others: a tuple wrapped around a row in a page is read inside the row.  *)
THEOREM NothingPastTheEnd == PackSpec => []StaysInside
<1>1. LayoutInv => StaysInside
  <2> SUFFICES ASSUME LayoutInv, WidthsFit, outcome = "packed",
                      NEW i \in DOMAIN columns
               PROVE  /\ Offset(columns, i) + Len(Written(columns[i], values[i])) <= Len(data)
                      /\ \A k \in DOMAIN GetValue(columns, data, i).bytes :
                           GetValue(columns, data, i).bytes[k] >= 0
    BY DEF StaysInside
  <2>1. /\ RowIsTyped
        /\ columns \in Seq(ColumnRecord) /\ values \in Seq(RowValue)
        /\ i \in 1 .. Len(columns) /\ Len(columns) \in Nat
    BY DEF LayoutInv, RowIsTyped
  <2>2. AllWide
    BY <2>1, WidthsFitIsAllWide
  <2>3. Allocated /\ PackedSoFar /\ at = Len(columns) + 1
    BY <2>1, <2>2 DEF LayoutInv, Allocated
  <2>4. i \in 1 .. at - 1 /\ i \in 1 .. Len(values)
    BY <2>1, <2>3 DEF Allocated
  <2>5. /\ data \in [1 .. TupleLength(columns) -> Byte]
        /\ Wide(columns[i]) /\ Accepts(columns[i], values[i])
        /\ Lies(columns, values, data, i)
        /\ columns[i] \in ColumnRecord /\ values[i] \in RowValue
    BY <2>1, <2>2, <2>3, <2>4 DEF Allocated, AllWide, PackedSoFar
  <2>6. /\ Written(columns[i], values[i]) \in Seq(Byte)
        /\ Len(Written(columns[i], values[i])) <= columns[i].length
    BY <2>5, WrittenFits
  <2>7. Offset(columns, i) + Len(Written(columns[i], values[i])) <= Len(data)
    <3>1. i < Len(columns) + 1 /\ i \in 1 .. Len(columns) + 1
          /\ Len(columns) + 1 \in 1 .. Len(columns) + 1
      BY <2>1
    <3>2. Offset(columns, i) + columns[i].length <= TupleLength(columns)
      BY <2>1, <3>1, OffsetsGrow DEF TupleLength
    <3>3. Offset(columns, i) \in Nat /\ TupleLength(columns) \in Nat
      BY <2>1, <3>1, OffsetFacts DEF TupleLength
    <3>4. Len(data) = TupleLength(columns)
      BY <2>5, <3>3, BytesAreASequence
    <3>5. columns[i].length \in Nat /\ Len(Written(columns[i], values[i])) \in Nat
      BY <2>1, <2>6, ColumnTypes
    <3> QED BY <2>6, <3>2, <3>3, <3>4, <3>5
  <2>8. GetValue(columns, data, i).bytes \in Seq(Byte)
    <3>1. GetValue(columns, data, i) = ReadsAs(columns[i], values[i])
      BY <2>1, <2>4, <2>5, ReadsBack
    <3>2. ReadsAs(columns[i], values[i]).bytes \in Seq(Byte)
      BY <2>5, <2>6, ReadsBytes
    <3> QED BY <3>1, <3>2
  <2>9. \A k \in DOMAIN GetValue(columns, data, i).bytes :
          GetValue(columns, data, i).bytes[k] >= 0
    <3>1. ASSUME NEW s \in Seq(Byte)
          PROVE  \A k \in DOMAIN s : s[k] >= 0
      <4>1. DOMAIN s = 1 .. Len(s) /\ \A k \in 1 .. Len(s) : s[k] \in Byte
        OBVIOUS
      <4>2. \A b \in Byte : b >= 0
        BY DEF Byte
      <4> QED BY <4>1, <4>2
    <3> QED BY <2>8, <3>1
  <2> QED BY <2>7, <2>9
<1> QED BY <1>1, LayoutInvHolds, PTL

-----------------------------------------------------------------------------
(* Ownership, for any number of Tuples, blocks and buffers: an allocated   *)
(* block has at most one owner, an owner keeps the bytes it was given, and *)
(* only a constructor that throws leaks.  The three are inductive          *)
(* together: that a destroyed Tuple's block was nobody else's keeps the    *)
(* others' bytes, and that a block without an owner is the one left by a   *)
(* throw needs every owner's block to be live.                             *)

OwnersInv ==
  /\ MemoryTypeOK
  /\ EveryOwnerIsAlone
  /\ OwnedBytesAreKept
  /\ IsFiniteSet(Orphans)
  /\ OnlyThrowsLeak
-----------------------------------------------------------------------------
(* The blocks there are once t's own, if it has one, is freed.             *)
Released(t) == IF t \in Live THEN Freed(t) ELSE heap

(* No other Tuple's block is freed with it, and no block loses its owner.  *)
LEMMA ReleasedIs ==
  ASSUME OwnersInv, NEW t
  PROVE  /\ DOMAIN Released(t) \subseteq DOMAIN heap
         /\ \A b \in DOMAIN Released(t) : Released(t)[b] = heap[b]
         /\ \A u \in Live \ {t} : Owns(u) => tuple[u].data \in DOMAIN Released(t)
         /\ \A b : b \in Orphans <=>
              /\ b \in DOMAIN Released(t)
              /\ \A u \in Live \ {t} : Owns(u) => tuple[u].data # b
<1>1. CASE t \in Live /\ Owns(t)
  <2>1. Released(t) = Without(heap, {tuple[t].data})
    BY <1>1 DEF Released, Freed
  <2>2. /\ DOMAIN Released(t) = DOMAIN heap \ {tuple[t].data}
        /\ \A b \in DOMAIN Released(t) : Released(t)[b] = heap[b]
    BY <2>1 DEF Without
  <2>3. \A u \in Live : Owns(u) => tuple[u].data \in DOMAIN heap
    BY DEF OwnersInv, EveryOwnerIsAlone
  <2>4. \A u \in Live \ {t} : Owns(u) => tuple[u].data # tuple[t].data
    BY <1>1 DEF OwnersInv, EveryOwnerIsAlone
  <2>. QED  BY <1>1, <2>2, <2>3, <2>4 DEF Orphans
<1>2. CASE ~(t \in Live /\ Owns(t))
  <2>1. Released(t) = heap
    BY <1>2 DEF Released, Freed
  <2>2. \A u \in Live : Owns(u) => tuple[u].data \in DOMAIN heap
    BY DEF OwnersInv, EveryOwnerIsAlone
  <2>. QED  BY <1>2, <2>1, <2>2 DEF Orphans
<1>. QED  BY <1>1, <1>2

(* What every constructor and assignment does: t, whose own block is freed *)
(* if it had one, points at an address it does not own, or at a new block. *)
LEMMA HoldsKeepsOwners ==
  ASSUME OwnersInv, NEW t \in Name, NEW a \in Address, NEW owned \in BOOLEAN,
         NEW bytes,
         Holds(t, a, owned, bytes), UNCHANGED <<buffer, throws>>,
         \/ heap' = Released(t) /\ ~(owned /\ a # nullptr)
         \/ /\ heap' = With(Released(t), a, bytes)
            /\ a \in Block \ DOMAIN Released(t)
            /\ owned
  PROVE  OwnersInv'
<1>1. /\ Live' = Live \cup {t}
      /\ tuple'[t] = [data |-> a, allocated |-> owned]
      /\ \A u \in Live \ {t} : tuple'[u] = tuple[u]
      /\ DOMAIN meant' = DOMAIN meant \cup {t}
      /\ meant'[t] = bytes
      /\ \A u \in DOMAIN meant \ {t} : meant'[u] = meant[u]
  <2>1. tuple' = With(tuple, t, [data |-> a, allocated |-> owned])
    BY DEF Holds
  <2>2. meant' = With(meant, t, bytes)
    BY DEF Holds
  <2>. QED  BY <2>1, <2>2 DEF With, Live
<1>2. /\ Live \subseteq Name /\ DOMAIN meant = Live
      /\ DOMAIN heap \subseteq Block /\ Block \cap Buffer = {}
      /\ nullptr \notin Block
      /\ \A u \in Live : tuple[u] \in [data : Address, allocated : BOOLEAN]
  BY TupleMemoryAssumption DEF OwnersInv, MemoryTypeOK
<1>3. /\ Owns(t)' <=> owned /\ a # nullptr
      /\ \A u \in Live \ {t} : Owns(u)' <=> Owns(u)
  BY <1>1 DEF Owns
<1>4. /\ DOMAIN Released(t) \subseteq DOMAIN heap
      /\ \A b \in DOMAIN Released(t) : Released(t)[b] = heap[b]
      /\ \A u \in Live \ {t} : Owns(u) => tuple[u].data \in DOMAIN Released(t)
      /\ \A b : b \in Orphans <=>
           /\ b \in DOMAIN Released(t)
           /\ \A u \in Live \ {t} : Owns(u) => tuple[u].data # b
  BY ReleasedIs
<1>5. /\ DOMAIN Released(t) \subseteq DOMAIN heap'
      /\ \A b \in DOMAIN Released(t) : heap'[b] = heap[b]
      /\ Owns(t)' => /\ DOMAIN heap' = DOMAIN Released(t) \cup {a}
                     /\ a \notin DOMAIN Released(t)
                     /\ heap'[a] = bytes
      /\ ~Owns(t)' => DOMAIN heap' = DOMAIN Released(t)
      /\ DOMAIN heap' \subseteq Block
  <2>1. CASE heap' = Released(t) /\ ~(owned /\ a # nullptr)
    BY <2>1, <1>2, <1>3, <1>4
  <2>2. CASE /\ heap' = With(Released(t), a, bytes)
             /\ a \in Block \ DOMAIN Released(t)
             /\ owned
    <3>1. /\ DOMAIN heap' = DOMAIN Released(t) \cup {a}
          /\ heap'[a] = bytes
          /\ \A b \in DOMAIN Released(t) : heap'[b] = Released(t)[b]
      BY <2>2 DEF With
    <3>. QED  BY <2>2, <3>1, <1>2, <1>3, <1>4
  <2>. QED  BY <2>1, <2>2
<1>6. MemoryTypeOK'
  <2>1. [data |-> a, allocated |-> owned] \in [data : Address, allocated : BOOLEAN]
    OBVIOUS
  <2>. QED  BY <1>1, <1>2, <1>5, <2>1 DEF MemoryTypeOK, OwnersInv, Live, Address
<1>7. EveryOwnerIsAlone'
  <2>. SUFFICES ASSUME NEW u \in Live', Owns(u)'
                PROVE  /\ tuple'[u].data \in DOMAIN heap'
                       /\ \A v \in Live' \ {u} : Owns(v)' => tuple'[v].data # tuple'[u].data
    BY DEF EveryOwnerIsAlone
  <2>1. \A v \in Live \ {t} : Owns(v) =>
          /\ tuple[v].data \in DOMAIN Released(t)
          /\ \A w \in Live \ {v} : Owns(w) => tuple[w].data # tuple[v].data
    BY <1>4 DEF OwnersInv, EveryOwnerIsAlone
  <2>2. CASE u = t
    BY <1>1, <1>3, <1>5, <2>1, <2>2
  <2>3. CASE u # t
    BY <1>1, <1>3, <1>5, <2>1, <2>3
  <2>. QED  BY <2>2, <2>3
<1>8. OwnedBytesAreKept'
  <2>. SUFFICES ASSUME NEW u \in Live', Owns(u)'
                PROVE  (BytesAt(tuple[u].data) = meant[u])'
    BY DEF OwnedBytesAreKept
  <2>1. CASE u = t
    BY <1>1, <1>2, <1>3, <1>5, <2>1 DEF BytesAt
  <2>2. CASE u # t
    <3>1. u \in Live \ {t} /\ Owns(u) /\ tuple'[u] = tuple[u] /\ meant'[u] = meant[u]
      BY <1>1, <1>2, <1>3, <2>2
    <3>2. tuple[u].data \in DOMAIN heap /\ heap'[tuple[u].data] = heap[tuple[u].data]
          /\ tuple[u].data \in DOMAIN heap'
      BY <1>4, <1>5, <3>1
    <3>3. BytesAt(tuple[u].data) = meant[u]
      BY <3>1 DEF OwnersInv, OwnedBytesAreKept
    <3>4. heap[tuple[u].data] = meant[u]
      BY <1>2, <3>2, <3>3 DEF BytesAt
    <3>. QED  BY <1>2, <1>5, <3>1, <3>2, <3>4 DEF BytesAt
  <2>. QED  BY <2>1, <2>2
<1>9. Orphans' = Orphans
  <2>1. \A b : b \in Orphans' <=>
          b \in DOMAIN heap' /\ \A u \in Live' : Owns(u)' => tuple'[u].data # b
    BY DEF Orphans
  <2>2. \A b : b \in Orphans' <=> b \in Orphans
    BY <1>1, <1>3, <1>4, <1>5, <2>1
  <2>. QED  BY <2>2
<1>. QED  BY <1>6, <1>7, <1>8, <1>9 DEF OwnersInv, OnlyThrowsLeak

(* The copy that copy constructor and assignment make.                     *)
LEMMA TakeCopyKeepsOwners ==
  ASSUME OwnersInv, NEW t \in Name, NEW u \in Live,
         TakeCopy(t, u, Released(t)), UNCHANGED <<buffer, throws>>
  PROVE  OwnersInv'
<1>1. tuple[u].data \in Address /\ tuple[u].allocated \in BOOLEAN
  BY DEF OwnersInv, MemoryTypeOK
<1>2. CASE Owns(u)
  <2>1. PICK b \in Block \ DOMAIN Released(t) :
          /\ heap' = With(Released(t), b, heap[tuple[u].data])
          /\ Holds(t, b, TRUE, heap[tuple[u].data])
    BY <1>2 DEF TakeCopy
  <2>2. b \in Address
    BY DEF Address
  <2>. QED  BY <2>1, <2>2, HoldsKeepsOwners
<1>3. CASE ~Owns(u)
  <2>1. /\ heap' = Released(t)
        /\ Holds(t, tuple[u].data, tuple[u].allocated, BytesAt(tuple[u].data))
    BY <1>3 DEF TakeCopy
  <2>2. ~(tuple[u].allocated /\ tuple[u].data # nullptr)
    BY <1>3 DEF Owns
  <2>. QED  BY <1>1, <2>1, <2>2, HoldsKeepsOwners
<1>. QED  BY <1>2, <1>3

(* The destructor frees what nobody else owns.                             *)
LEMMA DestructKeepsOwners ==
  ASSUME OwnersInv, NEW t, Destruct(t)
  PROVE  OwnersInv'
<1>1. /\ heap' = Released(t)
      /\ Live' = Live \ {t} /\ DOMAIN meant' = DOMAIN meant \ {t}
      /\ \A u \in Live \ {t} : tuple'[u] = tuple[u]
      /\ \A u \in DOMAIN meant \ {t} : meant'[u] = meant[u]
      /\ UNCHANGED <<buffer, throws>>
  BY DEF Destruct, Released, Without, Live
<1>2. /\ Live \subseteq Name /\ DOMAIN meant = Live
      /\ DOMAIN heap \subseteq Block /\ Block \cap Buffer = {}
  BY TupleMemoryAssumption DEF OwnersInv, MemoryTypeOK
<1>3. \A u \in Live' : u \in Live \ {t} /\ (Owns(u)' <=> Owns(u))
  BY <1>1 DEF Owns
<1>4. /\ DOMAIN heap' \subseteq DOMAIN heap
      /\ \A b \in DOMAIN heap' : heap'[b] = heap[b]
      /\ \A u \in Live \ {t} : Owns(u) => tuple[u].data \in DOMAIN heap'
      /\ \A b : b \in Orphans <=>
           /\ b \in DOMAIN heap'
           /\ \A u \in Live \ {t} : Owns(u) => tuple[u].data # b
  BY <1>1, ReleasedIs
<1>5. MemoryTypeOK'
  BY <1>1, <1>2, <1>4 DEF MemoryTypeOK, OwnersInv, Live, Address
<1>6. EveryOwnerIsAlone'
  BY <1>1, <1>3, <1>4 DEF OwnersInv, EveryOwnerIsAlone
<1>7. OwnedBytesAreKept'
  <2>. SUFFICES ASSUME NEW u \in Live', Owns(u)'
                PROVE  (BytesAt(tuple[u].data) = meant[u])'
    BY DEF OwnedBytesAreKept
  <2>1. /\ u \in Live \ {t} /\ Owns(u) /\ tuple'[u] = tuple[u] /\ meant'[u] = meant[u]
        /\ tuple[u].data \in DOMAIN heap' /\ heap'[tuple[u].data] = heap[tuple[u].data]
    BY <1>1, <1>2, <1>3, <1>4
  <2>2. BytesAt(tuple[u].data) = meant[u]
    BY <2>1 DEF OwnersInv, OwnedBytesAreKept
  <2>. QED  BY <1>2, <1>4, <2>1, <2>2 DEF BytesAt
<1>8. Orphans' = Orphans
  <2>1. \A b : b \in Orphans' <=>
          b \in DOMAIN heap' /\ \A u \in Live' : Owns(u)' => tuple'[u].data # b
    BY DEF Orphans
  <2>2. \A b : b \in Orphans' <=> b \in Orphans
    BY <1>1, <1>3, <1>4, <2>1
  <2>. QED  BY <2>2
<1>. QED  BY <1>1, <1>5, <1>6, <1>7, <1>8 DEF OwnersInv, OnlyThrowsLeak

(* A throw leaves one block more without an owner.                         *)
LEMMA ThrowKeepsOwners ==
  ASSUME OwnersInv, SerializeThrows
  PROVE  OwnersInv'
<1>1. PICK b \in Block \ DOMAIN heap, bytes \in Bytes : heap' = With(heap, b, bytes)
  BY DEF SerializeThrows
<1>2. /\ DOMAIN heap' = DOMAIN heap \cup {b}
      /\ \A a \in DOMAIN heap : heap'[a] = heap[a]
  BY <1>1 DEF With
<1>3. /\ throws' = throws + 1 /\ throws' \in 0 .. MAX_THROWS
      /\ tuple' = tuple /\ buffer' = buffer /\ meant' = meant
  BY TupleMemoryAssumption DEF SerializeThrows, OwnersInv, MemoryTypeOK
<1>4. \A u \in Live : (Owns(u)' <=> Owns(u)) /\ (Owns(u) => tuple[u].data \in DOMAIN heap)
  BY <1>3 DEF Owns, OwnersInv, EveryOwnerIsAlone
<1>5. MemoryTypeOK'
  BY <1>2, <1>3 DEF OwnersInv, MemoryTypeOK, Live
<1>6. EveryOwnerIsAlone'
  BY <1>2, <1>3, <1>4 DEF OwnersInv, EveryOwnerIsAlone, Live
<1>7. OwnedBytesAreKept'
  BY <1>2, <1>3, <1>4 DEF OwnersInv, OwnedBytesAreKept, BytesAt, Live
<1>8. Orphans' = Orphans \cup {b} /\ b \notin Orphans
  BY <1>1, <1>2, <1>3, <1>4 DEF Orphans, Live
<1>9. IsFiniteSet(Orphans') /\ Cardinality(Orphans') = Cardinality(Orphans) + 1
  BY <1>8, FS_AddElement DEF OwnersInv
<1>. QED  BY <1>3, <1>5, <1>6, <1>7, <1>9 DEF OwnersInv, OnlyThrowsLeak

(* A buffer is no block, so what it holds is nobody's own.                 *)
LEMMA OverwriteKeepsOwners ==
  ASSUME OwnersInv, NEW x \in Buffer, Overwrite(x)
  PROVE  OwnersInv'
<1>1. PICK bytes \in Bytes : buffer' = [buffer EXCEPT ![x] = bytes]
  BY DEF Overwrite
<1>2. tuple' = tuple /\ heap' = heap /\ meant' = meant /\ throws' = throws
  BY DEF Overwrite
<1>3. MemoryTypeOK'
  BY <1>1, <1>2 DEF OwnersInv, MemoryTypeOK, Live
<1>4. EveryOwnerIsAlone'
  BY <1>2 DEF OwnersInv, EveryOwnerIsAlone, Live, Owns
<1>5. \A u \in Live : Owns(u) => tuple[u].data \in DOMAIN heap /\ tuple[u].data \notin Buffer
  BY TupleMemoryAssumption DEF OwnersInv, EveryOwnerIsAlone, MemoryTypeOK
<1>6. OwnedBytesAreKept'
  BY <1>2, <1>5 DEF OwnersInv, OwnedBytesAreKept, BytesAt, Live, Owns
<1>7. Orphans' = Orphans
  BY <1>2 DEF Orphans, Live, Owns
<1>. QED  BY <1>2, <1>3, <1>4, <1>6, <1>7 DEF OwnersInv, OnlyThrowsLeak
-----------------------------------------------------------------------------
LEMMA InitHasOwners == MemoryInit => OwnersInv
<1>. SUFFICES ASSUME MemoryInit  PROVE OwnersInv
  OBVIOUS
<1>1. Live = {} /\ DOMAIN heap = {} /\ DOMAIN meant = {} /\ throws = 0 /\ buffer \in [Buffer -> Bytes]
  BY DEF MemoryInit, Live
<1>2. Orphans = {}
  BY <1>1 DEF Orphans
<1>3. IsFiniteSet(Orphans) /\ Cardinality(Orphans) = 0
  BY <1>2, FS_EmptySet
<1>. QED  BY <1>1, <1>3, TupleMemoryAssumption
          DEF OwnersInv, MemoryTypeOK, EveryOwnerIsAlone, OwnedBytesAreKept, OnlyThrowsLeak

LEMMA NextKeepsOwners == OwnersInv /\ [MemoryNext]_memory_vars => OwnersInv'
<1>. SUFFICES ASSUME OwnersInv, [MemoryNext]_memory_vars  PROVE OwnersInv'
  OBVIOUS
<1>1. ASSUME NEW t \in Name, t \notin Live  PROVE Released(t) = heap
  BY <1>1 DEF Released
<1>2. ASSUME NEW t \in Name, Default(t)  PROVE OwnersInv'
  <2>1. nullptr \in Address
    BY DEF Address
  <2>. QED  BY <1>1, <1>2, <2>1, HoldsKeepsOwners DEF Default
<1>3. ASSUME NEW t \in Name, Serialize(t)  PROVE OwnersInv'
  <2>1. PICK b \in Block \ DOMAIN heap, bytes \in Bytes :
          heap' = With(heap, b, bytes) /\ Holds(t, b, TRUE, bytes)
    BY <1>3 DEF Serialize
  <2>2. b \in Address
    BY DEF Address
  <2>. QED  BY <1>1, <1>3, <2>1, <2>2, HoldsKeepsOwners DEF Serialize
<1>4. ASSUME NEW t \in Name, Wrap(t)  PROVE OwnersInv'
  <2>1. PICK a \in Buffer \cup DOMAIN heap : Holds(t, a, FALSE, BytesAt(a))
    BY <1>4 DEF Wrap
  <2>2. a \in Address
    BY DEF Address, OwnersInv, MemoryTypeOK
  <2>. QED  BY <1>1, <1>4, <2>1, <2>2, HoldsKeepsOwners DEF Wrap
<1>5. ASSUME NEW t \in Name, Destruct(t)  PROVE OwnersInv'
  BY <1>5, DestructKeepsOwners
<1>6. ASSUME NEW t \in Name, NEW u \in Name, Copy(t, u)  PROVE OwnersInv'
  BY <1>1, <1>6, TakeCopyKeepsOwners DEF Copy
<1>7. ASSUME NEW t \in Name, NEW u \in Name, Assign(t, u)  PROVE OwnersInv'
  BY <1>7, TakeCopyKeepsOwners DEF Assign, BeforeAssign, Released
<1>8. CASE SerializeThrows
  BY <1>8, ThrowKeepsOwners
<1>9. ASSUME NEW x \in Buffer, Overwrite(x)  PROVE OwnersInv'
  BY <1>9, OverwriteKeepsOwners
<1>10. CASE UNCHANGED memory_vars
  BY <1>10 DEF memory_vars, OwnersInv, MemoryTypeOK, EveryOwnerIsAlone, OwnedBytesAreKept, OnlyThrowsLeak,
               Orphans, Live, Owns, BytesAt
<1>. QED  BY <1>2, <1>3, <1>4, <1>5, <1>6, <1>7, <1>8, <1>9, <1>10 DEF MemoryNext

LEMMA OwnersInvHolds == MemorySpec => []OwnersInv
BY InitHasOwners, NextKeepsOwners, PTL DEF MemorySpec

(* A block that a Tuple says it owns is live and nobody else's, so no      *)
(* block is freed twice or used after it was freed through its owner.      *)
THEOREM OwnersAreAlone == MemorySpec => []EveryOwnerIsAlone
<1>1. OwnersInv => EveryOwnerIsAlone
  BY DEF OwnersInv
<1>. QED  BY <1>1, OwnersInvHolds, PTL

(* No copy, assignment, destruction or reuse of an address touches the     *)
(* bytes of a Tuple that owns them.                                        *)
THEOREM OwnersKeepTheirBytes == MemorySpec => []OwnedBytesAreKept
<1>1. OwnersInv => OwnedBytesAreKept
  BY DEF OwnersInv
<1>. QED  BY <1>1, OwnersInvHolds, PTL

(* The blocks without an owner are as many as constructors that threw.     *)
THEOREM LeaksAreThrows == MemorySpec => []OnlyThrowsLeak
<1>1. OwnersInv => OnlyThrowsLeak
  BY DEF OwnersInv
<1>. QED  BY <1>1, OwnersInvHolds, PTL
=============================================================================
