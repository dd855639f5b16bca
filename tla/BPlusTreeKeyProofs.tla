------------------------ MODULE BPlusTreeKeyProofs ------------------------
(***************************************************************************)
(* What the tree of BPlusTree keeps of its keys, when callers insert a key *)
(* once: a search finds what was inserted, all leaves are equally deep,    *)
(* they are chained in the order of their keys, and an insert answers what *)
(* it did.                                                                 *)
(*                                                                         *)
(* The inductive invariant KeyInv gives every page a height and the set of *)
(* keys that are searched for through it.  A node that has been split is   *)
(* in the tree before its parent has an entry for it, and its children     *)
(* before they name it as their parent: what is still to arrive is in the  *)
(* statements left to do (Promised, Unadopted), so that KeyInv holds       *)
(* between any two calls on the pool.  There is one lemma per action, on   *)
(* top of the invariant IInv of BPlusTreeProofs.  From the heights follow  *)
(* the pages a call has pinned: LimitInv bounds what is left to do.        *)
(***************************************************************************)
EXTENDS BPlusTreeProofs

-----------------------------------------------------------------------------
(* The keys of the children of a node.                                     *)

(* The keys X of an internal node are shared out among its children: the   *)
(* first child has those below all separators, every other child those     *)
(* from its separator up to the next.  R tells the keys of each child.     *)
Slots(first, S, X, R) ==
  /\ \A x \in Int : x \in R[first] <=> x \in X /\ \A e \in S : x < e.key
  /\ \A e \in S : e.key \in X
  /\ \A e \in S : \A x \in Int :
       x \in R[e.value] <=> x \in X /\ e.key <= x /\ \A f \in S : f.key <= e.key \/ x < f.key

ChildrenOf(first, S) == {first} \cup {e.value : e \in S}

(* R2 is R after the keys of p from m on have gone to a new page.          *)
CutAt(R, R2, p, m, new) ==
  /\ \A x \in Int : x \in R2[p] <=> x \in R[p] /\ x < m
  /\ \A x \in Int : x \in R2[new] <=> x \in R[p] /\ m <= x

(* A child is split and a separator is added for its new half.             *)
LEMMA SlotsOfSplit ==
  ASSUME NEW first, NEW S, NEW X, NEW R, Slots(first, S, X, R),
         \A e \in S : e.key \in Int,
         NEW p \in ChildrenOf(first, S), NEW m \in Int, NEW low \in Int,
         low \in R[p], low < m, m \in R[p],
         \A c, d \in ChildrenOf(first, S) : c # d => R[c] \cap R[d] = {},
         NEW new, new \notin ChildrenOf(first, S),
         NEW R2, CutAt(R, R2, p, m, new),
         \A c \in ChildrenOf(first, S) \ {p} : R2[c] = R[c]
  PROVE  Slots(first, S \cup {Entry(m, new)}, X, R2)
<1> DEFINE E == Entry(m, new)
           T == S \cup {E}
<1>1. E.key = m /\ E.value = new
  BY DEF Entry
<1>2. m \in X
  <2>1. CASE p = first
    BY <2>1 DEF Slots
  <2>2. CASE \E e \in S : e.value = p
    BY <2>2 DEF Slots
  <2> QED BY <2>1, <2>2 DEF ChildrenOf
<1>3. \A e \in T : e.key \in X /\ e.key \in Int
  BY <1>1, <1>2 DEF Slots
<1>4. ASSUME NEW x \in Int
      PROVE  x \in R2[first] <=> x \in X /\ \A e \in T : x < e.key
  <2>1. x \in R[first] <=> x \in X /\ \A e \in S : x < e.key
    BY DEF Slots
  <2>2. (\A e \in T : x < e.key) <=> (\A e \in S : x < e.key) /\ x < m
    BY <1>1
  <2>3. CASE p = first
    BY <2>1, <2>2, <2>3 DEF CutAt
  <2>4. CASE p # first
    <3>1. PICK e \in S : e.value = p
      BY <2>4 DEF ChildrenOf
    <3>2. e.key <= low
      BY <3>1 DEF Slots
    <3>3. x \in R[first] => x < m
      BY <2>1, <3>1, <3>2, <1>3
    <3>4. R2[first] = R[first]
      BY <2>4 DEF ChildrenOf
    <3> QED BY <2>1, <2>2, <3>3, <3>4
  <2> QED BY <2>3, <2>4
<1>5. ASSUME NEW e \in S, NEW x \in Int
      PROVE  x \in R2[e.value] <=> x \in X /\ e.key <= x /\ \A f \in T : f.key <= e.key \/ x < f.key
  <2>1. x \in R[e.value] <=> x \in X /\ e.key <= x /\ \A f \in S : f.key <= e.key \/ x < f.key
    BY DEF Slots
  <2>2. (\A f \in T : f.key <= e.key \/ x < f.key) <=>
          (\A f \in S : f.key <= e.key \/ x < f.key) /\ (m <= e.key \/ x < m)
    BY <1>1
  <2>3. m \in R[e.value] <=> m \in X /\ e.key <= m /\ \A f \in S : f.key <= e.key \/ m < f.key
    BY DEF Slots
  <2>4. CASE e.value = p
    <3>1. e.key <= low
      BY <2>4 DEF Slots
    <3>2. ~(m <= e.key)
      BY <3>1, <1>3
    <3>3. x \in R2[p] <=> x \in R[p] /\ x < m
      BY DEF CutAt
    <3> QED BY <2>1, <2>2, <2>4, <3>2, <3>3
  <2>5. CASE e.value # p
    <3>1. m \notin R[e.value] /\ R2[e.value] = R[e.value]
      BY <2>5 DEF ChildrenOf
    <3>2. x \in R[e.value] => m <= e.key \/ x < m
      <4> SUFFICES ASSUME x \in R[e.value], e.key < m, m <= x
                   PROVE  FALSE
        BY <1>3
      <4>1. \A f \in S : f.key <= e.key \/ m < f.key
        BY <2>1, <1>3
      <4> QED BY <4>1, <2>3, <3>1, <1>2, <1>3
    <3> QED BY <2>1, <2>2, <3>1, <3>2
  <2> QED BY <2>4, <2>5
<1>6. ASSUME NEW x \in Int
      PROVE  x \in R2[new] <=> x \in X /\ m <= x /\ \A f \in T : f.key <= m \/ x < f.key
  <2>1. x \in R2[new] <=> x \in R[p] /\ m <= x
    BY DEF CutAt
  <2>2. (\A f \in T : f.key <= m \/ x < f.key) <=> (\A f \in S : f.key <= m \/ x < f.key)
    BY <1>1
  <2>3. CASE p = first
    <3>1. \A f \in S : m < f.key
      BY <2>3 DEF Slots
    <3>2. x \in R[p] <=> x \in X /\ \A f \in S : x < f.key
      BY <2>3 DEF Slots
    <3> QED BY <2>1, <2>2, <3>1, <3>2, <1>3
  <2>4. CASE p # first
    <3>1. PICK e \in S : e.value = p
      BY <2>4 DEF ChildrenOf
    <3>2. x \in R[p] <=> x \in X /\ e.key <= x /\ \A f \in S : f.key <= e.key \/ x < f.key
      BY <3>1 DEF Slots
    <3>3. e.key <= low /\ \A f \in S : f.key <= e.key \/ m < f.key
      BY <3>1 DEF Slots
    <3> QED BY <2>1, <2>2, <3>2, <3>3, <1>3
  <2> QED BY <2>3, <2>4
<1> QED BY <1>1, <1>3, <1>4, <1>5, <1>6 DEF Slots

Around(S, d, A, B) == A = {e \in S : e.key < d.key} /\ B = {e \in S : d.key < e.key}

CutInTwo(X, k, Y, Z) ==
  /\ \A x \in Int : x \in Y <=> x \in X /\ x < k
  /\ \A x \in Int : x \in Z <=> x \in X /\ k <= x

(* The children from a separator on go to a new node.                      *)
LEMMA SlotsOfHalves ==
  ASSUME NEW first, NEW S, NEW X, NEW R, Slots(first, S, X, R),
         \A e \in S : e.key \in Int, NEW d \in S,
         NEW A, NEW B, Around(S, d, A, B), NEW Y, NEW Z, CutInTwo(X, d.key, Y, Z)
  PROVE  Slots(first, A, Y, R) /\ Slots(d.value, B, Z, R)
<1> USE DEF Around, CutInTwo
<1>1. Slots(first, A, Y, R)
  <2>1. ASSUME NEW x \in Int
        PROVE  x \in R[first] <=> x \in Y /\ \A e \in A : x < e.key
    BY DEF Slots
  <2>2. \A e \in A : e.key \in Y
    BY DEF Slots
  <2>3. ASSUME NEW e \in A, NEW x \in Int
        PROVE  x \in R[e.value] <=> x \in Y /\ e.key <= x /\ \A f \in A : f.key <= e.key \/ x < f.key
    <3>1. x \in R[e.value] <=> x \in X /\ e.key <= x /\ \A f \in S : f.key <= e.key \/ x < f.key
      BY DEF Slots
    <3>2. x \in R[e.value] => x < d.key
      BY <3>1
    <3>3. x < d.key /\ (\A f \in A : f.key <= e.key \/ x < f.key) =>
            \A f \in S : f.key <= e.key \/ x < f.key
      OBVIOUS
    <3> QED BY <3>1, <3>2, <3>3
  <2> QED BY <2>1, <2>2, <2>3 DEF Slots
<1>2. Slots(d.value, B, Z, R)
  <2>1. ASSUME NEW x \in Int
        PROVE  x \in R[d.value] <=> x \in Z /\ \A e \in B : x < e.key
    <3>1. x \in R[d.value] <=> x \in X /\ d.key <= x /\ \A f \in S : f.key <= d.key \/ x < f.key
      BY DEF Slots
    <3> QED BY <3>1
  <2>2. \A e \in B : e.key \in Z
    BY DEF Slots
  <2>3. ASSUME NEW e \in B, NEW x \in Int
        PROVE  x \in R[e.value] <=> x \in Z /\ e.key <= x /\ \A f \in B : f.key <= e.key \/ x < f.key
    <3>1. x \in R[e.value] <=> x \in X /\ e.key <= x /\ \A f \in S : f.key <= e.key \/ x < f.key
      BY DEF Slots
    <3>2. e.key <= x => d.key <= x
      OBVIOUS
    <3>3. (\A f \in B : f.key <= e.key \/ x < f.key) =>
            \A f \in S : f.key <= e.key \/ x < f.key
      OBVIOUS
    <3> QED BY <3>1, <3>2, <3>3
  <2> QED BY <2>1, <2>2, <2>3 DEF Slots
<1> QED BY <1>1, <1>2

-----------------------------------------------------------------------------
(* The invariant.                                                          *)

WorkOf(q) == {q[i] : i \in 1 .. Len(q)}

Work == WorkOf(stack)

Behind == {stack[i] : i \in 2 .. Len(stack)}

(* An entry for a node split off, on its way into the internal node the    *)
(* parent pointer of the old node names.                                   *)
IsPromise(s) == s.do \in {"InsertIntoParent", "SplitInternal"}

Owner(s) == IF s.do = "SplitInternal" THEN s.page ELSE contents[s.page].parent

Promised(p) == {Entry(s.key, s.new) : s \in {t \in Work : IsPromise(t) /\ Owner(t) = p}}

Written(p) == {contents[p].array[i] : i \in 2 .. Len(contents[p].array)}

Seps(p) == Written(p) \cup Promised(p)

First(p) == contents[p].array[1].value

Kids(p) == ChildrenOf(First(p), Seps(p))

(* lev is the height of a node over the leaves, R[p] the keys that are     *)
(* searched for through page p.                                            *)
RangesInv(lev, R) ==
  /\ lev \in [PageId -> Nat] /\ R \in [PageId -> SUBSET Int]
  /\ \A p \in Leaves : lev[p] = 0
  /\ \A p \in Internals : lev[p] > 0
  /\ \A p \in Nodes : R[p] # {}
  /\ \A p, q \in Nodes : lev[p] = lev[q] /\ p # q => R[p] \cap R[q] = {}
  /\ \A p \in Internals :
       /\ Slots(First(p), Seps(p), R[p], R)
       /\ \A e \in Seps(p) : e.key \in Key
       /\ \A c \in Kids(p) : c \in Nodes /\ lev[c] + 1 = lev[p]

IsRising(a, first) == \A i, j \in first .. Len(a) : i < j => a[i].key < a[j].key

OrderInv(R) ==
  /\ \A p \in Leaves :
       /\ IsRising(contents[p].array, 1)
       /\ \A i \in 1 .. Len(contents[p].array) : contents[p].array[i].key \in R[p]
  /\ \A p \in Internals :
       /\ IsRising(contents[p].array, 2)
       /\ \A e \in Promised(p), f \in Written(p) : e.key # f.key

SplitOfRoot(s) == s.do = "InsertIntoParent" /\ s.page = root_page_id

RootInv(lev, R) ==
  HasTree =>
    /\ lev[root_page_id] < num_pages
    /\ \A p \in Nodes : lev[p] <= lev[root_page_id]
    /\ \A x \in Int : x \in R[root_page_id] <=> \A s \in Work : SplitOfRoot(s) => x < s.key
    /\ \A s \in Work : SplitOfRoot(s) => \A x \in Int : x \in R[s.new] <=> s.key <= x
    /\ \A s \in Work : s.do = "InsertIntoParent" => lev[s.new] = lev[s.page]

(* A node whose parent is still to be told of it.                          *)
Unadopted(p) ==
  \E s \in Work : s.do = "AdoptChildren" /\
    \E j \in s.i .. Len(contents[s.page].array) : contents[s.page].array[j].value = p

FamilyInv ==
  \A p \in Nodes \ {root_page_id} :
    \/ Unadopted(p)
    \/ \E s \in Work : SplitOfRoot(s) /\ s.new = p
    \/ \E t \in Internals : contents[p].parent = t /\ p \in Kids(t)

IsInterval(X) == \A x, y \in X : \A z \in Int : x <= z /\ z <= y => z \in X

Joined(X, Y) ==
  \A x \in X, y \in Y : x < y /\ \A z \in Int : x <= z /\ z <= y => z \in X \cup Y

ChainInv(R) ==
  /\ \A p \in Leaves : IsInterval(R[p])
  /\ \A p \in Leaves :
       \/ contents[p].next = NoPage /\ \A x \in R[p], y \in Int : x <= y => y \in R[p]
       \/ contents[p].next \in Leaves /\ Joined(R[p], R[contents[p].next])

(* Below all keys there is nothing to tell apart.                          *)
BottomInv(R) ==
  \A p \in Nodes : \A x \in R[p], y \in Int : (\A k \in Key : x < k /\ y < k) => y \in R[p]

TreeInv(lev, R) ==
  /\ RangesInv(lev, R)
  /\ OrderInv(R)
  /\ RootInv(lev, R)
  /\ FamilyInv
  /\ ChainInv(R)
  /\ BottomInv(R)

(* What an answer says of the entries.                                     *)
IsTrue(a) ==
  \A e \in LeafEntry :
    /\ a = Inserted(e.key, e.value, TRUE) /\ HasTree => e \in Entries
    /\ a = Inserted(e.key, e.value, FALSE) => e \notin Entries
    /\ a = Found(e) => e \in Entries
    /\ a = Missing(e.key) => ~IsStored(e.key)

WillInsert(s) ==
  s.do \in {"StartNewTree", "SplitLeaf"} \/ (s.do = "Descend" /\ s.op = "Insert")

IsSearch(s) == s.do \in {"Descend", "StartNewTree", "SplitLeaf"}

CallOK(R, s) ==
  /\ IsSearch(s) => reply = NoReply
  /\ s.do \in {"Descend", "SplitLeaf"} => s.key \in R[s.page]
  /\ WillInsert(s) => ~IsStored(s.key)
  /\ s.do = "Return" => IsTrue(s.answer)

CallInv(R) == \A s \in Work : CallOK(R, s)

KeyInv == \E lev, R : TreeInv(lev, R) /\ CallInv(R)

LEMMA PageIdSame == PageId' = PageId
BY DEF PageId, Pool!PageId

-----------------------------------------------------------------------------
LEMMA WorkThen ==
  ASSUME StackInv, stack # <<>>, NEW xs \in Seq(Statement), Then(xs)
  PROVE  /\ Work = {stack[1]} \cup Behind
         /\ Work' = WorkOf(xs) \cup Behind
         /\ Behind \subseteq Statement
<1>1. PICK q : q = stack
  OBVIOUS
<1>2. q \in Seq(Statement) /\ q # <<>>
  BY <1>1 DEF StackInv
<1>3. PICK r : r = stack' /\ r = xs \o Tail(q)
  BY <1>1 DEF Then
<1>4. /\ Len(r) = Len(xs) + Len(q) - 1
      /\ Len(q) \in Nat \ {0} /\ Len(xs) \in Nat
      /\ \A i \in 1 .. Len(xs) : r[i] = xs[i]
      /\ \A i \in Len(xs) + 1 .. Len(r) : r[i] = q[i - Len(xs) + 1]
  BY <1>2, <1>3, ThenProps
<1>5. /\ Work = {q[i] : i \in 1 .. Len(q)} /\ Behind = {q[i] : i \in 2 .. Len(q)}
      /\ Work' = {r[i] : i \in 1 .. Len(r)} /\ WorkOf(xs) = {xs[i] : i \in 1 .. Len(xs)}
  BY <1>1, <1>3 DEF Work, WorkOf, Behind
<1>6. Work = {q[1]} \cup Behind
  <2>1. 1 .. Len(q) = {1} \cup 2 .. Len(q)
    BY <1>4
  <2> QED BY <2>1, <1>5
<1>7. ASSUME NEW s \in Work'
      PROVE  s \in WorkOf(xs) \cup Behind
  <2>1. PICK i \in 1 .. Len(r) : s = r[i]
    BY <1>5, <1>7
  <2>2. CASE i <= Len(xs)
    <3>1. i \in 1 .. Len(xs)
      BY <2>2, <1>4
    <3> QED BY <3>1, <2>1, <1>4, <1>5
  <2>3. CASE ~(i <= Len(xs))
    <3>1. i \in Len(xs) + 1 .. Len(r) /\ i - Len(xs) + 1 \in 2 .. Len(q)
      BY <2>3, <1>4
    <3> QED BY <3>1, <2>1, <1>4, <1>5
  <2> QED BY <2>2, <2>3
<1>8. ASSUME NEW s \in WorkOf(xs)
      PROVE  s \in Work'
  <2>1. PICK i \in 1 .. Len(xs) : s = xs[i]
    BY <1>5
  <2>2. i \in 1 .. Len(r)
    BY <1>4
  <2> QED BY <2>1, <2>2, <1>4, <1>5
<1>9. ASSUME NEW s \in Behind
      PROVE  s \in Work'
  <2>1. PICK i \in 2 .. Len(q) : s = q[i]
    BY <1>5
  <2>2. /\ i + Len(xs) - 1 \in Len(xs) + 1 .. Len(r) /\ i + Len(xs) - 1 \in 1 .. Len(r)
        /\ (i + Len(xs) - 1) - Len(xs) + 1 = i
    BY <1>4
  <2> QED BY <2>1, <2>2, <1>4, <1>5
<1>10. Behind \subseteq Statement
  <2>1. \A i \in 2 .. Len(q) : i \in 1 .. Len(q)
    BY <1>4
  <2> QED BY <2>1, <1>2, <1>5, ElementOfSeq
<1> QED BY <1>1, <1>6, <1>7, <1>8, <1>9, <1>10

LEMMA SmallWork ==
  ASSUME NEW a, NEW b, NEW c, NEW d
  PROVE  /\ WorkOf(<<>>) = {} /\ WorkOf(<<a>>) = {a} /\ WorkOf(<<a, b>>) = {a, b}
         /\ WorkOf(<<a, b, c, d>>) = {a, b, c, d}
<1>1. WorkOf(<<>>) = {}
  BY DEF WorkOf
<1>2. WorkOf(<<a>>) = {a}
  BY DEF WorkOf
<1>3. WorkOf(<<a, b>>) = {a, b}
  <2>1. PICK q : q = <<a, b>>
    OBVIOUS
  <2>2. Len(q) = 2 /\ q[1] = a /\ q[2] = b /\ 1 .. 2 = {1, 2}
    BY <2>1
  <2>3. WorkOf(q) = {q[i] : i \in {1, 2}}
    BY <2>2 DEF WorkOf
  <2> QED BY <2>1, <2>2, <2>3
<1>4. WorkOf(<<a, b, c, d>>) = {a, b, c, d}
  <2>1. PICK q : q = <<a, b, c, d>>
    OBVIOUS
  <2>2. Len(q) = 4 /\ q[1] = a /\ q[2] = b /\ q[3] = c /\ q[4] = d /\ 1 .. 4 = {1, 2, 3, 4}
    BY <2>1
  <2>3. WorkOf(q) = {q[i] : i \in {1, 2, 3, 4}}
    BY <2>2 DEF WorkOf
  <2> QED BY <2>1, <2>2, <2>3
<1> QED BY <1>1, <1>2, <1>3, <1>4

(* Nothing of the tree changes.                                            *)
LEMMA TreeStays ==
  ASSUME NEW lev, NEW R, TreeInv(lev, R),
         contents' = contents, root_page_id' = root_page_id,
         num_pages \in Int, num_pages' \in Int, num_pages <= num_pages', PagesInv,
         \A p \in Internals : Promised(p)' = Promised(p),
         \A p : Unadopted(p) => Unadopted(p)',
         \A s : s.do = "InsertIntoParent" /\ s \in Work' => s \in Work,
         \A s \in Work : SplitOfRoot(s) => s \in Work'
  PROVE  TreeInv(lev, R)'
<1>1. /\ Leaves' = Leaves /\ Internals' = Internals /\ Nodes' = Nodes /\ HasTree' = HasTree
      /\ \A p : First(p)' = First(p) /\ Written(p)' = Written(p)
      /\ \A s : SplitOfRoot(s)' = SplitOfRoot(s)
  BY PageIdSame DEF Leaves, Internals, Nodes, HasTree, First, Written, SplitOfRoot
<1>2. \A p \in Internals : Seps(p)' = Seps(p) /\ Kids(p)' = Kids(p)
  BY <1>1 DEF Seps, Kids
<1>3. RangesInv(lev, R)'
  BY <1>1, <1>2, PageIdSame DEF TreeInv, RangesInv
<1>4. OrderInv(R)'
  BY <1>1 DEF TreeInv, OrderInv
<1>5. RootInv(lev, R)'
  <2> SUFFICES ASSUME HasTree
               PROVE  RootInv(lev, R)'
    BY <1>1 DEF RootInv
  <2>1. \A s : SplitOfRoot(s) => (s \in Work' <=> s \in Work)
    BY DEF SplitOfRoot
  <2>2. root_page_id \in PageId /\ lev[root_page_id] \in Nat
    BY NodeFacts DEF TreeInv, RangesInv, HasTree, PagesInv
  <2>3. lev[root_page_id] < num_pages'
    BY <2>2 DEF TreeInv, RootInv
  <2> QED BY <2>1, <2>3, <1>1 DEF TreeInv, RootInv
<1>6. FamilyInv'
  <2> SUFFICES ASSUME NEW p \in Nodes \ {root_page_id}
               PROVE  \/ Unadopted(p)'
                      \/ \E s \in Work' : SplitOfRoot(s) /\ s.new = p
                      \/ \E t \in Internals : contents[p].parent = t /\ p \in Kids(t)'
    BY <1>1 DEF FamilyInv
  <2> QED BY <1>2 DEF TreeInv, FamilyInv
<1>7. ChainInv(R)' /\ BottomInv(R)'
  BY <1>1 DEF TreeInv, ChainInv, BottomInv
<1> QED BY <1>3, <1>4, <1>5, <1>6, <1>7 DEF TreeInv

LEMMA SlotsInside ==
  ASSUME NEW first, NEW S, NEW X, NEW R, Slots(first, S, X, R),
         NEW c \in ChildrenOf(first, S), NEW x \in Int, x \in R[c]
  PROVE  x \in X
BY DEF Slots, ChildrenOf

LEMMA SlotsSame ==
  ASSUME NEW first, NEW S, NEW X, NEW R, Slots(first, S, X, R),
         NEW R2, \A c \in ChildrenOf(first, S) : R2[c] = R[c]
  PROVE  Slots(first, S, X, R2)
<1>1. R2[first] = R[first] /\ \A e \in S : R2[e.value] = R[e.value]
  BY DEF ChildrenOf
<1> QED BY <1>1 DEF Slots

(* A node is the child of one node.                                        *)
LEMMA OneParent ==
  ASSUME NEW lev, NEW R, RangesInv(lev, R), NEW p \in Internals, NEW q \in Internals,
         NEW c, c \in Kids(p), c \in Kids(q), Nodes \subseteq PageId
  PROVE  p = q
<1>1. c \in Nodes /\ lev[c] + 1 = lev[p] /\ lev[c] + 1 = lev[q] /\ p \in Nodes /\ q \in Nodes
  BY DEF RangesInv, Nodes
<1>2. PICK x \in Int : x \in R[c]
  BY <1>1 DEF RangesInv
<1>3. x \in R[p]
  BY <1>2, SlotsInside DEF RangesInv, Kids
<1>4. x \in R[q]
  BY <1>2, SlotsInside DEF RangesInv, Kids
<1> QED BY <1>1, <1>3, <1>4 DEF RangesInv

Cut(R, p, m, new) ==
  [R EXCEPT ![p] = {x \in R[p] : x < m}, ![new] = {x \in R[p] : m <= x}]

Beside(lev, p, new) == [lev EXCEPT ![new] = lev[p]]

LEMMA CutProps ==
  ASSUME NEW R \in [PageId -> SUBSET Int], NEW p \in PageId, NEW new \in PageId, p # new,
         NEW m \in Int, NEW R2, R2 = Cut(R, p, m, new),
         NEW lev \in [PageId -> Nat], NEW lev2, lev2 = Beside(lev, p, new)
  PROVE  /\ R2 \in [PageId -> SUBSET Int] /\ CutAt(R, R2, p, m, new)
         /\ \A c \in PageId : c # p /\ c # new => R2[c] = R[c]
         /\ lev2 \in [PageId -> Nat] /\ lev2[new] = lev[p]
         /\ \A c \in PageId : c # new => lev2[c] = lev[c]
<1>1. PICK A : A = {x \in R[p] : x < m}
  OBVIOUS
<1>2. PICK B : B = {x \in R[p] : m <= x}
  OBVIOUS
<1>3. A \in SUBSET Int /\ B \in SUBSET Int
  BY <1>1, <1>2
<1>4. R2 = [R EXCEPT ![p] = A, ![new] = B]
  BY <1>1, <1>2 DEF Cut
<1>5. R2 \in [PageId -> SUBSET Int]
  BY <1>3, <1>4
<1>6. R2[p] = A /\ R2[new] = B /\ \A c \in PageId : c # p /\ c # new => R2[c] = R[c]
  BY <1>4
<1>7. CutAt(R, R2, p, m, new)
  BY <1>1, <1>2, <1>6 DEF CutAt
<1>8. lev2 = [lev EXCEPT ![new] = lev[p]] /\ lev[p] \in Nat
  BY DEF Beside
<1>9. lev2 \in [PageId -> Nat] /\ lev2[new] = lev[p] /\ \A c \in PageId : c # new => lev2[c] = lev[c]
  BY <1>8
<1> QED BY <1>5, <1>6, <1>7, <1>9

(* A node p splits at the key m, and the new node is on its way into its   *)
(* parent.                                                                 *)
SplitsOff(p, m, new) ==
  /\ Leaves' = Leaves \cup (IF p \in Leaves THEN {new} ELSE {})
  /\ Internals' = Internals \cup (IF p \in Internals THEN {new} ELSE {})
  /\ Nodes' = Nodes \cup {new}
  /\ \A t \in Internals \ {p} :
       /\ First(t)' = First(t)
       /\ Seps(t)' = IF p \in Kids(t) THEN Seps(t) \cup {Entry(m, new)} ELSE Seps(t)

(* The children of an internal page that splits are those of its halves.   *)
HalvesKids(p, new, R, R2) ==
  /\ \A t \in {p, new} : /\ Slots(First(t)', Seps(t)', R2[t], R)
                         /\ Kids(t)' \subseteq Kids(p)
                         /\ \A e \in Seps(t)' : e.key \in Key
  /\ Kids(p) \subseteq Kids(p)' \cup Kids(new)'

LEMMA SplitKeepsRanges ==
  ASSUME NEW lev, NEW R, RangesInv(lev, R), Nodes \subseteq PageId, Leaves \cap Internals = {},
         NEW p \in Nodes, NEW new \in PageId, new \notin Nodes,
         NEW m \in Key, NEW low \in R[p], m \in R[p], low < m,
         SplitsOff(p, m, new),
         NEW lev2, lev2 = Beside(lev, p, new), NEW R2, R2 = Cut(R, p, m, new),
         p \in Internals => HalvesKids(p, new, R, R2)
  PROVE  RangesInv(lev2, R2)'
<1>1. /\ p \in PageId /\ p # new /\ m \in Int /\ low \in Int
      /\ lev \in [PageId -> Nat] /\ R \in [PageId -> SUBSET Int]
  BY Sizes DEF RangesInv
<1>2. /\ R2 \in [PageId -> SUBSET Int] /\ CutAt(R, R2, p, m, new)
      /\ \A c \in PageId : c # p /\ c # new => R2[c] = R[c]
      /\ lev2 \in [PageId -> Nat] /\ lev2[new] = lev[p]
      /\ \A c \in PageId : c # new => lev2[c] = lev[c]
  BY <1>1, CutProps
<1> DEFINE o(q) == IF q = new THEN p ELSE q
<1>3. ASSUME NEW q \in Nodes'
      PROVE  /\ o(q) \in Nodes /\ lev2[q] = lev[o(q)] /\ R2[q] # {}
             /\ \A x \in Int : x \in R2[q] => x \in R[o(q)]
  <2>1. CASE q = new
    BY <2>1, <1>1, <1>2 DEF CutAt
  <2>2. CASE q = p
    BY <2>2, <1>1, <1>2 DEF CutAt
  <2>3. CASE q # new /\ q # p
    BY <2>3, <1>2 DEF SplitsOff, RangesInv
  <2> QED BY <2>1, <2>2, <2>3
<1>4. \A q \in Leaves' : lev2[q] = 0
  BY <1>1, <1>2 DEF RangesInv, SplitsOff, Nodes
<1>5. \A q \in Internals' : lev2[q] > 0
  BY <1>1, <1>2 DEF RangesInv, SplitsOff, Nodes
<1>6. ASSUME NEW q \in Nodes', NEW r \in Nodes', lev2[q] = lev2[r], q # r
      PROVE  R2[q] \cap R2[r] = {}
  <2> SUFFICES ASSUME NEW x \in Int, x \in R2[q], x \in R2[r]
               PROVE  FALSE
    BY <1>2, <1>3, <1>1 DEF SplitsOff
  <2>1. CASE o(q) # o(r)
    BY <2>1, <1>3, <1>6 DEF RangesInv
  <2>2. CASE o(q) = o(r)
    <3>1. (q = p /\ r = new) \/ (q = new /\ r = p)
      BY <2>2, <1>6
    <3> QED BY <3>1, <1>1, <1>2 DEF CutAt
  <2> QED BY <2>1, <2>2
<1>7. ASSUME NEW t \in Internals'
      PROVE  /\ Slots(First(t)', Seps(t)', R2[t], R2)
             /\ \A e \in Seps(t)' : e.key \in Key
             /\ \A c \in Kids(t)' : c \in Nodes' /\ lev2[c] + 1 = lev2[t]
  <2>0. Kids(t)' = ChildrenOf(First(t)', Seps(t)')
    BY DEF Kids
  <2>1. CASE t \in Internals /\ t # p
    <3>1. /\ First(t)' = First(t) /\ t \in Nodes /\ t # new
          /\ Slots(First(t), Seps(t), R[t], R)
          /\ \A e \in Seps(t) : e.key \in Key
          /\ \A c \in Kids(t) : c \in Nodes /\ lev[c] + 1 = lev[t]
          /\ R2[t] = R[t] /\ lev2[t] = lev[t]
      BY <2>1, <1>2 DEF SplitsOff, RangesInv, Nodes
    <3>2. Kids(t) = ChildrenOf(First(t), Seps(t)) /\ new \notin Kids(t) /\ Kids(t) \subseteq PageId
      BY <3>1 DEF Kids
    <3>3. CASE p \in Kids(t)
      <4>1. Seps(t)' = Seps(t) \cup {Entry(m, new)}
        BY <2>1, <3>3 DEF SplitsOff
      <4>2. \A c, d \in Kids(t) : c # d => R[c] \cap R[d] = {}
        <5>1. ASSUME NEW c \in Kids(t), NEW d \in Kids(t), c # d
              PROVE  R[c] \cap R[d] = {}
          <6>1. lev[c] = lev[d] /\ c \in Nodes /\ d \in Nodes
            <7>1. c \in Nodes /\ d \in Nodes /\ lev[c] + 1 = lev[t] /\ lev[d] + 1 = lev[t]
              BY <3>1
            <7>2. lev[c] \in Nat /\ lev[d] \in Nat
              BY <7>1, <1>1
            <7> QED BY <7>1, <7>2
          <6> QED BY <6>1, <5>1 DEF RangesInv
        <5> QED BY <5>1
      <4>3. \A e \in Seps(t) : e.key \in Int
        BY <3>1, Sizes
      <4>4. \A c \in Kids(t) \ {p} : R2[c] = R[c]
        BY <1>2, <3>2
      <4>5. Slots(First(t), Seps(t) \cup {Entry(m, new)}, R[t], R2)
        BY <1>1, <1>2, <3>1, <3>2, <3>3, <4>2, <4>3, <4>4, SlotsOfSplit
      <4>6. \A e \in Seps(t)' : e.key \in Key
        BY <3>1, <4>1 DEF Entry
      <4>7. \A c \in Kids(t)' : c = new \/ c \in Kids(t)
        BY <2>0, <3>1, <3>2, <4>1 DEF ChildrenOf, Entry
      <4>8. \A c \in Kids(t)' : c \in Nodes' /\ lev2[c] + 1 = lev2[t]
        BY <4>7, <3>1, <3>2, <3>3, <1>2 DEF SplitsOff
      <4> QED BY <4>1, <4>5, <4>6, <4>8, <3>1
    <3>4. CASE p \notin Kids(t)
      <4>1. Seps(t)' = Seps(t) /\ Kids(t)' = Kids(t)
        BY <2>0, <2>1, <3>1, <3>2, <3>4 DEF SplitsOff
      <4>2. \A c \in Kids(t) : R2[c] = R[c] /\ lev2[c] = lev[c]
        BY <1>2, <3>2, <3>4
      <4>3. Slots(First(t), Seps(t), R[t], R2)
        BY <4>2, <3>1, <3>2, SlotsSame
      <4> QED BY <4>1, <4>2, <4>3, <3>1 DEF SplitsOff
    <3> QED BY <3>3, <3>4
  <2>2. CASE t \in {p, new}
    <3>1. p \in Internals
      BY <2>2, <1>1 DEF SplitsOff, Nodes
    <3>2. /\ Slots(First(t)', Seps(t)', R2[t], R) /\ Kids(t)' \subseteq Kids(p)
          /\ \A e \in Seps(t)' : e.key \in Key
      BY <2>2, <3>1 DEF HalvesKids
    <3>3. ASSUME NEW c \in Kids(p)
          PROVE  c \in Nodes /\ lev[c] + 1 = lev[p] /\ c # p /\ c # new
      <4>1. c \in Nodes /\ lev[c] + 1 = lev[p] /\ lev[p] \in Nat
        BY <3>1, <1>1 DEF RangesInv
      <4> QED BY <4>1
    <3>4. \A c \in Kids(t)' : R2[c] = R[c] /\ lev2[c] = lev[c]
      BY <3>2, <3>3, <1>2
    <3>5. Slots(First(t)', Seps(t)', R2[t], R2)
      BY <2>0, <3>2, <3>4, SlotsSame
    <3>6. lev2[t] = lev[p]
      BY <2>2, <1>1, <1>2
    <3> QED BY <3>2, <3>3, <3>4, <3>5, <3>6 DEF SplitsOff
  <2> QED BY <2>1, <2>2 DEF SplitsOff
<1> QED BY <1>2, <1>3, <1>4, <1>5, <1>6, <1>7, PageIdSame DEF RangesInv

(* The rest of the tree when a node splits: nothing else was under way.    *)
LEMMA SplitKeepsRoot ==
  ASSUME NEW lev, NEW R, RangesInv(lev, R), RootInv(lev, R), HasTree, root_page_id \in Nodes,
         Nodes \subseteq PageId, root_page_id' = root_page_id,
         num_pages \in Nat, num_pages' \in Nat, num_pages <= num_pages',
         NEW p \in Nodes, NEW new \in PageId, new \notin Nodes, NEW m \in Key, Nodes' = Nodes \cup {new},
         NEW lev2, lev2 = Beside(lev, p, new), NEW R2, R2 = Cut(R, p, m, new),
         \A s \in Work : s.do # "InsertIntoParent",
         NEW b, b = InsertIntoParent(p, m, new),
         b \in Work', \A s \in Work' : s.do = "InsertIntoParent" => s = b
  PROVE  RootInv(lev2, R2)'
<1>1. /\ p \in PageId /\ p # new /\ m \in Int /\ root_page_id \in PageId /\ root_page_id # new
      /\ lev \in [PageId -> Nat] /\ R \in [PageId -> SUBSET Int]
  BY Sizes DEF RangesInv
<1>2. /\ R2 \in [PageId -> SUBSET Int] /\ CutAt(R, R2, p, m, new)
      /\ \A c \in PageId : c # p /\ c # new => R2[c] = R[c]
      /\ lev2 \in [PageId -> Nat] /\ lev2[new] = lev[p]
      /\ \A c \in PageId : c # new => lev2[c] = lev[c]
  BY <1>1, CutProps
<1>3. /\ lev[root_page_id] < num_pages
      /\ \A q \in Nodes : lev[q] <= lev[root_page_id]
      /\ \A x \in Int : x \in R[root_page_id]
  BY DEF RootInv, SplitOfRoot
<1>4. b.do = "InsertIntoParent" /\ b.page = p /\ b.new = new /\ b.key = m
  BY DEF InsertIntoParent
<1>5. /\ \A s \in Work' : SplitOfRoot(s)' <=> s = b /\ p = root_page_id
      /\ HasTree' = HasTree
  BY <1>4 DEF SplitOfRoot, HasTree
<1>6. lev2[root_page_id] < num_pages' /\ \A q \in Nodes' : lev2[q] <= lev2[root_page_id]
  <2>1. lev2[root_page_id] = lev[root_page_id] /\ lev[root_page_id] \in Nat
    BY <1>1, <1>2
  <2>2. \A q \in Nodes' : lev2[q] <= lev[root_page_id]
    BY <1>1, <1>2, <1>3
  <2> QED BY <2>1, <2>2, <1>3
<1>7. \A x \in Int : x \in R2[root_page_id] <=> \A s \in Work' : SplitOfRoot(s)' => x < s.key
  <2>1. CASE p = root_page_id
    BY <2>1, <1>2, <1>3, <1>4, <1>5 DEF CutAt
  <2>2. CASE p # root_page_id
    BY <2>2, <1>1, <1>2, <1>3, <1>5
  <2> QED BY <2>1, <2>2
<1>8. \A s \in Work' : SplitOfRoot(s)' => \A x \in Int : x \in R2[s.new] <=> s.key <= x
  BY <1>2, <1>3, <1>4, <1>5 DEF CutAt
<1>9. \A s \in Work' : s.do = "InsertIntoParent" => lev2[s.new] = lev2[s.page]
  BY <1>1, <1>2, <1>4
<1> QED BY <1>6, <1>7, <1>8, <1>9 DEF RootInv

LEMMA SplitKeepsFamily ==
  ASSUME NEW lev, NEW R, RangesInv(lev, R), FamilyInv, Nodes \subseteq PageId,
         root_page_id' = root_page_id,
         NEW p \in Nodes, NEW new \in PageId, new \notin Nodes, NEW m \in Key, SplitsOff(p, m, new),
         \A s \in Work : s.do \notin {"InsertIntoParent", "AdoptChildren"},
         InsertIntoParent(p, m, new) \in Work',
         \A c \in Nodes : contents'[c].parent = contents[c].parent,
         contents'[new].parent = contents[p].parent,
         p \in Internals => /\ Kids(p) \subseteq Kids(p)' \cup Kids(new)'
                            /\ \A c \in Kids(new)' : Unadopted(c)'
  PROVE  FamilyInv'
<1>1. ASSUME NEW c \in Nodes, c # root_page_id
      PROVE  \E t \in Internals : contents[c].parent = t /\ c \in Kids(t)
  BY <1>1 DEF FamilyInv, Unadopted, SplitOfRoot
<1>2. ASSUME NEW t \in Internals, t # p
      PROVE  Kids(t) \subseteq Kids(t)' /\ (p \in Kids(t) => new \in Kids(t)')
  <2>1. /\ First(t)' = First(t)
        /\ Seps(t)' = IF p \in Kids(t) THEN Seps(t) \cup {Entry(m, new)} ELSE Seps(t)
    BY <1>2 DEF SplitsOff
  <2>2. Kids(t)' = ChildrenOf(First(t)', Seps(t)') /\ Kids(t) = ChildrenOf(First(t), Seps(t))
    BY DEF Kids
  <2>3. CASE p \in Kids(t)
    BY <2>1, <2>2, <2>3 DEF ChildrenOf, Entry
  <2>4. CASE p \notin Kids(t)
    BY <2>1, <2>2, <2>4 DEF ChildrenOf
  <2> QED BY <2>3, <2>4
<1>3. Internals \subseteq Internals' /\ Nodes' = Nodes \cup {new}
  BY DEF SplitsOff
<1>4. ASSUME NEW c \in Nodes, c # root_page_id
      PROVE  \/ Unadopted(c)'
             \/ \E t \in Internals' : contents'[c].parent = t /\ c \in Kids(t)'
  <2>1. PICK t \in Internals : contents[c].parent = t /\ c \in Kids(t)
    BY <1>1, <1>4
  <2>2. contents'[c].parent = t
    BY <2>1
  <2>3. CASE t # p
    BY <2>1, <2>2, <2>3, <1>2, <1>3
  <2>4. CASE t = p
    BY <2>1, <2>2, <2>4, <1>3
  <2> QED BY <2>3, <2>4
<1>5. \/ \E s \in Work' : SplitOfRoot(s)' /\ s.new = new
      \/ \E t \in Internals' : contents'[new].parent = t /\ new \in Kids(t)'
  <2>1. CASE p = root_page_id
    <3>1. PICK b \in Work' : b = InsertIntoParent(p, m, new)
      OBVIOUS
    <3>2. SplitOfRoot(b)' /\ b.new = new
      BY <3>1, <2>1 DEF SplitOfRoot, InsertIntoParent
    <3> QED BY <3>1, <3>2
  <2>2. CASE p # root_page_id
    <3>1. PICK t \in Internals : contents[p].parent = t /\ p \in Kids(t)
      BY <1>1, <2>2
    <3>2. t # p
      <4>1. lev[p] + 1 = lev[t] /\ lev[p] \in Nat
        BY <3>1 DEF RangesInv
      <4> QED BY <4>1
    <3> QED BY <3>1, <3>2, <1>2, <1>3
  <2> QED BY <2>1, <2>2
<1> QED BY <1>3, <1>4, <1>5 DEF FamilyInv

LEMMA SplitKeepsBottom ==
  ASSUME NEW lev, NEW R, RangesInv(lev, R), BottomInv(R), Nodes \subseteq PageId,
         NEW p \in Nodes, NEW new \in PageId, new \notin Nodes, NEW m \in Key, Nodes' = Nodes \cup {new},
         NEW R2, R2 = Cut(R, p, m, new)
  PROVE  BottomInv(R2)'
<1>1. /\ p \in PageId /\ p # new /\ m \in Int
      /\ lev \in [PageId -> Nat] /\ R \in [PageId -> SUBSET Int]
  BY Sizes DEF RangesInv
<1>2. /\ R2 \in [PageId -> SUBSET Int] /\ CutAt(R, R2, p, m, new)
      /\ \A c \in PageId : c # p /\ c # new => R2[c] = R[c]
  BY <1>1, CutProps
<1> SUFFICES ASSUME NEW q \in Nodes', NEW x \in R2[q], NEW y \in Int, \A k \in Key : x < k /\ y < k
             PROVE  y \in R2[q]
  BY DEF BottomInv
<1>3. x \in Int /\ x < m /\ y < m
  BY <1>2, <1>1
<1>4. q # new
  BY <1>2, <1>3, <1>1 DEF CutAt
<1>5. q \in Nodes
  BY <1>4
<1>6. x \in R[q]
  BY <1>2, <1>3, <1>4 DEF CutAt
<1>7. y \in R[q]
  BY <1>5, <1>6 DEF BottomInv
<1> QED BY <1>2, <1>3, <1>4, <1>7 DEF CutAt

-----------------------------------------------------------------------------
(* Entries that arrive in a node.                                          *)

(* An insert at the place the search gives keeps the order.                *)
(* b is a with e put where it belongs, from position first on.             *)
Joins(a, first, e, b) ==
  /\ IsRising(b, first)
  /\ \A i \in first .. Len(b) : b[i] = e \/ \E j \in first .. Len(a) : b[i] = a[j]
  /\ \A j \in first .. Len(a) : \E i \in first .. Len(b) : b[i] = a[j]
  /\ \E i \in first .. Len(b) : b[i] = e

(* A key below a key below a third is below the third.                     *)
LEMMA KeysBetween ==
  \A x, y, z \in Int : x < y /\ y < z => x < z
OBVIOUS

LEMMA RisingInsert ==
  ASSUME NEW a, Len(a) \in Nat, NEW first \in Nat, first >= 1,
         \A i \in first .. Len(a) : a[i].key \in Int,
         NEW e, e.key \in Int, NEW r \in first .. Len(a) + 1,
         r > first => a[r - 1].key < e.key, r <= Len(a) => ~(a[r].key < e.key),
         NEW b, InsertedAt(a, r, e, b), IsRising(a, first),
         \A i \in first .. Len(a) : a[i].key # e.key
  PROVE  /\ Joins(a, first, e, b)
         /\ first = 2 /\ Len(a) >= 1 => b[1] = a[1]
<1>1. /\ r > first => a[r - 1].key < e.key
      /\ r <= Len(a) => ~(a[r].key < e.key)
  OBVIOUS
<1>2. /\ Len(b) = Len(a) + 1 /\ b[r] = e
      /\ \A j \in 1 .. r - 1 : b[j] = a[j]
      /\ \A j \in r + 1 .. Len(a) + 1 : b[j] = a[j - 1]
  BY DEF InsertedAt
<1>3. \A i, j \in first .. Len(a) : i < j => a[i].key < a[j].key
  BY DEF IsRising
<1>4. ASSUME NEW i \in first .. r - 1
      PROVE  a[i].key < e.key
  <2>1. i \in first .. Len(a) /\ r - 1 \in first .. Len(a) /\ r > first
    BY <1>4
  <2>2. i = r - 1 \/ a[i].key < a[r - 1].key
    BY <2>1, <1>3
  <2> QED BY <2>1, <2>2, <1>1
<1>5. ASSUME NEW i \in r .. Len(a)
      PROVE  e.key < a[i].key
  <2>1. i \in first .. Len(a) /\ r \in first .. Len(a)
    BY <1>5
  <2>2. i = r \/ a[r].key < a[i].key
    BY <2>1, <1>3
  <2>3. e.key < a[r].key
    BY <2>1, <1>1
  <2> QED BY <2>1, <2>2, <2>3
<1>6. ASSUME NEW i \in first .. Len(b)
      PROVE  /\ i < r => i \in first .. r - 1 /\ i \in first .. Len(a) /\ b[i] = a[i]
             /\ i = r => b[i] = e
             /\ i > r => i - 1 \in r .. Len(a) /\ i - 1 \in first .. Len(a) /\ b[i] = a[i - 1]
             /\ i < r \/ i = r \/ i > r
  <2>1. CASE i < r
    <3>1. i \in 1 .. r - 1 /\ i \in first .. r - 1 /\ i \in first .. Len(a)
      BY <2>1, <1>2
    <3> QED BY <2>1, <3>1, <1>2
  <2>2. CASE i = r
    BY <2>2, <1>2
  <2>3. CASE i > r
    <3>1. i \in r + 1 .. Len(a) + 1 /\ i - 1 \in r .. Len(a) /\ i - 1 \in first .. Len(a)
      BY <2>3, <1>2
    <3> QED BY <2>3, <3>1, <1>2
  <2> QED BY <2>1, <2>2, <2>3, <1>2
<1>7. ASSUME NEW i \in first .. Len(b), NEW j \in first .. Len(b), i < j
      PROVE  b[i].key < b[j].key
  <2>1. CASE i < r /\ j < r
    <3>1. b[i] = a[i] /\ i \in first .. Len(a)
      BY <2>1, <1>6
    <3>2. b[j] = a[j] /\ j \in first .. Len(a)
      BY <2>1, <1>6
    <3> QED BY <3>1, <3>2, <1>3, <1>7
  <2>2. CASE i < r /\ j = r
    BY <2>2, <1>4, <1>6
  <2>3. CASE i < r /\ j > r
    <3>1. b[i] = a[i] /\ i \in first .. r - 1 /\ i \in first .. Len(a)
      BY <2>3, <1>6
    <3>2. b[j] = a[j - 1] /\ j - 1 \in r .. Len(a) /\ j - 1 \in first .. Len(a)
      BY <2>3, <1>6
    <3>3. a[i].key < e.key
      BY <3>1, <1>4
    <3>4. e.key < a[j - 1].key
      BY <3>2, <1>5
    <3>5. a[i].key \in Int /\ a[j - 1].key \in Int
      BY <3>1, <3>2
    <3>6. a[i].key < a[j - 1].key
      BY <3>3, <3>4, <3>5, <1>2, KeysBetween
    <3>7. b[i] = a[i] /\ b[j] = a[j - 1]
      BY <3>1, <3>2
    <3> QED BY <3>6, <3>7
  <2>4. CASE i = r /\ j > r
    <3>1. b[i] = e /\ b[j] = a[j - 1] /\ j - 1 \in r .. Len(a)
      BY <2>4, <1>6, <1>2
    <3> QED BY <3>1, <1>5
  <2>5. CASE i > r /\ j > r
    <3>1. b[i] = a[i - 1] /\ b[j] = a[j - 1] /\ i - 1 \in first .. Len(a) /\ j - 1 \in first .. Len(a)
      BY <2>5, <1>6
    <3>2. i - 1 < j - 1
      BY <1>7
    <3> QED BY <3>1, <3>2, <1>3
  <2> QED BY <2>1, <2>2, <2>3, <2>4, <2>5, <1>7, <1>2
<1>8. \A i \in first .. Len(b) : b[i] = e \/ \E j \in first .. Len(a) : b[i] = a[j]
  BY <1>6
<1>9. ASSUME NEW j \in first .. Len(a)
      PROVE  \E i \in first .. Len(b) : b[i] = a[j]
  <2>1. CASE j < r
    <3>1. j \in 1 .. r - 1 /\ j \in first .. Len(b)
      BY <2>1, <1>2
    <3> QED BY <3>1, <1>2
  <2>2. CASE j >= r
    <3>1. j + 1 \in r + 1 .. Len(a) + 1 /\ j + 1 \in first .. Len(b) /\ (j + 1) - 1 = j
      BY <2>2, <1>2
    <3> QED BY <3>1, <1>2
  <2> QED BY <2>1, <2>2
<1>10. r \in first .. Len(b)
  BY <1>2
<1>11. first = 2 /\ Len(a) >= 1 => b[1] = a[1]
  BY <1>2
<1> QED BY <1>2, <1>7, <1>8, <1>9, <1>10, <1>11 DEF IsRising, Joins

(* A node other than the root is the child of the node its parent pointer  *)
(* names and of no other.                                                  *)
LEMMA ExactParent ==
  ASSUME PagesInv, ParentsInv, NEW lev, NEW R, RangesInv(lev, R), RootInv(lev, R), FamilyInv,
         NEW p \in Nodes, ~Unadopted(p), \A s \in Work : ~(SplitOfRoot(s) /\ s.new = p),
         NEW t \in Internals
  PROVE  p \in Kids(t) <=> contents[p].parent = t
<1>1. /\ Nodes \subseteq PageId /\ NoPage \notin PageId /\ t \in Nodes /\ HasTree /\ t \in PageId
      /\ root_page_id \in Nodes
  BY NodeFacts DEF Nodes, PagesInv, HasTree
<1>2. CASE p = root_page_id
  <2>1. contents[p].parent # t
    BY <1>1, <1>2 DEF ParentsInv
  <2>2. p \notin Kids(t)
    <3> SUFFICES ASSUME p \in Kids(t)
                 PROVE  FALSE
      OBVIOUS
    <3>1. lev[p] + 1 = lev[t] /\ lev[t] <= lev[p] /\ lev[p] \in Nat
      BY <1>1, <1>2 DEF RangesInv, RootInv
    <3> QED BY <3>1
  <2> QED BY <2>1, <2>2
<1>3. CASE p # root_page_id
  <2>1. PICK q \in Internals : contents[p].parent = q /\ p \in Kids(q)
    BY <1>3 DEF FamilyInv
  <2>2. p \in Kids(t) => t = q
    BY <2>1, <1>1, OneParent
  <2> QED BY <2>1, <2>2
<1> QED BY <1>2, <1>3

(* The pages below a node, their order and their keys stay: what changes   *)
(* is where an entry is, in a node or on its way, and a parent pointer.    *)
LEMMA SepsStay ==
  ASSUME NEW lev, NEW R, TreeInv(lev, R), PagesInv,
         Leaves' = Leaves, Internals' = Internals, root_page_id' = root_page_id,
         num_pages' \in Nat, num_pages <= num_pages',
         \A t \in Internals : First(t)' = First(t) /\ Seps(t)' = Seps(t),
         \A p \in Leaves : contents'[p].next = contents[p].next,
         OrderInv(R)',
         \A c \in Nodes : contents'[c].parent = contents[c].parent
                          \/ \E t \in Internals : contents'[c].parent = t /\ c \in Kids(t),
         \A c \in Nodes : Unadopted(c) => Unadopted(c)'
                          \/ \E t \in Internals : contents'[c].parent = t /\ c \in Kids(t),
         \A s : s.do = "InsertIntoParent" /\ s \in Work' => s \in Work,
         \A s \in Work : SplitOfRoot(s) => s \in Work'
  PROVE  TreeInv(lev, R)'
<1>1. /\ Nodes' = Nodes /\ HasTree' = HasTree
      /\ \A s : SplitOfRoot(s)' = SplitOfRoot(s)
  BY DEF Nodes, HasTree, SplitOfRoot
<1>2. \A p \in Internals : Seps(p)' = Seps(p) /\ First(p)' = First(p) /\ Kids(p)' = Kids(p)
  BY DEF Kids
<1>3. RangesInv(lev, R)'
  BY <1>1, <1>2, PageIdSame DEF TreeInv, RangesInv
<1>5. RootInv(lev, R)'
  <2> SUFFICES ASSUME HasTree
               PROVE  RootInv(lev, R)'
    BY <1>1 DEF RootInv
  <2>1. \A s : SplitOfRoot(s) => (s \in Work' <=> s \in Work)
    BY DEF SplitOfRoot
  <2>2. root_page_id \in PageId /\ lev[root_page_id] \in Nat /\ num_pages \in Nat
    BY NodeFacts DEF TreeInv, RangesInv, HasTree, PagesInv
  <2>3. lev[root_page_id] < num_pages'
    BY <2>2 DEF TreeInv, RootInv
  <2> QED BY <2>1, <2>3, <1>1 DEF TreeInv, RootInv
<1>6. FamilyInv'
  <2> SUFFICES ASSUME NEW p \in Nodes \ {root_page_id}
               PROVE  \/ Unadopted(p)'
                      \/ \E s \in Work' : SplitOfRoot(s) /\ s.new = p
                      \/ \E t \in Internals : contents'[p].parent = t /\ p \in Kids(t)'
    BY <1>1 DEF FamilyInv
  <2>1. CASE Unadopted(p)
    BY <2>1, <1>2
  <2>2. CASE \E s \in Work : SplitOfRoot(s) /\ s.new = p
    BY <2>2
  <2>3. CASE \E t \in Internals : contents[p].parent = t /\ p \in Kids(t)
    <3>1. \E t \in Internals : contents'[p].parent = t /\ p \in Kids(t)
      BY <2>3
    <3> QED BY <3>1, <1>2
  <2> QED BY <2>1, <2>2, <2>3 DEF TreeInv, FamilyInv
<1>7. ChainInv(R)' /\ BottomInv(R)'
  BY <1>1 DEF TreeInv, ChainInv, BottomInv
<1> QED BY <1>3, <1>5, <1>6, <1>7 DEF TreeInv

(* A search goes to the child its key belongs to.                          *)
LEMMA ChildHoldsKey ==
  ASSUME PagesInv, NEW lev, NEW R, RangesInv(lev, R), OrderInv(R),
         NEW p \in Internals, Promised(p) = {}, NEW key \in Int, key \in R[p],
         NEW c, c = ChildFor(contents[p], key)
  PROVE  c \in Kids(p) /\ key \in R[c]
<1>1. PICK a : a = contents[p].array
  OBVIOUS
<1>2. InternalOK(contents[p])
  BY NodeFacts
<1>3. PICK i \in 1 .. Len(a) : /\ c = a[i].value
                               /\ i > 1 => a[i].key <= key
                               /\ i < Len(a) => ~(a[i + 1].key <= key)
  BY <1>1, <1>2, ChildForIsChild
<1>4. Len(a) \in Nat /\ \A j \in 2 .. Len(a) : a[j].key \in Int
  <2>1. Len(a) \in Nat /\ \A j \in 2 .. Len(a) : a[j].key \in Key
    BY <1>1, <1>2 DEF InternalOK
  <2> QED BY <2>1, Sizes
<1>5. Seps(p) = {a[j] : j \in 2 .. Len(a)} /\ First(p) = a[1].value
  BY <1>1 DEF Seps, Written, First
<1>6. \A j, k \in 2 .. Len(a) : j < k => a[j].key < a[k].key
  BY <1>1 DEF OrderInv, IsRising
<1>7. Slots(First(p), Seps(p), R[p], R)
  BY DEF RangesInv
<1>8. ASSUME NEW j \in 2 .. Len(a), i < j
      PROVE  key < a[j].key
  <2>1. i < Len(a) /\ i + 1 \in 2 .. Len(a)
    BY <1>3, <1>4, <1>8
  <2>2. i + 1 = j \/ a[i + 1].key < a[j].key
    BY <1>6, <1>8, <2>1
  <2> QED BY <2>1, <2>2, <1>3, <1>4
<1>9. CASE i = 1
  <2>1. \A e \in Seps(p) : key < e.key
    BY <1>5, <1>8, <1>9
  <2>2. key \in R[First(p)]
    BY <2>1, <1>7 DEF Slots
  <2> QED BY <2>2, <1>3, <1>5, <1>9 DEF Kids, ChildrenOf
<1>10. CASE i # 1
  <2>1. i \in 2 .. Len(a)
    BY <1>10, <1>3
  <2>2. PICK e : e = a[i]
    OBVIOUS
  <2>3. e \in Seps(p) /\ e.key <= key /\ e.value = c
    BY <2>1, <2>2, <1>3, <1>5
  <2>4. ASSUME NEW j \in 2 .. Len(a)
        PROVE  a[j].key <= e.key \/ key < a[j].key
    BY <2>1, <2>2, <1>4, <1>6, <1>8
  <2>5. \A f \in Seps(p) : f.key <= e.key \/ key < f.key
    BY <2>4, <1>5
  <2>6. key \in R[e.value]
    BY <2>3, <2>5, <1>7 DEF Slots
  <2> QED BY <2>3, <2>6 DEF Kids, ChildrenOf
<1> QED BY <1>9, <1>10

-----------------------------------------------------------------------------
(* The steps that leave the nodes as they are.                             *)

IsPlain(s) == s.do \notin {"InsertIntoParent", "SplitInternal", "AdoptChildren"}

LEMMA PlainTree ==
  ASSUME IInv, NEW lev, NEW R, TreeInv(lev, R), stack # <<>>, NEW xs \in Seq(Statement), Then(xs),
         contents' = contents, root_page_id' = root_page_id, num_pages' = num_pages,
         IsPlain(stack[1]), \A s \in WorkOf(xs) : IsPlain(s)
  PROVE  TreeInv(lev, R)'
<1>1. Work = {stack[1]} \cup Behind /\ Work' = WorkOf(xs) \cup Behind
  BY WorkThen DEF IInv
<1>2. \A s : ~IsPlain(s) => (s \in Work' <=> s \in Work)
  BY <1>1
<1>3. \A p \in Internals : Promised(p)' = Promised(p)
  <2> TAKE p \in Internals
  <2>1. \A s : Owner(s)' = Owner(s)
    BY DEF Owner
  <2>2. {t \in Work' : IsPromise(t) /\ Owner(t)' = p} = {t \in Work : IsPromise(t) /\ Owner(t) = p}
    BY <1>2, <2>1 DEF IsPromise, IsPlain
  <2> QED BY <2>2 DEF Promised
<1>4. \A p : Unadopted(p) => Unadopted(p)'
  BY <1>2 DEF Unadopted, IsPlain
<1>5. \A s : s.do = "InsertIntoParent" => (s \in Work' <=> s \in Work)
  BY <1>2 DEF IsPlain
<1>6. \A s \in Work : SplitOfRoot(s) => s \in Work'
  BY <1>5 DEF SplitOfRoot
<1>7. num_pages \in Int /\ num_pages' \in Int /\ num_pages <= num_pages' /\ PagesInv
  BY NodeFacts DEF IInv
<1> QED BY <1>3, <1>4, <1>5, <1>6, <1>7, TreeStays

EntriesSame == Entries' = Entries /\ HasTree' = HasTree

LEMMA SameEntries ==
  ASSUME contents' = contents, root_page_id' = root_page_id
  PROVE  EntriesSame
BY PageIdSame DEF EntriesSame, Entries, HasTree

LEMMA CallsStay ==
  ASSUME NEW R, CallInv(R), EntriesSame, reply' = reply,
         NEW R2, NEW X, Work' \subseteq X \cup Work, \A s \in X : CallOK(R2, s),
         R2 = R \/ \A s \in Work' \ X : ~IsSearch(s)
  PROVE  CallInv(R2)'
<1>1. \A k : IsStored(k)' = IsStored(k)
  BY DEF EntriesSame, IsStored
<1>2. \A a : IsTrue(a)' = IsTrue(a)
  BY <1>1 DEF EntriesSame, IsTrue, Inserted, Found, Missing
<1>3. \A s : CallOK(R2, s)' = CallOK(R2, s)
  BY <1>1, <1>2 DEF CallOK, IsSearch, WillInsert
<1>4. \A s \in Work' \ X : CallOK(R, s)
  BY DEF CallInv
<1>5. \A s \in Work' \ X : CallOK(R2, s)
  BY <1>4 DEF CallOK, IsSearch
<1> QED BY <1>3, <1>5 DEF CallInv

LEMMA PlainCall ==
  ASSUME IInv, NEW lev, NEW R, TreeInv(lev, R), CallInv(R),
         stack # <<>>, NEW xs \in Seq(Statement), Then(xs),
         contents' = contents, root_page_id' = root_page_id, num_pages' = num_pages, reply' = reply,
         IsPlain(stack[1]), \A s \in WorkOf(xs) : IsPlain(s) /\ CallOK(R, s)
  PROVE  KeyInv'
<1>1. TreeInv(lev, R)'
  BY PlainTree
<1>2. Work = {stack[1]} \cup Behind /\ Work' = WorkOf(xs) \cup Behind
  BY WorkThen DEF IInv
<1>3. CallInv(R)'
  BY <1>2, SameEntries, CallsStay
<1> QED BY <1>1, <1>3 DEF KeyInv

LEMMA UnpinOK ==
  ASSUME NEW page, NEW is_dirty, NEW s, s = UnpinPage(page, is_dirty)
  PROVE  IsPlain(s) /\ ~IsSearch(s) /\ \A R : CallOK(R, s)
BY DEF UnpinPage, IsPlain, IsSearch, CallOK, WillInsert

LEMMA ReturnOK ==
  ASSUME NEW a, IsTrue(a), NEW s, s = Return(a)
  PROVE  IsPlain(s) /\ ~IsSearch(s) /\ \A R : CallOK(R, s)
BY DEF Return, IsPlain, IsSearch, CallOK, WillInsert

LEMMA OneStatement ==
  ASSUME stack \in Seq(Statement), Len(stack) = 1
  PROVE  Work = {stack[1]} /\ Behind = {}
BY DEF Work, WorkOf, Behind

LEMMA NothingPromised ==
  ASSUME \A s \in Work : IsPlain(s)
  PROVE  /\ \A p : Promised(p) = {} /\ ~Unadopted(p) /\ Seps(p) = Written(p)
         /\ \A s \in Work : ~SplitOfRoot(s) /\ s.do # "InsertIntoParent"
<1>1. \A p : Promised(p) = {}
  BY DEF Promised, IsPromise, IsPlain
<1> QED BY <1>1 DEF IsPlain, Unadopted, SplitOfRoot, Seps

LEMMA TrueAnswers ==
  ASSUME NEW k \in Key, NEW v \in RecordID, NEW e, e = Entry(k, v)
  PROVE  /\ e \in Entries => IsTrue(Found(e))
         /\ ~IsStored(k) => IsTrue(Missing(k)) /\ IsTrue(Refused(k, v))
         /\ (HasTree => e \in Entries) => IsTrue(Inserted(k, v, TRUE))
<1> DEFINE yes == TRUE
           no  == FALSE
<1>1. yes # no /\ "Insert" # "GetValue"
  OBVIOUS
<1>2. /\ \A d : Found(d) = [op |-> "GetValue", entry |-> d, ok |-> yes]
      /\ \A j : Missing(j) = [op |-> "GetValue", key |-> j, ok |-> no]
      /\ \A j, w : Inserted(j, w, yes) = [op |-> "Insert", entry |-> Entry(j, w), ok |-> yes]
      /\ \A j, w : Inserted(j, w, no) = [op |-> "Insert", entry |-> Entry(j, w), ok |-> no]
      /\ \A j, w : Refused(j, w) = [op |-> "Insert", entry |-> Entry(j, w), ok |-> no]
  BY DEF Found, Missing, Inserted, Refused
<1>3. \A a : IsTrue(a) <=>
        \A d \in LeafEntry :
          /\ a = Inserted(d.key, d.value, yes) /\ HasTree => d \in Entries
          /\ a = Inserted(d.key, d.value, no) => d \notin Entries
          /\ a = Found(d) => d \in Entries
          /\ a = Missing(d.key) => ~IsStored(d.key)
  BY DEF IsTrue
<1>4. \A d \in LeafEntry : Entry(d.key, d.value) = d
  BY DEF LeafEntry, Entry
<1> HIDE DEF yes, no
<1>5. \A d, j, w : Found(d) # Missing(j) /\ Found(d) # Inserted(j, w, yes) /\ Found(d) # Inserted(j, w, no)
  BY <1>1, <1>2
<1>6. \A j, i, w : Missing(j) # Inserted(i, w, yes) /\ Missing(j) # Inserted(i, w, no)
  BY <1>1, <1>2
<1>7. \A j, w, i, x : Inserted(j, w, yes) # Inserted(i, x, no)
  BY <1>1, <1>2
<1>8. /\ \A d, f : Found(d) = Found(f) => d = f
      /\ \A j, i : Missing(j) = Missing(i) => j = i
  BY <1>2
<1>9. \A d, f \in LeafEntry :
        /\ Inserted(d.key, d.value, yes) = Inserted(f.key, f.value, yes) => d = f
        /\ Inserted(d.key, d.value, no) = Inserted(f.key, f.value, no) => d = f
  BY <1>2, <1>4
<1>10. e \in LeafEntry /\ e.key = k /\ e.value = v
  BY DEF LeafEntry, Entry
<1>11. e \in Entries => IsTrue(Found(e))
  BY <1>3, <1>5, <1>8
<1>12. ~IsStored(k) => IsTrue(Missing(k))
  BY <1>3, <1>5, <1>6, <1>8
<1>13. ASSUME ~IsStored(k)
       PROVE  IsTrue(Refused(k, v))
  <2>1. e \notin Entries
    BY <1>10, <1>13 DEF IsStored
  <2>2. Refused(k, v) = Inserted(e.key, e.value, no)
    BY <1>2, <1>10
  <2> QED BY <2>1, <2>2, <1>3, <1>5, <1>6, <1>7, <1>9, <1>10
<1>14. ASSUME HasTree => e \in Entries
       PROVE  IsTrue(Inserted(k, v, yes))
  <2>1. Inserted(k, v, yes) = Inserted(e.key, e.value, yes)
    BY <1>10
  <2> QED BY <2>1, <1>14, <1>3, <1>5, <1>6, <1>7, <1>9, <1>10
<1> QED BY <1>11, <1>12, <1>13, <1>14 DEF yes

(* The entries of a key are in the leaf the key belongs to.                *)
LEMMA StoredInLeaf ==
  ASSUME PagesInv, NEW lev, NEW R, RangesInv(lev, R), OrderInv(R),
         NEW p \in Leaves, NEW key \in Int, key \in R[p], IsStored(key)
  PROVE  \E i \in 1 .. Len(contents[p].array) : contents[p].array[i].key = key
<1>1. PICK e \in Entries : e.key = key
  BY DEF IsStored
<1>2. PICK q \in PageId : /\ contents[q].type = "leaf"
                          /\ \E i \in DOMAIN contents[q].array : e = contents[q].array[i]
  BY <1>1 DEF Entries
<1>3. q \in Leaves /\ q \in Nodes /\ p \in Nodes
  BY <1>2 DEF Leaves, Nodes
<1>4. DOMAIN contents[q].array = 1 .. Len(contents[q].array)
  <2>1. contents[q].array \in Seq(LeafEntry)
    BY <1>3, NodeFacts DEF LeafOK, LeafRecord
  <2> QED BY <2>1
<1>5. PICK i \in 1 .. Len(contents[q].array) : e = contents[q].array[i]
  BY <1>2, <1>4
<1>6. key \in R[q]
  BY <1>1, <1>3, <1>5 DEF OrderInv
<1>7. q = p
  BY <1>3, <1>6 DEF RangesInv
<1> QED BY <1>1, <1>5, <1>7

LEMMA NoStatements ==
  <<>> \in Seq(Statement) /\ WorkOf(<<>>) = {}
<1>1. WorkOf(<<>>) = {}
  BY SmallWork
<1> QED BY <1>1

LEMMA OneOf ==
  ASSUME NEW a \in Statement
  PROVE  <<a>> \in Seq(Statement) /\ WorkOf(<<a>>) = {a}
<1>1. WorkOf(<<a>>) = {a}
  BY SmallWork
<1> QED BY <1>1

LEMMA TwoOf ==
  ASSUME NEW a \in Statement, NEW b \in Statement
  PROVE  <<a, b>> \in Seq(Statement) /\ WorkOf(<<a, b>>) = {a, b}
<1>1. WorkOf(<<a, b>>) = {a, b}
  BY SmallWork
<1> QED BY <1>1

(* Looking a key up in a leaf in order.                                    *)
LEMMA LookupIs ==
  ASSUME NEW leaf, LeafOK(leaf), IsRising(leaf.array, 1), NEW key \in Int,
         NEW hit, hit = LeafLookup(leaf, key)
  PROVE  /\ hit = 0 => \A i \in 1 .. Len(leaf.array) : leaf.array[i].key # key
         /\ hit # 0 => hit \in 1 .. Len(leaf.array) /\ leaf.array[hit].key = key
<1>1. Len(leaf.array) \in Nat /\ \A i \in 1 .. Len(leaf.array) : leaf.array[i].key \in Int
  <2>1. leaf.array \in Seq(LeafEntry)
    BY DEF LeafOK, LeafRecord
  <2>2. \A i \in 1 .. Len(leaf.array) : leaf.array[i] \in LeafEntry
    BY <2>1, ElementOfSeq
  <2> QED BY <2>1, <2>2, Sizes, LenProperties DEF LeafEntry
<1>2. InOrder(leaf.array)
  BY <1>1 DEF IsRising, InOrder
<1>3. /\ hit \in 0 .. Len(leaf.array)
      /\ hit # 0 => leaf.array[hit].key = key
      /\ InOrder(leaf.array) /\ hit = 0 => \A i \in 1 .. Len(leaf.array) : leaf.array[i].key # key
  BY <1>1, LookupFinds
<1> QED BY <1>1, <1>2, <1>3

LEMMA PassInternalKeepsKeys ==
  ASSUME IInv, KeyInv, PassInternal, UNCHANGED <<held, reply, inserts>>
  PROVE  KeyInv'
<1>1. PICK lev, R : TreeInv(lev, R) /\ CallInv(R)
  BY DEF KeyInv
<1>2. PICK s : s = Head(stack)
  OBVIOUS
<1>3. PICK c : c = ChildFor(contents[s.page], s.key)
  OBVIOUS
<1>4. /\ Executing("Descend") /\ IsInternal(contents[s.page]) /\ FetchPage(s.page, contents)
      /\ Then(<<UnpinPage(s.page, FALSE), Descend(c, s.key, s.op, s.value)>>)
      /\ root_page_id' = root_page_id
  BY <1>2, <1>3 DEF PassInternal
<1>5. /\ s = stack[1] /\ s.do = "Descend" /\ s.page \in PageId /\ s.page \in Internals
      /\ s.key \in Key /\ s.op \in {"Insert", "GetValue"} /\ s.value \in RecordID \cup {NoReply}
      /\ stack \in Seq(Statement) /\ stack # <<>> /\ Len(stack) = 1
  BY <1>2, <1>4, DescendHead
<1>6. contents' = contents /\ num_pages' = num_pages
  BY <1>4, FetchSame
<1>7. Work = {s} /\ IsPlain(s) /\ CallOK(R, s)
  BY <1>1, <1>5, OneStatement DEF IsPlain, CallInv
<1>8. PagesInv /\ RangesInv(lev, R) /\ OrderInv(R) /\ s.key \in Int
  BY <1>1, <1>5, Sizes DEF IInv, TreeInv
<1>9. s.key \in R[s.page]
  BY <1>5, <1>7 DEF CallOK
<1>10. c \in Kids(s.page) /\ s.key \in R[c]
  <2>1. Promised(s.page) = {}
    BY <1>7, NothingPromised
  <2> QED BY <2>1, <1>3, <1>5, <1>8, <1>9, ChildHoldsKey
<1>11. c \in PageId
  BY <1>5, <1>8, <1>10, NodeFacts DEF RangesInv
<1>12. PICK a \in Statement : a = UnpinPage(s.page, FALSE)
  BY <1>5, MakeStatement
<1>13. PICK b \in Statement : b = Descend(c, s.key, s.op, s.value)
  BY <1>5, <1>11, MakeStatement
<1>14. PICK xs : xs = <<a, b>>
  OBVIOUS
<1>15. Then(xs) /\ xs \in Seq(Statement) /\ WorkOf(xs) = {a, b}
  BY <1>4, <1>12, <1>13, <1>14, TwoOf
<1>16. IsPlain(a) /\ CallOK(R, a)
  BY <1>12, UnpinOK
<1>17. IsPlain(b) /\ CallOK(R, b)
  <2>1. b.do = "Descend" /\ b.page = c /\ b.key = s.key /\ b.op = s.op
    BY <1>13 DEF Descend
  <2> QED BY <2>1, <1>5, <1>7, <1>10 DEF IsPlain, CallOK, IsSearch, WillInsert
<1> QED BY <1>1, <1>4, <1>5, <1>6, <1>7, <1>15, <1>16, <1>17, PlainCall

LEMMA LookUpInLeafKeepsKeys ==
  ASSUME IInv, KeyInv, LookUpInLeaf, UNCHANGED <<held, reply, inserts>>
  PROVE  KeyInv'
<1>1. PICK lev, R : TreeInv(lev, R) /\ CallInv(R)
  BY DEF KeyInv
<1>2. PICK s : s = Head(stack)
  OBVIOUS
<1>3. PICK leaf : leaf = contents[s.page]
  OBVIOUS
<1>4. PICK hit : hit = LeafLookup(leaf, s.key)
  OBVIOUS
<1>5. PICK x : x = IF hit = 0 THEN Missing(s.key)
               ELSE Found(Entry(s.key, leaf.array[hit].value))
  OBVIOUS
<1>6. /\ Executing("Descend") /\ ~IsInternal(leaf) /\ FetchPage(s.page, contents)
      /\ Then(<<UnpinPage(s.page, FALSE), Return(x)>>)
      /\ root_page_id' = root_page_id
  BY <1>2, <1>3, <1>4, <1>5 DEF LookUpInLeaf
<1>7. /\ s = stack[1] /\ s.do = "Descend" /\ s.page \in PageId
      /\ s.page \in Leaves /\ LeafOK(leaf) /\ s.key \in Key
      /\ stack \in Seq(Statement) /\ stack # <<>> /\ Len(stack) = 1
  BY <1>2, <1>3, <1>6, DescendHead
<1>8. contents' = contents /\ num_pages' = num_pages
  BY <1>6, FetchSame
<1>9. Work = {s} /\ IsPlain(s) /\ CallOK(R, s)
  BY <1>1, <1>7, OneStatement DEF IsPlain, CallInv
<1>10. PagesInv /\ RangesInv(lev, R) /\ OrderInv(R) /\ s.key \in Int /\ s.key \in R[s.page]
  BY <1>1, <1>7, <1>9, Sizes DEF IInv, TreeInv, CallOK
<1>11. PICK array : array = leaf.array
  OBVIOUS
<1>12. /\ array \in Seq(LeafEntry)
       /\ \A i \in 1 .. Len(array) : array[i] \in LeafEntry
  <2>1. array \in Seq(LeafEntry)
    BY <1>7, <1>11 DEF LeafOK, LeafRecord
  <2> QED BY <2>1, ElementOfSeq
<1>13. IsRising(array, 1)
  BY <1>3, <1>7, <1>10, <1>11 DEF OrderInv
<1>14. /\ hit = 0 => \A i \in 1 .. Len(array) : array[i].key # s.key
       /\ hit # 0 => hit \in 1 .. Len(array) /\ array[hit].key = s.key
  BY <1>4, <1>7, <1>10, <1>11, <1>13, LookupIs
<1>15. IsTrue(x) /\ x \in Answer
  <2>1. CASE hit = 0
    <3>1. ~IsStored(s.key)
      BY <2>1, <1>3, <1>7, <1>10, <1>11, <1>14, StoredInLeaf
    <3>2. x = Missing(s.key)
      BY <1>5, <2>1
    <3>3. IsTrue(Missing(s.key))
      <4>1. CASE RecordID = {}
        BY <4>1, <3>1 DEF IsTrue, LeafEntry
      <4>2. CASE RecordID # {}
        <5>1. PICK v \in RecordID : TRUE
          BY <4>2
        <5> QED BY <5>1, <3>1, <1>7, TrueAnswers
      <4> QED BY <4>1, <4>2
    <3> QED BY <3>2, <3>3, <1>7 DEF Answer
  <2>2. CASE hit # 0
    <3>1. hit \in 1 .. Len(array)
      BY <2>2, <1>14
    <3>2. PICK e \in LeafEntry : e = array[hit]
      BY <3>1, <1>12
    <3>3. e.key \in Key /\ e.value \in RecordID /\ e = Entry(e.key, e.value)
      BY DEF LeafEntry, Entry
    <3>4. e \in Entries
      <4>1. hit \in DOMAIN contents[s.page].array /\ contents[s.page].type = "leaf"
        BY <3>1, <1>3, <1>7, <1>11, <1>12 DEF Leaves
      <4>2. e \in {contents[s.page].array[i] : i \in DOMAIN contents[s.page].array}
        BY <4>1, <3>2, <1>3, <1>11
      <4> QED BY <4>1, <4>2, <1>7 DEF Entries
    <3>5. x = Found(e)
      BY <1>5, <1>11, <1>14, <2>2, <3>2, <3>3
    <3>6. IsTrue(Found(e))
      BY <3>3, <3>4, TrueAnswers
    <3>7. Found(e) \in Answer
      BY <3>3 DEF Answer
    <3> QED BY <3>5, <3>6, <3>7
  <2> QED BY <2>1, <2>2
<1>16. PICK a \in Statement : a = UnpinPage(s.page, FALSE)
  BY <1>7, MakeStatement
<1>17. PICK b \in Statement : b = Return(x)
  BY <1>15, MakeStatement
<1>18. PICK xs : xs = <<a, b>>
  OBVIOUS
<1>19. Then(xs) /\ xs \in Seq(Statement) /\ WorkOf(xs) = {a, b}
  BY <1>6, <1>16, <1>17, <1>18, TwoOf
<1>20. IsPlain(a) /\ CallOK(R, a) /\ IsPlain(b) /\ CallOK(R, b)
  BY <1>15, <1>16, <1>17, UnpinOK, ReturnOK
<1> QED BY <1>1, <1>6, <1>7, <1>8, <1>9, <1>19, <1>20, PlainCall

LEMMA DoUnpinPageKeepsKeys ==
  ASSUME IInv, KeyInv, DoUnpinPage, UNCHANGED <<held, reply, inserts>>
  PROVE  KeyInv'
<1>1. PICK lev, R : TreeInv(lev, R) /\ CallInv(R)
  BY DEF KeyInv
<1>2. /\ Executing("UnpinPage") /\ Then(<<>>)
      /\ contents' = contents /\ num_pages' = num_pages /\ root_page_id' = root_page_id
  BY DEF DoUnpinPage
<1>3. stack[1].do = "UnpinPage" /\ stack # <<>>
  BY <1>2, HeadProps DEF IInv
<1>4. PICK xs \in Seq(Statement) : xs = <<>>
  BY NoStatements
<1>5. Then(xs) /\ WorkOf(xs) = {}
  BY <1>2, <1>4, NoStatements
<1> QED BY <1>1, <1>2, <1>3, <1>5, PlainCall DEF IsPlain

LEMMA DoReturnKeepsKeys ==
  ASSUME IInv, KeyInv, DoReturn
  PROVE  KeyInv'
<1>1. PICK lev, R : TreeInv(lev, R) /\ CallInv(R)
  BY DEF KeyInv
<1>2. /\ Executing("Return") /\ Then(<<>>)
      /\ contents' = contents /\ num_pages' = num_pages /\ root_page_id' = root_page_id
  BY DEF DoReturn, pool
<1>3. PICK q : q = stack
  OBVIOUS
<1>4. q[1].do = "Return" /\ q # <<>> /\ q \in Seq(Statement) /\ Len(q) \in Nat \ {0} /\ Shape(q)
  BY <1>2, <1>3, HeadProps DEF IInv, StackInv
<1>5. PICK xs \in Seq(Statement) : xs = <<>>
  BY NoStatements
<1>6. Then(xs) /\ WorkOf(xs) = {}
  BY <1>2, <1>5, NoStatements
<1>7. TreeInv(lev, R)'
  BY <1>1, <1>2, <1>3, <1>4, <1>6, PlainTree DEF IsPlain
<1>8. Work = {q[1]} \cup Behind /\ Work' = Behind
  BY <1>3, <1>4, <1>6, WorkThen DEF IInv
<1>9. ASSUME NEW i \in 2 .. Len(q)
      PROVE  ~IsSearch(q[i])
  <2>1. ShapeAt(q, i) /\ i # 1
    BY <1>4 DEF Shape
  <2> QED BY <2>1, <1>4 DEF ShapeAt, IsSearch
<1>10. \A s \in Behind : ~IsSearch(s)
  BY <1>3, <1>9 DEF Behind
<1>11. \A k : IsStored(k)' = IsStored(k)
  BY <1>2, SameEntries DEF EntriesSame, IsStored
<1>12. \A a : IsTrue(a)' = IsTrue(a)
  BY <1>2, <1>11, SameEntries DEF EntriesSame, IsTrue, Inserted, Found, Missing
<1>13. CallInv(R)'
  BY <1>1, <1>8, <1>10, <1>11, <1>12 DEF CallInv, CallOK, WillInsert, IsSearch
<1> QED BY <1>7, <1>13 DEF KeyInv

LEMMA SameTreeKeepsKeys ==
  ASSUME IInv, KeyInv, UNCHANGED <<contents, num_pages, root_page_id, stack, reply>>
  PROVE  KeyInv'
<1>1. PICK lev, R : TreeInv(lev, R) /\ CallInv(R)
  BY DEF KeyInv
<1>2. /\ contents' = contents /\ num_pages' = num_pages /\ root_page_id' = root_page_id
      /\ stack' = stack
  OBVIOUS
<1>3. Work' = Work
  BY <1>2 DEF Work, WorkOf
<1>4. /\ \A p \in Internals : Promised(p)' = Promised(p)
      /\ \A p : Unadopted(p) => Unadopted(p)'
  BY <1>2, <1>3 DEF Promised, Owner, Unadopted
<1>5. num_pages \in Int /\ num_pages' \in Int /\ num_pages <= num_pages' /\ PagesInv
  BY <1>2, NodeFacts DEF IInv
<1>6. TreeInv(lev, R)'
  BY <1>1, <1>2, <1>3, <1>4, <1>5, TreeStays
<1>7. CallInv(R)'
  <2>1. PICK X : X = {}
    OBVIOUS
  <2>2. Work' \subseteq X \cup Work /\ EntriesSame /\ reply' = reply /\ \A s \in X : CallOK(R, s)
    BY <1>2, <1>3, <2>1, SameEntries
  <2> QED BY <1>1, <2>2, CallsStay
<1> QED BY <1>6, <1>7 DEF KeyInv

LEMMA CrashKeepsKeys ==
  ASSUME IInv, KeyInv, Crash, UNCHANGED <<held, reply, inserts>>
  PROVE  KeyInv'
BY SameTreeKeepsKeys DEF Crash, pool

(* Between calls.                                                          *)
LEMMA NothingToDo == ASSUME stack = <<>> PROVE Work = {}
BY DEF Work, WorkOf

LEMMA CallKeepsKeys ==
  ASSUME IInv, KeyInv, Idle, NEW s, stack' = <<s>>, UNCHANGED <<pool, root_page_id>>,
         IsPlain(s), \A R : CallInv(R) /\ (HasTree => \A x \in Int : x \in R[root_page_id]) => CallOK(R, s)'
  PROVE  KeyInv'
<1>1. PICK lev, R : TreeInv(lev, R) /\ CallInv(R)
  BY DEF KeyInv
<1>2. contents' = contents /\ num_pages' = num_pages /\ root_page_id' = root_page_id
  BY DEF pool
<1>3. Work = {} /\ Work' = {s}
  <2>1. Work' = WorkOf(<<s>>)
    BY DEF Work, WorkOf
  <2> QED BY <2>1, NothingToDo, SmallWork DEF Idle
<1>4. /\ \A p : Promised(p)' = {} /\ Promised(p) = {}
      /\ \A p : Unadopted(p) => Unadopted(p)'
  BY <1>3 DEF Promised, Unadopted, IsPlain, IsPromise
<1>5. num_pages \in Int /\ num_pages' \in Int /\ num_pages <= num_pages' /\ PagesInv
  BY <1>2, NodeFacts DEF IInv
<1>6. TreeInv(lev, R)'
  BY <1>1, <1>2, <1>3, <1>4, <1>5, TreeStays DEF IsPlain
<1>7. HasTree => \A x \in Int : x \in R[root_page_id]
  BY <1>1, <1>3 DEF TreeInv, RootInv
<1>8. CallInv(R)'
  BY <1>1, <1>3, <1>7 DEF CallInv
<1> QED BY <1>6, <1>8 DEF KeyInv

LEMMA InsertKeepsKeys ==
  ASSUME IInv, KeyInv, UNIQUE_KEYS, NEW key \in Key, NEW value \in RecordID, Insert(key, value)
  PROVE  KeyInv'
<1>1. PICK s : s = CallInsert(key, value)
  OBVIOUS
<1>2. /\ Idle /\ stack' = <<s>> /\ UNCHANGED <<pool, root_page_id>> /\ reply' = NoReply
      /\ ~IsStored(key)
  BY <1>1 DEF Insert
<1>3. ~IsStored(key)'
  BY <1>2, SameEntries DEF EntriesSame, IsStored, pool
<1>4. CASE root_page_id = NoPage
  <2>1. s.do = "StartNewTree" /\ s.key = key
    BY <1>1, <1>4 DEF CallInsert, StartNewTree
  <2>2. IsPlain(s) /\ \A R : CallOK(R, s)'
    BY <1>2, <1>3, <2>1 DEF IsPlain, CallOK, WillInsert
  <2> QED BY <1>2, <2>2, CallKeepsKeys
<1>5. CASE root_page_id # NoPage
  <2>1. s.do = "Descend" /\ s.key = key /\ s.page = root_page_id /\ key \in Int
    BY <1>1, <1>5, Sizes DEF CallInsert, Descend
  <2>2. IsPlain(s) /\ \A R : (\A x \in Int : x \in R[root_page_id]) => CallOK(R, s)'
    BY <1>2, <1>3, <2>1 DEF IsPlain, CallOK, WillInsert
  <2> QED BY <1>2, <1>5, <2>2, CallKeepsKeys DEF HasTree
<1> QED BY <1>4, <1>5

LEMMA EmptyTree ==
  ASSUME PagesInv, ~HasTree
  PROVE  Entries = {} /\ Nodes = {} /\ \A k : ~IsStored(k)
BY DEF PagesInv, HasTree, Nodes, Leaves, Entries, IsStored

LEMMA GetValueKeepsKeys ==
  ASSUME IInv, KeyInv, NEW key \in Key, GetValue(key)
  PROVE  KeyInv'
<1>1. PICK s : s = CallGetValue(key)
  OBVIOUS
<1>2. Idle /\ stack' = <<s>> /\ UNCHANGED <<pool, root_page_id>> /\ reply' = NoReply
  BY <1>1 DEF GetValue
<1>3. CASE root_page_id = NoPage
  <2>1. s = Return(Missing(key))
    BY <1>1, <1>3 DEF CallGetValue
  <2>2. Entries = {} /\ Entries' = {} /\ ~HasTree'
    BY <1>2, <1>3, EmptyTree, SameEntries DEF EntriesSame, pool, IInv, HasTree
  <2>3. IsTrue(Missing(key))'
    <3>1. \A a : a = Missing(key) => a # Found(Entry(1, 1)) /\ \A e : a # Found(e)
      <4> DEFINE yes == TRUE
                 no  == FALSE
      <4>1. yes # no /\ Missing(key).ok = no /\ \A e : Found(e).ok = yes
        BY DEF Missing, Found
      <4> HIDE DEF yes, no
      <4> QED BY <4>1
    <3> QED BY <2>2, <3>1 DEF IsTrue, IsStored, Missing, Found
  <2>4. s.do = "Return" /\ s.answer = Missing(key)
    BY <2>1 DEF Return
  <2>5. IsPlain(s) /\ \A R : CallOK(R, s)'
    BY <2>3, <2>4 DEF IsPlain, CallOK, WillInsert, IsSearch, Missing
  <2> QED BY <1>2, <2>5, CallKeepsKeys
<1>4. CASE root_page_id # NoPage
  <2>1. s.do = "Descend" /\ s.key = key /\ s.page = root_page_id /\ s.op = "GetValue" /\ key \in Int
    BY <1>1, <1>4, Sizes DEF CallGetValue, Descend
  <2>2. IsPlain(s) /\ \A R : (\A x \in Int : x \in R[root_page_id]) => CallOK(R, s)'
    BY <1>2, <2>1 DEF IsPlain, CallOK, WillInsert
  <2> QED BY <1>2, <1>4, <2>2, CallKeepsKeys DEF HasTree
<1> QED BY <1>3, <1>4

LEMMA OthersKeepKeys ==
  ASSUME IInv, KeyInv, HoldDataPage \/ ReleaseDataPage
  PROVE  KeyInv'
<1>1. PICK lev, R : TreeInv(lev, R) /\ CallInv(R)
  BY DEF KeyInv
<1>2. /\ contents' = contents /\ root_page_id' = root_page_id /\ stack' = stack /\ Idle
      /\ num_pages' = num_pages \/ num_pages' = num_pages + 1
  BY DEF HoldDataPage, ReleaseDataPage, NewPage, FetchPage, Assign
<1>3. Work = {} /\ Work' = {}
  BY <1>2, NothingToDo DEF Idle, Work
<1>4. /\ \A p : Promised(p)' = {} /\ Promised(p) = {}
      /\ \A p : Unadopted(p) => Unadopted(p)'
  BY <1>3 DEF Promised, Unadopted
<1>5. num_pages \in Int /\ num_pages' \in Int /\ num_pages <= num_pages' /\ PagesInv
  BY <1>2, NodeFacts DEF IInv
<1>6. TreeInv(lev, R)'
  BY <1>1, <1>2, <1>3, <1>4, <1>5, TreeStays
<1>7. CallInv(R)'
  BY <1>3 DEF CallInv
<1> QED BY <1>6, <1>7 DEF KeyInv

-----------------------------------------------------------------------------
(* What an insert does to a leaf.                                          *)

EntriesIn(c) ==
  UNION { {c[p].array[i] : i \in DOMAIN c[p].array} : p \in {q \in PageId : c[q].type = "leaf"} }

LEMMA EntriesAre ==
  /\ Entries = EntriesIn(contents) /\ Entries' = EntriesIn(contents')
  /\ \A c, e : e \in EntriesIn(c) <=>
       \E p \in PageId : c[p].type = "leaf" /\ \E i \in DOMAIN c[p].array : e = c[p].array[i]
BY PageIdSame DEF Entries, EntriesIn

LEMMA NodeKinds ==
  ASSUME NEW n
  PROVE  /\ LeafOK(n) => /\ n.type = "leaf" /\ ~InternalOK(n)
                         /\ Len(n.array) \in Nat /\ DOMAIN n.array = 1 .. Len(n.array)
         /\ InternalOK(n) => /\ n.type = "internal"
                             /\ Len(n.array) \in Nat /\ DOMAIN n.array = 1 .. Len(n.array)
<1>1. ASSUME LeafOK(n)
      PROVE  /\ n.type = "leaf" /\ ~InternalOK(n)
             /\ Len(n.array) \in Nat /\ DOMAIN n.array = 1 .. Len(n.array)
  <2>1. n.array \in Seq(LeafEntry) /\ n.type = "leaf"
    BY <1>1 DEF LeafOK, LeafRecord
  <2>2. ~InternalOK(n)
    BY <2>1 DEF InternalOK, InternalRecord
  <2> QED BY <2>1, <2>2, LenProperties
<1>2. ASSUME InternalOK(n)
      PROVE  /\ n.type = "internal"
             /\ Len(n.array) \in Nat /\ DOMAIN n.array = 1 .. Len(n.array)
  <2>1. n.array \in Seq(InternalEntry) /\ n.type = "internal"
    BY <1>2 DEF InternalOK, InternalRecord
  <2> QED BY <2>1, LenProperties
<1> QED BY <1>1, <1>2

LEMMA KindsSame ==
  /\ Leaves' = {p \in PageId : contents'[p].type = "leaf"}
  /\ Internals' = {p \in PageId : contents'[p].type = "internal"}
  /\ Nodes' = Leaves' \cup Internals'
BY PageIdSame DEF Leaves, Internals, Nodes

(* The entries of the leaves stay.                                         *)
LEMMA LeavesKeepEntries ==
  ASSUME \A p \in PageId : contents'[p].type = "leaf" <=> contents[p].type = "leaf",
         \A p \in Leaves : contents'[p].array = contents[p].array, HasTree' = HasTree
  PROVE  EntriesSame
<1>1. \A e : e \in EntriesIn(contents') <=> e \in EntriesIn(contents)
  BY EntriesAre DEF Leaves
<1> QED BY <1>1, EntriesAre DEF EntriesSame

(* A step puts the entry of its insert into a leaf or leaves all entries.  *)
Adds(s) ==
  Entries' = Entries \/ (WillInsert(s) /\ Entries' = Entries \cup {Entry(s.key, s.value)})

LEMMA LeavesTakeEntry ==
  ASSUME NEW e, e \in Entries',
         \A p \in PageId : contents'[p].type = "leaf" => \A i \in DOMAIN contents'[p].array :
           contents'[p].array[i] = e \/ contents'[p].array[i] \in Entries,
         \A p \in PageId : contents[p].type = "leaf" => \A i \in DOMAIN contents[p].array :
           contents[p].array[i] \in Entries'
  PROVE  Entries' = Entries \cup {e}
<1>1. \A x : x \in Entries' => x \in Entries \cup {e}
  BY EntriesAre
<1>2. \A x : x \in Entries => x \in Entries'
  BY EntriesAre
<1> QED BY <1>1, <1>2

(* A node stays what it is, and an internal node keeps its first child.    *)
NodesStay ==
  Leaves \subseteq Leaves' /\ Internals \subseteq Internals' /\ \A p \in Internals : First(p)' = First(p)

LEMMA SameNodesStay ==
  ASSUME contents' = contents
  PROVE  NodesStay
BY KindsSame DEF NodesStay, Leaves, Internals, First

(* A leaf with room that has its keys in order and has no entry of key.    *)
Lacks(n, key) ==
  /\ n \in LeafRecord /\ Len(n.array) < LEAF_MAX
  /\ IsRising(n.array, 1) /\ \A i \in 1 .. Len(n.array) : n.array[i].key # key

LEMMA LeafInsertKeys ==
  ASSUME NEW n, NEW key \in Key, NEW value \in RecordID, Lacks(n, key),
         NEW m, m = LeafInsert(n, key, value), NEW e, e = Entry(key, value)
  PROVE  /\ LeafOK(m) /\ m.parent = n.parent /\ m.next = n.next
         /\ Joins(n.array, 1, e, m.array)
<1>0. /\ n \in LeafRecord /\ Len(n.array) < LEAF_MAX
      /\ IsRising(n.array, 1) /\ \A i \in 1 .. Len(n.array) : n.array[i].key # key
  BY DEF Lacks
<1>1. PICK a : a = n.array
  OBVIOUS
<1>2. PICK b : b = m.array
  OBVIOUS
<1>3. /\ Len(a) \in Nat /\ \A i \in 1 .. Len(a) : a[i].key \in Int
  <2>1. a \in Seq(LeafEntry)
    BY <1>0, <1>1 DEF LeafRecord
  <2>2. \A i \in 1 .. Len(a) : a[i] \in LeafEntry
    BY <2>1, ElementOfSeq
  <2> QED BY <2>1, <2>2, Sizes, LenProperties DEF LeafEntry
<1>4. LeafOK(m) /\ m.parent = n.parent /\ m.next = n.next
  BY <1>0, LeafInsertProps
<1>5. PICK r \in 1 .. Len(n.array) + 1 :
        /\ Bounds(r, 1, Len(n.array), {i \in Int : n.array[i].key < key})
        /\ InsertedAt(n.array, r, Entry(key, value), m.array)
  BY <1>0, LeafInsertProps
<1>6. e.key = key /\ key \in Int
  BY Sizes DEF Entry
<1>7. /\ r \in 1 .. Len(a) + 1 /\ InsertedAt(a, r, e, b)
      /\ r > 1 => a[r - 1].key < e.key
      /\ r <= Len(a) => ~(a[r].key < e.key)
  BY <1>1, <1>2, <1>5, <1>6 DEF Bounds
<1>8. /\ IsRising(a, 1)
      /\ \A i \in 1 .. Len(a) : a[i].key # e.key
      /\ 1 \in Nat /\ 1 >= 1 /\ e.key \in Int
  BY <1>0, <1>1, <1>6
<1>9. Joins(a, 1, e, b)
  BY <1>3, <1>7, <1>8, RisingInsert
<1> QED BY <1>1, <1>2, <1>4, <1>9

(* l and r have the entries of n and e, shared out at the key m.           *)
HalvesLeaf(n, e, m, l, r) ==
  /\ \E i \in 1 .. Len(n.array) : n.array[i].key = m /\ n.array[1].key < m
  /\ IsRising(l.array, 1) /\ IsRising(r.array, 1)
  /\ \A i \in 1 .. Len(l.array) : l.array[i].key < m /\
       (l.array[i] = e \/ \E j \in 1 .. Len(n.array) : l.array[i] = n.array[j])
  /\ \A i \in 1 .. Len(r.array) : m <= r.array[i].key /\
       (r.array[i] = e \/ \E j \in 1 .. Len(n.array) : r.array[i] = n.array[j])
  /\ \A j \in 1 .. Len(n.array) :
       \/ \E i \in 1 .. Len(l.array) : l.array[i] = n.array[j]
       \/ \E i \in 1 .. Len(r.array) : r.array[i] = n.array[j]
  /\ \/ \E i \in 1 .. Len(l.array) : l.array[i] = e
     \/ \E i \in 1 .. Len(r.array) : r.array[i] = e

LEMMA SplitLeafKeys ==
  ASSUME NEW n, LeafOK(n), Len(n.array) = LEAF_MAX, IsRising(n.array, 1),
         NEW key \in Key, NEW value \in RecordID, NEW new \in PageId,
         \A i \in 1 .. Len(n.array) : n.array[i].key # key,
         NEW l, l = LeftLeaf(n, key, value, new), NEW r, r = RightLeaf(n, key, value),
         NEW m, m = MiddleOfLeaf(n), NEW e, e = Entry(key, value)
  PROVE  HalvesLeaf(n, e, m, l, r)
<1>1. PICK a : a = n.array
  OBVIOUS
<1>2. /\ a \in Seq(LeafEntry) /\ n.parent \in PageId \cup {NoPage}
      /\ n.next \in PageId \cup {NoPage} /\ Len(a) = LEAF_MAX
  BY <1>1 DEF LeafOK, LeafRecord
<1>3. PICK half : half = LEAF_MAX \div 2
  OBVIOUS
<1>4. PICK kept : kept = Kept(a, LEAF_MAX)
  OBVIOUS
<1>5. PICK moved : moved = Moved(a, LEAF_MAX)
  OBVIOUS
<1>6. LEAF_MAX \in Nat /\ LEAF_MAX >= 2 /\ key \in Int
  BY Sizes
<1>7. /\ kept \in Seq(LeafEntry) /\ Len(kept) = half /\ half \in 1 .. LEAF_MAX - 1
      /\ \A i \in 1 .. half : kept[i] = a[i]
  BY <1>2, <1>3, <1>4, <1>6, KeptProps
<1>8. /\ moved \in Seq(LeafEntry) /\ Len(moved) = LEAF_MAX - half
      /\ \A i \in 1 .. LEAF_MAX - half : moved[i] = a[half + i]
  <2>1. IsUpperHalf(moved, LeafEntry, a, LEAF_MAX, half)
    BY <1>2, <1>3, <1>5, <1>6, MovedProps
  <2> QED BY <2>1 DEF IsUpperHalf
<1>9. \A i \in 1 .. LEAF_MAX : a[i].key \in Int /\ a[i].key # key
  <2>1. \A i \in 1 .. LEAF_MAX : a[i] \in LeafEntry
    BY <1>2, ElementOfSeq
  <2> QED BY <2>1, <1>1, <1>2, Sizes DEF LeafEntry
<1>10. \A i, j \in 1 .. LEAF_MAX : i < j => a[i].key < a[j].key
  BY <1>1, <1>2 DEF IsRising
<1>11. PICK left : left = Leaf(n.parent, new, kept)
  OBVIOUS
<1>12. PICK right : right = Leaf(n.parent, n.next, moved)
  OBVIOUS
<1>13. /\ left \in LeafRecord /\ left.array = kept /\ right \in LeafRecord /\ right.array = moved
  BY <1>2, <1>7, <1>8, <1>11, <1>12 DEF Leaf, LeafRecord
<1>14. /\ m = MiddleKey(right)
       /\ l = IF key < m THEN LeafInsert(left, key, value) ELSE left
       /\ r = IF key < m THEN right ELSE LeafInsert(right, key, value)
  BY <1>1, <1>4, <1>5, <1>11, <1>12 DEF MiddleOfLeaf, LeftLeaf, RightLeaf
<1>15. half + 1 \in 1 .. LEAF_MAX /\ m = a[half + 1].key /\ m \in Int /\ a[1].key < m
  <2>1. 1 \in 1 .. LEAF_MAX - half /\ half + 1 \in 1 .. LEAF_MAX /\ 1 \in 1 .. LEAF_MAX /\ 1 < half + 1
    BY <1>6, <1>7
  <2>2. m = a[half + 1].key
    BY <2>1, <1>8, <1>13, <1>14 DEF MiddleKey
  <2> QED BY <2>1, <2>2, <1>9, <1>10
<1>16. ASSUME NEW i \in 1 .. half
       PROVE  i \in 1 .. LEAF_MAX /\ kept[i] = a[i] /\ kept[i].key < m /\ kept[i].key \in Int
  <2>1. i \in 1 .. LEAF_MAX /\ i < half + 1
    BY <1>6, <1>7
  <2> QED BY <2>1, <1>7, <1>9, <1>10, <1>15
<1>17. ASSUME NEW i \in 1 .. LEAF_MAX - half
       PROVE  half + i \in 1 .. LEAF_MAX /\ moved[i] = a[half + i] /\ m <= moved[i].key /\ moved[i].key \in Int
  <2>1. half + i \in 1 .. LEAF_MAX /\ (i = 1 \/ half + 1 < half + i)
    BY <1>6, <1>7
  <2>2. a[half + 1].key <= a[half + i].key
    BY <2>1, <1>9, <1>10, <1>15
  <2> QED BY <2>1, <2>2, <1>8, <1>9, <1>15
<1>18. IsRising(kept, 1)
  BY <1>7, <1>10, <1>16 DEF IsRising
<1>19. IsRising(moved, 1)
  <2> SUFFICES ASSUME NEW i \in 1 .. LEAF_MAX - half, NEW j \in 1 .. LEAF_MAX - half, i < j
               PROVE  moved[i].key < moved[j].key
    BY <1>8 DEF IsRising
  <2>1. half + i < half + j
    BY <1>7
  <2> QED BY <2>1, <1>10, <1>17
<1>20. ASSUME NEW j \in 1 .. LEAF_MAX
       PROVE  \/ j \in 1 .. half /\ kept[j] = a[j]
              \/ j - half \in 1 .. LEAF_MAX - half /\ moved[j - half] = a[j]
  <2>1. CASE j <= half
    <3>1. j \in 1 .. half
      BY <2>1, <1>7
    <3> QED BY <3>1, <1>7
  <2>2. CASE j > half
    <3>1. j - half \in 1 .. LEAF_MAX - half /\ half + (j - half) = j
      BY <2>2, <1>6, <1>7
    <3> QED BY <3>1, <1>8
  <2> QED BY <2>1, <2>2, <1>7
<1>21. CASE key < m
  <2>1. r.array = moved
    BY <1>13, <1>14, <1>21
  <2>2. Lacks(left, key)
    <3>1. Len(kept) < LEAF_MAX
      BY <1>6, <1>7
    <3>2. \A i \in 1 .. half : kept[i].key # key
      BY <1>9, <1>16
    <3> QED BY <3>1, <3>2, <1>7, <1>13, <1>18 DEF Lacks
  <2>3. PICK b : b = l.array
    OBVIOUS
  <2>4. /\ IsRising(b, 1)
        /\ \A i \in 1 .. Len(b) : b[i] = e \/ \E j \in 1 .. half : b[i] = kept[j]
        /\ \A j \in 1 .. half : \E i \in 1 .. Len(b) : b[i] = kept[j]
        /\ \E i \in 1 .. Len(b) : b[i] = e
    <3>1. l = LeafInsert(left, key, value) /\ left \in LeafRecord
      BY <1>13, <1>14, <1>21
    <3>2. Joins(left.array, 1, e, l.array)
      BY <3>1, <2>2, LeafInsertKeys
    <3>3. left.array = kept /\ Len(kept) = half
      BY <1>7, <1>8, <1>13
    <3>4. Joins(kept, 1, e, b)
      BY <3>2, <3>3, <2>3
    <3> QED BY <3>3, <3>4 DEF Joins
  <2>5. e.key = key
    BY DEF Entry
  <2>6. \A i \in 1 .. Len(b) : b[i].key < m /\ (b[i] = e \/ \E j \in 1 .. LEAF_MAX : b[i] = a[j])
    BY <2>4, <2>5, <1>16, <1>21
  <2>7. \A i \in 1 .. Len(moved) : m <= moved[i].key /\ \E j \in 1 .. LEAF_MAX : moved[i] = a[j]
    BY <1>8, <1>17
  <2>8. \A j \in 1 .. LEAF_MAX : \/ \E i \in 1 .. Len(b) : b[i] = a[j]
                                 \/ \E i \in 1 .. Len(moved) : moved[i] = a[j]
    BY <2>4, <1>8, <1>20
  <2> QED BY <2>1, <2>3, <2>4, <2>6, <2>7, <2>8, <1>1, <1>2, <1>15, <1>19 DEF HalvesLeaf
<1>22. CASE ~(key < m)
  <2>1. l.array = kept
    BY <1>13, <1>14, <1>22
  <2>2. Lacks(right, key)
    <3>1. Len(moved) < LEAF_MAX
      BY <1>6, <1>7, <1>8
    <3>2. \A i \in 1 .. LEAF_MAX - half : moved[i].key # key
      BY <1>9, <1>17
    <3> QED BY <3>1, <3>2, <1>8, <1>13, <1>19 DEF Lacks
  <2>3. PICK b : b = r.array
    OBVIOUS
  <2>4. /\ IsRising(b, 1)
        /\ \A i \in 1 .. Len(b) : b[i] = e \/ \E j \in 1 .. LEAF_MAX - half : b[i] = moved[j]
        /\ \A j \in 1 .. LEAF_MAX - half : \E i \in 1 .. Len(b) : b[i] = moved[j]
        /\ \E i \in 1 .. Len(b) : b[i] = e
    <3>1. r = LeafInsert(right, key, value) /\ right \in LeafRecord
      BY <1>13, <1>14, <1>22
    <3>2. Joins(right.array, 1, e, r.array)
      BY <3>1, <2>2, LeafInsertKeys
    <3>3. right.array = moved /\ Len(moved) = LEAF_MAX - half
      BY <1>7, <1>8, <1>13
    <3>4. Joins(moved, 1, e, b)
      BY <3>2, <3>3, <2>3
    <3> QED BY <3>3, <3>4 DEF Joins
  <2>5. e.key = key /\ m <= key
    BY <1>6, <1>15, <1>22 DEF Entry
  <2>6. ASSUME NEW i \in 1 .. Len(b)
        PROVE  m <= b[i].key /\ (b[i] = e \/ \E j \in 1 .. LEAF_MAX : b[i] = a[j])
    <3>1. CASE b[i] = e
      BY <3>1, <2>5
    <3>2. CASE b[i] # e
      <4>1. PICK j \in 1 .. LEAF_MAX - half : b[i] = moved[j]
        BY <3>2, <2>4
      <4> QED BY <4>1, <1>17
    <3> QED BY <3>1, <3>2
  <2>7. \A i \in 1 .. Len(kept) : kept[i].key < m /\ \E j \in 1 .. LEAF_MAX : kept[i] = a[j]
    BY <1>7, <1>16
  <2>8. \A j \in 1 .. LEAF_MAX : \/ \E i \in 1 .. Len(b) : b[i] = a[j]
                                 \/ \E i \in 1 .. Len(kept) : kept[i] = a[j]
    BY <2>4, <1>7, <1>20
  <2> QED BY <2>1, <2>3, <2>4, <2>6, <2>7, <2>8, <1>1, <1>2, <1>15, <1>18 DEF HalvesLeaf
<1> QED BY <1>21, <1>22

InsertedOK ==
  \A k \in Key : \A v \in RecordID :
    (HasTree => Entry(k, v) \in Entries) => IsTrue(Inserted(k, v, TRUE))

LEMMA InsertIsTrue == InsertedOK /\ InsertedOK'
<1>1. InsertedOK
  BY TrueAnswers DEF InsertedOK
<1> QED BY <1>1, PTL

(* What is left of an insert that has put its entry in a leaf.             *)
LEMMA InsertReturns ==
  ASSUME NEW k \in Key, NEW v \in RecordID, NEW e, e = Entry(k, v), HasTree' => e \in Entries',
         NEW r, r = Return(Inserted(k, v, TRUE))
  PROVE  /\ IsPlain(r) /\ ~IsSearch(r) /\ r.do = "Return"
         /\ \A R : CallOK(R, r)'
<1>1. IsTrue(Inserted(k, v, TRUE))'
  BY InsertIsTrue DEF InsertedOK
<1>2. r.do = "Return" /\ r.answer = Inserted(k, v, TRUE)
  BY DEF Return
<1> QED BY <1>1, <1>2 DEF IsPlain, IsSearch, CallOK, WillInsert

LEMMA UnpinStays ==
  ASSUME NEW page, NEW is_dirty, NEW s, s = UnpinPage(page, is_dirty)
  PROVE  IsPlain(s) /\ ~IsSearch(s) /\ s.do = "UnpinPage" /\ \A R : CallOK(R, s)'
BY DEF UnpinPage, IsPlain, IsSearch, CallOK, WillInsert

(* A leaf stays one.                                                       *)
LEMMA LeafStaysLeaf ==
  ASSUME NEW page \in Leaves, NEW n, LeafOK(n),
         \A p \in PageId : contents'[p] = IF p = page THEN n ELSE contents[p]
  PROVE  Leaves' = Leaves /\ Internals' = Internals
<1>1. n.type = "leaf" /\ page \in PageId /\ contents[page].type = "leaf"
  BY NodeKinds DEF Leaves
<1>2. \A p \in PageId : contents'[p].type = contents[p].type
  BY <1>1
<1> QED BY <1>2, KindsSame DEF Leaves, Internals

LEMMA PlainSeps ==
  ASSUME \A s \in Work : IsPlain(s), \A s \in Work' : IsPlain(s)
  PROVE  /\ \A p : Promised(p) = {} /\ Promised(p)' = {}
         /\ \A p : Seps(p) = Written(p) /\ Seps(p)' = Written(p)'
         /\ \A p : ~Unadopted(p)
         /\ \A s : SplitOfRoot(s) \/ s.do = "InsertIntoParent" => s \notin Work /\ s \notin Work'
<1>1. \A p : Promised(p) = {} /\ Promised(p)' = {}
  BY DEF Promised, IsPromise, IsPlain
<1> QED BY <1>1 DEF IsPlain, Unadopted, SplitOfRoot, Seps

LEMMA InsertIntoLeafKeepsKeys ==
  ASSUME IInv, IInv', KeyInv, InsertIntoLeaf, UNCHANGED <<held, reply, inserts>>
  PROVE  KeyInv' /\ Adds(Head(stack)) /\ NodesStay
<1> DEFINE h    == Head(stack)
           leaf == contents[h.page]
           new  == LeafInsert(leaf, h.key, h.value)
           b    == SplitLeaf(h.page, h.key, h.value)
<1>1. /\ Executing("Descend") /\ h.op = "Insert" /\ ~IsInternal(leaf) /\ root_page_id' = root_page_id
      /\ IF LeafHasRoom(leaf)
         THEN /\ FetchPage(h.page, [contents EXCEPT ![h.page] = new])
              /\ Then(<<UnpinPage(h.page, TRUE), Return(Inserted(h.key, h.value, TRUE))>>)
         ELSE FetchPage(h.page, contents) /\ Then(<<b>>)
  BY DEF InsertIntoLeaf
<1> HIDE DEF new, b
<1>2. PICK s : s = h
  OBVIOUS
<1>3. PICK page : page = s.page
  OBVIOUS
<1>4. /\ s = stack[1] /\ s.do = "Descend" /\ page \in PageId /\ page < num_pages
      /\ s.key \in Key /\ s.value \in RecordID
      /\ stack \in Seq(Statement) /\ stack # <<>> /\ Len(stack) = 1
      /\ page \in Leaves /\ LeafOK(contents[page])
  BY <1>1, <1>2, <1>3, DescendHead
<1>5. PICK lev, R : TreeInv(lev, R) /\ CallInv(R)
  BY DEF KeyInv
<1>6. /\ Work = {s} /\ Behind = {} /\ IsPlain(s)
      /\ s.key \in R[page] /\ ~IsStored(s.key) /\ reply = NoReply
  <2>1. Work = {s} /\ Behind = {} /\ IsPlain(s)
    BY <1>4, OneStatement DEF IsPlain
  <2>2. CallOK(R, s)
    BY <1>5, <2>1 DEF CallInv
  <2> QED BY <2>1, <2>2, <1>1, <1>2, <1>3, <1>4 DEF CallOK, WillInsert, IsSearch
<1>7. CASE ~LeafHasRoom(leaf)
  <2>1. PICK t : t = b
    OBVIOUS
  <2>2. t = SplitLeaf(page, s.key, s.value)
    BY <2>1, <1>2, <1>3 DEF b
  <2>3. t \in Statement
    BY <2>2, <1>4, MakeStatement
  <2>4. PICK xs : xs = <<t>>
    OBVIOUS
  <2>5. Then(xs) /\ xs \in Seq(Statement) /\ WorkOf(xs) = {t}
    BY <1>1, <1>7, <2>1, <2>3, <2>4, OneOf
  <2>6. contents' = contents /\ num_pages' = num_pages
    BY <1>1, <1>7, FetchSame
  <2>7. t.do = "SplitLeaf" /\ t.page = page /\ t.key = s.key
    BY <2>2 DEF SplitLeaf
  <2>8. IsPlain(t) /\ CallOK(R, t)
    BY <2>7, <1>6 DEF IsPlain, CallOK, WillInsert, IsSearch
  <2>9. IsPlain(stack[1])
    BY <1>4, <1>6
  <2>10. KeyInv'
    BY <1>1, <1>4, <1>5, <2>5, <2>6, <2>8, <2>9, PlainCall
  <2>11. Adds(h) /\ NodesStay
    BY <1>1, <2>6, SameEntries, SameNodesStay DEF EntriesSame, Adds
  <2> QED BY <2>10, <2>11
<1>8. CASE LeafHasRoom(leaf)
  <2>1. PICK e : e = Entry(s.key, s.value)
    OBVIOUS
  <2>2. PICK r : r = Return(Inserted(s.key, s.value, TRUE))
    OBVIOUS
  <2>3. r \in Statement
    BY <2>2, <1>4, InsertedAnswer
  <2>4. PICK u : u = UnpinPage(page, TRUE)
    OBVIOUS
  <2>5. u \in Statement
    BY <2>4, <1>4, MakeStatement
  <2>6. PICK xs : xs = <<u, r>>
    OBVIOUS
  <2>7. Then(xs) /\ xs \in Seq(Statement) /\ WorkOf(xs) = {u, r}
    BY <1>1, <1>2, <1>3, <1>8, <2>2, <2>3, <2>4, <2>5, <2>6, TwoOf
  <2>8. Work' = {u, r}
    <3>1. StackInv
      BY DEF IInv
    <3> QED BY <3>1, <1>4, <1>6, <2>7, WorkThen
  <2>9. PICK nodes : nodes = Put(contents, page, new)
    OBVIOUS
  <2>10. FetchPage(page, nodes)
    BY <1>1, <1>2, <1>3, <1>8, <2>9 DEF Put
  <2>11. contents' = nodes /\ num_pages' = num_pages
    BY <2>10, FetchFacts
  <2>12. \A p \in PageId : contents'[p] = IF p = page THEN new ELSE contents[p]
    BY <2>9, <2>11, PutProps, NodeFacts DEF IInv
  <2>13. PICK m : m = new
    OBVIOUS
  <2>14. PICK n : n = contents[page]
    OBVIOUS
  <2>15. PagesInv /\ RangesInv(lev, R) /\ OrderInv(R)
    BY <1>5 DEF IInv, TreeInv
  <2>16. n.array \in Seq(LeafEntry) /\ Len(n.array) \in Nat
    BY <1>4, <2>14 DEF LeafOK, LeafRecord
  <2>17. Lacks(n, s.key)
    <3>1. LeafOK(n) /\ n \in LeafRecord /\ Len(n.array) \in 1 .. LEAF_MAX
      BY <1>4, <2>14 DEF LeafOK
    <3>2. Len(n.array) # LEAF_MAX
      BY <1>2, <1>3, <1>8, <2>14 DEF LeafHasRoom
    <3>3. Len(n.array) < LEAF_MAX
      BY <3>1, <3>2, Sizes
    <3>4. IsRising(n.array, 1)
      BY <1>4, <2>14, <2>15 DEF OrderInv
    <3>5. \A i \in 1 .. Len(n.array) : n.array[i].key # s.key
      <4> SUFFICES ASSUME NEW i \in 1 .. Len(n.array), n.array[i].key = s.key
                   PROVE  FALSE
        OBVIOUS
      <4>1. contents[page].type = "leaf" /\ i \in DOMAIN contents[page].array
        BY <1>4, <2>14, NodeKinds
      <4>2. n.array[i] \in EntriesIn(contents)
        BY <4>1, <1>4, <2>14, EntriesAre
      <4> QED BY <4>2, <1>6, EntriesAre DEF IsStored
    <3> QED BY <3>1, <3>3, <3>4, <3>5 DEF Lacks
  <2>18. /\ LeafOK(m) /\ m.parent = n.parent /\ m.next = n.next
         /\ Joins(n.array, 1, e, m.array)
    <3>1. m = LeafInsert(n, s.key, s.value)
      BY <1>2, <1>3, <2>13, <2>14 DEF new
    <3> QED BY <3>1, <1>4, <2>1, <2>17, LeafInsertKeys
  <2>19. /\ Leaves' = Leaves /\ Internals' = Internals
         /\ \A p \in PageId : p # page => contents'[p] = contents[p]
         /\ contents'[page] = m /\ page \notin Internals
    <3>1. page \notin Internals
      BY <1>4 DEF Leaves, Internals
    <3> QED BY <3>1, <1>4, <2>12, <2>13, <2>18, LeafStaysLeaf
  <2>20. Leaves \subseteq PageId /\ Internals \subseteq PageId /\ Nodes \subseteq PageId
    BY DEF Leaves, Internals, Nodes
  <2>21. /\ IsPlain(u) /\ IsPlain(r) /\ \A R2 : CallOK(R2, u)'
         /\ e.key = s.key
    BY <2>1, <2>2, <2>4, UnpinStays DEF Return, IsPlain, Entry
  <2>22. /\ \A p : Promised(p) = {} /\ Promised(p)' = {}
         /\ \A p : Seps(p) = Written(p) /\ Seps(p)' = Written(p)'
         /\ \A p : ~Unadopted(p)
         /\ \A t : SplitOfRoot(t) \/ t.do = "InsertIntoParent" => t \notin Work /\ t \notin Work'
    <3>1. (\A t \in Work : IsPlain(t)) /\ (\A t \in Work' : IsPlain(t))
      BY <1>6, <2>8, <2>21
    <3> QED BY <3>1, PlainSeps
  <2>23. \A t \in Internals : contents'[t] = contents[t] /\ First(t)' = First(t) /\ Seps(t)' = Seps(t)
    <3> TAKE t \in Internals
    <3>1. contents'[t] = contents[t]
      BY <2>19, <2>20
    <3> QED BY <3>1, <2>22 DEF First, Written
  <2>24. OrderInv(R)'
    <3>1. ASSUME NEW p \in Leaves
          PROVE  /\ IsRising(contents'[p].array, 1)
                 /\ \A i \in 1 .. Len(contents'[p].array) : contents'[p].array[i].key \in R[p]
      <4>1. CASE p # page
        <5>1. contents'[p] = contents[p]
          BY <4>1, <2>19, <2>20
        <5> QED BY <5>1, <2>15 DEF OrderInv
      <4>2. CASE p = page
        <5>1. IsRising(m.array, 1)
          BY <2>18 DEF Joins
        <5>2. ASSUME NEW i \in 1 .. Len(m.array)
              PROVE  m.array[i].key \in R[page]
          <6>1. m.array[i] = e \/ \E j \in 1 .. Len(n.array) : m.array[i] = n.array[j]
            BY <2>18 DEF Joins
          <6>2. \A j \in 1 .. Len(n.array) : n.array[j].key \in R[page]
            BY <1>4, <2>14, <2>15 DEF OrderInv
          <6> QED BY <6>1, <6>2, <1>6, <2>21
        <5> QED BY <5>1, <5>2, <4>2, <2>19
      <4> QED BY <4>1, <4>2
    <3>2. ASSUME NEW p \in Internals
          PROVE  IsRising(contents'[p].array, 2)
      BY <2>15, <2>23 DEF OrderInv
    <3> QED BY <3>1, <3>2, <2>19, <2>22 DEF OrderInv
  <2>25. \A c \in Nodes : contents'[c].parent = contents[c].parent
    BY <2>14, <2>18, <2>19, <2>20
  <2>26. \A p \in Leaves : contents'[p].next = contents[p].next
    BY <2>14, <2>18, <2>19, <2>20
  <2>27. num_pages' \in Nat /\ num_pages <= num_pages'
    BY <2>11, NodeFacts DEF IInv
  <2>28. TreeInv(lev, R)'
    BY <1>1, <1>5, <2>15, <2>19, <2>22, <2>23, <2>24, <2>25, <2>26, <2>27, SepsStay
  <2>29. e \in Entries'
    <3>1. PICK i \in 1 .. Len(m.array) : m.array[i] = e
      BY <2>18 DEF Joins
    <3>2. m.type = "leaf" /\ i \in DOMAIN m.array
      BY <2>18, NodeKinds
    <3>3. e \in EntriesIn(contents')
      BY <3>1, <3>2, <1>4, <2>19, EntriesAre
    <3> QED BY <3>3, EntriesAre
  <2>30. CallInv(R)'
    <3>1. CallOK(R, r)'
      BY <1>4, <2>1, <2>2, <2>29, InsertReturns
    <3> QED BY <3>1, <2>8, <2>21 DEF CallInv
  <2>31. KeyInv'
    BY <2>28, <2>30 DEF KeyInv
  <2>32. NodesStay
    BY <2>19, <2>23 DEF NodesStay
  <2>33. Entries' = Entries \cup {e}
    <3>1. DOMAIN m.array = 1 .. Len(m.array) /\ DOMAIN n.array = 1 .. Len(n.array) /\ n.type = "leaf"
      BY <1>4, <2>14, <2>18, NodeKinds
    <3>2. ASSUME NEW p \in PageId, contents'[p].type = "leaf", NEW i \in DOMAIN contents'[p].array
          PROVE  contents'[p].array[i] = e \/ contents'[p].array[i] \in Entries
      <4>1. CASE p = page
        <5>1. contents'[p] = m /\ i \in 1 .. Len(m.array)
          BY <4>1, <2>19, <3>1, <3>2
        <5>2. m.array[i] = e \/ \E j \in 1 .. Len(n.array) : m.array[i] = n.array[j]
          BY <5>1, <2>18 DEF Joins
        <5>3. \A j \in 1 .. Len(n.array) : n.array[j] \in Entries
          BY <3>1, <1>4, <2>14, EntriesAre
        <5> QED BY <5>1, <5>2, <5>3
      <4>2. CASE p # page
        BY <4>2, <2>19, <3>2, EntriesAre
      <4> QED BY <4>1, <4>2
    <3>3. ASSUME NEW p \in PageId, contents[p].type = "leaf", NEW i \in DOMAIN contents[p].array
          PROVE  contents[p].array[i] \in Entries'
      <4>1. CASE p = page
        <5>1. \E j \in DOMAIN m.array : m.array[j] = contents[p].array[i]
          BY <4>1, <2>14, <2>18, <3>1, <3>3 DEF Joins
        <5>2. contents'[p] = m /\ m.type = "leaf"
          BY <4>1, <2>18, <2>19, NodeKinds
        <5> QED BY <5>1, <5>2, EntriesAre
      <4>2. CASE p # page
        BY <4>2, <2>19, <3>3, EntriesAre
      <4> QED BY <4>1, <4>2
    <3> QED BY <2>29, <3>2, <3>3, LeavesTakeEntry
  <2>34. Adds(h)
    <3>1. WillInsert(s)
      BY <1>1, <1>2, <1>4 DEF WillInsert
    <3> QED BY <3>1, <1>2, <2>1, <2>33 DEF Adds
  <2> QED BY <2>31, <2>32, <2>34
<1> QED BY <1>7, <1>8

(* A tree that is one leaf.                                                *)
LEMMA OneLeaf ==
  ASSUME NEW page \in PageId, Leaves' = {page}, Internals' = {}, root_page_id' = page,
         num_pages' \in Nat, num_pages' > 0,
         IsRising(contents'[page].array, 1), contents'[page].next = NoPage,
         \A i \in 1 .. Len(contents'[page].array) : contents'[page].array[i].key \in Int,
         \A s \in Work' : IsPlain(s),
         NEW lev, lev = [p \in PageId |-> 0], NEW R, R = [p \in PageId |-> Int]
  PROVE  TreeInv(lev, R)'
<1>1. Nodes' = {page} /\ HasTree'
  <2>1. NoPage \notin PageId
    BY Sizes
  <2> QED BY <2>1, KindsSame DEF HasTree
<1>2. lev[page] = 0 /\ R[page] = Int /\ lev \in [PageId -> Nat] /\ R \in [PageId -> SUBSET Int]
  OBVIOUS
<1>3. \A s \in Work' : s.do # "InsertIntoParent"
  BY DEF IsPlain
<1>4. RangesInv(lev, R)'
  BY <1>1, <1>2, PageIdSame DEF RangesInv
<1>5. OrderInv(R)'
  BY <1>2 DEF OrderInv
<1>6. RootInv(lev, R)'
  BY <1>1, <1>2, <1>3 DEF RootInv, SplitOfRoot
<1>7. FamilyInv'
  BY <1>1 DEF FamilyInv
<1>8. ChainInv(R)'
  BY <1>2 DEF ChainInv, IsInterval
<1>9. BottomInv(R)'
  BY <1>1, <1>2 DEF BottomInv
<1> QED BY <1>4, <1>5, <1>6, <1>7, <1>8, <1>9 DEF TreeInv

LEMMA DoStartNewTreeKeepsKeys ==
  ASSUME IInv, IInv', KeyInv, DoStartNewTree, UNCHANGED <<held, reply, inserts>>
  PROVE  KeyInv' /\ Adds(Head(stack)) /\ NodesStay
<1> DEFINE h   == Head(stack)
           new == LeafInsert(Leaf(NoPage, NoPage, <<>>), h.key, h.value)
           ret == Return(Inserted(h.key, h.value, TRUE))
<1>1. /\ Executing("StartNewTree")
      /\ \/ /\ NewPage([contents EXCEPT ![num_pages] = new])
            /\ root_page_id' = num_pages
            /\ Then(<<UnpinPage(num_pages, TRUE), ret>>)
         \/ /\ Then(<<ret>>)
            /\ UNCHANGED <<pool, root_page_id, crashed>>
  BY DEF DoStartNewTree
<1> HIDE DEF new, ret
<1>2. PICK s : s = h
  OBVIOUS
<1>3. PICK q : q = stack
  OBVIOUS
<1>4. /\ s \in Statement /\ s = q[1] /\ s.do = "StartNewTree" /\ IsReady(s)
      /\ q \in Seq(Statement) /\ q # <<>> /\ Len(q) \in Nat \ {0}
  BY <1>1, <1>2, <1>3, HeadProps DEF IInv
<1>5. Len(q) = 1 /\ s.key \in Key /\ s.value \in RecordID /\ root_page_id = NoPage
  <2>1. Shape(q) /\ q[1].do \in {"StartNewTree", "SplitLeaf", "Descend"}
    BY <1>3, <1>4 DEF IInv, StackInv
  <2>2. Len(q) = 1
    BY <1>4, <2>1, ShapeOfHead
  <2> QED BY <1>4, <2>2, StatementFields DEF IsReady
<1>6. PICK r : r = ret
  OBVIOUS
<1>7. PICK e : e = Entry(s.key, s.value)
  OBVIOUS
<1>8. r = Return(Inserted(s.key, s.value, TRUE)) /\ r \in Statement
  BY <1>2, <1>5, <1>6, InsertedAnswer DEF ret
<1>9. Work = {s} /\ Behind = {} /\ IsPlain(s) /\ stack[1] = s
  BY <1>3, <1>4, <1>5, OneStatement DEF IsPlain
<1>10. ASSUME Then(<<ret>>), UNCHANGED <<pool, root_page_id, crashed>>
       PROVE  KeyInv' /\ Adds(s) /\ NodesStay
  <2>1. PICK lev, R : TreeInv(lev, R) /\ CallInv(R)
    BY DEF KeyInv
  <2>2. PICK xs : xs = <<r>>
    OBVIOUS
  <2>3. Then(xs) /\ xs \in Seq(Statement) /\ WorkOf(xs) = {r}
    BY <1>6, <1>8, <1>10, <2>2, OneOf
  <2>4. contents' = contents /\ num_pages' = num_pages /\ root_page_id' = root_page_id
    BY <1>10 DEF pool
  <2>5. ~HasTree
    BY <1>5 DEF HasTree
  <2>6. IsTrue(Inserted(s.key, s.value, TRUE))
    BY <1>5, <2>5, InsertIsTrue DEF InsertedOK
  <2>7. IsPlain(r) /\ CallOK(R, r)
    BY <1>8, <2>6, ReturnOK
  <2>8. stack # <<>> /\ IsPlain(stack[1])
    BY <1>3, <1>4, <1>9
  <2>9. KeyInv'
    BY <2>1, <2>3, <2>4, <2>7, <2>8, PlainCall
  <2>10. Adds(s) /\ NodesStay
    BY <2>4, SameEntries, SameNodesStay DEF EntriesSame, Adds
  <2> QED BY <2>9, <2>10
<1>11. ASSUME NewPage([contents EXCEPT ![num_pages] = new]), root_page_id' = num_pages,
              Then(<<UnpinPage(num_pages, TRUE), ret>>)
       PROVE  KeyInv' /\ Adds(s) /\ NodesStay
  <2>1. PICK page : page = num_pages
    OBVIOUS
  <2>2. PICK nodes : nodes = Put(contents, page, new)
    OBVIOUS
  <2>3. NewPage(nodes)
    BY <1>11, <2>1, <2>2 DEF Put
  <2>4. contents' = nodes /\ page \in PageId /\ num_pages' \in Nat /\ num_pages' > 0
    <3>1. contents' = nodes /\ num_pages \in PageId /\ num_pages' = num_pages + 1
      BY <2>3, NewFacts
    <3> QED BY <3>1, <2>1, Sizes
  <2>5. PICK u : u = UnpinPage(page, TRUE)
    OBVIOUS
  <2>6. u \in Statement
    BY <2>4, <2>5, MakeStatement
  <2>7. PICK xs : xs = <<u, r>>
    OBVIOUS
  <2>8. Then(xs) /\ xs \in Seq(Statement) /\ WorkOf(xs) = {u, r}
    BY <1>6, <1>8, <1>11, <2>1, <2>5, <2>6, <2>7, TwoOf
  <2>9. Work' = {u, r}
    <3>1. StackInv /\ stack # <<>>
      BY <1>3, <1>4 DEF IInv
    <3> QED BY <3>1, <1>9, <2>8, WorkThen
  <2>10. PICK m : m = new
    OBVIOUS
  <2>11. \A p \in PageId : contents'[p] = IF p = page THEN m ELSE contents[p]
    BY <2>2, <2>4, <2>10, PutProps, NodeFacts DEF IInv
  <2>12. PICK n : n = Leaf(NoPage, NoPage, <<>>)
    OBVIOUS
  <2>13. n \in LeafRecord /\ Len(n.array) = 0 /\ n.next = NoPage
    BY <2>12 DEF Leaf, LeafRecord
  <2>14. /\ LeafOK(m) /\ m.next = NoPage
         /\ Joins(n.array, 1, e, m.array)
    <3>1. Lacks(n, s.key)
      BY <2>13, Sizes DEF Lacks, IsRising
    <3>2. m = LeafInsert(n, s.key, s.value)
      BY <1>2, <2>10, <2>12 DEF new
    <3> QED BY <3>1, <3>2, <1>5, <1>7, <2>13, LeafInsertKeys
  <2>15. \A p \in PageId : contents[p].type = "invalid"
    BY <1>5, NodeFacts DEF IInv, PagesInv, BlankPage
  <2>16. m.type = "leaf" /\ Len(m.array) \in Nat /\ DOMAIN m.array = 1 .. Len(m.array)
    BY <2>14, NodeKinds
  <2>17. Leaves' = {page} /\ Internals' = {}
    BY <2>4, <2>11, <2>15, <2>16, KindsSame
  <2>18. /\ IsPlain(u) /\ IsPlain(r) /\ \A R2 : CallOK(R2, u)'
         /\ e.key = s.key
    BY <1>7, <1>8, <2>5, UnpinStays DEF Return, IsPlain, Entry
  <2>19. contents'[page] = m
    BY <2>4, <2>11
  <2>20. IsRising(m.array, 1) /\ \A i \in 1 .. Len(m.array) : m.array[i] = e
    BY <2>13, <2>14 DEF Joins
  <2>21. \A i \in 1 .. Len(m.array) : m.array[i].key \in Int
    BY <1>5, <2>18, <2>20, Sizes
  <2>22. PICK lev, R : lev = [p \in PageId |-> 0] /\ R = [p \in PageId |-> Int]
    OBVIOUS
  <2>23. TreeInv(lev, R)'
    <3>1. \A t \in Work' : IsPlain(t)
      BY <2>9, <2>18
    <3>2. root_page_id' = page
      BY <1>11, <2>1
    <3> QED BY <3>1, <3>2, <2>4, <2>14, <2>17, <2>19, <2>20, <2>21, <2>22, OneLeaf
  <2>24. e \in Entries'
    <3>1. PICK i \in 1 .. Len(m.array) : m.array[i] = e
      BY <2>14 DEF Joins
    <3>2. m.type = "leaf" /\ i \in DOMAIN m.array
      BY <2>16
    <3>3. e \in EntriesIn(contents')
      BY <3>1, <3>2, <2>4, <2>19, EntriesAre
    <3> QED BY <3>3, EntriesAre
  <2>25. CallInv(R)'
    <3>1. CallOK(R, r)'
      BY <1>5, <1>7, <1>8, <2>24, InsertReturns
    <3> QED BY <3>1, <2>9, <2>18 DEF CallInv
  <2>26. KeyInv'
    BY <2>23, <2>25 DEF KeyInv
  <2>27. Entries' = Entries \cup {e}
    <3>1. ASSUME NEW p \in PageId, contents'[p].type = "leaf", NEW i \in DOMAIN contents'[p].array
          PROVE  contents'[p].array[i] = e
      <4>1. p = page
        BY <2>11, <2>15, <3>1
      <4> QED BY <4>1, <2>16, <2>19, <2>20, <3>1
    <3> QED BY <2>15, <2>24, <3>1, LeavesTakeEntry
  <2>28. Adds(s) /\ NodesStay
    <3>1. WillInsert(s)
      BY <1>4 DEF WillInsert
    <3>2. Leaves = {} /\ Internals = {}
      BY <2>15 DEF Leaves, Internals
    <3> QED BY <3>1, <3>2, <1>7, <2>27 DEF Adds, NodesStay
  <2> QED BY <2>26, <2>28
<1> QED BY <1>1, <1>2, <1>10, <1>11

-----------------------------------------------------------------------------
(* Splitting a leaf.                                                       *)

(* The list of leaves when one splits.                                     *)
LEMMA SplitKeepsChain ==
  ASSUME NEW lev, NEW R, RangesInv(lev, R), ChainInv(R), Nodes \subseteq PageId,
         NEW p \in Leaves, NEW new \in PageId, new \notin Nodes, NEW m \in Key,
         NEW low \in R[p], m \in R[p], low < m,
         Leaves' = Leaves \cup {new}, contents'[p].next = new,
         contents'[new].next = contents[p].next,
         \A q \in Leaves : q # p => contents'[q].next = contents[q].next,
         NEW R2, R2 = Cut(R, p, m, new)
  PROVE  ChainInv(R2)'
<1>1. /\ p \in PageId /\ p # new /\ m \in Int /\ Leaves \subseteq Nodes /\ Leaves \subseteq PageId
      /\ new \notin Leaves /\ lev \in [PageId -> Nat] /\ R \in [PageId -> SUBSET Int]
  BY Sizes DEF RangesInv, Nodes
<1>2. /\ R2 \in [PageId -> SUBSET Int] /\ CutAt(R, R2, p, m, new)
      /\ \A c \in PageId : c # p /\ c # new => R2[c] = R[c]
  BY <1>1, CutProps
<1>3. PICK P : P = R[p]
  OBVIOUS
<1>4. /\ P \subseteq Int /\ R2[p] \subseteq Int /\ R2[new] \subseteq Int
      /\ \A x \in Int : x \in R2[p] <=> x \in P /\ x < m
      /\ \A x \in Int : x \in R2[new] <=> x \in P /\ m <= x
  BY <1>1, <1>2, <1>3 DEF CutAt
<1>5. \A x, y \in P : \A z \in Int : x <= z /\ z <= y => z \in P
  BY <1>3 DEF ChainInv, IsInterval
<1>6. ASSUME NEW q \in Leaves'
      PROVE  IsInterval(R2[q])
  <2>1. CASE q = p
    BY <2>1, <1>4, <1>5, <1>1 DEF IsInterval
  <2>2. CASE q = new
    BY <2>2, <1>4, <1>5, <1>1 DEF IsInterval
  <2>3. CASE q # p /\ q # new
    BY <2>3, <1>1, <1>2 DEF ChainInv
  <2> QED BY <2>1, <2>2, <2>3
<1>7. Joined(R2[p], R2[new])
  <2> SUFFICES ASSUME NEW x \in R2[p], NEW y \in R2[new]
               PROVE  x < y /\ \A z \in Int : x <= z /\ z <= y => z \in R2[p] \cup R2[new]
    BY DEF Joined
  <2>1. x \in P /\ y \in P /\ x < m /\ m <= y /\ x \in Int /\ y \in Int
    BY <1>4
  <2> QED BY <2>1, <1>1, <1>4, <1>5
<1>8. \/ contents[p].next = NoPage /\ \A x \in P, y \in Int : x <= y => y \in P
      \/ contents[p].next \in Leaves /\ Joined(P, R[contents[p].next])
  BY <1>3 DEF ChainInv
<1>9. \/ contents[p].next = NoPage /\ \A x \in R2[new], y \in Int : x <= y => y \in R2[new]
      \/ contents[p].next \in Leaves' /\ Joined(R2[new], R2[contents[p].next])
  <2>1. CASE contents[p].next = NoPage /\ \A x \in P, y \in Int : x <= y => y \in P
    <3>1. ASSUME NEW x \in R2[new], NEW y \in Int, x <= y
          PROVE  y \in R2[new]
      <4>1. x \in P /\ m <= x /\ x \in Int
        BY <1>4
      <4>2. y \in P /\ m <= y
        BY <4>1, <2>1, <3>1, <1>1
      <4> QED BY <4>2, <1>4
    <3> QED BY <2>1, <3>1
  <2>2. CASE contents[p].next \in Leaves /\ Joined(P, R[contents[p].next])
    <3>1. PICK q : q = contents[p].next
      OBVIOUS
    <3>2. q \in Leaves /\ Joined(P, R[q])
      BY <2>2, <3>1
    <3>3. q # p
      <4> SUFFICES ASSUME q = p
                   PROVE  FALSE
        OBVIOUS
      <4>1. low \in P /\ low \in R[q]
        BY <1>3
      <4>2. low < low /\ low \in Int
        BY <4>1, <3>2, <1>4 DEF Joined
      <4> QED BY <4>2
    <3>4. R2[q] = R[q] /\ q \in Leaves' /\ R[q] \subseteq Int
      BY <3>2, <3>3, <1>1, <1>2
    <3>5. ASSUME NEW x \in R2[new], NEW y \in R[q]
          PROVE  x < y /\ \A z \in Int : x <= z /\ z <= y => z \in R2[new] \cup R[q]
      <4>1. x \in P /\ m <= x /\ x \in Int
        BY <1>4
      <4>2. x < y /\ \A z \in Int : x <= z /\ z <= y => z \in P \cup R[q]
        BY <4>1, <3>2 DEF Joined
      <4>3. \A z \in Int : x <= z => m <= z
        BY <4>1, <1>1
      <4> QED BY <4>2, <4>3, <1>4
    <3> QED BY <3>1, <3>4, <3>5 DEF Joined
  <2> QED BY <2>1, <2>2, <1>8
<1>10. ASSUME NEW q \in Leaves, q # p
       PROVE  \/ contents[q].next = NoPage /\ \A x \in R2[q], y \in Int : x <= y => y \in R2[q]
              \/ contents[q].next \in Leaves' /\ Joined(R2[q], R2[contents[q].next])
  <2>1. R2[q] = R[q] /\ R[q] \subseteq Int
    BY <1>1, <1>2, <1>10
  <2>2. CASE contents[q].next = NoPage
    BY <2>1, <2>2, Sizes, <1>1 DEF ChainInv
  <2>3. CASE contents[q].next # NoPage
    <3>1. PICK t : t = contents[q].next
      OBVIOUS
    <3>2. t \in Leaves /\ Joined(R[q], R[t])
      BY <2>3, <3>1 DEF ChainInv
    <3>3. CASE t # p
      <4>1. R2[t] = R[t]
        BY <3>2, <3>3, <1>1, <1>2
      <4> QED BY <4>1, <2>1, <3>1, <3>2
    <3>4. CASE t = p
      <4>1. ASSUME NEW x \in R[q], NEW y \in R2[p]
            PROVE  x < y /\ \A z \in Int : x <= z /\ z <= y => z \in R[q] \cup R2[p]
        <5>1. y \in P /\ y < m /\ y \in Int
          BY <1>4
        <5>2. x < y /\ \A z \in Int : x <= z /\ z <= y => z \in R[q] \cup P
          BY <5>1, <3>2, <3>4, <1>3 DEF Joined
        <5>3. \A z \in Int : z <= y => z < m
          BY <5>1, <1>1
        <5> QED BY <5>2, <5>3, <1>4
      <4> QED BY <4>1, <2>1, <3>1, <3>2, <3>4 DEF Joined
    <3> QED BY <3>3, <3>4
  <2> QED BY <2>2, <2>3
<1>11. ASSUME NEW q \in Leaves'
       PROVE  \/ contents'[q].next = NoPage /\ \A x \in R2[q], y \in Int : x <= y => y \in R2[q]
              \/ contents'[q].next \in Leaves' /\ Joined(R2[q], R2[contents'[q].next])
  <2>1. CASE q = p
    BY <2>1, <1>7
  <2>2. CASE q = new
    BY <2>2, <1>9
  <2>3. CASE q # p /\ q # new
    <3>1. q \in Leaves /\ contents'[q].next = contents[q].next
      BY <2>3
    <3> QED BY <3>1, <2>3, <1>10
  <2> QED BY <2>1, <2>2, <2>3
<1> QED BY <1>6, <1>11 DEF ChainInv

(* A key that a node is split at is not a separator of its parent.         *)
LEMMA FreshSeparator ==
  ASSUME NEW lev, NEW R, RangesInv(lev, R), Nodes \subseteq PageId, NEW t \in Internals,
         NEW p \in Kids(t), NEW low \in R[p], NEW m \in R[p], low \in Int, m \in Int, low < m
  PROVE  \A f \in Seps(t) : f.key # m
<1> SUFFICES ASSUME NEW f \in Seps(t), f.key = m
             PROVE  FALSE
  OBVIOUS
<1>1. Slots(First(t), Seps(t), R[t], R) /\ \A e \in Seps(t) : e.key \in Int
  BY Sizes DEF RangesInv
<1>2. m \in R[t]
  BY <1>1, SlotsInside DEF Kids
<1>3. \A g \in Seps(t) : g.key <= f.key \/ m < g.key
  BY <1>1
<1>4. m \in R[f.value]
  BY <1>1, <1>2, <1>3 DEF Slots
<1>5. f.value \in Kids(t)
  BY DEF Kids, ChildrenOf
<1>6. p \in Nodes /\ f.value \in Nodes /\ lev[p] + 1 = lev[t] /\ lev[f.value] + 1 = lev[t]
  BY <1>5 DEF RangesInv
<1>7. lev[p] \in Nat /\ lev[f.value] \in Nat
  BY <1>6 DEF RangesInv
<1>8. f.value = p
  BY <1>4, <1>6, <1>7 DEF RangesInv
<1>9. f.key <= low
  BY <1>1, <1>8 DEF Slots
<1> QED BY <1>9

(* The entry for the new half is on its way into the parent.               *)
LEMMA OnePromise ==
  ASSUME NEW p, NEW m, NEW new, NEW b, b = InsertIntoParent(p, m, new), b \in Work',
         \A s \in Work' : IsPromise(s) => s = b
  PROVE  \A t : Promised(t)' = IF contents'[p].parent = t THEN {Entry(m, new)} ELSE {}
<1>1. b.do = "InsertIntoParent" /\ b.page = p /\ b.key = m /\ b.new = new /\ IsPromise(b)
  BY DEF InsertIntoParent, IsPromise
<1>2. Owner(b)' = contents'[p].parent
  BY <1>1 DEF Owner
<1>3. ASSUME NEW t
      PROVE  {s \in Work' : IsPromise(s) /\ Owner(s)' = t} = IF contents'[p].parent = t THEN {b} ELSE {}
  BY <1>1, <1>2
<1>4. ASSUME NEW t
      PROVE  Promised(t)' = {Entry(s.key, s.new) : s \in {r \in Work' : IsPromise(r) /\ Owner(r)' = t}}
  BY DEF Promised
<1> QED BY <1>1, <1>3, <1>4

LEMMA GoUpStays ==
  ASSUME NEW p, NEW m, NEW new, NEW b, b = InsertIntoParent(p, m, new)
  PROVE  /\ IsPromise(b) /\ ~IsSearch(b) /\ b.do = "InsertIntoParent"
         /\ b.page = p /\ b.key = m /\ b.new = new /\ \A R : CallOK(R, b)'
BY DEF InsertIntoParent, IsPromise, IsSearch, CallOK, WillInsert

LEMMA FourOf ==
  ASSUME NEW q, Len(q) = 4
  PROVE  WorkOf(q) = {q[1], q[2], q[3], q[4]}
<1>1. 1 .. 4 = {1, 2, 3, 4}
  OBVIOUS
<1>2. WorkOf(q) = {q[i] : i \in {1, 2, 3, 4}}
  BY <1>1 DEF WorkOf
<1> QED BY <1>2

LEMMA IsEntryOf ==
  ASSUME PagesInv, NEW p \in Leaves, NEW i \in 1 .. Len(contents[p].array)
  PROVE  contents[p].array[i] \in Entries
<1>1. contents[p].type = "leaf" /\ i \in DOMAIN contents[p].array /\ p \in PageId
  BY NodeFacts, NodeKinds DEF Leaves
<1> QED BY <1>1, EntriesAre

LEMMA DoSplitLeafKeepsKeys ==
  ASSUME IInv, IInv', KeyInv, DoSplitLeaf, UNCHANGED <<held, reply, inserts>>
  PROVE  KeyInv' /\ Adds(Head(stack)) /\ NodesStay
<1> DEFINE h   == Head(stack)
           lf  == contents[h.page]
           yes == Return(Inserted(h.key, h.value, TRUE))
           no  == Return(Refused(h.key, h.value))
<1>1. /\ Executing("SplitLeaf") /\ root_page_id' = root_page_id
      /\ \/ /\ NewPage([contents EXCEPT ![h.page] = LeftLeaf(lf, h.key, h.value, num_pages),
                                        ![num_pages] = RightLeaf(lf, h.key, h.value)])
            /\ Then(PassUp(h.page, MiddleOfLeaf(lf), num_pages) \o <<yes>>)
         \/ /\ ~Pool!HasRoom
            /\ Then(<<no>>)
            /\ UNCHANGED <<pool, crashed>>
  BY DEF DoSplitLeaf, LeftLeaf, RightLeaf, MiddleOfLeaf
<1> HIDE DEF yes, no
<1>2. PICK s : s = h
  OBVIOUS
<1>3. PICK q : q = stack
  OBVIOUS
<1>4. /\ s \in Statement /\ s = q[1] /\ s.do = "SplitLeaf" /\ IsReady(s)
      /\ q \in Seq(Statement) /\ q # <<>> /\ Len(q) \in Nat \ {0}
  BY <1>1, <1>2, <1>3, HeadProps DEF IInv
<1>5. Len(q) = 1 /\ s.page \in PageId /\ s.key \in Key /\ s.value \in RecordID
  <2>1. Shape(q) /\ q[1].do \in {"StartNewTree", "SplitLeaf", "Descend"}
    BY <1>3, <1>4 DEF IInv, StackInv
  <2>2. Len(q) = 1
    BY <1>4, <2>1, ShapeOfHead
  <2> QED BY <1>4, <2>2, StatementFields
<1>6. PICK page : page = s.page
  OBVIOUS
<1>7. PICK leaf : leaf = contents[page]
  OBVIOUS
<1>8. /\ page \in Leaves /\ page \in Nodes /\ page \in PageId /\ page < num_pages
      /\ LeafOK(leaf) /\ Len(leaf.array) = LEAF_MAX /\ page \notin Internals
  <2>1. page \in Leaves /\ Len(leaf.array) = LEAF_MAX
    BY <1>4, <1>6, <1>7 DEF IsReady
  <2>2. page \in Nodes /\ page \notin Internals
    BY <2>1 DEF Nodes, Leaves, Internals
  <2> QED BY <1>5, <1>6, <1>7, <2>1, <2>2, NodeFacts DEF IInv
<1>9. PICK lev, R : TreeInv(lev, R) /\ CallInv(R)
  BY DEF KeyInv
<1>10. /\ Work = {s} /\ Behind = {} /\ IsPlain(s) /\ stack[1] = s /\ stack # <<>>
       /\ s.key \in R[page] /\ ~IsStored(s.key)
  <2>1. Work = {s} /\ Behind = {} /\ IsPlain(s) /\ stack[1] = s /\ stack # <<>>
    BY <1>3, <1>4, <1>5, OneStatement DEF IsPlain
  <2>2. CallOK(R, s)
    BY <1>9, <2>1 DEF CallInv
  <2> QED BY <2>1, <2>2, <1>4, <1>6 DEF CallOK, WillInsert
<1>11. /\ PagesInv /\ ParentsInv /\ StackInv /\ RangesInv(lev, R) /\ OrderInv(R) /\ RootInv(lev, R)
       /\ FamilyInv /\ ChainInv(R) /\ BottomInv(R)
  BY <1>9 DEF IInv, TreeInv
<1>12. PICK e : e = Entry(s.key, s.value)
  OBVIOUS
<1>13. ASSUME ~Pool!HasRoom, Then(<<no>>), UNCHANGED <<pool, crashed>>
       PROVE  KeyInv' /\ Adds(s) /\ NodesStay
  <2>1. PICK r : r = no
    OBVIOUS
  <2>2. r = Return(Refused(s.key, s.value)) /\ r \in Statement
    <3>1. r = Return(Inserted(s.key, s.value, FALSE)) /\ r = Return(Refused(s.key, s.value))
      BY <1>2, <2>1 DEF no, Refused
    <3> QED BY <3>1, <1>5, InsertedAnswer
  <2>3. PICK xs : xs = <<r>>
    OBVIOUS
  <2>4. Then(xs) /\ xs \in Seq(Statement) /\ WorkOf(xs) = {r}
    BY <1>13, <2>1, <2>2, <2>3, OneOf
  <2>5. contents' = contents /\ num_pages' = num_pages
    BY <1>13 DEF pool
  <2>6. IsTrue(Refused(s.key, s.value))
    BY <1>5, <1>10, <1>12, TrueAnswers
  <2>7. IsPlain(r) /\ CallOK(R, r)
    BY <2>2, <2>6, ReturnOK
  <2>8. KeyInv'
    BY <1>1, <1>9, <1>10, <2>4, <2>5, <2>7, PlainCall
  <2>9. Adds(s) /\ NodesStay
    BY <1>1, <2>5, SameEntries, SameNodesStay DEF EntriesSame, Adds
  <2> QED BY <2>8, <2>9
<1>14. ASSUME NewPage([contents EXCEPT ![h.page] = LeftLeaf(lf, h.key, h.value, num_pages),
                                       ![num_pages] = RightLeaf(lf, h.key, h.value)]),
              Then(PassUp(h.page, MiddleOfLeaf(lf), num_pages) \o <<yes>>)
       PROVE  KeyInv' /\ Adds(s) /\ NodesStay
  <2>1. PICK new : new = num_pages
    OBVIOUS
  <2>2. PICK l : l = LeftLeaf(leaf, s.key, s.value, new)
    OBVIOUS
  <2>3. PICK rt : rt = RightLeaf(leaf, s.key, s.value)
    OBVIOUS
  <2>4. PICK m : m = MiddleOfLeaf(leaf)
    OBVIOUS
  <2>5. PICK nodes : nodes = Put(Put(contents, page, l), new, rt)
    OBVIOUS
  <2>6. NewPage(nodes)
    <3>1. /\ lf = leaf /\ h.page = page
          /\ l = LeftLeaf(lf, h.key, h.value, num_pages) /\ rt = RightLeaf(lf, h.key, h.value)
      BY <1>2, <1>6, <1>7, <2>1, <2>2, <2>3
    <3>2. nodes = [contents EXCEPT ![page] = l, ![num_pages] = rt]
      BY <2>1, <2>5 DEF Put
    <3> HIDE DEF h, lf
    <3> QED BY <1>14, <3>1, <3>2
  <2>7. /\ contents' = nodes /\ new \in PageId /\ new \notin Nodes /\ new # page
        /\ num_pages \in Nat /\ num_pages' \in Nat /\ num_pages <= num_pages'
    <3>1. /\ contents' = nodes /\ num_pages \in PageId /\ num_pages \notin Nodes
          /\ num_pages' = num_pages + 1
      BY <2>6, NewFacts
    <3> QED BY <3>1, <1>8, <2>1, Sizes
  <2>8. /\ LeafOK(l) /\ LeafOK(rt) /\ l.parent = leaf.parent /\ rt.parent = leaf.parent
        /\ l.next = new /\ rt.next = leaf.next /\ m \in Key /\ m \in Int
    <3>1. /\ LeafOK(l) /\ LeafOK(rt) /\ l.parent = leaf.parent /\ rt.parent = leaf.parent
          /\ l.next = new /\ rt.next = leaf.next /\ m \in Key
      BY <1>5, <1>8, <2>2, <2>3, <2>4, <2>7, SplitLeafProps
    <3> QED BY <3>1, Sizes
  <2>9. PICK r : r = yes
    OBVIOUS
  <2>10. r = Return(Inserted(s.key, s.value, TRUE)) /\ r \in Statement /\ r.do = "Return"
    <3>1. r = Return(Inserted(s.key, s.value, TRUE))
      BY <1>2, <2>9 DEF yes
    <3> QED BY <3>1, <1>5, InsertedAnswer DEF Return
  <2>11. PICK xs : xs = GoUpAndReturn(page, m, new, r)
    OBVIOUS
  <2>12. Then(xs)
    <3>1. PassUp(page, m, new) \o <<r>> = GoUpAndReturn(page, m, new, r)
      BY <1>8, <2>7, <2>8, <2>10, GoUpAndReturnIs
    <3>2. Then(PassUp(page, m, new) \o <<r>>)
      BY <1>2, <1>6, <1>7, <1>14, <2>1, <2>4, <2>9
    <3> QED BY <3>1, <3>2, <2>11
  <2>13. PICK b : b = InsertIntoParent(page, m, new)
    OBVIOUS
  <2>14. PICK u, v : u = UnpinPage(page, TRUE) /\ v = UnpinPage(new, TRUE)
    OBVIOUS
  <2>15. Work' = {b, u, v, r}
    <3>1. xs = <<b, u, v, r>>
      BY <2>11, <2>13, <2>14 DEF GoUpAndReturn
    <3>2. b \in Statement /\ u \in Statement /\ v \in Statement
      BY <1>8, <2>7, <2>8, <2>13, <2>14, MakeStatement
    <3>3. Len(xs) = 4 /\ xs[1] = b /\ xs[2] = u /\ xs[3] = v /\ xs[4] = r
      BY <3>1
    <3>4. WorkOf(xs) = {b, u, v, r}
      BY <3>3, FourOf
    <3>5. xs \in Seq(Statement)
      <4>1. r \in Statement /\ r.do = "Return" /\ m \in Key
        BY <2>8, <2>10
      <4> QED BY <4>1, <1>8, <2>7, <2>11, GoUpAndReturnProps
    <3> QED BY <3>4, <3>5, <1>10, <1>11, <2>12, WorkThen
  <2>16. /\ b.do = "InsertIntoParent" /\ ~IsSearch(b) /\ \A R2 : CallOK(R2, b)'
         /\ IsPlain(u) /\ IsPlain(v) /\ IsPlain(r) /\ \A R2 : CallOK(R2, u)' /\ CallOK(R2, v)'
    <3>1. b.do = "InsertIntoParent" /\ ~IsSearch(b) /\ \A R2 : CallOK(R2, b)'
      BY <2>13, GoUpStays
    <3>2. IsPlain(u) /\ \A R2 : CallOK(R2, u)'
      BY <2>14, UnpinStays
    <3>3. IsPlain(v) /\ \A R2 : CallOK(R2, v)'
      BY <2>14, UnpinStays
    <3>4. IsPlain(r)
      BY <2>10 DEF IsPlain
    <3> QED BY <3>1, <3>2, <3>3, <3>4
  <2>17. \A t : Promised(t)' = IF contents'[page].parent = t THEN {Entry(m, new)} ELSE {}
    <3>1. b \in Work' /\ \A t \in Work' : IsPromise(t) => t = b
      BY <2>15, <2>16 DEF IsPlain, IsPromise
    <3> QED BY <3>1, <2>13, OnePromise
  <2>18. /\ contents'[new] = rt /\ contents'[page] = l
         /\ \A p \in PageId : p # new /\ p # page => contents'[p] = contents[p]
    <3>1. PICK c : c = Put(contents, page, l)
      OBVIOUS
    <3>2. IsPages(c) /\ \A p \in PageId : c[p] = IF p = page THEN l ELSE contents[p]
      BY <3>1, PutProps, NodeFacts DEF IInv
    <3>3. nodes = Put(c, new, rt)
      BY <2>5, <3>1
    <3>4. \A p \in PageId : nodes[p] = IF p = new THEN rt ELSE c[p]
      BY <3>2, <3>3, PutProps
    <3> QED BY <3>2, <3>4, <1>8, <2>7
  <2>19. /\ Leaves \subseteq PageId /\ Internals \subseteq PageId /\ Nodes \subseteq PageId
         /\ Leaves \subseteq Nodes /\ Internals \subseteq Nodes /\ Leaves \cap Internals = {}
    BY DEF Leaves, Internals, Nodes
  <2>20. Leaves' = Leaves \cup {new} /\ Internals' = Internals /\ Nodes' = Nodes \cup {new}
    <3>1. l.type = "leaf" /\ rt.type = "leaf" /\ contents[page].type = "leaf"
      BY <1>7, <1>8, <2>8, NodeKinds
    <3>2. contents[new].type # "internal"
      BY <2>7 DEF Nodes, Internals
    <3>3. \A p \in PageId : contents'[p].type = IF p = new THEN "leaf" ELSE contents[p].type
      BY <3>1, <2>18
    <3>4. Leaves' = Leaves \cup {new} /\ Internals' = Internals
      BY <3>2, <3>3, <2>7, KindsSame DEF Leaves, Internals
    <3> QED BY <3>4, KindsSame DEF Nodes
  <2>21. IsRising(leaf.array, 1) /\ \A i \in 1 .. Len(leaf.array) : leaf.array[i].key \in R[page]
    BY <1>7, <1>8, <1>11 DEF OrderInv
  <2>22. \A i \in 1 .. Len(leaf.array) : leaf.array[i].key # s.key
    <3> SUFFICES ASSUME NEW i \in 1 .. Len(leaf.array), leaf.array[i].key = s.key
                 PROVE  FALSE
      OBVIOUS
    <3>1. leaf.array[i] \in Entries
      BY <1>7, <1>8, <1>11, IsEntryOf
    <3> QED BY <3>1, <1>10 DEF IsStored
  <2>23. /\ \E i \in 1 .. Len(leaf.array) : leaf.array[i].key = m /\ leaf.array[1].key < m
         /\ IsRising(l.array, 1) /\ IsRising(rt.array, 1)
         /\ \A i \in 1 .. Len(l.array) : l.array[i].key < m /\
              (l.array[i] = e \/ \E j \in 1 .. Len(leaf.array) : l.array[i] = leaf.array[j])
         /\ \A i \in 1 .. Len(rt.array) : m <= rt.array[i].key /\
              (rt.array[i] = e \/ \E j \in 1 .. Len(leaf.array) : rt.array[i] = leaf.array[j])
         /\ \A j \in 1 .. Len(leaf.array) :
              \/ \E i \in 1 .. Len(l.array) : l.array[i] = leaf.array[j]
              \/ \E i \in 1 .. Len(rt.array) : rt.array[i] = leaf.array[j]
         /\ \/ \E i \in 1 .. Len(l.array) : l.array[i] = e
            \/ \E i \in 1 .. Len(rt.array) : rt.array[i] = e
    <3>1. HalvesLeaf(leaf, e, m, l, rt)
      BY <1>5, <1>8, <1>12, <2>2, <2>3, <2>4, <2>7, <2>21, <2>22, SplitLeafKeys
    <3> QED BY <3>1 DEF HalvesLeaf
  <2>24. PICK low \in R[page] : low < m /\ m \in R[page] /\ low \in Int
    <3>1. 1 \in 1 .. Len(leaf.array)
      BY <1>8, Sizes
    <3>2. leaf.array[1].key \in R[page] /\ leaf.array[1].key < m /\ m \in R[page]
      BY <3>1, <2>21, <2>23
    <3>3. R[page] \subseteq Int
      BY <1>8, <1>11 DEF RangesInv
    <3> QED BY <3>2, <3>3
  <2>25. \A t \in Internals : page \in Kids(t) <=> leaf.parent = t
    <3>1. ~Unadopted(page) /\ \A t \in Work : ~(SplitOfRoot(t) /\ t.new = page)
      BY <1>10 DEF Unadopted, IsPlain, SplitOfRoot
    <3> QED BY <3>1, <1>7, <1>8, <1>11, ExactParent
  <2>26. \A t \in Internals : /\ First(t)' = First(t) /\ Written(t)' = Written(t)
                              /\ Seps(t) = Written(t) /\ contents'[t] = contents[t]
                              /\ Promised(t)' = IF page \in Kids(t) THEN {Entry(m, new)} ELSE {}
    <3> TAKE t \in Internals
    <3>1. contents'[t] = contents[t]
      BY <1>8, <2>7, <2>18, <2>19
    <3>2. Seps(t) = Written(t)
      BY <1>10, NothingPromised
    <3>3. contents'[page].parent = leaf.parent
      BY <2>8, <2>18
    <3> QED BY <3>1, <3>2, <3>3, <2>17, <2>25 DEF First, Written
  <2>27. SplitsOff(page, m, new)
    <3>1. \A t \in Internals : First(t)' = First(t) /\
            Seps(t)' = IF page \in Kids(t) THEN Seps(t) \cup {Entry(m, new)} ELSE Seps(t)
      <4> TAKE t \in Internals
      <4>1. Seps(t)' = Written(t)' \cup Promised(t)'
        BY DEF Seps
      <4> QED BY <4>1, <2>26
    <3> QED BY <3>1, <1>8, <2>20 DEF SplitsOff
  <2>28. PICK lev2, R2 : lev2 = Beside(lev, page, new) /\ R2 = Cut(R, page, m, new)
    OBVIOUS
  <2>29. RangesInv(lev2, R2)'
    BY <1>8, <1>11, <2>7, <2>8, <2>19, <2>24, <2>27, <2>28, SplitKeepsRanges
  <2>30. /\ CutAt(R, R2, page, m, new)
         /\ \A c \in PageId : c # page /\ c # new => R2[c] = R[c]
    BY <1>8, <1>11, <2>7, <2>8, <2>28, CutProps DEF RangesInv
  <2>31. OrderInv(R2)'
    <3>1. \A i \in 1 .. Len(leaf.array) : leaf.array[i].key \in Int
      BY <1>8, <1>11, <2>21 DEF RangesInv
    <3>2. e.key = s.key /\ s.key \in Int
      BY <1>5, <1>12, Sizes DEF Entry
    <3>3. ASSUME NEW i \in 1 .. Len(l.array)
          PROVE  l.array[i].key \in R2[page]
      <4>1. l.array[i].key \in R[page] /\ l.array[i].key \in Int
        BY <2>21, <2>23, <3>1, <3>2, <1>10
      <4> QED BY <4>1, <2>23, <2>30 DEF CutAt
    <3>4. ASSUME NEW i \in 1 .. Len(rt.array)
          PROVE  rt.array[i].key \in R2[new]
      <4>1. rt.array[i].key \in R[page] /\ rt.array[i].key \in Int
        BY <2>21, <2>23, <3>1, <3>2, <1>10
      <4> QED BY <4>1, <2>23, <2>30 DEF CutAt
    <3>5. ASSUME NEW p \in Leaves'
          PROVE  /\ IsRising(contents'[p].array, 1)
                 /\ \A i \in 1 .. Len(contents'[p].array) : contents'[p].array[i].key \in R2[p]
      <4>1. CASE p = page
        BY <4>1, <3>3, <2>18, <2>23
      <4>2. CASE p = new
        BY <4>2, <3>4, <2>18, <2>23
      <4>3. CASE p # page /\ p # new
        <5>1. p \in Leaves /\ contents'[p] = contents[p] /\ R2[p] = R[p]
          BY <4>3, <2>18, <2>19, <2>20, <2>30
        <5> QED BY <5>1, <1>11 DEF OrderInv
      <4> QED BY <4>1, <4>2, <4>3
    <3>6. ASSUME NEW p \in Internals
          PROVE  /\ IsRising(contents'[p].array, 2)
                 /\ \A d \in Promised(p)', f \in Written(p)' : d.key # f.key
      <4>1. IsRising(contents'[p].array, 2)
        BY <1>11, <2>26 DEF OrderInv
      <4>2. ASSUME NEW d \in Promised(p)', NEW f \in Written(p)'
            PROVE  d.key # f.key
        <5>1. page \in Kids(p) /\ d = Entry(m, new) /\ f \in Seps(p)
          BY <2>26
        <5>2. f.key # m
          BY <5>1, <1>11, <2>8, <2>19, <2>24, FreshSeparator
        <5> QED BY <5>1, <5>2 DEF Entry
      <4> QED BY <4>1, <4>2
    <3> QED BY <3>5, <3>6, <2>20 DEF OrderInv
  <2>32. /\ \A t \in Work : t.do \notin {"InsertIntoParent", "AdoptChildren"}
         /\ b \in Work' /\ \A t \in Work' : t.do = "InsertIntoParent" => t = b
    BY <1>10, <2>15, <2>16 DEF IsPlain
  <2>33. HasTree /\ root_page_id \in Nodes
    BY <1>8, <1>11 DEF PagesInv, HasTree
  <2>34. RootInv(lev2, R2)'
    BY <1>1, <1>8, <1>11, <2>7, <2>8, <2>13, <2>19, <2>20, <2>28, <2>32, <2>33, SplitKeepsRoot
  <2>35. FamilyInv'
    <3>1. \A c \in Nodes : contents'[c].parent = contents[c].parent
      BY <1>7, <2>7, <2>8, <2>18, <2>19
    <3>2. contents'[new].parent = contents[page].parent
      BY <1>7, <2>8, <2>18
    <3> QED BY <3>1, <3>2, <1>1, <1>8, <1>11, <2>7, <2>8, <2>13, <2>19, <2>27, <2>32, SplitKeepsFamily
  <2>36. ChainInv(R2)'
    <3>1. /\ contents'[page].next = new /\ contents'[new].next = contents[page].next
          /\ \A c \in Leaves : c # page => contents'[c].next = contents[c].next
      BY <1>7, <2>7, <2>8, <2>18, <2>19
    <3> QED BY <3>1, <1>8, <1>11, <2>7, <2>8, <2>19, <2>20, <2>24, <2>28, SplitKeepsChain
  <2>37. BottomInv(R2)'
    BY <1>8, <1>11, <2>7, <2>8, <2>19, <2>20, <2>28, SplitKeepsBottom
  <2>38. e \in Entries'
    <3>1. /\ l.type = "leaf" /\ DOMAIN l.array = 1 .. Len(l.array)
          /\ rt.type = "leaf" /\ DOMAIN rt.array = 1 .. Len(rt.array)
      BY <2>8, NodeKinds
    <3>2. \/ contents'[page].type = "leaf" /\ \E i \in DOMAIN contents'[page].array : e = contents'[page].array[i]
          \/ contents'[new].type = "leaf" /\ \E i \in DOMAIN contents'[new].array : e = contents'[new].array[i]
      BY <3>1, <2>18, <2>23
    <3>3. e \in EntriesIn(contents')
      BY <3>2, <1>8, <2>7, EntriesAre
    <3> QED BY <3>3, EntriesAre
  <2>39. CallInv(R2)'
    <3>1. CallOK(R2, r)'
      BY <1>5, <1>12, <2>10, <2>38, InsertReturns
    <3> QED BY <3>1, <2>15, <2>16 DEF CallInv
  <2>40. KeyInv'
    BY <2>29, <2>31, <2>34, <2>35, <2>36, <2>37, <2>39 DEF KeyInv, TreeInv
  <2>41. NodesStay
    BY <2>20, <2>26 DEF NodesStay
  <2>42. Entries' = Entries \cup {e}
    <3>1. /\ l.type = "leaf" /\ DOMAIN l.array = 1 .. Len(l.array)
          /\ rt.type = "leaf" /\ DOMAIN rt.array = 1 .. Len(rt.array)
          /\ leaf.type = "leaf" /\ DOMAIN leaf.array = 1 .. Len(leaf.array)
      BY <1>8, <2>8, NodeKinds
    <3>2. \A j \in DOMAIN leaf.array : leaf.array[j] \in Entries
      BY <1>7, <1>8, <3>1, EntriesAre
    <3>3. \A j \in DOMAIN leaf.array : leaf.array[j] \in Entries'
      <4> TAKE j \in DOMAIN leaf.array
      <4>1. \/ \E i \in DOMAIN l.array : l.array[i] = leaf.array[j]
            \/ \E i \in DOMAIN rt.array : rt.array[i] = leaf.array[j]
        BY <2>23, <3>1
      <4> QED BY <4>1, <3>1, <1>8, <2>7, <2>18, EntriesAre
    <3>6. \A i \in 1 .. Len(l.array) : l.array[i] = e \/ l.array[i] \in Entries
      BY <2>23, <3>1, <3>2
    <3>7. \A i \in 1 .. Len(rt.array) : rt.array[i] = e \/ rt.array[i] \in Entries
      BY <2>23, <3>1, <3>2
    <3>4. ASSUME NEW p \in PageId, contents'[p].type = "leaf", NEW i \in DOMAIN contents'[p].array
          PROVE  contents'[p].array[i] = e \/ contents'[p].array[i] \in Entries
      <4>1. CASE p = page
        <5>1. contents'[p] = l /\ i \in 1 .. Len(l.array)
          BY <4>1, <2>18, <3>1, <3>4
        <5> QED BY <5>1, <3>6
      <4>2. CASE p = new
        <5>1. contents'[p] = rt /\ i \in 1 .. Len(rt.array)
          BY <4>2, <2>18, <3>1, <3>4
        <5> QED BY <5>1, <3>7
      <4>3. CASE p # page /\ p # new
        BY <4>3, <2>18, <3>4, EntriesAre
      <4> QED BY <4>1, <4>2, <4>3
    <3>5. ASSUME NEW p \in PageId, contents[p].type = "leaf", NEW i \in DOMAIN contents[p].array
          PROVE  contents[p].array[i] \in Entries'
      <4>1. CASE p = page
        BY <4>1, <1>7, <3>3, <3>5
      <4>2. CASE p # page
        <5>1. p # new
          BY <2>7, <3>5 DEF Nodes, Leaves
        <5> QED BY <5>1, <4>2, <2>18, <3>5, EntriesAre
      <4> QED BY <4>1, <4>2
    <3> QED BY <2>38, <3>4, <3>5, LeavesTakeEntry
  <2>43. Adds(s)
    <3>1. WillInsert(s)
      BY <1>4 DEF WillInsert
    <3> QED BY <3>1, <1>12, <2>42 DEF Adds
  <2> QED BY <2>40, <2>41, <2>43
<1> QED BY <1>1, <1>2, <1>13, <1>14

-----------------------------------------------------------------------------
(* A new root over the two halves of the old.                              *)

LEMMA BehindIsPlain ==
  ASSUME StackInv, stack # <<>>, Rest(stack)
  PROVE  \A s \in Behind : IsPlain(s) /\ ~IsSearch(s)
BY DEF Rest, Behind, IsPlain, IsSearch

(* A node the root has been split into is the left of two children of the  *)
(* root that grows over it, and its key tells them apart.                  *)
LEMMA RootGrows ==
  ASSUME PagesInv, ParentsInv, NEW lev, NEW R, TreeInv(lev, R),
         NEW s \in Work, s.do = "InsertIntoParent", s.page = root_page_id, root_page_id \in Nodes,
         s.key \in Key, s.new \in Nodes, s.new # s.page,
         \A t \in Work : t = s \/ IsPlain(t), \A t \in Work' : IsPlain(t),
         NEW n \in PageId, n \notin Nodes, root_page_id' = n, num_pages \in Nat, num_pages' = num_pages + 1,
         Leaves' = Leaves, Internals' = Internals \cup {n},
         contents'[n].array = <<Entry(0, s.page), Entry(s.key, s.new)>>,
         \A p \in Nodes : /\ contents'[p].array = contents[p].array
                          /\ contents'[p].next = contents[p].next
                          /\ contents'[p].parent =
                               IF p \in {s.page, s.new} THEN n ELSE contents[p].parent,
         NEW lev2, lev2 = [lev EXCEPT ![n] = lev[s.page] + 1],
         NEW R2, R2 = [R EXCEPT ![n] = Int]
  PROVE  TreeInv(lev2, R2)'
<1>1. /\ Leaves \subseteq PageId /\ Internals \subseteq PageId /\ Nodes \subseteq PageId
      /\ Leaves \subseteq Nodes /\ Internals \subseteq Nodes /\ Nodes = Leaves \cup Internals
      /\ Nodes' = Nodes \cup {n} /\ NoPage \notin PageId /\ s.key \in Int
      /\ n \notin Leaves /\ n \notin Internals
  BY Sizes, NodeFacts DEF Leaves, Internals, Nodes
<1>2. /\ RangesInv(lev, R) /\ OrderInv(R) /\ RootInv(lev, R) /\ FamilyInv /\ ChainInv(R) /\ BottomInv(R)
      /\ HasTree
  BY <1>1 DEF TreeInv, HasTree
<1>3. /\ lev \in [PageId -> Nat] /\ R \in [PageId -> SUBSET Int]
      /\ lev2 \in [PageId -> Nat] /\ R2 \in [PageId -> SUBSET Int]
      /\ lev2[n] = lev[s.page] + 1 /\ R2[n] = Int
      /\ \A p \in PageId : p # n => lev2[p] = lev[p] /\ R2[p] = R[p]
      /\ \A p \in Nodes : lev2[p] = lev[p] /\ R2[p] = R[p]
  <2>1. lev \in [PageId -> Nat] /\ R \in [PageId -> SUBSET Int]
    BY <1>2 DEF RangesInv
  <2> QED BY <1>1, <2>1
<1>4. /\ SplitOfRoot(s) /\ \A t \in Work : SplitOfRoot(t) => t = s
      /\ \A t \in Work' : ~SplitOfRoot(t)' /\ t.do # "InsertIntoParent"
  BY DEF SplitOfRoot, IsPlain
<1>5. /\ \A x \in Int : x \in R[s.page] <=> x < s.key
      /\ \A x \in Int : x \in R[s.new] <=> s.key <= x
      /\ lev[s.new] = lev[s.page] /\ lev[s.page] < num_pages
      /\ \A p \in Nodes : lev[p] <= lev[s.page]
  BY <1>2, <1>4 DEF RootInv
<1>6. ASSUME NEW t \in Internals
      PROVE  /\ First(t)' = First(t) /\ Written(t)' = Written(t) /\ Promised(t)' = {}
             /\ Seps(t)' = Seps(t) /\ Kids(t)' = Kids(t) /\ Kids(t) \subseteq Nodes
  <2>1. First(t)' = First(t) /\ Written(t)' = Written(t)
    BY <1>1 DEF First, Written
  <2>2. Promised(t)' = {}
    BY DEF Promised, IsPromise, IsPlain
  <2>3. Promised(t) = {}
    <3>1. contents[s.page].parent # t
      BY <1>1, <1>6 DEF ParentsInv
    <3> QED BY <3>1 DEF Promised, IsPromise, IsPlain, Owner
  <2>4. Seps(t)' = Seps(t)
    BY <2>1, <2>2, <2>3 DEF Seps
  <2>5. Kids(t)' = Kids(t)
    BY <2>1, <2>4 DEF Kids
  <2>6. Kids(t) \subseteq Nodes
    BY <1>2 DEF RangesInv
  <2> QED BY <2>1, <2>2, <2>4, <2>5, <2>6
<1>7. /\ First(n)' = s.page /\ Written(n)' = {Entry(s.key, s.new)} /\ Promised(n)' = {}
      /\ Seps(n)' = {Entry(s.key, s.new)} /\ Kids(n)' = {s.page, s.new}
      /\ Len(contents'[n].array) = 2
  <2>1. PICK a : a = contents'[n].array
    OBVIOUS
  <2>2. Len(a) = 2 /\ a[1] = Entry(0, s.page) /\ a[2] = Entry(s.key, s.new) /\ 2 .. 2 = {2}
    BY <2>1
  <2>3. First(n)' = a[1].value /\ Written(n)' = {a[i] : i \in 2 .. Len(a)}
    BY <2>1 DEF First, Written
  <2>4. First(n)' = s.page /\ Written(n)' = {Entry(s.key, s.new)}
    BY <2>2, <2>3 DEF Entry
  <2>5. Promised(n)' = {}
    BY DEF Promised, IsPromise, IsPlain
  <2>6. Seps(n)' = {Entry(s.key, s.new)}
    BY <2>4, <2>5 DEF Seps
  <2>7. Kids(n)' = ChildrenOf(s.page, {Entry(s.key, s.new)})
    BY <2>4, <2>6 DEF Kids
  <2>8. Kids(n)' = {s.page, s.new}
    BY <2>7 DEF ChildrenOf, Entry
  <2> QED BY <2>1, <2>2, <2>4, <2>5, <2>6, <2>8
<1>8. RangesInv(lev2, R2)'
  <2>1. \A p \in Leaves : lev2[p] = 0
    BY <1>1, <1>2, <1>3 DEF RangesInv
  <2>2. \A p \in Internals' : lev2[p] > 0
    <3>1. \A p \in Internals : lev2[p] > 0
      BY <1>1, <1>2, <1>3 DEF RangesInv
    <3>2. lev2[n] > 0
      BY <1>1, <1>3
    <3> QED BY <3>1, <3>2
  <2>3. \A p \in Nodes' : R2[p] # {}
    BY <1>1, <1>2, <1>3 DEF RangesInv
  <2>4. ASSUME NEW p \in Nodes', NEW q \in Nodes', lev2[p] = lev2[q], p # q
        PROVE  R2[p] \cap R2[q] = {}
    <3>1. p \in Nodes /\ q \in Nodes
      BY <2>4, <1>1, <1>3, <1>5
    <3> QED BY <3>1, <2>4, <1>2, <1>3 DEF RangesInv
  <2>5. ASSUME NEW t \in Internals
        PROVE  /\ Slots(First(t)', Seps(t)', R2[t], R2)
               /\ \A e \in Seps(t)' : e.key \in Key
               /\ \A c \in Kids(t)' : c \in Nodes' /\ lev2[c] + 1 = lev2[t]
    <3>1. /\ Slots(First(t), Seps(t), R[t], R) /\ \A e \in Seps(t) : e.key \in Key
          /\ \A c \in Kids(t) : c \in Nodes /\ lev[c] + 1 = lev[t]
      BY <1>2 DEF RangesInv
    <3>2. \A c \in ChildrenOf(First(t), Seps(t)) : R2[c] = R[c]
      BY <1>3, <1>6 DEF Kids
    <3>3. Slots(First(t), Seps(t), R[t], R2)
      BY <3>1, <3>2, SlotsSame
    <3> QED BY <3>1, <3>3, <1>1, <1>3, <1>6
  <2>6. /\ Slots(First(n)', Seps(n)', R2[n], R2)
        /\ \A e \in Seps(n)' : e.key \in Key
        /\ \A c \in Kids(n)' : c \in Nodes' /\ lev2[c] + 1 = lev2[n]
    <3>1. R2[s.page] = R[s.page] /\ R2[s.new] = R[s.new]
      BY <1>3
    <3>2. Slots(s.page, {Entry(s.key, s.new)}, Int, R2)
      BY <3>1, <1>1, <1>5 DEF Slots, Entry
    <3> QED BY <3>2, <1>1, <1>3, <1>5, <1>7 DEF Entry
  <2> QED BY <2>1, <2>2, <2>3, <2>4, <2>5, <2>6, <1>3, PageIdSame DEF RangesInv
<1>9. OrderInv(R2)'
  <2>1. \A p \in Leaves : /\ IsRising(contents'[p].array, 1)
                          /\ \A i \in 1 .. Len(contents'[p].array) : contents'[p].array[i].key \in R2[p]
    BY <1>1, <1>2, <1>3 DEF OrderInv
  <2>2. \A p \in Internals : IsRising(contents'[p].array, 2)
    BY <1>1, <1>2 DEF OrderInv
  <2>3. IsRising(contents'[n].array, 2)
    BY <1>7 DEF IsRising
  <2> QED BY <2>1, <2>2, <2>3, <1>6, <1>7 DEF OrderInv
<1>10. RootInv(lev2, R2)'
  <2>1. lev2[n] < num_pages' /\ \A p \in Nodes' : lev2[p] <= lev2[n]
    BY <1>1, <1>3, <1>5
  <2> QED BY <2>1, <1>3, <1>4 DEF RootInv
<1>11. FamilyInv'
  <2> SUFFICES ASSUME NEW p \in Nodes
               PROVE  \E t \in Internals' : contents'[p].parent = t /\ p \in Kids(t)'
    BY <1>1 DEF FamilyInv
  <2>1. CASE p \in {s.page, s.new}
    BY <2>1, <1>7
  <2>2. CASE p \notin {s.page, s.new}
    <3>1. ~Unadopted(p)
      BY DEF Unadopted, IsPlain
    <3>2. PICK t \in Internals : contents[p].parent = t /\ p \in Kids(t)
      BY <2>2, <3>1, <1>2, <1>4 DEF FamilyInv
    <3> QED BY <2>2, <3>2, <1>6
  <2> QED BY <2>1, <2>2
<1>12. ChainInv(R2)'
  <2>1. \A p \in Leaves : contents'[p].next = contents[p].next /\ R2[p] = R[p]
    BY <1>1, <1>3
  <2> QED BY <2>1, <1>2 DEF ChainInv
<1>13. BottomInv(R2)'
  BY <1>1, <1>2, <1>3 DEF BottomInv
<1> QED BY <1>8, <1>9, <1>10, <1>11, <1>12, <1>13 DEF TreeInv

(* What is left to do after a step up of the recursion that has only an    *)
(* unpin to do.                                                            *)
LEMMA WorkThenUnpin ==
  ASSUME StackInv, stack # <<>>, NEW page \in PageId, NEW u, u = UnpinPage(page, TRUE), Then(<<u>>)
  PROVE  /\ Work = {stack[1]} \cup Behind /\ Work' = {u} \cup Behind
         /\ IsPlain(u) /\ ~IsSearch(u) /\ \A R : CallOK(R, u)
<1>1. u \in Statement
  BY MakeStatement
<1>2. PICK xs : xs = <<u>>
  OBVIOUS
<1>3. xs \in Seq(Statement) /\ WorkOf(xs) = {u}
  BY <1>1, <1>2, OneOf
<1>4. Work = {stack[1]} \cup Behind /\ Work' = {u} \cup Behind
  BY <1>2, <1>3, WorkThen
<1>5. IsPlain(u) /\ ~IsSearch(u) /\ \A R : CallOK(R, u)
  BY UnpinOK
<1> QED BY <1>4, <1>5

LEMMA GrowRootKeepsKeys ==
  ASSUME IInv, KeyInv, GrowRoot, UNCHANGED <<held, reply, inserts>>
  PROVE  KeyInv' /\ Entries' = Entries /\ NodesStay
<1> DEFINE h == Head(stack)
           nds == [contents EXCEPT
                     ![num_pages]     = Internal(NoPage, <<Entry(0, h.page), Entry(h.key, h.new)>>),
                     ![h.page].parent = num_pages,
                     ![h.new].parent  = num_pages]
<1>1. /\ Executing("InsertIntoParent") /\ h.page = root_page_id
      /\ \/ /\ NewPage(nds)
            /\ root_page_id' = num_pages
            /\ Then(<<UnpinPage(num_pages, TRUE)>>)
         \/ Crash
  BY DEF GrowRoot
<1>2. CASE Crash
  BY <1>2, CrashKeepsKeys, SameEntries, SameNodesStay DEF Crash, pool, EntriesSame
<1>3. ASSUME NewPage(nds), root_page_id' = num_pages, Then(<<UnpinPage(num_pages, TRUE)>>)
      PROVE  KeyInv' /\ Entries' = Entries /\ NodesStay
  <2>1. PICK s : s = h
    OBVIOUS
  <2>2. /\ s = stack[1] /\ s.do = "InsertIntoParent"
        /\ s.page \in Nodes /\ s.new \in Nodes /\ s.new # s.page
        /\ s.page \in PageId /\ s.new \in PageId /\ s.key \in Key
        /\ stack # <<>> /\ Rest(stack) /\ root_page_id \in Nodes
    BY <1>1, <2>1, InsertIntoParentHead
  <2>3. PICK root : root = num_pages
    OBVIOUS
  <2>4. PICK page, other : page = s.page /\ other = s.new
    OBVIOUS
  <2>5. PICK node : node = NewRoot(page, s.key, other)
    OBVIOUS
  <2>6. PICK nodes : nodes = Rooted(contents, root, node, page, other)
    OBVIOUS
  <2>7. NewPage(nodes)
    <3>1. h.page = page /\ h.new = other /\ h.key = s.key
      BY <2>1, <2>4
    <3>2. nodes = nds
      BY <3>1, <2>3, <2>5, <2>6 DEF Rooted, NewRoot
    <3> QED BY <3>2, <1>3
  <2>8. s.page = root_page_id
    BY <1>1, <2>1
  <2> HIDE DEF nds, h
  <2>9. /\ contents' = nodes /\ root \in PageId /\ root \notin Nodes
        /\ num_pages \in Nat /\ num_pages' = num_pages + 1
    BY <2>3, <2>7, NewFacts, NodeFacts DEF IInv
  <2>10. \A p \in PageId : contents'[p] =
           IF p = root THEN node
           ELSE IF p \in {page, other} THEN WithParent(contents[p], root) ELSE contents[p]
    <3>1. IsPages(contents) /\ root # page /\ root # other /\ page # other
      BY <2>2, <2>4, <2>9, NodeFacts DEF IInv
    <3> QED BY <3>1, <2>2, <2>4, <2>6, <2>9, RootedProps
  <2>11. /\ InternalOK(node) /\ node.type = "internal"
         /\ node.array = <<Entry(0, page), Entry(s.key, other)>>
    <3>1. InternalOK(node)
      BY <2>2, <2>4, <2>5, NewRootProps
    <3>2. node.type = "internal"
      BY <3>1, NodeKinds
    <3> QED BY <3>1, <3>2, <2>5 DEF NewRoot, Internal
  <2>12. /\ Nodes \subseteq PageId /\ Leaves \subseteq Nodes /\ Internals \subseteq Nodes
         /\ \A p \in PageId : p \notin Nodes => contents[p].type \notin {"leaf", "internal"}
    BY DEF Nodes, Leaves, Internals
  <2>13. ASSUME NEW p \in Nodes
         PROVE  /\ contents'[p].array = contents[p].array /\ contents'[p].next = contents[p].next
                /\ contents'[p].type = contents[p].type
                /\ contents'[p].parent = IF p \in {page, other} THEN root ELSE contents[p].parent
    <3>1. p \in PageId /\ p # root
      BY <2>9, <2>12
    <3>2. LeafOK(contents[p]) \/ InternalOK(contents[p])
      BY NodeFacts DEF IInv, Nodes
    <3>3. /\ WithParent(contents[p], root).parent = root /\ WithParent(contents[p], root).array = contents[p].array
          /\ WithParent(contents[p], root).next = contents[p].next
          /\ WithParent(contents[p], root).type = contents[p].type
      BY <3>2, <2>9, WithParentProps
    <3> QED BY <3>1, <3>3, <2>10
  <2>14. contents'[root] = node
    BY <2>9, <2>10
  <2>15. \A p \in PageId : contents'[p].type = IF p = root THEN "internal" ELSE contents[p].type
    <3> TAKE p \in PageId
    <3>1. CASE p = root
      BY <3>1, <2>11, <2>14
    <3>2. CASE p # root
      <4>1. CASE p \in Nodes
        BY <3>2, <4>1, <2>13
      <4>2. CASE p \notin Nodes
        <5>1. p \notin {page, other}
          BY <4>2, <2>2, <2>4
        <5> QED BY <5>1, <3>2, <2>10
      <4> QED BY <4>1, <4>2
    <3> QED BY <3>1, <3>2
  <2>16. Leaves' = Leaves /\ Internals' = Internals \cup {root}
    BY <2>9, <2>12, <2>15, KindsSame DEF Leaves, Internals
  <2>17. PICK u : u = UnpinPage(root, TRUE)
    OBVIOUS
  <2>18. /\ Work = {s} \cup Behind /\ Work' = {u} \cup Behind
         /\ IsPlain(u) /\ ~IsSearch(u) /\ \A R : CallOK(R, u)
    <3>1. Then(<<u>>) /\ StackInv
      BY <1>3, <2>3, <2>17 DEF IInv
    <3> QED BY <3>1, <2>2, <2>9, <2>17, WorkThenUnpin
  <2>19. \A t \in Behind : IsPlain(t) /\ ~IsSearch(t)
    BY <2>2, BehindIsPlain DEF IInv
  <2>20. PICK lev, R : TreeInv(lev, R) /\ CallInv(R)
    BY DEF KeyInv
  <2>21. PICK lev2, R2 : lev2 = [lev EXCEPT ![root] = lev[s.page] + 1] /\ R2 = [R EXCEPT ![root] = Int]
    OBVIOUS
  <2>22. TreeInv(lev2, R2)'
    <3>1. s \in Work /\ (\A t \in Work : t = s \/ IsPlain(t)) /\ \A t \in Work' : IsPlain(t)
      BY <2>18, <2>19
    <3>2. contents'[root].array = <<Entry(0, s.page), Entry(s.key, s.new)>>
      BY <2>4, <2>11, <2>14
    <3>3. /\ PagesInv /\ ParentsInv /\ root_page_id' = root
          /\ s.new \in Nodes /\ s.new # s.page /\ s.key \in Key /\ s.do = "InsertIntoParent"
      BY <1>3, <2>2, <2>3 DEF IInv
    <3>4. \A p \in Nodes : /\ contents'[p].array = contents[p].array
                           /\ contents'[p].next = contents[p].next
                           /\ contents'[p].parent =
                                IF p \in {s.page, s.new} THEN root ELSE contents[p].parent
      BY <2>4, <2>13
    <3> QED BY <3>1, <3>2, <3>3, <3>4, <2>2, <2>8, <2>9, <2>16, <2>20, <2>21, RootGrows
  <2>23. EntriesSame
    <3>1. HasTree' = HasTree
      BY <1>3, <2>2, <2>3, <2>9, <2>12, NodeFacts DEF HasTree, IInv
    <3>2. \A p \in PageId : contents'[p].type = "leaf" <=> contents[p].type = "leaf"
      BY <2>9, <2>12, <2>15
    <3>3. \A p \in Leaves : contents'[p].array = contents[p].array
      BY <2>12, <2>13
    <3> QED BY <3>1, <3>2, <3>3, LeavesKeepEntries
  <2>24. CallInv(R2)'
    <3>1. PICK X : X = {u}
      OBVIOUS
    <3>2. /\ Work' \subseteq X \cup Work /\ (\A t \in X : CallOK(R2, t))
          /\ \A t \in Work' \ X : ~IsSearch(t)
      BY <3>1, <2>18, <2>19
    <3> QED BY <3>2, <2>20, <2>23, CallsStay
  <2>25. KeyInv'
    BY <2>22, <2>24 DEF KeyInv
  <2>26. NodesStay
    BY <2>12, <2>13, <2>16 DEF NodesStay, First
  <2> QED BY <2>23, <2>25, <2>26 DEF EntriesSame
<1> QED BY <1>1, <1>2, <1>3

-----------------------------------------------------------------------------
(* An entry arrives in the parent.                                         *)

(* An internal node whose separators rise, with room and without the key.  *)
LacksKey(n, key) ==
  /\ InternalOK(n) /\ Len(n.array) < INTERNAL_MAX
  /\ IsRising(n.array, 2) /\ \A i \in 2 .. Len(n.array) : n.array[i].key # key

LEMMA InternalInsertKeys ==
  ASSUME NEW n, NEW key \in Key, NEW child \in PageId, LacksKey(n, key),
         NEW m, m = InternalInsert(n, key, child), NEW e, e = Entry(key, child)
  PROVE  /\ InternalOK(m) /\ m.parent = n.parent
         /\ Joins(n.array, 2, e, m.array) /\ m.array[1] = n.array[1]
<1>1. /\ InternalOK(n) /\ Len(n.array) < INTERNAL_MAX /\ IsRising(n.array, 2)
      /\ \A i \in 2 .. Len(n.array) : n.array[i].key # key
  BY DEF LacksKey
<1>2. InternalOK(m) /\ m.parent = n.parent
  BY <1>1, InternalInsertProps
<1>3. PICK r \in 2 .. Len(n.array) + 1 :
           /\ Bounds(r, 2, Len(n.array), {i \in Int : n.array[i].key < key})
           /\ InsertedAt(n.array, r, Entry(key, child), m.array)
  BY <1>1, InternalInsertProps
<1>4. PICK a, b : a = n.array /\ b = m.array
  OBVIOUS
<1>5. /\ Len(a) \in Nat /\ Len(a) >= 1 /\ r \in 2 .. Len(a) + 1
      /\ \A i \in 2 .. Len(a) : a[i].key \in Int /\ a[i].key # e.key
      /\ e.key = key /\ key \in Int /\ IsRising(a, 2) /\ InsertedAt(a, r, e, b)
  BY <1>1, <1>3, <1>4, Sizes DEF InternalOK, Entry
<1>6. /\ r > 2 => a[r - 1].key < e.key
      /\ r <= Len(a) => ~(a[r].key < e.key)
      /\ 2 \in Nat /\ 2 >= 1 /\ e.key \in Int
      /\ \A i \in 2 .. Len(a) : a[i].key \in Int
      /\ \A i \in 2 .. Len(a) : a[i].key # e.key
  BY <1>3, <1>4, <1>5 DEF Bounds
<1>7. Joins(a, 2, e, b) /\ b[1] = a[1]
  <2>1. Len(a) \in Nat /\ Len(a) >= 1 /\ IsRising(a, 2) /\ InsertedAt(a, r, e, b) /\ r \in 2 .. Len(a) + 1
    BY <1>5
  <2>2. Joins(a, 2, e, b) /\ (2 = 2 /\ Len(a) >= 1 => b[1] = a[1])
    BY <1>6, <2>1, RisingInsert
  <2> QED BY <2>1, <2>2
<1> QED BY <1>2, <1>4, <1>7

(* Only the head of the stack has an entry on its way.                     *)
LEMMA PromisedByHead ==
  ASSUME NEW s, IsPromise(s), Work = {s} \cup Behind, \A t \in Behind : IsPlain(t)
  PROVE  \A p : Promised(p) = IF Owner(s) = p THEN {Entry(s.key, s.new)} ELSE {}
<1> TAKE p
<1>1. \A t \in Work : IsPromise(t) => t = s
  BY DEF IsPromise, IsPlain
<1>2. CASE Owner(s) = p
  <2>1. {t \in Work : IsPromise(t) /\ Owner(t) = p} = {s}
    BY <1>1, <1>2
  <2> QED BY <1>2, <2>1 DEF Promised
<1>3. CASE Owner(s) # p
  <2>1. {t \in Work : IsPromise(t) /\ Owner(t) = p} = {}
    BY <1>1, <1>3
  <2> QED BY <1>3, <2>1 DEF Promised
<1> QED BY <1>2, <1>3

(* An entry is on its way into the parent, or has arrived there.           *)
LEMMA Arrives ==
  ASSUME PagesInv, NEW lev, NEW R, TreeInv(lev, R), NEW parent \in Internals, NEW e, NEW m, InternalOK(m),
         m.parent = contents[parent].parent, m.array[1] = contents[parent].array[1],
         Joins(contents[parent].array, 2, e, m.array),
         \A p \in PageId : contents'[p] = IF p = parent THEN m ELSE contents[p],
         root_page_id' = root_page_id, num_pages' = num_pages,
         \A p : Promised(p) = IF parent = p THEN {e} ELSE {},
         \A t \in Work' : IsPlain(t), \A t \in Work : ~SplitOfRoot(t) /\ t.do # "AdoptChildren"
  PROVE  TreeInv(lev, R)'
<1>1. /\ Leaves \subseteq PageId /\ Internals \subseteq PageId /\ Nodes \subseteq PageId
      /\ Leaves \cap Internals = {} /\ num_pages \in Nat /\ num_pages <= num_pages
  BY NodeFacts DEF Leaves, Internals, Nodes
<1>2. Leaves' = Leaves /\ Internals' = Internals
  <2>1. m.type = "internal" /\ contents[parent].type = "internal"
    BY NodeKinds DEF Internals
  <2>2. \A p \in PageId : contents'[p].type = contents[p].type
    BY <2>1
  <2> QED BY <2>2, KindsSame DEF Leaves, Internals
<1>3. \A p : Promised(p)' = {}
  BY DEF Promised, IsPromise, IsPlain
<1>4. /\ IsRising(m.array, 2)
      /\ \A i \in 2 .. Len(m.array) : m.array[i] = e \/
           \E j \in 2 .. Len(contents[parent].array) : m.array[i] = contents[parent].array[j]
      /\ \A j \in 2 .. Len(contents[parent].array) : \E i \in 2 .. Len(m.array) : m.array[i] = contents[parent].array[j]
      /\ \E i \in 2 .. Len(m.array) : m.array[i] = e
  BY DEF Joins
<1>5. First(parent)' = First(parent) /\ Written(parent)' = Written(parent) \cup {e}
  <2>1. contents'[parent] = m
    BY <1>1
  <2>2. Written(parent)' = {m.array[i] : i \in 2 .. Len(m.array)}
    BY <2>1 DEF Written
  <2>3. Written(parent) = {contents[parent].array[i] : i \in 2 .. Len(contents[parent].array)}
    BY DEF Written
  <2>4. ASSUME NEW x \in Written(parent)'  PROVE  x \in Written(parent) \cup {e}
    <3>1. PICK i \in 2 .. Len(m.array) : x = m.array[i]
      BY <2>2
    <3>2. m.array[i] = e \/
           \E j \in 2 .. Len(contents[parent].array) : m.array[i] = contents[parent].array[j]
      BY <1>4
    <3> QED BY <2>3, <3>1, <3>2
  <2>5. \A x \in Written(parent) \cup {e} : x \in Written(parent)'
    BY <2>2, <2>3, <1>4
  <2>6. First(parent)' = First(parent)
    BY <2>1 DEF First
  <2> HIDE DEF Written
  <2> QED BY <2>4, <2>5, <2>6
<1>6. \A t \in Internals : t # parent => First(t)' = First(t) /\ Written(t)' = Written(t)
  BY <1>1 DEF First, Written
<1>7. \A t \in Internals : First(t)' = First(t) /\ Seps(t)' = Seps(t)
  BY <1>3, <1>5, <1>6 DEF Seps
<1>8. OrderInv(R)'
  <2>1. OrderInv(R)
    BY DEF TreeInv
  <2>2. \A p \in Leaves : contents'[p] = contents[p]
    BY <1>1
  <2>3. \A p \in Internals : IsRising(contents'[p].array, 2)
    BY <2>1, <1>1, <1>4 DEF OrderInv
  <2> QED BY <2>1, <2>2, <2>3, <1>2, <1>3 DEF OrderInv
<1>9. \A p \in PageId : contents'[p].parent = contents[p].parent
  OBVIOUS
<1>10. \A p \in Leaves : contents'[p].next = contents[p].next
  BY <1>1
<1>11. \A p : ~Unadopted(p)
  BY DEF Unadopted
<1>12. \A t \in Work' : t.do # "InsertIntoParent"
  BY DEF IsPlain
<1> QED BY <1>1, <1>2, <1>7, <1>8, <1>9, <1>10, <1>11, <1>12, SepsStay

LEMMA InsertIntoOldParentKeepsKeys ==
  ASSUME IInv, KeyInv, InsertIntoOldParent, UNCHANGED <<held, reply, inserts>>
  PROVE  KeyInv' /\ Entries' = Entries /\ NodesStay
<1> DEFINE h == Head(stack)
           par == contents[h.page].parent
           nod == contents[par]
<1>1. /\ Executing("InsertIntoParent") /\ h.page # root_page_id
      /\ \/ /\ InternalHasRoom(nod)
            /\ FetchPage(par, [contents EXCEPT ![par] = InternalInsert(nod, h.key, h.new)])
            /\ Then(<<UnpinPage(par, TRUE)>>)
            /\ UNCHANGED root_page_id
         \/ /\ ~InternalHasRoom(nod)
            /\ FetchPage(par, contents)
            /\ Then(<<SplitInternal(par, h.key, h.new)>>)
            /\ UNCHANGED root_page_id
         \/ Crash
  BY DEF InsertIntoOldParent
<1>2. CASE Crash
  BY <1>2, CrashKeepsKeys, SameEntries, SameNodesStay DEF Crash, pool, EntriesSame
<1>3. PICK s : s = h
  OBVIOUS
<1>4. /\ s = stack[1] /\ s.do = "InsertIntoParent"
      /\ s.page \in Nodes /\ s.new \in Nodes /\ s.new # root_page_id
      /\ s.page \in PageId /\ s.new \in PageId /\ s.key \in Key
      /\ stack # <<>> /\ Rest(stack) /\ root_page_id \in Nodes
      /\ s.page # root_page_id /\ \A p : ~SplitsRoot(p)
  BY <1>1, <1>3, InsertIntoParentHead
<1>5. PICK parent : parent = contents[s.page].parent
  OBVIOUS
<1>6. PICK node : node = contents[parent]
  OBVIOUS
<1>7. /\ parent \in Internals /\ parent \in Nodes /\ parent \in PageId /\ InternalOK(node)
  <2>1. parent \in Internals
    BY <1>4, <1>5 DEF IInv, ParentsInv
  <2>2. parent \in Nodes
    BY <2>1 DEF Nodes
  <2> QED BY <1>6, <2>1, <2>2, NodeFacts DEF IInv
<1>8. par = parent /\ nod = node /\ h.key = s.key /\ h.new = s.new
  BY <1>3, <1>5, <1>6
<1> HIDE DEF par, nod, h
<1>9. PICK lev, R : TreeInv(lev, R) /\ CallInv(R)
  BY DEF KeyInv
<1>10. PICK e : e = Entry(s.key, s.new)
  OBVIOUS
<1>11. /\ PagesInv /\ StackInv /\ \A t \in Behind : IsPlain(t) /\ ~IsSearch(t)
  BY <1>4, BehindIsPlain DEF IInv
<1>12. IsPromise(s) /\ Owner(s) = parent /\ ~SplitOfRoot(s)
  BY <1>4, <1>5 DEF IsPromise, Owner, SplitOfRoot
<1>13. ASSUME InternalHasRoom(nod),
              FetchPage(par, [contents EXCEPT ![par] = InternalInsert(nod, h.key, h.new)]),
              Then(<<UnpinPage(par, TRUE)>>), UNCHANGED root_page_id
       PROVE  KeyInv' /\ Entries' = Entries /\ NodesStay
  <2>1. PICK m : m = InternalInsert(node, s.key, s.new)
    OBVIOUS
  <2>2. PICK nodes : nodes = Put(contents, parent, m)
    OBVIOUS
  <2>3. FetchPage(parent, nodes)
    BY <1>8, <1>13, <2>1, <2>2 DEF Put
  <2>4. contents' = nodes /\ num_pages' = num_pages
    BY <2>3, FetchFacts
  <2>5. \A p \in PageId : contents'[p] = IF p = parent THEN m ELSE contents[p]
    BY <2>2, <2>4, <1>11, PutProps, NodeFacts
  <2>6. PICK u : u = UnpinPage(parent, TRUE)
    OBVIOUS
  <2>7. /\ Work = {s} \cup Behind /\ Work' = {u} \cup Behind
        /\ IsPlain(u) /\ ~IsSearch(u) /\ \A R1 : CallOK(R1, u)
    <3>1. Then(<<u>>)
      BY <1>8, <1>13, <2>6
    <3> QED BY <3>1, <1>4, <1>7, <1>11, <2>6, WorkThenUnpin
  <2>8. \A p : Promised(p) = IF parent = p THEN {e} ELSE {}
    BY <1>10, <1>11, <1>12, <2>7, PromisedByHead
  <2>9. LacksKey(node, s.key)
    <3>1. Len(node.array) < INTERNAL_MAX
      BY <1>8, <1>13 DEF InternalHasRoom
    <3>2. OrderInv(R)
      BY <1>9 DEF TreeInv
    <3>3. IsRising(node.array, 2)
      BY <3>2, <1>6, <1>7 DEF OrderInv
    <3>4. ASSUME NEW i \in 2 .. Len(node.array)
          PROVE  node.array[i].key # s.key
      <4>1. node.array[i] \in Written(parent)
        BY <1>6 DEF Written
      <4>2. e \in Promised(parent) /\ e.key = s.key
        BY <1>10, <2>8 DEF Entry
      <4> QED BY <4>1, <4>2, <3>2, <1>7 DEF OrderInv
    <3> QED BY <3>1, <3>3, <3>4, <1>7 DEF LacksKey
  <2>10. /\ InternalOK(m) /\ m.parent = node.parent
         /\ Joins(node.array, 2, e, m.array) /\ m.array[1] = node.array[1]
    BY <1>4, <1>10, <2>1, <2>9, InternalInsertKeys
  <2>11. TreeInv(lev, R)'
    <3>1. \A t \in Work' : IsPlain(t)
      BY <1>11, <2>7
    <3>2. \A t \in Work : ~SplitOfRoot(t) /\ t.do # "AdoptChildren"
      BY <1>4, <1>11, <1>12, <2>7 DEF IsPlain, SplitOfRoot
    <3> QED BY <3>1, <3>2, <1>6, <1>7, <1>9, <1>11, <1>13, <2>4, <2>5, <2>8, <2>10, Arrives
  <2>12. EntriesSame
    <3>1. m.type = "internal" /\ node.type = "internal"
      BY <1>7, <2>10, NodeKinds
    <3>2. \A p \in PageId : contents'[p].type = contents[p].type
      BY <3>1, <1>6, <2>5
    <3>3. \A p \in Leaves : contents'[p].array = contents[p].array
      BY <3>1, <1>6, <2>5 DEF Leaves
    <3>4. HasTree' = HasTree
      BY <1>13 DEF HasTree
    <3> QED BY <3>2, <3>3, <3>4, LeavesKeepEntries
  <2>13. CallInv(R)'
    <3>1. PICK X : X = {u}
      OBVIOUS
    <3>2. /\ Work' \subseteq X \cup Work /\ (\A t \in X : CallOK(R, t))
      BY <3>1, <2>7
    <3> QED BY <3>2, <1>9, <2>12, CallsStay
  <2>14. KeyInv'
    BY <2>11, <2>13 DEF KeyInv
  <2>15. NodesStay
    <3>1. m.type = "internal" /\ node.type = "internal"
      BY <1>7, <2>10, NodeKinds
    <3>2. \A p \in PageId : contents'[p].type = contents[p].type /\ contents'[p].array[1] = contents[p].array[1]
      BY <3>1, <1>6, <2>5, <2>10
    <3> QED BY <3>2, KindsSame DEF NodesStay, Leaves, Internals, First
  <2> QED BY <2>12, <2>14, <2>15 DEF EntriesSame
<1>14. ASSUME FetchPage(par, contents), Then(<<SplitInternal(par, h.key, h.new)>>),
              UNCHANGED root_page_id
       PROVE  KeyInv' /\ Entries' = Entries /\ NodesStay
  <2>1. contents' = contents /\ num_pages' = num_pages
    BY <1>14, FetchFacts
  <2>2. PICK b : b = SplitInternal(parent, s.key, s.new)
    OBVIOUS
  <2>3. /\ b \in Statement /\ b.do = "SplitInternal" /\ b.page = parent
        /\ b.key = s.key /\ b.new = s.new
    BY <1>4, <1>7, <2>2, MakeStatement DEF SplitInternal
  <2>4. PICK xs : xs = <<b>>
    OBVIOUS
  <2>5. Then(xs) /\ xs \in Seq(Statement) /\ WorkOf(xs) = {b}
    BY <1>8, <1>14, <2>2, <2>3, <2>4, OneOf
  <2>6. Work = {s} \cup Behind /\ Work' = {b} \cup Behind
    BY <1>4, <1>11, <2>5, WorkThen
  <2>7. \A p : Promised(p) = IF parent = p THEN {e} ELSE {}
    BY <1>10, <1>11, <1>12, <2>6, PromisedByHead
  <2>8. \A p : Promised(p)' = IF parent = p THEN {e} ELSE {}
    <3> TAKE p
    <3>1. IsPromise(b) /\ Owner(b)' = parent /\ \A t \in Work' : IsPromise(t) => t = b
      BY <1>11, <2>3, <2>6 DEF IsPromise, IsPlain, Owner
    <3>2. CASE parent = p
      <4>1. {t \in Work' : IsPromise(t) /\ Owner(t)' = p} = {b}
        BY <3>1, <3>2, <2>6
      <4> QED BY <3>2, <4>1, <1>10, <2>3 DEF Promised
    <3>3. CASE parent # p
      <4>1. {t \in Work' : IsPromise(t) /\ Owner(t)' = p} = {}
        BY <3>1, <3>3
      <4> QED BY <3>3, <4>1 DEF Promised
    <3> QED BY <3>2, <3>3
  <2>9. TreeInv(lev, R)'
    <3>1. \A p : ~Unadopted(p)
      BY <1>4, <1>11, <2>6 DEF Unadopted, IsPlain
    <3>2. \A t \in Work' : t.do # "InsertIntoParent"
      BY <1>11, <2>3, <2>6 DEF IsPlain
    <3>3. \A t \in Work : ~SplitOfRoot(t)
      BY <1>11, <1>12, <2>6 DEF IsPlain, SplitOfRoot
    <3>4. num_pages \in Int /\ num_pages' \in Int /\ num_pages <= num_pages'
      BY <1>11, <2>1, NodeFacts
    <3> QED BY <3>1, <3>2, <3>3, <3>4, <1>9, <1>11, <1>14, <2>1, <2>7, <2>8, TreeStays
  <2>10. EntriesSame
    BY <1>14, <2>1, SameEntries
  <2>11. CallInv(R)'
    <3>1. PICK X : X = {b}
      OBVIOUS
    <3>2. CallOK(R, b)
      BY <2>3 DEF CallOK, IsSearch, WillInsert
    <3>3. /\ Work' \subseteq X \cup Work /\ (\A t \in X : CallOK(R, t))
      BY <3>1, <3>2, <2>6
    <3> QED BY <3>3, <1>9, <2>10, CallsStay
  <2>12. KeyInv'
    BY <2>9, <2>11 DEF KeyInv
  <2> QED BY <2>1, <2>10, <2>12, SameNodesStay DEF EntriesSame
<1> QED BY <1>1, <1>2, <1>13, <1>14

-----------------------------------------------------------------------------
(* Children are told of their new parent.                                  *)

(* While children are told of a new node, one entry is on its way: the one *)
(* for that node.                                                          *)
LEMMA OneGoesUp ==
  ASSUME NEW q, q = stack, q \in Seq(Statement), GoesUp(q)
  PROVE  \E b \in Behind : /\ b.do = "InsertIntoParent" /\ b.new = q[1].page
                           /\ \A t \in Behind : t = b \/ (IsPlain(t) /\ ~IsSearch(t))
<1>1. Behind = {q[i] : i \in 2 .. Len(q)}
  BY DEF Behind
<1>2. 2 \in 2 .. Len(q) /\ Len(q) \in Nat
  BY DEF GoesUp
<1>3. ASSUME NEW t \in Behind
      PROVE  t = q[2] \/ (IsPlain(t) /\ ~IsSearch(t))
  <2>1. PICK i \in 2 .. Len(q) : t = q[i]
    BY <1>1
  <2>2. CASE i = 2
    BY <2>1, <2>2
  <2>3. CASE i # 2
    <3>1. i \in 3 .. Len(q) /\ 2 + 1 = 3
      BY <1>2, <2>3
    <3>2. t.do \in {"UnpinPage", "Return"}
      BY <2>1, <3>1 DEF GoesUp, IsQuiet
    <3> QED BY <3>2 DEF IsPlain, IsSearch
  <2> QED BY <2>2, <2>3
<1> QED BY <1>1, <1>2, <1>3 DEF GoesUp

LEMMA WorkThenAdopt ==
  ASSUME StackInv, stack # <<>>, NEW child \in PageId, NEW page \in PageId,
         NEW i \in Nat, i >= 1, NEW n \in 1 .. INTERNAL_MAX,
         NEW xs, xs = AdoptNext(child, page, i, n), Then(xs)
  PROVE  /\ Work = {stack[1]} \cup Behind
         /\ \E u, a : /\ u.do = "UnpinPage" /\ a.do = "AdoptChildren"
                      /\ a.page = page /\ (i < n => a.i = i + 1)
                      /\ Work' = (IF i < n THEN {u, a} ELSE {u}) \cup Behind
<1>1. PICK a \in Statement, u \in Statement :
        /\ u = UnpinPage(child, TRUE) /\ a = AdoptChildren(page, IF i < n THEN i + 1 ELSE 1)
        /\ OneOrTwo(xs, i, n, u, a)
  BY AdoptNextIs
<1>2. /\ u.do = "UnpinPage" /\ a.do = "AdoptChildren" /\ a.page = page /\ (i < n => a.i = i + 1)
  BY <1>1 DEF UnpinPage, AdoptChildren
<1>3. CASE i < n
  <2>1. xs = <<u, a>>
    BY <1>1, <1>3 DEF OneOrTwo
  <2>2. xs \in Seq(Statement) /\ WorkOf(xs) = {u, a}
    BY <2>1, TwoOf
  <2> QED BY <2>2, <1>2, <1>3, WorkThen
<1>4. CASE ~(i < n)
  <2>1. xs = <<u>>
    BY <1>1, <1>4 DEF OneOrTwo
  <2>2. xs \in Seq(Statement) /\ WorkOf(xs) = {u}
    BY <2>1, OneOf
  <2> QED BY <2>2, <1>2, <1>4, WorkThen
<1> QED BY <1>3, <1>4

(* The child of entry i is next to be told of the node page it is in.      *)
Tells(s, page, i, child) ==
  /\ s.do = "AdoptChildren" /\ s.page = page /\ s.i = i
  /\ page \in Internals /\ i \in 1 .. Len(contents[page].array)
  /\ child \in Nodes /\ child = contents[page].array[i].value

GoesUpBehind(s, b, page) ==
  /\ Work = {s} \cup Behind
  /\ b \in Behind /\ b.do = "InsertIntoParent" /\ b.new = page /\ b.page \in Nodes
  /\ \A t \in Behind : t = b \/ (IsPlain(t) /\ ~IsSearch(t))

TellsNext(page, i, u, a) ==
  /\ u.do = "UnpinPage" /\ a.do = "AdoptChildren" /\ a.page = page
  /\ i < Len(contents[page].array) => a.i = i + 1 /\ Work' = {u, a} \cup Behind
  /\ ~(i < Len(contents[page].array)) => Work' = {u} \cup Behind

ChangesParent(child, page) ==
  /\ \A p \in PageId : /\ contents'[p].array = contents[p].array
                       /\ contents'[p].next = contents[p].next
                       /\ contents'[p].type = contents[p].type
                       /\ contents'[p].parent = IF p = child THEN page ELSE contents[p].parent
  /\ root_page_id' = root_page_id /\ num_pages' = num_pages

LEMMA PromisesStay ==
  ASSUME NEW s, NEW page, NEW i, NEW child, NEW b, NEW u, NEW a,
         Tells(s, page, i, child), GoesUpBehind(s, b, page), TellsNext(page, i, u, a),
         ChangesParent(child, page), Nodes \subseteq PageId, child # b.page
  PROVE  /\ \A t : t.do = "InsertIntoParent" /\ t \in Work' => t \in Work
         /\ \A t \in Work : SplitOfRoot(t) => t \in Work'
         /\ \A p : Promised(p)' = Promised(p)
<1>1. /\ Work = {s} \cup Behind /\ (Work' = {u, a} \cup Behind \/ Work' = {u} \cup Behind)
      /\ s.do = "AdoptChildren" /\ u.do = "UnpinPage" /\ a.do = "AdoptChildren"
  BY DEF Tells, GoesUpBehind, TellsNext
<1>2. /\ b \in Behind /\ IsPromise(b)
      /\ \A t \in Behind : t = b \/ IsPlain(t)
  BY DEF GoesUpBehind, IsPromise
<1>3. /\ \A t \in Work : IsPromise(t) => t = b
      /\ \A t \in Work' : IsPromise(t) => t = b
      /\ b \in Work /\ b \in Work'
  BY <1>1, <1>2 DEF IsPromise, IsPlain
<1>4. Owner(b)' = Owner(b)
  BY DEF Owner, GoesUpBehind, ChangesParent
<1>5. \A p : Promised(p)' = Promised(p)
  <2> TAKE p
  <2>1. {t \in Work' : IsPromise(t) /\ Owner(t)' = p} = {t \in Work : IsPromise(t) /\ Owner(t) = p}
    BY <1>3, <1>4
  <2> QED BY <2>1 DEF Promised
<1> QED BY <1>1, <1>2, <1>3, <1>5 DEF SplitOfRoot, IsPromise

LEMMA OthersWaitToBeTold ==
  ASSUME NEW s, NEW page, NEW i, NEW child, NEW b, NEW u, NEW a, PagesInv,
         Tells(s, page, i, child), GoesUpBehind(s, b, page), TellsNext(page, i, u, a),
         ChangesParent(child, page), NEW c, Unadopted(c)
  PROVE  Unadopted(c)' \/ c = child
<1>1. PICK t \in Work : t.do = "AdoptChildren" /\
        \E j \in t.i .. Len(contents[t.page].array) : contents[t.page].array[j].value = c
  BY DEF Unadopted
<1>2. t = s
  BY <1>1 DEF IsPlain, GoesUpBehind
<1>3. PICK n : n = Len(contents[page].array)
  OBVIOUS
<1>4. page \in PageId /\ n \in Nat /\ i \in 1 .. n
  BY <1>3, NodeFacts DEF Tells, InternalOK, Internals
<1>5. PICK j \in i .. n : contents[page].array[j].value = c
  BY <1>1, <1>2, <1>3 DEF Tells
<1>6. CASE j = i
  BY <1>5, <1>6 DEF Tells
<1>7. CASE j # i
  <2>1. i < n /\ j \in i + 1 .. n
    BY <1>4, <1>5, <1>7
  <2>2. a \in Work' /\ a.do = "AdoptChildren" /\ a.page = page /\ a.i = i + 1
    BY <1>3, <2>1 DEF TellsNext
  <2>3. contents'[page].array = contents[page].array
    BY <1>4 DEF ChangesParent
  <2>4. j \in a.i .. Len(contents'[a.page].array) /\ contents'[a.page].array[j].value = c
    BY <1>3, <1>5, <2>1, <2>2, <2>3
  <2> QED BY <2>2, <2>4 DEF Unadopted
<1> QED BY <1>6, <1>7

(* The child of an entry is told of the node the entry is in.              *)
LEMMA ChildIsTold ==
  ASSUME PagesInv, NEW lev, NEW R, TreeInv(lev, R), HasTree,
         NEW s, NEW page, NEW i, NEW child, NEW b, NEW u, NEW a,
         Tells(s, page, i, child), GoesUpBehind(s, b, page), TellsNext(page, i, u, a),
         ChangesParent(child, page)
  PROVE  TreeInv(lev, R)' /\ EntriesSame
<1>1. /\ Leaves \subseteq PageId /\ Internals \subseteq PageId /\ Nodes \subseteq PageId
      /\ Leaves \subseteq Nodes /\ Internals \subseteq Nodes
      /\ Leaves \cap Internals = {} /\ num_pages \in Nat /\ num_pages <= num_pages
  BY NodeFacts DEF Leaves, Internals, Nodes
<1>2. /\ page \in Internals /\ child \in Nodes
      /\ root_page_id' = root_page_id /\ num_pages' = num_pages
  BY DEF Tells, ChangesParent
<1>3. \A p \in PageId : /\ contents'[p].array = contents[p].array /\ contents'[p].next = contents[p].next
                        /\ contents'[p].type = contents[p].type
                        /\ contents'[p].parent = IF p = child THEN page ELSE contents[p].parent
  BY DEF ChangesParent
<1>4. Leaves' = Leaves /\ Internals' = Internals
  BY <1>3, KindsSame DEF Leaves, Internals
<1>5. RangesInv(lev, R) /\ RootInv(lev, R) /\ OrderInv(R)
  BY DEF TreeInv
<1>6. child \in Kids(page)
  <2>1. PICK n : n = Len(contents[page].array)
    OBVIOUS
  <2>2. n \in Nat /\ i \in 1 .. n /\ child = contents[page].array[i].value
    BY <1>2, <2>1, NodeFacts DEF Tells, InternalOK
  <2>3. CASE i = 1
    BY <2>2, <2>3 DEF Kids, ChildrenOf, First
  <2>4. CASE i # 1
    <3>1. i \in 2 .. n
      BY <2>2, <2>4
    <3>2. contents[page].array[i] \in Seps(page)
      BY <2>1, <3>1 DEF Seps, Written
    <3> QED BY <2>2, <3>2 DEF Kids, ChildrenOf
  <2> QED BY <2>3, <2>4
<1>7. child # b.page
  <2>1. lev[child] + 1 = lev[page] /\ lev[child] \in Nat
    BY <1>1, <1>2, <1>5, <1>6 DEF RangesInv
  <2>2. b \in Work /\ b.do = "InsertIntoParent" /\ b.new = page
    BY DEF GoesUpBehind
  <2>3. lev[page] = lev[b.page]
    BY <1>5, <2>2 DEF RootInv
  <2> QED BY <2>1, <2>3
<1>8. /\ \A t : t.do = "InsertIntoParent" /\ t \in Work' => t \in Work
      /\ \A t \in Work : SplitOfRoot(t) => t \in Work'
      /\ \A p : Promised(p)' = Promised(p)
  BY <1>1, <1>7, PromisesStay
<1>9. \A t \in Internals : First(t)' = First(t) /\ Written(t)' = Written(t) /\ Seps(t)' = Seps(t)
  BY <1>1, <1>3, <1>8 DEF First, Written, Seps
<1>10. OrderInv(R)'
  <2>1. \A p \in Leaves : contents'[p].array = contents[p].array
    BY <1>1, <1>3
  <2>2. \A p \in Internals : contents'[p].array = contents[p].array
    BY <1>1, <1>3
  <2>3. \A p \in Internals : Promised(p)' = Promised(p) /\ Written(p)' = Written(p)
    BY <1>8, <1>9
  <2> HIDE DEF Promised, Written
  <2>4. \A p \in Leaves' :
          /\ IsRising(contents'[p].array, 1)
          /\ \A j \in 1 .. Len(contents'[p].array) : contents'[p].array[j].key \in R[p]
    BY <2>1, <1>4, <1>5 DEF OrderInv
  <2>5. \A p \in Internals' :
          /\ IsRising(contents'[p].array, 2)
          /\ \A e \in Promised(p)', f \in Written(p)' : e.key # f.key
    BY <2>2, <2>3, <1>4, <1>5 DEF OrderInv
  <2> QED BY <2>4, <2>5 DEF OrderInv
<1>11. TreeInv(lev, R)'
  <2>1. \A c \in Nodes : contents'[c].parent = contents[c].parent
                          \/ \E t \in Internals : contents'[c].parent = t /\ c \in Kids(t)
    BY <1>1, <1>2, <1>3, <1>6
  <2>2. \A c \in Nodes : Unadopted(c) => Unadopted(c)'
                          \/ \E t \in Internals : contents'[c].parent = t /\ c \in Kids(t)
    <3> SUFFICES ASSUME NEW c \in Nodes, Unadopted(c)
                 PROVE  Unadopted(c)' \/ \E t \in Internals : contents'[c].parent = t /\ c \in Kids(t)
      OBVIOUS
    <3>1. Unadopted(c)' \/ c = child
      BY OthersWaitToBeTold
    <3>2. contents'[child].parent = page
      BY <1>1, <1>2, <1>3
    <3> QED BY <3>1, <3>2, <1>2, <1>6
  <2>3. \A p \in Leaves : contents'[p].next = contents[p].next
    BY <1>1, <1>3
  <2> QED BY <2>1, <2>2, <2>3, <1>1, <1>2, <1>4, <1>8, <1>9, <1>10, SepsStay
<1>12. EntriesSame
  <2>1. HasTree' = HasTree
    BY <1>2 DEF HasTree
  <2> QED BY <2>1, <1>1, <1>3, LeavesKeepEntries
<1> QED BY <1>11, <1>12

LEMMA DoAdoptChildrenKeepsKeys ==
  ASSUME IInv, KeyInv, DoAdoptChildren, UNCHANGED <<held, reply, inserts>>
  PROVE  KeyInv' /\ Entries' = Entries /\ NodesStay
<1> DEFINE h   == Head(stack)
           arr == contents[h.page].array
           chi == arr[h.i].value
<1>1. /\ Executing("AdoptChildren")
      /\ \/ /\ FetchPage(chi, [contents EXCEPT ![chi].parent = h.page])
            /\ Then(AdoptNext(chi, h.page, h.i, Len(arr)))
            /\ UNCHANGED root_page_id
         \/ Crash
  BY DEF DoAdoptChildren, AdoptNext
<1>2. CASE Crash
  BY <1>2, CrashKeepsKeys, SameEntries, SameNodesStay DEF Crash, pool, EntriesSame
<1>3. ASSUME FetchPage(chi, [contents EXCEPT ![chi].parent = h.page]),
             Then(AdoptNext(chi, h.page, h.i, Len(arr))),
             UNCHANGED root_page_id
      PROVE  KeyInv' /\ Entries' = Entries /\ NodesStay
  <2>1. PICK s : s = h
    OBVIOUS
  <2>2. PICK page : page = s.page
    OBVIOUS
  <2>3. PICK i : i = s.i
    OBVIOUS
  <2>4. PICK child : child = contents[page].array[i].value
    OBVIOUS
  <2>5. PICK n : n = Len(contents[page].array)
    OBVIOUS
  <2>6. /\ s = stack[1] /\ s.do = "AdoptChildren"
        /\ page \in Internals /\ page \in PageId
        /\ InternalOK(contents[page]) /\ i \in 1 .. n /\ child \in Nodes
        /\ stack \in Seq(Statement) /\ stack # <<>> /\ GoesUp(stack) /\ root_page_id \in Nodes
    BY <1>1, <2>1, <2>2, <2>3, <2>4, <2>5, AdoptChildrenHead
  <2>7. child \in PageId /\ (LeafOK(contents[child]) \/ InternalOK(contents[child]))
    BY <2>6, NodeFacts DEF IInv, Nodes
  <2>8. PICK m : m = WithParent(contents[child], page)
    OBVIOUS
  <2>9. PICK nodes : nodes = Put(contents, child, m)
    OBVIOUS
  <2>10. PICK xs : xs = AdoptNext(child, page, i, n)
    OBVIOUS
  <2>11. FetchPage(child, nodes) /\ Then(xs)
    <3>1. h.page = page /\ h.i = i /\ chi = child /\ Len(arr) = n
      BY <2>1, <2>2, <2>3, <2>4, <2>5
    <3>2. nodes = [contents EXCEPT ![child].parent = page]
      BY <2>8, <2>9 DEF Put, WithParent
    <3> HIDE DEF h, arr, chi
    <3> QED BY <1>3, <2>10, <3>1, <3>2
  <2> HIDE DEF h, arr, chi
  <2>12. contents' = nodes /\ num_pages' = num_pages
    BY <2>11, FetchFacts
  <2>13. \A p \in PageId : contents'[p] = IF p = child THEN m ELSE contents[p]
    BY <2>9, <2>12, PutProps, NodeFacts DEF IInv
  <2>14. ChangesParent(child, page)
    <3>1. /\ m.parent = page /\ m.array = contents[child].array
          /\ m.next = contents[child].next /\ m.type = contents[child].type
      BY <2>6, <2>7, <2>8, WithParentProps
    <3>2. root_page_id' = root_page_id
      BY <1>3
    <3> QED BY <2>12, <2>13, <3>1, <3>2 DEF ChangesParent
  <2>15. Tells(s, page, i, child)
    BY <2>2, <2>3, <2>4, <2>5, <2>6 DEF Tells
  <2>16. n \in 1 .. INTERNAL_MAX /\ i \in Nat /\ i >= 1
    BY <2>5, <2>6 DEF InternalOK
  <2>17. /\ Work = {s} \cup Behind
         /\ \E u, a : /\ u.do = "UnpinPage" /\ a.do = "AdoptChildren"
                      /\ a.page = page /\ (i < n => a.i = i + 1)
                      /\ Work' = (IF i < n THEN {u, a} ELSE {u}) \cup Behind
    <3>1. StackInv
      BY DEF IInv
    <3> QED BY <3>1, <2>6, <2>7, <2>10, <2>11, <2>16, WorkThenAdopt
  <2>18. PICK u, a : /\ u.do = "UnpinPage" /\ a.do = "AdoptChildren"
                     /\ a.page = page /\ (i < n => a.i = i + 1)
                     /\ Work' = (IF i < n THEN {u, a} ELSE {u}) \cup Behind
    BY <2>17
  <2>19. TellsNext(page, i, u, a)
    BY <2>5, <2>18 DEF TellsNext
  <2>20. PICK b \in Behind : /\ b.do = "InsertIntoParent" /\ b.new = stack[1].page
                             /\ \A t \in Behind : t = b \/ (IsPlain(t) /\ ~IsSearch(t))
    BY <2>6, OneGoesUp
  <2>21. GoesUpBehind(s, b, page)
    <3>1. PICK k \in 2 .. Len(stack) : b = stack[k]
      BY DEF Behind
    <3>2. IsReady(b)
      BY <3>1, <2>6 DEF IInv, StackInv
    <3>3. b.page \in Nodes
      BY <3>2, <2>20 DEF IsReady
    <3> QED BY <3>3, <2>2, <2>6, <2>17, <2>20 DEF GoesUpBehind
  <2>22. PICK lev, R : TreeInv(lev, R) /\ CallInv(R)
    BY DEF KeyInv
  <2>23. TreeInv(lev, R)' /\ EntriesSame
    <3>1. PagesInv /\ HasTree
      BY <2>6, NodeFacts DEF IInv, HasTree
    <3> QED BY <3>1, <2>14, <2>15, <2>19, <2>21, <2>22, ChildIsTold
  <2>24. CallInv(R)'
    <3>1. PICK X : X = {u, a}
      OBVIOUS
    <3>2. CallOK(R, u) /\ CallOK(R, a)
      BY <2>18 DEF CallOK, IsSearch, WillInsert
    <3>3. Work' \subseteq X \cup Work
      BY <3>1, <2>17, <2>18
    <3>4. \A t \in X : CallOK(R, t)
      BY <3>1, <3>2
    <3> QED BY <3>3, <3>4, <2>22, <2>23, CallsStay
  <2>25. KeyInv'
    BY <2>22, <2>23, <2>24 DEF KeyInv
  <2>26. NodesStay
    BY <2>14, KindsSame DEF NodesStay, Leaves, Internals, First, ChangesParent
  <2> QED BY <2>23, <2>25, <2>26 DEF EntriesSame
<1> QED BY <1>1, <1>2, <1>3

-----------------------------------------------------------------------------
(* Splitting an internal node.                                             *)

(* The node n is split into l and r around its entry d, which starts r,    *)
(* and e goes to the half its key belongs to.                              *)
HalvesInternal(n, e, d, l, r) ==
  /\ \E j \in 2 .. Len(n.array) : n.array[j] = d
  /\ l.array[1] = n.array[1] /\ r.array[1] = d
  /\ IsRising(l.array, 2) /\ IsRising(r.array, 2)
  /\ \A i \in 2 .. Len(l.array) : l.array[i].key < d.key /\
       (l.array[i] = e \/ \E j \in 2 .. Len(n.array) : l.array[i] = n.array[j])
  /\ \A i \in 2 .. Len(r.array) : d.key < r.array[i].key /\
       (r.array[i] = e \/ \E j \in 2 .. Len(n.array) : r.array[i] = n.array[j])
  /\ \A j \in 2 .. Len(n.array) :
       \/ n.array[j] = d
       \/ \E i \in 2 .. Len(l.array) : l.array[i] = n.array[j]
       \/ \E i \in 2 .. Len(r.array) : r.array[i] = n.array[j]
  /\ \/ \E i \in 2 .. Len(l.array) : l.array[i] = e
     \/ \E i \in 2 .. Len(r.array) : r.array[i] = e

LEMMA SplitInternalKeys ==
  ASSUME NEW n, InternalOK(n), Len(n.array) = INTERNAL_MAX, IsRising(n.array, 2),
         NEW key \in Key, NEW child \in PageId,
         \A i \in 2 .. Len(n.array) : n.array[i].key # key,
         NEW l, l = LeftInternal(n, key, child), NEW r, r = RightInternal(n, key, child),
         NEW e, e = Entry(key, child)
  PROVE  \E d : HalvesInternal(n, e, d, l, r) /\ d.key = MiddleOfInternal(n)
<1>1. PICK a : a = n.array
  OBVIOUS
<1>2. /\ a \in Seq(InternalEntry) /\ n.parent \in PageId \cup {NoPage} /\ Len(a) = INTERNAL_MAX
      /\ \A i \in 2 .. INTERNAL_MAX : a[i].key \in Key
  BY <1>1 DEF InternalOK, InternalRecord
<1>3. PICK half : half = INTERNAL_MAX \div 2
  OBVIOUS
<1>4. PICK kept : kept = Kept(a, INTERNAL_MAX)
  OBVIOUS
<1>5. PICK moved : moved = Moved(a, INTERNAL_MAX)
  OBVIOUS
<1>6. INTERNAL_MAX \in Nat /\ INTERNAL_MAX >= 2 /\ key \in Int
  BY Sizes
<1>7. /\ kept \in Seq(InternalEntry) /\ Len(kept) = half /\ half \in 1 .. INTERNAL_MAX - 1
      /\ \A i \in 1 .. half : kept[i] = a[i]
  BY <1>2, <1>3, <1>4, <1>6, KeptProps
<1>8. /\ moved \in Seq(InternalEntry) /\ Len(moved) = INTERNAL_MAX - half
      /\ \A i \in 1 .. INTERNAL_MAX - half : moved[i] = a[half + i]
  <2>1. IsUpperHalf(moved, InternalEntry, a, INTERNAL_MAX, half)
    BY <1>2, <1>3, <1>5, <1>6, MovedProps
  <2> QED BY <2>1 DEF IsUpperHalf
<1>9. \A i \in 2 .. INTERNAL_MAX : a[i].key \in Int /\ a[i].key # key
  BY <1>1, <1>2, Sizes
<1>10. \A i, j \in 2 .. INTERNAL_MAX : i < j => a[i].key < a[j].key
  BY <1>1, <1>2 DEF IsRising
<1>11. PICK left : left = Internal(n.parent, kept)
  OBVIOUS
<1>12. PICK right : right = Internal(n.parent, moved)
  OBVIOUS
<1>13. left.array = kept /\ right.array = moved /\ InternalOK(left) /\ InternalOK(right)
  <2>1. \A i \in 2 .. half : kept[i].key \in Key
    BY <1>2, <1>6, <1>7
  <2>2. ASSUME NEW i \in 2 .. INTERNAL_MAX - half
        PROVE  moved[i].key \in Key
    <3>1. half + i \in 2 .. INTERNAL_MAX /\ i \in 1 .. INTERNAL_MAX - half
      BY <1>6, <1>7
    <3> QED BY <3>1, <1>2, <1>8
  <2>3. left \in InternalRecord /\ left.array = kept
    BY <1>2, <1>7, <1>11 DEF Internal, InternalRecord
  <2>4. right \in InternalRecord /\ right.array = moved
    BY <1>2, <1>8, <1>12 DEF Internal, InternalRecord
  <2>5. InternalOK(left)
    BY <1>6, <1>7, <2>1, <2>3 DEF InternalOK
  <2>6. InternalOK(right)
    BY <1>6, <1>7, <1>8, <2>2, <2>4 DEF InternalOK
  <2> QED BY <2>3, <2>4, <2>5, <2>6
<1>14. PICK m : m = MiddleKey(right)
  OBVIOUS
<1>15. /\ m = MiddleOfInternal(n)
       /\ l = IF m <= key THEN left ELSE InternalInsert(left, key, child)
       /\ r = IF m <= key THEN InternalInsert(right, key, child) ELSE right
  BY <1>1, <1>4, <1>5, <1>11, <1>12, <1>14 DEF MiddleOfInternal, LeftInternal, RightInternal
<1>16. PICK d : d = a[half + 1]
  OBVIOUS
<1>17. half + 1 \in 2 .. INTERNAL_MAX /\ moved[1] = d /\ m = d.key /\ m \in Int /\ m # key
  <2>1. 1 \in 1 .. INTERNAL_MAX - half /\ half + 1 \in 2 .. INTERNAL_MAX
    BY <1>6, <1>7
  <2>2. moved[1] = d
    BY <2>1, <1>8, <1>16
  <2> QED BY <2>1, <2>2, <1>9, <1>13, <1>14, <1>16 DEF MiddleKey
<1>18. ASSUME NEW i \in 2 .. half
       PROVE  i \in 2 .. INTERNAL_MAX /\ kept[i] = a[i] /\ kept[i].key < m /\ kept[i].key \in Int
  <2>1. i \in 2 .. INTERNAL_MAX /\ i < half + 1 /\ i \in 1 .. half
    BY <1>6, <1>7
  <2> QED BY <2>1, <1>7, <1>9, <1>10, <1>16, <1>17
<1>19. ASSUME NEW i \in 2 .. INTERNAL_MAX - half
       PROVE  half + i \in 2 .. INTERNAL_MAX /\ moved[i] = a[half + i] /\ m < moved[i].key /\ moved[i].key \in Int
  <2>1. half + i \in 2 .. INTERNAL_MAX /\ half + 1 < half + i /\ i \in 1 .. INTERNAL_MAX - half
    BY <1>6, <1>7
  <2> QED BY <2>1, <1>8, <1>9, <1>10, <1>16, <1>17
<1>20. IsRising(kept, 2)
  BY <1>7, <1>10, <1>18 DEF IsRising
<1>21. IsRising(moved, 2)
  <2> SUFFICES ASSUME NEW i \in 2 .. INTERNAL_MAX - half, NEW j \in 2 .. INTERNAL_MAX - half, i < j
               PROVE  moved[i].key < moved[j].key
    BY <1>8 DEF IsRising
  <2>1. half + i < half + j
    BY <1>7
  <2> QED BY <2>1, <1>10, <1>19
<1>22. ASSUME NEW j \in 2 .. INTERNAL_MAX
       PROVE  \/ a[j] = d
              \/ j \in 2 .. half /\ kept[j] = a[j]
              \/ j - half \in 2 .. INTERNAL_MAX - half /\ moved[j - half] = a[j]
  <2>1. CASE j <= half
    <3>1. j \in 2 .. half
      BY <2>1, <1>7
    <3> QED BY <3>1, <1>18
  <2>2. CASE j = half + 1
    BY <2>2, <1>16
  <2>3. CASE j > half + 1
    <3>1. j - half \in 2 .. INTERNAL_MAX - half /\ half + (j - half) = j
      BY <2>3, <1>6, <1>7
    <3> QED BY <3>1, <1>19
  <2> QED BY <2>1, <2>2, <2>3, <1>7
<1>23. 1 \in 1 .. half /\ kept[1] = a[1] /\ e.key = key
  BY <1>6, <1>7 DEF Entry
<1>24. \E j \in 2 .. INTERNAL_MAX : a[j] = d
  BY <1>16, <1>17
<1>25. CASE m <= key
  <2>1. l.array = kept
    BY <1>13, <1>15, <1>25
  <2>2. LacksKey(right, key)
    <3>1. Len(moved) < INTERNAL_MAX
      BY <1>6, <1>7, <1>8
    <3>2. \A i \in 2 .. INTERNAL_MAX - half : moved[i].key # key
      BY <1>9, <1>19
    <3> QED BY <3>1, <3>2, <1>8, <1>13, <1>21 DEF LacksKey
  <2>3. PICK b : b = r.array
    OBVIOUS
  <2>4. /\ IsRising(b, 2) /\ b[1] = d
        /\ \A i \in 2 .. Len(b) : b[i] = e \/ \E j \in 2 .. INTERNAL_MAX - half : b[i] = moved[j]
        /\ \A j \in 2 .. INTERNAL_MAX - half : \E i \in 2 .. Len(b) : b[i] = moved[j]
        /\ \E i \in 2 .. Len(b) : b[i] = e
    <3>1. r = InternalInsert(right, key, child)
      BY <1>15, <1>25
    <3>2. Joins(right.array, 2, e, r.array) /\ r.array[1] = right.array[1]
      BY <3>1, <2>2, InternalInsertKeys
    <3>3. Joins(moved, 2, e, b) /\ Len(moved) = INTERNAL_MAX - half /\ b[1] = d
      BY <3>2, <2>3, <1>8, <1>13, <1>17
    <3> QED BY <3>3 DEF Joins
  <2>5. m < e.key
    BY <1>6, <1>17, <1>23, <1>25
  <2>6. ASSUME NEW i \in 2 .. Len(b)
        PROVE  m < b[i].key /\ (b[i] = e \/ \E j \in 2 .. INTERNAL_MAX : b[i] = a[j])
    <3>1. CASE b[i] = e
      BY <3>1, <2>5
    <3>2. CASE b[i] # e
      <4>1. PICK j \in 2 .. INTERNAL_MAX - half : b[i] = moved[j]
        BY <3>2, <2>4
      <4> QED BY <4>1, <1>19
    <3> QED BY <3>1, <3>2
  <2>7. \A i \in 2 .. Len(kept) : kept[i].key < m /\ \E j \in 2 .. INTERNAL_MAX : kept[i] = a[j]
    BY <1>7, <1>18
  <2>8. \A j \in 2 .. INTERNAL_MAX : \/ a[j] = d
                                     \/ \E i \in 2 .. Len(kept) : kept[i] = a[j]
                                     \/ \E i \in 2 .. Len(b) : b[i] = a[j]
    BY <2>4, <1>7, <1>22
  <2>9. HalvesInternal(n, e, d, l, r)
    BY <2>1, <2>3, <2>4, <2>6, <2>7, <2>8, <1>1, <1>2, <1>17, <1>20, <1>23, <1>24 DEF HalvesInternal
  <2> QED BY <2>9, <1>15, <1>17
<1>26. CASE ~(m <= key)
  <2>1. r.array = moved
    BY <1>13, <1>15, <1>26
  <2>2. LacksKey(left, key)
    <3>1. Len(kept) < INTERNAL_MAX
      BY <1>6, <1>7
    <3>2. \A i \in 2 .. half : kept[i].key # key
      BY <1>9, <1>18
    <3> QED BY <3>1, <3>2, <1>7, <1>13, <1>20 DEF LacksKey
  <2>3. PICK b : b = l.array
    OBVIOUS
  <2>4. /\ IsRising(b, 2) /\ b[1] = a[1]
        /\ \A i \in 2 .. Len(b) : b[i] = e \/ \E j \in 2 .. half : b[i] = kept[j]
        /\ \A j \in 2 .. half : \E i \in 2 .. Len(b) : b[i] = kept[j]
        /\ \E i \in 2 .. Len(b) : b[i] = e
    <3>1. l = InternalInsert(left, key, child)
      BY <1>15, <1>26
    <3>2. Joins(left.array, 2, e, l.array) /\ l.array[1] = left.array[1]
      BY <3>1, <2>2, InternalInsertKeys
    <3>3. Joins(kept, 2, e, b) /\ Len(kept) = half /\ b[1] = a[1]
      BY <3>2, <2>3, <1>7, <1>13, <1>23
    <3> QED BY <3>3 DEF Joins
  <2>5. e.key < m
    BY <1>6, <1>17, <1>23, <1>26
  <2>6. ASSUME NEW i \in 2 .. Len(b)
        PROVE  b[i].key < m /\ (b[i] = e \/ \E j \in 2 .. INTERNAL_MAX : b[i] = a[j])
    <3>1. CASE b[i] = e
      BY <3>1, <2>5
    <3>2. CASE b[i] # e
      <4>1. PICK j \in 2 .. half : b[i] = kept[j]
        BY <3>2, <2>4
      <4> QED BY <4>1, <1>18
    <3> QED BY <3>1, <3>2
  <2>7. \A i \in 2 .. Len(moved) : m < moved[i].key /\ \E j \in 2 .. INTERNAL_MAX : moved[i] = a[j]
    BY <1>8, <1>19
  <2>8. \A j \in 2 .. INTERNAL_MAX : \/ a[j] = d
                                     \/ \E i \in 2 .. Len(b) : b[i] = a[j]
                                     \/ \E i \in 2 .. Len(moved) : moved[i] = a[j]
    BY <2>4, <1>8, <1>22
  <2>9. HalvesInternal(n, e, d, l, r)
    BY <2>1, <2>3, <2>4, <2>6, <2>7, <2>8, <1>1, <1>2, <1>17, <1>21, <1>24 DEF HalvesInternal
  <2> QED BY <2>9, <1>15, <1>17
<1> QED BY <1>25, <1>26

LEMMA HalvesOfNode ==
  ASSUME PagesInv, NEW lev, NEW R, RangesInv(lev, R), NEW page \in Internals,
         NEW new \in PageId, new \notin Nodes, NEW e, Promised(page) = {e},
         NEW d, NEW l, NEW r, HalvesInternal(contents[page], e, d, l, r),
         contents'[page] = l, contents'[new] = r, Promised(page)' = {}, Promised(new)' = {},
         NEW R2, R2 = Cut(R, page, d.key, new)
  PROVE  /\ HalvesKids(page, new, R, R2) /\ d.key \in Key /\ d.key \in R[page]
         /\ \E low \in R[page] : low < d.key
<1>1. PICK a : a = contents[page].array
  OBVIOUS
<1>2. PICK b, c : b = l.array /\ c = r.array
  OBVIOUS
<1>3. PICK S : S = Seps(page)
  OBVIOUS
<1>4. /\ \E j \in 2 .. Len(a) : a[j] = d
      /\ b[1] = a[1] /\ c[1] = d
      /\ \A i \in 2 .. Len(b) : b[i].key < d.key /\ (b[i] = e \/ \E j \in 2 .. Len(a) : b[i] = a[j])
      /\ \A i \in 2 .. Len(c) : d.key < c[i].key /\ (c[i] = e \/ \E j \in 2 .. Len(a) : c[i] = a[j])
      /\ \A j \in 2 .. Len(a) : \/ a[j] = d
                                \/ \E i \in 2 .. Len(b) : b[i] = a[j]
                                \/ \E i \in 2 .. Len(c) : c[i] = a[j]
      /\ \/ \E i \in 2 .. Len(b) : b[i] = e
         \/ \E i \in 2 .. Len(c) : c[i] = e
  BY <1>1, <1>2 DEF HalvesInternal
<1>5. /\ \A x : x \in S <=> x = e \/ \E j \in 2 .. Len(a) : x = a[j]
      /\ d \in S
  <2>1. \A x : x \in S <=> x = e \/ \E j \in 2 .. Len(a) : x = a[j]
    BY <1>1, <1>3 DEF Seps, Written
  <2> QED BY <2>1, <1>4
<1>6. PICK first : first = First(page)
  OBVIOUS
<1>7. /\ page \in Nodes /\ page \in PageId /\ Slots(first, S, R[page], R)
      /\ \A f \in S : f.key \in Key /\ f.key \in Int
      /\ \A k \in Kids(page) : k \in Nodes
      /\ Kids(page) = ChildrenOf(first, S)
      /\ R \in [PageId -> SUBSET Int] /\ lev \in [PageId -> Nat]
  <2>1. page \in Nodes /\ page \in PageId
    BY DEF Nodes, Internals
  <2> QED BY <2>1, <1>3, <1>6, Sizes DEF RangesInv, Kids
<1>8. /\ First(page)' = b[1].value /\ First(new)' = c[1].value /\ b[1].value = first
      /\ Seps(page)' = {b[i] : i \in 2 .. Len(b)} /\ Seps(new)' = {c[i] : i \in 2 .. Len(c)}
  BY <1>1, <1>2, <1>4, <1>6 DEF First, Seps, Written
<1>9. PICK A, B : A = {f \in S : f.key < d.key} /\ B = {f \in S : d.key < f.key}
  OBVIOUS
<1>10. /\ d.key \in Int /\ d.key \in Key /\ d.key \in R[page]
  BY <1>5, <1>7 DEF Slots
<1>11. Seps(page)' = A
  <2>1. \A f \in Seps(page)' : f \in A
    BY <1>4, <1>5, <1>8, <1>9
  <2>2. ASSUME NEW f \in A PROVE f \in Seps(page)'
    <3>1. f \in S /\ f.key < d.key /\ f.key \in Int
      BY <1>7, <1>9
    <3>2. \/ \E i \in 2 .. Len(b) : b[i] = f
          \/ \E i \in 2 .. Len(c) : c[i] = f
      <4>1. CASE f = e
        BY <4>1, <1>4
      <4>2. CASE f # e
        <5>1. PICK j \in 2 .. Len(a) : f = a[j]
          BY <3>1, <4>2, <1>5
        <5>2. f # d
          BY <3>1, <1>10
        <5> QED BY <5>1, <5>2, <1>4
      <4> QED BY <4>1, <4>2
    <3> QED BY <3>1, <3>2, <1>4, <1>8, <1>10
  <2> QED BY <2>1, <2>2
<1>12. Seps(new)' = B
  <2>1. \A f \in Seps(new)' : f \in B
    BY <1>4, <1>5, <1>8, <1>9
  <2>2. ASSUME NEW f \in B PROVE f \in Seps(new)'
    <3>1. f \in S /\ d.key < f.key /\ f.key \in Int
      BY <1>7, <1>9
    <3>2. \/ \E i \in 2 .. Len(b) : b[i] = f
          \/ \E i \in 2 .. Len(c) : c[i] = f
      <4>1. CASE f = e
        BY <4>1, <1>4
      <4>2. CASE f # e
        <5>1. PICK j \in 2 .. Len(a) : f = a[j]
          BY <3>1, <4>2, <1>5
        <5>2. f # d
          BY <3>1, <1>10
        <5> QED BY <5>1, <5>2, <1>4
      <4> QED BY <4>1, <4>2
    <3> QED BY <3>1, <3>2, <1>4, <1>8, <1>10
  <2> QED BY <2>1, <2>2
<1>13. /\ \A x \in Int : x \in R2[page] <=> x \in R[page] /\ x < d.key
       /\ \A x \in Int : x \in R2[new] <=> x \in R[page] /\ d.key <= x
  <2>1. page # new
    BY <1>7
  <2>2. CutAt(R, R2, page, d.key, new)
    <3>1. PICK lev2 : lev2 = Beside(lev, page, new)
      OBVIOUS
    <3> QED BY <2>1, <3>1, <1>7, <1>10, CutProps
  <2> QED BY <2>2 DEF CutAt
<1>14. Slots(first, A, R2[page], R) /\ Slots(d.value, B, R2[new], R)
  <2>1. PICK Y, Z : Y = R2[page] /\ Z = R2[new]
    OBVIOUS
  <2>2. /\ \A x \in Int : x \in Y <=> x \in R[page] /\ x < d.key
        /\ \A x \in Int : x \in Z <=> x \in R[page] /\ d.key <= x
    BY <1>13, <2>1
  <2>3. Slots(first, S, R[page], R) /\ (\A f \in S : f.key \in Int) /\ d \in S
    BY <1>5, <1>7
  <2>4. Slots(first, A, Y, R) /\ Slots(d.value, B, Z, R)
    <3>1. Around(S, d, A, B) /\ CutInTwo(R[page], d.key, Y, Z)
      BY <1>9, <2>2 DEF Around, CutInTwo
    <3> QED BY <2>3, <3>1, SlotsOfHalves
  <2> QED BY <2>1, <2>4
<1>15. Kids(page)' = ChildrenOf(first, A) /\ Kids(new)' = ChildrenOf(d.value, B)
  BY <1>4, <1>8, <1>11, <1>12 DEF Kids
<1>16. /\ Kids(page)' \subseteq Kids(page) /\ Kids(new)' \subseteq Kids(page)
       /\ Kids(page) \subseteq Kids(page)' \cup Kids(new)'
  <2>1. \A f \in S : f \in A \/ f \in B \/ f = d
    <3> SUFFICES ASSUME NEW f \in S, f \notin A, f \notin B
                 PROVE  f = d
      OBVIOUS
    <3>1. f.key = d.key
      BY <1>7, <1>9, <1>10
    <3>2. \/ f = d
          \/ \E i \in 2 .. Len(b) : b[i] = f
          \/ \E i \in 2 .. Len(c) : c[i] = f
      BY <1>4, <1>5
    <3> QED BY <3>1, <3>2, <1>4, <1>10
  <2>2. A \subseteq S /\ B \subseteq S
    BY <1>9
  <2> QED BY <2>1, <2>2, <1>5, <1>7, <1>15 DEF ChildrenOf
<1>17. HalvesKids(page, new, R, R2)
  BY <1>4, <1>7, <1>8, <1>9, <1>11, <1>12, <1>14, <1>16 DEF HalvesKids
<1>18. \E low \in R[page] : low < d.key
  <2>1. first \in Nodes
    BY <1>7 DEF ChildrenOf
  <2>2. PICK low : low \in R[first]
    BY <2>1 DEF RangesInv
  <2>3. low \in Int
    BY <2>1, <2>2, <1>7, NodeFacts
  <2> QED BY <2>2, <2>3, <1>5, <1>7 DEF Slots
<1> QED BY <1>10, <1>17, <1>18

LEMMA AdoptStays ==
  ASSUME NEW page, NEW i, NEW a, a = AdoptChildren(page, i)
  PROVE  /\ a.do = "AdoptChildren" /\ a.page = page /\ a.i = i
         /\ ~IsPromise(a) /\ ~IsSearch(a) /\ \A R : CallOK(R, a)
BY DEF AdoptChildren, IsPromise, IsSearch, CallOK, WillInsert

LEMMA GoUpIs ==
  ASSUME NEW p, NEW m, NEW new, NEW b, b = InsertIntoParent(p, m, new)
  PROVE  /\ IsPromise(b) /\ ~IsSearch(b) /\ b.do = "InsertIntoParent" /\ \A R : CallOK(R, b)
BY DEF InsertIntoParent, IsPromise, IsSearch, CallOK, WillInsert

LEMMA WorkThenAdoptAndGoUp ==
  ASSUME StackInv, stack # <<>>, Rest(stack), NEW page \in PageId, NEW m \in Key, NEW new \in PageId,
         NEW xs, xs = AdoptAndGoUp(page, m, new), Then(xs),
         NEW a, a = AdoptChildren(new, 1), NEW b, b = InsertIntoParent(page, m, new)
  PROVE  /\ Work = {stack[1]} \cup Behind
         /\ \E X : /\ a \in X /\ b \in X /\ (\A t \in X : t = b \/ ~IsPromise(t))
                   /\ (\A t \in X : \A R : CallOK(R, t)) /\ (\A t \in X : ~IsSearch(t))
                   /\ Work' = X \cup Behind
<1>1. PICK u, v : u = UnpinPage(page, TRUE) /\ v = UnpinPage(new, TRUE)
  OBVIOUS
<1>2. xs = <<a, b, u, v>>
  BY <1>1 DEF AdoptAndGoUp
<1>3. Len(xs) = 4 /\ xs[1] = a /\ xs[2] = b /\ xs[3] = u /\ xs[4] = v
  BY <1>2
<1>4. WorkOf(xs) = {a, b, u, v}
  BY <1>3, FourOf
<1>5. xs \in Seq(Statement)
  BY AdoptAndGoUpProps
<1>6. Work = {stack[1]} \cup Behind /\ Work' = {a, b, u, v} \cup Behind
  BY <1>4, <1>5, WorkThen
<1>7. PICK X : X = {a, b, u, v}
  OBVIOUS
<1>8. ~IsPromise(a) /\ ~IsSearch(a) /\ \A R : CallOK(R, a)
  BY AdoptStays
<1>9. ~IsSearch(b) /\ \A R : CallOK(R, b)
  BY GoUpIs
<1>10. IsPlain(u) /\ ~IsSearch(u) /\ \A R : CallOK(R, u)
  BY <1>1, UnpinOK
<1>11. IsPlain(v) /\ ~IsSearch(v) /\ \A R : CallOK(R, v)
  BY <1>1, UnpinOK
<1>12. ~IsPromise(u) /\ ~IsPromise(v)
  BY <1>10, <1>11 DEF IsPlain, IsPromise
<1>13. a \in X /\ b \in X /\ \A t \in X : t \in {a, b, u, v}
  BY <1>7
<1>14. \A t \in X : (t = b \/ ~IsPromise(t)) /\ ~IsSearch(t) /\ \A R : CallOK(R, t)
  BY <1>8, <1>9, <1>10, <1>11, <1>12, <1>13
<1> QED BY <1>6, <1>7, <1>13, <1>14

(* The parts of what a split of an internal node rests on.                 *)
OnlyWaits(page, e) == \A p : Promised(p) = IF page = p THEN {e} ELSE {}

NoneGoesUp == \A t \in Work : t.do \notin {"InsertIntoParent", "AdoptChildren"}

OnlyTheseChange(page, new) ==
  \A p \in PageId : p # new /\ p # page => contents'[p] = contents[p]

OnlyPromise(b) == \A t \in Work : IsPromise(t) => t = b

(* An internal node is split around the entry d, with the entry e that was *)
(* on its way into it.                                                     *)
LEMMA InternalSplits ==
  ASSUME PagesInv, ParentsInv, NEW lev, NEW R, TreeInv(lev, R), HasTree, root_page_id \in Nodes,
         NEW page \in Internals, NEW new \in PageId, new \notin Nodes,
         NEW e, OnlyWaits(page, e), NoneGoesUp,
         NEW d, NEW l, NEW r, HalvesInternal(contents[page], e, d, l, r),
         InternalOK(l), InternalOK(r), l.parent = contents[page].parent, r.parent = contents[page].parent,
         contents'[page] = l, contents'[new] = r,
         OnlyTheseChange(page, new),
         root_page_id' = root_page_id, num_pages' \in Nat, num_pages <= num_pages',
         NEW m, m = d.key, NEW b, b = InsertIntoParent(page, m, new), b \in Work',
         OnlyPromise(b)',
         NEW a \in Work', a = AdoptChildren(new, 1),
         NEW lev2, lev2 = Beside(lev, page, new), NEW R2, R2 = Cut(R, page, m, new)
  PROVE  TreeInv(lev2, R2)' /\ EntriesSame
<1> /\ \A p : Promised(p) = IF page = p THEN {e} ELSE {}
    /\ \A t \in Work : t.do \notin {"InsertIntoParent", "AdoptChildren"}
    /\ \A p \in PageId : p # new /\ p # page => contents'[p] = contents[p]
    /\ \A t \in Work' : IsPromise(t) => t = b
  BY DEF OnlyWaits, NoneGoesUp, OnlyTheseChange, OnlyPromise
<1>1. /\ Leaves \subseteq PageId /\ Internals \subseteq PageId /\ Nodes \subseteq PageId
      /\ Leaves \subseteq Nodes /\ Internals \subseteq Nodes /\ NoPage \notin PageId
      /\ Leaves \cap Internals = {} /\ num_pages \in Nat /\ page \in Nodes /\ page # new
  BY NodeFacts DEF Leaves, Internals, Nodes
<1>2. /\ RangesInv(lev, R) /\ OrderInv(R) /\ RootInv(lev, R) /\ FamilyInv /\ ChainInv(R) /\ BottomInv(R)
  BY DEF TreeInv
<1>3. PICK up : up = contents[page].parent
  OBVIOUS
<1>4. contents'[page].parent = up /\ contents'[new].parent = up
  BY <1>3
<1>5. \A t \in Internals : page \in Kids(t) <=> up = t
  <2>1. ~Unadopted(page) /\ \A t \in Work : ~(SplitOfRoot(t) /\ t.new = page)
    BY DEF Unadopted, SplitOfRoot
  <2> QED BY <2>1, <1>1, <1>2, <1>3, ExactParent
<1>6. up # page /\ up # new
  <2>1. page \notin Kids(page)
    <3> SUFFICES ASSUME page \in Kids(page) PROVE FALSE
      OBVIOUS
    <3>1. lev[page] + 1 = lev[page] /\ lev[page] \in Nat
      BY <1>1, <1>2 DEF RangesInv
    <3> QED BY <3>1
  <2>2. up = NoPage \/ up \in Internals
    BY <1>1, <1>3 DEF ParentsInv
  <2> QED BY <2>1, <2>2, <1>1, <1>5
<1>7. \A t : Promised(t)' = IF up = t THEN {Entry(m, new)} ELSE {}
  BY <1>4, OnePromise
<1>8. Leaves' = Leaves /\ Internals' = Internals \cup {new} /\ Nodes' = Nodes \cup {new}
  <2>1. l.type = "internal" /\ r.type = "internal" /\ contents[page].type = "internal"
    BY NodeKinds DEF Internals
  <2>2. contents[new].type # "leaf"
    BY DEF Nodes, Leaves
  <2>3. \A p \in PageId : contents'[p].type = IF p = new THEN "internal" ELSE contents[p].type
    BY <2>1
  <2>4. Leaves' = Leaves /\ Internals' = Internals \cup {new}
    BY <2>2, <2>3, KindsSame DEF Leaves, Internals
  <2> QED BY <2>4, KindsSame DEF Nodes
<1>9. /\ HalvesKids(page, new, R, R2) /\ m \in Key /\ m \in R[page]
      /\ \E low \in R[page] : low < m
  <2>1. Promised(page) = {e} /\ Promised(page)' = {} /\ Promised(new)' = {}
    BY <1>6, <1>7
  <2> QED BY <2>1, <1>2, HalvesOfNode
<1>10. PICK low \in R[page] : low < m /\ low \in Int /\ m \in Int
  BY <1>1, <1>2, <1>9, Sizes DEF RangesInv
<1>11. \A t \in Internals : t # page =>
         /\ First(t)' = First(t) /\ Written(t)' = Written(t) /\ Seps(t) = Written(t)
         /\ contents'[t] = contents[t]
         /\ Promised(t)' = IF page \in Kids(t) THEN {Entry(m, new)} ELSE {}
  <2> SUFFICES ASSUME NEW t \in Internals, t # page
               PROVE  /\ First(t)' = First(t) /\ Written(t)' = Written(t) /\ Seps(t) = Written(t)
                      /\ contents'[t] = contents[t]
                      /\ Promised(t)' = IF page \in Kids(t) THEN {Entry(m, new)} ELSE {}
    OBVIOUS
  <2>1. contents'[t] = contents[t]
    BY <1>1
  <2>2. Promised(t) = {}
    OBVIOUS
  <2>3. Seps(t) = Written(t)
    BY <2>2 DEF Seps
  <2> QED BY <2>1, <2>3, <1>5, <1>7 DEF First, Written
<1>12. SplitsOff(page, m, new)
  <2>1. \A t \in Internals \ {page} : /\ First(t)' = First(t)
          /\ Seps(t)' = IF page \in Kids(t) THEN Seps(t) \cup {Entry(m, new)} ELSE Seps(t)
    <3> TAKE t \in Internals \ {page}
    <3>1. Seps(t)' = Written(t)' \cup Promised(t)'
      BY DEF Seps
    <3> QED BY <3>1, <1>11
  <2> QED BY <2>1, <1>1, <1>8 DEF SplitsOff
<1>13. RangesInv(lev2, R2)'
  BY <1>1, <1>2, <1>9, <1>10, <1>12, SplitKeepsRanges
<1>14. \A c \in PageId : c # page /\ c # new => R2[c] = R[c]
  BY <1>1, <1>2, <1>10, CutProps DEF RangesInv
<1>15. OrderInv(R2)'
  <2>1. \A p \in Leaves : contents'[p] = contents[p] /\ R2[p] = R[p]
    BY <1>1, <1>14
  <2>2. ASSUME NEW p \in Internals'
        PROVE  /\ IsRising(contents'[p].array, 2)
               /\ \A x \in Promised(p)', f \in Written(p)' : x.key # f.key
    <3>1. CASE p \in {page, new}
      <4>1. Promised(p)' = {}
        BY <3>1, <1>6, <1>7
      <4>2. IsRising(contents'[p].array, 2)
        BY <3>1 DEF HalvesInternal
      <4> QED BY <4>1, <4>2
    <3>2. CASE p \notin {page, new}
      <4>1. p \in Internals /\ p # page
        BY <3>2, <1>8
      <4>2. IsRising(contents'[p].array, 2)
        BY <4>1, <1>2, <1>11 DEF OrderInv
      <4>3. ASSUME NEW x \in Promised(p)', NEW f \in Written(p)'
            PROVE  x.key # f.key
        <5>1. page \in Kids(p) /\ x = Entry(m, new) /\ f \in Seps(p)
          BY <4>1, <1>11
        <5>2. f.key # m
          BY <5>1, <4>1, <1>1, <1>2, <1>9, <1>10, FreshSeparator
        <5> QED BY <5>1, <5>2 DEF Entry
      <4> QED BY <4>2, <4>3
    <3> QED BY <3>1, <3>2
  <2> QED BY <2>1, <2>2, <1>2, <1>8 DEF OrderInv
<1>16. \A t \in Work' : t.do = "InsertIntoParent" => t = b
  BY DEF IsPromise
<1>17. RootInv(lev2, R2)'
  BY <1>1, <1>2, <1>8, <1>9, <1>16, SplitKeepsRoot
<1>18. FamilyInv'
  <2>1. \A c \in Nodes : contents'[c].parent = contents[c].parent
    BY <1>1, <1>3, <1>4
  <2>2. contents'[new].parent = contents[page].parent
    BY <1>3, <1>4
  <2>3. ASSUME NEW c \in Kids(new)'
        PROVE  Unadopted(c)'
    <3>1. PICK z : z = r.array
      OBVIOUS
    <3>2. Len(z) \in Nat /\ Len(z) >= 1
      BY <3>1 DEF InternalOK
    <3>3. First(new)' = z[1].value /\ Written(new)' = {z[i] : i \in 2 .. Len(z)}
      BY <3>1 DEF First, Written
    <3>4. Seps(new)' = Written(new)'
      BY <1>6, <1>7 DEF Seps
    <3>5. c = z[1].value \/ \E x \in Written(new)' : c = x.value
      BY <3>3, <3>4 DEF Kids, ChildrenOf
    <3>6. \E j \in 1 .. Len(z) : z[j].value = c
      <4>1. CASE c = z[1].value
        BY <4>1, <3>2
      <4>2. CASE \E x \in Written(new)' : c = x.value
        <5>1. PICK i \in 2 .. Len(z) : c = z[i].value
          BY <4>2, <3>3
        <5> QED BY <5>1, <3>2
      <4> QED BY <4>1, <4>2, <3>5
    <3>7. a.do = "AdoptChildren" /\ a.page = new /\ a.i = 1
      BY DEF AdoptChildren
    <3>8. \E j \in a.i .. Len(contents'[a.page].array) : contents'[a.page].array[j].value = c
      BY <3>1, <3>6, <3>7
    <3> QED BY <3>7, <3>8 DEF Unadopted
  <2>4. Kids(page) \subseteq Kids(page)' \cup Kids(new)'
    BY <1>9 DEF HalvesKids
  <2> QED BY <2>1, <2>2, <2>3, <2>4, <1>1, <1>2, <1>9, <1>12, SplitKeepsFamily
<1>19. ChainInv(R2)'
  <2>1. \A p \in Leaves : contents'[p].next = contents[p].next /\ R2[p] = R[p]
    BY <1>1, <1>14
  <2> QED BY <2>1, <1>2, <1>8 DEF ChainInv
<1>20. BottomInv(R2)'
  BY <1>1, <1>2, <1>8, <1>9, SplitKeepsBottom
<1>21. EntriesSame
  <2>1. HasTree' = HasTree
    BY DEF HasTree
  <2>2. \A p \in PageId : contents'[p].type = "leaf" <=> contents[p].type = "leaf"
    BY <1>8, KindsSame DEF Leaves
  <2>3. \A p \in Leaves : contents'[p].array = contents[p].array
    BY <1>1
  <2> QED BY <2>1, <2>2, <2>3, LeavesKeepEntries
<1> QED BY <1>13, <1>15, <1>17, <1>18, <1>19, <1>20, <1>21 DEF TreeInv

LEMMA DoSplitInternalKeepsKeys ==
  ASSUME IInv, KeyInv, DoSplitInternal, UNCHANGED <<held, reply, inserts>>
  PROVE  KeyInv' /\ Entries' = Entries /\ NodesStay
<1> DEFINE h  == Head(stack)
           nd == contents[h.page]
<1>1. /\ Executing("SplitInternal")
      /\ \/ /\ NewPage([contents EXCEPT ![h.page] = LeftInternal(nd, h.key, h.new),
                                        ![num_pages] = RightInternal(nd, h.key, h.new)])
            /\ Then(<<AdoptChildren(num_pages, 1)>> \o
                    PassUp(h.page, MiddleOfInternal(nd), num_pages))
            /\ UNCHANGED root_page_id
         \/ Crash
  BY DEF DoSplitInternal, LeftInternal, RightInternal, MiddleOfInternal
<1>2. CASE Crash
  BY <1>2, CrashKeepsKeys, SameEntries, SameNodesStay DEF Crash, pool, EntriesSame
<1>3. ASSUME NewPage([contents EXCEPT ![h.page] = LeftInternal(nd, h.key, h.new),
                                      ![num_pages] = RightInternal(nd, h.key, h.new)]),
             Then(<<AdoptChildren(num_pages, 1)>> \o
                  PassUp(h.page, MiddleOfInternal(nd), num_pages)),
             UNCHANGED root_page_id
      PROVE  KeyInv' /\ Entries' = Entries /\ NodesStay
  <2>1. PICK s : s = h
    OBVIOUS
  <2>2. PICK page : page = s.page
    OBVIOUS
  <2>3. PICK node : node = contents[page]
    OBVIOUS
  <2>4. /\ s = stack[1] /\ s.do = "SplitInternal"
        /\ page \in Internals /\ page \in Nodes /\ page \in PageId
        /\ InternalOK(node) /\ Len(node.array) = INTERNAL_MAX
        /\ s.new \in PageId /\ s.key \in Key
        /\ stack # <<>> /\ Rest(stack) /\ root_page_id \in Nodes
    BY <1>1, <2>1, <2>2, <2>3, SplitInternalHead
  <2>5. PICK new : new = num_pages
    OBVIOUS
  <2>6. PICK l : l = LeftInternal(node, s.key, s.new)
    OBVIOUS
  <2>7. PICK rt : rt = RightInternal(node, s.key, s.new)
    OBVIOUS
  <2>8. PICK m : m = MiddleOfInternal(node)
    OBVIOUS
  <2>9. PICK nodes : nodes = Put(Put(contents, page, l), new, rt)
    OBVIOUS
  <2>10. NewPage(nodes) /\ Then(<<AdoptChildren(new, 1)>> \o PassUp(page, m, new))
    <3>1. /\ nd = node /\ h.page = page
          /\ l = LeftInternal(nd, h.key, h.new) /\ rt = RightInternal(nd, h.key, h.new)
          /\ m = MiddleOfInternal(nd)
      BY <2>1, <2>2, <2>3, <2>6, <2>7, <2>8
    <3>2. nodes = [contents EXCEPT ![page] = l, ![num_pages] = rt]
      BY <2>5, <2>9 DEF Put
    <3> HIDE DEF h, nd
    <3> QED BY <1>3, <2>5, <3>1, <3>2
  <2> HIDE DEF h, nd
  <2>11. /\ contents' = nodes /\ new \in PageId /\ new \notin Nodes /\ new # page
         /\ num_pages \in Nat /\ num_pages' \in Nat /\ num_pages <= num_pages'
    <3>1. /\ contents' = nodes /\ num_pages \in PageId /\ num_pages \notin Nodes
          /\ num_pages' = num_pages + 1
      BY <2>10, NewFacts
    <3> QED BY <3>1, <2>4, <2>5, Sizes
  <2>12. /\ InternalOK(l) /\ InternalOK(rt) /\ l.parent = node.parent /\ rt.parent = node.parent
         /\ m \in Key
    BY <2>4, <2>6, <2>7, <2>8, SplitInternalProps
  <2>13. PICK xs : xs = AdoptAndGoUp(page, m, new)
    OBVIOUS
  <2>14. Then(xs)
    <3>1. <<AdoptChildren(new, 1)>> \o PassUp(page, m, new) = AdoptAndGoUp(page, m, new)
      BY <2>4, <2>11, <2>12, AdoptAndGoUpIs
    <3> QED BY <3>1, <2>10, <2>13
  <2>15. /\ contents'[page] = l /\ contents'[new] = rt
         /\ \A p \in PageId : p # new /\ p # page => contents'[p] = contents[p]
    <3>1. PICK c : c = Put(contents, page, l)
      OBVIOUS
    <3>2. IsPages(c) /\ \A p \in PageId : c[p] = IF p = page THEN l ELSE contents[p]
      BY <3>1, PutProps, NodeFacts DEF IInv
    <3>3. nodes = Put(c, new, rt)
      BY <2>9, <3>1
    <3>4. \A p \in PageId : nodes[p] = IF p = new THEN rt ELSE c[p]
      BY <3>2, <3>3, PutProps
    <3> QED BY <3>2, <3>4, <2>4, <2>11
  <2>16. PICK a, b : a = AdoptChildren(new, 1) /\ b = InsertIntoParent(page, m, new)
    OBVIOUS
  <2>17. /\ PagesInv /\ ParentsInv /\ StackInv /\ HasTree
    BY <2>4, NodeFacts DEF IInv, HasTree
  <2>18. /\ Work = {s} \cup Behind
         /\ \E X : /\ a \in X /\ b \in X /\ (\A t \in X : t = b \/ ~IsPromise(t))
                   /\ (\A t \in X : \A R : CallOK(R, t)) /\ (\A t \in X : ~IsSearch(t))
                   /\ Work' = X \cup Behind
    BY <2>4, <2>11, <2>12, <2>13, <2>14, <2>16, <2>17, WorkThenAdoptAndGoUp
  <2>19. PICK X : /\ a \in X /\ b \in X /\ (\A t \in X : t = b \/ ~IsPromise(t))
                  /\ (\A t \in X : \A R : CallOK(R, t)) /\ (\A t \in X : ~IsSearch(t))
                  /\ Work' = X \cup Behind
    BY <2>18
  <2>20. \A t \in Behind : IsPlain(t) /\ ~IsSearch(t)
    BY <2>4, <2>17, BehindIsPlain
  <2>21. PICK lev, R : TreeInv(lev, R) /\ CallInv(R)
    BY DEF KeyInv
  <2>22. PICK e : e = Entry(s.key, s.new)
    OBVIOUS
  <2>23. \A p : Promised(p) = IF page = p THEN {e} ELSE {}
    <3>1. IsPromise(s) /\ Owner(s) = page /\ \A t \in Behind : IsPlain(t)
      BY <2>2, <2>4, <2>20 DEF IsPromise, Owner
    <3> QED BY <3>1, <2>18, <2>22, PromisedByHead
  <2>24. IsRising(node.array, 2) /\ \A i \in 2 .. Len(node.array) : node.array[i].key # s.key
    <3>1. OrderInv(R)
      BY <2>21 DEF TreeInv
    <3>2. IsRising(node.array, 2)
      BY <3>1, <2>3, <2>4 DEF OrderInv
    <3>3. ASSUME NEW i \in 2 .. Len(node.array)
          PROVE  node.array[i].key # s.key
      <4>1. node.array[i] \in Written(page)
        BY <2>3 DEF Written
      <4>2. e \in Promised(page) /\ e.key = s.key
        BY <2>22, <2>23 DEF Entry
      <4> QED BY <4>1, <4>2, <3>1, <2>4 DEF OrderInv
    <3> QED BY <3>2, <3>3
  <2>25. PICK d : HalvesInternal(node, e, d, l, rt) /\ d.key = m
    BY <2>4, <2>6, <2>7, <2>8, <2>22, <2>24, SplitInternalKeys
  <2>26. PICK lev2, R2 : lev2 = Beside(lev, page, new) /\ R2 = Cut(R, page, m, new)
    OBVIOUS
  <2>27. TreeInv(lev2, R2)' /\ EntriesSame
    <3>1. \A t \in Work : t.do \notin {"InsertIntoParent", "AdoptChildren"}
      BY <2>4, <2>18, <2>20 DEF IsPlain
    <3>2. /\ a \in Work' /\ b \in Work' /\ \A t \in Work' : IsPromise(t) => t = b
      BY <2>19, <2>20 DEF IsPlain, IsPromise
    <3>3. HalvesInternal(contents[page], e, d, l, rt) /\ m = d.key /\ root_page_id' = root_page_id
      BY <1>3, <2>3, <2>25
    <3>4. l.parent = contents[page].parent /\ rt.parent = contents[page].parent
      BY <2>3, <2>12
    <3>5. OnlyWaits(page, e) /\ NoneGoesUp /\ OnlyTheseChange(page, new) /\ OnlyPromise(b)'
      BY <3>1, <3>2, <2>15, <2>23 DEF OnlyWaits, NoneGoesUp, OnlyTheseChange, OnlyPromise
    <3>6. /\ contents'[page] = l /\ contents'[new] = rt /\ TreeInv(lev, R)
          /\ InternalOK(l) /\ InternalOK(rt) /\ a \in Work' /\ b \in Work'
      BY <3>2, <2>12, <2>15, <2>21
    <3> QED BY <3>3, <3>4, <3>5, <3>6, <2>4, <2>11, <2>12, <2>16, <2>17, <2>26, InternalSplits
  <2>28. CallInv(R2)'
    <3>1. /\ Work' \subseteq X \cup Work /\ (\A t \in X : CallOK(R2, t))
          /\ \A t \in Work' \ X : ~IsSearch(t)
      BY <2>18, <2>19, <2>20
    <3> QED BY <3>1, <2>21, <2>27, CallsStay
  <2>29. KeyInv'
    BY <2>27, <2>28 DEF KeyInv
  <2>30. NodesStay
    <3>1. l.type = "internal" /\ node.type = "internal" /\ l.array[1] = node.array[1]
      BY <2>4, <2>12, <2>25, NodeKinds DEF HalvesInternal
    <3>2. \A p \in PageId : p # new => /\ contents'[p].type = contents[p].type
                                      /\ contents'[p].array[1] = contents[p].array[1]
      BY <3>1, <2>3, <2>15
    <3>3. new \notin Leaves /\ new \notin Internals
      BY <2>11 DEF Nodes
    <3> QED BY <3>2, <3>3, KindsSame DEF NodesStay, Leaves, Internals, First
  <2> QED BY <2>27, <2>29, <2>30 DEF EntriesSame
<1> QED BY <1>1, <1>2, <1>3

-----------------------------------------------------------------------------
(* The invariant holds.                                                    *)

LEMMA InitHasKeys == Init => KeyInv
<1> SUFFICES ASSUME Init PROVE KeyInv
  OBVIOUS
<1>1. /\ Leaves = {} /\ Internals = {} /\ Nodes = {} /\ ~HasTree
  <2>1. \A p \in PageId : contents[p].type = "invalid"
    <3> TAKE p \in PageId
    <3>1. contents[p] = BlankPage
      BY DEF Init
    <3> QED BY <3>1 DEF BlankPage
  <2>2. Leaves = {} /\ Internals = {}
    BY <2>1 DEF Leaves, Internals
  <2> QED BY <2>2 DEF Nodes, HasTree, Init
<1>2. Work = {}
  BY NothingToDo DEF Init
<1>3. PICK lev, R : lev = [p \in PageId |-> 0] /\ R = [p \in PageId |-> Int]
  OBVIOUS
<1>4. lev \in [PageId -> Nat] /\ R \in [PageId -> SUBSET Int]
  BY <1>3
<1>5. TreeInv(lev, R)
  BY <1>1, <1>4 DEF TreeInv, RangesInv, OrderInv, RootInv, FamilyInv, ChainInv, BottomInv
<1>6. CallInv(R)
  BY <1>2 DEF CallInv
<1> QED BY <1>5, <1>6 DEF KeyInv

LEMMA NextKeepsKeys ==
  ASSUME UNIQUE_KEYS, IInv, IInv', KeyInv, [Next]_vars
  PROVE  KeyInv'
<1>1. ASSUME UNCHANGED <<held, reply, inserts>>
      PROVE  /\ DoStartNewTree => KeyInv'
             /\ PassInternal => KeyInv'
             /\ FetchFails => KeyInv'
             /\ LookUpInLeaf => KeyInv'
             /\ InsertIntoLeaf => KeyInv'
             /\ DoSplitLeaf => KeyInv'
             /\ GrowRoot => KeyInv'
             /\ InsertIntoOldParent => KeyInv'
             /\ DoSplitInternal => KeyInv'
             /\ DoAdoptChildren => KeyInv'
             /\ DoUnpinPage => KeyInv'
  <2>1. DoStartNewTree => KeyInv'
    BY <1>1, DoStartNewTreeKeepsKeys
  <2>2. PassInternal => KeyInv'
    BY <1>1, PassInternalKeepsKeys
  <2>3. FetchFails => KeyInv'
    BY <1>1, CrashKeepsKeys DEF FetchFails
  <2>4. LookUpInLeaf => KeyInv'
    BY <1>1, LookUpInLeafKeepsKeys
  <2>5. InsertIntoLeaf => KeyInv'
    BY <1>1, InsertIntoLeafKeepsKeys
  <2>6. DoSplitLeaf => KeyInv'
    BY <1>1, DoSplitLeafKeepsKeys
  <2>7. GrowRoot => KeyInv'
    BY <1>1, GrowRootKeepsKeys
  <2>8. InsertIntoOldParent => KeyInv'
    BY <1>1, InsertIntoOldParentKeepsKeys
  <2>9. DoSplitInternal => KeyInv'
    BY <1>1, DoSplitInternalKeepsKeys
  <2>10. DoAdoptChildren => KeyInv'
    BY <1>1, DoAdoptChildrenKeepsKeys
  <2>11. DoUnpinPage => KeyInv'
    BY <1>1, DoUnpinPageKeepsKeys
  <2> QED BY <2>1, <2>2, <2>3, <2>4, <2>5, <2>6, <2>7, <2>8, <2>9, <2>10, <2>11
<1>2. CASE Step
  BY <1>1, <1>2, DoReturnKeepsKeys DEF Step
<1>3. CASE \E key \in Key : GetValue(key) \/ \E value \in RecordID : Insert(key, value)
  BY <1>3, GetValueKeepsKeys, InsertKeepsKeys
<1>4. CASE HoldDataPage \/ ReleaseDataPage
  BY <1>4, OthersKeepKeys
<1>5. CASE UNCHANGED vars
  BY <1>5, SameTreeKeepsKeys DEF vars, pool
<1> QED BY <1>2, <1>3, <1>4, <1>5 DEF Next

LEMMA KeysHold == ASSUME UNIQUE_KEYS PROVE Spec => [](IInv /\ KeyInv)
<1>1. IInv /\ KeyInv /\ [Next]_vars => IInv' /\ KeyInv'
  BY NextKeepsIInv, NextKeepsKeys DEF Keeps
<1>2. Init => IInv /\ KeyInv
  BY InitHasIInv, InitHasKeys
<1> QED BY <1>1, <1>2, PTL DEF Spec

-----------------------------------------------------------------------------
(* Between two calls: searching.                                           *)

(* A function on a set followed from an element, as the recursive          *)
(* functions of BPlusTree are written.                                     *)
LEMMA WalkExists ==
  ASSUME NEW S, NEW s \in S, NEW G \in [S -> S]
  PROVE  \E f : /\ f \in [Nat -> S]
                /\ f = [n \in Nat |-> IF n = 0 THEN s ELSE G[f[n - 1]]]
<1>1. PICK f \in [Nat -> S] : Iterates(f, s, G)
  BY Iteration
<1>2. ASSUME NEW n \in Nat
      PROVE  f[n] = IF n = 0 THEN s ELSE G[f[n - 1]]
  <2>1. n # 0 => n - 1 \in Nat /\ (n - 1) + 1 = n
    OBVIOUS
  <2> QED BY <2>1, <1>1 DEF Iterates
<1>3. f = [n \in Nat |-> IF n = 0 THEN s ELSE G[f[n - 1]]]
  <2>1. DOMAIN f = Nat
    BY <1>1
  <2> QED BY <2>1, <1>1, <1>2
<1> QED BY <1>1, <1>3

(* What the invariants say of the tree between two calls.                  *)
Settled(lev, R) ==
  /\ PagesInv /\ ParentsInv /\ TreeInv(lev, R)
  /\ HasTree /\ root_page_id \in Nodes
  /\ \A p : Promised(p) = {} /\ Seps(p) = Written(p) /\ ~Unadopted(p)
  /\ \A s : s \notin Work
  /\ \A x \in Int : x \in R[root_page_id]
  /\ lev[root_page_id] <= MAX_PAGES - 1 /\ MAX_PAGES - 1 \in Nat

LEMMA SettledBetweenCalls ==
  ASSUME IInv, KeyInv, Idle, HasTree
  PROVE  \E lev, R : Settled(lev, R)
<1>1. PICK lev, R : TreeInv(lev, R)
  BY DEF KeyInv
<1>2. \A s : s \notin Work
  BY NothingToDo DEF Idle
<1>3. \A p : Promised(p) = {} /\ Seps(p) = Written(p) /\ ~Unadopted(p)
  BY <1>2, NothingPromised
<1>4. /\ PagesInv /\ ParentsInv /\ root_page_id \in Nodes
      /\ num_pages \in 0 .. MAX_PAGES /\ num_pages \in Nat /\ Nodes \subseteq PageId
  BY NodeFacts DEF IInv, PagesInv, HasTree
<1>5. /\ lev[root_page_id] < num_pages /\ lev[root_page_id] \in Nat
      /\ \A x \in Int : x \in R[root_page_id]
  BY <1>1, <1>2, <1>4 DEF TreeInv, RootInv, RangesInv
<1>6. lev[root_page_id] <= MAX_PAGES - 1 /\ MAX_PAGES - 1 \in Nat
  BY <1>4, <1>5, Sizes
<1> QED BY <1>1, <1>2, <1>3, <1>4, <1>5, <1>6 DEF Settled

LEMMA SettledFacts ==
  ASSUME NEW lev, NEW R, Settled(lev, R)
  PROVE  /\ RangesInv(lev, R) /\ OrderInv(R) /\ FamilyInv /\ ChainInv(R) /\ BottomInv(R)
         /\ lev \in [PageId -> Nat] /\ R \in [PageId -> SUBSET Int] /\ Nodes \subseteq PageId
         /\ Leaves \cap Internals = {} /\ Nodes = Leaves \cup Internals
         /\ \A p \in Nodes : lev[p] \in Nat /\ (IsInternal(contents[p]) <=> p \in Internals)
         /\ \A p \in Internals : lev[p] > 0
         /\ \A p \in Leaves : lev[p] = 0
         /\ \A p \in Internals : \A c \in Kids(p) : c \in Nodes /\ lev[c] + 1 = lev[p]
<1>1. Nodes \subseteq PageId /\ Leaves \cap Internals = {}
  BY NodeFacts DEF Settled
<1>2. \A p \in Nodes : IsInternal(contents[p]) <=> p \in Internals
  BY <1>1 DEF IsInternal, Internals
<1> QED BY <1>1, <1>2 DEF Settled, TreeInv, RangesInv, Nodes

(* FindLeafPage goes down a level a page, with the key in the range of     *)
(* every page on the way.                                                  *)
LEMMA SearchArrives ==
  ASSUME NEW lev, NEW R, Settled(lev, R), NEW key \in Int
  PROVE  FindLeafPage(key) \in Leaves /\ key \in R[FindLeafPage(key)]
<1> DEFINE Down(p) == IF IsInternal(contents[p]) THEN ChildFor(contents[p], key) ELSE p
           Goes(f) == f = [n \in Nat |-> IF n = 0 THEN root_page_id ELSE Down(f[n - 1])]
           reached == CHOOSE f : Goes(f)
           S       == {p \in Nodes : key \in R[p]}
           G       == [p \in S |-> Down(p)]
<1>1. FindLeafPage(key) = reached[MAX_PAGES - 1]
  BY DEF FindLeafPage
<1>2. /\ RangesInv(lev, R) /\ OrderInv(R) /\ PagesInv /\ root_page_id \in Nodes
      /\ Nodes = Leaves \cup Internals /\ Leaves \cap Internals = {}
      /\ \A p \in Nodes : lev[p] \in Nat /\ (IsInternal(contents[p]) <=> p \in Internals)
      /\ \A p \in Internals : lev[p] > 0
      /\ \A p \in Internals : \A c \in Kids(p) : c \in Nodes /\ lev[c] + 1 = lev[p]
  BY SettledFacts DEF Settled
<1>3. ASSUME NEW p \in Internals, key \in R[p]
      PROVE  Down(p) \in Kids(p) /\ key \in R[Down(p)]
  <2>1. PICK c : c = ChildFor(contents[p], key)
    OBVIOUS
  <2>2. c \in Kids(p) /\ key \in R[c]
    BY <2>1, <1>2, <1>3, ChildHoldsKey DEF Settled
  <2> QED BY <2>1, <2>2, <1>2
<1>4. \A p \in Leaves : Down(p) = p
  BY <1>2
<1>5. \E f : Goes(f)
  <2>1. root_page_id \in S /\ G \in [S -> S]
    BY <1>2, <1>3, <1>4 DEF Settled
  <2> HIDE DEF S, Down, G
  <2>2. PICK f : f \in [Nat -> S] /\ f = [n \in Nat |-> IF n = 0 THEN root_page_id ELSE G[f[n - 1]]]
    BY <2>1, WalkExists
  <2>3. ASSUME NEW n \in Nat, n # 0
        PROVE  G[f[n - 1]] = Down(f[n - 1])
    <3>1. n - 1 \in Nat
      BY <2>3
    <3> QED BY <3>1, <2>2 DEF G
  <2>4. Goes(f)
    BY <2>2, <2>3
  <2> QED BY <2>4
<1> HIDE DEF Down
<1>6. Goes(reached)
  <2> HIDE DEF Goes
  <2> QED BY <1>5
<1> HIDE DEF reached
<1> DEFINE At(p, n) == p \in Nodes /\ key \in R[p] /\ (p \in Leaves \/ lev[p] + n <= lev[root_page_id])
           T == {n \in Nat : At(reached[n], n)}
<1>7. 0 \in T
  BY <1>2, <1>6 DEF Settled
<1>8. ASSUME NEW n \in Nat, n \in T
      PROVE  n + 1 \in T
  <2>1. PICK p, q : p = reached[n] /\ q = reached[n + 1]
    OBVIOUS
  <2>2. q = Down(p)
    <3>1. n + 1 \in Nat /\ n + 1 # 0 /\ (n + 1) - 1 = n
      OBVIOUS
    <3> QED BY <3>1, <2>1, <1>6
  <2>3. At(p, n)
    BY <1>8, <2>1
  <2>4. At(q, n + 1)
    <3>1. CASE p \in Leaves
      BY <3>1, <2>2, <2>3, <1>4
    <3>2. CASE p \in Internals
      <4>1. q \in Kids(p) /\ key \in R[q]
        BY <3>2, <2>2, <2>3, <1>3
      <4>2. q \in Nodes /\ lev[q] + 1 = lev[p] /\ lev[p] + n <= lev[root_page_id]
        BY <4>1, <3>2, <2>3, <1>2
      <4> QED BY <4>1, <4>2, <1>2
    <3> QED BY <3>1, <3>2, <2>3, <1>2
  <2> QED BY <2>1, <2>4
<1>9. Nat \subseteq T
  <2> HIDE DEF T
  <2> QED BY <1>7, <1>8, NatInd
<1>10. PICK n, p : n = MAX_PAGES - 1 /\ p = reached[n]
  OBVIOUS
<1>11. At(p, n) /\ n \in Nat /\ lev[root_page_id] <= n
  BY <1>9, <1>10 DEF Settled
<1>12. p \in Leaves
  BY <1>2, <1>11
<1> QED BY <1>1, <1>10, <1>11, <1>12

LEMMA SettledKeysAreFound ==
  ASSUME NEW lev, NEW R, Settled(lev, R), NEW e \in Entries
  PROVE  LET leaf == contents[FindLeafPage(e.key)] IN
         LET hit == LeafLookup(leaf, e.key) IN hit # 0 /\ leaf.array[hit].key = e.key
<1>1. PagesInv /\ RangesInv(lev, R) /\ OrderInv(R) /\ \A p \in Leaves : LeafOK(contents[p])
  BY SettledFacts, NodeFacts DEF Settled
<1>2. PICK key, p, leaf : key = e.key /\ p = FindLeafPage(key) /\ leaf = contents[p]
  OBVIOUS
<1>3. key \in Int /\ IsStored(key)
  <2>1. PICK q \in Leaves : e \in {contents[q].array[i] : i \in DOMAIN contents[q].array}
    BY DEF Entries, Leaves
  <2>2. LeafOK(contents[q]) /\ DOMAIN contents[q].array = 1 .. Len(contents[q].array)
    BY <1>1, <2>1, NodeKinds
  <2>3. \A i \in 1 .. Len(contents[q].array) : contents[q].array[i].key \in R[q]
    BY <1>1, <2>1 DEF OrderInv
  <2>4. key \in R[q] /\ q \in PageId
    BY <1>2, <2>1, <2>2, <2>3 DEF Leaves
  <2> QED BY <2>4, <1>1, <1>2 DEF IsStored, RangesInv
<1>4. p \in Leaves /\ key \in R[p]
  BY <1>2, <1>3, SearchArrives
<1>5. PICK i \in 1 .. Len(leaf.array) : leaf.array[i].key = key
  BY <1>1, <1>2, <1>3, <1>4, StoredInLeaf
<1>6. PICK hit : hit = LeafLookup(leaf, key)
  OBVIOUS
<1>7. LeafOK(leaf) /\ IsRising(leaf.array, 1)
  BY <1>1, <1>2, <1>4 DEF OrderInv
<1>8. hit # 0 /\ leaf.array[hit].key = key
  BY <1>3, <1>5, <1>6, <1>7, LookupIs
<1> QED BY <1>2, <1>6, <1>8

LEMMA KeysAreFound == IInv /\ KeyInv => EveryKeyIsFound
<1> SUFFICES ASSUME IInv, KeyInv, Idle, HasTree, NEW e \in Entries
             PROVE  LET leaf == contents[FindLeafPage(e.key)] IN
                    LET hit == LeafLookup(leaf, e.key) IN hit # 0 /\ leaf.array[hit].key = e.key
  BY DEF EveryKeyIsFound
<1>1. PICK lev, R : Settled(lev, R)
  BY SettledBetweenCalls
<1> QED BY <1>1, SettledKeysAreFound

-----------------------------------------------------------------------------
(* Balance.                                                                *)

(* The children an internal node has, when no entry is on its way into it. *)
LEMMA ChildrenAreKids ==
  ASSUME NEW lev, NEW R, Settled(lev, R), NEW p \in Internals
  PROVE  /\ Children(p) = Kids(p)
         /\ Len(contents[p].array) \in 1 .. INTERNAL_MAX
         /\ DOMAIN contents[p].array = 1 .. Len(contents[p].array)
<1>1. PICK a : a = contents[p].array
  OBVIOUS
<1>2. InternalOK(contents[p])
  BY NodeFacts DEF Settled
<1>3. DOMAIN a = 1 .. Len(a) /\ Len(a) \in 1 .. INTERNAL_MAX /\ Len(a) \in Nat
  BY <1>1, <1>2, NodeKinds DEF InternalOK
<1>4. 1 .. Len(a) = {1} \cup 2 .. Len(a)
  BY <1>3
<1>5. Children(p) = {a[i].value : i \in {1} \cup 2 .. Len(a)}
  BY <1>1, <1>3, <1>4 DEF Children
<1>6. First(p) = a[1].value /\ Seps(p) = {a[i] : i \in 2 .. Len(a)}
  BY <1>1 DEF First, Written, Settled
<1>7. Kids(p) = {a[1].value} \cup {a[i].value : i \in 2 .. Len(a)}
  BY <1>6 DEF Kids, ChildrenOf
<1> QED BY <1>1, <1>3, <1>5, <1>7

LEMMA RangeFacts ==
  ASSUME PagesInv, NEW lev, NEW R, TreeInv(lev, R)
  PROVE  /\ Nodes \subseteq PageId /\ Nodes = Leaves \cup Internals /\ Leaves \cap Internals = {}
         /\ \A p \in Nodes : lev[p] \in Nat /\ (IsInternal(contents[p]) <=> p \in Internals)
         /\ \A p \in Leaves : lev[p] = 0
         /\ \A p \in Internals : lev[p] > 0 /\ First(p) \in Kids(p)
         /\ \A p \in Internals : \A c \in Kids(p) : c \in Nodes /\ lev[c] + 1 = lev[p]
<1>1. Nodes \subseteq PageId /\ Leaves \cap Internals = {}
  BY NodeFacts
<1>2. \A p \in Nodes : IsInternal(contents[p]) <=> p \in Internals
  BY <1>1 DEF IsInternal, Internals
<1>3. \A p \in Internals : First(p) \in Kids(p)
  BY DEF Kids, ChildrenOf
<1> QED BY <1>1, <1>2, <1>3 DEF TreeInv, RangesInv, Nodes

LEMMA ChildrenInTree ==
  ASSUME PagesInv, NEW lev, NEW R, TreeInv(lev, R), NEW p \in Internals
  PROVE  /\ Children(p) \subseteq Kids(p)
         /\ Children(p) # {}
<1>1. InternalOK(contents[p])
  BY NodeFacts
<1>2. PICK a : a = contents[p].array
  OBVIOUS
<1>3. Len(a) \in 1 .. INTERNAL_MAX /\ DOMAIN a = 1 .. Len(a) /\ a \in Seq(InternalEntry)
  BY <1>1, <1>2, LenProperties DEF InternalOK, InternalRecord
<1>4. 1 \in DOMAIN a
  BY <1>3, Sizes
<1>5. ASSUME NEW i \in DOMAIN a
      PROVE  a[i].value \in Kids(p)
  <2>1. CASE i = 1
    BY <2>1, <1>2 DEF Kids, ChildrenOf, First
  <2>2. CASE i # 1
    <3>1. i \in 2 .. Len(a)
      BY <2>2, <1>3
    <3>2. a[i] \in Seps(p)
      BY <3>1, <1>2 DEF Seps, Written
    <3> QED BY <3>2 DEF Kids, ChildrenOf
  <2> QED BY <2>1, <2>2
<1> QED BY <1>2, <1>4, <1>5 DEF Children

(* The nodes n levels below the root are all at height lev[root] - n, and  *)
(* there are some for every n that leaves.                                 *)
LEMMA LevelsOf ==
  ASSUME PagesInv, HasTree, NEW lev, NEW R, TreeInv(lev, R)
  PROVE  /\ Level[0] = {root_page_id}
         /\ \A n \in Nat : Level[n + 1] = UNION {Children(p) : p \in {q \in Level[n] : IsInternal(contents[q])}}
         /\ \A n \in Nat : \A p \in Level[n] : p \in Nodes /\ lev[p] + n = lev[root_page_id]
         /\ \A n \in Nat : n <= lev[root_page_id] => Level[n] # {}
<1> DEFINE Below(S) == UNION {Children(p) : p \in {q \in S : IsInternal(contents[q])}}
           Goes(f)  == f = [n \in Nat |-> IF n = 0 THEN {root_page_id} ELSE Below(f[n - 1])]
           level    == CHOOSE f : Goes(f)
           D        == SUBSET Nodes
           G        == [S \in D |-> Below(S)]
<1>1. Level = level
  BY DEF Level
<1>2. /\ root_page_id \in Nodes
      /\ \A p \in Nodes : lev[p] \in Nat /\ (IsInternal(contents[p]) <=> p \in Internals)
  <2>1. root_page_id \in Nodes
    BY DEF PagesInv, HasTree
  <2> QED BY <2>1, RangeFacts
<1>3. ASSUME NEW p \in Internals, NEW c \in Children(p)
      PROVE  c \in Nodes /\ lev[c] + 1 = lev[p]
  <2>1. c \in Kids(p)
    BY ChildrenInTree
  <2> QED BY <2>1, RangeFacts
<1>4. \A S \in D : Below(S) \in D
  BY <1>2, <1>3
<1> HIDE DEF D, Below
<1>5. \E f : Goes(f)
  <2>1. {root_page_id} \in D /\ G \in [D -> D]
    BY <1>2, <1>4 DEF D
  <2> HIDE DEF G
  <2>2. PICK f : f \in [Nat -> D] /\ f = [n \in Nat |-> IF n = 0 THEN {root_page_id} ELSE G[f[n - 1]]]
    BY <2>1, WalkExists
  <2>3. ASSUME NEW n \in Nat, n # 0
        PROVE  G[f[n - 1]] = Below(f[n - 1])
    <3>1. n - 1 \in Nat
      BY <2>3
    <3> QED BY <3>1, <2>2 DEF G
  <2>4. Goes(f)
    BY <2>2, <2>3
  <2> QED BY <2>4
<1>6. Goes(level)
  <2> HIDE DEF Goes
  <2> QED BY <1>5
<1> HIDE DEF level
<1>7. level[0] = {root_page_id} /\ \A n \in Nat : level[n + 1] = Below(level[n])
  <2>1. ASSUME NEW n \in Nat
        PROVE  level[n + 1] = Below(level[n])
    <3>1. n + 1 \in Nat /\ n + 1 # 0 /\ (n + 1) - 1 = n
      OBVIOUS
    <3> QED BY <3>1, <1>6
  <2> QED BY <2>1, <1>6
<1> DEFINE T == {n \in Nat : /\ \A p \in level[n] : p \in Nodes /\ lev[p] + n = lev[root_page_id]
                             /\ n <= lev[root_page_id] => level[n] # {}}
<1>8. 0 \in T
  BY <1>2, <1>7
<1>9. ASSUME NEW n \in Nat, n \in T
      PROVE  n + 1 \in T
  <2>1. ASSUME NEW c \in level[n + 1]
        PROVE  c \in Nodes /\ lev[c] + (n + 1) = lev[root_page_id]
    <3>1. PICK p \in level[n] : IsInternal(contents[p]) /\ c \in Children(p)
      BY <2>1, <1>7 DEF Below
    <3>2. p \in Nodes /\ lev[p] + n = lev[root_page_id]
      BY <1>9, <3>1
    <3>3. c \in Nodes /\ lev[c] + 1 = lev[p]
      BY <3>1, <3>2, <1>2, <1>3
    <3> QED BY <3>2, <3>3, <1>2
  <2>2. ASSUME n + 1 <= lev[root_page_id]
        PROVE  level[n + 1] # {}
    <3>1. lev[root_page_id] \in Nat /\ n <= lev[root_page_id]
      BY <2>2, <1>2
    <3>2. PICK p : p \in level[n]
      BY <3>1, <1>9
    <3>3. p \in Nodes /\ lev[p] + n = lev[root_page_id] /\ lev[p] \in Nat
      BY <3>2, <1>2, <1>9
    <3>4. lev[p] # 0
      BY <3>1, <3>3, <2>2
    <3>5. p \in Internals /\ IsInternal(contents[p])
      BY <3>3, <3>4, RangeFacts
    <3>6. Children(p) # {}
      BY <3>5, ChildrenInTree
    <3> QED BY <3>2, <3>5, <3>6, <1>7 DEF Below
  <2> QED BY <2>1, <2>2
<1>10. Nat \subseteq T
  <2> HIDE DEF T
  <2> QED BY <1>8, <1>9, NatInd
<1>11. /\ \A n \in Nat : \A p \in level[n] : p \in Nodes /\ lev[p] + n = lev[root_page_id]
       /\ \A n \in Nat : n <= lev[root_page_id] => level[n] # {}
  BY <1>10
<1> QED BY <1>1, <1>7, <1>11 DEF Below

LEMMA LevelsAre ==
  ASSUME NEW lev, NEW R, Settled(lev, R)
  PROVE  /\ Level[0] = {root_page_id}
         /\ \A n \in Nat : Level[n + 1] = UNION {Children(p) : p \in {q \in Level[n] : IsInternal(contents[q])}}
         /\ \A n \in Nat : \A p \in Level[n] : p \in Nodes /\ lev[p] + n = lev[root_page_id]
BY LevelsOf DEF Settled

(* A node below the root is the child of the node its parent pointer names *)
(* alone.                                                                  *)
LEMMA HasOneParent ==
  ASSUME NEW lev, NEW R, Settled(lev, R), NEW p \in Nodes, p # root_page_id
  PROVE  /\ contents[p].parent \in Internals /\ p \in Kids(contents[p].parent)
         /\ \A t \in Internals : p \in Kids(t) => t = contents[p].parent
<1>1. PICK t \in Internals : contents[p].parent = t /\ p \in Kids(t)
  BY SettledFacts DEF Settled, FamilyInv
<1>2. \A q \in Internals : p \in Kids(q) => q = t
  BY <1>1, SettledFacts, OneParent
<1> QED BY <1>1, <1>2

(* No child is named by two entries of a node: their ranges are apart.     *)
LEMMA HasOneEntry ==
  ASSUME NEW lev, NEW R, Settled(lev, R), NEW t \in Internals, NEW a, a = contents[t].array,
         NEW i \in 1 .. Len(a), NEW j \in 1 .. Len(a), a[i].value = a[j].value
  PROVE  i = j
<1>1. /\ Slots(First(t), Seps(t), R[t], R) /\ \A e \in Seps(t) : e.key \in Key
      /\ Kids(t) \subseteq Nodes /\ \A c \in Nodes : R[c] # {} /\ R[c] \in SUBSET Int
  BY SettledFacts DEF RangesInv
<1>2. First(t) = a[1].value /\ Seps(t) = {a[n] : n \in 2 .. Len(a)}
  BY DEF First, Written, Settled
<1>3. Len(a) \in Nat /\ \A m, n \in 2 .. Len(a) : m < n => a[m].key < a[n].key
  BY SettledFacts, ChildrenAreKids DEF OrderInv, IsRising
<1>4. ASSUME NEW m \in 1 .. Len(a), NEW n \in 1 .. Len(a), m < n, a[m].value = a[n].value
      PROVE  FALSE
  <2>1. n \in 2 .. Len(a)
    BY <1>3, <1>4
  <2>2. PICK c, e : e = a[n] /\ c = e.value
    OBVIOUS
  <2>3. e \in Seps(t) /\ c \in Kids(t)
    BY <2>1, <2>2, <1>2 DEF Kids, ChildrenOf
  <2>4. PICK x \in Int : x \in R[c]
    BY <2>3, <1>1
  <2>8. e.key \in Int
    BY <2>3, <1>1, Sizes
  <2>5. e.key <= x
    BY <2>2, <2>3, <2>4, <1>1 DEF Slots
  <2>6. CASE m = 1
    <3>1. c = First(t)
      BY <2>2, <2>6, <1>2, <1>4
    <3>2. x < e.key
      BY <3>1, <2>3, <2>4, <1>1 DEF Slots
    <3> QED BY <3>2, <2>5, <2>8
  <2>7. CASE m # 1
    <3>1. m \in 2 .. Len(a)
      BY <2>7, <1>3
    <3>2. PICK f : f = a[m]
      OBVIOUS
    <3>3. f \in Seps(t) /\ f.value = c /\ f.key < e.key
      BY <3>1, <3>2, <2>1, <2>2, <1>2, <1>3, <1>4
    <3>4. e.key <= f.key \/ x < e.key
      BY <3>3, <2>3, <2>4, <1>1 DEF Slots
    <3>5. f.key \in Int
      BY <3>3, <1>1, Sizes
    <3> QED BY <3>3, <3>4, <3>5, <2>5, <2>8
  <2> QED BY <2>6, <2>7
<1>5. i < j \/ j < i \/ i = j
  BY <1>3
<1> QED BY <1>4, <1>5

LEMMA TreeNodesAre ==
  ASSUME NEW lev, NEW R, Settled(lev, R), NEW p \in TreeNodes
  PROVE  /\ p \in Nodes
         /\ p # root_page_id =>
              \E q \in TreeNodes : q \in Internals /\ p \in Kids(q) /\ contents[p].parent = q
<1>1. PICK n \in 0 .. MAX_PAGES - 1 : p \in Level[n]
  BY DEF TreeNodes
<1>2. n \in Nat /\ p \in Nodes /\ MAX_PAGES - 1 \in Nat
  BY <1>1, LevelsAre DEF Settled
<1>3. ASSUME p # root_page_id
      PROVE  \E q \in TreeNodes : q \in Internals /\ p \in Kids(q) /\ contents[p].parent = q
  <2>1. n # 0
    BY <1>1, <1>3, LevelsAre
  <2>2. PICK m : m = n - 1
    OBVIOUS
  <2>3. m \in 0 .. MAX_PAGES - 1 /\ m \in Nat /\ n = m + 1
    BY <1>2, <2>1, <2>2
  <2>4. PICK q \in Level[m] : IsInternal(contents[q]) /\ p \in Children(q)
    BY <1>1, <2>3, LevelsAre
  <2>5. q \in TreeNodes
    BY <2>3 DEF TreeNodes
  <2>6. q \in Internals
    BY <2>3, <2>4, LevelsAre, SettledFacts
  <2>7. p \in Kids(q)
    BY <2>4, <2>6, ChildrenAreKids
  <2>8. contents[p].parent = q
    BY <1>2, <1>3, <2>6, <2>7, HasOneParent
  <2> QED BY <2>5, <2>6, <2>7, <2>8
<1> QED BY <1>2, <1>3

LEMMA LedToByOne ==
  ASSUME NEW lev, NEW R, Settled(lev, R), NEW p \in TreeNodes, p # root_page_id
  PROVE  {e \in TreeNodes \X (1 .. INTERNAL_MAX) : LeadsTo(e[1], e[2], p)} \in
           {{<<contents[p].parent, i>>} : i \in 1 .. INTERNAL_MAX}
<1>1. PICK t \in TreeNodes : t \in Internals /\ p \in Kids(t) /\ contents[p].parent = t /\ p \in Nodes
  BY TreeNodesAre
<1>2. PICK a : a = contents[t].array
  OBVIOUS
<1>3. /\ Len(a) \in 1 .. INTERNAL_MAX /\ DOMAIN a = 1 .. Len(a) /\ Len(a) \in Nat
      /\ Children(t) = {a[i].value : i \in DOMAIN a} /\ p \in Children(t)
  BY <1>1, <1>2, ChildrenAreKids, Sizes DEF Children
<1>4. PICK i \in 1 .. Len(a) : a[i].value = p
  BY <1>3
<1>5. i \in 1 .. INTERNAL_MAX
  BY <1>3, Sizes
<1>6. IsInternal(contents[t])
  BY <1>1, SettledFacts
<1>7. LeadsTo(t, i, p)
  BY <1>2, <1>3, <1>4, <1>6 DEF LeadsTo
<1>8. ASSUME NEW q \in TreeNodes, NEW j \in 1 .. INTERNAL_MAX, LeadsTo(q, j, p)
      PROVE  q = t /\ j = i
  <2>1. IsInternal(contents[q]) /\ j \in DOMAIN contents[q].array /\ contents[q].array[j].value = p
    BY <1>8 DEF LeadsTo
  <2>2. q \in Internals
    BY <2>1, TreeNodesAre, SettledFacts
  <2>3. p \in Kids(q)
    <3>1. p \in Children(q)
      BY <2>1 DEF Children
    <3> QED BY <3>1, <2>2, ChildrenAreKids
  <2>4. q = t
    BY <2>2, <2>3, <1>1, HasOneParent
  <2> QED BY <2>1, <2>4, <1>1, <1>2, <1>3, <1>4, HasOneEntry
<1> DEFINE E == {e \in TreeNodes \X (1 .. INTERNAL_MAX) : LeadsTo(e[1], e[2], p)}
<1>9. E = {<<t, i>>}
  <2>1. <<t, i>> \in E
    BY <1>5, <1>7
  <2>2. ASSUME NEW e \in E
        PROVE  e = <<t, i>>
    <3>1. PICK q \in TreeNodes, j \in 1 .. INTERNAL_MAX : e = <<q, j>>
      OBVIOUS
    <3>2. LeadsTo(q, j, p)
      BY <3>1
    <3> QED BY <3>1, <3>2, <1>8
  <2> HIDE DEF E
  <2> QED BY <2>1, <2>2
<1> QED BY <1>1, <1>5, <1>9

LEMMA TreeIsBalanced == IInv /\ KeyInv => IsBalancedTree
<1> SUFFICES ASSUME IInv, KeyInv, Idle, HasTree
             PROVE  /\ contents[root_page_id].parent = NoPage
                    /\ \A p \in TreeNodes \ {root_page_id} :
                         {e \in TreeNodes \X (1 .. INTERNAL_MAX) : LeadsTo(e[1], e[2], p)} \in
                         {{<<contents[p].parent, i>>} : i \in 1 .. INTERNAL_MAX}
                    /\ \A n \in 0 .. MAX_PAGES - 1 : \A p, q \in Level[n] :
                         contents[p].type = contents[q].type
  BY DEF IsBalancedTree
<1>1. PICK lev, R : Settled(lev, R)
  BY SettledBetweenCalls
<1>2. contents[root_page_id].parent = NoPage
  BY DEF IInv, ParentsInv, HasTree
<1>3. ASSUME NEW n \in 0 .. MAX_PAGES - 1, NEW p \in Level[n], NEW q \in Level[n]
      PROVE  contents[p].type = contents[q].type
  <2>1. n \in Nat
    BY <1>1 DEF Settled
  <2>2. /\ p \in Nodes /\ lev[p] + n = lev[root_page_id]
        /\ q \in Nodes /\ lev[q] + n = lev[root_page_id]
    BY <2>1, <1>1, LevelsAre
  <2>3. lev[p] \in Nat /\ lev[q] \in Nat
    BY <2>2, <1>1, SettledFacts
  <2>4. lev[p] = lev[q]
    BY <2>1, <2>2, <2>3
  <2>5. p \in Leaves <=> q \in Leaves
    BY <2>2, <2>4, <1>1, SettledFacts
  <2> QED BY <2>2, <2>5 DEF Nodes, Leaves, Internals
<1>4. \A p \in TreeNodes \ {root_page_id} :
        {e \in TreeNodes \X (1 .. INTERNAL_MAX) : LeadsTo(e[1], e[2], p)} \in
        {{<<contents[p].parent, i>>} : i \in 1 .. INTERNAL_MAX}
  BY <1>1, LedToByOne
<1> QED BY <1>2, <1>3, <1>4

-----------------------------------------------------------------------------
(* What an insert answers.                                                 *)

LEMMA InsertedFields ==
  ASSUME NEW k, NEW v, NEW ok
  PROVE  /\ Inserted(k, v, ok).op = "Insert" /\ Inserted(k, v, ok).entry = Entry(k, v)
         /\ Inserted(k, v, ok).ok = ok
         /\ Entry(k, v).key = k /\ Entry(k, v).value = v
BY DEF Inserted, Entry

LEMMA AnswerToInsert ==
  ASSUME NEW a \in Answer, a.op = "Insert"
  PROVE  \E k \in Key, v \in RecordID, ok \in BOOLEAN : a = Inserted(k, v, ok)
BY DEF Answer, Found, Missing

LEMMA InsertsAreTold ==
  ASSUME IInv, KeyInv, DoReturn, reply'.op = "Insert", HasTree
  PROVE  reply'.ok <=> reply'.entry \in Entries
<1>1. PICK s : s = Head(stack)
  OBVIOUS
<1>2. Executing("Return") /\ reply' = s.answer
  BY <1>1 DEF DoReturn
<1>3. s \in Statement /\ s = stack[1] /\ s.do = "Return" /\ stack # <<>> /\ Len(stack) \in Nat \ {0}
  BY <1>1, <1>2, HeadProps DEF IInv
<1>4. PICK k \in Key, v \in RecordID, ok \in BOOLEAN : s.answer = Inserted(k, v, ok)
  BY <1>2, <1>3, StatementFields, AnswerToInsert
<1>5. IsTrue(s.answer)
  <2>1. s \in Work
    BY <1>3 DEF Work, WorkOf
  <2> QED BY <2>1, <1>3 DEF KeyInv, CallInv, CallOK
<1>6. PICK e : e = Entry(k, v)
  OBVIOUS
<1>7. e \in LeafEntry /\ e.key = k /\ e.value = v
  BY <1>6 DEF LeafEntry, Entry
<1>8. reply'.ok = ok /\ reply'.entry = e
  BY <1>2, <1>4, <1>6, InsertedFields
<1>9. /\ s.answer = Inserted(k, v, TRUE) => e \in Entries
      /\ s.answer = Inserted(k, v, FALSE) => e \notin Entries
  BY <1>5, <1>7 DEF IsTrue
<1>10. ok = TRUE => e \in Entries
  BY <1>4, <1>9
<1>11. ok = FALSE => e \notin Entries
  BY <1>4, <1>9
<1> QED BY <1>8, <1>10, <1>11

-----------------------------------------------------------------------------
(* The chain of leaves.                                                    *)

(* A finite set of integers has a least one.                               *)
LEMMA LeastExists ==
  ASSUME NEW S, S \subseteq Int, IsFiniteSet(S), S # {}
  PROVE  Min(S) \in S /\ \A y \in S : Min(S) <= y
<1> DEFINE HasLeast(X) == \E x \in X : \A y \in X : x <= y
           T == {n \in Nat : \A X \in SUBSET S : Cardinality(X) = n /\ X # {} => HasLeast(X)}
<1>1. \A X \in SUBSET S : IsFiniteSet(X) /\ Cardinality(X) \in Nat
  BY FS_Subset, FS_CardinalityType
<1>2. 0 \in T
  BY <1>1, FS_EmptySet
<1>3. ASSUME NEW n \in Nat, n \in T
      PROVE  n + 1 \in T
  <2> SUFFICES ASSUME NEW X \in SUBSET S, Cardinality(X) = n + 1, X # {}
               PROVE  HasLeast(X)
    OBVIOUS
  <2>1. PICK z \in X : TRUE
    OBVIOUS
  <2>2. PICK Y : Y = X \ {z}
    OBVIOUS
  <2>3. Y \in SUBSET S /\ Cardinality(Y) = n
    <3>1. IsFiniteSet(X)
      BY <1>1
    <3>2. Cardinality(Y) = Cardinality(X) - 1
      BY <3>1, <2>1, <2>2, FS_RemoveElement
    <3> QED BY <3>2, <2>2
  <2>4. CASE Y = {}
    <3>1. X = {z} /\ z \in Int
      BY <2>1, <2>2, <2>4
    <3> QED BY <3>1
  <2>5. CASE Y # {}
    <3>1. PICK x \in Y : \A y \in Y : x <= y
      BY <2>3, <2>5, <1>3
    <3>2. x \in Int /\ z \in Int
      BY <2>1, <2>3
    <3>3. CASE x <= z
      <4>1. \A y \in X : x <= y
        BY <3>1, <3>3, <2>2
      <4> QED BY <4>1, <2>2
    <3>4. CASE ~(x <= z)
      <4>1. \A y \in X : z <= y
        <5> TAKE y \in X
        <5>1. y \in Int /\ (y = z \/ y \in Y)
          BY <2>2
        <5> QED BY <5>1, <3>1, <3>2, <3>4
      <4> QED BY <4>1
    <3> QED BY <3>3, <3>4
  <2> QED BY <2>4, <2>5
<1>4. Nat \subseteq T
  <2> HIDE DEF T
  <2> QED BY <1>2, <1>3, NatInd
<1>5. HasLeast(S)
  BY <1>1, <1>4
<1> QED BY <1>5 DEF Min

(* A tree has a key.                                                       *)
LEMMA TreeHasKeys ==
  ASSUME NEW lev, NEW R, Settled(lev, R), NEW p \in Leaves
  PROVE  Key # {} /\ Min(Key) \in Key /\ \A k \in Key : Min(Key) <= k
<1>1. PICK a : a = contents[p].array
  OBVIOUS
<1>2. a \in Seq(LeafEntry) /\ Len(a) \in Nat /\ Len(a) >= 1
  BY <1>1, NodeFacts, Sizes DEF Settled, LeafOK, LeafRecord
<1>3. a[1] \in LeafEntry
  BY <1>2, ElementOfSeq
<1>4. Key # {} /\ Key \subseteq Int /\ IsFiniteSet(Key)
  BY <1>3, TreeAssumption DEF LeafEntry
<1> QED BY <1>4, LeastExists

(* What the leaves are as next_page_id_ leads through them.                *)
LEMMA LeafAtIs ==
  ASSUME NEW lev, NEW R, Settled(lev, R)
  PROVE  /\ LeafAt(0) \in Leaves
         /\ \A y \in Int : y < Min(Key) => y \in R[LeafAt(0)]
         /\ \A n \in Nat : LeafAt(n) \in Leaves \cup {NoPage}
         /\ \A n \in Nat : LeafAt(n) \in Leaves => LeafAt(n + 1) = contents[LeafAt(n)].next
<1> DEFINE Follow(p) == IF p = NoPage THEN NoPage ELSE contents[p].next
           Goes(f)   == f = [n \in Nat |-> IF n = 0 THEN FindLeafPage(Min(Key) - 1)
                                           ELSE Follow(f[n - 1])]
           at        == CHOOSE f : Goes(f)
           S         == Leaves \cup {NoPage}
           G         == [p \in S |-> Follow(p)]
<1>1. PICK low : low = Min(Key) - 1
  OBVIOUS
<1>2. \A n : LeafAt(n) = at[n]
  BY DEF LeafAt
<1>3. PICK first : first = FindLeafPage(low)
  OBVIOUS
<1>4. NoPage \notin Leaves
  BY NodeFacts DEF Settled, Nodes
<1>5. first \in Leaves /\ \A y \in Int : y < Min(Key) => y \in R[first]
  <2>1. PICK q \in Leaves : TRUE
    <3>1. FindLeafPage(0) \in Leaves
      BY SearchArrives
    <3> QED BY <3>1
  <2>2. Min(Key) \in Int /\ \A k \in Key : Min(Key) <= k
    BY <2>1, TreeHasKeys, Sizes
  <2>3. low \in Int /\ \A k \in Key : low < k
    BY <2>2, <1>1, Sizes
  <2>4. first \in Leaves /\ low \in R[first]
    BY <2>3, <1>3, SearchArrives
  <2>5. ASSUME NEW y \in Int, y < Min(Key)
        PROVE  y \in R[first]
    <3>1. \A k \in Key : low < k /\ y < k
      BY <2>2, <2>3, <2>5, Sizes
    <3> QED BY <2>4, <3>1, SettledFacts DEF BottomInv, Nodes
  <2> QED BY <2>4, <2>5
<1>6. \A p \in S : Follow(p) \in S
  BY SettledFacts DEF ChainInv
<1> HIDE DEF S, Follow
<1>7. \E f : Goes(f)
  <2>1. first \in S /\ G \in [S -> S]
    BY <1>5, <1>6 DEF S
  <2> HIDE DEF G
  <2>2. PICK f : f \in [Nat -> S] /\ f = [n \in Nat |-> IF n = 0 THEN first ELSE G[f[n - 1]]]
    BY <2>1, WalkExists
  <2>3. ASSUME NEW n \in Nat, n # 0
        PROVE  G[f[n - 1]] = Follow(f[n - 1])
    <3>1. n - 1 \in Nat
      BY <2>3
    <3> QED BY <3>1, <2>2 DEF G
  <2>4. Goes(f)
    BY <2>2, <2>3, <1>1, <1>3
  <2> QED BY <2>4
<1>8. Goes(at)
  <2> HIDE DEF Goes
  <2> QED BY <1>7
<1> HIDE DEF at
<1>9. at[0] = first /\ \A n \in Nat : at[n + 1] = Follow(at[n])
  <2>1. ASSUME NEW n \in Nat
        PROVE  at[n + 1] = Follow(at[n])
    <3>1. n + 1 \in Nat /\ n + 1 # 0 /\ (n + 1) - 1 = n
      OBVIOUS
    <3> QED BY <3>1, <1>8
  <2> QED BY <2>1, <1>1, <1>3, <1>8
<1> DEFINE T == {n \in Nat : at[n] \in S}
<1>10. Nat \subseteq T
  <2>1. 0 \in T
    BY <1>5, <1>9 DEF S
  <2>2. ASSUME NEW n \in Nat, n \in T
        PROVE  n + 1 \in T
    BY <2>2, <1>6, <1>9
  <2> HIDE DEF T
  <2> QED BY <2>1, <2>2, NatInd
<1>11. ASSUME NEW n \in Nat, LeafAt(n) \in Leaves
       PROVE  LeafAt(n + 1) = contents[LeafAt(n)].next
  <2>1. at[n] \in Leaves /\ at[n + 1] = Follow(at[n])
    BY <1>2, <1>9, <1>11
  <2> QED BY <2>1, <1>2, <1>4 DEF Follow
<1> QED BY <1>2, <1>5, <1>9, <1>10, <1>11 DEF S

(* The leaves in the order of their ranges.                                *)
Before(R, p, q) == \A x \in R[p], y \in R[q] : x < y

LEMMA LeavesApart ==
  ASSUME NEW lev, NEW R, Settled(lev, R)
  PROVE  /\ \A p \in Leaves : R[p] # {} /\ R[p] \subseteq Int
         /\ \A p, q \in Leaves : p # q => R[p] \cap R[q] = {}
         /\ \A p, q, t \in Leaves : Before(R, p, q) /\ Before(R, q, t) => Before(R, p, t)
         /\ \A p \in Leaves : ~Before(R, p, p)
<1>1. \A p \in Leaves : R[p] # {} /\ R[p] \subseteq Int
  BY SettledFacts DEF RangesInv
<1>2. \A p, q \in Leaves : p # q => R[p] \cap R[q] = {}
  BY SettledFacts DEF RangesInv
<1>3. ASSUME NEW p \in Leaves, NEW q \in Leaves, NEW t \in Leaves, Before(R, p, q), Before(R, q, t)
      PROVE  Before(R, p, t)
  <2> SUFFICES ASSUME NEW x \in R[p], NEW y \in R[t]
               PROVE  x < y
    BY DEF Before
  <2>1. PICK z \in R[q] : TRUE
    BY <1>1
  <2>2. x < z /\ z < y
    BY <1>3, <2>1 DEF Before
  <2>3. x \in Int /\ y \in Int /\ z \in Int
    BY <1>1
  <2> QED BY <2>2, <2>3
<1>4. ASSUME NEW p \in Leaves, Before(R, p, p)
      PROVE  FALSE
  <2>1. PICK x \in R[p] : x \in Int
    BY <1>1
  <2>2. x < x
    BY <1>4, <2>1 DEF Before
  <2> QED BY <2>1, <2>2
<1> QED BY <1>1, <1>2, <1>3, <1>4

(* A page and the next.                                                    *)
LEMMA NextLeaf ==
  ASSUME NEW lev, NEW R, Settled(lev, R), NEW p \in Leaves, NEW q \in Leaves
  PROVE  /\ contents[p].next = q => Before(R, p, q)
         /\ Before(R, p, q) =>
              /\ contents[p].next \in Leaves
              /\ q = contents[p].next \/ Before(R, contents[p].next, q)
<1>1. /\ R[p] # {} /\ R[p] \subseteq Int /\ R[q] # {} /\ R[q] \subseteq Int
      /\ \A t \in Leaves : t # q => R[t] \cap R[q] = {}
      /\ \A t \in Leaves : R[t] \subseteq Int
  BY LeavesApart
<1>2. \/ contents[p].next = NoPage /\ \A x \in R[p], y \in Int : x <= y => y \in R[p]
      \/ contents[p].next \in Leaves /\ Joined(R[p], R[contents[p].next])
  BY SettledFacts DEF ChainInv
<1>3. NoPage \notin Leaves
  BY NodeFacts DEF Settled, Nodes
<1>4. contents[p].next = q => Before(R, p, q)
  BY <1>2, <1>3 DEF Joined, Before
<1>5. ASSUME Before(R, p, q)
      PROVE  /\ contents[p].next \in Leaves
             /\ q = contents[p].next \/ Before(R, contents[p].next, q)
  <2>1. PICK x, y : x \in R[p] /\ y \in R[q]
    BY <1>1
  <2>2. x < y /\ x \in Int /\ y \in Int
    BY <1>1, <1>5, <2>1 DEF Before
  <2>3. y \notin R[p]
    <3>1. y \notin R[p] \/ y < y
      BY <1>5, <2>1 DEF Before
    <3> QED BY <3>1, <2>2
  <2>4. PICK t : t = contents[p].next
    OBVIOUS
  <2>5. t \in Leaves /\ Joined(R[p], R[t])
    BY <1>2, <2>1, <2>2, <2>3, <2>4
  <2>6. ASSUME q # t
        PROVE  Before(R, t, q)
    <3> SUFFICES ASSUME NEW u \in R[t], NEW v \in R[q]
                 PROVE  u < v
      BY DEF Before
    <3>1. u \in Int /\ v \in Int /\ v \notin R[t] /\ u # v
      BY <2>5, <2>6, <1>1
    <3>2. x < v
      BY <1>5, <2>1 DEF Before
    <3>3. v \notin R[p]
      <4>1. v \notin R[p] \/ v < v
        BY <1>5 DEF Before
      <4> QED BY <4>1, <3>1
    <3>4. v <= u => v \in R[p] \cup R[t]
      BY <2>1, <2>2, <2>5, <3>1, <3>2 DEF Joined
    <3> QED BY <3>1, <3>3, <3>4
  <2> QED BY <2>4, <2>5, <2>6
<1> QED BY <1>4, <1>5

(* The page a scan starts at comes first.                                  *)
LEMMA FirstLeaf ==
  ASSUME NEW lev, NEW R, Settled(lev, R), NEW q \in Leaves, q # LeafAt(0)
  PROVE  Before(R, LeafAt(0), q)
<1>1. PICK p : p = LeafAt(0)
  OBVIOUS
<1>2. p \in Leaves /\ \A y \in Int : y < Min(Key) => y \in R[p]
  BY <1>1, LeafAtIs
<1>3. /\ R[p] # {} /\ R[p] \subseteq Int /\ R[q] # {} /\ R[q] \subseteq Int /\ R[p] \cap R[q] = {}
  BY <1>1, <1>2, LeavesApart
<1>4. Min(Key) \in Int
  BY TreeHasKeys, Sizes
<1>5. IsInterval(R[p])
  BY <1>2, SettledFacts DEF ChainInv
<1>6. ASSUME NEW x \in R[p], NEW y \in R[q]
      PROVE  x < y
  <2>1. x \in Int /\ y \in Int /\ y \notin R[p] /\ x # y
    BY <1>3
  <2>2. PICK z : z = Min(Key) - 1
    OBVIOUS
  <2>3. z \in Int /\ z < Min(Key) /\ z \in R[p]
    BY <1>2, <1>4, <2>2
  <2>4. ~(y < Min(Key))
    BY <1>2, <2>1
  <2>5. z <= y
    BY <2>1, <2>3, <2>4, <1>4
  <2>6. y <= x => y \in R[p]
    BY <1>5, <2>1, <2>3, <2>5 DEF IsInterval
  <2> QED BY <2>1, <2>6
<1> QED BY <1>1, <1>6 DEF Before

(* The leaves the chain leads through are ordered.                         *)
LEMMA ChainRises ==
  ASSUME NEW lev, NEW R, Settled(lev, R), NEW i \in Nat, NEW j \in Nat, i < j, LeafAt(j) \in Leaves,
         \A n \in Nat : n < j => LeafAt(n) \in Leaves
  PROVE  Before(R, LeafAt(i), LeafAt(j))
<1> DEFINE T == {n \in Nat : i + n + 1 <= j => Before(R, LeafAt(i), LeafAt(i + n + 1))}
<1>1. \A n \in Nat : n <= j => LeafAt(n) \in Leaves
  OBVIOUS
<1>2. \A n \in Nat : n + 1 <= j => Before(R, LeafAt(n), LeafAt(n + 1))
  <2> SUFFICES ASSUME NEW n \in Nat, n + 1 <= j
               PROVE  Before(R, LeafAt(n), LeafAt(n + 1))
    OBVIOUS
  <2>1. n \in Nat /\ n <= j /\ n + 1 \in Nat
    OBVIOUS
  <2>2. PICK p, q : p = LeafAt(n) /\ q = LeafAt(n + 1)
    OBVIOUS
  <2>3. p \in Leaves /\ q \in Leaves
    BY <2>1, <2>2, <1>1
  <2>4. contents[p].next = q
    BY <2>2, <2>3, LeafAtIs
  <2> QED BY <2>2, <2>3, <2>4, NextLeaf
<1>3. 0 \in T
  BY <1>2
<1>4. ASSUME NEW n \in Nat, n \in T
      PROVE  n + 1 \in T
  <2> SUFFICES ASSUME i + (n + 1) + 1 <= j
               PROVE  Before(R, LeafAt(i), LeafAt(i + (n + 1) + 1))
    OBVIOUS
  <2>1. PICK m : m = i + n + 1
    OBVIOUS
  <2>2. m \in Nat /\ m <= j /\ m + 1 <= j /\ m + 1 = i + (n + 1) + 1 /\ m + 1 \in Nat /\ i <= j
    BY <2>1
  <2>3. Before(R, LeafAt(i), LeafAt(m))
    BY <1>4, <2>1, <2>2
  <2>4. Before(R, LeafAt(m), LeafAt(m + 1))
    BY <2>2, <1>2
  <2>5. LeafAt(i) \in Leaves /\ LeafAt(m) \in Leaves /\ LeafAt(m + 1) \in Leaves
    BY <2>2, <1>1
  <2> QED BY <2>2, <2>3, <2>4, <2>5, LeavesApart
<1>5. Nat \subseteq T
  <2> HIDE DEF T
  <2> QED BY <1>3, <1>4, NatInd
<1>6. PICK n : n = j - i - 1
  OBVIOUS
<1>7. n \in Nat /\ n \in T /\ i + n + 1 = j
  BY <1>5, <1>6
<1> QED BY <1>7

(* All nodes are in the tree: a node at height h is that far below the root. *)
LEMMA NodesAreInTree ==
  ASSUME NEW lev, NEW R, Settled(lev, R)
  PROVE  Nodes = TreeNodes
<1> DEFINE T == {n \in Nat : \A p \in Nodes : lev[p] + n = lev[root_page_id] => p \in Level[n]}
<1>1. /\ root_page_id \in Nodes /\ \A p \in Nodes : lev[p] \in Nat /\ lev[p] <= lev[root_page_id]
      /\ lev[root_page_id] <= MAX_PAGES - 1 /\ MAX_PAGES - 1 \in Nat
  BY SettledFacts DEF Settled, TreeInv, RootInv
<1>2. ASSUME NEW p \in Nodes, p # root_page_id
      PROVE  \E t \in Internals : t \in Nodes /\ p \in Kids(t) /\ lev[p] + 1 = lev[t]
  BY <1>2, HasOneParent, SettledFacts
<1>3. 0 \in T
  <2> SUFFICES ASSUME NEW p \in Nodes, lev[p] + 0 = lev[root_page_id]
               PROVE  p = root_page_id
    BY LevelsAre
  <2> SUFFICES ASSUME p # root_page_id
               PROVE  FALSE
    OBVIOUS
  <2>1. PICK t \in Nodes : lev[p] + 1 = lev[t]
    BY <1>2
  <2>2. lev[t] <= lev[root_page_id] /\ lev[p] \in Nat
    BY <1>1
  <2> QED BY <2>1, <2>2
<1>4. ASSUME NEW n \in Nat, n \in T
      PROVE  n + 1 \in T
  <2> SUFFICES ASSUME NEW p \in Nodes, lev[p] + (n + 1) = lev[root_page_id]
               PROVE  p \in Level[n + 1]
    OBVIOUS
  <2>1. p # root_page_id
    <3>1. lev[p] \in Nat
      BY <1>1
    <3>2. lev[p] # lev[root_page_id]
      BY <3>1
    <3> QED BY <3>2
  <2>2. PICK t \in Internals : t \in Nodes /\ p \in Kids(t) /\ lev[p] + 1 = lev[t]
    BY <1>2, <2>1
  <2>3. lev[t] + n = lev[root_page_id]
    <3>1. lev[p] \in Nat /\ lev[t] \in Nat /\ lev[root_page_id] \in Nat
      BY <1>1, <2>2
    <3> QED BY <3>1, <2>2
  <2>4. t \in Level[n] /\ IsInternal(contents[t]) /\ p \in Children(t)
    BY <1>4, <2>2, <2>3, ChildrenAreKids, SettledFacts
  <2> QED BY <2>4, LevelsAre
<1>5. Nat \subseteq T
  <2> HIDE DEF T
  <2> QED BY <1>3, <1>4, NatInd
<1>6. ASSUME NEW p \in Nodes
      PROVE  p \in TreeNodes
  <2>1. PICK n : n = lev[root_page_id] - lev[p]
    OBVIOUS
  <2>2. n \in Nat /\ n \in 0 .. MAX_PAGES - 1 /\ lev[p] + n = lev[root_page_id]
    BY <2>1, <1>1
  <2>3. p \in Level[n]
    BY <2>2, <1>5
  <2> QED BY <2>2, <2>3 DEF TreeNodes
<1> QED BY <1>6, TreeNodesAre

(* The chain of the leaves is of length m.                                 *)
EndsAt(m) == m \in Nat /\ LeafAt(m) = NoPage /\ \A n \in Nat : n < m => LeafAt(n) \in Leaves

LEMMA LeavesAreFinite == IsFiniteSet(Leaves) /\ Cardinality(Leaves) \in Nat
<1>1. IsFiniteSet(PageId)
  BY Sizes, FS_Interval
<1> QED BY <1>1, FS_Subset, FS_CardinalityType DEF Leaves

LEMMA ChainIsInjective ==
  ASSUME NEW lev, NEW R, Settled(lev, R), NEW m \in Nat,
         \A n \in Nat : n < m => LeafAt(n) \in Leaves
  PROVE  /\ [i \in 0 .. m - 1 |-> LeafAt(i)] \in Injection(0 .. m - 1, Leaves)
         /\ m <= Cardinality(Leaves)
<1> DEFINE f == [i \in 0 .. m - 1 |-> LeafAt(i)]
<1>1. IsFiniteSet(Leaves) /\ Cardinality(Leaves) \in Nat
  BY LeavesAreFinite
<1>2. ASSUME NEW i \in 0 .. m - 1, NEW j \in 0 .. m - 1, i < j
      PROVE  LeafAt(i) # LeafAt(j)
  <2>1. i \in Nat /\ j \in Nat /\ \A n \in Nat : n <= j => LeafAt(n) \in Leaves
    BY <1>2
  <2>2. LeafAt(j) \in Leaves /\ \A n \in Nat : n < j => LeafAt(n) \in Leaves
    BY <2>1
  <2>3. Before(R, LeafAt(i), LeafAt(j))
    BY <1>2, <2>1, <2>2, ChainRises
  <2> QED BY <2>2, <2>3, LeavesApart
<1>3. f \in [0 .. m - 1 -> Leaves]
  OBVIOUS
<1>4. \A i, j \in 0 .. m - 1 : f[i] = f[j] => i = j
  BY <1>2
<1>5. f \in Injection(0 .. m - 1, Leaves)
  BY <1>3, <1>4 DEF Injection, IsInjective
<1>6. Cardinality(0 .. m - 1) <= Cardinality(Leaves)
  <2> HIDE DEF f
  <2> QED BY <1>1, <1>5, FS_Injection
<1>7. Cardinality(0 .. m - 1) = m
  <2>1. Cardinality(0 .. m - 1) = IF 0 > m - 1 THEN 0 ELSE (m - 1) - 0 + 1
    BY FS_Interval
  <2> QED BY <2>1
<1> QED BY <1>1, <1>5, <1>6, <1>7

LEMMA ChainEnds ==
  ASSUME NEW lev, NEW R, Settled(lev, R)
  PROVE  \E m : EndsAt(m)
<1> SUFFICES ASSUME \A m : ~EndsAt(m)
             PROVE  FALSE
  OBVIOUS
<1> DEFINE T == {n \in Nat : \A k \in Nat : k <= n => LeafAt(k) \in Leaves}
<1>1. 0 \in T
  BY LeafAtIs
<1>2. ASSUME NEW n \in Nat, n \in T
      PROVE  n + 1 \in T
  <2>1. \A k \in Nat : k < n + 1 => LeafAt(k) \in Leaves
    BY <1>2
  <2>2. LeafAt(n + 1) # NoPage
    BY <2>1 DEF EndsAt
  <2>3. LeafAt(n + 1) \in Leaves
    BY <2>2, LeafAtIs
  <2> QED BY <2>1, <2>3
<1>3. Nat \subseteq T
  <2> HIDE DEF T
  <2> QED BY <1>1, <1>2, NatInd
<1>4. PICK c : c = Cardinality(Leaves)
  OBVIOUS
<1>5. c \in Nat
  BY <1>4, LeavesAreFinite
<1>6. \A n \in Nat : LeafAt(n) \in Leaves
  BY <1>3
<1>7. c + 1 <= c
  <2>1. PICK d : d = c + 1
    OBVIOUS
  <2>2. d \in Nat /\ \A n \in Nat : n < d => LeafAt(n) \in Leaves
    BY <2>1, <1>5, <1>6
  <2>3. d <= Cardinality(Leaves)
    BY <2>2, ChainIsInjective
  <2> QED BY <2>1, <2>3, <1>4
<1> QED BY <1>5, <1>7

LEMMA ChainCovers ==
  ASSUME NEW lev, NEW R, Settled(lev, R), NEW m, EndsAt(m), NEW q \in Leaves
  PROVE  \E i \in Nat : i < m /\ LeafAt(i) = q
<1> SUFFICES ASSUME \A i \in Nat : i < m => LeafAt(i) # q
             PROVE  FALSE
  OBVIOUS
<1>1. m \in Nat /\ LeafAt(m) = NoPage /\ NoPage \notin Leaves /\ LeafAt(0) \in Leaves
  BY LeafAtIs, NodeFacts DEF EndsAt, Settled, Nodes
<1>2. m # 0
  BY <1>1
<1> DEFINE T == {n \in Nat : n < m => Before(R, LeafAt(n), q)}
<1>3. 0 \in T
  BY <1>1, <1>2, FirstLeaf
<1>4. ASSUME NEW n \in Nat, n \in T
      PROVE  n + 1 \in T
  <2> SUFFICES ASSUME n + 1 < m
               PROVE  Before(R, LeafAt(n + 1), q)
    OBVIOUS
  <2>1. n < m /\ n + 1 \in Nat
    BY <1>1
  <2>2. PICK p, t : p = LeafAt(n) /\ t = LeafAt(n + 1)
    OBVIOUS
  <2>3. p \in Leaves /\ Before(R, p, q) /\ q # t
    BY <1>4, <2>1, <2>2 DEF EndsAt
  <2>4. t = contents[p].next
    BY <2>2, <2>3, LeafAtIs
  <2> QED BY <2>2, <2>3, <2>4, NextLeaf
<1>5. Nat \subseteq T
  <2> HIDE DEF T
  <2> QED BY <1>3, <1>4, NatInd
<1>6. PICK n, p : n = m - 1 /\ p = LeafAt(n)
  OBVIOUS
<1>7. n \in Nat /\ n < m /\ n + 1 = m
  BY <1>1, <1>2, <1>6
<1>8. p \in Leaves /\ Before(R, p, q)
  BY <1>5, <1>6, <1>7 DEF EndsAt
<1>9. contents[p].next = NoPage
  BY <1>1, <1>6, <1>7, <1>8, LeafAtIs
<1> QED BY <1>1, <1>8, <1>9, NextLeaf

LEMMA ChainCounts ==
  ASSUME NEW lev, NEW R, Settled(lev, R), NEW m, EndsAt(m)
  PROVE  Cardinality(Leaves) = m
<1> DEFINE f == [i \in 0 .. m - 1 |-> LeafAt(i)]
<1>1. m \in Nat /\ \A n \in Nat : n < m => LeafAt(n) \in Leaves
  BY DEF EndsAt
<1>2. IsFiniteSet(Leaves) /\ f \in Injection(0 .. m - 1, Leaves)
  BY <1>1, LeavesAreFinite, ChainIsInjective
<1>3. \A q \in Leaves : \E i \in 0 .. m - 1 : f[i] = q
  <2> TAKE q \in Leaves
  <2>1. PICK i \in Nat : i < m /\ LeafAt(i) = q
    BY ChainCovers
  <2>2. i \in 0 .. m - 1
    BY <1>1, <2>1
  <2> QED BY <2>1, <2>2
<1>4. f \in Bijection(0 .. m - 1, Leaves)
  BY <1>2, <1>3 DEF Injection, Surjection, Bijection
<1>5. IsFiniteSet(0 .. m - 1) /\ Cardinality(0 .. m - 1) = IF 0 > m - 1 THEN 0 ELSE (m - 1) - 0 + 1
  BY <1>1, FS_Interval
<1>6. Cardinality(Leaves) = Cardinality(0 .. m - 1)
  <2>1. ExistsBijection(0 .. m - 1, Leaves)
    BY <1>4 DEF ExistsBijection
  <2> QED BY <1>5, <2>1, FS_Bijection
<1> QED BY <1>1, <1>5, <1>6

LEMMA LeavesAreChained == IInv /\ KeyInv => LeafChainIsSorted
<1> SUFFICES ASSUME IInv, KeyInv, Idle, HasTree
             PROVE  LeafChainIsSorted
  BY DEF LeafChainIsSorted
<1>1. PICK lev, R : Settled(lev, R)
  BY SettledBetweenCalls
<1> DEFINE leaves == {p \in TreeNodes : contents[p].type = "leaf"}
           size   == Cardinality(leaves)
           chain  == [n \in 1 .. size |-> LeafAt(n - 1)]
           KeyOf(n, i) == contents[chain[n]].array[i].key
<1>2. leaves = Leaves
  BY <1>1, NodesAreInTree, SettledFacts DEF Nodes, Leaves
<1>3. EndsAt(size) /\ size \in Nat
  <2>1. PICK m : EndsAt(m)
    BY <1>1, ChainEnds
  <2>2. Cardinality(Leaves) = m /\ m \in Nat
    BY <1>1, <2>1, ChainCounts DEF EndsAt
  <2> QED BY <2>1, <2>2, <1>2
<1> HIDE DEF leaves, size
<1>4. \A n \in 1 .. size : n - 1 \in Nat /\ n - 1 < size /\ chain[n] = LeafAt(n - 1)
  BY <1>3
<1> HIDE DEF chain
<1>5. Range(chain) = leaves
  <2>1. DOMAIN chain = 1 .. size
    BY DEF chain
  <2>2. ASSUME NEW n \in 1 .. size
        PROVE  chain[n] \in leaves
    BY <1>2, <1>3, <1>4 DEF EndsAt
  <2>3. ASSUME NEW p \in leaves
        PROVE  \E n \in 1 .. size : chain[n] = p
    <3>1. PICK i \in Nat : i < size /\ LeafAt(i) = p
      BY <1>1, <1>2, <1>3, ChainCovers
    <3>2. PICK n : n = i + 1
      OBVIOUS
    <3>3. n \in 1 .. size /\ n - 1 = i
      BY <3>1, <3>2, <1>3
    <3> QED BY <3>1, <3>3, <1>4
  <2> QED BY <2>1, <2>2, <2>3 DEF Range
<1>6. LeafAt(size) = NoPage
  BY <1>3 DEF EndsAt
<1>7. ASSUME NEW m \in 1 .. size, NEW n \in 1 .. size,
             NEW i \in DOMAIN contents[chain[m]].array, NEW j \in DOMAIN contents[chain[n]].array,
             m < n \/ (m = n /\ i < j)
      PROVE  KeyOf(m, i) < KeyOf(n, j)
  <2>1. PICK p, q : p = chain[m] /\ q = chain[n]
    OBVIOUS
  <2>2. p \in Leaves /\ q \in Leaves
    BY <2>1, <1>3, <1>4 DEF EndsAt
  <2>3. /\ i \in 1 .. Len(contents[p].array) /\ j \in 1 .. Len(contents[q].array)
    BY <2>1, <2>2, <1>1, NodeFacts, NodeKinds DEF Settled
  <2>4. PICK x, y : x = contents[p].array[i].key /\ y = contents[q].array[j].key
    OBVIOUS
  <2>5. x \in R[p] /\ y \in R[q]
    BY <2>2, <2>3, <2>4, <1>1, SettledFacts DEF OrderInv
  <2>6. CASE m < n
    <3>1. PICK a, b : a = m - 1 /\ b = n - 1
      OBVIOUS
    <3>2. a \in Nat /\ b \in Nat /\ a < b /\ b < size
      BY <2>6, <3>1, <1>3
    <3>3. \A k \in Nat : k < b => LeafAt(k) \in Leaves
      BY <3>2, <1>3 DEF EndsAt
    <3>4. LeafAt(a) = p /\ LeafAt(b) = q
      BY <3>1, <2>1, <1>4
    <3>5. Before(R, p, q)
      BY <3>2, <3>3, <3>4, <2>2, <1>1, ChainRises
    <3>6. x < y
      BY <3>5, <2>5 DEF Before
    <3> QED BY <3>6, <2>1, <2>4
  <2>7. CASE m = n /\ i < j
    <3>1. p = q /\ IsRising(contents[p].array, 1)
      BY <2>1, <2>2, <2>7, <1>1, SettledFacts DEF OrderInv
    <3>2. x < y
      BY <3>1, <2>3, <2>4, <2>7 DEF IsRising
    <3> QED BY <3>2, <2>1, <2>4
  <2> QED BY <1>7, <2>6, <2>7
<1>8. LeafChainIsSorted <=>
        (Idle /\ HasTree =>
           /\ Range(chain) = leaves
           /\ LeafAt(size) = NoPage
           /\ \A m, n \in 1 .. size :
                \A i \in DOMAIN contents[chain[m]].array, j \in DOMAIN contents[chain[n]].array :
                  m < n \/ (m = n /\ i < j) => KeyOf(m, i) < KeyOf(n, j))
  BY DEF LeafChainIsSorted, chain, size, leaves
<1> QED BY <1>5, <1>6, <1>7, <1>8

-----------------------------------------------------------------------------
(* The tree is a dictionary.                                               *)

(* The promise of a dictionary is kept as long as the first insert finds a *)
(* page for the root: otherwise it returns true for an entry it dropped.   *)
HasRoomToStart == Executing("StartNewTree") => Pool!HasRoom

AnswersInv == \A s \in Work : s.do = "Return" /\ s.answer.op = "Insert" => HasTree

(* A tree stays: page ids only replace the root's by another.              *)
LEMMA RootStays ==
  ASSUME [Next]_vars
  PROVE  root_page_id' = root_page_id \/ root_page_id' \in PageId
<1>1. \A nodes : NewPage(nodes) => num_pages \in PageId
  BY DEF NewPage
<1>2. DoStartNewTree => root_page_id' = root_page_id \/ root_page_id' \in PageId
  BY <1>1 DEF DoStartNewTree
<1>3. GrowRoot => root_page_id' = root_page_id \/ root_page_id' \in PageId
  BY <1>1 DEF GrowRoot, Crash
<1>4. PassInternal \/ FetchFails \/ LookUpInLeaf \/ InsertIntoLeaf => root_page_id' = root_page_id
  BY DEF PassInternal, FetchFails, LookUpInLeaf, InsertIntoLeaf, Crash
<1>5. DoSplitLeaf \/ InsertIntoOldParent \/ DoSplitInternal => root_page_id' = root_page_id
  BY DEF DoSplitLeaf, InsertIntoOldParent, DoSplitInternal, Crash
<1>6. DoAdoptChildren \/ DoUnpinPage \/ DoReturn => root_page_id' = root_page_id
  BY DEF DoAdoptChildren, DoUnpinPage, DoReturn, Crash
<1>7. \A key \in Key : GetValue(key) => root_page_id' = root_page_id
  BY DEF GetValue
<1>8. \A key \in Key : \A value \in RecordID : Insert(key, value) => root_page_id' = root_page_id
  BY DEF Insert
<1>9. HoldDataPage \/ ReleaseDataPage \/ UNCHANGED vars => root_page_id' = root_page_id
  BY DEF HoldDataPage, ReleaseDataPage, vars
<1> QED BY <1>2, <1>3, <1>4, <1>5, <1>6, <1>7, <1>8, <1>9 DEF Next, Step

(* Without a tree only a first insert or an answer is left to do.          *)
LEMMA HeadWithoutTree ==
  ASSUME IInv, ~HasTree, stack # <<>>
  PROVE  Head(stack).do \in {"StartNewTree", "UnpinPage", "Return"}
<1>1. Nodes = {} /\ Leaves = {} /\ Internals = {}
  <2>1. Nodes = {}
    BY EmptyTree DEF IInv
  <2> QED BY <2>1 DEF Nodes
<1>2. PICK s : s = Head(stack)
  OBVIOUS
<1>3. stack \in Seq(Statement) /\ s = stack[1] /\ 1 \in 1 .. Len(stack) /\ s \in Statement
  BY <1>2 DEF IInv, StackInv
<1>4. IsReady(s)
  BY <1>3 DEF IInv, StackInv
<1>5. s.do \in {"Descend", "StartNewTree", "SplitLeaf", "InsertIntoParent",
                "SplitInternal", "AdoptChildren", "UnpinPage", "Return"}
  BY <1>3, StatementFields
<1> QED BY <1>1, <1>2, <1>4, <1>5 DEF IsReady

LEMMA NextKeepsAnswers ==
  ASSUME IInv, AnswersInv, HasRoomToStart, [Next]_vars
  PROVE  AnswersInv'
<1> SUFFICES ASSUME ~HasTree', NEW a \in Work', a.do = "Return", a.answer.op = "Insert"
             PROVE  FALSE
  BY DEF AnswersInv
<1>1. ~HasTree /\ root_page_id = NoPage /\ root_page_id' = NoPage
  BY RootStays, Sizes DEF HasTree
<1>2. a \notin Work
  BY <1>1 DEF AnswersInv
<1>3. stack' # stack
  BY <1>2 DEF Work
<1>4. ASSUME Step PROVE FALSE
  <2>1. stack # <<>> /\ Head(stack).do \in {"StartNewTree", "UnpinPage", "Return"}
    <3>1. stack # <<>>
      BY <1>4 DEF Step, DoStartNewTree, PassInternal, FetchFails, LookUpInLeaf, InsertIntoLeaf,
                  DoSplitLeaf, GrowRoot, InsertIntoOldParent, DoSplitInternal, DoAdoptChildren,
                  DoUnpinPage, DoReturn, Executing
    <3> QED BY <3>1, <1>1, HeadWithoutTree
  <2>2. DoStartNewTree \/ DoUnpinPage \/ DoReturn
    BY <1>4, <2>1 DEF Step, PassInternal, FetchFails, LookUpInLeaf, InsertIntoLeaf,
                  DoSplitLeaf, GrowRoot, InsertIntoOldParent, DoSplitInternal, DoAdoptChildren, Executing
  <2>3. ~DoStartNewTree
    <3> SUFFICES ASSUME DoStartNewTree PROVE FALSE
      OBVIOUS
    <3>1. Pool!HasRoom
      BY DEF DoStartNewTree, HasRoomToStart
    <3>2. num_pages \in PageId /\ root_page_id' = num_pages
      BY <3>1 DEF DoStartNewTree, NewPage
    <3> QED BY <3>2, <1>1, Sizes
  <2>4. Then(<<>>)
    BY <2>2, <2>3 DEF DoUnpinPage, DoReturn
  <2>5. Work' \subseteq Work
    BY <2>1, <2>4, NoStatements, WorkThen DEF IInv
  <2> QED BY <2>5, <1>2
<1>5. ASSUME NEW key \in Key, GetValue(key) PROVE FALSE
  <2>1. stack' = <<Return(Missing(key))>>
    BY <1>1, <1>5 DEF GetValue, CallGetValue
  <2>2. a = Return(Missing(key))
    BY <2>1 DEF Work, WorkOf
  <2>3. a.answer = Missing(key) /\ Missing(key).op = "GetValue"
    BY <2>2 DEF Return, Missing
  <2> QED BY <2>3
<1>6. ASSUME NEW key \in Key, NEW value \in RecordID, Insert(key, value) PROVE FALSE
  <2>1. stack' = <<StartNewTree(key, value)>>
    BY <1>1, <1>6 DEF Insert, CallInsert
  <2>2. a = StartNewTree(key, value)
    BY <2>1 DEF Work, WorkOf
  <2> QED BY <2>2 DEF StartNewTree
<1>7. ~HoldDataPage /\ ~ReleaseDataPage /\ ~UNCHANGED vars
  BY <1>3 DEF HoldDataPage, ReleaseDataPage, vars
<1> QED BY <1>4, <1>5, <1>6, <1>7 DEF Next

(* An answer is one the dictionary gives.                                  *)
LEMMA ReturnAnswers ==
  ASSUME IInv, KeyInv, AnswersInv, DoReturn
  PROVE  Index!Next
<1>1. PICK s : s = Head(stack)
  OBVIOUS
<1>2. Executing("Return") /\ reply' = s.answer /\ contents' = contents /\ root_page_id' = root_page_id
  BY <1>1 DEF DoReturn, pool
<1>3. s \in Statement /\ s = stack[1] /\ s.do = "Return" /\ stack # <<>> /\ Len(stack) \in Nat \ {0}
  BY <1>1, <1>2, HeadProps DEF IInv
<1>4. s \in Work
  BY <1>3 DEF Work, WorkOf
<1>5. IsTrue(s.answer)
  BY <1>3, <1>4 DEF KeyInv, CallInv, CallOK
<1>6. Entries' = Entries
  BY <1>2, SameEntries DEF EntriesSame
<1>7. PICK a : a = s.answer
  OBVIOUS
<1>8. a \in Answer
  BY <1>3, <1>7, StatementFields
<1>9. ASSUME NEW k \in Key, NEW v \in RecordID, a = Found(Entry(k, v))
      PROVE  Index!Next
  <2>1. PICK e : e = Entry(k, v)
    OBVIOUS
  <2>2. e \in LeafEntry /\ e = [key |-> k, value |-> v]
    BY <2>1 DEF LeafEntry, Entry
  <2>3. e \in Entries
    BY <1>5, <1>7, <1>9, <2>1, <2>2 DEF IsTrue
  <2>4. reply' = [op |-> "GetValue", entry |-> e, ok |-> TRUE]
    BY <1>2, <1>7, <1>9, <2>1 DEF Found
  <2>5. Index!AnswerFound(e)
    BY <1>6, <2>3, <2>4 DEF Index!AnswerFound
  <2> QED BY <2>2, <2>5 DEF Index!Next
<1>10. ASSUME NEW k \in Key, NEW v \in RecordID, NEW ok \in BOOLEAN, a = Inserted(k, v, ok)
       PROVE  Index!Next
  <2>1. PICK e : e = Entry(k, v)
    OBVIOUS
  <2>2. e \in LeafEntry /\ e = [key |-> k, value |-> v] /\ e.key = k /\ e.value = v
    BY <2>1 DEF LeafEntry, Entry
  <2>3. a.op = "Insert"
    BY <1>10, InsertedFields
  <2>4. HasTree
    BY <1>3, <1>4, <1>7, <2>3 DEF AnswersInv
  <2>5. ok <=> e \in Entries
    <3>1. /\ a = Inserted(k, v, TRUE) => e \in Entries
          /\ a = Inserted(k, v, FALSE) => e \notin Entries
      BY <1>5, <1>7, <2>2, <2>4 DEF IsTrue
    <3>2. CASE ok = TRUE
      BY <3>1, <3>2, <1>10
    <3>3. CASE ok = FALSE
      BY <3>1, <3>3, <1>10
    <3> QED BY <3>2, <3>3
  <2>6. reply' = [op |-> "Insert", entry |-> e, ok |-> e \in Entries]
    <3>1. ok = (e \in Entries)
      BY <2>5
    <3> QED BY <3>1, <1>2, <1>7, <1>10, <2>1 DEF Inserted
  <2>7. Index!AnswerInsert(e)
    BY <1>6, <2>6 DEF Index!AnswerInsert
  <2> QED BY <2>2, <2>7 DEF Index!Next
<1>11. ASSUME NEW k \in Key, a = Missing(k)
       PROVE  Index!Next
  <2>1. ~IsStored(k)
    <3> SUFFICES ASSUME IsStored(k) PROVE FALSE
      OBVIOUS
    <3>1. PICK e \in Entries : e.key = k
      BY DEF IsStored
    <3>2. e \in LeafEntry
      <4>1. PICK p \in PageId : contents[p].type = "leaf" /\ \E i \in DOMAIN contents[p].array : e = contents[p].array[i]
        BY <3>1, EntriesAre
      <4>2. LeafOK(contents[p])
        BY <4>1, NodeFacts DEF IInv, Leaves
      <4>3. contents[p].array \in Seq(LeafEntry)
        BY <4>2 DEF LeafOK, LeafRecord
      <4> QED BY <4>1, <4>3
    <3> QED BY <3>1, <3>2, <1>5, <1>7, <1>11 DEF IsTrue
  <2>2. ~Index!IsKey(k)
    BY <2>1 DEF IsStored, Index!IsKey
  <2>3. reply' = [op |-> "GetValue", key |-> k, ok |-> FALSE]
    BY <1>2, <1>7, <1>11 DEF Missing
  <2>4. Index!AnswerMissing(k)
    BY <1>6, <2>2, <2>3 DEF Index!AnswerMissing
  <2> QED BY <2>4 DEF Index!Next
<1> QED BY <1>8, <1>9, <1>10, <1>11 DEF Answer

(* A step of an insert adds its entry or nothing.                          *)
LEMMA AddIsInsert ==
  ASSUME IInv, KeyInv, stack # <<>>, Adds(Head(stack)), reply' = reply
  PROVE  [Index!Next]_(Index!vars)
<1>1. PICK s : s = Head(stack)
  OBVIOUS
<1>2. /\ stack \in Seq(Statement) /\ s = stack[1] /\ 1 \in 1 .. Len(stack) /\ s \in Statement
      /\ IsReady(s) /\ s \in Work
  <2>1. stack \in Seq(Statement) /\ s = stack[1] /\ 1 \in 1 .. Len(stack) /\ s \in Statement
    BY <1>1 DEF IInv, StackInv
  <2> QED BY <2>1 DEF IInv, StackInv, Work, WorkOf
<1>3. CASE Entries' = Entries
  BY <1>3 DEF Index!vars
<1>4. CASE WillInsert(s) /\ Entries' = Entries \cup {Entry(s.key, s.value)}
  <2>1. s.key \in Key /\ s.value \in RecordID
    BY <1>2, <1>4, StatementFields DEF WillInsert, IsReady
  <2>2. reply = NoReply
    <3>1. IsSearch(s)
      BY <1>4 DEF WillInsert, IsSearch
    <3> QED BY <3>1, <1>2 DEF KeyInv, CallInv, CallOK
  <2>3. PICK e : e = [key |-> s.key, value |-> s.value]
    OBVIOUS
  <2>4. Index!Insert(e)
    BY <1>4, <2>2, <2>3 DEF Index!Insert, Entry
  <2> QED BY <2>1, <2>3, <2>4 DEF Index!Next
<1> QED BY <1>1, <1>3, <1>4 DEF Adds

LEMMA NextIsIndexNext ==
  ASSUME UNIQUE_KEYS, IInv, IInv', KeyInv, AnswersInv, [Next]_vars
  PROVE  [Index!Next]_(Index!vars)
<1>1. contents' = contents /\ root_page_id' = root_page_id => Entries' = Entries
  BY SameEntries DEF EntriesSame
<1>2. CASE Step
  <2>1. CASE DoReturn
    BY <2>1, ReturnAnswers
  <2>2. ASSUME reply' = reply, UNCHANGED <<held, reply, inserts>>, DoStartNewTree \/ InsertIntoLeaf \/ DoSplitLeaf
        PROVE  [Index!Next]_(Index!vars)
    <3>1. stack # <<>>
      BY <2>2 DEF DoStartNewTree, InsertIntoLeaf, DoSplitLeaf, Executing
    <3>2. Adds(Head(stack))
      BY <2>2, DoStartNewTreeKeepsKeys, InsertIntoLeafKeepsKeys, DoSplitLeafKeepsKeys
    <3> QED BY <2>2, <3>1, <3>2, AddIsInsert
  <2>3. ASSUME UNCHANGED <<held, reply, inserts>>,
               GrowRoot \/ InsertIntoOldParent \/ DoSplitInternal \/ DoAdoptChildren
        PROVE  [Index!Next]_(Index!vars)
    <3>1. Entries' = Entries
      BY <2>3, GrowRootKeepsKeys, InsertIntoOldParentKeepsKeys, DoSplitInternalKeepsKeys, DoAdoptChildrenKeepsKeys
    <3> QED BY <2>3, <3>1 DEF Index!vars
  <2>4. ASSUME UNCHANGED <<held, reply, inserts>>, PassInternal \/ FetchFails \/ LookUpInLeaf \/ DoUnpinPage
        PROVE  [Index!Next]_(Index!vars)
    <3>1. contents' = contents /\ root_page_id' = root_page_id
      <4>1. PassInternal \/ LookUpInLeaf => contents' = contents /\ root_page_id' = root_page_id
        BY DEF PassInternal, LookUpInLeaf, FetchPage, Assign
      <4>2. FetchFails \/ DoUnpinPage => contents' = contents /\ root_page_id' = root_page_id
        BY DEF FetchFails, Crash, DoUnpinPage, pool
      <4> QED BY <2>4, <4>1, <4>2
    <3> QED BY <1>1, <2>4, <3>1 DEF Index!vars
  <2> QED BY <1>2, <2>1, <2>2, <2>3, <2>4 DEF Step
<1>3. ASSUME NEW key \in Key, GetValue(key) \/ \E value \in RecordID : Insert(key, value)
      PROVE  [Index!Next]_(Index!vars)
  <2>1. reply' = NoReply /\ contents' = contents /\ root_page_id' = root_page_id
    BY <1>3 DEF GetValue, Insert, pool
  <2> QED BY <1>1, <2>1 DEF Index!Next, Index!Call
<1>4. ASSUME HoldDataPage \/ ReleaseDataPage \/ UNCHANGED vars
      PROVE  [Index!Next]_(Index!vars)
  <2>1. reply' = reply /\ contents' = contents /\ root_page_id' = root_page_id
    BY <1>4 DEF HoldDataPage, ReleaseDataPage, vars, pool, NewPage, FetchPage, Assign
  <2> QED BY <1>1, <2>1 DEF Index!vars
<1> QED BY <1>2, <1>3, <1>4 DEF Next

LEMMA InitIsIndexInit == Init => Index!Init /\ AnswersInv
<1> SUFFICES ASSUME Init PROVE Index!Init /\ AnswersInv
  OBVIOUS
<1>1. Work = {} /\ reply = NoReply
  BY NothingToDo DEF Init
<1>2. Entries = {}
  <2>1. \A p \in PageId : contents[p].type = "invalid"
    <3> TAKE p \in PageId
    <3>1. contents[p] = BlankPage
      BY DEF Init
    <3> QED BY <3>1 DEF BlankPage
  <2> QED BY <2>1 DEF Entries
<1> QED BY <1>1, <1>2 DEF Index!Init, AnswersInv

-----------------------------------------------------------------------------
(* How many pages a call pins.                                             *)

LEMMA RangeFactsNext ==
  ASSUME IInv', NEW lev, NEW R, TreeInv(lev, R)'
  PROVE  /\ Nodes' = Leaves' \cup Internals'
         /\ \A p \in Leaves' : lev[p] = 0
         /\ \A p \in Internals' : First(p)' \in Kids(p)'
         /\ \A p \in Internals' : \A c \in Kids(p)' : c \in Nodes' /\ lev[c] + 1 = lev[p]
<1>1. \A p \in Internals' : First(p)' \in Kids(p)'
  BY DEF Kids, ChildrenOf
<1> QED BY <1>1 DEF TreeInv, RangesInv, Nodes

(* A node keeps its height: it is the number of steps from first child to  *)
(* first child down to a leaf.                                             *)
LEMMA LevelsStay ==
  ASSUME IInv, IInv', NodesStay, NEW lev, NEW R, TreeInv(lev, R),
         NEW lev2, NEW R2, TreeInv(lev2, R2)'
  PROVE  \A p \in Nodes : lev2[p] = lev[p]
<1> DEFINE T == {n \in Nat : \A p \in Nodes : lev[p] = n => lev2[p] = n}
<1>1. /\ Leaves \subseteq Leaves' /\ Internals \subseteq Internals'
      /\ \A p \in Internals : First(p)' = First(p)
  BY DEF NodesStay
<1>2. 0 \in T
  <2> SUFFICES ASSUME NEW p \in Nodes, lev[p] = 0 PROVE lev2[p] = 0
    OBVIOUS
  <2>1. p \in Leaves
    BY RangeFacts DEF IInv
  <2> QED BY <2>1, <1>1, RangeFactsNext
<1>3. ASSUME NEW n \in Nat, n \in T
      PROVE  n + 1 \in T
  <2> SUFFICES ASSUME NEW p \in Nodes, lev[p] = n + 1 PROVE lev2[p] = n + 1
    OBVIOUS
  <2>1. p \in Internals
    <3>1. p \in Leaves => lev[p] = 0
      BY RangeFacts DEF IInv
    <3> QED BY <3>1, RangeFacts DEF IInv
  <2>2. PICK c : c = First(p)
    OBVIOUS
  <2>3. c \in Nodes /\ lev[c] + 1 = lev[p] /\ lev[c] \in Nat
    BY <2>1, <2>2, RangeFacts DEF IInv
  <2>4. lev2[c] = n
    BY <1>3, <2>3
  <2>5. lev2[c] + 1 = lev2[p]
    BY <1>1, <2>1, <2>2, RangeFactsNext
  <2> QED BY <2>4, <2>5
<1>4. Nat \subseteq T
  <2> HIDE DEF T
  <2> QED BY <1>2, <1>3, NatInd
<1> QED BY <1>4, RangeFacts DEF IInv

LEMMA HeightIs ==
  ASSUME IInv, HasTree, NEW lev, NEW R, TreeInv(lev, R)
  PROVE  /\ Height = lev[root_page_id] + 1 /\ lev[root_page_id] \in Nat
         /\ \A p \in Nodes : lev[p] \in Nat /\ lev[p] <= lev[root_page_id]
<1>1. PICK L : L = lev[root_page_id]
  OBVIOUS
<1>2. /\ root_page_id \in Nodes /\ num_pages \in 0 .. MAX_PAGES
      /\ \A p \in Nodes : lev[p] \in Nat /\ lev[p] <= L
      /\ L < num_pages
  <2>1. root_page_id \in Nodes /\ num_pages \in 0 .. MAX_PAGES
    BY DEF IInv, PagesInv, HasTree
  <2>2. L < num_pages /\ \A p \in Nodes : lev[p] <= L
    BY <1>1 DEF TreeInv, RootInv
  <2> QED BY <2>1, <2>2, RangeFacts DEF IInv
<1>3. L \in Nat /\ L <= MAX_PAGES - 1 /\ MAX_PAGES \in Nat
  BY <1>1, <1>2, Sizes
<1>4. {n \in 0 .. MAX_PAGES - 1 : Level[n] # {}} = 0 .. L
  <2>1. \A n \in Nat : \A p \in Level[n] : p \in Nodes /\ lev[p] + n = L
    BY <1>1, LevelsOf DEF IInv
  <2>2. \A n \in Nat : n <= L => Level[n] # {}
    BY <1>1, LevelsOf DEF IInv
  <2>3. ASSUME NEW n \in 0 .. MAX_PAGES - 1, Level[n] # {}
        PROVE  n \in 0 .. L
    <3>1. n \in Nat
      BY <1>3
    <3>2. PICK p : p \in Level[n]
      BY <2>3
    <3>3. lev[p] + n = L /\ lev[p] \in Nat
      BY <3>1, <3>2, <2>1, <1>2
    <3> QED BY <3>1, <3>3, <1>3
  <2>4. ASSUME NEW n \in 0 .. L
        PROVE  n \in 0 .. MAX_PAGES - 1 /\ Level[n] # {}
    <3>1. n \in Nat /\ n <= L
      BY <1>3
    <3> QED BY <3>1, <2>2, <1>3
  <2> QED BY <2>3, <2>4
<1>5. Cardinality(0 .. L) = L + 1
  BY <1>3, FS_Interval
<1> QED BY <1>1, <1>2, <1>3, <1>4, <1>5 DEF Height

(* How many statements there can be on the stack.  InsertIntoParent waits  *)
(* for the two nodes of each level from the leaves to its page, and the    *)
(* answer is behind all of them; k more statements follow q.               *)
Climbs(q, k, lev, top) ==
  /\ Len(q) > 0 => k > 0 \/ q[Len(q)].do \notin {"UnpinPage", "SplitInternal"}
  /\ IsQuiet(q, 0) => Len(q) + k <= 2 * top + 2
  /\ \A i \in 1 .. Len(q) :
       /\ q[i].do = "SplitInternal" => Len(q) - i + k <= 2 * lev[q[i].page] + 1
       /\ q[i].do = "InsertIntoParent" =>
            /\ Len(q) - i + k <= 2 * lev[q[i].page] + 3
            /\ \A j \in 2 .. i - 1 : q[j].do = "AdoptChildren"

OwesPin(s) == s.do \in {"UnpinPage", "SplitLeaf", "SplitInternal"}

Owed(q) == {i \in 1 .. Len(q) : OwesPin(q[i])}

LEMMA Within ==
  ASSUME NEW a \in Int, NEW b \in Int, a <= b + 1, NEW S, S \subseteq a .. b
  PROVE  IsFiniteSet(S) /\ Cardinality(S) \in Nat /\ Cardinality(S) <= b - a + 1
<1>1. IsFiniteSet(a .. b) /\ Cardinality(a .. b) = IF a > b THEN 0 ELSE b - a + 1
  BY FS_Interval
<1>2. IsFiniteSet(S) /\ Cardinality(S) <= Cardinality(a .. b)
  BY <1>1, FS_Subset
<1>3. Cardinality(S) \in Nat
  BY <1>2, FS_CardinalityType
<1> QED BY <1>1, <1>2, <1>3

LEMMA FewOwe ==
  ASSUME NEW q \in Seq(Statement), Len(q) > 0, Shape(q), NEW lev, NEW top \in Nat,
         Climbs(q, 0, lev, top),
         \A i \in 1 .. Len(q) : q[i].do \in {"InsertIntoParent", "SplitInternal"} =>
           lev[q[i].page] \in Nat /\ lev[q[i].page] <= top
  PROVE  /\ Cardinality(Owed(q)) \in Nat /\ Cardinality(Owed(q)) <= 2 * top + 3
         /\ q[1].do # "UnpinPage" => Cardinality(Owed(q)) <= 2 * top + 2
<1>1. Len(q) \in Nat \ {0} /\ 1 \in 1 .. Len(q)
  BY LenProperties
<1>2. ASSUME NEW i \in 1 .. Len(q), q[i].do = "InsertIntoParent"
      PROVE  /\ Cardinality(Owed(q)) \in Nat /\ Cardinality(Owed(q)) <= 2 * top + 3
             /\ q[1].do # "UnpinPage" => Cardinality(Owed(q)) <= 2 * top + 2
  <2>1. /\ i + 2 <= Len(q) /\ IsQuiet(q, i)
        /\ \A j \in 1 .. i - 1 : q[j].do \in {"UnpinPage", "AdoptChildren"}
    BY <1>2 DEF Shape, ShapeAt
  <2>2. PICK l : l = lev[q[i].page]
    OBVIOUS
  <2>3. /\ Len(q) - i + 0 <= 2 * l + 3 /\ \A j \in 2 .. i - 1 : q[j].do = "AdoptChildren"
        /\ q[Len(q)].do \notin {"UnpinPage", "SplitInternal"}
    BY <1>1, <1>2, <2>2 DEF Climbs
  <2>4. l \in Nat /\ l <= top
    BY <1>2, <2>2
  <2>5. q[Len(q)].do = "Return"
    <3>1. Len(q) \in i + 1 .. Len(q)
      BY <1>1, <2>1
    <3> QED BY <3>1, <2>1, <2>3 DEF IsQuiet
  <2>6. ASSUME NEW j \in Owed(q), j # 1
        PROVE  j \in i + 1 .. Len(q) - 1
    <3>1. j \in 1 .. Len(q) /\ OwesPin(q[j])
      BY DEF Owed
    <3>2. j # i /\ j # Len(q)
      BY <3>1, <1>2, <2>5 DEF OwesPin
    <3>3. ~(j < i)
      <4>1. j < i => j \in 2 .. i - 1
        BY <3>1, <2>6
      <4> QED BY <4>1, <3>1, <2>3 DEF OwesPin
    <3> QED BY <3>1, <3>2, <3>3, <1>1
  <2>7. PICK S : S = i + 1 .. Len(q) - 1
    OBVIOUS
  <2>8. /\ IsFiniteSet(S) /\ Cardinality(S) \in Nat /\ Cardinality(S) <= 2 * top + 2
    <3>1. i + 1 \in Int /\ Len(q) - 1 \in Int /\ i + 1 <= (Len(q) - 1) + 1
      BY <1>1, <2>1
    <3>2. IsFiniteSet(S) /\ Cardinality(S) \in Nat /\ Cardinality(S) <= (Len(q) - 1) - (i + 1) + 1
      BY <3>1, <2>7, Within
    <3> QED BY <3>2, <1>1, <2>3, <2>4
  <2>9. /\ IsFiniteSet(S \cup {1}) /\ Cardinality(S \cup {1}) \in Nat
        /\ Cardinality(S \cup {1}) <= 2 * top + 3
    <3>1. IsFiniteSet(S \cup {1}) /\ Cardinality(S \cup {1}) = IF 1 \in S THEN Cardinality(S) ELSE Cardinality(S) + 1
      BY <2>8, FS_AddElement
    <3> QED BY <3>1, <2>8
  <2>10. Owed(q) \subseteq S \cup {1}
    BY <2>6, <2>7
  <2>11. Cardinality(Owed(q)) \in Nat /\ Cardinality(Owed(q)) <= Cardinality(S \cup {1})
    <3>1. IsFiniteSet(Owed(q)) /\ Cardinality(Owed(q)) <= Cardinality(S \cup {1})
      BY <2>9, <2>10, FS_Subset
    <3> QED BY <3>1, FS_CardinalityType
  <2>12. ASSUME q[1].do # "UnpinPage"
         PROVE  Cardinality(Owed(q)) <= 2 * top + 2
    <3>1. q[1].do \in {"InsertIntoParent", "AdoptChildren"}
      <4>1. CASE i = 1
        BY <4>1, <1>2
      <4>2. CASE i # 1
        <5>1. 1 \in 1 .. i - 1
          BY <4>2
        <5> QED BY <5>1, <2>1, <2>12
      <4> QED BY <4>1, <4>2
    <3>2. 1 \notin Owed(q)
      BY <3>1 DEF Owed, OwesPin
    <3>3. Owed(q) \subseteq S
      BY <2>10, <3>2
    <3>4. Cardinality(Owed(q)) <= Cardinality(S)
      BY <2>8, <3>3, FS_Subset
    <3> QED BY <3>4, <2>8, <2>11
  <2> QED BY <2>9, <2>11, <2>12
<1>3. ASSUME Len(q) <= 2 * top + 2
      PROVE  /\ Cardinality(Owed(q)) \in Nat /\ Cardinality(Owed(q)) <= 2 * top + 3
             /\ q[1].do # "UnpinPage" => Cardinality(Owed(q)) <= 2 * top + 2
  <2>1. 1 \in Int /\ 2 * top + 2 \in Int /\ 1 <= (2 * top + 2) + 1
    OBVIOUS
  <2>2. Owed(q) \subseteq 1 .. 2 * top + 2
    BY <1>1, <1>3 DEF Owed
  <2>3. Cardinality(Owed(q)) \in Nat /\ Cardinality(Owed(q)) <= (2 * top + 2) - 1 + 1
    BY <2>1, <2>2, Within
  <2> QED BY <2>3
<1>5. CASE \E i \in 1 .. Len(q) : q[i].do = "InsertIntoParent"
  BY <1>2, <1>5
<1>6. CASE q[1].do = "SplitInternal"
  <2>1. PICK l : l = lev[q[1].page]
    OBVIOUS
  <2>2. /\ Len(q) - 1 + 0 <= 2 * l + 1 /\ l \in Nat /\ l <= top
    BY <1>1, <1>6, <2>1 DEF Climbs
  <2>3. Len(q) <= 2 * top + 2
    BY <2>2, <1>1
  <2> QED BY <2>3, <1>3
<1>7. CASE IsQuiet(q, 0)
  <2>1. Len(q) + 0 <= 2 * top + 2
    BY <1>7 DEF Climbs
  <2> QED BY <2>1, <1>1, <1>3
<1>8. CASE \E i \in 1 .. Len(q) : q[i].do \in {"StartNewTree", "SplitLeaf", "Descend"}
  <2>1. PICK i \in 1 .. Len(q) : q[i].do \in {"StartNewTree", "SplitLeaf", "Descend"}
    BY <1>8
  <2>2. Len(q) = 1 \/ Len(q) = 2
    BY <2>1 DEF Shape, ShapeAt
  <2>3. Len(q) <= 2 * top + 2
    BY <2>2
  <2> QED BY <2>3, <1>3
<1>9. IsQuiet(q, 0) \/ \E i \in 1 .. Len(q) : q[i].do \notin {"UnpinPage", "Return"}
  BY DEF IsQuiet
<1>10. ASSUME NEW i \in 1 .. Len(q), q[i].do \notin {"UnpinPage", "Return"}
       PROVE  \/ \E j \in 1 .. Len(q) : q[j].do = "InsertIntoParent"
              \/ q[1].do = "SplitInternal"
              \/ q[i].do \in {"StartNewTree", "SplitLeaf", "Descend"}
  <2>1. q[i] \in Statement
    BY ElementOfSeq
  <2>2. q[i].do \in {"Descend", "StartNewTree", "SplitLeaf", "InsertIntoParent",
                     "SplitInternal", "AdoptChildren", "UnpinPage", "Return"}
    BY <2>1, StatementFields
  <2>3. ShapeAt(q, i)
    BY DEF Shape
  <2>4. q[i].do = "SplitInternal" => q[1].do = "SplitInternal"
    BY <2>3 DEF ShapeAt
  <2>5. q[i].do = "AdoptChildren" => i + 1 \in 1 .. Len(q) /\ q[i + 1].do = "InsertIntoParent"
    BY <2>3, <1>1 DEF ShapeAt
  <2> QED BY <1>10, <2>2, <2>4, <2>5
<1> QED BY <1>5, <1>6, <1>7, <1>8, <1>9, <1>10

(* A page the tree has pinned is owed by a statement.                      *)
LEMMA PinnedAreOwed ==
  ASSUME IInv, PinsAreExact
  PROVE  /\ IsFiniteSet(PinnedByTree) /\ Cardinality(PinnedByTree) \in Nat
         /\ Cardinality(PinnedByTree) <= Cardinality(Owed(stack))
<1>1. PICK q : q = stack
  OBVIOUS
<1>2. q \in Seq(Statement) /\ Len(q) \in Nat
  BY <1>1, LenProperties DEF IInv, StackInv
<1>3. PICK O : O = Owed(q)
  OBVIOUS
<1>4. O \subseteq 1 .. Len(q) /\ IsFiniteSet(O) /\ Cardinality(O) \in Nat
  <2>1. O \subseteq 1 .. Len(q) /\ 1 <= Len(q) + 1 /\ 1 \in Int /\ Len(q) \in Int
    BY <1>2, <1>3 DEF Owed
  <2>2. IsFiniteSet(O) /\ Cardinality(O) \in Nat
    BY <2>1, Within
  <2> QED BY <2>1, <2>2
<1>5. PICK f : f = [i \in O |-> q[i].page]
  OBVIOUS
<1>6. PICK T : T = {f[i] : i \in O}
  OBVIOUS
<1>7. f \in Surjection(O, T)
  BY <1>5, <1>6 DEF Surjection
<1>8. IsFiniteSet(T) /\ Cardinality(T) <= Cardinality(O)
  BY <1>4, <1>7, FS_Surjection
<1>9. ASSUME NEW p \in PinnedByTree
      PROVE  p \in T
  <2>1. p \in PageId /\ pins[p] > 0 /\ p \notin held
    BY DEF PinnedByTree
  <2>2. pins[p] = Count(q, p) + 0
    BY <1>1, <2>1 DEF PinsAreExact, One
  <2>3. Count(q, p) # 0
    <3>1. Count(q, p) \in Nat
      BY <1>2, CountType
    <3> QED BY <3>1, <2>1, <2>2
  <2>4. Owing(q, p) # {}
    BY <2>3, FS_EmptySet DEF Count
  <2>5. PICK i \in 1 .. Len(q) : Owes(q[i], p)
    BY <2>4 DEF Owing
  <2>6. i \in O /\ q[i].page = p
    BY <2>5, <1>3 DEF Owed, Owes, OwesPin
  <2> QED BY <2>6, <1>5, <1>6
<1>10. PinnedByTree \subseteq T
  BY <1>9
<1>11. IsFiniteSet(PinnedByTree) /\ Cardinality(PinnedByTree) <= Cardinality(T)
  BY <1>8, <1>10, FS_Subset
<1>12. Cardinality(PinnedByTree) \in Nat /\ Cardinality(T) \in Nat
  BY <1>8, <1>11, FS_CardinalityType
<1> QED BY <1>1, <1>3, <1>4, <1>8, <1>11, <1>12

(* The pool has two frames for each level and one more for the tree.       *)
EnoughFrames == HasTree => Cardinality(held) + 2 * Height + 1 <= POOL_SIZE

LimitInv ==
  HasTree => \A lev, R : TreeInv(lev, R) => Climbs(stack, 0, lev, lev[root_page_id])

PathInv == ~crashed /\ PinsAreExact /\ LimitInv

LEMMA PinsAreFew ==
  ASSUME IInv, KeyInv, PinsAreExact, LimitInv, HasTree
  PROVE  /\ Height \in Nat /\ Cardinality(PinnedByTree) \in Nat
         /\ Cardinality(PinnedByTree) <= 2 * Height + 1
         /\ stack # <<>> /\ stack[1].do # "UnpinPage" => Cardinality(PinnedByTree) <= 2 * Height
<1>1. PICK lev, R : TreeInv(lev, R)
  BY DEF KeyInv
<1>2. PICK q : q = stack
  OBVIOUS
<1>3. PICK top : top = lev[root_page_id]
  OBVIOUS
<1>4. Height = top + 1 /\ top \in Nat /\ \A p \in Nodes : lev[p] \in Nat /\ lev[p] <= top
  BY <1>1, <1>3, HeightIs
<1>5. /\ q \in Seq(Statement) /\ Shape(q) /\ Len(q) \in Nat /\ (q # <<>> => Len(q) > 0)
      /\ \A i \in 1 .. Len(q) : IsReady(q[i])
  BY <1>2, LenProperties, EmptySeq DEF IInv, StackInv
<1>6. Climbs(q, 0, lev, top)
  BY <1>1, <1>2, <1>3 DEF LimitInv
<1>7. \A i \in 1 .. Len(q) : q[i].do \in {"InsertIntoParent", "SplitInternal"} =>
        lev[q[i].page] \in Nat /\ lev[q[i].page] <= top
  BY <1>4, <1>5 DEF IsReady, Nodes
<1>8. /\ Cardinality(PinnedByTree) \in Nat
      /\ Cardinality(PinnedByTree) <= Cardinality(Owed(q))
  BY <1>2, PinnedAreOwed
<1>9. CASE q # <<>>
  <2>1. /\ Cardinality(Owed(q)) \in Nat /\ Cardinality(Owed(q)) <= 2 * top + 3
        /\ q[1].do # "UnpinPage" => Cardinality(Owed(q)) <= 2 * top + 2
    BY <1>4, <1>5, <1>6, <1>7, <1>9, FewOwe
  <2> QED BY <2>1, <1>2, <1>4, <1>8
<1>10. CASE q = <<>>
  <2>1. Owed(q) = {}
    BY <1>10 DEF Owed
  <2>2. Cardinality(Owed(q)) = 0
    BY <2>1, FS_EmptySet
  <2> QED BY <2>2, <1>2, <1>4, <1>8, <1>10
<1> QED BY <1>9, <1>10

(* So a statement that asks for a page gets it.                            *)
LEMMA HasRoomAtHead ==
  ASSUME IInv, KeyInv, PinsAreExact, LimitInv, HasTree, EnoughFrames,
         stack # <<>>, stack[1].do # "UnpinPage"
  PROVE  Pool!HasRoom /\ \A p : Pool!CanPin(p)
<1>1. /\ Height \in Nat /\ Cardinality(PinnedByTree) \in Nat
      /\ Cardinality(PinnedByTree) <= 2 * Height
  BY PinsAreFew
<1>2. IsFiniteSet(held) /\ Cardinality(held) \in Nat
  <2>1. held \subseteq 0 .. MAX_PAGES - 1 /\ MAX_PAGES \in Nat
    BY Sizes DEF IInv, PinsInv
  <2>2. IsFiniteSet(0 .. MAX_PAGES - 1)
    BY <2>1, FS_Interval
  <2> QED BY <2>1, <2>2, FS_Subset, FS_CardinalityType
<1>3. IsFiniteSet(PinnedByTree)
  BY PinnedAreOwed
<1>4. /\ IsFiniteSet(held \cup PinnedByTree)
      /\ Cardinality(held \cup PinnedByTree) <= Cardinality(held) + Cardinality(PinnedByTree)
      /\ Cardinality(held \cup PinnedByTree) \in Nat
  <2>1. /\ IsFiniteSet(held \cup PinnedByTree)
        /\ Cardinality(held \cup PinnedByTree) =
             Cardinality(held) + Cardinality(PinnedByTree) - Cardinality(held \cap PinnedByTree)
    BY <1>2, <1>3, FS_Union
  <2>2. IsFiniteSet(held \cap PinnedByTree)
    BY <1>2, FS_Subset
  <2>3. Cardinality(held \cap PinnedByTree) \in Nat /\ Cardinality(held \cup PinnedByTree) \in Nat
    BY <2>1, <2>2, FS_CardinalityType
  <2> QED BY <1>1, <1>2, <2>1, <2>3
<1>5. Pool!Pinned \subseteq held \cup PinnedByTree
  BY DEF Pool!Pinned, PinnedByTree, PageId
<1>6. IsFiniteSet(Pool!Pinned) /\ Cardinality(Pool!Pinned) <= Cardinality(held \cup PinnedByTree)
  BY <1>4, <1>5, FS_Subset
<1>7. Cardinality(Pool!Pinned) \in Nat
  BY <1>6, FS_CardinalityType
<1>8. Cardinality(held) + 2 * Height + 1 <= POOL_SIZE /\ POOL_SIZE \in Nat
  BY TreeAssumption DEF EnoughFrames
<1>9. Cardinality(Pool!Pinned) < POOL_SIZE
  BY <1>1, <1>2, <1>4, <1>6, <1>7, <1>8
<1>10. Pool!HasRoom
  BY <1>9 DEF Pool!HasRoom, Pool!Cardinality, Cardinality
<1> QED BY <1>10 DEF Pool!CanPin

Ends(q) == Len(q) > 0 => q[Len(q)].do \notin {"UnpinPage", "SplitInternal"}

(* The head is replaced by xs, with unpins and the answer behind it.       *)
LEMMA ClimbsOverRest ==
  ASSUME NEW q \in Seq(Statement), q # <<>>, Rest(q), Ends(q),
         NEW xs \in Seq(Statement), NEW k, k = Len(q) - 1, NEW lev, NEW top, Climbs(xs, k, lev, top),
         NEW r, r = xs \o Tail(q)
  PROVE  Climbs(r, 0, lev, top)
<1>1. /\ r \in Seq(Statement) /\ Len(r) = Len(xs) + k
      /\ Len(q) \in Nat \ {0} /\ Len(xs) \in Nat /\ k \in Nat
      /\ \A i \in 1 .. Len(xs) : r[i] = xs[i]
      /\ \A i \in Len(xs) + 1 .. Len(r) : r[i] = q[i - Len(xs) + 1]
  <2>1. /\ r \in Seq(Statement) /\ Len(r) = Len(xs) + Len(q) - 1
        /\ Len(q) \in Nat \ {0} /\ Len(xs) \in Nat
        /\ \A i \in 1 .. Len(xs) : r[i] = xs[i]
        /\ \A i \in Len(xs) + 1 .. Len(r) : r[i] = q[i - Len(xs) + 1]
    BY ThenProps
  <2> QED BY <2>1
<1>2. \A i \in Len(xs) + 1 .. Len(r) : r[i].do \in {"UnpinPage", "Return"}
  <2> TAKE i \in Len(xs) + 1 .. Len(r)
  <2>1. i - Len(xs) + 1 \in 2 .. Len(q)
    BY <1>1
  <2> QED BY <2>1, <1>1 DEF Rest
<1>3. Len(r) > 0 => r[Len(r)].do \notin {"UnpinPage", "SplitInternal"}
  <2>1. CASE k > 0
    <3>1. Len(r) \in Len(xs) + 1 .. Len(r) /\ Len(r) - Len(xs) + 1 = Len(q) /\ Len(q) > 0
      BY <2>1, <1>1
    <3>2. r[Len(r)] = q[Len(q)]
      BY <3>1, <1>1
    <3> QED BY <3>1, <3>2 DEF Ends
  <2>2. CASE k = 0
    <3>1. Len(r) > 0 => Len(r) = Len(xs) /\ Len(xs) \in 1 .. Len(xs)
      BY <2>2, <1>1
    <3> QED BY <2>2, <3>1, <1>1 DEF Climbs
  <2> QED BY <2>1, <2>2, <1>1
<1>4. IsQuiet(r, 0) => Len(r) + 0 <= 2 * top + 2
  <2> SUFFICES ASSUME IsQuiet(r, 0) PROVE Len(r) + 0 <= 2 * top + 2
    OBVIOUS
  <2>1. IsQuiet(xs, 0)
    BY <1>1 DEF IsQuiet
  <2>2. Len(xs) + k <= 2 * top + 2
    BY <2>1 DEF Climbs
  <2>3. Len(r) + 0 = Len(xs) + k
    BY <1>1
  <2> QED BY <2>2, <2>3
<1>5. ASSUME NEW i \in 1 .. Len(r), r[i].do = "SplitInternal" \/ r[i].do = "InsertIntoParent"
      PROVE  /\ i \in 1 .. Len(xs) /\ r[i] = xs[i] /\ Len(r) - i + 0 = Len(xs) - i + k
             /\ \A j \in 2 .. i - 1 : r[j] = xs[j]
  <2>1. i \in 1 .. Len(xs)
    <3>1. i \in 1 .. Len(xs) \/ i \in Len(xs) + 1 .. Len(r)
      BY <1>1
    <3> QED BY <3>1, <1>2, <1>5
  <2>2. \A j \in 2 .. i - 1 : j \in 1 .. Len(xs)
    BY <2>1, <1>1
  <2> QED BY <2>1, <2>2, <1>1
<1>6. ASSUME NEW i \in 1 .. Len(r)
      PROVE  /\ r[i].do = "SplitInternal" => Len(r) - i + 0 <= 2 * lev[r[i].page] + 1
             /\ r[i].do = "InsertIntoParent" =>
                  /\ Len(r) - i + 0 <= 2 * lev[r[i].page] + 3
                  /\ \A j \in 2 .. i - 1 : r[j].do = "AdoptChildren"
  <2>1. ASSUME r[i].do = "SplitInternal"
        PROVE  Len(r) - i + 0 <= 2 * lev[r[i].page] + 1
    <3>1. i \in 1 .. Len(xs) /\ r[i] = xs[i] /\ Len(r) - i + 0 = Len(xs) - i + k
      BY <2>1, <1>5
    <3> QED BY <2>1, <3>1 DEF Climbs
  <2>2. ASSUME r[i].do = "InsertIntoParent"
        PROVE  /\ Len(r) - i + 0 <= 2 * lev[r[i].page] + 3
               /\ \A j \in 2 .. i - 1 : r[j].do = "AdoptChildren"
    <3>1. /\ i \in 1 .. Len(xs) /\ r[i] = xs[i] /\ Len(r) - i + 0 = Len(xs) - i + k
          /\ \A j \in 2 .. i - 1 : r[j] = xs[j]
      BY <2>2, <1>5
    <3> QED BY <2>2, <3>1 DEF Climbs
  <2> QED BY <2>1, <2>2
<1> QED BY <1>3, <1>4, <1>6 DEF Climbs

(* The head is dropped.                                                    *)
LEMMA ClimbsPop ==
  ASSUME NEW q \in Seq(Statement), q # <<>>, q[1].do \in {"UnpinPage", "Return"},
         NEW lev, NEW top \in Nat, Climbs(q, 0, lev, top), NEW r, r = <<>> \o Tail(q)
  PROVE  Climbs(r, 0, lev, top)
<1>1. /\ Len(r) = Len(q) - 1 /\ Len(q) \in Nat \ {0}
      /\ \A i \in 1 .. Len(r) : r[i] = q[i + 1]
  <2>1. <<>> \in Seq(Statement) /\ Len(<<>>) = 0
    OBVIOUS
  <2>2. /\ Len(r) = Len(<<>>) + Len(q) - 1 /\ Len(q) \in Nat \ {0}
        /\ \A i \in Len(<<>>) + 1 .. Len(r) : r[i] = q[i - Len(<<>>) + 1]
    BY <2>1, ThenProps
  <2> QED BY <2>1, <2>2
<1>2. Len(r) > 0 => r[Len(r)].do \notin {"UnpinPage", "SplitInternal"}
  <2> SUFFICES ASSUME Len(r) > 0 PROVE r[Len(r)].do \notin {"UnpinPage", "SplitInternal"}
    OBVIOUS
  <2>1. Len(r) \in 1 .. Len(r) /\ Len(r) + 1 = Len(q) /\ Len(q) > 0
    BY <1>1
  <2>2. r[Len(r)] = q[Len(q)]
    BY <2>1, <1>1
  <2> QED BY <2>1, <2>2 DEF Climbs
<1>3. IsQuiet(r, 0) => Len(r) + 0 <= 2 * top + 2
  <2> SUFFICES ASSUME IsQuiet(r, 0) PROVE Len(r) + 0 <= 2 * top + 2
    OBVIOUS
  <2>1. ASSUME NEW j \in 0 + 1 .. Len(q)
        PROVE  q[j].do \in {"UnpinPage", "Return"}
    <3>1. j = 1 \/ (j - 1 \in 0 + 1 .. Len(r) /\ j - 1 \in 1 .. Len(r) /\ (j - 1) + 1 = j)
      BY <1>1
    <3> QED BY <3>1, <1>1 DEF IsQuiet
  <2>2. Len(q) + 0 <= 2 * top + 2
    BY <2>1 DEF IsQuiet, Climbs
  <2> QED BY <1>1, <2>2
<1>4. ASSUME NEW i \in 1 .. Len(r)
      PROVE  /\ r[i].do = "SplitInternal" => Len(r) - i + 0 <= 2 * lev[r[i].page] + 1
             /\ r[i].do = "InsertIntoParent" =>
                  /\ Len(r) - i + 0 <= 2 * lev[r[i].page] + 3
                  /\ \A j \in 2 .. i - 1 : r[j].do = "AdoptChildren"
  <2>1. i + 1 \in 1 .. Len(q) /\ r[i] = q[i + 1] /\ Len(r) - i + 0 = Len(q) - (i + 1) + 0
    BY <1>1
  <2>2. \A j \in 2 .. i - 1 : j + 1 \in 2 .. (i + 1) - 1 /\ r[j] = q[j + 1]
    BY <1>1
  <2>3. /\ q[i + 1].do = "SplitInternal" => Len(q) - (i + 1) + 0 <= 2 * lev[q[i + 1].page] + 1
        /\ q[i + 1].do = "InsertIntoParent" =>
             /\ Len(q) - (i + 1) + 0 <= 2 * lev[q[i + 1].page] + 3
             /\ \A j \in 2 .. (i + 1) - 1 : q[j].do = "AdoptChildren"
    BY <2>1 DEF Climbs
  <2> QED BY <2>1, <2>2, <2>3
<1> QED BY <1>2, <1>3, <1>4 DEF Climbs

(* A child is told of its parent while InsertIntoParent waits.             *)
LEMMA ClimbsAdopt ==
  ASSUME NEW q \in Seq(Statement), q # <<>>, Shape(q), q[1].do = "AdoptChildren",
         NEW lev, NEW top, Climbs(q, 0, lev, top),
         NEW xs \in Seq(Statement), xs # <<>>, NEW r, r = xs \o Tail(q),
         \A i \in 1 .. Len(xs) : xs[i].do = IF i = 1 THEN "UnpinPage" ELSE "AdoptChildren"
  PROVE  Climbs(r, 0, lev, top)
<1>1. /\ Len(r) = Len(xs) + Len(q) - 1
      /\ Len(q) \in Nat \ {0} /\ Len(xs) \in Nat \ {0}
      /\ \A i \in 1 .. Len(xs) : r[i] = xs[i]
      /\ \A i \in Len(xs) + 1 .. Len(r) : r[i] = q[i - Len(xs) + 1]
  BY ThenProps, EmptySeq
<1>2. PICK n : n = Len(xs) - 1
  OBVIOUS
<1>3. /\ n \in Nat /\ Len(r) = Len(q) + n
      /\ \A i \in n + 2 .. Len(r) : r[i] = q[i - n]
      /\ \A i \in 2 .. n + 1 : r[i].do = "AdoptChildren"
      /\ r[1].do = "UnpinPage"
  <2>1. \A i \in n + 2 .. Len(r) : i \in Len(xs) + 1 .. Len(r) /\ i - Len(xs) + 1 = i - n
    BY <1>1, <1>2
  <2>2. 1 \in 1 .. Len(xs) /\ \A i \in 2 .. n + 1 : i \in 1 .. Len(xs) /\ i # 1
    BY <1>1, <1>2
  <2> QED BY <2>1, <2>2, <1>1, <1>2
<1>4. 2 \in 1 .. Len(q) /\ q[2].do = "InsertIntoParent" /\ IsQuiet(q, 2)
  <2>1. 1 \in 1 .. Len(q)
    BY <1>1
  <2>2. 1 + 1 <= Len(q) /\ q[1 + 1].do = "InsertIntoParent"
    BY <2>1 DEF Shape, ShapeAt
  <2>3. 2 \in 1 .. Len(q) /\ q[2].do = "InsertIntoParent"
    BY <2>2, <1>1
  <2> QED BY <2>3 DEF Shape, ShapeAt
<1>5. r[Len(r)].do \notin {"UnpinPage", "SplitInternal"}
  <2>1. Len(r) \in n + 2 .. Len(r) /\ Len(r) - n = Len(q) /\ Len(q) > 0
    BY <1>1, <1>3, <1>4
  <2>2. r[Len(r)] = q[Len(q)]
    BY <2>1, <1>3
  <2> QED BY <2>1, <2>2 DEF Climbs
<1>6. ~IsQuiet(r, 0)
  <2>1. n + 2 \in n + 2 .. Len(r) /\ n + 2 \in 0 + 1 .. Len(r) /\ (n + 2) - n = 2
    BY <1>1, <1>3, <1>4
  <2>2. r[n + 2] = q[2]
    BY <2>1, <1>3
  <2> QED BY <2>1, <2>2, <1>4 DEF IsQuiet
<1>7. ASSUME NEW i \in 1 .. Len(r), r[i].do = "SplitInternal" \/ r[i].do = "InsertIntoParent"
      PROVE  i = n + 2 /\ r[i] = q[2] /\ Len(r) - i + 0 = Len(q) - 2 + 0
  <2>1. i \in n + 2 .. Len(r)
    <3>1. i = 1 \/ i \in 2 .. n + 1 \/ i \in n + 2 .. Len(r)
      BY <1>3
    <3> QED BY <3>1, <1>3, <1>7
  <2>2. i = n + 2
    <3>1. i # n + 2 => i - n \in 2 + 1 .. Len(q)
      BY <2>1, <1>1, <1>3
    <3>2. r[i] = q[i - n]
      BY <2>1, <1>3
    <3> QED BY <3>1, <3>2, <1>4, <1>7 DEF IsQuiet
  <2>3. i - n = 2 /\ Len(r) - i + 0 = Len(q) - 2 + 0
    BY <2>2, <1>1, <1>3
  <2> QED BY <2>1, <2>2, <2>3, <1>3
<1>8. Len(q) - 2 + 0 <= 2 * lev[q[2].page] + 3
  BY <1>4 DEF Climbs
<1>9. ASSUME NEW i \in 1 .. Len(r)
      PROVE  /\ r[i].do = "SplitInternal" => Len(r) - i + 0 <= 2 * lev[r[i].page] + 1
             /\ r[i].do = "InsertIntoParent" =>
                  /\ Len(r) - i + 0 <= 2 * lev[r[i].page] + 3
                  /\ \A j \in 2 .. i - 1 : r[j].do = "AdoptChildren"
  <2>1. r[i].do # "SplitInternal"
    BY <1>4, <1>7
  <2>2. ASSUME r[i].do = "InsertIntoParent"
        PROVE  /\ Len(r) - i + 0 <= 2 * lev[r[i].page] + 3
               /\ \A j \in 2 .. i - 1 : r[j].do = "AdoptChildren"
    <3>1. i = n + 2 /\ r[i] = q[2] /\ Len(r) - i + 0 = Len(q) - 2 + 0
      BY <2>2, <1>7
    <3>2. \A j \in 2 .. i - 1 : j \in 2 .. n + 1
      BY <3>1, <1>3
    <3> QED BY <3>1, <3>2, <1>3, <1>8
  <2> QED BY <2>1, <2>2
<1> QED BY <1>5, <1>6, <1>9 DEF Climbs

(* At most two statements, none of them on its way up.                     *)
LEMMA ClimbsNot ==
  ASSUME NEW q \in Seq(Statement), Len(q) <= 2, Ends(q), NEW lev, NEW top \in Nat,
         \A i \in 1 .. Len(q) : q[i].do \notin {"InsertIntoParent", "SplitInternal"}
  PROVE  Climbs(q, 0, lev, top)
<1>1. Len(q) \in Nat /\ Len(q) + 0 <= 2 * top + 2
  BY LenProperties
<1> QED BY <1>1 DEF Climbs, Ends

LEMMA TopNext ==
  ASSUME IInv', HasTree', NEW lev, NEW R, TreeInv(lev, R)'
  PROVE  /\ lev \in [PageId -> Nat] /\ root_page_id' \in PageId /\ lev[root_page_id'] \in Nat
<1>1. root_page_id' \in Nodes'
  BY DEF IInv, PagesInv, HasTree
<1>2. Nodes' \subseteq PageId
  BY KindsSame
<1>3. lev \in [PageId -> Nat]
  BY PageIdSame DEF TreeInv, RangesInv
<1> QED BY <1>1, <1>2, <1>3

(* A stack of at most two statements, none of them on its way up.          *)
IsShort(q) ==
  /\ Len(q) <= 2
  /\ Ends(q)
  /\ \A i \in 1 .. Len(q) : q[i].do \notin {"InsertIntoParent", "SplitInternal"}

LEMMA ShortLimit ==
  ASSUME IInv', NEW q, q = stack', IsShort(q)
  PROVE  LimitInv'
<1> SUFFICES ASSUME HasTree', NEW lev, NEW R, TreeInv(lev, R)'
             PROVE  Climbs(stack', 0, lev, lev[root_page_id'])
  BY DEF LimitInv
<1>1. q \in Seq(Statement)
  <2>1. stack' \in Seq(Statement')
    BY DEF IInv, StackInv
  <2>2. Statement' = Statement
    BY PageIdSame DEF Statement, Answer
  <2> QED BY <2>1, <2>2
<1>2. lev[root_page_id'] \in Nat
  BY TopNext
<1>3. PICK top : top = lev[root_page_id']
  OBVIOUS
<1>4. Climbs(q, 0, lev, top)
  BY <1>1, <1>2, <1>3, ClimbsNot DEF IsShort
<1> QED BY <1>3, <1>4

LEMMA ClimbsSame ==
  ASSUME NEW q, NEW k, NEW lev, NEW top, Climbs(q, k, lev, top), NEW lev2,
         \A i \in 1 .. Len(q) : q[i].do \in {"InsertIntoParent", "SplitInternal"} =>
           lev2[q[i].page] = lev[q[i].page]
  PROVE  Climbs(q, k, lev2, top)
<1>1. ASSUME NEW i \in 1 .. Len(q)
      PROVE  /\ q[i].do = "SplitInternal" => Len(q) - i + k <= 2 * lev2[q[i].page] + 1
             /\ q[i].do = "InsertIntoParent" =>
                  /\ Len(q) - i + k <= 2 * lev2[q[i].page] + 3
                  /\ \A j \in 2 .. i - 1 : q[j].do = "AdoptChildren"
  BY DEF Climbs
<1> QED BY <1>1 DEF Climbs

(* What is known of the heights of the nodes there were before a step.     *)
KnowsLevels(lev) ==
  /\ Climbs(stack, 0, lev, lev[root_page_id]) /\ lev[root_page_id] \in Nat
  /\ \A p \in Nodes : lev[p] \in Nat /\ lev[p] <= lev[root_page_id]
  /\ \A s \in Work : s.do = "InsertIntoParent" => lev[s.new] = lev[s.page]
  /\ \A p \in Internals : \A c \in Kids(p) : c \in Nodes /\ lev[c] + 1 = lev[p]

LEMMA LevelsKnown ==
  ASSUME IInv, IInv', KeyInv, LimitInv, HasTree, NodesStay,
         NEW lev2, NEW R2, TreeInv(lev2, R2)'
  PROVE  KnowsLevels(lev2)
<1>1. PICK lev, R : TreeInv(lev, R)
  BY DEF KeyInv
<1>2. \A p \in Nodes : lev2[p] = lev[p]
  BY <1>1, LevelsStay
<1>3. /\ lev[root_page_id] \in Nat /\ \A p \in Nodes : lev[p] \in Nat /\ lev[p] <= lev[root_page_id]
  BY <1>1, HeightIs
<1>4. root_page_id \in Nodes
  BY DEF IInv, PagesInv, HasTree
<1>5. PICK q : q = stack
  OBVIOUS
<1>6. \A i \in 1 .. Len(q) : IsReady(q[i])
  BY <1>5 DEF IInv, StackInv
<1>7. \A i \in 1 .. Len(q) : q[i].do \in {"InsertIntoParent", "SplitInternal"} =>
        q[i].page \in Nodes
  BY <1>6 DEF IsReady, Nodes
<1>8. PICK top : top = lev[root_page_id]
  OBVIOUS
<1>9. Climbs(q, 0, lev, top)
  BY <1>1, <1>5, <1>8 DEF LimitInv
<1>10. Climbs(q, 0, lev2, top) /\ top = lev2[root_page_id]
  <2>1. \A i \in 1 .. Len(q) : q[i].do \in {"InsertIntoParent", "SplitInternal"} =>
          lev2[q[i].page] = lev[q[i].page]
    BY <1>2, <1>7
  <2>2. Climbs(q, 0, lev2, top)
    BY <1>9, <2>1, ClimbsSame
  <2> QED BY <2>2, <1>2, <1>4, <1>8
<1>11. ASSUME NEW s \in Work, s.do = "InsertIntoParent"
       PROVE  lev2[s.new] = lev2[s.page]
  <2>1. PICK i \in 1 .. Len(q) : s = q[i]
    BY <1>5 DEF Work, WorkOf
  <2>2. s.page \in Nodes /\ s.new \in Nodes
    BY <1>6, <1>11, <2>1 DEF IsReady
  <2>3. lev[s.new] = lev[s.page]
    BY <1>1, <1>11 DEF TreeInv, RootInv
  <2> QED BY <2>2, <2>3, <1>2
<1>12. ASSUME NEW p \in Internals, NEW c \in Kids(p)
       PROVE  c \in Nodes /\ lev2[c] + 1 = lev2[p]
  <2>1. c \in Nodes /\ lev[c] + 1 = lev[p]
    BY <1>1, RangeFacts DEF IInv
  <2> QED BY <2>1, <1>2 DEF Nodes
<1> QED BY <1>2, <1>3, <1>4, <1>5, <1>10, <1>11, <1>12 DEF KnowsLevels

LEMMA LimitFollows ==
  ASSUME IInv, IInv', KeyInv, LimitInv, HasTree, NodesStay,
         \A lev, R : KnowsLevels(lev) /\ TreeInv(lev, R)' => Climbs(stack', 0, lev, lev[root_page_id'])
  PROVE  LimitInv'
<1> SUFFICES ASSUME HasTree', NEW lev, NEW R, TreeInv(lev, R)'
             PROVE  Climbs(stack', 0, lev, lev[root_page_id'])
  BY DEF LimitInv
<1>1. KnowsLevels(lev)
  BY LevelsKnown
<1> QED BY <1>1

LEMMA FourOnStack ==
  ASSUME NEW old, NEW key, NEW new, NEW r
  PROVE  PassUp(old, key, new) \o <<r>> =
           <<InsertIntoParent(old, key, new), UnpinPage(old, TRUE), UnpinPage(new, TRUE), r>>
<1>1. PICK b, c, d : /\ b = InsertIntoParent(old, key, new)
                     /\ c = UnpinPage(old, TRUE) /\ d = UnpinPage(new, TRUE)
  OBVIOUS
<1>2. PICK S : S = {b, c, d, r}
  OBVIOUS
<1>3. b \in S /\ c \in S /\ d \in S /\ r \in S
  BY <1>2
<1>4. <<b, c, d>> \o <<r>> = <<b, c, d, r>>
  BY <1>3, ThreeAndOne
<1> QED BY <1>1, <1>4 DEF PassUp

LEMMA FourBelowAdopt ==
  ASSUME NEW old, NEW key, NEW new, NEW a
  PROVE  <<a>> \o PassUp(old, key, new) =
           <<a, InsertIntoParent(old, key, new), UnpinPage(old, TRUE), UnpinPage(new, TRUE)>>
<1>1. PICK b, c, d : /\ b = InsertIntoParent(old, key, new)
                     /\ c = UnpinPage(old, TRUE) /\ d = UnpinPage(new, TRUE)
  OBVIOUS
<1>2. PICK S : S = {a, b, c, d}
  OBVIOUS
<1>3. a \in S /\ b \in S /\ c \in S /\ d \in S
  BY <1>2
<1>4. <<a>> \o <<b, c, d>> = <<a, b, c, d>>
  BY <1>3, OneAndThree
<1> QED BY <1>1, <1>4 DEF PassUp

LEMMA WiderSeq ==
  ASSUME NEW S, NEW q \in Seq(S), NEW T, S \subseteq T
  PROVE  q \in Seq(T)
OBVIOUS

LEMMA StatementSame ==
  Statement' = Statement
BY PageIdSame DEF Statement, Answer

(* What is pushed on the stack is statements.                              *)
LEMMA Pushed ==
  ASSUME IInv', stack \in Seq(Statement), stack # <<>>, NEW S, NEW xs \in Seq(S), Then(xs)
  PROVE  xs \in Seq(Statement)
<1>1. PICK q, r : q = stack /\ r = stack'
  OBVIOUS
<1>2. r \in Seq(Statement)
  <2>1. stack' \in Seq(Statement')
    BY DEF IInv, StackInv
  <2> QED BY <1>1, <2>1, StatementSame
<1>3. PICK T : T = S \cup Statement
  OBVIOUS
<1>4. xs \in Seq(T) /\ q \in Seq(T)
  <2>1. S \subseteq T /\ Statement \subseteq T
    BY <1>3
  <2> QED BY <1>1, <2>1, WiderSeq
<1>5. q # <<>> /\ r = xs \o Tail(q)
  BY <1>1 DEF Then
<1>6. /\ Len(r) = Len(xs) + Len(q) - 1
      /\ Len(q) \in Nat \ {0} /\ Len(xs) \in Nat
      /\ \A i \in 1 .. Len(xs) : r[i] = xs[i]
  BY <1>4, <1>5, ThenProps
<1>7. ASSUME NEW i \in 1 .. Len(xs)
      PROVE  xs[i] \in Statement
  <2>1. i \in 1 .. Len(r) /\ r[i] = xs[i]
    BY <1>6
  <2> QED BY <1>2, <2>1, ElementOfSeq
<1> QED BY <1>7

LEMMA OnlyThen ==
  ASSUME IInv', stack \in Seq(Statement), Len(stack) = 1, NEW S, NEW xs \in Seq(S), Then(xs)
  PROVE  stack' = xs /\ xs \in Seq(Statement)
<1>1. stack # <<>>
  BY EmptySeq
<1>2. xs \in Seq(Statement)
  BY <1>1, Pushed
<1> QED BY <1>2, SingleThen

(* A step of the search, or of an insert that splits nothing.              *)
Replies(a, b) ==
  /\ a.do = "UnpinPage" /\ b.do \in {"Descend", "SplitLeaf", "Return"}
  /\ Then(<<a, b>>) \/ Then(<<b>>)

LEMMA ShortThen ==
  ASSUME IInv', stack \in Seq(Statement), Len(stack) = 1, NEW a, NEW b, Replies(a, b)
  PROVE  LimitInv'
<1>1. PICK S : S = {a, b}
  OBVIOUS
<1>2. CASE Then(<<a, b>>)
  <2>1. PICK xs : xs = <<a, b>>
    OBVIOUS
  <2>2. xs \in Seq(S) /\ Len(xs) = 2 /\ xs[1] = a /\ xs[2] = b
    BY <1>1, <2>1
  <2>3. Then(xs)
    BY <1>2, <2>1
  <2>4. xs = stack'
    BY <2>2, <2>3, OnlyThen
  <2>5. \A i \in 1 .. Len(xs) : xs[i].do \notin {"InsertIntoParent", "SplitInternal"}
    <3>1. \A i \in 1 .. Len(xs) : i = 1 \/ i = 2
      BY <2>2
    <3> QED BY <3>1, <2>2 DEF Replies
  <2>6. Ends(xs)
    BY <2>2 DEF Ends, Replies
  <2>7. Len(xs) <= 2
    BY <2>2
  <2>8. IsShort(xs)
    BY <2>5, <2>6, <2>7 DEF IsShort
  <2> QED BY <2>4, <2>8, ShortLimit
<1>3. CASE Then(<<b>>)
  <2>1. PICK xs : xs = <<b>>
    OBVIOUS
  <2>2. xs \in Seq(S) /\ Len(xs) = 1 /\ xs[1] = b
    BY <1>1, <2>1
  <2>3. Then(xs)
    BY <1>3, <2>1
  <2>4. xs = stack'
    BY <2>2, <2>3, OnlyThen
  <2>5. \A i \in 1 .. Len(xs) : xs[i].do \notin {"InsertIntoParent", "SplitInternal"}
    <3>1. \A i \in 1 .. Len(xs) : i = 1
      BY <2>2
    <3> QED BY <3>1, <2>2 DEF Replies
  <2>6. Ends(xs)
    BY <2>2 DEF Ends, Replies
  <2>7. Len(xs) <= 2
    BY <2>2
  <2>8. IsShort(xs)
    BY <2>5, <2>6, <2>7 DEF IsShort
  <2> QED BY <2>4, <2>8, ShortLimit
<1> QED BY <1>2, <1>3 DEF Replies

LEMMA SearchLimit ==
  ASSUME IInv, IInv', PassInternal \/ LookUpInLeaf \/ InsertIntoLeaf
  PROVE  LimitInv' /\ crashed' = crashed
<1>1. Executing("Descend")
  BY DEF PassInternal, LookUpInLeaf, InsertIntoLeaf
<1>2. stack \in Seq(Statement) /\ Len(stack) = 1
  BY <1>1, DescendHead
<1>3. PICK u : u = UnpinPage(Head(stack).page, FALSE)
  OBVIOUS
<1>4. u.do = "UnpinPage"
  BY <1>3 DEF UnpinPage
<1>5. CASE PassInternal
  <2>1. PICK d : d = Descend(ChildFor(contents[Head(stack).page], Head(stack).key),
                             Head(stack).key, Head(stack).op, Head(stack).value)
    OBVIOUS
  <2>2. Then(<<u, d>>) /\ crashed' = crashed
    BY <1>3, <1>5, <2>1 DEF PassInternal, FetchPage
  <2>3. d.do = "Descend"
    BY <2>1 DEF Descend
  <2>4. Replies(u, d)
    BY <1>4, <2>2, <2>3 DEF Replies
  <2> QED BY <1>2, <2>2, <2>4, ShortThen
<1>6. CASE LookUpInLeaf
  <2>1. PICK hit : hit = LeafLookup(contents[Head(stack).page], Head(stack).key)
    OBVIOUS
  <2>2. PICK d : d = Return(IF hit = 0 THEN Missing(Head(stack).key)
                            ELSE Found(Entry(Head(stack).key,
                                             contents[Head(stack).page].array[hit].value)))
    OBVIOUS
  <2>3. Then(<<u, d>>) /\ crashed' = crashed
    BY <1>3, <1>6, <2>1, <2>2 DEF LookUpInLeaf, FetchPage
  <2>4. d.do = "Return"
    BY <2>2 DEF Return
  <2>5. Replies(u, d)
    BY <1>4, <2>3, <2>4 DEF Replies
  <2> QED BY <1>2, <2>3, <2>5, ShortThen
<1>7. CASE InsertIntoLeaf
  <2>1. PICK v : v = UnpinPage(Head(stack).page, TRUE)
    OBVIOUS
  <2>2. PICK d : d = Return(Inserted(Head(stack).key, Head(stack).value, TRUE))
    OBVIOUS
  <2>3. PICK s : s = SplitLeaf(Head(stack).page, Head(stack).key, Head(stack).value)
    OBVIOUS
  <2>4. crashed' = crashed /\ (Then(<<v, d>>) \/ Then(<<s>>))
    BY <1>7, <2>1, <2>2, <2>3 DEF InsertIntoLeaf, FetchPage
  <2>5. v.do = "UnpinPage" /\ d.do = "Return" /\ s.do = "SplitLeaf"
    BY <2>1, <2>2, <2>3 DEF UnpinPage, Return, SplitLeaf
  <2>6. Replies(v, d) \/ Replies(v, s)
    BY <2>4, <2>5 DEF Replies
  <2> QED BY <1>2, <2>4, <2>6, ShortThen
<1> QED BY <1>5, <1>6, <1>7

LEMMA StartLimit ==
  ASSUME IInv, IInv', DoStartNewTree
  PROVE  LimitInv' /\ crashed' = crashed
<1>1. Executing("StartNewTree")
  BY DEF DoStartNewTree
<1>2. stack \in Seq(Statement) /\ Len(stack) = 1
  <2>1. PICK q : q = stack
    OBVIOUS
  <2>2. q \in Seq(Statement) /\ Len(q) \in Nat \ {0} /\ q[1].do = "StartNewTree" /\ Shape(q)
    BY <1>1, <2>1, HeadProps DEF IInv, StackInv
  <2> QED BY <2>1, <2>2, ShapeOfHead
<1>3. PICK u, d : /\ u = UnpinPage(num_pages, TRUE)
                  /\ d = Return(Inserted(Head(stack).key, Head(stack).value, TRUE))
  OBVIOUS
<1>4. crashed' = crashed /\ (Then(<<u, d>>) \/ Then(<<d>>))
  BY <1>3 DEF DoStartNewTree, NewPage
<1>5. u.do = "UnpinPage" /\ d.do = "Return"
  BY <1>3 DEF UnpinPage, Return
<1>6. Replies(u, d)
  BY <1>4, <1>5 DEF Replies
<1> QED BY <1>2, <1>4, <1>6, ShortThen

LEMMA SplitLeafLimit ==
  ASSUME IInv, IInv', DoSplitLeaf
  PROVE  LimitInv' /\ crashed' = crashed
<1>1. Executing("SplitLeaf")
  BY DEF DoSplitLeaf
<1>2. stack \in Seq(Statement) /\ Len(stack) = 1 /\ Head(stack).page \in PageId
  <2>1. PICK q : q = stack
    OBVIOUS
  <2>2. /\ q \in Seq(Statement) /\ Len(q) \in Nat \ {0} /\ q[1].do = "SplitLeaf" /\ Shape(q)
        /\ q[1] \in Statement /\ Head(q) = q[1]
    BY <1>1, <2>1, HeadProps DEF IInv, StackInv
  <2>3. Len(q) = 1
    BY <2>2, ShapeOfHead
  <2> QED BY <2>1, <2>2, <2>3, StatementFields
<1>3. PICK p, new : p = Head(stack).page /\ new = num_pages
  OBVIOUS
<1>4. PICK no : no = Return(Refused(Head(stack).key, Head(stack).value))
  OBVIOUS
<1>5. PICK d : d = Return(Inserted(Head(stack).key, Head(stack).value, TRUE))
  OBVIOUS
<1>6. /\ crashed' = crashed
      /\ Then(<<no>>) \/ \E m : Then(PassUp(p, m, new) \o <<d>>)
  BY <1>3, <1>4, <1>5 DEF DoSplitLeaf, NewPage
<1>7. CASE Then(<<no>>)
  <2>1. PICK u : u = UnpinPage(0, TRUE)
    OBVIOUS
  <2>2. no.do = "Return" /\ u.do = "UnpinPage"
    BY <1>4, <2>1 DEF Return, UnpinPage
  <2>3. Replies(u, no)
    BY <1>7, <2>2 DEF Replies
  <2> QED BY <1>2, <1>6, <2>3, ShortThen
<1>8. ASSUME NEW m, Then(PassUp(p, m, new) \o <<d>>)
      PROVE  LimitInv'
  <2>1. PICK a, b, c : a = InsertIntoParent(p, m, new) /\ b = UnpinPage(p, TRUE) /\ c = UnpinPage(new, TRUE)
    OBVIOUS
  <2>2. PICK xs : xs = <<a, b, c, d>>
    OBVIOUS
  <2>3. PICK S : S = {a, b, c, d}
    OBVIOUS
  <2>4. /\ xs \in Seq(S) /\ Len(xs) = 4 /\ xs[1] = a /\ xs[2] = b /\ xs[3] = c /\ xs[4] = d
    BY <2>2, <2>3
  <2>5. Then(xs)
    <3>1. PassUp(p, m, new) \o <<d>> =
            <<InsertIntoParent(p, m, new), UnpinPage(p, TRUE), UnpinPage(new, TRUE), d>>
      BY FourOnStack
    <3>2. PassUp(p, m, new) \o <<d>> = xs
      BY <2>1, <2>2, <3>1
    <3> QED BY <3>2, <1>8
  <2>6. stack' = xs
    BY <1>2, <2>4, <2>5, OnlyThen
  <2>7. /\ a.do = "InsertIntoParent" /\ a.page = p /\ b.do = "UnpinPage" /\ c.do = "UnpinPage" /\ d.do = "Return"
    BY <1>5, <2>1 DEF InsertIntoParent, UnpinPage, Return
  <2>8. ASSUME HasTree', NEW lev, NEW R, TreeInv(lev, R)'
        PROVE  Climbs(xs, 0, lev, lev[root_page_id'])
    <3>1. lev[p] \in Nat
      BY <1>2, <1>3, <2>8, TopNext
    <3>2. Len(xs) - 1 + 0 <= 2 * lev[p] + 3
      BY <2>4, <3>1
    <3>3. ~IsQuiet(xs, 0)
      <4>1. 1 \in 0 + 1 .. Len(xs)
        BY <2>4
      <4> QED BY <4>1, <2>4, <2>7 DEF IsQuiet
    <3>4. ASSUME NEW i \in 1 .. Len(xs)
          PROVE  /\ xs[i].do # "SplitInternal"
                 /\ xs[i].do = "InsertIntoParent" => i = 1
      <4>1. i = 1 \/ i = 2 \/ i = 3 \/ i = 4
        BY <2>4
      <4> QED BY <4>1, <2>4, <2>7
    <3>5. xs[1].page = p /\ xs[Len(xs)].do \notin {"UnpinPage", "SplitInternal"}
      BY <2>4, <2>7
    <3>6. \A j \in 2 .. 1 - 1 : xs[j].do = "AdoptChildren"
      OBVIOUS
    <3> QED BY <3>2, <3>3, <3>4, <3>5, <3>6 DEF Climbs
  <2> QED BY <2>6, <2>8 DEF LimitInv
<1> QED BY <1>6, <1>7, <1>8

(* What an unpin, a split or the steps of a split leave to do, with k      *)
(* statements behind them.                                                 *)
LEMMA ClimbsUnpin ==
  ASSUME NEW u, u.do = "UnpinPage", NEW k \in Nat, k > 0, NEW lev, NEW top, 1 + k <= 2 * top + 2,
         NEW xs, xs = <<u>>
  PROVE  Climbs(xs, k, lev, top)
<1>1. Len(xs) = 1 /\ xs[1] = u
  OBVIOUS
<1>2. \A i \in 1 .. Len(xs) : xs[i].do = "UnpinPage"
  BY <1>1
<1>3. Len(xs) + k <= 2 * top + 2
  BY <1>1
<1> QED BY <1>2, <1>3 DEF Climbs

LEMMA ClimbsSplit ==
  ASSUME NEW b, b.do = "SplitInternal", NEW k \in Nat, k > 0, NEW lev, NEW top,
         k <= 2 * lev[b.page] + 1, NEW xs, xs = <<b>>
  PROVE  Climbs(xs, k, lev, top)
<1>1. Len(xs) = 1 /\ xs[1] = b
  OBVIOUS
<1>2. ~IsQuiet(xs, 0)
  <2>1. 1 \in 0 + 1 .. Len(xs)
    BY <1>1
  <2> QED BY <2>1, <1>1 DEF IsQuiet
<1>3. \A i \in 1 .. Len(xs) : xs[i] = b /\ Len(xs) - i + k = k
  BY <1>1
<1>4. \A i \in 1 .. Len(xs) :
        /\ xs[i].do = "SplitInternal" /\ xs[i].do # "InsertIntoParent"
        /\ Len(xs) - i + k <= 2 * lev[xs[i].page] + 1
  BY <1>3
<1> QED BY <1>2, <1>4 DEF Climbs

LEMMA ClimbsFour ==
  ASSUME NEW a, a.do = "AdoptChildren", NEW b, b.do = "InsertIntoParent",
         NEW c, c.do = "UnpinPage", NEW d, d.do = "UnpinPage",
         NEW k \in Nat, k > 0, NEW lev, NEW top, k + 2 <= 2 * lev[b.page] + 3,
         NEW xs, xs = <<a, b, c, d>>
  PROVE  Climbs(xs, k, lev, top)
<1>1. Len(xs) = 4 /\ xs[1] = a /\ xs[2] = b /\ xs[3] = c /\ xs[4] = d
  OBVIOUS
<1>2. ~IsQuiet(xs, 0)
  <2>1. 1 \in 0 + 1 .. Len(xs)
    BY <1>1
  <2> QED BY <2>1, <1>1 DEF IsQuiet
<1>3. ASSUME NEW i \in 1 .. Len(xs)
      PROVE  /\ xs[i].do # "SplitInternal"
             /\ xs[i].do = "InsertIntoParent" =>
                  /\ Len(xs) - i + k <= 2 * lev[xs[i].page] + 3
                  /\ \A j \in 2 .. i - 1 : xs[j].do = "AdoptChildren"
  <2>1. i = 1 \/ i = 2 \/ i = 3 \/ i = 4
    BY <1>1
  <2>2. CASE i = 2
    <3>1. \A j \in 2 .. i - 1 : FALSE
      BY <2>2
    <3>2. Len(xs) - i + k = k + 2 /\ xs[i] = b
      BY <2>2, <1>1
    <3> QED BY <3>1, <3>2
  <2>3. CASE i # 2
    BY <2>1, <2>3, <1>1
  <2> QED BY <2>2, <2>3
<1> QED BY <1>2, <1>3 DEF Climbs

(* xs is executed in place of the head.                                    *)
LEMMA ThenClimbs ==
  ASSUME IInv', stack \in Seq(Statement), stack # <<>>, Rest(stack), NEW lev, KnowsLevels(lev),
         NEW S, NEW xs \in Seq(S), Then(xs), NEW k, k = Len(stack) - 1, NEW top, Climbs(xs, k, lev, top)
  PROVE  Climbs(stack', 0, lev, top)
<1>1. PICK q, r : q = stack /\ r = stack'
  OBVIOUS
<1>2. Ends(q)
  BY <1>1 DEF KnowsLevels, Climbs, Ends
<1>3. xs \in Seq(Statement)
  BY Pushed
<1>4. r = xs \o Tail(q)
  BY <1>1 DEF Then
<1>5. q \in Seq(Statement) /\ q # <<>> /\ Rest(q) /\ k = Len(q) - 1
  BY <1>1
<1>6. Climbs(r, 0, lev, top)
  BY <1>2, <1>3, <1>4, <1>5, ClimbsOverRest
<1> QED BY <1>1, <1>6

(* What is behind InsertIntoParent or SplitInternal at the head.           *)
LEMMA BehindClimbs ==
  ASSUME stack \in Seq(Statement), stack # <<>>, NEW lev, KnowsLevels(lev),
         stack[1].do \in {"InsertIntoParent", "SplitInternal"}, NEW k, k = Len(stack) - 1
  PROVE  /\ k \in Nat
         /\ stack[1].do = "InsertIntoParent" => k <= 2 * lev[stack[1].page] + 3
         /\ stack[1].do = "SplitInternal" => k > 0 /\ k <= 2 * lev[stack[1].page] + 1
<1>1. PICK q : q = stack
  OBVIOUS
<1>2. Len(q) \in Nat \ {0} /\ 1 \in 1 .. Len(q)
  BY <1>1, EmptySeq
<1>3. PICK top : top = lev[root_page_id]
  OBVIOUS
<1>4. Climbs(q, 0, lev, top)
  BY <1>1, <1>3 DEF KnowsLevels
<1>5. /\ q[1].do = "InsertIntoParent" => Len(q) - 1 + 0 <= 2 * lev[q[1].page] + 3
      /\ q[1].do = "SplitInternal" => Len(q) - 1 + 0 <= 2 * lev[q[1].page] + 1
      /\ q[Len(q)].do \notin {"UnpinPage", "SplitInternal"}
  BY <1>2, <1>4 DEF Climbs
<1>6. k \in Nat /\ Len(q) - 1 + 0 = k
  BY <1>1, <1>2
<1>7. q[1].do = "SplitInternal" => k > 0
  <2>1. k = 0 => Len(q) = 1
    BY <1>1, <1>2
  <2> QED BY <2>1, <1>5, <1>6
<1> QED BY <1>1, <1>5, <1>6, <1>7

LEMMA HasTreeNext ==
  ASSUME IInv, NodesStay, root_page_id \in Nodes, IInv'
  PROVE  HasTree'
<1>1. root_page_id \in Nodes'
  BY DEF NodesStay, Nodes
<1>2. root_page_id' = NoPage => Nodes' = {}
  BY DEF IInv, PagesInv
<1> QED BY <1>1, <1>2 DEF HasTree

(* Scenario A: the new root is one level above the old one.                *)
LEMMA GrowRootClimbs ==
  ASSUME IInv, IInv', GrowRoot, Pool!HasRoom, NodesStay,
         NEW lev, NEW R, KnowsLevels(lev), TreeInv(lev, R)'
  PROVE  Climbs(stack', 0, lev, lev[root_page_id'])
<1>1. PICK s : s = Head(stack)
  OBVIOUS
<1>2. /\ Executing("InsertIntoParent") /\ s.page = root_page_id
      /\ root_page_id' = num_pages /\ num_pages \in PageId
      /\ Then(<<UnpinPage(num_pages, TRUE)>>)
  BY <1>1 DEF GrowRoot, NewPage
<1>3. /\ s = stack[1] /\ s.do = "InsertIntoParent" /\ root_page_id \in Nodes
      /\ stack \in Seq(Statement) /\ stack # <<>> /\ Rest(stack) /\ 3 \in 2 .. Len(stack)
  BY <1>1, <1>2, InsertIntoParentHead
<1>4. PICK top, new : top = lev[root_page_id] /\ new = lev[root_page_id']
  OBVIOUS
<1>5. top \in Nat /\ new \in Nat /\ HasTree'
  <2>1. HasTree'
    BY <1>3, HasTreeNext
  <2> QED BY <1>4, <2>1, TopNext DEF KnowsLevels
<1>6. new > top
  <2>1. PICK old : old = root_page_id
    OBVIOUS
  <2>2. old \in Nodes' /\ old # root_page_id'
    <3>1. old \in Nodes'
      BY <1>3, <2>1 DEF NodesStay, Nodes
    <3>2. num_pages \notin Nodes
      BY NodeFacts DEF IInv
    <3> QED BY <1>2, <1>3, <2>1, <3>1, <3>2
  <2>3. PICK u : u = UnpinPage(num_pages, TRUE)
    OBVIOUS
  <2>4. \A t \in Work' : IsPlain(t)
    <3>1. Then(<<u>>) /\ StackInv
      BY <1>2, <2>3 DEF IInv
    <3>2. Work' = {u} \cup Behind /\ IsPlain(u)
      BY <3>1, <1>2, <1>3, <2>3, WorkThenUnpin
    <3> QED BY <3>2, <1>3, BehindIsPlain DEF IInv
  <2>5. ~Unadopted(old)' /\ \A t \in Work' : ~SplitOfRoot(t)'
    BY <2>4 DEF Unadopted, SplitOfRoot, IsPlain
  <2>6. PICK t \in Internals' : old \in Kids(t)'
    BY <2>2, <2>5 DEF TreeInv, FamilyInv
  <2>7. lev[old] + 1 = lev[t] /\ t \in Nodes'
    BY <2>6, RangeFactsNext DEF Nodes
  <2>8. lev[t] <= new
    BY <2>7, <1>4, <1>5 DEF TreeInv, RootInv
  <2>9. lev[t] \in Nat
    BY <2>7, <1>4, <1>5, <2>1
  <2> QED BY <2>1, <2>7, <2>8, <2>9, <1>4, <1>5
<1>7. PICK k : k = Len(stack) - 1
  OBVIOUS
<1>8. k \in Nat /\ k > 0 /\ k <= 2 * top + 3
  <2>1. k \in Nat /\ k <= 2 * lev[stack[1].page] + 3
    BY <1>3, <1>7, BehindClimbs
  <2>2. k > 0
    BY <1>3, <1>7, <2>1
  <2> QED BY <2>1, <2>2, <1>2, <1>3, <1>4
<1>9. PICK u : u = UnpinPage(num_pages, TRUE)
  OBVIOUS
<1>10. PICK xs, S : xs = <<u>> /\ S = {u}
  OBVIOUS
<1>11. xs \in Seq(S) /\ Then(xs) /\ u.do = "UnpinPage"
  BY <1>2, <1>9, <1>10 DEF UnpinPage
<1>12. 1 + k <= 2 * new + 2
  BY <1>5, <1>6, <1>8
<1>13. Climbs(xs, k, lev, new)
  BY <1>8, <1>10, <1>11, <1>12, ClimbsUnpin
<1>14. Climbs(stack', 0, lev, new)
  BY <1>3, <1>7, <1>11, <1>13, ThenClimbs
<1> QED BY <1>4, <1>14

(* Scenario B: the parent is one level above the nodes of the split.       *)
LEMMA InsertIntoOldParentClimbs ==
  ASSUME IInv, IInv', InsertIntoOldParent, \A p : Pool!CanPin(p),
         NEW lev, KnowsLevels(lev)
  PROVE  Climbs(stack', 0, lev, lev[root_page_id'])
<1>1. PICK s : s = Head(stack)
  OBVIOUS
<1>2. PICK parent : parent = contents[s.page].parent
  OBVIOUS
<1>3. /\ Executing("InsertIntoParent") /\ s.page # root_page_id /\ root_page_id' = root_page_id
      /\ Then(<<UnpinPage(parent, TRUE)>>) \/ Then(<<SplitInternal(parent, s.key, s.new)>>)
  BY <1>1, <1>2 DEF InsertIntoOldParent
<1>4. /\ s = stack[1] /\ s.do = "InsertIntoParent" /\ s.page \in Nodes /\ s.page \in PageId
      /\ s.new \in Nodes /\ \A p : ~SplitsRoot(p)
      /\ stack \in Seq(Statement) /\ stack # <<>> /\ Rest(stack) /\ 3 \in 2 .. Len(stack)
  BY <1>1, <1>3, InsertIntoParentHead
<1>5. parent \in Internals
  BY <1>2, <1>3, <1>4 DEF IInv, ParentsInv
<1>6. s \in Work
  <2>1. 1 \in 1 .. Len(stack)
    BY <1>4
  <2> QED BY <1>4, <2>1 DEF Work, WorkOf
<1>7. s.new \in Kids(parent)
  <2>1. Entry(s.key, s.new) \in Promised(parent)
    BY <1>2, <1>4, <1>6 DEF Promised, IsPromise, Owner
  <2>2. Entry(s.key, s.new).value = s.new
    BY DEF Entry
  <2> QED BY <2>1, <2>2 DEF Kids, ChildrenOf, Seps
<1>8. PICK l, m, top : l = lev[s.page] /\ m = lev[parent] /\ top = lev[root_page_id]
  OBVIOUS
<1>9. l \in Nat /\ m = l + 1 /\ top \in Nat /\ m <= top
  <2>1. lev[s.new] = l /\ lev[s.new] + 1 = m
    BY <1>4, <1>5, <1>6, <1>7, <1>8 DEF KnowsLevels
  <2>2. l \in Nat /\ m <= top /\ top \in Nat
    BY <1>4, <1>5, <1>8 DEF KnowsLevels, Nodes
  <2> QED BY <2>1, <2>2
<1>10. PICK k : k = Len(stack) - 1
  OBVIOUS
<1>11. k \in Nat /\ k > 0 /\ k <= 2 * l + 3
  <2>1. k \in Nat /\ k <= 2 * lev[stack[1].page] + 3
    BY <1>4, <1>10, BehindClimbs
  <2>2. k > 0
    BY <1>4, <1>10, <2>1
  <2> QED BY <2>1, <2>2, <1>4, <1>8
<1>12. CASE Then(<<UnpinPage(parent, TRUE)>>)
  <2>1. PICK u : u = UnpinPage(parent, TRUE)
    OBVIOUS
  <2>2. PICK xs, S : xs = <<u>> /\ S = {u}
    OBVIOUS
  <2>3. xs \in Seq(S) /\ Then(xs) /\ u.do = "UnpinPage"
    BY <1>12, <2>1, <2>2 DEF UnpinPage
  <2>4. 1 + k <= 2 * top + 2
    BY <1>9, <1>11
  <2>5. Climbs(xs, k, lev, top)
    BY <1>11, <2>2, <2>3, <2>4, ClimbsUnpin
  <2>6. Climbs(stack', 0, lev, top)
    BY <1>4, <1>10, <2>3, <2>5, ThenClimbs
  <2> QED BY <1>3, <1>8, <2>6
<1>13. CASE Then(<<SplitInternal(parent, s.key, s.new)>>)
  <2>1. PICK b : b = SplitInternal(parent, s.key, s.new)
    OBVIOUS
  <2>2. PICK xs, S : xs = <<b>> /\ S = {b}
    OBVIOUS
  <2>3. xs \in Seq(S) /\ Then(xs) /\ b.do = "SplitInternal" /\ b.page = parent
    BY <1>13, <2>1, <2>2 DEF SplitInternal
  <2>4. k <= 2 * lev[b.page] + 1
    <3>1. lev[b.page] = m
      BY <1>8, <2>3
    <3> QED BY <3>1, <1>9, <1>11
  <2>5. Climbs(xs, k, lev, top)
    BY <1>11, <2>2, <2>3, <2>4, ClimbsSplit
  <2>6. Climbs(stack', 0, lev, top)
    BY <1>4, <1>10, <2>3, <2>5, ThenClimbs
  <2> QED BY <1>3, <1>8, <2>6
<1> QED BY <1>3, <1>12, <1>13

LEMMA DoSplitInternalClimbs ==
  ASSUME IInv, IInv', DoSplitInternal, Pool!HasRoom, NEW lev, KnowsLevels(lev)
  PROVE  Climbs(stack', 0, lev, lev[root_page_id'])
<1>1. PICK s : s = Head(stack)
  OBVIOUS
<1>2. PICK new, page : new = num_pages /\ page = s.page
  OBVIOUS
<1>3. /\ Executing("SplitInternal") /\ root_page_id' = root_page_id
      /\ \E m : Then(<<AdoptChildren(new, 1)>> \o PassUp(page, m, new))
  BY <1>1, <1>2 DEF DoSplitInternal
<1>4. /\ s = stack[1] /\ s.do = "SplitInternal" /\ page \in Nodes
      /\ stack \in Seq(Statement) /\ stack # <<>> /\ Rest(stack)
  BY <1>1, <1>2, <1>3, SplitInternalHead
<1>5. PICK m : Then(<<AdoptChildren(new, 1)>> \o PassUp(page, m, new))
  BY <1>3
<1>6. PICK a, b, c, d : /\ a = AdoptChildren(new, 1) /\ b = InsertIntoParent(page, m, new)
                        /\ c = UnpinPage(page, TRUE) /\ d = UnpinPage(new, TRUE)
  OBVIOUS
<1>7. PICK xs, S : xs = <<a, b, c, d>> /\ S = {a, b, c, d}
  OBVIOUS
<1>8. Then(xs)
  <2>1. <<a>> \o PassUp(page, m, new) =
          <<a, InsertIntoParent(page, m, new), UnpinPage(page, TRUE), UnpinPage(new, TRUE)>>
    BY FourBelowAdopt
  <2>2. <<a>> \o PassUp(page, m, new) = xs
    BY <1>6, <1>7, <2>1
  <2> QED BY <1>5, <1>6, <2>2
<1>9. xs \in Seq(S)
  BY <1>7
<1>10. /\ a.do = "AdoptChildren" /\ b.do = "InsertIntoParent" /\ b.page = page
       /\ c.do = "UnpinPage" /\ d.do = "UnpinPage"
  BY <1>6 DEF AdoptChildren, InsertIntoParent, UnpinPage
<1>11. PICK l, top, k : l = lev[page] /\ top = lev[root_page_id] /\ k = Len(stack) - 1
  OBVIOUS
<1>12. l \in Nat
  BY <1>4, <1>11 DEF KnowsLevels
<1>13. k \in Nat /\ k > 0 /\ k <= 2 * l + 1
  BY <1>2, <1>4, <1>11, BehindClimbs
<1>14. k + 2 <= 2 * lev[b.page] + 3
  BY <1>10, <1>11, <1>12, <1>13
<1>15. Climbs(xs, k, lev, top)
  BY <1>7, <1>10, <1>13, <1>14, ClimbsFour
<1>16. Climbs(stack', 0, lev, top)
  BY <1>4, <1>8, <1>9, <1>11, <1>15, ThenClimbs
<1> QED BY <1>3, <1>11, <1>16

LEMMA DoAdoptChildrenClimbs ==
  ASSUME IInv, IInv', DoAdoptChildren, \A p : Pool!CanPin(p), NEW lev, KnowsLevels(lev)
  PROVE  Climbs(stack', 0, lev, lev[root_page_id'])
<1>1. PICK s : s = Head(stack)
  OBVIOUS
<1>2. PICK page, i, n : page = s.page /\ i = s.i /\ n = Len(contents[page].array)
  OBVIOUS
<1>3. PICK child : child = contents[page].array[i].value
  OBVIOUS
<1>4. PICK xs : xs = AdoptNext(child, page, i, n)
  OBVIOUS
<1>5. Executing("AdoptChildren") /\ root_page_id' = root_page_id /\ Then(xs)
  BY <1>1, <1>2, <1>3, <1>4 DEF DoAdoptChildren, AdoptNext
<1>6. /\ s = stack[1] /\ s.do = "AdoptChildren" /\ page \in PageId
      /\ InternalOK(contents[page]) /\ i \in 1 .. n /\ child \in Nodes
      /\ stack \in Seq(Statement) /\ stack # <<>>
  BY <1>1, <1>2, <1>3, <1>5, AdoptChildrenHead
<1>7. child \in PageId /\ n \in 1 .. INTERNAL_MAX /\ i \in Nat /\ i >= 1
  <2>1. child \in PageId
    BY <1>6, NodeFacts DEF IInv
  <2> QED BY <1>2, <1>6, <2>1 DEF InternalOK
<1>8. PICK a \in Statement, b \in Statement :
        /\ a = UnpinPage(child, TRUE) /\ b = AdoptChildren(page, IF i < n THEN i + 1 ELSE 1)
        /\ OneOrTwo(xs, i, n, a, b)
  BY <1>4, <1>6, <1>7, AdoptNextIs
<1>9. a.do = "UnpinPage" /\ b.do = "AdoptChildren"
  BY <1>8 DEF UnpinPage, AdoptChildren
<1>10. /\ xs \in Seq(Statement) /\ xs # <<>>
       /\ \A j \in 1 .. Len(xs) : xs[j].do = IF j = 1 THEN "UnpinPage" ELSE "AdoptChildren"
  <2>1. CASE i < n
    <3>1. xs = <<a, b>>
      BY <1>8, <2>1 DEF OneOrTwo
    <3>2. xs \in Seq(Statement) /\ Len(xs) = 2 /\ xs[1] = a /\ xs[2] = b
      BY <3>1
    <3>3. \A j \in 1 .. Len(xs) : j = 1 \/ j = 2
      BY <3>2
    <3> QED BY <3>2, <3>3, <1>9
  <2>2. CASE ~(i < n)
    <3>1. xs = <<a>>
      BY <1>8, <2>2 DEF OneOrTwo
    <3>2. xs \in Seq(Statement) /\ Len(xs) = 1 /\ xs[1] = a
      BY <3>1
    <3>3. \A j \in 1 .. Len(xs) : j = 1
      BY <3>2
    <3> QED BY <3>2, <3>3, <1>9
  <2> QED BY <2>1, <2>2
<1>11. PICK q, r, top : q = stack /\ r = stack' /\ top = lev[root_page_id]
  OBVIOUS
<1>12. /\ q \in Seq(Statement) /\ q # <<>> /\ Shape(q) /\ q[1].do = "AdoptChildren"
       /\ Climbs(q, 0, lev, top) /\ r = xs \o Tail(q)
  BY <1>5, <1>6, <1>11 DEF IInv, StackInv, KnowsLevels, Then
<1>13. Climbs(r, 0, lev, top)
  BY <1>10, <1>12, ClimbsAdopt
<1> QED BY <1>5, <1>11, <1>13

LEMMA PopClimbs ==
  ASSUME IInv, IInv', DoUnpinPage \/ DoReturn, NEW lev, KnowsLevels(lev)
  PROVE  Climbs(stack', 0, lev, lev[root_page_id'])
<1>1. /\ Executing("UnpinPage") \/ Executing("Return")
      /\ root_page_id' = root_page_id /\ Then(<<>>)
  BY DEF DoUnpinPage, DoReturn
<1>2. /\ stack \in Seq(Statement) /\ stack # <<>>
      /\ stack[1].do \in {"UnpinPage", "Return"}
  BY <1>1, HeadProps DEF IInv
<1>3. PICK q, r, top : q = stack /\ r = stack' /\ top = lev[root_page_id]
  OBVIOUS
<1>4. /\ q \in Seq(Statement) /\ q # <<>> /\ q[1].do \in {"UnpinPage", "Return"}
      /\ Climbs(q, 0, lev, top) /\ top \in Nat /\ r = <<>> \o Tail(q)
  BY <1>1, <1>2, <1>3 DEF KnowsLevels, Then
<1>5. Climbs(r, 0, lev, top)
  BY <1>4, ClimbsPop
<1> QED BY <1>1, <1>3, <1>5

(* A call starts with one statement.                                       *)
LEMMA CallLimit ==
  ASSUME IInv', NEW s, s.do \in {"Descend", "StartNewTree", "Return"}, stack' = <<s>>
  PROVE  LimitInv'
<1>1. PICK q : q = <<s>>
  OBVIOUS
<1>2. Len(q) = 1 /\ q[1] = s
  BY <1>1
<1>3. \A i \in 1 .. Len(q) : q[i].do \notin {"InsertIntoParent", "SplitInternal"}
  BY <1>2
<1>4. Ends(q)
  BY <1>2 DEF Ends
<1>5. IsShort(q)
  BY <1>2, <1>3, <1>4 DEF IsShort
<1>6. q = stack'
  BY <1>1
<1> QED BY <1>5, <1>6, ShortLimit

LEMMA CallsLimit ==
  ASSUME IInv', NEW key, GetValue(key) \/ \E value : Insert(key, value)
  PROVE  LimitInv' /\ crashed' = crashed
<1>1. CASE GetValue(key)
  <2>1. PICK s : s = CallGetValue(key)
    OBVIOUS
  <2>2. s.do \in {"Descend", "Return"}
    BY <2>1 DEF CallGetValue, Descend, Return
  <2>3. stack' = <<s>> /\ crashed' = crashed
    BY <1>1, <2>1 DEF GetValue
  <2> QED BY <2>2, <2>3, CallLimit
<1>2. ASSUME NEW value, Insert(key, value)
      PROVE  LimitInv' /\ crashed' = crashed
  <2>1. PICK s : s = CallInsert(key, value)
    OBVIOUS
  <2>2. s.do \in {"Descend", "StartNewTree"}
    BY <2>1 DEF CallInsert, Descend, StartNewTree
  <2>3. stack' = <<s>> /\ crashed' = crashed
    BY <1>2, <2>1 DEF Insert
  <2> QED BY <2>2, <2>3, CallLimit
<1> QED BY <1>1, <1>2

(* A step that leaves the nodes and the stack as they were.                *)
LEMMA OthersKeepLimit ==
  ASSUME IInv, IInv', KeyInv, LimitInv,
         contents' = contents, stack' = stack, root_page_id' = root_page_id
  PROVE  LimitInv'
<1>1. CASE HasTree
  <2>1. \A lev, R : KnowsLevels(lev) /\ TreeInv(lev, R)' => Climbs(stack', 0, lev, lev[root_page_id'])
    BY DEF KnowsLevels
  <2> QED BY <1>1, <2>1, SameNodesStay, LimitFollows
<1>2. CASE ~HasTree
  BY <1>2 DEF LimitInv, HasTree
<1> QED BY <1>1, <1>2

(* What the pool promises to a statement when it has enough frames.        *)
LEMMA NeverRefused ==
  ASSUME IInv, KeyInv, PathInv, EnoughFrames, HasTree, NEW do, Executing(do), do # "UnpinPage"
  PROVE  Pool!HasRoom /\ \A p : Pool!CanPin(p)
<1>1. stack # <<>> /\ stack[1].do # "UnpinPage"
  BY HeadProps DEF IInv
<1> QED BY <1>1, HasRoomAtHead DEF PathInv

LEMMA StepKeepsLimit ==
  ASSUME IInv, IInv', KeyInv, PathInv, EnoughFrames, HasTree, Step
  PROVE  LimitInv' /\ crashed' = crashed
<1>1. CASE UNCHANGED <<held, reply, inserts>> /\ (PassInternal \/ LookUpInLeaf \/ InsertIntoLeaf)
  BY <1>1, SearchLimit
<1>2. CASE DoStartNewTree
  BY <1>2, StartLimit
<1>3. CASE FetchFails
  BY <1>3, NeverRefused DEF FetchFails
<1>4. CASE DoSplitLeaf
  BY <1>4, SplitLeafLimit
<1>5. CASE UNCHANGED <<held, reply, inserts>> /\ GrowRoot
  <2>1. Pool!HasRoom
    BY <1>5, NeverRefused DEF GrowRoot
  <2>2. NodesStay
    BY <1>5, GrowRootKeepsKeys
  <2>3. \A lev, R : KnowsLevels(lev) /\ TreeInv(lev, R)' => Climbs(stack', 0, lev, lev[root_page_id'])
    BY <1>5, <2>1, <2>2, GrowRootClimbs
  <2>4. crashed' = crashed
    BY <1>5, <2>1 DEF GrowRoot, NewPage
  <2> QED BY <2>2, <2>3, <2>4, LimitFollows DEF PathInv
<1>6. CASE UNCHANGED <<held, reply, inserts>> /\ InsertIntoOldParent
  <2>1. \A p : Pool!CanPin(p)
    BY <1>6, NeverRefused DEF InsertIntoOldParent
  <2>2. NodesStay
    BY <1>6, InsertIntoOldParentKeepsKeys
  <2>3. \A lev, R : KnowsLevels(lev) /\ TreeInv(lev, R)' => Climbs(stack', 0, lev, lev[root_page_id'])
    BY <1>6, <2>1, InsertIntoOldParentClimbs
  <2>4. crashed' = crashed
    BY <1>6, <2>1 DEF InsertIntoOldParent, FetchPage
  <2> QED BY <2>2, <2>3, <2>4, LimitFollows DEF PathInv
<1>7. CASE UNCHANGED <<held, reply, inserts>> /\ DoSplitInternal
  <2>1. Pool!HasRoom
    BY <1>7, NeverRefused DEF DoSplitInternal
  <2>2. NodesStay
    BY <1>7, DoSplitInternalKeepsKeys
  <2>3. \A lev, R : KnowsLevels(lev) /\ TreeInv(lev, R)' => Climbs(stack', 0, lev, lev[root_page_id'])
    BY <1>7, <2>1, DoSplitInternalClimbs
  <2>4. crashed' = crashed
    BY <1>7, <2>1 DEF DoSplitInternal, NewPage
  <2> QED BY <2>2, <2>3, <2>4, LimitFollows DEF PathInv
<1>8. CASE UNCHANGED <<held, reply, inserts>> /\ DoAdoptChildren
  <2>1. \A p : Pool!CanPin(p)
    BY <1>8, NeverRefused DEF DoAdoptChildren
  <2>2. NodesStay
    BY <1>8, DoAdoptChildrenKeepsKeys
  <2>3. \A lev, R : KnowsLevels(lev) /\ TreeInv(lev, R)' => Climbs(stack', 0, lev, lev[root_page_id'])
    BY <1>8, <2>1, DoAdoptChildrenClimbs
  <2>4. crashed' = crashed
    BY <1>8, <2>1 DEF DoAdoptChildren, FetchPage
  <2> QED BY <2>2, <2>3, <2>4, LimitFollows DEF PathInv
<1>9. CASE DoUnpinPage \/ DoReturn
  <2>1. contents' = contents /\ crashed' = crashed
    BY <1>9 DEF DoUnpinPage, DoReturn, pool
  <2>2. NodesStay
    BY <2>1, SameNodesStay
  <2>3. \A lev, R : KnowsLevels(lev) /\ TreeInv(lev, R)' => Climbs(stack', 0, lev, lev[root_page_id'])
    BY <1>9, PopClimbs
  <2> QED BY <2>1, <2>2, <2>3, LimitFollows DEF PathInv
<1> QED BY <1>1, <1>2, <1>3, <1>4, <1>5, <1>6, <1>7, <1>8, <1>9 DEF Step

(* Without a tree there is nothing to climb but what starts one.           *)
LEMMA StepWithoutTree ==
  ASSUME IInv, IInv', ~HasTree, Step
  PROVE  LimitInv' /\ crashed' = crashed
<1>1. DoStartNewTree \/ DoUnpinPage \/ DoReturn
  <2>1. stack # <<>>
    BY DEF Step, DoStartNewTree, PassInternal, FetchFails, LookUpInLeaf, InsertIntoLeaf,
           DoSplitLeaf, GrowRoot, InsertIntoOldParent, DoSplitInternal, DoAdoptChildren,
           DoUnpinPage, DoReturn, Executing
  <2>2. Head(stack).do \in {"StartNewTree", "UnpinPage", "Return"}
    BY <2>1, HeadWithoutTree
  <2> QED BY <2>2 DEF Step, PassInternal, FetchFails, LookUpInLeaf, InsertIntoLeaf,
                  DoSplitLeaf, GrowRoot, InsertIntoOldParent, DoSplitInternal, DoAdoptChildren, Executing
<1>2. CASE DoStartNewTree
  BY <1>2, StartLimit
<1>3. CASE DoUnpinPage \/ DoReturn
  <2>1. root_page_id' = root_page_id /\ crashed' = crashed
    BY <1>3 DEF DoUnpinPage, DoReturn
  <2> QED BY <2>1 DEF LimitInv, HasTree
<1> QED BY <1>1, <1>2, <1>3

LEMMA NextKeepsPath ==
  ASSUME IInv, KeyInv, PathInv, EnoughFrames, [Next]_vars
  PROVE  PathInv'
<1>1. IInv' /\ (PinsAreExact /\ HasRoomToSplit => PinsAreExact')
  BY NextKeepsIInv DEF Keeps
<1>2. HasRoomToSplit
  <2> SUFFICES ASSUME Executing("SplitLeaf") PROVE Pool!HasRoom
    BY DEF HasRoomToSplit
  <2>1. HasTree
    <3>1. stack # <<>> /\ Head(stack).do = "SplitLeaf"
      BY DEF Executing
    <3> QED BY <3>1, HeadWithoutTree
  <2> QED BY <2>1, NeverRefused
<1>3. LimitInv' /\ crashed' = crashed
  <2>1. CASE Step
    BY <1>1, <2>1, StepKeepsLimit, StepWithoutTree
  <2>2. CASE \E key \in Key : GetValue(key) \/ \E value \in RecordID : Insert(key, value)
    BY <1>1, <2>2, CallsLimit
  <2>3. CASE HoldDataPage \/ ReleaseDataPage \/ UNCHANGED vars
    <3>1. /\ contents' = contents /\ root_page_id' = root_page_id /\ stack' = stack
          /\ crashed' = crashed
      BY <2>3 DEF HoldDataPage, ReleaseDataPage, NewPage, FetchPage, Assign, vars
    <3> QED BY <1>1, <3>1, OthersKeepLimit DEF PathInv
  <2> QED BY <2>1, <2>2, <2>3 DEF Next
<1> QED BY <1>1, <1>2, <1>3 DEF PathInv

LEMMA InitHasPath == Init => PathInv
<1> SUFFICES ASSUME Init PROVE PathInv
  OBVIOUS
<1>1. PinsAreExact
  BY InitHasIInv
<1>2. ~HasTree /\ ~crashed
  BY DEF Init, HasTree
<1> QED BY <1>1, <1>2 DEF PathInv, LimitInv

LEMMA PathIsBounded ==
  ASSUME IInv, KeyInv, PathInv
  PROVE  PinnedPagesAreBounded
BY PinsAreFew DEF PathInv, PinnedPagesAreBounded

-----------------------------------------------------------------------------
(* The theorems.                                                           *)

(* "Traverses the tree to find the correct leaf node for a given key"      *)
(* (b_plus_tree.h:15), in a tree of any size: every key that was inserted  *)
(* is in the leaf FindLeafPage arrives at, and Lookup finds it there.      *)
THEOREM EveryKeyCanBeFound == ASSUME UNIQUE_KEYS PROVE Spec => []EveryKeyIsFound
BY KeysHold, KeysAreFound, PTL

(* InsertIntoParent and the pages it splits leave a tree: every node has   *)
(* one parent, which its parent pointer names, and all leaves are equally  *)
(* deep.                                                                   *)
THEOREM TreeStaysBalanced == ASSUME UNIQUE_KEYS PROVE Spec => []IsBalancedTree
BY KeysHold, TreeIsBalanced, PTL

(* next_page_id_ leads through all leaves in the order of their keys.      *)
THEOREM LeavesStayChained == ASSUME UNIQUE_KEYS PROVE Spec => []LeafChainIsSorted
BY KeysHold, LeavesAreChained, PTL

(* What a split that finds no page leaves behind is a tree all the same.   *)
THEOREM TreeStaysIntact == ASSUME UNIQUE_KEYS PROVE Spec => []TreeIsIntact
<1>1. IInv /\ KeyInv => TreeIsIntact
  BY KeysAreFound, TreeIsBalanced, LeavesAreChained DEF TreeIsIntact
<1> QED BY <1>1, KeysHold, PTL

(* An insert that returns true has put its row into a leaf and one that    *)
(* returns false has not, except into an empty tree.                       *)
THEOREM InsertsAreAnswered == ASSUME UNIQUE_KEYS PROVE Spec => OnlyAnEmptyTreeLosesInserts
<1>1. IInv /\ KeyInv /\ [Next]_vars =>
        [DoReturn /\ reply'.op = "Insert" /\ HasTree =>
           (reply'.ok <=> reply'.entry \in Entries)]_vars
  BY InsertsAreTold
<1> QED BY <1>1, KeysHold, PTL DEF Spec, OnlyAnEmptyTreeLosesInserts

(* Insert and GetValue serve their callers as a dictionary does: splits,   *)
(* whatever pages they find or do not find, add and lose no entry, and     *)
(* every call is answered from the entries there are when it returns.      *)
THEOREM TreeImplementsDictionary ==
  ASSUME UNIQUE_KEYS
  PROVE  Spec /\ []HasRoomToStart => ImplementsDictionary
<1>1. Init => Index!Init /\ AnswersInv
  BY InitIsIndexInit
<1>2. IInv /\ AnswersInv /\ HasRoomToStart /\ [Next]_vars => AnswersInv'
  BY NextKeepsAnswers
<1>3. IInv /\ IInv' /\ KeyInv /\ AnswersInv /\ [Next]_vars => [Index!Next]_(Index!vars)
  BY NextIsIndexNext
<1> QED BY <1>1, <1>2, <1>3, KeysHold, PTL DEF Spec, ImplementsDictionary, Index!Spec

(* No call pins more than two pages of each level and one page more, so    *)
(* while the pool has that many frames besides the pages callers hold,     *)
(* every fetch of the tree gets its page and no null Page* is              *)
(* dereferenced.                                                           *)
THEOREM PinsStayBounded ==
  ASSUME UNIQUE_KEYS
  PROVE  Spec /\ []EnoughFrames => []PinnedPagesAreBounded
<1>1. Init => PathInv
  BY InitHasPath
<1>2. IInv /\ KeyInv /\ PathInv /\ EnoughFrames /\ [Next]_vars => PathInv'
  BY NextKeepsPath
<1>3. IInv /\ KeyInv /\ PathInv => PinnedPagesAreBounded
  BY PathIsBounded
<1> QED BY <1>1, <1>2, <1>3, KeysHold, PTL DEF Spec
=============================================================================
