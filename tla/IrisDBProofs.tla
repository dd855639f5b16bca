---------------------------- MODULE IrisDBProofs ----------------------------
(***************************************************************************)
(* The command loop's pins and dirty bits, for every number of frames,     *)
(* pages and ids and every size of page and node.                          *)
(*                                                                         *)
(* The loop is BPlusTree's caller: T is BPlusTree, with its proofs, over   *)
(* what the tree sees of the loop's state - the pages without rows, the    *)
(* pins without that of a page being shown, the page the loop keeps as the *)
(* one held by others, and the statements above the loop's own on the      *)
(* stack.  Each step of IrisDB is a step of T or leaves T's state alone    *)
(* but for a page the loop takes or gives back, so T!IInv holds; PageInv   *)
(* and StackShape say the rest, and a restart is a tree without nodes.     *)
(***************************************************************************)
EXTENDS IrisDB, SequenceTheorems, TLAPS

PageId == 0 .. MAX_PAGES - 1

(* What the tree sees of the pages: those with rows are not its own.       *)
IsData(n) == n.type = "data"

Blanked(c) == [p \in PageId |-> IF IsData(c[p]) THEN Tree!BlankPage ELSE c[p]]

nodes == Blanked(contents)

(* The statements of the tree are those before the last, which says what   *)
(* the loop does when the tree has answered.                               *)
InTree == stack # <<>> /\ stack[Len(stack)].do \in {"Acknowledge", "ShowRow"}

calls == IF InTree THEN SubSeq(stack, 1, Len(stack) - 1) ELSE <<>>

(* The page whose row SELECT shows has one pin more.                       *)
Showing == Len(stack) = 1 /\ stack[1].do = "UnpinPage"

other_pins ==
  IF Showing THEN [pins EXCEPT ![stack[1].page] = @ - 1] ELSE pins

(* The page the loop holds, but not between the unpin of a full page and   *)
(* the next NewPage.                                                       *)
kept ==
  IF current = NoPage \/ (stack # <<>> /\ stack[1].do = "OpenPage") THEN {} ELSE {current}

node_touched == {p \in touched : ~IsData(contents[p])}

T ==
  INSTANCE BPlusTreeProofs WITH
    Key <- Id, RecordID <- [page : PageId, slot : Int], MAX_DATA_PAGES <- 0,
    contents <- nodes, pins <- other_pins, held <- kept, touched <- node_touched,
    stack <- calls

-----------------------------------------------------------------------------
HasPage == current # NoPage

RowFields == {"num", "start", "end", "slots", "bytes", "prev", "next"}

(* What can be on the stack outside a call of the tree: an INSERT that     *)
(* waits for its page, from main.cpp:46 on, or a SELECT that shows one;    *)
(* and inside one, the statement that waits for the answer at the end.     *)
Waits(id, n) ==
  \/ stack = <<OpenPage, ForRow("StoreRow", id, n)>>
  \/ stack = <<OpenPage, ForRow("StoreInNewPage", id, n)>>
  \/ HasPage /\ stack \in {<<ForRow("StoreRow", id, n)>>, <<ForRow("StoreInNewPage", id, n)>>,
                           <<ForRow("IndexRow", id, n)>>,
                           <<Tree!UnpinPage(current, TRUE), OpenPage,
                             ForRow("StoreInNewPage", id, n)>>}

Shows == Showing /\ stack = <<Tree!UnpinPage(stack[1].page, FALSE)>>

AsksTree == InTree /\ stack = Append(calls, stack[Len(stack)])

StackShape ==
  stack = <<>> \/ AsksTree \/ Shows \/ \E id \in Id, n \in Length : Waits(id, n)

(* The pages: none past num_pages has rows, the page the loop holds is one *)
(* with rows, and no other page with rows has an undeclared change.        *)
PageInv ==
  /\ contents = [p \in PageId |-> contents[p]]
  /\ \A p \in PageId : p >= num_pages => ~IsData(contents[p])
  /\ HasPage =>
       /\ current \in PageId /\ current < num_pages
       /\ contents[current] = DataPage(RowsOf(current))
       /\ DOMAIN RowsOf(current) = RowFields /\ RowsOf(current).num \in Int
  /\ pins \in [PageId -> Nat]
  /\ touched \subseteq PageId
  /\ \A p \in touched : IsData(contents[p]) => p \in kept

(* The invariant.                                                          *)
LoopInv == T!IInv /\ StackShape /\ PageInv

(* The tree's pins are exactly those it owes.  SplitLeaf, when NewPage     *)
(* fails (b_plus_tree.cpp:191), is the one step that breaks this.          *)
HasRoomToSplit == Executing("SplitLeaf") => Tree!Pool!HasRoom

PinsExact == T!PinsAreExact

-----------------------------------------------------------------------------
(* The instance of the tree's proofs.                                      *)

LEMMA TreeOK == T!NodeAssumption /\ T!TreeAssumption
BY IrisDBAssumption DEF T!NodeAssumption, T!TreeAssumption, IsFiniteSet, T!IsFiniteSet

LEMMA TreeSteps == T!IInv /\ [T!Next]_(T!vars) => T!Keeps
BY TreeOK, T!NextKeepsIInv

LEMMA TPages == T!PageId = PageId /\ Tree!PageId = PageId
BY DEF T!PageId, Tree!PageId, T!Pool!PageId, Tree!Pool!PageId, PageId

LEMMA SameRoom ==
  /\ Tree!Pool!HasRoom <=> Cardinality({p \in PageId : pins[p] > 0}) < POOL_SIZE
  /\ T!Pool!HasRoom <=> Cardinality({p \in PageId : other_pins[p] > 0}) < POOL_SIZE
BY DEF T!Pool!HasRoom, Tree!Pool!HasRoom, T!Pool!Pinned, Tree!Pool!Pinned, T!Pool!PageId,
   Tree!Pool!PageId, PageId, Cardinality, T!Pool!Cardinality, Tree!Pool!Cardinality

-----------------------------------------------------------------------------
(* The operators of the two instances of the tree are the same.            *)

LEMMA SameNodeOperators ==
  /\ Tree!BlankPage = T!BlankPage /\ Tree!NoPage = T!NoPage
  /\ \A p, x, a : Tree!Leaf(p, x, a) = T!Leaf(p, x, a)
  /\ \A p, a : Tree!Internal(p, a) = T!Internal(p, a)
  /\ \A k, v : Tree!Entry(k, v) = T!Entry(k, v)
  /\ \A n : Tree!IsInternal(n) <=> T!IsInternal(n)
  /\ \A n : Tree!LeafHasRoom(n) <=> T!LeafHasRoom(n)
  /\ \A n : Tree!InternalHasRoom(n) <=> T!InternalHasRoom(n)
  /\ \A n : Tree!MiddleKey(n) = T!MiddleKey(n)
  /\ \A a, m : Tree!Kept(a, m) = T!Kept(a, m) /\ Tree!Moved(a, m) = T!Moved(a, m)
  /\ \A n, k : Tree!LeafLookup(n, k) = T!LeafLookup(n, k)
  /\ \A n, k : Tree!ChildFor(n, k) = T!ChildFor(n, k)
  /\ \A n, k, v : Tree!LeafInsert(n, k, v) = T!LeafInsert(n, k, v)
  /\ \A n, k, v : Tree!InternalInsert(n, k, v) = T!InternalInsert(n, k, v)
<1>1. /\ Tree!BlankPage = T!BlankPage /\ Tree!NoPage = T!NoPage
      /\ \A p, x, a : Tree!Leaf(p, x, a) = T!Leaf(p, x, a)
      /\ \A p, a : Tree!Internal(p, a) = T!Internal(p, a)
      /\ \A k, v : Tree!Entry(k, v) = T!Entry(k, v)
      /\ \A n : Tree!IsInternal(n) <=> T!IsInternal(n)
      /\ \A n : Tree!LeafHasRoom(n) <=> T!LeafHasRoom(n)
      /\ \A n : Tree!InternalHasRoom(n) <=> T!InternalHasRoom(n)
      /\ \A n : Tree!MiddleKey(n) = T!MiddleKey(n)
      /\ \A a, m : Tree!Kept(a, m) = T!Kept(a, m) /\ Tree!Moved(a, m) = T!Moved(a, m)
  BY DEF Tree!BlankPage, T!BlankPage, Tree!NoPage, T!NoPage, Tree!Leaf, T!Leaf,
         Tree!Internal, T!Internal, Tree!Entry, T!Entry, Tree!IsInternal, T!IsInternal,
         Tree!LeafHasRoom, T!LeafHasRoom, Tree!InternalHasRoom, T!InternalHasRoom,
         Tree!MiddleKey, T!MiddleKey, Tree!Kept, T!Kept, Tree!Moved, T!Moved
<1>2. \A a, f, k : Tree!LowerBound(a, f, k) = T!LowerBound(a, f, k)
  BY DEF Tree!LowerBound, T!LowerBound, Tree!FirstNot, T!FirstNot
<1>3. \A a, f, k : Tree!UpperBound(a, f, k) = T!UpperBound(a, f, k)
  BY DEF Tree!UpperBound, T!UpperBound, Tree!FirstNot, T!FirstNot
<1>4. \A a, i, e : Tree!InsertAt(a, i, e) = T!InsertAt(a, i, e)
  BY DEF Tree!InsertAt, T!InsertAt
<1>5. \A n, k : Tree!LeafLookup(n, k) = T!LeafLookup(n, k)
  BY DEF Tree!LeafLookup, T!LeafLookup
<1>6. \A n, k : Tree!ChildFor(n, k) = T!ChildFor(n, k)
  BY <1>3 DEF Tree!ChildFor, T!ChildFor
<1>7. \A n, k, v : Tree!LeafInsert(n, k, v) = T!LeafInsert(n, k, v)
  BY <1>1, <1>2, <1>4 DEF Tree!LeafInsert, T!LeafInsert
<1>8. \A n, k, v : Tree!InternalInsert(n, k, v) = T!InternalInsert(n, k, v)
  BY <1>1, <1>2, <1>4 DEF Tree!InternalInsert, T!InternalInsert
<1> QED BY <1>1, <1>5, <1>6, <1>7, <1>8

LEMMA SameStatements ==
  /\ \A p, k, o, v : Tree!Descend(p, k, o, v) = T!Descend(p, k, o, v)
  /\ \A k, v : Tree!StartNewTree(k, v) = T!StartNewTree(k, v)
  /\ \A p, k, v : Tree!SplitLeaf(p, k, v) = T!SplitLeaf(p, k, v)
  /\ \A p, k, n : /\ Tree!InsertIntoParent(p, k, n) = T!InsertIntoParent(p, k, n)
                  /\ Tree!SplitInternal(p, k, n) = T!SplitInternal(p, k, n)
                  /\ Tree!PassUp(p, k, n) = T!PassUp(p, k, n)
  /\ \A p, i : Tree!AdoptChildren(p, i) = T!AdoptChildren(p, i)
  /\ \A p, d : Tree!UnpinPage(p, d) = T!UnpinPage(p, d)
  /\ \A r : Tree!Return(r) = T!Return(r)
  /\ \A e : Tree!Found(e) = T!Found(e)
  /\ \A k : Tree!Missing(k) = T!Missing(k)
  /\ \A k, v, ok : Tree!Inserted(k, v, ok) = T!Inserted(k, v, ok)
  /\ \A k, v : Tree!Refused(k, v) = T!Refused(k, v)
BY DEF Tree!Descend, T!Descend, Tree!StartNewTree, T!StartNewTree, Tree!SplitLeaf, T!SplitLeaf,
       Tree!InsertIntoParent, T!InsertIntoParent, Tree!SplitInternal, T!SplitInternal,
       Tree!PassUp, T!PassUp, Tree!AdoptChildren, T!AdoptChildren, Tree!UnpinPage, T!UnpinPage,
       Tree!Return, T!Return, Tree!Found, T!Found, Tree!Missing, T!Missing,
       Tree!Inserted, T!Inserted, Tree!Refused, T!Refused, Tree!Entry, T!Entry

LEMMA SameCalls ==
  /\ \A k, v : Tree!CallInsert(k, v) = T!CallInsert(k, v)
  /\ \A k : Tree!CallGetValue(k) = T!CallGetValue(k)
BY SameStatements DEF Tree!CallInsert, T!CallInsert, Tree!CallGetValue, T!CallGetValue,
   Tree!NoPage, T!NoPage

-----------------------------------------------------------------------------
(* The stack of the loop, with the calls of the tree on top.               *)

LEMMA AppendFacts ==
  ASSUME NEW S, NEW q \in Seq(S), NEW w \in S, NEW st, st = Append(q, w)
  PROVE  /\ st \in Seq(S) /\ st # <<>> /\ Len(st) = Len(q) + 1 /\ Len(q) \in Nat
         /\ st[Len(st)] = w /\ SubSeq(st, 1, Len(st) - 1) = q
         /\ \A i \in 1 .. Len(q) : st[i] = q[i]
         /\ st[1] = IF q = <<>> THEN w ELSE q[1]
         /\ Head(st) = st[1] /\ Tail(st) \in Seq(S)
         /\ q # <<>> => Tail(st) = Append(Tail(q), w) /\ Head(q) = q[1] /\ Tail(q) \in Seq(S)
         /\ q = <<>> => Tail(st) = <<>> /\ Len(q) = 0
<1>1. /\ st \in Seq(S) /\ st # <<>> /\ Len(st) = Len(q) + 1 /\ Len(q) \in Nat
      /\ st[Len(st)] = w /\ \A i \in 1 .. Len(q) : st[i] = q[i]
      /\ Head(st) = st[1] /\ Tail(st) \in Seq(S)
  BY AppendProperties, LenProperties, HeadTailProperties
<1>2. SubSeq(st, 1, Len(st) - 1) = q
  <2> DEFINE r == SubSeq(st, 1, Len(st) - 1)
  <2>1. r \in Seq(S) /\ Len(r) = Len(q) /\ \A i \in 1 .. Len(r) : r[i] = q[i]
    BY <1>1, SubSeqProperties
  <2> QED BY <2>1, SeqEqual
<1>3. q # <<>> => Len(q) > 0 /\ Head(q) = q[1] /\ Tail(q) \in Seq(S)
  BY <1>1, EmptySeq, HeadTailProperties
<1>4. q = <<>> => Len(q) = 0 /\ Tail(st) = <<>>
  BY <1>1, EmptySeq, HeadTailProperties
<1>5. ASSUME q # <<>>
      PROVE  Tail(st) = Append(Tail(q), w)
  <2> DEFINE a == Tail(st)
             b == Append(Tail(q), w)
  <2>1. a \in Seq(S) /\ Len(a) = Len(q) /\ \A i \in 1 .. Len(a) : a[i] = st[i + 1]
    BY <1>1, HeadTailProperties
  <2>2. /\ Tail(q) \in Seq(S) /\ Len(Tail(q)) = Len(q) - 1
        /\ \A i \in 1 .. Len(q) - 1 : Tail(q)[i] = q[i + 1]
    BY <1>3, <1>5, HeadTailProperties
  <2>3. b \in Seq(S) /\ Len(b) = Len(q) /\ b[Len(q)] = w
        /\ \A i \in 1 .. Len(q) - 1 : b[i] = Tail(q)[i]
    BY <2>2, <1>1, AppendProperties
  <2>4. \A i \in 1 .. Len(a) : a[i] = b[i]
    <3> SUFFICES ASSUME NEW i \in 1 .. Len(q) PROVE st[i + 1] = b[i]
      BY <2>1
    <3>1. CASE i = Len(q)
      BY <3>1, <2>3, <1>1
    <3>2. CASE i < Len(q)
      <4>1. i \in 1 .. Len(q) - 1 /\ i + 1 \in 1 .. Len(q)
        BY <3>2, <1>1
      <4>2. b[i] = q[i + 1]
        BY <4>1, <2>2, <2>3
      <4> QED BY <4>1, <4>2, <1>1
    <3> QED BY <3>1, <3>2, <1>1
  <2> HIDE DEF a, b
  <2>5. a = b
    BY <2>1, <2>3, <2>4, SeqEqual
  <2> QED BY <2>5 DEF a, b
<1> QED BY <1>1, <1>2, <1>3, <1>4, <1>5

LEMMA AppendTail ==
  ASSUME NEW S, NEW q \in Seq(S), NEW w \in S, q # <<>>, NEW xs \in Seq(S)
  PROVE  /\ xs \o Tail(Append(q, w)) = Append(xs \o Tail(q), w)
         /\ xs \o Tail(q) \in Seq(S)
<1>1. Tail(Append(q, w)) = Append(Tail(q), w) /\ Tail(q) \in Seq(S)
  BY AppendFacts
<1>2. xs \o Tail(q) \in Seq(S)
  BY <1>1, ConcatProperties
<1>3. xs \o Append(Tail(q), w) = Append(xs \o Tail(q), w)
  BY <1>1, ConcatProperties, AppendProperties, AppendIsConcat, ConcatAssociative
<1> QED BY <1>1, <1>2, <1>3

LEMMA ShortConcats ==
  \A a, b, c, d :
    /\ <<a, b, c>> \o <<d>> = <<a, b, c, d>>
    /\ <<a>> \o <<b, c, d>> = <<a, b, c, d>>
    /\ <<a>> \o <<b>> = <<a, b>>
    /\ <<a>> \o <<>> = <<a>>
<1> TAKE a, b, c, d
<1>1. PICK S : S = {a, b, c, d}
  OBVIOUS
<1>2. a \in S /\ b \in S /\ c \in S /\ d \in S
  BY <1>1
<1>3. <<a, b, c>> \o <<d>> = <<a, b, c, d>> /\ <<a>> \o <<b, c, d>> = <<a, b, c, d>>
  BY <1>2, TreeOK, T!ThreeAndOne, T!OneAndThree
<1>4. <<a>> \o <<b>> = <<a, b>>
  BY <1>2, TreeOK, T!PairOfOnes
<1>5. PICK t : t = <<a>>
  OBVIOUS
<1>6. t \in Seq(S)
  BY <1>2, <1>5
<1>7. t \o <<>> = t
  BY <1>6, ConcatEmptySeq
<1> QED BY <1>3, <1>4, <1>5, <1>7

InCall == AsksTree /\ calls # <<>>

LEMMA StackFacts ==
  ASSUME LoopInv, InCall
  PROVE  /\ calls \in Seq(T!Statement) /\ stack # <<>> /\ Head(stack) = stack[1]
         /\ stack[1] = calls[1] /\ Head(calls) = calls[1] /\ calls[1] \in T!Statement
         /\ ~Showing /\ other_pins = pins
         /\ kept = IF current = NoPage THEN {} ELSE {current}
         /\ \A do : T!Executing(do) <=> Tree!Executing(do)
<1> DEFINE w == stack[Len(stack)]
           S == T!Statement \cup {w}
<1>1. calls \in Seq(T!Statement) /\ calls # <<>>
  BY DEF LoopInv, T!IInv, T!StackInv, InCall
<1>2. stack = Append(calls, w) /\ w.do \in {"Acknowledge", "ShowRow"}
  BY DEF InCall, AsksTree, InTree
<1>3. calls \in Seq(S) /\ w \in S
  BY <1>1, SeqMonotonic
<1> HIDE DEF w, S
<1>4. /\ stack # <<>> /\ Len(stack) = Len(calls) + 1 /\ Len(calls) \in Nat
      /\ stack[1] = calls[1] /\ Head(stack) = stack[1] /\ Head(calls) = calls[1]
  BY <1>1, <1>2, <1>3, AppendFacts
<1>5. Len(calls) > 0 /\ calls[1] \in T!Statement
  BY <1>1, <1>4, EmptySeq, HeadTailProperties
<1>6. ~Showing
  BY <1>4, <1>5 DEF Showing
<1>7. stack[1].do # "OpenPage"
  BY <1>4, <1>5, TreeOK, T!StatementFields
<1>8. \A do : T!Executing(do) <=> Tree!Executing(do)
  BY <1>1, <1>4 DEF T!Executing, Tree!Executing
<1> QED BY <1>1, <1>4, <1>5, <1>6, <1>7, <1>8 DEF other_pins, kept

(* A statement of the tree is executed for the tree, except an UnpinPage.  *)
LEMMA OnlyCallsExecute ==
  ASSUME LoopInv, NEW do \in {"StartNewTree", "Descend", "SplitLeaf", "InsertIntoParent",
                              "SplitInternal", "AdoptChildren", "Return"},
         Tree!Executing(do)
  PROVE  InCall
<1>1. stack # <<>> /\ Head(stack).do = do
  BY DEF Tree!Executing
<1>2. ~Shows
  <2>1. ASSUME NEW p, stack = <<Tree!UnpinPage(p, FALSE)>>
        PROVE  FALSE
    BY <1>1, <2>1 DEF Tree!UnpinPage
  <2> QED BY <2>1 DEF Shows
<1>3. ASSUME NEW id, NEW n, Waits(id, n)
      PROVE  FALSE
  BY <1>1, <1>3 DEF Waits, OpenPage, ForRow, Tree!UnpinPage
<1>4. AsksTree
  BY <1>1, <1>2, <1>3 DEF LoopInv, StackShape
<1>5. ASSUME calls = <<>>
      PROVE  FALSE
  <2> DEFINE w == stack[Len(stack)]
  <2>1. stack = Append(<<>>, w) /\ w.do \in {"Acknowledge", "ShowRow"}
    BY <1>4, <1>5 DEF AsksTree, InTree
  <2> HIDE DEF w
  <2>2. Head(stack) = w
    BY <2>1
  <2> QED BY <1>1, <2>1, <2>2
<1> QED BY <1>4, <1>5 DEF InCall

(* What a statement of the tree leaves of the stack.                       *)
Continues ==
  /\ AsksTree' /\ ~Showing' /\ other_pins' = pins' /\ kept' = kept

LEMMA ThenMaps ==
  ASSUME LoopInv, InCall, NEW S, NEW xs \in Seq(S), \A x \in S : x.do # "OpenPage",
         Tree!Then(xs), current' = current
  PROVE  T!Then(xs) /\ Continues
<1> DEFINE w == stack[Len(stack)]
           U == S \cup T!Statement \cup {w}
           r == xs \o Tail(calls)
<1>1. /\ calls \in Seq(T!Statement) /\ calls # <<>>
      /\ kept = IF current = NoPage THEN {} ELSE {current}
  BY StackFacts DEF InCall
<1>2. stack = Append(calls, w) /\ w.do \in {"Acknowledge", "ShowRow"}
  BY DEF InCall, AsksTree, InTree
<1>3. /\ calls \in Seq(U) /\ w \in U /\ xs \in Seq(U)
      /\ \A x \in U : x.do # "OpenPage"
  BY <1>1, <1>2, SeqMonotonic, TreeOK, T!StatementFields
<1> HIDE DEF U
<1>4. stack' = Append(r, w) /\ r \in Seq(U)
  <2> HIDE DEF w
  <2> QED BY <1>1, <1>2, <1>3, AppendTail DEF Tree!Then
<1> HIDE DEF w, r
<1>5. PICK st : st = stack'
  OBVIOUS
<1>6. /\ st \in Seq(U) /\ st # <<>> /\ Len(st) = Len(r) + 1 /\ Len(r) \in Nat
      /\ st[Len(st)] = w /\ SubSeq(st, 1, Len(st) - 1) = r
      /\ st[1] = IF r = <<>> THEN w ELSE r[1]
      /\ r = <<>> => Len(r) = 0
  BY <1>3, <1>4, <1>5, AppendFacts
<1>7. InTree' /\ calls' = r
  BY <1>2, <1>5, <1>6 DEF InTree, calls
<1>8. AsksTree'
  BY <1>4, <1>5, <1>6, <1>7 DEF AsksTree
<1>9. st[1].do # "OpenPage"
  <2>1. 1 \in 1 .. Len(st)
    BY <1>6
  <2>2. st[1] \in U
    BY <1>6, <2>1, ElementOfSeq
  <2> QED BY <1>3, <2>2
<1>10. ~Showing'
  <2> SUFFICES ASSUME Len(st) = 1 PROVE st[1].do # "UnpinPage"
    BY <1>5 DEF Showing
  <2>1. st[1] = w
    BY <1>6
  <2> QED BY <1>2, <2>1
<1>11. other_pins' = pins'
  BY <1>10 DEF other_pins
<1>12. kept' = kept
  BY <1>1, <1>5, <1>9 DEF kept
<1> QED BY <1>7, <1>8, <1>10, <1>11, <1>12 DEF T!Then, r, Continues

LEMMA ThenNothing ==
  ASSUME LoopInv, InCall, Tree!Then(<<>>), current' = current
  PROVE  T!Then(<<>>) /\ Continues
<1> DEFINE xs == <<>>
           S  == {x \in {0} : FALSE}
<1>1. xs \in Seq(S) /\ (\A x \in S : x.do # "OpenPage") /\ Tree!Then(xs)
  BY EmptySeq
<1> HIDE DEF xs, S
<1>2. T!Then(xs) /\ Continues
  BY <1>1, ThenMaps
<1> QED BY <1>2 DEF xs

LEMMA ThenOne ==
  ASSUME LoopInv, InCall, NEW a, a.do # "OpenPage", Tree!Then(<<a>>), current' = current
  PROVE  T!Then(<<a>>) /\ Continues
<1> DEFINE xs == <<a>>
           S  == {a}
<1>1. xs \in Seq(S) /\ (\A x \in S : x.do # "OpenPage") /\ Tree!Then(xs)
  OBVIOUS
<1> HIDE DEF xs, S
<1>2. T!Then(xs) /\ Continues
  BY <1>1, ThenMaps
<1> QED BY <1>2 DEF xs

LEMMA ThenTwo ==
  ASSUME LoopInv, InCall, NEW a, NEW b, a.do # "OpenPage", b.do # "OpenPage",
         Tree!Then(<<a, b>>), current' = current
  PROVE  T!Then(<<a, b>>) /\ Continues
<1> DEFINE xs == <<a, b>>
           S  == {a, b}
<1>1. xs \in Seq(S) /\ (\A x \in S : x.do # "OpenPage") /\ Tree!Then(xs)
  OBVIOUS
<1> HIDE DEF xs, S
<1>2. T!Then(xs) /\ Continues
  BY <1>1, ThenMaps
<1> QED BY <1>2 DEF xs

LEMMA ThenFour ==
  ASSUME LoopInv, InCall, NEW a, NEW b, NEW c, NEW d,
         a.do # "OpenPage", b.do # "OpenPage", c.do # "OpenPage", d.do # "OpenPage",
         Tree!Then(<<a, b, c, d>>), current' = current
  PROVE  T!Then(<<a, b, c, d>>) /\ Continues
<1> DEFINE xs == <<a, b, c, d>>
           S  == {a, b, c, d}
<1>1. xs \in Seq(S) /\ (\A x \in S : x.do # "OpenPage") /\ Tree!Then(xs)
  OBVIOUS
<1> HIDE DEF xs, S
<1>2. T!Then(xs) /\ Continues
  BY <1>1, ThenMaps
<1> QED BY <1>2 DEF xs

-----------------------------------------------------------------------------
(* The pages, and what the tree sees of them.                              *)

IsPages(c) == c = [p \in PageId |-> c[p]]

LEMMA BlankedIs ==
  /\ \A c : IsPages(Blanked(c))
  /\ \A c, p : p \in PageId =>
       Blanked(c)[p] = IF IsData(c[p]) THEN T!BlankPage ELSE c[p]
<1>1. Tree!BlankPage = T!BlankPage
  BY SameNodeOperators
<1> QED BY <1>1 DEF Blanked, IsPages

LEMMA TreePagesAreNoData ==
  /\ ~IsData(T!BlankPage)
  /\ \A n : T!LeafOK(n) \/ T!InternalOK(n) => ~IsData(n) /\ "type" \in DOMAIN n
BY DEF IsData, T!BlankPage, T!LeafOK, T!InternalOK, T!LeafRecord, T!InternalRecord

LEMMA NodesAreReal ==
  ASSUME T!IInv, NEW p \in T!Nodes
  PROVE  /\ p \in PageId /\ contents[p] = nodes[p] /\ ~IsData(contents[p])
         /\ "type" \in DOMAIN contents[p]
         /\ T!LeafOK(contents[p]) \/ T!InternalOK(contents[p])
<1>1. p \in PageId /\ (T!LeafOK(nodes[p]) \/ T!InternalOK(nodes[p]))
  BY TPages, TreeOK, T!NodeFacts DEF T!IInv, T!Nodes
<1>2. nodes[p] # T!BlankPage /\ ~IsData(nodes[p]) /\ "type" \in DOMAIN nodes[p]
  BY <1>1, TreePagesAreNoData
     DEF T!BlankPage, T!LeafOK, T!InternalOK, T!LeafRecord, T!InternalRecord
<1>3. contents[p] = nodes[p]
  BY <1>1, <1>2, BlankedIs DEF nodes
<1> QED BY <1>1, <1>2, <1>3

(* c is what the pages become, d what the tree takes them for.             *)
Agree(c, d) ==
  /\ IsPages(c) /\ IsPages(d)
  /\ \A p \in PageId :
       \/ c[p] = contents[p] /\ d[p] = nodes[p]
       \/ c[p] = d[p] /\ ~IsData(c[p]) /\ ~IsData(contents[p])

(* No row is written.                                                      *)
DataStays ==
  /\ IsPages(contents')
  /\ \A p \in PageId : IsData(contents'[p]) <=> IsData(contents[p])
  /\ \A p \in PageId : IsData(contents[p]) => contents'[p] = contents[p]
  /\ touched' \subseteq touched \cup {p \in PageId : ~IsData(contents[p])}

LEMMA AssignMaps ==
  ASSUME PageInv, NEW c, NEW d, Agree(c, d), Tree!Assign(c)
  PROVE  T!Assign(d) /\ DataStays
<1>1. /\ contents' = c
      /\ touched' = touched \cup {p \in PageId : c[p] # contents[p]}
  BY TPages DEF Tree!Assign
<1>2. IsPages(contents) /\ touched \subseteq PageId
  BY DEF PageInv, IsPages
<1>3. \A p \in PageId :
        /\ IsData(c[p]) <=> IsData(contents[p])
        /\ IsData(c[p]) => c[p] = contents[p]
  BY DEF Agree
<1>4. ASSUME NEW p \in PageId
      PROVE  /\ Blanked(c)[p] = d[p]
             /\ ~IsData(c[p]) => (c[p] # contents[p] <=> d[p] # nodes[p])
  BY <1>3, BlankedIs DEF Agree, nodes
<1>5. Blanked(c) = d
  BY <1>4, BlankedIs DEF Agree, IsPages
<1>6. nodes' = d
  BY <1>1, <1>5 DEF nodes
<1>7. node_touched' = {p \in touched' : ~IsData(c[p])}
  BY <1>1 DEF node_touched
<1>8. node_touched' = node_touched \cup {p \in PageId : d[p] # nodes[p]}
  <2>1. ASSUME NEW p \in PageId
        PROVE  IsData(c[p]) => d[p] = nodes[p]
    BY <1>3, BlankedIs DEF Agree, nodes
  <2> QED BY <1>1, <1>2, <1>3, <1>4, <1>7, <2>1 DEF node_touched
<1>9. T!Assign(d)
  BY <1>6, <1>8, TPages DEF T!Assign
<1>10. DataStays
  BY <1>1, <1>3 DEF DataStays, Agree
<1> QED BY <1>9, <1>10

LEMMA FetchMaps ==
  ASSUME PageInv, NEW c, NEW d, Agree(c, d), NEW p, Tree!FetchPage(p, c),
         other_pins = pins, Continues
  PROVE  T!FetchPage(p, d) /\ DataStays /\ num_pages' = num_pages
<1>1. /\ Tree!Pool!CanPin(p) /\ pins' = Tree!Pool!PlusPin(p) /\ Tree!Assign(c)
      /\ UNCHANGED <<num_pages, crashed>>
  BY DEF Tree!FetchPage
<1>2. T!Pool!CanPin(p)
  BY <1>1, SameRoom DEF Tree!Pool!CanPin, T!Pool!CanPin
<1>3. other_pins' = T!Pool!PlusPin(p)
  BY <1>1 DEF Continues, Tree!Pool!PlusPin, T!Pool!PlusPin
<1> QED BY <1>1, <1>2, <1>3, AssignMaps DEF T!FetchPage

LEMMA NewMaps ==
  ASSUME PageInv, NEW c, NEW d, Agree(c, d), Tree!NewPage(c),
         other_pins = pins, Continues
  PROVE  T!NewPage(d) /\ DataStays /\ num_pages' = num_pages + 1
<1>1. /\ Tree!Pool!HasRoom /\ num_pages \in PageId /\ pins' = Tree!Pool!PlusPin(num_pages)
      /\ num_pages' = num_pages + 1 /\ Tree!Assign(c) /\ UNCHANGED crashed
  BY TPages DEF Tree!NewPage
<1>2. T!Pool!HasRoom
  BY <1>1, SameRoom
<1>3. other_pins' = T!Pool!PlusPin(num_pages)
  BY <1>1 DEF Continues, Tree!Pool!PlusPin, T!Pool!PlusPin
<1> QED BY <1>1, <1>2, <1>3, TPages, AssignMaps DEF T!NewPage

LEMMA SameAgree == ASSUME PageInv PROVE Agree(contents, nodes)
BY BlankedIs DEF Agree, PageInv, IsPages, nodes

LEMMA PutAgree ==
  ASSUME PageInv, NEW a \in PageId, ~IsData(contents[a]), NEW x, ~IsData(x)
  PROVE  Agree([contents EXCEPT ![a] = x], [nodes EXCEPT ![a] = x])
<1>1. IsPages(contents) /\ IsPages(nodes)
  BY BlankedIs DEF PageInv, IsPages, nodes
<1> DEFINE c == [contents EXCEPT ![a] = x]
           d == [nodes EXCEPT ![a] = x]
<1>2. IsPages(c) /\ IsPages(d)
  BY <1>1 DEF IsPages
<1>3. \A p \in PageId : /\ c[p] = IF p = a THEN x ELSE contents[p]
                        /\ d[p] = IF p = a THEN x ELSE nodes[p]
  BY <1>1 DEF IsPages
<1> HIDE DEF c, d
<1>4. Agree(c, d)
  BY <1>2, <1>3 DEF Agree
<1> QED BY <1>4 DEF c, d

LEMMA PutTwoAgree ==
  ASSUME PageInv, NEW a \in PageId, ~IsData(contents[a]), NEW x, ~IsData(x),
         NEW b \in PageId, ~IsData(contents[b]), NEW y, ~IsData(y), a # b
  PROVE  Agree([contents EXCEPT ![a] = x, ![b] = y], [nodes EXCEPT ![a] = x, ![b] = y])
<1>1. IsPages(contents) /\ IsPages(nodes)
  BY BlankedIs DEF PageInv, IsPages, nodes
<1> DEFINE c == [contents EXCEPT ![a] = x, ![b] = y]
           d == [nodes EXCEPT ![a] = x, ![b] = y]
<1>2. IsPages(c) /\ IsPages(d)
  BY <1>1 DEF IsPages
<1>3. \A p \in PageId : /\ c[p] = IF p = b THEN y ELSE IF p = a THEN x ELSE contents[p]
                        /\ d[p] = IF p = b THEN y ELSE IF p = a THEN x ELSE nodes[p]
  BY <1>1 DEF IsPages
<1> HIDE DEF c, d
<1>4. Agree(c, d)
  BY <1>2, <1>3 DEF Agree
<1> QED BY <1>4 DEF c, d

LEMMA InsertsKeepType ==
  ASSUME NEW n, "type" \in DOMAIN n, NEW k, NEW v
  PROVE  T!LeafInsert(n, k, v).type = n.type /\ T!InternalInsert(n, k, v).type = n.type
BY DEF T!LeafInsert, T!InternalInsert

-----------------------------------------------------------------------------
(* Every step of the tree is one of the tree alone.                        *)

Effect == Continues /\ DataStays /\ num_pages' \in {num_pages, num_pages + 1}

LEMMA SamePages ==
  ASSUME LoopInv, InCall, UNCHANGED <<contents, touched, num_pages>>, Continues
  PROVE  Effect /\ nodes' = nodes /\ node_touched' = node_touched
<1>1. DataStays
  BY DEF LoopInv, PageInv, DataStays, IsPages
<1> QED BY <1>1 DEF Effect, nodes, Blanked, node_touched

LEMMA CrashMaps ==
  ASSUME LoopInv, InCall, Tree!Crash, current' = current
  PROVE  T!Crash /\ Effect
<1>1. /\ UNCHANGED <<contents, num_pages, pins, touched, root_page_id, stack>>
      /\ crashed' = TRUE
  BY DEF Tree!Crash, Tree!pool
<1>2. /\ InTree' = InTree /\ calls' = calls /\ other_pins' = other_pins /\ kept' = kept
      /\ Showing' = Showing /\ AsksTree' = AsksTree
  BY <1>1 DEF InTree, calls, other_pins, kept, Showing, AsksTree
<1>3. Continues
  BY <1>1, <1>2, StackFacts DEF Continues, InCall
<1>4. Effect /\ nodes' = nodes /\ node_touched' = node_touched
  BY <1>1, <1>3, SamePages
<1> QED BY <1>1, <1>2, <1>4 DEF T!Crash, T!pool

LEMMA FetchFailsMaps ==
  ASSUME LoopInv, Tree!FetchFails, current' = current
  PROVE  T!FetchFails /\ Effect
<1>1. Tree!Executing("Descend") /\ ~Tree!Pool!CanPin(Head(stack).page) /\ Tree!Crash
  BY DEF Tree!FetchFails
<1>2. InCall
  BY <1>1, OnlyCallsExecute
<1>3. T!Crash /\ Effect /\ T!Executing("Descend") /\ Head(calls) = Head(stack) /\ other_pins = pins
  BY <1>1, <1>2, CrashMaps, StackFacts
<1>4. ~T!Pool!CanPin(Head(calls).page)
  BY <1>1, <1>3, SameRoom DEF Tree!Pool!CanPin, T!Pool!CanPin
<1> QED BY <1>3, <1>4 DEF T!FetchFails

LEMMA PassInternalMaps ==
  ASSUME LoopInv, Tree!PassInternal, current' = current
  PROVE  T!PassInternal /\ Effect
<1> DEFINE s    == Head(stack)
           node == contents[s.page]
           xs   == <<Tree!UnpinPage(s.page, FALSE),
                     Tree!Descend(Tree!ChildFor(node, s.key), s.key, s.op, s.value)>>
<1>1. /\ Tree!Executing("Descend") /\ Tree!IsInternal(node)
      /\ Tree!FetchPage(s.page, contents) /\ Tree!Then(xs) /\ UNCHANGED root_page_id
  BY DEF Tree!PassInternal
<1>2. InCall
  BY <1>1, OnlyCallsExecute
<1>3. T!Executing("Descend") /\ Head(calls) = s /\ other_pins = pins
  BY <1>1, <1>2, StackFacts
<1>4. s.page \in T!Nodes
  BY <1>3, TreeOK, T!DescendHead DEF LoopInv
<1>5. nodes[s.page] = node
  BY <1>4, NodesAreReal DEF LoopInv
<1> HIDE DEF s
<1>6. T!Then(xs) /\ Continues
  <2> DEFINE S == {xs[1], xs[2]}
  <2>1. xs \in Seq(S) /\ \A x \in S : x.do # "OpenPage"
    BY DEF Tree!UnpinPage, Tree!Descend
  <2> HIDE DEF S, xs
  <2> QED BY <1>1, <1>2, <2>1, ThenMaps
<1>7. T!FetchPage(s.page, nodes) /\ DataStays /\ num_pages' = num_pages
  BY <1>1, <1>3, <1>6, SameAgree, FetchMaps DEF LoopInv
<1>8. xs = <<T!UnpinPage(s.page, FALSE),
             T!Descend(T!ChildFor(nodes[s.page], s.key), s.key, s.op, s.value)>>
  BY <1>5, SameStatements, SameNodeOperators
<1>9. T!IsInternal(nodes[s.page])
  BY <1>1, <1>5, SameNodeOperators
<1> HIDE DEF xs, node
<1> QED BY <1>1, <1>3, <1>6, <1>7, <1>8, <1>9 DEF T!PassInternal, Effect

LEMMA LookUpInLeafMaps ==
  ASSUME LoopInv, Tree!LookUpInLeaf, current' = current
  PROVE  T!LookUpInLeaf /\ Effect
<1> DEFINE s    == Head(stack)
           leaf == contents[s.page]
           hit  == Tree!LeafLookup(leaf, s.key)
           xs   == <<Tree!UnpinPage(s.page, FALSE),
                     Tree!Return(IF hit = 0 THEN Tree!Missing(s.key)
                                 ELSE Tree!Found(Tree!Entry(s.key, leaf.array[hit].value)))>>
<1>1. /\ Tree!Executing("Descend") /\ s.op = "GetValue" /\ ~Tree!IsInternal(leaf)
      /\ Tree!FetchPage(s.page, contents) /\ Tree!Then(xs) /\ UNCHANGED root_page_id
  BY DEF Tree!LookUpInLeaf
<1>2. InCall
  BY <1>1, OnlyCallsExecute
<1>3. T!Executing("Descend") /\ Head(calls) = s /\ other_pins = pins
  BY <1>1, <1>2, StackFacts
<1>4. s.page \in T!Nodes
  BY <1>3, TreeOK, T!DescendHead DEF LoopInv
<1>5. nodes[s.page] = leaf
  BY <1>4, NodesAreReal DEF LoopInv
<1> HIDE DEF s
<1>6. T!Then(xs) /\ Continues
  <2> DEFINE S == {xs[1], xs[2]}
  <2>1. xs \in Seq(S) /\ \A x \in S : x.do # "OpenPage"
    BY DEF Tree!UnpinPage, Tree!Return
  <2> HIDE DEF S, xs
  <2> QED BY <1>1, <1>2, <2>1, ThenMaps
<1>7. T!FetchPage(s.page, nodes) /\ DataStays /\ num_pages' = num_pages
  BY <1>1, <1>3, <1>6, SameAgree, FetchMaps DEF LoopInv
<1>8. xs = <<T!UnpinPage(s.page, FALSE),
             T!Return(IF T!LeafLookup(nodes[s.page], s.key) = 0 THEN T!Missing(s.key)
                      ELSE T!Found(T!Entry(s.key,
                             nodes[s.page].array[T!LeafLookup(nodes[s.page], s.key)].value)))>>
  BY <1>5, SameStatements, SameNodeOperators
<1>9. ~T!IsInternal(nodes[s.page])
  BY <1>1, <1>5, SameNodeOperators
<1> HIDE DEF xs, leaf, hit
<1> QED BY <1>1, <1>3, <1>6, <1>7, <1>8, <1>9 DEF T!LookUpInLeaf, Effect

LEMMA DoReturnMaps ==
  ASSUME LoopInv, Tree!DoReturn, current' = current
  PROVE  T!DoReturn /\ Effect
<1>1. /\ Tree!Executing("Return") /\ reply' = Head(stack).answer /\ Tree!Then(<<>>)
      /\ UNCHANGED <<contents, num_pages, pins, touched, root_page_id, crashed, inserts>>
  BY DEF Tree!DoReturn, Tree!pool
<1>2. InCall
  BY <1>1, OnlyCallsExecute
<1>3. T!Executing("Return") /\ Head(calls) = Head(stack) /\ other_pins = pins
  BY <1>1, <1>2, StackFacts
<1>4. T!Then(<<>>) /\ Continues
  BY <1>1, <1>2, ThenNothing
<1>5. Effect /\ nodes' = nodes /\ node_touched' = node_touched
  BY <1>1, <1>2, <1>4, SamePages
<1>6. other_pins' = other_pins /\ kept' = kept
  BY <1>1, <1>3, <1>4 DEF Continues
<1> QED BY <1>1, <1>3, <1>4, <1>5, <1>6 DEF T!DoReturn, T!pool

LEMMA DoStartNewTreeMaps ==
  ASSUME LoopInv, Tree!DoStartNewTree, current' = current
  PROVE  T!DoStartNewTree /\ Effect
<1> DEFINE s == Head(stack)
           r == Tree!Return(Tree!Inserted(s.key, s.value, TRUE))
           u == Tree!UnpinPage(num_pages, TRUE)
           x == Tree!LeafInsert(Tree!Leaf(Tree!NoPage, Tree!NoPage, <<>>), s.key, s.value)
<1>1. Tree!Executing("StartNewTree")
  BY DEF Tree!DoStartNewTree
<1>2. InCall
  BY <1>1, OnlyCallsExecute
<1>3. T!Executing("StartNewTree") /\ Head(calls) = s /\ other_pins = pins
  BY <1>1, <1>2, StackFacts
<1>4. /\ r = T!Return(T!Inserted(s.key, s.value, TRUE)) /\ u = T!UnpinPage(num_pages, TRUE)
      /\ x = T!LeafInsert(T!Leaf(T!NoPage, T!NoPage, <<>>), s.key, s.value)
  BY SameStatements, SameNodeOperators
<1>5. r.do # "OpenPage" /\ u.do # "OpenPage"
  BY DEF Tree!UnpinPage, Tree!Return
<1>6. \/ /\ Tree!NewPage([contents EXCEPT ![num_pages] = x])
         /\ root_page_id' = num_pages /\ Tree!Then(<<u, r>>)
      \/ /\ ~Tree!Pool!HasRoom /\ Tree!Then(<<r>>)
         /\ UNCHANGED <<Tree!pool, root_page_id, crashed>>
  BY DEF Tree!DoStartNewTree
<1>7. ~IsData(x)
  <2>1. /\ "type" \in DOMAIN T!Leaf(T!NoPage, T!NoPage, <<>>)
        /\ T!Leaf(T!NoPage, T!NoPage, <<>>).type = "leaf"
    BY DEF T!Leaf
  <2> HIDE DEF x
  <2>2. x.type = "leaf"
    BY <1>4, <2>1, InsertsKeepType
  <2> QED BY <2>2 DEF IsData
<1> HIDE DEF s, r, u, x
<1>8. CASE /\ ~Tree!Pool!HasRoom /\ Tree!Then(<<r>>)
           /\ UNCHANGED <<Tree!pool, root_page_id, crashed>>
  <2>1. T!Then(<<r>>) /\ Continues
    BY <1>2, <1>5, <1>8, ThenOne
  <2>2. UNCHANGED <<contents, num_pages, pins, touched>>
    BY <1>8 DEF Tree!pool
  <2>3. Effect /\ nodes' = nodes /\ node_touched' = node_touched /\ other_pins' = other_pins
    BY <1>2, <1>3, <2>1, <2>2, SamePages DEF Continues
  <2>4. ~T!Pool!HasRoom
    BY <1>3, <1>8, SameRoom
  <2> QED BY <1>3, <1>4, <1>8, <2>1, <2>2, <2>3, <2>4 DEF T!DoStartNewTree, T!pool
<1>9. CASE /\ Tree!NewPage([contents EXCEPT ![num_pages] = x])
           /\ root_page_id' = num_pages /\ Tree!Then(<<u, r>>)
  <2>1. num_pages \in PageId /\ ~IsData(contents[num_pages])
    <3>1. num_pages \in PageId
      BY <1>9, TPages DEF Tree!NewPage
    <3> QED BY <3>1 DEF LoopInv, PageInv, PageId
  <2>2. T!Then(<<u, r>>) /\ Continues
    BY <1>2, <1>5, <1>9, ThenTwo
  <2>3. Agree([contents EXCEPT ![num_pages] = x], [nodes EXCEPT ![num_pages] = x])
    BY <1>7, <2>1, PutAgree DEF LoopInv
  <2>4. T!NewPage([nodes EXCEPT ![num_pages] = x]) /\ DataStays /\ num_pages' = num_pages + 1
    BY <1>3, <1>9, <2>2, <2>3, NewMaps DEF LoopInv
  <2>5. T!DoStartNewTree
    BY <1>3, <1>4, <1>9, <2>2, <2>4 DEF T!DoStartNewTree
  <2> QED BY <2>2, <2>4, <2>5 DEF Effect
<1> QED BY <1>6, <1>8, <1>9

LEMMA InsertIntoLeafMaps ==
  ASSUME LoopInv, Tree!InsertIntoLeaf, current' = current
  PROVE  T!InsertIntoLeaf /\ Effect
<1> DEFINE s    == Head(stack)
           leaf == contents[s.page]
           u    == Tree!UnpinPage(s.page, TRUE)
           r    == Tree!Return(Tree!Inserted(s.key, s.value, TRUE))
           x    == Tree!LeafInsert(leaf, s.key, s.value)
           w    == Tree!SplitLeaf(s.page, s.key, s.value)
<1>1. Tree!Executing("Descend") /\ s.op = "Insert" /\ ~Tree!IsInternal(leaf)
  BY DEF Tree!InsertIntoLeaf
<1>2. InCall
  BY <1>1, OnlyCallsExecute
<1>3. T!Executing("Descend") /\ Head(calls) = s /\ other_pins = pins
  BY <1>1, <1>2, StackFacts
<1>4. s.page \in T!Nodes
  BY <1>3, TreeOK, T!DescendHead DEF LoopInv
<1>5. /\ s.page \in PageId /\ nodes[s.page] = leaf /\ ~IsData(leaf) /\ "type" \in DOMAIN leaf
  BY <1>4, NodesAreReal DEF LoopInv
<1>6. /\ u = T!UnpinPage(s.page, TRUE) /\ r = T!Return(T!Inserted(s.key, s.value, TRUE))
      /\ x = T!LeafInsert(leaf, s.key, s.value) /\ w = T!SplitLeaf(s.page, s.key, s.value)
      /\ Tree!LeafHasRoom(leaf) <=> T!LeafHasRoom(leaf)
      /\ ~T!IsInternal(leaf)
  BY <1>1, SameStatements, SameNodeOperators
<1>7. u.do # "OpenPage" /\ r.do # "OpenPage" /\ w.do # "OpenPage"
  BY DEF Tree!UnpinPage, Tree!Return, Tree!SplitLeaf
<1>8. \/ /\ Tree!LeafHasRoom(leaf) /\ Tree!Then(<<u, r>>) /\ UNCHANGED root_page_id
         /\ Tree!FetchPage(s.page, [contents EXCEPT ![s.page] = x])
      \/ /\ ~Tree!LeafHasRoom(leaf) /\ Tree!Then(<<w>>) /\ UNCHANGED root_page_id
         /\ Tree!FetchPage(s.page, contents)
  BY DEF Tree!InsertIntoLeaf
<1>9. ~IsData(x)
  BY <1>5, <1>6, InsertsKeepType DEF IsData
<1> HIDE DEF s, leaf, u, r, x, w
<1>10. CASE /\ Tree!LeafHasRoom(leaf) /\ Tree!Then(<<u, r>>) /\ UNCHANGED root_page_id
            /\ Tree!FetchPage(s.page, [contents EXCEPT ![s.page] = x])
  <2>1. T!Then(<<u, r>>) /\ Continues
    BY <1>2, <1>7, <1>10, ThenTwo
  <2>2. Agree([contents EXCEPT ![s.page] = x], [nodes EXCEPT ![s.page] = x])
    BY <1>5, <1>9, PutAgree DEF LoopInv, leaf
  <2>3. T!FetchPage(s.page, [nodes EXCEPT ![s.page] = x]) /\ DataStays /\ num_pages' = num_pages
    BY <1>3, <1>10, <2>1, <2>2, FetchMaps DEF LoopInv
  <2> QED BY <1>1, <1>3, <1>5, <1>6, <1>10, <2>1, <2>3 DEF T!InsertIntoLeaf, Effect
<1>11. CASE /\ ~Tree!LeafHasRoom(leaf) /\ Tree!Then(<<w>>) /\ UNCHANGED root_page_id
            /\ Tree!FetchPage(s.page, contents)
  <2>1. T!Then(<<w>>) /\ Continues
    BY <1>2, <1>7, <1>11, ThenOne
  <2>2. T!FetchPage(s.page, nodes) /\ DataStays /\ num_pages' = num_pages
    BY <1>3, <1>11, <2>1, SameAgree, FetchMaps DEF LoopInv
  <2> QED BY <1>1, <1>3, <1>5, <1>6, <1>11, <2>1, <2>2 DEF T!InsertIntoLeaf, Effect
<1> QED BY <1>8, <1>10, <1>11

LEMMA DoSplitLeafMaps ==
  ASSUME LoopInv, Tree!DoSplitLeaf, current' = current
  PROVE  T!DoSplitLeaf /\ Effect
<1> DEFINE s      == Head(stack)
           leaf   == contents[s.page]
           new    == num_pages
           right  == Tree!Leaf(leaf.parent, leaf.next, Tree!Moved(leaf.array, LEAF_MAX))
           left   == Tree!Leaf(leaf.parent, new, Tree!Kept(leaf.array, LEAF_MAX))
           middle == Tree!MiddleKey(right)
           x == IF s.key < middle THEN Tree!LeafInsert(left, s.key, s.value) ELSE left
           y == IF s.key < middle THEN right ELSE Tree!LeafInsert(right, s.key, s.value)
           a == Tree!InsertIntoParent(s.page, middle, new)
           b == Tree!UnpinPage(s.page, TRUE)
           c == Tree!UnpinPage(new, TRUE)
           d == Tree!Return(Tree!Inserted(s.key, s.value, TRUE))
           f == Tree!Return(Tree!Refused(s.key, s.value))
<1>1. Tree!Executing("SplitLeaf")
  BY DEF Tree!DoSplitLeaf
<1>2. InCall
  BY <1>1, OnlyCallsExecute
<1>3. T!Executing("SplitLeaf") /\ Head(calls) = s /\ other_pins = pins
  BY <1>1, <1>2, StackFacts
<1>4. s.page \in T!Nodes
  <2>1. s.do = "SplitLeaf" /\ T!IsReady(s)
    BY <1>3, TreeOK, T!HeadProps DEF LoopInv, T!IInv
  <2> QED BY <2>1 DEF T!IsReady, T!Nodes
<1>5. s.page \in PageId /\ nodes[s.page] = leaf /\ ~IsData(leaf)
  BY <1>4, NodesAreReal DEF LoopInv
<1>6. UNCHANGED root_page_id /\
      \/ /\ Tree!NewPage([contents EXCEPT ![s.page] = x, ![new] = y])
         /\ Tree!Then(Tree!PassUp(s.page, middle, new) \o <<d>>)
      \/ /\ ~Tree!Pool!HasRoom /\ Tree!Then(<<f>>)
         /\ UNCHANGED <<Tree!pool, crashed>>
  BY DEF Tree!DoSplitLeaf
<1>7. /\ a.do # "OpenPage" /\ b.do # "OpenPage" /\ c.do # "OpenPage" /\ d.do # "OpenPage"
      /\ f.do # "OpenPage"
  BY DEF Tree!UnpinPage, Tree!Return, Tree!InsertIntoParent
<1>8. Tree!PassUp(s.page, middle, new) \o <<d>> = <<a, b, c, d>>
  <2>1. Tree!PassUp(s.page, middle, new) = <<a, b, c>>
    BY DEF Tree!PassUp
  <2> HIDE DEF a, b, c, d
  <2>2. <<a, b, c>> \o <<d>> = <<a, b, c, d>>
    BY ShortConcats
  <2> QED BY <2>1, <2>2, Zenon
<1>9. ~IsData(x) /\ ~IsData(y)
  <2>1. /\ "type" \in DOMAIN left /\ left.type = "leaf"
        /\ "type" \in DOMAIN right /\ right.type = "leaf"
    BY DEF Tree!Leaf
  <2> HIDE DEF left, right, middle
  <2>2. /\ Tree!LeafInsert(left, s.key, s.value).type = "leaf"
        /\ Tree!LeafInsert(right, s.key, s.value).type = "leaf"
    BY <2>1, InsertsKeepType, SameNodeOperators
  <2> QED BY <2>1, <2>2 DEF IsData
<1>10. CASE /\ ~Tree!Pool!HasRoom /\ Tree!Then(<<f>>)
            /\ UNCHANGED <<Tree!pool, crashed, root_page_id>>
  <2>1. f = T!Return(T!Refused(s.key, s.value))
    BY SameStatements
  <2> HIDE DEF f, s
  <2>2. T!Then(<<f>>) /\ Continues
    BY <1>2, <1>7, <1>10, ThenOne
  <2>3. UNCHANGED <<contents, num_pages, pins, touched>>
    BY <1>10 DEF Tree!pool
  <2>4. Effect /\ nodes' = nodes /\ node_touched' = node_touched /\ other_pins' = other_pins
    BY <1>2, <1>3, <2>2, <2>3, SamePages DEF Continues
  <2>5. ~T!Pool!HasRoom
    BY <1>3, <1>10, SameRoom
  <2> QED BY <1>3, <1>10, <2>1, <2>2, <2>3, <2>4, <2>5 DEF T!DoSplitLeaf, T!pool
<1>11. CASE /\ Tree!NewPage([contents EXCEPT ![s.page] = x, ![new] = y])
            /\ Tree!Then(<<a, b, c, d>>) /\ UNCHANGED root_page_id
  <2> DEFINE tright  == T!Leaf(leaf.parent, leaf.next, T!Moved(leaf.array, LEAF_MAX))
             tleft   == T!Leaf(leaf.parent, new, T!Kept(leaf.array, LEAF_MAX))
             tmiddle == T!MiddleKey(tright)
  <2>1. right = tright /\ left = tleft /\ middle = tmiddle
    BY SameNodeOperators
  <2>2. /\ T!PassUp(s.page, middle, new) \o
             <<T!Return(T!Inserted(s.key, s.value, TRUE))>> = <<a, b, c, d>>
        /\ x = IF s.key < middle THEN T!LeafInsert(left, s.key, s.value) ELSE left
        /\ y = IF s.key < middle THEN right ELSE T!LeafInsert(right, s.key, s.value)
    BY <1>8, SameStatements, SameNodeOperators
  <2> HIDE DEF a, b, c, d, x, y
  <2>3. T!Then(<<a, b, c, d>>) /\ Continues
    BY <1>2, <1>7, <1>11, ThenFour
  <2>4. new \in PageId /\ ~IsData(contents[new]) /\ new # s.page
    <3>1. new \in PageId
      BY <1>11, TPages DEF Tree!NewPage
    <3>2. new \notin T!Nodes
      BY TreeOK, T!NodeFacts DEF LoopInv, T!IInv
    <3> QED BY <3>1, <3>2, <1>4 DEF LoopInv, PageInv, PageId
  <2>5. Agree([contents EXCEPT ![s.page] = x, ![new] = y],
              [nodes EXCEPT ![s.page] = x, ![new] = y])
    BY <1>5, <1>9, <2>4, PutTwoAgree DEF LoopInv
  <2>6. /\ T!NewPage([nodes EXCEPT ![s.page] = x, ![new] = y]) /\ DataStays
        /\ num_pages' = num_pages + 1
    BY <1>3, <1>11, <2>3, <2>5, NewMaps DEF LoopInv
  <2> HIDE DEF right, left, middle
  <2>7. T!DoSplitLeaf
    <3>1. T!NewPage([nodes EXCEPT
             ![s.page] = IF s.key < tmiddle THEN T!LeafInsert(tleft, s.key, s.value) ELSE tleft,
             ![new]    = IF s.key < tmiddle THEN tright
                         ELSE T!LeafInsert(tright, s.key, s.value)])
      <4> HIDE DEF tright, tleft, tmiddle
      <4> QED BY <2>1, <2>2, <2>6
    <3>2. T!Then(T!PassUp(s.page, tmiddle, new) \o
                   <<T!Return(T!Inserted(s.key, s.value, TRUE))>>)
      <4> HIDE DEF tright, tleft, tmiddle
      <4> QED BY <2>1, <2>2, <2>3
    <3> HIDE DEF s
    <3> QED BY <1>3, <1>5, <1>11, <3>1, <3>2 DEF T!DoSplitLeaf
  <2> QED BY <2>3, <2>6, <2>7 DEF Effect
<1> HIDE DEF x, y, a, b, c, d, f, s, middle
<1> QED BY <1>6, <1>8, <1>10, <1>11

LEMMA GrowRootMaps ==
  ASSUME LoopInv, Tree!GrowRoot, current' = current
  PROVE  T!GrowRoot /\ Effect
<1> DEFINE s == Head(stack)
           x == Tree!Internal(Tree!NoPage, <<Tree!Entry(0, s.page), Tree!Entry(s.key, s.new)>>)
           u == Tree!UnpinPage(num_pages, TRUE)
<1>1. Tree!Executing("InsertIntoParent") /\ s.page = root_page_id
  BY DEF Tree!GrowRoot
<1>2. InCall
  BY <1>1, OnlyCallsExecute
<1>3. T!Executing("InsertIntoParent") /\ Head(calls) = s /\ other_pins = pins
  BY <1>1, <1>2, StackFacts
<1>4. s.page \in T!Nodes /\ s.new \in T!Nodes /\ s.new # s.page
  BY <1>3, TreeOK, T!InsertIntoParentHead DEF LoopInv
<1>5. /\ x = T!Internal(T!NoPage, <<T!Entry(0, s.page), T!Entry(s.key, s.new)>>)
      /\ u = T!UnpinPage(num_pages, TRUE)
  BY SameStatements, SameNodeOperators
<1>6. u.do # "OpenPage" /\ ~IsData(x)
  BY DEF Tree!UnpinPage, Tree!Internal, IsData
<1>7. \/ /\ Tree!NewPage([contents EXCEPT ![num_pages] = x, ![s.page].parent = num_pages,
                                          ![s.new].parent = num_pages])
         /\ root_page_id' = num_pages /\ Tree!Then(<<u>>)
      \/ ~Tree!Pool!HasRoom /\ Tree!Crash
  BY DEF Tree!GrowRoot
<1> HIDE DEF s, x, u
<1>8. CASE ~Tree!Pool!HasRoom /\ Tree!Crash
  <2>1. T!Crash /\ Effect /\ ~T!Pool!HasRoom
    BY <1>2, <1>3, <1>8, CrashMaps, SameRoom
  <2> QED BY <1>1, <1>3, <2>1 DEF T!GrowRoot
<1>9. CASE /\ Tree!NewPage([contents EXCEPT ![num_pages] = x, ![s.page].parent = num_pages,
                                            ![s.new].parent = num_pages])
           /\ root_page_id' = num_pages /\ Tree!Then(<<u>>)
  <2> DEFINE c == [contents EXCEPT ![num_pages] = x, ![s.page].parent = num_pages,
                                   ![s.new].parent = num_pages]
             d == [nodes EXCEPT ![num_pages] = x, ![s.page].parent = num_pages,
                                ![s.new].parent = num_pages]
  <2>1. num_pages \in PageId /\ ~IsData(contents[num_pages]) /\ num_pages \notin T!Nodes
    <3>1. num_pages \in PageId
      BY <1>9, TPages DEF Tree!NewPage
    <3>2. num_pages \notin T!Nodes
      BY TreeOK, T!NodeFacts DEF LoopInv, T!IInv
    <3> QED BY <3>1, <3>2 DEF LoopInv, PageInv, PageId
  <2>2. \A p \in {s.page, s.new} :
          p \in PageId /\ contents[p] = nodes[p] /\ ~IsData(contents[p])
          /\ "type" \in DOMAIN contents[p]
    BY <1>4, NodesAreReal DEF LoopInv
  <2>3. IsPages(contents) /\ IsPages(nodes)
    BY BlankedIs DEF LoopInv, PageInv, IsPages, nodes
  <2>4. \A e : IsPages(e) =>
          LET g == [e EXCEPT ![num_pages] = x, ![s.page].parent = num_pages,
                             ![s.new].parent = num_pages]
          IN /\ IsPages(g)
             /\ \A p \in PageId : g[p] = IF p = num_pages THEN x
                                         ELSE IF p \in {s.page, s.new}
                                              THEN [e[p] EXCEPT !.parent = num_pages]
                                              ELSE e[p]
    BY <1>4, <2>1, <2>2 DEF IsPages
  <2>5. \A n : "type" \in DOMAIN n => [n EXCEPT !.parent = num_pages].type = n.type
    OBVIOUS
  <2>6. /\ IsPages(c) /\ IsPages(d)
        /\ \A p \in PageId :
             /\ c[p] = IF p = num_pages THEN x
                       ELSE IF p \in {s.page, s.new}
                            THEN [contents[p] EXCEPT !.parent = num_pages] ELSE contents[p]
             /\ d[p] = IF p = num_pages THEN x
                       ELSE IF p \in {s.page, s.new}
                            THEN [nodes[p] EXCEPT !.parent = num_pages] ELSE nodes[p]
    BY <2>3, <2>4
  <2> HIDE DEF c, d
  <2>7. ASSUME NEW p \in PageId
        PROVE  \/ c[p] = contents[p] /\ d[p] = nodes[p]
               \/ c[p] = d[p] /\ ~IsData(c[p]) /\ ~IsData(contents[p])
    <3>1. CASE p = num_pages
      BY <3>1, <2>1, <2>6, <1>6
    <3>2. CASE p # num_pages /\ p \in {s.page, s.new}
      <4>1. contents[p] = nodes[p] /\ ~IsData(contents[p]) /\ "type" \in DOMAIN contents[p]
        BY <3>2, <2>2
      <4>2. c[p] = [contents[p] EXCEPT !.parent = num_pages] /\ d[p] = c[p]
        BY <3>2, <4>1, <2>6
      <4>3. c[p].type = contents[p].type
        BY <4>1, <4>2, <2>5
      <4> QED BY <4>1, <4>2, <4>3 DEF IsData
    <3>3. CASE p # num_pages /\ p \notin {s.page, s.new}
      BY <3>3, <2>6
    <3> QED BY <3>1, <3>2, <3>3
  <2>8. Agree(c, d)
    BY <2>6, <2>7 DEF Agree
  <2>9. T!Then(<<u>>) /\ Continues
    BY <1>2, <1>6, <1>9, ThenOne
  <2>10. T!NewPage(d) /\ DataStays /\ num_pages' = num_pages + 1
    <3>1. Tree!NewPage(c)
      BY <1>9 DEF c
    <3> QED BY <1>3, <3>1, <2>8, <2>9, NewMaps DEF LoopInv
  <2>11. T!GrowRoot
    BY <1>1, <1>3, <1>5, <1>9, <2>9, <2>10 DEF T!GrowRoot, d
  <2> QED BY <2>9, <2>10, <2>11 DEF Effect
<1> QED BY <1>7, <1>8, <1>9

LEMMA InsertIntoOldParentMaps ==
  ASSUME LoopInv, Tree!InsertIntoOldParent, current' = current
  PROVE  T!InsertIntoOldParent /\ Effect
<1> DEFINE s      == Head(stack)
           parent == contents[s.page].parent
           node   == contents[parent]
           x      == Tree!InternalInsert(node, s.key, s.new)
           u      == Tree!UnpinPage(parent, TRUE)
           w      == Tree!SplitInternal(parent, s.key, s.new)
<1>1. Tree!Executing("InsertIntoParent") /\ s.page # root_page_id
  BY DEF Tree!InsertIntoOldParent
<1>2. InCall
  BY <1>1, OnlyCallsExecute
<1>3. T!Executing("InsertIntoParent") /\ Head(calls) = s /\ other_pins = pins
  BY <1>1, <1>2, StackFacts
<1>4. s.page \in T!Nodes /\ \A p : T!SplitsRoot(p) => s.page = root_page_id
  BY <1>3, TreeOK, T!InsertIntoParentHead DEF LoopInv
<1>5. nodes[s.page] = contents[s.page]
  BY <1>4, NodesAreReal DEF LoopInv
<1>6. parent \in T!Nodes
  <2>1. parent \in T!Internals
    BY <1>1, <1>4, <1>5 DEF LoopInv, T!IInv, T!ParentsInv
  <2> QED BY <2>1 DEF T!Nodes
<1>7. /\ parent \in PageId /\ nodes[parent] = node /\ ~IsData(node) /\ "type" \in DOMAIN node
  BY <1>6, NodesAreReal DEF LoopInv
<1>8. /\ x = T!InternalInsert(node, s.key, s.new)
      /\ u = T!UnpinPage(parent, TRUE) /\ w = T!SplitInternal(parent, s.key, s.new)
      /\ Tree!InternalHasRoom(node) <=> T!InternalHasRoom(node)
  BY SameStatements, SameNodeOperators
<1>9. u.do # "OpenPage" /\ w.do # "OpenPage"
  BY DEF Tree!UnpinPage, Tree!SplitInternal
<1>10. \/ /\ Tree!InternalHasRoom(node) /\ Tree!Then(<<u>>) /\ UNCHANGED root_page_id
          /\ Tree!FetchPage(parent, [contents EXCEPT ![parent] = x])
       \/ /\ ~Tree!InternalHasRoom(node) /\ Tree!Then(<<w>>) /\ UNCHANGED root_page_id
          /\ Tree!FetchPage(parent, contents)
       \/ ~Tree!Pool!CanPin(parent) /\ Tree!Crash
  BY DEF Tree!InsertIntoOldParent
<1>11. ~IsData(x)
  BY <1>7, <1>8, InsertsKeepType DEF IsData
<1>12. T!InsertIntoOldParent <=>
         \/ /\ T!InternalHasRoom(node) /\ T!Then(<<u>>) /\ UNCHANGED root_page_id
            /\ T!FetchPage(parent, [nodes EXCEPT ![parent] = x])
         \/ /\ ~T!InternalHasRoom(node) /\ T!Then(<<w>>) /\ UNCHANGED root_page_id
            /\ T!FetchPage(parent, nodes)
         \/ ~T!Pool!CanPin(parent) /\ T!Crash
  <2> DEFINE par == nodes[s.page].parent
  <2>1. par = parent
    BY <1>5
  <2>2. nodes[par] = node
    BY <1>7, <2>1
  <2> HIDE DEF parent, node, x, u, w, s
  <2> QED BY <1>1, <1>3, <1>8, <2>1, <2>2 DEF T!InsertIntoOldParent
<1> HIDE DEF s, parent, node, x, u, w
<1>13. CASE /\ Tree!InternalHasRoom(node) /\ Tree!Then(<<u>>) /\ UNCHANGED root_page_id
            /\ Tree!FetchPage(parent, [contents EXCEPT ![parent] = x])
  <2>1. T!Then(<<u>>) /\ Continues
    BY <1>2, <1>9, <1>13, ThenOne
  <2>2. Agree([contents EXCEPT ![parent] = x], [nodes EXCEPT ![parent] = x])
    BY <1>7, <1>11, PutAgree DEF LoopInv, node
  <2>3. T!FetchPage(parent, [nodes EXCEPT ![parent] = x]) /\ DataStays /\ num_pages' = num_pages
    BY <1>3, <1>13, <2>1, <2>2, FetchMaps DEF LoopInv
  <2> QED BY <1>8, <1>12, <1>13, <2>1, <2>3 DEF Effect
<1>14. CASE /\ ~Tree!InternalHasRoom(node) /\ Tree!Then(<<w>>) /\ UNCHANGED root_page_id
            /\ Tree!FetchPage(parent, contents)
  <2>1. T!Then(<<w>>) /\ Continues
    BY <1>2, <1>9, <1>14, ThenOne
  <2>2. T!FetchPage(parent, nodes) /\ DataStays /\ num_pages' = num_pages
    BY <1>3, <1>14, <2>1, SameAgree, FetchMaps DEF LoopInv
  <2> QED BY <1>8, <1>12, <1>14, <2>1, <2>2 DEF Effect
<1>15. CASE ~Tree!Pool!CanPin(parent) /\ Tree!Crash
  <2>1. T!Crash /\ Effect
    BY <1>2, <1>15, CrashMaps
  <2>2. ~T!Pool!CanPin(parent)
    BY <1>3, <1>15, SameRoom DEF Tree!Pool!CanPin, T!Pool!CanPin
  <2> QED BY <1>12, <2>1, <2>2
<1> QED BY <1>10, <1>13, <1>14, <1>15

LEMMA DoSplitInternalMaps ==
  ASSUME LoopInv, Tree!DoSplitInternal, current' = current
  PROVE  T!DoSplitInternal /\ Effect
<1> DEFINE s      == Head(stack)
           node   == contents[s.page]
           new    == num_pages
           left   == Tree!Internal(node.parent, Tree!Kept(node.array, INTERNAL_MAX))
           right  == Tree!Internal(node.parent, Tree!Moved(node.array, INTERNAL_MAX))
           middle == Tree!MiddleKey(right)
           x == IF middle <= s.key THEN left ELSE Tree!InternalInsert(left, s.key, s.new)
           y == IF middle <= s.key THEN Tree!InternalInsert(right, s.key, s.new) ELSE right
           a == Tree!AdoptChildren(new, 1)
           b == Tree!InsertIntoParent(s.page, middle, new)
           c == Tree!UnpinPage(s.page, TRUE)
           d == Tree!UnpinPage(new, TRUE)
<1>1. Tree!Executing("SplitInternal")
  BY DEF Tree!DoSplitInternal
<1>2. InCall
  BY <1>1, OnlyCallsExecute
<1>3. T!Executing("SplitInternal") /\ Head(calls) = s /\ other_pins = pins
  BY <1>1, <1>2, StackFacts
<1>4. s.page \in T!Nodes
  BY <1>3, TreeOK, T!SplitInternalHead DEF LoopInv
<1>5. s.page \in PageId /\ nodes[s.page] = node /\ ~IsData(node)
  BY <1>4, NodesAreReal DEF LoopInv
<1>6. \/ /\ Tree!NewPage([contents EXCEPT ![s.page] = x, ![new] = y]) /\ UNCHANGED root_page_id
         /\ Tree!Then(<<a>> \o Tree!PassUp(s.page, middle, new))
      \/ ~Tree!Pool!HasRoom /\ Tree!Crash
  BY DEF Tree!DoSplitInternal
<1>7. a.do # "OpenPage" /\ b.do # "OpenPage" /\ c.do # "OpenPage" /\ d.do # "OpenPage"
  BY DEF Tree!UnpinPage, Tree!AdoptChildren, Tree!InsertIntoParent
<1>8. <<a>> \o Tree!PassUp(s.page, middle, new) = <<a, b, c, d>>
  <2>1. Tree!PassUp(s.page, middle, new) = <<b, c, d>>
    BY DEF Tree!PassUp
  <2> HIDE DEF a, b, c, d
  <2>2. <<a>> \o <<b, c, d>> = <<a, b, c, d>>
    BY ShortConcats
  <2> QED BY <2>1, <2>2, Zenon
<1>9. ~IsData(x) /\ ~IsData(y)
  <2>1. /\ "type" \in DOMAIN left /\ left.type = "internal"
        /\ "type" \in DOMAIN right /\ right.type = "internal"
    BY DEF Tree!Internal
  <2> HIDE DEF left, right, middle
  <2>2. /\ Tree!InternalInsert(left, s.key, s.new).type = "internal"
        /\ Tree!InternalInsert(right, s.key, s.new).type = "internal"
    BY <2>1, InsertsKeepType, SameNodeOperators
  <2> QED BY <2>1, <2>2 DEF IsData
<1>10. CASE ~Tree!Pool!HasRoom /\ Tree!Crash
  <2>1. T!Crash /\ Effect /\ ~T!Pool!HasRoom
    BY <1>2, <1>3, <1>10, CrashMaps, SameRoom
  <2> QED BY <1>3, <2>1 DEF T!DoSplitInternal
<1>11. CASE /\ Tree!NewPage([contents EXCEPT ![s.page] = x, ![new] = y])
            /\ Tree!Then(<<a, b, c, d>>) /\ UNCHANGED root_page_id
  <2> DEFINE tleft   == T!Internal(node.parent, T!Kept(node.array, INTERNAL_MAX))
             tright  == T!Internal(node.parent, T!Moved(node.array, INTERNAL_MAX))
             tmiddle == T!MiddleKey(tright)
  <2>1. right = tright /\ left = tleft /\ middle = tmiddle
    BY SameNodeOperators
  <2>2. /\ <<T!AdoptChildren(new, 1)>> \o T!PassUp(s.page, middle, new) = <<a, b, c, d>>
        /\ x = IF middle <= s.key THEN left ELSE T!InternalInsert(left, s.key, s.new)
        /\ y = IF middle <= s.key THEN T!InternalInsert(right, s.key, s.new) ELSE right
    BY <1>8, SameStatements, SameNodeOperators
  <2> HIDE DEF a, b, c, d, x, y
  <2>3. T!Then(<<a, b, c, d>>) /\ Continues
    BY <1>2, <1>7, <1>11, ThenFour
  <2>4. new \in PageId /\ ~IsData(contents[new]) /\ new # s.page
    <3>1. new \in PageId
      BY <1>11, TPages DEF Tree!NewPage
    <3>2. new \notin T!Nodes
      BY TreeOK, T!NodeFacts DEF LoopInv, T!IInv
    <3> QED BY <3>1, <3>2, <1>4 DEF LoopInv, PageInv, PageId
  <2>5. Agree([contents EXCEPT ![s.page] = x, ![new] = y],
              [nodes EXCEPT ![s.page] = x, ![new] = y])
    BY <1>5, <1>9, <2>4, PutTwoAgree DEF LoopInv
  <2>6. /\ T!NewPage([nodes EXCEPT ![s.page] = x, ![new] = y]) /\ DataStays
        /\ num_pages' = num_pages + 1
    BY <1>3, <1>11, <2>3, <2>5, NewMaps DEF LoopInv
  <2> HIDE DEF right, left, middle
  <2>7. T!DoSplitInternal
    <3>1. T!NewPage([nodes EXCEPT
             ![s.page] = IF tmiddle <= s.key THEN tleft
                         ELSE T!InternalInsert(tleft, s.key, s.new),
             ![new]    = IF tmiddle <= s.key THEN T!InternalInsert(tright, s.key, s.new)
                         ELSE tright])
      <4> HIDE DEF tright, tleft, tmiddle
      <4> QED BY <2>1, <2>2, <2>6
    <3>2. T!Then(<<T!AdoptChildren(new, 1)>> \o T!PassUp(s.page, tmiddle, new))
      <4> HIDE DEF tright, tleft, tmiddle
      <4> QED BY <2>1, <2>2, <2>3
    <3> HIDE DEF s
    <3> QED BY <1>3, <1>5, <1>11, <3>1, <3>2 DEF T!DoSplitInternal
  <2> QED BY <2>3, <2>6, <2>7 DEF Effect
<1> HIDE DEF x, y, a, b, c, d, s, middle
<1> QED BY <1>6, <1>8, <1>10, <1>11

LEMMA DoAdoptChildrenMaps ==
  ASSUME LoopInv, Tree!DoAdoptChildren, current' = current
  PROVE  T!DoAdoptChildren /\ Effect
<1> DEFINE s     == Head(stack)
           array == contents[s.page].array
           child == array[s.i].value
           u     == Tree!UnpinPage(child, TRUE)
           w     == Tree!AdoptChildren(s.page, s.i + 1)
           rest  == IF s.i < Len(array) THEN <<w>> ELSE <<>>
<1>1. Tree!Executing("AdoptChildren")
  BY DEF Tree!DoAdoptChildren
<1>2. InCall
  BY <1>1, OnlyCallsExecute
<1>3. T!Executing("AdoptChildren") /\ Head(calls) = s /\ other_pins = pins
  BY <1>1, <1>2, StackFacts
<1>4. s.page \in T!Nodes /\ nodes[s.page].array[s.i].value \in T!Nodes
  BY <1>3, TreeOK, T!AdoptChildrenHead DEF LoopInv
<1>5. nodes[s.page] = contents[s.page]
  BY <1>4, NodesAreReal DEF LoopInv
<1>6. /\ child \in PageId /\ contents[child] = nodes[child] /\ ~IsData(contents[child])
      /\ "type" \in DOMAIN contents[child]
  BY <1>4, <1>5, NodesAreReal DEF LoopInv
<1>7. u = T!UnpinPage(child, TRUE) /\ w = T!AdoptChildren(s.page, s.i + 1)
  BY SameStatements
<1>8. u.do # "OpenPage" /\ w.do # "OpenPage"
  BY DEF Tree!UnpinPage, Tree!AdoptChildren
<1>9. \/ /\ Tree!FetchPage(child, [contents EXCEPT ![child].parent = s.page])
         /\ Tree!Then(<<u>> \o rest) /\ UNCHANGED root_page_id
      \/ ~Tree!Pool!CanPin(child) /\ Tree!Crash
  BY DEF Tree!DoAdoptChildren
<1>10. T!DoAdoptChildren <=>
         \/ /\ T!FetchPage(child, [nodes EXCEPT ![child].parent = s.page])
            /\ T!Then(<<u>> \o rest) /\ UNCHANGED root_page_id
         \/ ~T!Pool!CanPin(child) /\ T!Crash
  <2> DEFINE arr == nodes[s.page].array
  <2>1. arr = array
    BY <1>5
  <2> HIDE DEF s
  <2> QED BY <1>3, <1>5, <1>7, <2>1 DEF T!DoAdoptChildren
<1> HIDE DEF s, array, child, u, w
<1>11. CASE /\ Tree!FetchPage(child, [contents EXCEPT ![child].parent = s.page])
            /\ Tree!Then(<<u>> \o rest) /\ UNCHANGED root_page_id
  <2>1. T!Then(<<u>> \o rest) /\ Continues
    <3>1. CASE s.i < Len(array)
      <4>1. <<u>> \o rest = <<u, w>>
        <5>1. <<u>> \o <<w>> = <<u, w>>
          BY ShortConcats
        <5> QED BY <3>1, <5>1
      <4> HIDE DEF rest
      <4> QED BY <1>2, <1>8, <1>11, <4>1, ThenTwo
    <3>2. CASE ~(s.i < Len(array))
      <4>1. <<u>> \o rest = <<u>>
        <5>1. <<u>> \o <<>> = <<u>>
          BY ShortConcats
        <5> QED BY <3>2, <5>1
      <4> HIDE DEF rest
      <4> QED BY <1>2, <1>8, <1>11, <4>1, ThenOne
    <3> QED BY <3>1, <3>2
  <2> HIDE DEF rest
  <2>2. PICK x : x = [contents[child] EXCEPT !.parent = s.page]
    OBVIOUS
  <2>3. ~IsData(x)
    <3>1. x.type = contents[child].type
      BY <1>6, <2>2
    <3> QED BY <1>6, <3>1 DEF IsData
  <2>4. Agree([contents EXCEPT ![child] = x], [nodes EXCEPT ![child] = x])
    BY <1>6, <2>3, PutAgree DEF LoopInv
  <2>5. /\ [contents EXCEPT ![child].parent = s.page] = [contents EXCEPT ![child] = x]
        /\ [nodes EXCEPT ![child].parent = s.page] = [nodes EXCEPT ![child] = x]
    BY <1>6, <2>2
  <2>6. /\ T!FetchPage(child, [nodes EXCEPT ![child].parent = s.page]) /\ DataStays
        /\ num_pages' = num_pages
    BY <1>3, <1>11, <2>1, <2>4, <2>5, FetchMaps DEF LoopInv
  <2> QED BY <1>10, <1>11, <2>1, <2>6 DEF Effect
<1>12. CASE ~Tree!Pool!CanPin(child) /\ Tree!Crash
  <2>1. T!Crash /\ Effect
    BY <1>2, <1>12, CrashMaps
  <2>2. ~T!Pool!CanPin(child)
    BY <1>3, <1>12, SameRoom DEF Tree!Pool!CanPin, T!Pool!CanPin
  <2> QED BY <1>10, <2>1, <2>2
<1> HIDE DEF rest
<1> QED BY <1>9, <1>11, <1>12

LEMMA DoUnpinPageMaps ==
  ASSUME LoopInv, InCall, Tree!DoUnpinPage, current' = current
  PROVE  T!DoUnpinPage /\ Effect
<1> DEFINE s == Head(stack)
<1>1. /\ Tree!Executing("UnpinPage") /\ pins[s.page] > 0 /\ pins' = Tree!Pool!MinusPin(s.page)
      /\ touched' = IF s.is_dirty THEN touched \ {s.page} ELSE touched
      /\ Tree!Then(<<>>) /\ UNCHANGED <<contents, num_pages, root_page_id, crashed>>
  BY DEF Tree!DoUnpinPage
<1>2. T!Executing("UnpinPage") /\ Head(calls) = s /\ other_pins = pins
  BY <1>1, StackFacts
<1> HIDE DEF s
<1>3. T!Then(<<>>) /\ Continues
  BY <1>1, ThenNothing
<1>4. nodes' = nodes
  BY <1>1 DEF nodes, Blanked
<1>5. node_touched' = IF s.is_dirty THEN node_touched \ {s.page} ELSE node_touched
  BY <1>1 DEF node_touched
<1>6. other_pins' = T!Pool!MinusPin(s.page)
  BY <1>1, <1>2, <1>3 DEF Continues, Tree!Pool!MinusPin, T!Pool!MinusPin
<1>7. DataStays
  BY <1>1 DEF LoopInv, PageInv, DataStays, IsPages
<1> QED BY <1>1, <1>2, <1>3, <1>4, <1>5, <1>6, <1>7 DEF T!DoUnpinPage, Effect, s

LEMMA StepMaps ==
  ASSUME LoopInv, InCall, Tree!Step, current' = current
  PROVE  T!Step /\ Effect
<1>1. CASE Tree!DoReturn
  BY <1>1, DoReturnMaps DEF T!Step
<1>2. CASE /\ \/ Tree!DoStartNewTree \/ Tree!PassInternal \/ Tree!FetchFails
              \/ Tree!LookUpInLeaf \/ Tree!InsertIntoLeaf \/ Tree!DoSplitLeaf
              \/ Tree!GrowRoot \/ Tree!InsertIntoOldParent \/ Tree!DoSplitInternal
              \/ Tree!DoAdoptChildren \/ Tree!DoUnpinPage
           /\ UNCHANGED <<reply, inserts>>
  <2>1. /\ \/ T!DoStartNewTree \/ T!PassInternal \/ T!FetchFails
           \/ T!LookUpInLeaf \/ T!InsertIntoLeaf \/ T!DoSplitLeaf
           \/ T!GrowRoot \/ T!InsertIntoOldParent \/ T!DoSplitInternal
           \/ T!DoAdoptChildren \/ T!DoUnpinPage
        /\ Effect
    BY <1>2, DoStartNewTreeMaps, PassInternalMaps, FetchFailsMaps, LookUpInLeafMaps,
       InsertIntoLeafMaps, DoSplitLeafMaps, GrowRootMaps, InsertIntoOldParentMaps,
       DoSplitInternalMaps, DoAdoptChildrenMaps, DoUnpinPageMaps
  <2>2. UNCHANGED <<kept, reply, inserts>>
    BY <1>2, <2>1 DEF Effect, Continues
  <2> QED BY <2>1, <2>2 DEF T!Step
<1> QED BY <1>1, <1>2 DEF Tree!Step

(* What every step keeps.                                                  *)
Preserves ==
  LoopInv' /\ (PinsExact /\ HasRoomToSplit => PinsExact')

LEMMA PagesStay ==
  ASSUME LoopInv, Effect, current' = current, T!IInv'
  PROVE  PageInv'
<1>1. PageId' = PageId
  BY DEF PageId
<1>2. /\ contents' = [p \in PageId |-> contents'[p]]
      /\ \A p \in PageId : IsData(contents'[p]) <=> IsData(contents[p])
      /\ \A p \in PageId : IsData(contents[p]) => contents'[p] = contents[p]
      /\ touched' \subseteq touched \cup {p \in PageId : ~IsData(contents[p])}
      /\ num_pages' \in {num_pages, num_pages + 1} /\ other_pins' = pins' /\ kept' = kept
  BY DEF Effect, DataStays, Continues, IsPages
<1>3. /\ num_pages \in Nat /\ other_pins' \in [PageId -> Nat]
  BY TPages, <1>1 DEF LoopInv, T!IInv, T!PagesInv, T!PinsInv
<1>4. \A p \in PageId : p >= num_pages' => ~IsData(contents'[p])
  BY <1>2, <1>3 DEF LoopInv, PageInv, PageId
<1>5. ASSUME HasPage
      PROVE  /\ current \in PageId /\ current < num_pages'
             /\ contents'[current] = DataPage(RowsOf(current)) /\ RowsOf(current)' = RowsOf(current)
             /\ DOMAIN RowsOf(current) = RowFields /\ RowsOf(current).num \in Int
  <2>1. /\ current \in PageId /\ current < num_pages
        /\ contents[current] = DataPage(RowsOf(current))
        /\ DOMAIN RowsOf(current) = RowFields /\ RowsOf(current).num \in Int
    BY <1>5 DEF LoopInv, PageInv
  <2>2. IsData(contents[current])
    BY <2>1 DEF IsData, DataPage
  <2>3. contents'[current] = contents[current]
    BY <1>2, <2>1, <2>2
  <2>4. current \in Int
    BY <2>1 DEF PageId
  <2> QED BY <1>2, <1>3, <2>1, <2>3, <2>4 DEF RowsOf
<1>6. touched' \subseteq PageId /\ \A p \in touched' : IsData(contents'[p]) => p \in kept'
  BY <1>2 DEF LoopInv, PageInv
<1> QED BY <1>1, <1>2, <1>3, <1>4, <1>5, <1>6 DEF PageInv, HasPage, DataPage

LEMMA TreeStepPreserves ==
  ASSUME LoopInv, InCall, Tree!Step, current' = current
  PROVE  Preserves
<1>1. T!Step /\ Effect
  BY StepMaps
<1>2. T!Keeps
  BY <1>1, TreeSteps DEF LoopInv, T!Next
<1>3. T!IInv' /\ (PinsExact /\ T!HasRoomToSplit => PinsExact')
  BY <1>2 DEF T!Keeps, PinsExact
<1>4. HasRoomToSplit => T!HasRoomToSplit
  <2>1. other_pins = pins /\ (T!Executing("SplitLeaf") <=> Tree!Executing("SplitLeaf"))
    BY StackFacts
  <2>2. Tree!Executing("SplitLeaf") <=> Executing("SplitLeaf")
    BY DEF Tree!Executing, Executing
  <2> QED BY <2>1, <2>2, SameRoom DEF HasRoomToSplit, T!HasRoomToSplit
<1>5. PageInv' /\ StackShape'
  BY <1>1, <1>3, PagesStay DEF Effect, Continues, StackShape
<1> QED BY <1>3, <1>4, <1>5 DEF Preserves, LoopInv

-----------------------------------------------------------------------------
(* The stack while the tree is not called.                                 *)

LEMMA CallsHaveNoLoopHead ==
  ASSUME LoopInv, InCall
  PROVE  /\ stack # <<>>
         /\ Head(stack).do \notin {"OpenPage", "StoreRow", "StoreInNewPage", "IndexRow",
                                   "Acknowledge", "ShowRow"}
<1>1. stack # <<>> /\ Head(stack) = calls[1] /\ calls[1] \in T!Statement
  BY StackFacts
<1> QED BY <1>1, TreeOK, T!StatementFields

LEMMA TopOfOne ==
  ASSUME NEW w, NEW st, st = <<w>>
  PROVE  st # <<>> /\ Len(st) = 1 /\ st[1] = w /\ Head(st) = w /\ Tail(st) = <<>>
OBVIOUS

LEMMA TopOfTwo ==
  ASSUME NEW a, NEW b, NEW st, st = <<a, b>>
  PROVE  /\ st # <<>> /\ Len(st) = 2 /\ st[1] = a /\ st[2] = b
         /\ Head(st) = a /\ Tail(st) = <<b>>
OBVIOUS

LEMMA TopOfThree ==
  ASSUME NEW a, NEW b, NEW c, NEW st, st = <<a, b, c>>
  PROVE  /\ st # <<>> /\ Len(st) = 3 /\ st[1] = a /\ st[3] = c
         /\ Head(st) = a /\ Tail(st) = <<b, c>>
OBVIOUS

(* The statements of the loop on their own.                                *)
LoopDo == {"StoreRow", "StoreInNewPage", "IndexRow"}

LEMMA WaitsForms ==
  ASSUME NEW id, NEW n, Waits(id, n)
  PROVE  \/ \E do \in {"StoreRow", "StoreInNewPage"} : stack = <<OpenPage, ForRow(do, id, n)>>
         \/ \E do \in LoopDo : HasPage /\ stack = <<ForRow(do, id, n)>>
         \/ /\ HasPage
            /\ stack = <<Tree!UnpinPage(current, TRUE), OpenPage,
                         ForRow("StoreInNewPage", id, n)>>
BY DEF Waits, LoopDo

(* Outside a call of the tree nothing is on the stack for it.              *)
LEMMA NoCalls ==
  ASSUME LoopInv, ~InCall
  PROVE  calls = <<>>
<1>1. CASE stack = <<>>
  BY <1>1 DEF calls, InTree
<1>2. CASE AsksTree
  BY <1>2 DEF InCall
<1>3. CASE Shows
  <2>1. stack[Len(stack)].do = "UnpinPage"
    BY <1>3 DEF Shows, Showing
  <2> QED BY <2>1 DEF calls, InTree
<1>4. ASSUME NEW id \in Id, NEW n \in Length, Waits(id, n)
      PROVE  calls = <<>>
  <2>1. PICK st : st = stack
    OBVIOUS
  <2>2. ASSUME NEW do \in {"StoreRow", "StoreInNewPage"}, st = <<OpenPage, ForRow(do, id, n)>>
        PROVE  st[Len(st)].do \in LoopDo
    BY <2>2 DEF ForRow, LoopDo
  <2>3. ASSUME NEW do \in LoopDo, st = <<ForRow(do, id, n)>>
        PROVE  st[Len(st)].do \in LoopDo
    BY <2>3 DEF ForRow
  <2>4. ASSUME st = <<Tree!UnpinPage(current, TRUE), OpenPage, ForRow("StoreInNewPage", id, n)>>
        PROVE  st[Len(st)].do \in LoopDo
    BY <2>4 DEF ForRow, LoopDo
  <2>5. st[Len(st)].do \in LoopDo
    BY <1>4, <2>1, <2>2, <2>3, <2>4, WaitsForms
  <2> QED BY <2>1, <2>5 DEF calls, InTree, LoopDo
<1> QED BY <1>1, <1>2, <1>3, <1>4 DEF LoopInv, StackShape

LEMMA HeadsOfLoop ==
  ASSUME LoopInv
  PROVE  /\ Executing("OpenPage") =>
              \E id \in Id, n \in Length, do \in {"StoreRow", "StoreInNewPage"} :
                stack = <<OpenPage, ForRow(do, id, n)>>
         /\ \A do \in LoopDo : Executing(do) =>
              HasPage /\ \E id \in Id, n \in Length : stack = <<ForRow(do, id, n)>>
         /\ Executing("UnpinPage") /\ ~InCall =>
              \/ Shows
              \/ HasPage /\ \E id \in Id, n \in Length :
                   stack = <<Tree!UnpinPage(current, TRUE), OpenPage,
                             ForRow("StoreInNewPage", id, n)>>
         /\ \A do \in {"Acknowledge", "ShowRow"} : Executing(do) =>
              stack = <<Head(stack)>>
<1>1. PICK st : st = stack
  OBVIOUS
<1>2. ASSUME Shows
      PROVE  Head(st).do = "UnpinPage" /\ st # <<>>
  BY <1>1, <1>2 DEF Shows, Tree!UnpinPage
<1>3. ASSUME InCall
      PROVE  /\ st # <<>>
             /\ Head(st).do \notin {"OpenPage", "StoreRow", "StoreInNewPage", "IndexRow",
                                    "Acknowledge", "ShowRow"}
  BY <1>1, <1>3, CallsHaveNoLoopHead
<1>4. ASSUME AsksTree, ~InCall
      PROVE  st = <<Head(st)>> /\ Head(st).do \in {"Acknowledge", "ShowRow"}
  <2>1. calls = <<>> /\ InTree /\ stack = Append(calls, stack[Len(stack)])
    BY <1>4 DEF AsksTree, InCall
  <2>2. PICK w : w = stack[Len(stack)]
    OBVIOUS
  <2>3. st = <<w>> /\ w.do \in {"Acknowledge", "ShowRow"}
    BY <1>1, <2>1, <2>2 DEF InTree
  <2> QED BY <2>3, TopOfOne
<1>5. ASSUME NEW id \in Id, NEW n \in Length, Waits(id, n)
      PROVE  \/ /\ \E do \in {"StoreRow", "StoreInNewPage"} : st = <<OpenPage, ForRow(do, id, n)>>
                /\ Head(st).do = "OpenPage"
             \/ HasPage /\ \E do \in LoopDo : st = <<ForRow(do, id, n)>> /\ Head(st).do = do
             \/ /\ st = <<Tree!UnpinPage(current, TRUE), OpenPage,
                          ForRow("StoreInNewPage", id, n)>>
                /\ HasPage /\ Head(st).do = "UnpinPage"
  <2>1. ASSUME NEW do, st = <<OpenPage, ForRow(do, id, n)>>
        PROVE  Head(st).do = "OpenPage"
    BY <2>1 DEF OpenPage
  <2>2. ASSUME NEW do, st = <<ForRow(do, id, n)>>
        PROVE  Head(st).do = do
    BY <2>2 DEF ForRow
  <2>3. ASSUME st = <<Tree!UnpinPage(current, TRUE), OpenPage, ForRow("StoreInNewPage", id, n)>>
        PROVE  Head(st).do = "UnpinPage"
    BY <2>3 DEF Tree!UnpinPage
  <2> QED BY <1>1, <1>5, <2>1, <2>2, <2>3, WaitsForms
<1>6. Executing("OpenPage") =>
        \E id \in Id, n \in Length, do \in {"StoreRow", "StoreInNewPage"} :
          stack = <<OpenPage, ForRow(do, id, n)>>
  <2> SUFFICES ASSUME Executing("OpenPage")
               PROVE  \E id \in Id, n \in Length, do \in {"StoreRow", "StoreInNewPage"} :
                        stack = <<OpenPage, ForRow(do, id, n)>>
    OBVIOUS
  <2>1. Head(st).do = "OpenPage" /\ st # <<>>
    BY <1>1 DEF Executing
  <2>2. PICK id \in Id, n \in Length : Waits(id, n)
    BY <1>1, <1>2, <1>3, <1>4, <2>1 DEF LoopInv, StackShape
  <2> QED BY <1>1, <1>5, <2>1, <2>2 DEF LoopDo
<1>7. ASSUME NEW do \in LoopDo, Executing(do)
      PROVE  HasPage /\ \E id \in Id, n \in Length : stack = <<ForRow(do, id, n)>>
  <2>1. Head(st).do = do /\ st # <<>>
    BY <1>1, <1>7 DEF Executing
  <2>2. PICK id \in Id, n \in Length : Waits(id, n)
    BY <1>1, <1>2, <1>3, <1>4, <2>1 DEF LoopInv, StackShape, LoopDo
  <2> QED BY <1>1, <1>5, <2>1, <2>2 DEF LoopDo
<1>8. ASSUME Executing("UnpinPage"), ~InCall
      PROVE  \/ Shows
             \/ HasPage /\ \E id \in Id, n \in Length :
                  stack = <<Tree!UnpinPage(current, TRUE), OpenPage,
                            ForRow("StoreInNewPage", id, n)>>
  <2>1. Head(st).do = "UnpinPage" /\ st # <<>>
    BY <1>1, <1>8 DEF Executing
  <2>2. CASE \E id \in Id, n \in Length : Waits(id, n)
    <3>1. PICK id \in Id, n \in Length : Waits(id, n)
      BY <2>2
    <3> QED BY <1>1, <1>5, <2>1, <3>1 DEF LoopDo
  <2> QED BY <1>1, <1>4, <1>8, <2>1, <2>2 DEF LoopInv, StackShape
<1>9. ASSUME NEW do \in {"Acknowledge", "ShowRow"}, Executing(do)
      PROVE  stack = <<Head(stack)>>
  <2>1. Head(st).do = do /\ st # <<>>
    BY <1>1, <1>9 DEF Executing
  <2>2. ASSUME NEW id \in Id, NEW n \in Length, Waits(id, n)
        PROVE  FALSE
    BY <1>5, <2>1, <2>2 DEF LoopDo
  <2>3. AsksTree /\ ~InCall
    BY <1>1, <1>2, <1>3, <2>1, <2>2 DEF LoopInv, StackShape
  <2> QED BY <1>1, <1>4, <2>3
<1> QED BY <1>6, <1>7, <1>8, <1>9

(* A step of the loop alone: the tree sees at most a pin come or go.       *)
LEMMA LoopStepPreserves ==
  ASSUME LoopInv, calls = <<>>, calls' = <<>>, nodes' = nodes,
         num_pages' \in num_pages .. MAX_PAGES, node_touched' \subseteq node_touched,
         UNCHANGED root_page_id, T!RestInv', PageInv', StackShape',
         other_pins' \in [PageId -> Nat],
         kept' \subseteq {p \in PageId : p < num_pages'},
         \A p \in PageId :
           /\ other_pins'[p] - T!One(p \in kept') = other_pins[p] - T!One(p \in kept)
           /\ p >= num_pages' => other_pins'[p] = 0
  PROVE  Preserves
<1>1. T!PinsOfOthers
  BY TPages DEF T!PinsOfOthers
<1>2. node_touched = {}
  BY TreeOK, T!IdleFacts DEF LoopInv
<1>3. UNCHANGED <<nodes, root_page_id, node_touched, calls>>
  BY <1>2
<1>4. T!Keeps
  BY <1>1, <1>3, TreeOK, T!OthersStep DEF LoopInv
<1>5. ASSUME PinsExact
      PROVE  T!HasRoomToSplit
  BY DEF T!HasRoomToSplit, T!Executing
<1> QED BY <1>4, <1>5 DEF T!Keeps, Preserves, LoopInv, PinsExact

LEMMA LoopFacts ==
  ASSUME LoopInv
  PROVE  /\ num_pages \in 0 .. MAX_PAGES /\ PageId' = PageId
         /\ IsPages(contents) /\ touched \subseteq PageId
         /\ pins \in [PageId -> Nat] /\ other_pins \in [PageId -> Nat]
         /\ kept \subseteq {p \in PageId : p < num_pages}
         /\ \A p \in PageId : p >= num_pages =>
              other_pins[p] = 0 /\ ~IsData(contents[p])
         /\ calls = <<>> => node_touched = {}
         /\ crashed \in BOOLEAN /\ reply \in T!Answer \cup {NoReply}
         /\ inserts \in 0 .. MAX_INSERTS
<1>1. calls = <<>> => node_touched = {}
  BY TreeOK, T!IdleFacts DEF LoopInv
<1>2. T!PagesInv /\ T!PinsInv /\ T!RestInv /\ PageInv
  BY DEF LoopInv, T!IInv
<1> QED BY <1>1, <1>2, TPages DEF T!PagesInv, T!PinsInv, T!RestInv, PageInv, IsPages, PageId

LEMMA RestIs ==
  ASSUME crashed' \in BOOLEAN, reply' \in T!Answer \cup {NoReply}, inserts' \in 0 .. MAX_INSERTS
  PROVE  T!RestInv'
<1>1. T!Answer' = T!Answer
  BY DEF T!Answer, T!Found, T!Inserted, T!Missing, T!Entry
<1> QED BY <1>1 DEF T!RestInv

(* With no page touched or changed, the pages stay as they are.            *)
LEMMA SamePageInv ==
  ASSUME LoopInv, UNCHANGED <<contents, num_pages, current>>,
         pins' \in [PageId -> Nat], touched' \subseteq touched,
         \A p \in touched' : IsData(contents[p]) => p \in kept'
  PROVE  PageInv' /\ nodes' = nodes /\ node_touched' \subseteq node_touched
<1>1. PageId' = PageId
  BY DEF PageId
<1>2. nodes' = nodes /\ node_touched' \subseteq node_touched
  BY DEF nodes, Blanked, node_touched
<1>3. PageInv'
  BY <1>1 DEF LoopInv, PageInv, HasPage, RowsOf
<1> QED BY <1>2, <1>3

(* The full page is given back.                                            *)
LEMMA FullPageUnpinned ==
  ASSUME LoopInv, ~InCall, HasPage, NEW id \in Id, NEW n \in Length,
         stack = <<Tree!UnpinPage(current, TRUE), OpenPage, ForRow("StoreInNewPage", id, n)>>,
         Tree!DoUnpinPage, current' = current, UNCHANGED <<reply, inserts>>
  PROVE  Preserves
<1> DEFINE f == ForRow("StoreInNewPage", id, n)
<1>1. PICK s : s = Tree!UnpinPage(current, TRUE)
  OBVIOUS
<1>2. s.do = "UnpinPage" /\ s.page = current /\ s.is_dirty = TRUE
  BY <1>1 DEF Tree!UnpinPage
<1>3. PICK o : o = OpenPage
  OBVIOUS
<1>4. o.do = "OpenPage"
  BY <1>3 DEF OpenPage
<1>5. PICK r : r = f
  OBVIOUS
<1>6. r.do = "StoreInNewPage" /\ f.do = "StoreInNewPage"
  BY <1>5 DEF ForRow
<1>7. stack = <<s, o, r>> /\ stack # <<>>
  BY <1>1, <1>3, <1>5
<1>8. Len(stack) = 3 /\ stack[1] = s /\ Head(stack) = s /\ Tail(stack) = <<o, r>>
  <2>1. PICK st : st = stack
    OBVIOUS
  <2>2. st = <<s, o, r>>
    BY <1>7, <2>1
  <2>3. Len(st) = 3
    BY <2>2
  <2>4. st[1] = s
    BY <2>2
  <2>5. Head(st) = s
    BY <2>2
  <2>6. Tail(st) = <<o, r>>
    BY <2>2, TopOfThree
  <2> QED BY <2>1, <2>3, <2>4, <2>5, <2>6
<1>9. /\ pins' = Tree!Pool!MinusPin(current) /\ touched' = touched \ {current}
      /\ pins[current] > 0 /\ stack' = <<>> \o <<o, r>>
      /\ UNCHANGED <<contents, num_pages, root_page_id, crashed>>
  BY <1>2, <1>8 DEF Tree!DoUnpinPage, Tree!Then
<1>10. stack' = <<o, r>>
  BY <1>9
<1>11. Len(stack') = 2 /\ stack'[1] = o /\ stack'[Len(stack')] = r
  BY <1>10, TopOfTwo
<1>12. calls = <<>> /\ calls' = <<>>
  BY <1>6, <1>5, <1>11, NoCalls DEF calls, InTree
<1>13. kept = {current} /\ kept' = {}
  BY <1>2, <1>4, <1>7, <1>8, <1>10, <1>11 DEF kept, HasPage
<1>14. other_pins = pins /\ other_pins' = pins'
  BY <1>8, <1>11 DEF other_pins, Showing
<1>15. current \in PageId /\ current < num_pages
  BY DEF LoopInv, PageInv
<1>16. pins' = [pins EXCEPT ![current] = @ - 1]
  BY <1>9 DEF Tree!Pool!MinusPin
<1>17. pins' \in [PageId -> Nat] /\ pins'[current] = pins[current] - 1
       /\ \A p \in PageId : p # current => pins'[p] = pins[p]
  BY <1>9, <1>15, <1>16, LoopFacts
<1>18. PageInv' /\ nodes' = nodes /\ node_touched' \subseteq node_touched
  <2>1. \A p \in touched' : IsData(contents[p]) => p \in kept'
    BY <1>9, <1>13 DEF LoopInv, PageInv
  <2> QED BY <1>9, <1>17, <2>1, SamePageInv
<1>19. StackShape'
  <2>1. Waits(id, n)'
    BY <1>3, <1>5, <1>10 DEF Waits
  <2> QED BY <2>1 DEF StackShape
<1>20. T!RestInv'
  BY <1>9, RestIs, LoopFacts
<1>21. ASSUME NEW p \in PageId
       PROVE  /\ other_pins'[p] - T!One(p \in kept') = other_pins[p] - T!One(p \in kept)
              /\ p >= num_pages' => other_pins'[p] = 0
  BY <1>9, <1>13, <1>14, <1>15, <1>17, LoopFacts DEF T!One, PageId
<1>22. num_pages' \in num_pages .. MAX_PAGES
  BY <1>9, LoopFacts
<1> QED BY <1>9, <1>12, <1>13, <1>14, <1>17, <1>18, <1>19, <1>20, <1>21, <1>22, LoopStepPreserves

(* The page of a row that was shown is given back.                         *)
LEMMA ShownPageUnpinned ==
  ASSUME LoopInv, ~InCall, Shows, Tree!DoUnpinPage, current' = current,
         UNCHANGED <<reply, inserts>>
  PROVE  Preserves
<1>1. PICK s : s = Head(stack)
  OBVIOUS
<1>2. stack = <<s>> /\ s = Tree!UnpinPage(s.page, FALSE)
  <2>1. PICK t : t = Tree!UnpinPage(stack[1].page, FALSE)
    OBVIOUS
  <2>2. stack = <<t>>
    BY <2>1 DEF Shows
  <2>3. stack[1] = t /\ s = t
    BY <1>1, <2>2, TopOfOne
  <2> QED BY <2>1, <2>2, <2>3
<1>3. s.is_dirty = FALSE /\ s.do = "UnpinPage"
  BY <1>2 DEF Tree!UnpinPage
<1>4. Len(stack) = 1 /\ stack[1] = s /\ Tail(stack) = <<>> /\ stack # <<>>
  BY <1>2, TopOfOne
<1>5. /\ pins' = Tree!Pool!MinusPin(s.page) /\ touched' = touched
      /\ stack' = <<>> \o <<>> /\ UNCHANGED <<contents, num_pages, root_page_id, crashed>>
  BY <1>1, <1>3, <1>4 DEF Tree!DoUnpinPage, Tree!Then
<1>6. stack' = <<>> /\ Len(stack') = 0
  BY <1>5
<1>7. calls = <<>> /\ calls' = <<>>
  BY <1>6, NoCalls DEF calls, InTree
<1>8. kept' = kept
  BY <1>3, <1>4, <1>6 DEF kept
<1>9. other_pins' = other_pins
  BY <1>3, <1>4, <1>5, <1>6 DEF other_pins, Showing, Tree!Pool!MinusPin
<1>10. pins' = other_pins'
  BY <1>6 DEF other_pins, Showing
<1>11. PageInv' /\ nodes' = nodes /\ node_touched' \subseteq node_touched
  <2>1. \A p \in touched' : IsData(contents[p]) => p \in kept'
    BY <1>5, <1>8 DEF LoopInv, PageInv
  <2>2. pins' \in [PageId -> Nat]
    BY <1>9, <1>10, LoopFacts
  <2> QED BY <1>5, <2>1, <2>2, SamePageInv
<1>12. StackShape'
  BY <1>6 DEF StackShape
<1>13. T!RestInv'
  BY <1>5, RestIs, LoopFacts
<1>14. num_pages' \in num_pages .. MAX_PAGES
  BY <1>5, LoopFacts
<1> QED BY <1>5, <1>7, <1>8, <1>9, <1>11, <1>12, <1>13, <1>14, LoopFacts, LoopStepPreserves

LEMMA LoopCrash ==
  ASSUME LoopInv, ~InCall, Tree!Crash, UNCHANGED <<current, reply, inserts>>
  PROVE  Preserves
<1>1. /\ UNCHANGED <<contents, num_pages, pins, touched, root_page_id, stack>>
      /\ crashed' = TRUE
  BY DEF Tree!Crash, Tree!pool
<1>2. calls = <<>> /\ calls' = <<>>
  BY <1>1, NoCalls DEF calls, InTree
<1>3. /\ other_pins' = other_pins /\ kept' = kept
  BY <1>1 DEF other_pins, kept, Showing
<1>4. StackShape'
  BY <1>1 DEF LoopInv, StackShape, AsksTree, InTree, calls, Shows, Showing, Waits, HasPage,
              Tree!UnpinPage
<1>5. PageInv' /\ nodes' = nodes /\ node_touched' \subseteq node_touched
  <2>1. \A p \in touched' : IsData(contents[p]) => p \in kept'
    BY <1>1, <1>3 DEF LoopInv, PageInv
  <2> QED BY <1>1, <2>1, LoopFacts, SamePageInv
<1>6. T!RestInv'
  BY <1>1, RestIs, LoopFacts
<1>7. num_pages' \in num_pages .. MAX_PAGES
  BY <1>1, LoopFacts
<1> QED BY <1>1, <1>2, <1>3, <1>4, <1>5, <1>6, <1>7, LoopFacts, LoopStepPreserves

LEMMA FormattedFields == DOMAIN Rows!Formatted = RowFields /\ Rows!Formatted.num \in Int
BY DEF Rows!Formatted, Rows!ZeroedPage, RowFields

LEMMA StoredFields ==
  ASSUME NEW pg, DOMAIN pg = RowFields, pg.num \in Int, NEW d, NEW n
  PROVE  DOMAIN Rows!InsertTuple(pg, d, n) = RowFields /\ Rows!InsertTuple(pg, d, n).num \in Int
<1>1. \A size : DOMAIN Rows!Placed(pg, d, size) = RowFields /\ Rows!Placed(pg, d, size).num \in Int
  BY DEF Rows!Placed, RowFields
<1> QED BY <1>1 DEF Rows!InsertTuple

(* A stack with one statement of the loop.                                 *)
LEMMA OneOfLoop ==
  ASSUME NEW do \in LoopDo, NEW id, NEW n, NEW st, st = <<ForRow(do, id, n)>>
  PROVE  /\ st # <<>> /\ Len(st) = 1 /\ st[1].do = do /\ st[Len(st)].do = do
         /\ st[1].id = id /\ st[1].length = n /\ Head(st) = st[1] /\ Tail(st) = <<>>
         /\ do # "OpenPage" /\ do # "UnpinPage" /\ do # "Acknowledge" /\ do # "ShowRow"
BY DEF ForRow, LoopDo

LEMMA DoOpenPagePreserves ==
  ASSUME LoopInv, DoOpenPage, UNCHANGED <<reply, inserts>>
  PROVE  Preserves
<1> DEFINE c == [contents EXCEPT ![num_pages] = DataPage(Rows!Formatted)]
<1>1. Executing("OpenPage")
  BY DEF DoOpenPage
<1>2. PICK id \in Id, n \in Length, do \in {"StoreRow", "StoreInNewPage"} :
        stack = <<OpenPage, ForRow(do, id, n)>>
  BY <1>1, HeadsOfLoop
<1>3. do \in LoopDo
  BY DEF LoopDo
<1>4. PICK o : o = OpenPage
  OBVIOUS
<1>5. PICK r : r = ForRow(do, id, n)
  OBVIOUS
<1>6. PICK st : st = stack
  OBVIOUS
<1>7. st = <<o, r>> /\ o.do = "OpenPage"
  BY <1>2, <1>4, <1>5, <1>6 DEF OpenPage
<1>8. st # <<>> /\ Len(st) = 2 /\ st[1] = o /\ Head(st) = o /\ Tail(st) = <<r>>
  BY <1>7, TopOfTwo
<1>9. ~InCall
  BY <1>6, <1>7, <1>8, CallsHaveNoLoopHead
<1>10. CASE Tree!Crash /\ UNCHANGED current
  BY <1>9, <1>10, LoopCrash
<1>11. CASE Tree!NewPage(c) /\ current' = num_pages /\ Then(<<>>) /\ UNCHANGED root_page_id
  <2>1. /\ num_pages \in PageId /\ pins' = Tree!Pool!PlusPin(num_pages)
        /\ num_pages' = num_pages + 1 /\ contents' = c /\ crashed' = crashed
        /\ touched' = touched \cup {p \in PageId : c[p] # contents[p]}
    BY <1>11, TPages DEF Tree!NewPage, Tree!Assign
  <2>2. /\ IsPages(contents) /\ IsPages(c)
        /\ \A p \in PageId : c[p] = IF p = num_pages THEN DataPage(Rows!Formatted)
                                    ELSE contents[p]
    BY <2>1, LoopFacts DEF IsPages
  <2>3. IsData(DataPage(Rows!Formatted)) /\ num_pages >= 0 /\ num_pages \in Int
    BY <2>1 DEF IsData, DataPage, PageId
  <2> HIDE DEF c
  <2>4. stack' = <<r>>
    <3>1. stack' = <<>> \o <<r>>
      BY <1>6, <1>8, <1>11 DEF Then
    <3> QED BY <3>1
  <2>5. PICK t : t = stack'
    OBVIOUS
  <2>6. /\ t # <<>> /\ Len(t) = 1 /\ t[1].do = do /\ t[Len(t)].do = do
        /\ do # "OpenPage" /\ do # "UnpinPage" /\ do # "Acknowledge" /\ do # "ShowRow"
    BY <1>3, <1>5, <2>4, <2>5, OneOfLoop
  <2>7. calls = <<>> /\ calls' = <<>>
    BY <1>9, <2>5, <2>6, NoCalls DEF calls, InTree
  <2>8. kept = {} /\ kept' = {num_pages}
    BY <1>6, <1>7, <1>8, <1>11, <2>3, <2>5, <2>6 DEF kept, NoPage
  <2>9. other_pins = pins /\ other_pins' = pins'
    BY <1>6, <1>8, <2>5, <2>6 DEF other_pins, Showing
  <2>10. /\ pins' \in [PageId -> Nat] /\ pins'[num_pages] = pins[num_pages] + 1
         /\ \A p \in PageId : p # num_pages => pins'[p] = pins[p]
    BY <2>1, LoopFacts DEF Tree!Pool!PlusPin
  <2>11. nodes' = nodes
    <3>1. Tree!BlankPage = T!BlankPage
      BY SameNodeOperators
    <3>2. nodes[num_pages] = T!BlankPage
      BY <2>1, TPages, LoopFacts DEF LoopInv, T!IInv, T!PagesInv
    <3>3. \A p \in PageId : Blanked(c)[p] = nodes[p]
      BY <2>2, <2>3, <3>2, BlankedIs DEF nodes
    <3>4. Blanked(c) = nodes
      BY <3>3, BlankedIs DEF IsPages, nodes
    <3> QED BY <2>1, <3>4 DEF nodes
  <2>12. touched' \subseteq touched \cup {num_pages} /\ num_pages \notin touched
    <3>1. touched' \subseteq touched \cup {num_pages}
      BY <2>1, <2>2
    <3>2. num_pages \notin touched
      BY <2>1, <2>3, <2>7, LoopFacts DEF node_touched
    <3> QED BY <3>1, <3>2
  <2>13. touched = {}
    BY <2>7, <2>8, LoopFacts DEF LoopInv, PageInv, node_touched
  <2>14. node_touched' \subseteq node_touched
    BY <2>1, <2>2, <2>3, <2>12, <2>13 DEF node_touched
  <2>15. PageInv'
    <3>1. \A p \in PageId : p >= num_pages' => ~IsData(contents'[p])
      BY <2>1, <2>2, <2>3, LoopFacts DEF PageId
    <3>2. /\ current' \in PageId /\ current' < num_pages'
          /\ contents'[current'] = DataPage(Rows!Formatted)
      BY <1>11, <2>1, <2>2, <2>3
    <3>3. RowsOf(current)' = Rows!Formatted
      BY <3>2 DEF RowsOf, DataPage
    <3>4. touched' \subseteq PageId /\ \A p \in touched' : p \in kept'
      BY <2>1, <2>8, <2>12, <2>13
    <3>5. PageId' = PageId /\ contents' = [p \in PageId |-> contents'[p]]
      BY <2>1, <2>2 DEF IsPages, PageId
    <3> QED BY <2>10, <3>1, <3>2, <3>3, <3>4, <3>5, FormattedFields DEF PageInv, DataPage
  <2>16. StackShape'
    <3>1. HasPage'
      BY <1>11, <2>3 DEF HasPage, NoPage
    <3>2. Waits(id, n)'
      BY <1>5, <2>4, <3>1 DEF Waits
    <3> QED BY <3>2 DEF StackShape
  <2>17. T!RestInv'
    BY <2>1, RestIs, LoopFacts
  <2>18. num_pages' \in num_pages .. MAX_PAGES
    BY <2>1, <2>3, IrisDBAssumption DEF PageId
  <2>19. kept' \subseteq {p \in PageId : p < num_pages'}
    BY <2>1, <2>3, <2>8
  <2>20. ASSUME NEW p \in PageId
         PROVE  /\ other_pins'[p] - T!One(p \in kept') = other_pins[p] - T!One(p \in kept)
                /\ p >= num_pages' => other_pins'[p] = 0
    <3>1. pins[p] \in Nat /\ (p >= num_pages => pins[p] = 0) /\ p \in Int
      BY <2>9, LoopFacts DEF PageId
    <3>2. CASE p = num_pages
      BY <3>1, <3>2, <2>1, <2>3, <2>8, <2>9, <2>10 DEF T!One
    <3>3. CASE p # num_pages
      BY <3>1, <3>3, <2>1, <2>3, <2>8, <2>9, <2>10 DEF T!One
    <3> QED BY <3>2, <3>3
  <2>21. root_page_id' = root_page_id /\ other_pins' \in [PageId -> Nat]
    BY <1>11, <2>9, <2>10
  <2> QED BY <2>7, <2>11, <2>14, <2>15, <2>16, <2>17, <2>18, <2>19, <2>20, <2>21,
             LoopStepPreserves
<1> QED BY <1>10, <1>11 DEF DoOpenPage

(* The pages when a row is stored in the current one.                      *)
LEMMA StoreProps ==
  ASSUME LoopInv, ~InCall, HasPage, NEW id \in Id, NEW n \in Length, Store(id, n),
         Tail(stack) = <<>>, kept = {current}, other_pins = pins,
         UNCHANGED <<root_page_id, num_pages, pins, crashed, current, reply, inserts>>
  PROVE  Preserves
<1> DEFINE rows == Rows!InsertTuple(RowsOf(current), Text(id, n), n)
           c == [contents EXCEPT ![current].rows =
                    Rows!InsertTuple(@, Text(id, n), n)]
<1>1. /\ contents' = c /\ touched' = touched \cup {p \in PageId : c[p] # contents[p]}
      /\ stack' = <<ForRow("IndexRow", id, n)>> \o <<>>
  BY TPages DEF Store, Tree!Assign, Then
<1>2. /\ current \in PageId /\ current < num_pages
      /\ contents[current] = DataPage(RowsOf(current))
      /\ DOMAIN RowsOf(current) = RowFields /\ RowsOf(current).num \in Int
  BY DEF LoopInv, PageInv
<1>3. DOMAIN rows = RowFields /\ rows.num \in Int
  BY <1>2, StoredFields
<1>4. IsPages(contents)
  BY LoopFacts
<1>5. [contents[current] EXCEPT !.rows = Rows!InsertTuple(@, Text(id, n), n)] = DataPage(rows)
  <2>1. PICK x : x = RowsOf(current)
    OBVIOUS
  <2>2. contents[current] = [type |-> "data", rows |-> x]
    BY <1>2, <2>1 DEF DataPage
  <2> QED BY <2>1, <2>2 DEF DataPage
<1>6. /\ IsPages(c)
      /\ \A p \in PageId : c[p] = IF p = current THEN DataPage(rows) ELSE contents[p]
  <2> HIDE DEF rows
  <2> QED BY <1>2, <1>4, <1>5 DEF IsPages
<1> HIDE DEF c, rows
<1>7. IsData(DataPage(rows)) /\ IsData(contents[current])
  BY <1>2 DEF IsData, DataPage
<1>8. stack' = <<ForRow("IndexRow", id, n)>>
  <2>1. PICK f : f = ForRow("IndexRow", id, n)
    OBVIOUS
  <2>2. stack' = <<f>> \o <<>>
    BY <1>1, <2>1
  <2> QED BY <2>1, <2>2, ShortConcats
<1>9. PICK t : t = stack'
  OBVIOUS
<1>10. /\ t # <<>> /\ Len(t) = 1 /\ t[1].do = "IndexRow" /\ t[Len(t)].do = "IndexRow"
  BY <1>8, <1>9, OneOfLoop DEF LoopDo
<1>11. calls = <<>> /\ calls' = <<>>
  BY <1>9, <1>10, NoCalls DEF calls, InTree
<1>12. kept' = {current} /\ other_pins' = pins'
  BY <1>9, <1>10 DEF kept, other_pins, Showing, HasPage
<1>13. nodes' = nodes
  <2>1. \A p \in PageId : Blanked(c)[p] = nodes[p]
    BY <1>6, <1>7, BlankedIs DEF nodes
  <2>2. Blanked(c) = nodes
    BY <2>1, BlankedIs DEF IsPages, nodes
  <2> QED BY <1>1, <2>2 DEF nodes
<1>14. touched' \subseteq touched \cup {current}
  BY <1>1, <1>6
<1>15. node_touched' \subseteq node_touched
  BY <1>1, <1>2, <1>6, <1>7, <1>14 DEF node_touched, LoopInv, PageInv
<1>16. PageInv'
  <2>1. \A p \in PageId : p >= num_pages' => ~IsData(contents'[p])
    BY <1>1, <1>2, <1>6, LoopFacts DEF PageId
  <2>2. contents'[current'] = DataPage(rows) /\ current' = current
    BY <1>1, <1>2, <1>6
  <2>3. RowsOf(current)' = rows
    BY <2>2 DEF RowsOf, DataPage
  <2>4. touched' \subseteq PageId /\ \A p \in touched' : IsData(contents'[p]) => p \in kept'
    BY <1>1, <1>2, <1>6, <1>7, <1>12, <1>14 DEF LoopInv, PageInv
  <2>5. PageId' = PageId /\ contents' = [p \in PageId |-> contents'[p]]
    BY <1>1, <1>6 DEF IsPages, PageId
  <2>6. pins' \in [PageId -> Nat]
    BY LoopFacts
  <2> QED BY <1>2, <1>3, <2>1, <2>2, <2>3, <2>4, <2>5, <2>6 DEF PageInv, DataPage
<1>17. StackShape'
  <2>1. Waits(id, n)'
    BY <1>8 DEF Waits, HasPage
  <2> QED BY <2>1 DEF StackShape
<1>18. T!RestInv'
  BY RestIs, LoopFacts
<1>19. num_pages' \in num_pages .. MAX_PAGES
  BY LoopFacts
<1>20. kept' = kept /\ other_pins' = other_pins
  BY <1>12
<1> QED BY <1>11, <1>13, <1>15, <1>16, <1>17, <1>18, <1>19, <1>20, LoopFacts, LoopStepPreserves

(* The facts the statements of the loop share.                             *)
LEMMA LoopStatement ==
  ASSUME LoopInv, NEW do \in LoopDo, Executing(do)
  PROVE  /\ HasPage /\ ~InCall /\ calls = <<>> /\ Tail(stack) = <<>>
         /\ kept = {current} /\ other_pins = pins
         /\ \E id \in Id, n \in Length : stack = <<ForRow(do, id, n)>>
         /\ Head(stack).id \in Id /\ Head(stack).length \in Length
<1>1. PICK id \in Id, n \in Length : stack = <<ForRow(do, id, n)>>
  BY HeadsOfLoop
<1>2. PICK st : st = stack
  OBVIOUS
<1>3. /\ st # <<>> /\ Len(st) = 1 /\ st[1].do = do /\ Head(st) = st[1] /\ Tail(st) = <<>>
      /\ do # "OpenPage" /\ do # "UnpinPage" /\ st[1].id = id /\ st[1].length = n
  BY <1>1, <1>2, OneOfLoop
<1>4. ~InCall
  BY <1>2, <1>3, CallsHaveNoLoopHead DEF LoopDo
<1>5. HasPage
  BY HeadsOfLoop
<1>6. kept = {current} /\ other_pins = pins
  BY <1>2, <1>3, <1>5 DEF kept, other_pins, Showing, HasPage
<1> QED BY <1>1, <1>2, <1>3, <1>4, <1>5, <1>6, NoCalls

LEMMA DoStoreInNewPagePreserves ==
  ASSUME LoopInv, DoStoreInNewPage, UNCHANGED <<reply, inserts>>
  PROVE  Preserves
<1>1. /\ Executing("StoreInNewPage") /\ Store(Head(stack).id, Head(stack).length)
      /\ UNCHANGED <<root_page_id, num_pages, pins, crashed, current>>
  BY DEF DoStoreInNewPage
<1>2. "StoreInNewPage" \in LoopDo
  BY DEF LoopDo
<1> QED BY <1>1, <1>2, LoopStatement, StoreProps

LEMMA DoStoreRowPreserves ==
  ASSUME LoopInv, DoStoreRow, UNCHANGED <<reply, inserts>>
  PROVE  Preserves
<1> DEFINE s == Head(stack)
<1>1. /\ Executing("StoreRow")
      /\ \/ Store(s.id, s.length)
         \/ Then(NextPage(s.id, s.length)) /\ UNCHANGED <<contents, touched>>
      /\ UNCHANGED <<root_page_id, num_pages, pins, crashed, current>>
  BY DEF DoStoreRow
<1>2. "StoreRow" \in LoopDo
  BY DEF LoopDo
<1>3. /\ HasPage /\ ~InCall /\ calls = <<>> /\ Tail(stack) = <<>>
      /\ kept = {current} /\ other_pins = pins /\ s.id \in Id /\ s.length \in Length
  BY <1>1, <1>2, LoopStatement
<1> HIDE DEF s
<1>4. CASE Store(s.id, s.length)
  BY <1>1, <1>3, <1>4, StoreProps
<1>5. CASE Then(NextPage(s.id, s.length)) /\ UNCHANGED <<contents, touched>>
  <2>1. PICK u : u = Tree!UnpinPage(current, TRUE)
    OBVIOUS
  <2>2. PICK r : r = ForRow("StoreInNewPage", s.id, s.length)
    OBVIOUS
  <2>3. stack' = <<u, OpenPage, r>>
    <3>1. PICK o : o = OpenPage
      OBVIOUS
    <3>2. PICK xs : xs = <<u, o, r>>
      OBVIOUS
    <3>3. NextPage(s.id, s.length) = xs
      BY <2>1, <2>2, <3>1, <3>2 DEF NextPage
    <3>4. stack' = xs \o <<>>
      BY <1>3, <1>5, <3>3 DEF Then
    <3>5. xs \in Seq({u, o, r})
      BY <3>2
    <3>6. xs \o <<>> = xs
      BY <3>5, ConcatEmptySeq
    <3> QED BY <3>1, <3>2, <3>4, <3>6
  <2>4. u.do = "UnpinPage" /\ r.do = "StoreInNewPage"
    BY <2>1, <2>2 DEF Tree!UnpinPage, ForRow
  <2>5. PICK t : t = stack'
    OBVIOUS
  <2>6. t = <<u, OpenPage, r>>
    BY <2>3, <2>5
  <2>7. t # <<>> /\ Len(t) = 3 /\ t[1] = u /\ t[3] = r
    BY <2>6, TopOfThree
  <2>8. calls' = <<>>
    BY <2>4, <2>5, <2>7 DEF calls, InTree
  <2>9. kept' = kept /\ other_pins' = other_pins
    BY <1>1, <1>3, <2>4, <2>5, <2>7 DEF kept, other_pins, Showing, HasPage
  <2>10. PageInv' /\ nodes' = nodes /\ node_touched' \subseteq node_touched
    <3>1. \A p \in touched' : IsData(contents[p]) => p \in kept'
      BY <1>5, <2>9 DEF LoopInv, PageInv
    <3> QED BY <1>1, <1>5, <3>1, LoopFacts, SamePageInv
  <2>11. StackShape'
    <3>1. HasPage' /\ u = Tree!UnpinPage(current', TRUE)
      BY <1>1, <1>3, <2>1 DEF HasPage
    <3>2. stack' = <<Tree!UnpinPage(current', TRUE), OpenPage,
                     ForRow("StoreInNewPage", s.id, s.length)>>
      BY <2>2, <2>3, <3>1
    <3>3. \E id \in Id, n \in Length :
            stack' = <<Tree!UnpinPage(current', TRUE), OpenPage, ForRow("StoreInNewPage", id, n)>>
      BY <1>3, <3>2
    <3> QED BY <3>1, <3>3 DEF StackShape, Waits, Tree!UnpinPage
  <2>12. T!RestInv' /\ num_pages' \in num_pages .. MAX_PAGES
    BY <1>1, RestIs, LoopFacts
  <2> QED BY <1>1, <1>3, <2>8, <2>9, <2>10, <2>11, <2>12, LoopFacts, LoopStepPreserves
<1> QED BY <1>1, <1>4, <1>5

(* A call of the tree begins.                                              *)
LEMMA TreeCallPreserves ==
  ASSUME LoopInv, calls = <<>>, NEW b, T!IsFirst(b), NEW w, w.do \in {"Acknowledge", "ShowRow"},
         stack' = <<b, w>>, ~Showing,
         kept = IF current = NoPage THEN {} ELSE {current},
         UNCHANGED <<root_page_id, contents, num_pages, pins, touched, current>>, T!RestInv'
  PROVE  Preserves
<1>1. PICK t : t = stack'
  OBVIOUS
<1>2. b \in T!Statement /\ b.do \in {"Return", "Descend", "StartNewTree"} /\ T!IsReady(b)
  BY DEF T!IsFirst
<1>3. t = <<b, w>> /\ Len(t) = 2 /\ t # <<>> /\ t[1] = b /\ t[2] = w
  BY <1>1, TopOfTwo
<1>4. PICK q : q = <<b>> /\ SubSeq(t, 1, Len(t) - 1) = q /\ t = Append(q, w)
  <2>1. PICK q : q = <<b>>
    OBVIOUS
  <2>2. t = Append(q, w)
    BY <1>3, <2>1
  <2>3. SubSeq(t, 1, Len(t) - 1) = q
    <3>1. PICK S : S = {b, w}
      OBVIOUS
    <3>2. b \in S /\ w \in S
      BY <3>1
    <3>3. q \in Seq(S)
      BY <2>1, <3>2
    <3> QED BY <2>2, <3>2, <3>3, AppendFacts
  <2> QED BY <2>1, <2>2, <2>3
<1>5. InTree' /\ calls' = <<b>>
  <2>1. InTree'
    BY <1>1, <1>3 DEF InTree
  <2>2. calls' = q
    BY <1>1, <1>4, <2>1 DEF calls
  <2> QED BY <1>4, <2>1, <2>2
<1>6. AsksTree'
  <2>1. calls' = q
    BY <1>4, <1>5
  <2>2. t = Append(q, t[Len(t)])
    BY <1>3, <1>4
  <2> QED BY <1>1, <1>3, <2>1, <2>2, <1>5 DEF AsksTree
<1>7. ~Showing' /\ other_pins' = pins' /\ other_pins = pins
  BY <1>1, <1>3 DEF Showing, other_pins
<1>8. kept' = kept
  BY <1>1, <1>2, <1>3 DEF kept
<1>9. UNCHANGED <<T!pool, root_page_id, kept>>
  <2>1. UNCHANGED <<nodes, num_pages, other_pins, node_touched, root_page_id, kept>>
    BY <1>7, <1>8 DEF nodes, Blanked, node_touched
  <2> QED BY <2>1 DEF T!pool
<1>10. T!Keeps
  BY <1>2, <1>5, <1>9, TreeOK, T!CallStarts DEF LoopInv
<1>11. ASSUME PinsExact
       PROVE  T!HasRoomToSplit
  BY DEF T!HasRoomToSplit, T!Executing
<1>12. PageInv'
  <2>1. \A p \in touched' : IsData(contents[p]) => p \in kept'
    BY <1>8 DEF LoopInv, PageInv
  <2> QED BY <2>1, LoopFacts, SamePageInv
<1> QED BY <1>6, <1>10, <1>11, <1>12 DEF T!Keeps, Preserves, LoopInv, PinsExact, StackShape

LEMMA DoIndexRowPreserves ==
  ASSUME LoopInv, DoIndexRow, UNCHANGED <<reply, inserts>>
  PROVE  Preserves
<1> DEFINE s   == Head(stack)
           rid == [page |-> current, slot |-> LastSlot(RowsOf(current))]
<1>1. /\ Executing("IndexRow")
      /\ Then(<<Tree!CallInsert(s.id, rid), ForRow("Acknowledge", s.id, s.length)>>)
      /\ UNCHANGED <<root_page_id, contents, num_pages, pins, touched, crashed, current>>
  BY DEF DoIndexRow, pool
<1>2. "IndexRow" \in LoopDo
  BY DEF LoopDo
<1>3. /\ HasPage /\ ~InCall /\ calls = <<>> /\ Tail(stack) = <<>>
      /\ kept = {current} /\ other_pins = pins /\ s.id \in Id
  BY <1>1, <1>2, LoopStatement
<1>4. ~Showing
  <2>1. PICK id \in Id, n \in Length : stack = <<ForRow("IndexRow", id, n)>>
    BY <1>1, <1>2, LoopStatement
  <2>2. PICK st : st = stack
    OBVIOUS
  <2>3. st[1].do # "UnpinPage"
    BY <1>2, <2>1, <2>2, OneOfLoop
  <2> QED BY <2>2, <2>3 DEF Showing
<1>5. rid \in [page : PageId, slot : Int]
  BY <1>3 DEF LoopInv, PageInv, LastSlot
<1> HIDE DEF s, rid
<1>6. PICK b : b = T!CallInsert(s.id, rid)
  OBVIOUS
<1>7. T!IsFirst(b)
  BY <1>3, <1>5, <1>6, TreeOK, T!CallInsertIsReady DEF LoopInv
<1>8. PICK w : w = ForRow("Acknowledge", s.id, s.length)
  OBVIOUS
<1>9. w.do = "Acknowledge"
  BY <1>8 DEF ForRow
<1>10. stack' = <<b, w>>
  <2>1. stack' = <<b, w>> \o <<>>
    BY <1>1, <1>3, <1>6, <1>8, SameCalls DEF Then
  <2> QED BY <2>1
<1>11. T!RestInv'
  BY <1>1, RestIs, LoopFacts
<1> QED BY <1>1, <1>3, <1>4, <1>7, <1>9, <1>10, <1>11, TreeCallPreserves DEF HasPage

LEMMA DoAcknowledgePreserves ==
  ASSUME LoopInv, DoAcknowledge
  PROVE  Preserves
<1>1. /\ Executing("Acknowledge") /\ Then(<<>>)
      /\ UNCHANGED <<root_page_id, contents, num_pages, pins, touched, crashed, reply, current,
                     inserts>>
  BY DEF DoAcknowledge, pool
<1>2. PICK s : s = Head(stack)
  OBVIOUS
<1>3. stack = <<s>> /\ s.do = "Acknowledge"
  BY <1>1, <1>2, HeadsOfLoop DEF Executing
<1>4. stack # <<>> /\ Len(stack) = 1 /\ stack[1] = s /\ Tail(stack) = <<>>
  BY <1>3, TopOfOne
<1>5. ~InCall
  BY <1>2, <1>3, CallsHaveNoLoopHead
<1>6. stack' = <<>>
  <2>1. stack' = <<>> \o <<>>
    BY <1>1, <1>4 DEF Then
  <2> QED BY <2>1
<1>7. calls = <<>> /\ calls' = <<>>
  BY <1>5, <1>6, NoCalls DEF calls, InTree
<1>8. kept' = kept
  BY <1>1, <1>3, <1>4, <1>6 DEF kept
<1>9. other_pins' = other_pins
  <2>1. PICK t : t = stack'
    OBVIOUS
  <2>2. Len(t) = 0
    BY <1>6, <2>1
  <2> QED BY <1>1, <1>3, <1>4, <2>1, <2>2 DEF other_pins, Showing
<1>10. PageInv' /\ nodes' = nodes /\ node_touched' \subseteq node_touched
  <2>1. \A p \in touched' : IsData(contents[p]) => p \in kept'
    BY <1>1, <1>8 DEF LoopInv, PageInv
  <2> QED BY <1>1, <2>1, LoopFacts, SamePageInv
<1>11. StackShape'
  BY <1>6 DEF StackShape
<1>12. T!RestInv' /\ num_pages' \in num_pages .. MAX_PAGES
  BY <1>1, RestIs, LoopFacts
<1> QED BY <1>1, <1>7, <1>8, <1>9, <1>10, <1>11, <1>12, LoopFacts, LoopStepPreserves

LEMMA DoShowRowPreserves ==
  ASSUME LoopInv, DoShowRow
  PROVE  Preserves
<1> DEFINE q == reply.entry.value.page
<1>1. /\ Executing("ShowRow") /\ UNCHANGED <<reply, current, inserts>>
      /\ \/ Then(<<>>) /\ UNCHANGED <<root_page_id, contents, num_pages, pins, touched, crashed>>
         \/ /\ Tree!FetchPage(q, contents) /\ Then(<<Tree!UnpinPage(q, FALSE)>>)
            /\ UNCHANGED root_page_id
         \/ Tree!Crash
  BY DEF DoShowRow, pool
<1> HIDE DEF q
<1>2. PICK s : s = Head(stack)
  OBVIOUS
<1>3. stack = <<s>> /\ s.do = "ShowRow"
  BY <1>1, <1>2, HeadsOfLoop DEF Executing
<1>4. stack # <<>> /\ Len(stack) = 1 /\ stack[1] = s /\ Tail(stack) = <<>>
  BY <1>3, TopOfOne
<1>5. ~InCall
  BY <1>2, <1>3, CallsHaveNoLoopHead
<1>6. calls = <<>>
  BY <1>5, NoCalls
<1>7. other_pins = pins
  BY <1>3, <1>4 DEF other_pins, Showing
<1>8. CASE Tree!Crash
  BY <1>1, <1>5, <1>8, LoopCrash
<1>9. CASE Then(<<>>) /\ UNCHANGED <<root_page_id, contents, num_pages, pins, touched, crashed>>
  <2>1. stack' = <<>>
    <3>1. stack' = <<>> \o <<>>
      BY <1>4, <1>9 DEF Then
    <3> QED BY <3>1
  <2>2. PICK t : t = stack'
    OBVIOUS
  <2>3. Len(t) = 0
    BY <2>1, <2>2
  <2>4. calls' = <<>>
    BY <2>1 DEF calls, InTree
  <2>5. kept' = kept
    BY <1>1, <1>3, <1>4, <2>1 DEF kept
  <2>6. other_pins' = other_pins
    BY <1>7, <1>9, <2>2, <2>3 DEF other_pins, Showing
  <2>7. PageInv' /\ nodes' = nodes /\ node_touched' \subseteq node_touched
    <3>1. \A p \in touched' : IsData(contents[p]) => p \in kept'
      BY <1>9, <2>5 DEF LoopInv, PageInv
    <3> QED BY <1>1, <1>9, <3>1, LoopFacts, SamePageInv
  <2>8. StackShape'
    BY <2>1 DEF StackShape
  <2>9. T!RestInv' /\ num_pages' \in num_pages .. MAX_PAGES
    BY <1>1, <1>9, RestIs, LoopFacts
  <2> QED BY <1>1, <1>6, <1>9, <2>4, <2>5, <2>6, <2>7, <2>8, <2>9, LoopFacts, LoopStepPreserves
<1>10. CASE /\ Tree!FetchPage(q, contents) /\ Then(<<Tree!UnpinPage(q, FALSE)>>)
            /\ UNCHANGED root_page_id
  <2>1. /\ pins' = Tree!Pool!PlusPin(q) /\ UNCHANGED <<contents, num_pages, crashed>>
        /\ touched' = touched
    BY <1>10 DEF Tree!FetchPage, Tree!Assign
  <2>2. PICK u : u = Tree!UnpinPage(q, FALSE)
    OBVIOUS
  <2>3. stack' = <<u>> /\ u.do = "UnpinPage" /\ u.page = q
    <3>1. stack' = <<u>> \o <<>>
      BY <1>4, <1>10, <2>2 DEF Then
    <3> QED BY <2>2, <3>1 DEF Tree!UnpinPage
  <2>4. PICK t : t = stack'
    OBVIOUS
  <2>5. t # <<>> /\ Len(t) = 1 /\ t[1] = u
    BY <2>3, <2>4, TopOfOne
  <2>6. Showing' /\ calls' = <<>>
    BY <2>3, <2>4, <2>5 DEF Showing, calls, InTree
  <2>7. kept' = kept
    BY <1>1, <1>3, <1>4, <2>3, <2>4, <2>5 DEF kept
  <2>8. pins' = [pins EXCEPT ![q] = @ + 1] /\ pins \in [PageId -> Nat]
    BY <2>1, LoopFacts DEF Tree!Pool!PlusPin
  <2>9. [pins' EXCEPT ![q] = @ - 1] = pins
    <3>1. CASE q \in PageId
      <4>1. /\ pins'[q] = pins[q] + 1 /\ pins[q] \in Nat
            /\ pins' \in [PageId -> Nat] /\ \A p \in PageId : p # q => pins'[p] = pins[p]
        BY <2>8, <3>1
      <4>2. pins'[q] - 1 = pins[q]
        BY <4>1
      <4> QED BY <2>8, <4>1, <4>2
    <3>2. CASE q \notin PageId
      <4>1. pins' = pins
        BY <2>8, <3>2
      <4>2. [pins EXCEPT ![q] = pins[q] - 1] = pins
        BY <2>8, <3>2
      <4> QED BY <4>1, <4>2
    <3> QED BY <3>1, <3>2
  <2>10. other_pins' = other_pins
    BY <1>7, <2>3, <2>4, <2>5, <2>6, <2>9 DEF other_pins
  <2>11. PageInv' /\ nodes' = nodes /\ node_touched' \subseteq node_touched
    <3>1. \A p \in touched' : IsData(contents[p]) => p \in kept'
      BY <2>1, <2>7 DEF LoopInv, PageInv
    <3>2. pins' \in [PageId -> Nat]
      <4>1. CASE q \in PageId
        BY <2>8, <4>1
      <4>2. CASE q \notin PageId
        <5>1. pins' = pins
          BY <2>8, <4>2
        <5> QED BY <2>8, <5>1
      <4> QED BY <4>1, <4>2
    <3> QED BY <1>1, <2>1, <3>1, <3>2, SamePageInv
  <2>12. StackShape'
    <3>1. stack'[1].page = q /\ u = Tree!UnpinPage(q, FALSE)
      BY <2>2, <2>3, <2>4, <2>5
    <3> QED BY <2>3, <2>6, <3>1 DEF StackShape, Shows, Tree!UnpinPage
  <2>13. T!RestInv' /\ num_pages' \in num_pages .. MAX_PAGES
    BY <1>1, <2>1, RestIs, LoopFacts
  <2> QED BY <1>1, <1>6, <1>10, <2>1, <2>6, <2>7, <2>10, <2>11, <2>12, <2>13, LoopFacts,
             LoopStepPreserves
<1> QED BY <1>1, <1>8, <1>9, <1>10

LEMMA SelectCommandPreserves ==
  ASSUME LoopInv, NEW id \in Id, SelectCommand(id)
  PROVE  Preserves
<1>1. /\ stack = <<>>
      /\ stack' = <<Tree!CallGetValue(id), ShowRow(id)>>
      /\ UNCHANGED <<root_page_id, contents, num_pages, pins, touched, crashed, reply, current,
                     inserts>>
  BY DEF SelectCommand, Idle, pool
<1>2. PICK b : b = T!CallGetValue(id)
  OBVIOUS
<1>3. T!IsFirst(b)
  BY <1>2, TreeOK, T!CallGetValueIsReady DEF LoopInv
<1>4. PICK w : w = ShowRow(id)
  OBVIOUS
<1>5. w.do = "ShowRow" /\ stack' = <<b, w>>
  BY <1>1, <1>2, <1>4, SameCalls DEF ShowRow
<1>6. calls = <<>> /\ kept = IF current = NoPage THEN {} ELSE {current}
  BY <1>1 DEF calls, InTree, kept
<1>7. ~Showing
  <2>1. PICK t : t = stack
    OBVIOUS
  <2>2. Len(t) = 0
    BY <1>1, <2>1
  <2> QED BY <2>1, <2>2 DEF Showing
<1>8. T!RestInv'
  BY <1>1, RestIs, LoopFacts
<1> QED BY <1>1, <1>3, <1>5, <1>6, <1>7, <1>8, TreeCallPreserves

LEMMA InsertCommandPreserves ==
  ASSUME LoopInv, NEW id \in Id, NEW n \in Length, InsertCommand(id, n)
  PROVE  Preserves
<1>1. /\ stack = <<>> /\ inserts < MAX_INSERTS /\ inserts' = inserts + 1
      /\ stack' = (IF current = NoPage THEN <<OpenPage>> ELSE <<>>)
                    \o <<ForRow("StoreRow", id, n)>>
      /\ UNCHANGED <<root_page_id, contents, num_pages, pins, touched, crashed, reply, current>>
  BY DEF InsertCommand, Idle, pool
<1>2. PICK r : r = ForRow("StoreRow", id, n)
  OBVIOUS
<1>3. PICK o : o = OpenPage
  OBVIOUS
<1>4. r.do = "StoreRow" /\ o.do = "OpenPage"
  BY <1>2, <1>3 DEF ForRow, OpenPage
<1>5. stack' = IF current = NoPage THEN <<o, r>> ELSE <<r>>
  <2>1. <<o>> \o <<r>> = <<o, r>>
    BY ShortConcats
  <2>2. <<>> \o <<r>> = <<r>>
    OBVIOUS
  <2>3. CASE current = NoPage
    <3>1. stack' = <<o>> \o <<r>>
      BY <1>1, <1>2, <1>3, <2>3
    <3> QED BY <2>1, <2>3, <3>1
  <2>4. CASE current # NoPage
    <3>1. stack' = <<>> \o <<r>>
      BY <1>1, <1>2, <2>4
    <3> QED BY <2>2, <2>4, <3>1
  <2> QED BY <2>3, <2>4
<1>6. PICK t : t = stack'
  OBVIOUS
<1>7. /\ t # <<>> /\ t[Len(t)] = r
      /\ t[1] = IF current = NoPage THEN o ELSE r
  <2>1. CASE current = NoPage
    <3>1. t = <<o, r>>
      BY <1>5, <1>6, <2>1
    <3>2. t # <<>> /\ Len(t) = 2 /\ t[1] = o /\ t[2] = r
      BY <3>1, TopOfTwo
    <3> QED BY <2>1, <3>2
  <2>2. CASE current # NoPage
    <3>1. t = <<r>>
      BY <1>5, <1>6, <2>2
    <3>2. t # <<>> /\ Len(t) = 1 /\ t[1] = r
      BY <3>1, TopOfOne
    <3> QED BY <2>2, <3>2
  <2> QED BY <2>1, <2>2
<1>8. calls = <<>> /\ calls' = <<>>
  BY <1>1, <1>4, <1>6, <1>7 DEF calls, InTree
<1>9. kept' = kept
  BY <1>1, <1>4, <1>6, <1>7 DEF kept
<1>10. other_pins' = pins' /\ other_pins = pins
  <2>1. PICK st : st = stack
    OBVIOUS
  <2>2. Len(st) = 0
    BY <1>1, <2>1
  <2>3. t[1].do # "UnpinPage"
    BY <1>4, <1>7
  <2> QED BY <1>6, <2>1, <2>2, <2>3 DEF other_pins, Showing
<1>11. PageInv' /\ nodes' = nodes /\ node_touched' \subseteq node_touched
  <2>1. \A p \in touched' : IsData(contents[p]) => p \in kept'
    BY <1>1, <1>9 DEF LoopInv, PageInv
  <2> QED BY <1>1, <2>1, LoopFacts, SamePageInv
<1>12. StackShape'
  <2>1. CASE current = NoPage
    <3>1. stack' = <<OpenPage, ForRow("StoreRow", id, n)>>
      BY <1>2, <1>3, <1>5, <2>1
    <3>2. Waits(id, n)'
      BY <3>1 DEF Waits
    <3> QED BY <3>2 DEF StackShape
  <2>2. CASE current # NoPage
    <3>1. stack' = <<ForRow("StoreRow", id, n)>> /\ HasPage'
      BY <1>1, <1>2, <1>5, <2>2 DEF HasPage
    <3>2. Waits(id, n)'
      BY <3>1 DEF Waits
    <3> QED BY <3>2 DEF StackShape
  <2> QED BY <2>1, <2>2
<1>13. T!RestInv' /\ num_pages' \in num_pages .. MAX_PAGES
  <2>1. inserts' \in 0 .. MAX_INSERTS
    BY <1>1, IrisDBAssumption, LoopFacts
  <2> QED BY <1>1, <2>1, RestIs, LoopFacts
<1> QED BY <1>1, <1>8, <1>9, <1>10, <1>11, <1>12, <1>13, LoopFacts, LoopStepPreserves

(* The program starts again: no tree, no calls, no pins.                   *)
Started ==
  /\ contents = [p \in PageId |-> Tree!BlankPage] /\ pins = [p \in PageId |-> 0]
  /\ touched = {} /\ stack = <<>> /\ current = NoPage /\ root_page_id = NoPage
  /\ num_pages \in 0 .. MAX_PAGES /\ crashed \in BOOLEAN /\ reply = NoReply
  /\ inserts \in 0 .. MAX_INSERTS

LEMMA StartedHasLoopInv == Started => LoopInv /\ PinsExact
<1> SUFFICES ASSUME Started PROVE LoopInv /\ PinsExact
  OBVIOUS
<1> USE DEF Started
<1>1. ~IsData(Tree!BlankPage) /\ Tree!BlankPage = T!BlankPage
  BY SameNodeOperators, TreePagesAreNoData
<1>2. PICK st : st = stack
  OBVIOUS
<1>3. Len(st) = 0
  BY <1>2
<1>4. calls = <<>> /\ kept = {} /\ other_pins = pins
  BY <1>2, <1>3 DEF calls, InTree, kept, other_pins, Showing
<1>5. \A p \in PageId : nodes[p] = T!BlankPage
  BY <1>1, BlankedIs DEF nodes
<1>6. nodes = [p \in PageId |-> T!BlankPage] /\ node_touched = {}
  BY <1>5, BlankedIs DEF IsPages, node_touched, nodes
<1>7. T!NoTree
  BY <1>4, <1>6, TPages DEF T!NoTree, T!NoPage, NoPage
<1>8. T!RestInv
  BY DEF T!RestInv
<1>9. T!IInv /\ T!PinsAreExact
  BY <1>7, <1>8, TreeOK, T!NoTreeHasIInv
<1>10. PageInv
  BY <1>1 DEF PageInv, HasPage
<1> QED BY <1>9, <1>10 DEF LoopInv, PinsExact, StackShape

LEMMA InitHasLoopInv == Init => LoopInv /\ PinsExact
<1> SUFFICES ASSUME Init PROVE LoopInv /\ PinsExact
  OBVIOUS
<1>1. /\ current = NoPage /\ root_page_id = Tree!NoPage /\ num_pages = 0
      /\ contents = [p \in PageId |-> Tree!BlankPage] /\ pins = [p \in PageId |-> 0]
      /\ touched = {} /\ stack = <<>> /\ crashed = FALSE /\ reply = NoReply /\ inserts = 0
  BY TPages DEF Init, Tree!Init
<1>2. 0 \in 0 .. MAX_PAGES /\ 0 \in 0 .. MAX_INSERTS /\ Tree!NoPage = NoPage
  BY IrisDBAssumption DEF Tree!NoPage, NoPage
<1> QED BY <1>1, <1>2, StartedHasLoopInv DEF Started

LEMMA RestartPreserves ==
  ASSUME LoopInv, Restart
  PROVE  Preserves
<1>1. /\ contents' = [p \in PageId |-> Tree!BlankPage] /\ pins' = [p \in PageId |-> 0]
      /\ touched' = {} /\ stack' = <<>> /\ current' = NoPage /\ root_page_id' = NoPage
      /\ num_pages' \in 0 .. num_pages /\ crashed' = FALSE /\ reply' = NoReply
      /\ inserts' = inserts
  BY TPages DEF Restart
<1>2. num_pages' \in 0 .. MAX_PAGES /\ inserts' \in 0 .. MAX_INSERTS /\ PageId' = PageId
      /\ Tree!BlankPage' = Tree!BlankPage
  BY <1>1, IrisDBAssumption, LoopFacts DEF Tree!BlankPage
<1>3. Started'
  BY <1>1, <1>2 DEF Started
<1>4. (LoopInv /\ PinsExact)'
  BY <1>3, StartedHasLoopInv, PTL
<1> QED BY <1>4 DEF Preserves

LEMMA StutterPreserves ==
  ASSUME LoopInv, UNCHANGED vars
  PROVE  Preserves
<1>1. /\ UNCHANGED <<root_page_id, contents, num_pages, pins, touched, stack, crashed, reply>>
      /\ UNCHANGED <<current, inserts>>
  BY DEF vars, pool
<1>2. /\ nodes' = nodes /\ calls' = calls /\ other_pins' = other_pins /\ kept' = kept
      /\ node_touched' = node_touched
  BY <1>1 DEF nodes, Blanked, calls, InTree, other_pins, Showing, kept, node_touched
<1>3. T!Keeps
  <2>1. UNCHANGED T!vars
    BY <1>1, <1>2 DEF T!vars, T!pool
  <2> QED BY <2>1, TreeSteps DEF LoopInv
<1>4. StackShape'
  BY <1>1 DEF LoopInv, StackShape, AsksTree, InTree, calls, Shows, Showing, Waits, HasPage,
              Tree!UnpinPage
<1>5. PageInv'
  <2>1. \A p \in touched' : IsData(contents[p]) => p \in kept'
    BY <1>1, <1>2 DEF LoopInv, PageInv
  <2> QED BY <1>1, <2>1, LoopFacts, SamePageInv
<1>6. PinsExact' <=> PinsExact
  BY <1>2 DEF PinsExact, T!PinsAreExact, T!PageId, T!Pool!PageId
<1> QED BY <1>3, <1>4, <1>5, <1>6 DEF Preserves, LoopInv, T!Keeps

(* A statement of the tree, executed for the tree or, the unpin of a page, *)
(* for the loop.                                                           *)
LEMMA TreeStatementPreserves ==
  ASSUME LoopInv, Tree!Step, current' = current
  PROVE  Preserves
<1>1. CASE InCall
  BY <1>1, TreeStepPreserves
<1>2. CASE ~InCall
  <2>1. ASSUME Tree!DoReturn
        PROVE  FALSE
    BY <1>2, <2>1, OnlyCallsExecute DEF Tree!DoReturn
  <2>2. ASSUME \/ Tree!DoStartNewTree \/ Tree!PassInternal \/ Tree!FetchFails
               \/ Tree!LookUpInLeaf \/ Tree!InsertIntoLeaf \/ Tree!DoSplitLeaf
               \/ Tree!GrowRoot \/ Tree!InsertIntoOldParent \/ Tree!DoSplitInternal
               \/ Tree!DoAdoptChildren
        PROVE  FALSE
    <3>1. \E do \in {"StartNewTree", "Descend", "SplitLeaf", "InsertIntoParent",
                     "SplitInternal", "AdoptChildren"} : Tree!Executing(do)
      BY <2>2 DEF Tree!DoStartNewTree, Tree!PassInternal, Tree!FetchFails, Tree!LookUpInLeaf,
                  Tree!InsertIntoLeaf, Tree!DoSplitLeaf, Tree!GrowRoot,
                  Tree!InsertIntoOldParent, Tree!DoSplitInternal, Tree!DoAdoptChildren
    <3> QED BY <1>2, <3>1, OnlyCallsExecute
  <2>3. Tree!DoUnpinPage /\ UNCHANGED <<reply, inserts>>
    BY <2>1, <2>2 DEF Tree!Step
  <2>4. Executing("UnpinPage")
    BY <2>3 DEF Tree!DoUnpinPage, Tree!Executing, Executing
  <2>5. CASE Shows
    BY <1>2, <2>3, <2>5, ShownPageUnpinned
  <2>6. CASE ~Shows
    <3>1. HasPage
      BY <1>2, <2>4, <2>6, HeadsOfLoop
    <3>2. PICK id \in Id, n \in Length :
            stack = <<Tree!UnpinPage(current, TRUE), OpenPage, ForRow("StoreInNewPage", id, n)>>
      BY <1>2, <2>4, <2>6, HeadsOfLoop
    <3> QED BY <1>2, <2>3, <3>1, <3>2, FullPageUnpinned
  <2> QED BY <2>5, <2>6
<1> QED BY <1>1, <1>2

LEMMA NextPreserves == LoopInv /\ [Next]_vars => Preserves
<1> SUFFICES ASSUME LoopInv, [Next]_vars PROVE Preserves
  OBVIOUS
<1>1. CASE Tree!Step /\ UNCHANGED <<current, answer, restarts>>
  BY <1>1, TreeStatementPreserves
<1>2. CASE /\ DoOpenPage \/ DoStoreRow \/ DoStoreInNewPage \/ DoIndexRow
           /\ UNCHANGED <<reply, answer, inserts, restarts>>
  BY <1>2, DoOpenPagePreserves, DoStoreRowPreserves, DoStoreInNewPagePreserves,
     DoIndexRowPreserves
<1>3. CASE DoAcknowledge
  BY <1>3, DoAcknowledgePreserves
<1>4. CASE DoShowRow
  BY <1>4, DoShowRowPreserves
<1>5. CASE \E id \in Id : SelectCommand(id) \/ \E n \in Length : InsertCommand(id, n)
  BY <1>5, SelectCommandPreserves, InsertCommandPreserves
<1>6. CASE Restart
  BY <1>6, RestartPreserves
<1>7. CASE UNCHANGED vars
  BY <1>7, StutterPreserves
<1> QED BY <1>1, <1>2, <1>3, <1>4, <1>5, <1>6, <1>7 DEF Next, Step

(* A changed page that is not pinned would be one of the tree's or one the *)
(* loop holds.                                                             *)
LEMMA ChangedAreGivenBackDirty ==
  ASSUME LoopInv, NEW p \in PageId, pins[p] = 0, p \in touched
  PROVE  FALSE
<1>1. T!ChangesAreDeclaredDirty
  BY TreeOK, T!ChangesWaitPinned DEF LoopInv
<1>2. other_pins[p] <= pins[p] /\ other_pins[p] \in Nat
  <2>1. pins \in [PageId -> Nat] /\ other_pins \in [PageId -> Nat]
    BY LoopFacts
  <2>2. CASE Showing /\ stack[1].page = p
    <3>1. other_pins[p] = pins[p] - 1
      BY <2>1, <2>2 DEF other_pins
    <3> QED BY <2>1, <3>1
  <2>3. CASE ~(Showing /\ stack[1].page = p)
    <3>1. other_pins[p] = pins[p]
      BY <2>1, <2>3 DEF other_pins
    <3> QED BY <2>1, <3>1
  <2> QED BY <2>2, <2>3
<1>3. other_pins[p] = 0
  BY <1>2, LoopFacts
<1>4. p \notin node_touched
  BY <1>1, <1>3, TPages DEF T!ChangesAreDeclaredDirty
<1>5. IsData(contents[p])
  BY <1>4 DEF node_touched
<1>6. p \in kept
  BY <1>5 DEF LoopInv, PageInv
<1>7. other_pins[p] >= T!Count(calls, p) + T!One(p \in kept) /\ T!Count(calls, p) \in Nat
  <2>1. calls \in Seq(T!Statement)
    BY DEF LoopInv, T!IInv, T!StackInv
  <2>2. T!Count(calls, p) \in Nat
    BY <2>1, TreeOK, T!CountType
  <2> QED BY <2>2, TPages DEF LoopInv, T!IInv, T!PinsInv
<1> QED BY <1>3, <1>6, <1>7 DEF T!One

LEMMA PinsAreThoseKept ==
  ASSUME LoopInv, PinsExact, stack = <<>>, NEW p \in PageId
  PROVE  pins[p] = IF p = current THEN 1 ELSE 0
<1>1. PICK st : st = stack
  OBVIOUS
<1>2. Len(st) = 0
  BY <1>1
<1>3. calls = <<>> /\ other_pins = pins
  BY <1>1, <1>2 DEF calls, InTree, other_pins, Showing
<1>4. kept = IF current = NoPage THEN {} ELSE {current}
  BY DEF kept
<1>5. pins[p] = T!One(p \in kept)
  BY <1>3, TreeOK, TPages, T!IdleFacts DEF LoopInv, PinsExact
<1>6. p # NoPage
  BY DEF PageId, NoPage
<1> QED BY <1>4, <1>5, <1>6 DEF T!One

LEMMA LoopInvHolds == Spec => []LoopInv
<1>1. LoopInv /\ [Next]_vars => LoopInv'
  BY NextPreserves DEF Preserves
<1> QED BY <1>1, InitHasLoopInv, PTL DEF Spec

(* Between two commands only the page the loop holds is pinned, and it     *)
(* once; and a page without a pin has no change that was not declared.     *)
(* The hypothesis is that of BPlusTreeProofs!PinsComeBack: no leaf is      *)
(* split while every frame is pinned, where SplitLeaf leaves its leaf      *)
(* pinned.                                                                 *)
THEOREM LoopPinsAndDirtyBits == Spec /\ []HasRoomToSplit => []PinsAndDirtyBitsAreRight
<1>1. Init => PinsExact
  BY InitHasLoopInv
<1>2. LoopInv /\ PinsExact /\ HasRoomToSplit /\ [Next]_vars => PinsExact'
  BY NextPreserves DEF Preserves
<1>3. LoopInv /\ PinsExact => PinsAndDirtyBitsAreRight
  <2> SUFFICES ASSUME LoopInv, PinsExact PROVE PinsAndDirtyBitsAreRight
    OBVIOUS
  <2>1. ASSUME NEW p \in PageId, pins[p] = 0
        PROVE  p \notin touched
    BY <2>1, ChangedAreGivenBackDirty
  <2>2. ASSUME Idle, NEW p \in PageId
        PROVE  pins[p] = IF p = current THEN 1 ELSE 0
    BY <2>2, PinsAreThoseKept DEF Idle
  <2> QED BY <2>1, <2>2, TPages DEF PinsAndDirtyBitsAreRight
<1> QED BY <1>1, <1>2, <1>3, LoopInvHolds, PTL DEF Spec
=============================================================================
