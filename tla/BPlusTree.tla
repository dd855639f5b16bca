----------------------------- MODULE BPlusTree -----------------------------
(***************************************************************************)
(* BPlusTree: an index from int keys to RecordIDs whose nodes are pages of *)
(* the buffer pool.  The pool is what PageStore promises, with one thread  *)
(* of callers: the tree and, between the tree's calls, the callers that    *)
(* hold data pages (main.cpp holds the one it inserts rows into).          *)
(*                                                                         *)
(* A step is one call of the tree on the pool together with what the tree  *)
(* does to the nodes it has pinned up to its next call.  What is left to   *)
(* do is the sequence `stack`: its head is the statement to execute next,  *)
(* and a statement that calls a function of the source pushes what that    *)
(* function does.  A null Page* is dereferenced where the code does not    *)
(* test it: the process dies, and crashed is set.                          *)
(***************************************************************************)
EXTENDS BPlusNode, FiniteSets

CONSTANTS
  Key,          \* the keys inserted and looked up, a finite set of ints
  RecordID,     \* the record ids inserted
  UNIQUE_KEYS,  \* whether callers insert a key only once
  MAX_INSERTS,  \* bound: the calls of Insert
  MAX_DATA_PAGES,\* bound: the pages that are not the tree's
  POOL_SIZE,    \* the number of frames of the pool
  MAX_PAGES,    \* bound on the page ids
  NoReply

ASSUME TreeAssumption ==
  /\ Key \subseteq Int /\ IsFiniteSet(Key)
  /\ UNIQUE_KEYS \in BOOLEAN
  /\ {MAX_INSERTS, MAX_DATA_PAGES, POOL_SIZE, MAX_PAGES} \subseteq Nat

VARIABLES
  root_page_id,
  contents,     \* the nodes, the contents of PageStore
  num_pages,    \* of PageStore
  pins,         \* of PageStore, by the tree and by its callers
  held,         \* the data pages callers hold a pin on
  touched,      \* the pages changed since last unpinned as dirty
  stack,        \* what is left to do of the call in progress
  crashed,
  reply,        \* what the last call returned
  inserts       \* the number of calls of Insert

pool == <<contents, num_pages, pins, touched>>
vars == <<root_page_id, contents, num_pages, pins, held, touched, stack,
          crashed, reply, inserts>>

(* Only the pin operations of PageStore are used, which know nothing of    *)
(* what a page contains or what a call returns.                            *)
Pool == INSTANCE PageStore WITH
          MAX_PINS <- MAX_PAGES, Data <- {}, Zero <- BlankPage,
          Null <- NoReply, returned <- NoReply

PageId == Pool!PageId

Idle == stack = <<>> /\ ~crashed

-----------------------------------------------------------------------------
(* Statements.                                                             *)

Descend(page, key, op, value) ==
  [do |-> "Descend", page |-> page, key |-> key, op |-> op, value |-> value]

StartNewTree(key, value) ==
  [do |-> "StartNewTree", key |-> key, value |-> value]

SplitLeaf(leaf, key, value) ==
  [do |-> "SplitLeaf", page |-> leaf, key |-> key, value |-> value]

InsertIntoParent(old, key, new) ==
  [do |-> "InsertIntoParent", page |-> old, key |-> key, new |-> new]

SplitInternal(parent, key, new) ==
  [do |-> "SplitInternal", page |-> parent, key |-> key, new |-> new]

AdoptChildren_Stuck(parent, i) ==   \* faulty variant
  [do |-> "AdoptChildren", page |-> parent, i |-> 1]

AdoptChildren(parent, i) ==
  [do |-> "AdoptChildren", page |-> parent, i |-> i]

UnpinPage(page, is_dirty) ==
  [do |-> "UnpinPage", page |-> page, is_dirty |-> is_dirty]

Return(answer) == [do |-> "Return", answer |-> answer]

Found(e)            == [op |-> "GetValue", entry |-> e, ok |-> TRUE]
Missing(key)        == [op |-> "GetValue", key |-> key, ok |-> FALSE]
Inserted(key, value, ok) ==
  [op |-> "Insert", entry |-> Entry(key, value), ok |-> ok]

Answer ==
  {Found(Entry(k, v)) : k \in Key, v \in RecordID}
  \cup {Inserted(k, v, ok) : k \in Key, v \in RecordID, ok \in BOOLEAN}
  \cup {Missing(k) : k \in Key}

Executing(do) == stack # <<>> /\ ~crashed /\ Head(stack).do = do

Then(statements) == stack' = statements \o Tail(stack)

-----------------------------------------------------------------------------
(* Calls on the pool, each with what the tree then does to its nodes.      *)

Assign(nodes) ==
  /\ contents' = nodes
  /\ touched' = touched \cup {p \in PageId : nodes[p] # contents[p]}

FetchPage(p, nodes) ==
  /\ Pool!CanPin(p)
  /\ pins' = Pool!PlusPin(p)
  /\ Assign(nodes)
  /\ UNCHANGED <<num_pages, crashed>>

(* nodes is what the nodes become once page num_pages is theirs.           *)
NewPage(nodes) ==
  /\ Pool!HasRoom
  /\ num_pages \in PageId
  /\ pins' = Pool!PlusPin(num_pages)
  /\ num_pages' = num_pages + 1
  /\ Assign(nodes)
  /\ UNCHANGED crashed

Crash ==
  /\ crashed' = TRUE
  /\ UNCHANGED <<pool, root_page_id, stack>>

-----------------------------------------------------------------------------
Init ==
  /\ root_page_id = NoPage
  /\ num_pages = 0
  /\ contents = [p \in PageId |-> BlankPage]
  /\ pins = [p \in PageId |-> 0]
  /\ held = {}
  /\ touched = {}
  /\ stack = <<>>
  /\ crashed = FALSE
  /\ reply = NoReply
  /\ inserts = 0

Entries ==
  UNION { {contents[p].array[i] : i \in DOMAIN contents[p].array} :
            p \in {q \in PageId : contents[q].type = "leaf"} }

IsStored(key) == \E e \in Entries : e.key = key

(* The public operations, as the statement a call starts with, and as the  *)
(* call of a client of the tree alone.                                     *)

CallInsert(key, value) ==
  IF root_page_id = NoPage
  THEN StartNewTree(key, value)
  ELSE Descend(root_page_id, key, "Insert", value)

CallGetValue(key) ==
  IF root_page_id = NoPage
  THEN Return(Missing(key))
  ELSE Descend(root_page_id, key, "GetValue", NoReply)

Insert(key, value) ==
  /\ Idle
  /\ inserts < MAX_INSERTS
  /\ UNIQUE_KEYS => ~IsStored(key)
  /\ inserts' = inserts + 1
  /\ reply' = NoReply
  /\ stack' = <<CallInsert(key, value)>>
  /\ UNCHANGED <<pool, root_page_id, held, crashed>>

GetValue(key) ==
  /\ Idle
  /\ reply' = NoReply
  /\ stack' = <<CallGetValue(key)>>
  /\ UNCHANGED <<pool, root_page_id, held, crashed, inserts>>

-----------------------------------------------------------------------------
(* A failed NewPage only returns, and Insert then returns true.            *)
DoStartNewTree ==
  LET s == Head(stack) IN
  /\ Executing("StartNewTree")
  /\ \/ /\ NewPage([contents EXCEPT ![num_pages] =
                      LeafInsert(Leaf(NoPage, NoPage, <<>>), s.key, s.value)])
        /\ root_page_id' = num_pages
        /\ Then(<<UnpinPage(num_pages, TRUE), Return(Inserted(s.key, s.value, TRUE))>>)
     \/ /\ ~Pool!HasRoom
        /\ Then(<<Return(Inserted(s.key, s.value, TRUE))>>)
        /\ UNCHANGED <<pool, root_page_id, crashed>>

(* FindLeafPage, one fetch at a time.                                      *)
PassInternal ==
  LET s    == Head(stack)
      node == contents[s.page]
  IN
  /\ Executing("Descend")
  /\ IsInternal(node)
  /\ FetchPage(s.page, contents)
  /\ Then(<<UnpinPage(s.page, FALSE),
            Descend(ChildFor(node, s.key), s.key, s.op, s.value)>>)
  /\ UNCHANGED root_page_id

FetchFails ==
  /\ Executing("Descend")
  /\ ~Pool!CanPin(Head(stack).page)
  /\ Crash

(* What GetValue and Insert do with the leaf FindLeafPage returns; GetValue *)
(* hands out the value alone: the caller takes it for that of its own key. *)
LookUpInLeaf ==
  LET s    == Head(stack)
      leaf == contents[s.page]
      hit  == LeafLookup(leaf, s.key)
  IN
  /\ Executing("Descend")
  /\ s.op = "GetValue"
  /\ ~IsInternal(leaf)
  /\ FetchPage(s.page, contents)
  /\ Then(<<UnpinPage(s.page, FALSE),
            Return(IF hit = 0 THEN Missing(s.key)
                   ELSE Found(Entry(s.key, leaf.array[hit].value)))>>)
  /\ UNCHANGED root_page_id

InsertIntoLeaf ==
  LET s    == Head(stack)
      leaf == contents[s.page]
  IN
  /\ Executing("Descend")
  /\ s.op = "Insert"
  /\ ~IsInternal(leaf)
  /\ IF LeafHasRoom(leaf)
     THEN /\ FetchPage(s.page, [contents EXCEPT ![s.page] =
                                  LeafInsert(leaf, s.key, s.value)])
          /\ Then(<<UnpinPage(s.page, TRUE), Return(Inserted(s.key, s.value, TRUE))>>)
     ELSE /\ FetchPage(s.page, contents)
          /\ Then(<<SplitLeaf(s.page, s.key, s.value)>>)
  /\ UNCHANGED root_page_id

(* The two nodes of a split go on to InsertIntoParent and are unpinned     *)
(* when that is done.                                                      *)
PassUp_NewKeptPinned(old, key, new) ==   \* faulty variant
  <<InsertIntoParent(old, key, new), UnpinPage(old, TRUE)>>

PassUp_OldClean(old, key, new) ==        \* faulty variant
  <<InsertIntoParent(old, key, new), UnpinPage(old, FALSE), UnpinPage(new, TRUE)>>

PassUp_UnpinFirst(old, key, new) ==      \* faulty variant
  <<UnpinPage(old, TRUE), UnpinPage(new, TRUE), InsertIntoParent(old, key, new)>>

PassUp(old, key, new) ==
  <<InsertIntoParent(old, key, new), UnpinPage(old, TRUE), UnpinPage(new, TRUE)>>

(* The answer when there is no page for the new leaf.                      *)
Refused_AsInserted(key, value) == Inserted(key, value, TRUE)   \* faulty variant

Refused(key, value) == Inserted(key, value, FALSE)

(* The second half of Insert.  When there is no page for the new leaf it   *)
(* returns without unpinning the leaf.                                     *)
DoSplitLeaf ==
  LET s      == Head(stack)
      leaf   == contents[s.page]
      new    == num_pages
      right  == Leaf(leaf.parent, leaf.next, Moved(leaf.array, LEAF_MAX))
      left   == Leaf(leaf.parent, new, Kept(leaf.array, LEAF_MAX))
      middle == MiddleKey(right)
  IN
  /\ Executing("SplitLeaf")
  /\ \/ /\ NewPage([contents EXCEPT
                      ![s.page] = IF s.key < middle
                                  THEN LeafInsert(left, s.key, s.value) ELSE left,
                      ![new]    = IF s.key < middle
                                  THEN right ELSE LeafInsert(right, s.key, s.value)])
        /\ Then(PassUp(s.page, middle, new) \o <<Return(Inserted(s.key, s.value, TRUE))>>)
     \/ /\ ~Pool!HasRoom
        /\ Then(<<Return(Refused(s.key, s.value))>>)
        /\ UNCHANGED <<pool, crashed>>
  /\ UNCHANGED root_page_id

-----------------------------------------------------------------------------
(* InsertIntoParent.                                                       *)

(* Scenario A: old_node was the root.                                      *)
GrowRoot ==
  LET s == Head(stack) IN
  /\ Executing("InsertIntoParent")
  /\ s.page = root_page_id
  /\ \/ /\ NewPage([contents EXCEPT
                      ![num_pages]     = Internal(NoPage, <<Entry(0, s.page), Entry(s.key, s.new)>>),
                      ![s.page].parent = num_pages,
                      ![s.new].parent  = num_pages])
        /\ root_page_id' = num_pages
        /\ Then(<<UnpinPage(num_pages, TRUE)>>)
     \/ ~Pool!HasRoom /\ Crash

(* Scenario B: the parent has room, or is split in turn.                   *)
InsertIntoOldParent ==
  LET s      == Head(stack)
      parent == contents[s.page].parent
      node   == contents[parent]
  IN
  /\ Executing("InsertIntoParent")
  /\ s.page # root_page_id
  /\ \/ /\ InternalHasRoom(node)
        /\ FetchPage(parent,
             [contents EXCEPT ![parent] = InternalInsert(node, s.key, s.new)])
        /\ Then(<<UnpinPage(parent, TRUE)>>)
        /\ UNCHANGED root_page_id
     \/ /\ ~InternalHasRoom(node)
        /\ FetchPage(parent, contents)
        /\ Then(<<SplitInternal(parent, s.key, s.new)>>)
        /\ UNCHANGED root_page_id
     \/ /\ ~Pool!CanPin(parent)
        /\ Crash

(* Scenario B-2.  The children moved to the new node are told of it one by *)
(* one, and the middle key goes up.                                        *)
DoSplitInternal ==
  LET s      == Head(stack)
      node   == contents[s.page]
      new    == num_pages
      left   == Internal(node.parent, Kept(node.array, INTERNAL_MAX))
      right  == Internal(node.parent, Moved(node.array, INTERNAL_MAX))
      middle == MiddleKey(right)
  IN
  /\ Executing("SplitInternal")
  /\ \/ /\ NewPage([contents EXCEPT
                      ![s.page] = IF middle <= s.key
                                  THEN left ELSE InternalInsert(left, s.key, s.new),
                      ![new]    = IF middle <= s.key
                                  THEN InternalInsert(right, s.key, s.new) ELSE right])
        /\ Then(<<AdoptChildren(new, 1)>> \o PassUp(s.page, middle, new))
        /\ UNCHANGED root_page_id
     \/ ~Pool!HasRoom /\ Crash

DoAdoptChildren ==
  LET s     == Head(stack)
      array == contents[s.page].array
      child == array[s.i].value
  IN
  /\ Executing("AdoptChildren")
  /\ \/ /\ FetchPage(child, [contents EXCEPT ![child].parent = s.page])
        /\ Then(<<UnpinPage(child, TRUE)>> \o
                IF s.i < Len(array) THEN <<AdoptChildren(s.page, s.i + 1)>> ELSE <<>>)
        /\ UNCHANGED root_page_id
     \/ /\ ~Pool!CanPin(child)
        /\ Crash

-----------------------------------------------------------------------------
DoUnpinPage ==
  LET s == Head(stack) IN
  /\ Executing("UnpinPage")
  /\ pins[s.page] > 0
  /\ pins' = Pool!MinusPin(s.page)
  /\ touched' = IF s.is_dirty THEN touched \ {s.page} ELSE touched
  /\ Then(<<>>)
  /\ UNCHANGED <<contents, num_pages, root_page_id, crashed>>

DoReturn ==
  /\ Executing("Return")
  /\ reply' = Head(stack).answer
  /\ Then(<<>>)
  /\ UNCHANGED <<pool, root_page_id, held, crashed, inserts>>

Step ==
  \/ /\ \/ DoStartNewTree \/ PassInternal \/ FetchFails \/ LookUpInLeaf
        \/ InsertIntoLeaf \/ DoSplitLeaf \/ GrowRoot \/ InsertIntoOldParent
        \/ DoSplitInternal \/ DoAdoptChildren \/ DoUnpinPage
     /\ UNCHANGED <<held, reply, inserts>>
  \/ DoReturn

(* Other callers of the pool, between two calls of the tree.               *)
DataPages == {p \in 0 .. num_pages - 1 : contents[p] = BlankPage}

HoldDataPage ==
  /\ Idle
  /\ \/ /\ Cardinality(DataPages) < MAX_DATA_PAGES
        /\ NewPage(contents)
        /\ held' = held \cup {num_pages}
     \/ \E p \in DataPages \ held :
          /\ FetchPage(p, contents)
          /\ held' = held \cup {p}
  /\ UNCHANGED <<root_page_id, stack, reply, inserts>>

ReleaseDataPage ==
  /\ Idle
  /\ \E p \in held :
       /\ pins' = Pool!MinusPin(p)
       /\ held' = held \ {p}
  /\ UNCHANGED <<root_page_id, contents, num_pages, touched, stack, crashed, reply, inserts>>

Next ==
  \/ Step
  \/ \E key \in Key : GetValue(key) \/ \E value \in RecordID : Insert(key, value)
  \/ HoldDataPage
  \/ ReleaseDataPage

(* A call in progress goes on: there is nothing to wait for.               *)
Spec == Init /\ [][Next]_vars /\ WF_vars(Step)
-----------------------------------------------------------------------------
(* Properties.                                                             *)

Statement ==
  [do : {"Descend"}, page : PageId, key : Key, op : {"Insert", "GetValue"},
   value : RecordID \cup {NoReply}]
  \cup [do : {"StartNewTree"}, key : Key, value : RecordID]
  \cup [do : {"SplitLeaf"}, page : PageId, key : Key, value : RecordID]
  \cup [do : {"InsertIntoParent", "SplitInternal"}, page : PageId, key : Key, new : PageId]
  \cup [do : {"AdoptChildren"}, page : PageId, i : 1 .. INTERNAL_MAX]
  \cup [do : {"UnpinPage"}, page : PageId, is_dirty : BOOLEAN]
  \cup [do : {"Return"}, answer : Answer]

(* Every variable has its type, and no node outgrows its page.             *)
TypeOK ==
  /\ root_page_id \in PageId \cup {NoPage}
  /\ \A p \in PageId :
       LET node == contents[p] IN
       \/ node = BlankPage
       \/ /\ node.type = "leaf"
          /\ {node.parent, node.next} \subseteq PageId \cup {NoPage}
          /\ node.array \in Seq([key : Key, value : RecordID])
          /\ Len(node.array) <= LEAF_MAX
       \/ /\ node.type = "internal"
          /\ node.parent \in PageId \cup {NoPage}
          /\ node.array \in Seq([key : Key \cup {0}, value : PageId])
          /\ Len(node.array) <= INTERNAL_MAX
  /\ num_pages \in 0 .. MAX_PAGES
  /\ pins \in [PageId -> Nat]
  /\ held \subseteq PageId /\ touched \subseteq PageId
  /\ stack \in Seq(Statement)
  /\ crashed \in BOOLEAN
  /\ reply \in Answer \cup {NoReply}
  /\ inserts \in 0 .. MAX_INSERTS

(* The nodes at distance n from the root, and all of them.                 *)
Children(p) == {contents[p].array[i].value : i \in DOMAIN contents[p].array}

Level[n \in Nat] ==
  IF n = 0 THEN {root_page_id}
  ELSE UNION {Children(p) : p \in {q \in Level[n - 1] : IsInternal(contents[q])}}

LeadsTo(q, i, p) ==
  /\ IsInternal(contents[q])
  /\ i \in DOMAIN contents[q].array
  /\ contents[q].array[i].value = p

HasTree == root_page_id # NoPage

TreeNodes == UNION {Level[n] : n \in 0 .. MAX_PAGES - 1}

Height == Cardinality({n \in 0 .. MAX_PAGES - 1 : Level[n] # {}})

(* Between calls the pages of the index form a tree: every node but the    *)
(* root is the child of exactly one entry, of the node its parent pointer  *)
(* names, and all leaves are at the same depth.  InsertIntoParent follows  *)
(* the parent pointers back up, which are set when a node is split off, at *)
(* a new root, and when its parent is split by calls that may be levels    *)
(* above.                                                                  *)
IsBalancedTree ==
  Idle /\ HasTree =>
    /\ contents[root_page_id].parent = NoPage
    /\ \A p \in TreeNodes \ {root_page_id} :
         {e \in TreeNodes \X (1 .. INTERNAL_MAX) : LeadsTo(e[1], e[2], p)} \in
         {{<<contents[p].parent, i>>} : i \in 1 .. INTERNAL_MAX}
    /\ \A n \in 0 .. MAX_PAGES - 1 : \A p, q \in Level[n] :
         contents[p].type = contents[q].type

(* FindLeafPage: the page reached after n nodes.                           *)
FindLeafPage(key) ==
  LET Reached[n \in Nat] ==
        IF n = 0 THEN root_page_id
        ELSE LET p == Reached[n - 1] IN
             IF IsInternal(contents[p]) THEN ChildFor(contents[p], key) ELSE p
  IN Reached[MAX_PAGES - 1]

(* "Traverses the tree to find the correct leaf node for a given key"      *)
(* (b_plus_tree.h:15): between calls, every key that an insert put into a  *)
(* leaf is found in the leaf the search for it arrives at.                 *)
EveryKeyIsFound ==
  Idle /\ HasTree =>
    \A e \in Entries :
      LET leaf == contents[FindLeafPage(e.key)] IN
      LET hit == LeafLookup(leaf, e.key) IN hit # 0 /\ leaf.array[hit].key = e.key

(* "Leaf nodes act as a Linked List for fast range queries"                *)
(* (b_plus_leaf_page.h:10): between calls, next_page_id_ leads from the    *)
(* leftmost leaf through all of them and ends, in the order of the keys.   *)
LeafAt(n) ==
  LET At[i \in Nat] ==
        IF i = 0 THEN FindLeafPage(Min(Key) - 1)
        ELSE IF At[i - 1] = NoPage THEN NoPage ELSE contents[At[i - 1]].next
  IN At[n]

LeafChainIsSorted ==
  Idle /\ HasTree =>
    LET leaves == {p \in TreeNodes : contents[p].type = "leaf"}
        size   == Cardinality(leaves)
        chain  == [n \in 1 .. size |-> LeafAt(n - 1)]
        KeyOf(n, i) == contents[chain[n]].array[i].key
    IN /\ Range(chain) = leaves
       /\ LeafAt(size) = NoPage
       /\ \A m, n \in 1 .. size :
            \A i \in DOMAIN contents[chain[m]].array, j \in DOMAIN contents[chain[n]].array :
              m < n \/ (m = n /\ i < j) => KeyOf(m, i) < KeyOf(n, j)

(* What inserts leave of the tree when the pool gives them no page, or     *)
(* refuses one in the middle of a split: all of the above.                 *)
TreeIsIntact == EveryKeyIsFound /\ IsBalancedTree /\ LeafChainIsSorted

(* Between calls the tree holds no pin, on any path through it: a pin kept *)
(* is a frame lost to the pool for good.                                   *)
PinsAreReturned ==
  Idle => \A p \in PageId : pins[p] = IF p \in held THEN 1 ELSE 0

(* A call never has more than two pages of each level and one page more    *)
(* pinned, so a pool with that many frames left is never exhausted by a    *)
(* single call, and no null Page* is dereferenced.                         *)
PinnedByTree == {p \in PageId : pins[p] > 0} \ held

PinnedPagesAreBounded ==
  /\ HasTree => Cardinality(PinnedByTree) <= 2 * Height + 1
  /\ ~crashed

(* A node is changed only while its page is pinned: the pointers the tree  *)
(* keeps across calls, up the whole recursion, are into frames that can    *)
(* not be reused meanwhile.                                                *)
OnlyPinnedPagesChange ==
  [][\A p \in PageId : contents'[p] # contents[p] => pins[p] > 0 \/ pins'[p] > 0]_vars

(* The last pin on a changed page is returned with is_dirty = true, which  *)
(* the pool needs for the change to survive eviction.                      *)
ChangesAreDeclaredDirty == \A p \in PageId : pins[p] = 0 => p \notin touched

(* The tree implements Dictionary: its entries are those in the leaves, in *)
(* the middle of a split too.                                              *)
Index == INSTANCE Dictionary WITH entries <- Entries

ImplementsDictionary == Index!Spec

(* When the pool runs out of frames, an insert still reports what it did,  *)
(* with one exception: into an empty tree it returns true for a row it     *)
(* dropped.                                                                *)
OnlyAnEmptyTreeLosesInserts ==
  [][DoReturn /\ reply'.op = "Insert" /\ HasTree =>
       (reply'.ok <=> reply'.entry \in Entries)]_vars

(* Every call returns: neither a search nor the recursion up the parent    *)
(* pointers goes round in circles.                                         *)
EveryCallReturns == (stack # <<>>) ~> (stack = <<>>)
=============================================================================
