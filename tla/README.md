# IrisDB in TLA+

A TLA+ model of the IrisDB storage engine: the buffer pool with its LRU replacer
over the database file, the B+ tree index, the slotted pages, the command loop
that puts them together, the heap table and the tuples. The components come with
the abstract specifications they implement, the TLC runs that check them on
small instances, and TLAPS proofs about the replacer, the buffer pool, the B+
tree, the slotted page, the heap table, the command loop, and the bytes and the
ownership of tuples for every size.

## 1. Inventory

The engine is one process with one thread (`README.md` of the repository lists
concurrency control and recovery as planned). What is hard in it is therefore
not parallelism but *shared, partly redundant state*: five structures that have
to agree about a frame, raw pointers into frames that other calls may reuse,
page ids that outlive processes, and a recursion that runs on pages it must
keep pinned.

| Component | Source | State | Operations | Module | Status |
|---|---|---|---|---|---|
| Disk manager | `disk_manager.*` | the file, its length, `num_pages`, the stream's failbit | constructor, `ReadPage`, `WritePage`, `AllocatePage` | `DiskManager` | partly |
| LRU replacer | `Buffer/LRUReplacer.*`, `Node.*` | linked list, hash map, `curr_size` | `Victim`, `Pin`, `Unpin`, destructor | `LRUReplacer`, abstract: `LRUQueue` | modelled |
| Buffer pool | `Buffer/BufferPoolManager.*`, `Page.*` | frames, `page_table`, `free_frames` | `FetchPage`, `NewPage`, `UnpinPage`, constructor, destructor | `BufferPool`, abstract: `PageStore` | modelled |
| B+ tree | `indexing/b_plus_tree.*` | `root_page_id_` (memory only), the nodes | `Insert`, `GetValue` | `BPlusTree`, abstract: `Dictionary` | modelled |
| B+ tree pages | `indexing/b_plus_leaf_page.*`, `..internal_page.*`, `..tree_page.*`, `record_id.h` | the bytes of a page | `Init`, `Insert`, `Lookup`, `MoveHalfTo`, `KeyAt` | `BPlusNode` | modelled |
| Slotted page | `Page/slotted_page.*`, `page_header.h`, `Slot.h` | header, slots, tuple bytes | `Init`, `InsertTuple`, `deleteTuple`, `getTuple` | `SlottedPage`, abstract: `RowPage` | modelled |
| Heap table | `Page/table_heap.*` | first and last page id, page links | constructor, `InsertTuple`, `GetTuple` | `HeapTable` | modelled |
| Command loop | `main.cpp` | the current data page, held pinned | INSERT, SELECT, exit | `IrisDB`, abstract: `RowTable` | modelled |
| Data representation | `DataRepresentationLayer/` | values, columns, schemas, tuples | pack and read a row; construct, copy, assign, destroy a tuple | `TupleLayout`, `TupleMemory` | modelled |
| Tuple demo | `scratch/test_tuple.cpp` | - | - | its schema and row: `TupleLayout` | partly |
| Build files | `CMakeLists.txt`, ... | - | - | - | left out: no engine behaviour |

The heap table is not in `CMakeLists.txt` and defines a member of a class that
does not exist (`TableHeap::GetTuple`, `table_heap.cpp:92`), so no program runs
it today.

**Interactions.** The command loop calls the tree and the pool; the tree calls
the pool (`NewPage`, `FetchPage`, `UnpinPage`) and keeps `Page*` pointers across
calls; the pool calls the replacer and the disk manager. All of these are plain
calls. The contract between the pool and its callers is: a page is unpinned
once for every pin, and whoever changes it says so with `is_dirty`. Slotted
pages and tuples are views of bytes: a `SlottedPage` wraps the bytes of a frame,
a `Tuple` owns its bytes or points at a row in a frame.

**What makes each component correct.**

* Disk manager: an id is handed out once; the page count found at start-up is
  right; a read that cannot be served never passes for one that was.
* LRU replacer: list, map and count agree, no pointer outlives its node, the
  victim is the frame unpinned longest ago, nothing is leaked.
* Buffer pool: a frame is free, evictable or pinned and never two of these; the
  page table matches the frames; pin counts match the pins held; eviction loses
  no update; a pinned page stays where it is.
* B+ tree: nodes stay a balanced tree with right parent pointers; every key in a
  leaf is found; the leaf chain is complete and sorted; pins are returned,
  changes are declared, a call needs a bounded number of frames and ends.
* Slotted page: slots and rows never meet, although offsets are 16 bits wide and
  lengths are not checked; a slot id keeps naming its row until it is deleted.
* Heap table: the page list is doubly linked across evictions, a record id names
  its row, pins are returned on every path.
* Command loop: an acknowledged row is the one a SELECT shows; the pinned data
  page is the only pin it keeps; every command ends.
* Tuples: what was packed reads back, within the bytes of the tuple; a block has
  one owner, which frees it once.

`PROJECT.json` lists the hazards behind these, each at its line.

## 2. Modules

```
MCLRUReplacer ----> LRUReplacer --implements--> LRUQueue
MemoryProofs ---------^                           ^ used by
BufferPoolProofs -> BufferPool ---implements--> PageStore
                       | uses                     ^ pin operations used by
                    DiskManager                BPlusTree --implements--> Dictionary
BPlusTreeKeyProofs -> BPlusTreeProofs ---------^   | extends    ^ statements used by
                                               BPlusNode     IrisDB --implements--> RowTable
                                                               v operations used by
SlottedPageProofs -------------------------> SlottedPage --implements--> RowPage
      ^ lemmas used by                                         ^ operations used by
HeapTableProofs ------------------------------------------> HeapTable
MemoryProofs -> TupleMemory
           \--> TupleLayout <- MCTupleLayout
IrisDBProofs -> IrisDB, with the lemmas of BPlusTreeProofs

Pointers: nullptr, for LRUReplacer and TupleMemory
QueueLemmas: sequences, iteration and induction, for the proofs of LRUReplacer,
BufferPool, BPlusTree, HeapTable and TupleLayout
```

**`LRUReplacer`** is the pointer program. `next`, `prev` and `frame_id` are the
fields of the node at each address, `live` is the set of allocated addresses,
`mp` the hash map. `new Node` takes *any* free address, so a pointer left behind
would later point at another frame's node. `LRUQueue` is its promise, a
sequence of distinct frames; its operations are functions of the queue, and the
pool composes those with its own updates. `reply` is what the last call was and
returned, `*fid` included, and alternates its `turn`, so that in the promise no
call can pass for another one or for no step: a `Victim` that took any frame but
the last, or an `Unpin` that dropped one below the capacity, is no step of it.

**`DiskManager`** gives the file operations as functions of one record: the
bytes at each page position, the length of the file, the page count, the
failbit. A write past the end leaves zeroes in the gap; a read past the end
leaves the caller's buffer as it was, which in the pool is the evicted page's
bytes.

**`BufferPool`** has one action for each way through `FetchPage` (hit, eviction,
free frame, none left) and `NewPage`, `UnpinPage`, a caller's `Write` through the
pointer it holds, and `Restart`: the process ends at any moment, in good order or
not, and the next one opens the file. The destructor writes nothing, so both are
the same step. `pins` and `touched` record what callers hold and have changed;
they are not program state and only guard what callers do. A fresh frame's
bytes are arbitrary (`Page()` leaves them uninitialised). **`PageStore`** is the
promise: an array of pages that only grows, with one current content each, of
which at most `POOL_SIZE` are pinned; frames, dirty bits, eviction and the file
do not appear in it.

**`BPlusNode`** translates the operations of the two page classes to functions
of a record. All binary searches are kept as searches. The internal page's
`array_[0]` holds a child whose key is not looked at, as in the code.
`LEAF_MAX`, `INTERNAL_MAX` are the `max_size_` of the code (339 and 509).

**`BPlusTree`** runs the tree one buffer pool call at a time. `stack` holds the
statements left to do: a statement that calls a function of the source is
replaced by what that function does, so `InsertIntoParent`'s recursion up the
tree and the unpins that wait for it are explicit. Where the code dereferences
the result of `FetchPage` or `NewPage` without a test, an exhausted pool sets
`crashed`. Between the tree's calls `HoldDataPage` and `ReleaseDataPage` are the
other users of the pool. **`Dictionary`** is the promise: a growing set of
entries, and answers that match it at the moment they are given. A look-up
answers with the key it was asked for and the value it found, as `GetValue` hands
out the value alone.

**`SlottedPage`** is one page: the header fields, the slots and the bytes, with
every value assigned to a `uint16_t` reduced modulo `W16`. A byte is `Zero`,
`Used` (of a slot) or the k-th byte of a row, so that two rows that met would
show. The page starts formatted or, as the heap's first page does, zeroed.
`RowPage` is the promise: a sequence of rows with deletion marks, and free space
that shrinks by a row and its slot. `reply` shows the call, the row and length or
the slot id it was given, and the answer, so a call answers for its own slot and
refuses exactly the rows that do not fit. The one thing the promise keeps of the
implementation is that a length counts modulo 2^16.

**`IrisDB`** is the command loop. It has `BPlusTree`'s statements on its stack
between its own: `Tree!Step` executes those, and the loop's statements are
`OpenPage` (lines 45-49 and 57-61 of `main.cpp`), `StoreRow`, `StoreInNewPage`,
`IndexRow`, `Acknowledge` and `ShowRow`. Data pages and nodes share one pool. A
restart comes at any moment, in the middle of a command too, and takes with it
the root's page id, so the next process starts with an empty table over page ids
that go on from whatever reached the file. **`RowTable`** is the promise, with
its two reservations stated: a table does not outlive the process, and of a row
too long for a page only the id is kept.

**`HeapTable`** has explicit frames because a Tuple that `GetTuple` returns points
into one and is not pinned. An operation of the heap is one step, with every
frame the pool could choose; other callers hold and release pages in between, so
that fetches and new pages fail at every point. `saved` is what is left of a page
when its frame is reused, so a link written and unpinned as clean is lost.

**`TupleLayout`** packs a row column by column, as the constructor of `Tuple`
does, with its three exceptions, and reads columns back; `Offset` is the running
sum of `Schema`'s constructor. Schemas and rows are chosen in the initial state. **`TupleMemory`** is
the other half of the class: `data_` and `allocated_` of every live Tuple, the
heap, and buffers that are nobody's, such as frames. `new char[]` may return any
free address. `meant` records the bytes each Tuple was given; it is not program
state.

Definitions marked "faulty variant" are not used by any specification. Each is
what a plausible bug would make of the definition after it, and stands there so
that a run with the variant in its place can show that a property notices.

## 3. Runs

| Run | Instance | Checks | Result |
|---|---|---|---|
| `replacer` | 4 frames, capacity 3, 3 addresses, symmetric in the addresses | types, `NoDanglingPointer`, `MapListAndCountAgree`, `DestructorFreesEverything`, refinement of `LRUQueue` | holds; 48,286 states |
| `pool` | 2 frames, 3 pages, 2 contents, 2 pins a page | types, `EveryFrameIsAccountedFor`, `PageTableIsExact`, `PinCountsMatchHolders`, `NoUpdateIsLost`, `NextIdIsFresh`, `PinnedPagesStayPut`, refinement of `PageStore` | holds; 63,630 states |
| `pool_shutdown` | the same | `ShutdownSavesDirtyPages` | **violated** |
| `tree_deep` | both page kinds of size 2, 6 keys, 11 frames | `PinsAreReturned`, `PinnedPagesAreBounded`, `IsBalancedTree`, `OnlyPinnedPagesChange`, `EveryCallReturns` | holds; 18,945 states |
| `tree_wide` | internal pages of size 3, 5 keys, 2 record ids, 7 frames | types, `EveryKeyIsFound`, `LeafChainIsSorted`, `ChangesAreDeclaredDirty`, refinement of `Dictionary` | holds; 50,811 states |
| `tree_full_pool` | 5 frames, 4 keys, up to 5 data pages held by others | `TreeIsIntact`, `OnlyAnEmptyTreeLosesInserts` | holds; 975,662 states |
| `tree_duplicates` | 2 keys, 4 inserts, repeats allowed | `EveryKeyIsFound` | **violated** |
| `slotted_page` | page of 13 bytes, header 3, slots of 2, 16-bit fields of 5 bits, row lengths 0 to more than a page and two that wrap | types, `LayoutIsSound`, refinement of `RowPage` | holds; 56,170 states |
| `commands` | 3 ids, rows of 2, 6 and 7 in pages for 6, nodes of 2 and 3, 6 frames, 3 inserts, 1 restart | `PinsAndDirtyBitsAreRight`, refinement of `RowTable`, `EveryCommandEnds` | holds; 68,968 states |
| `heap` | 2 frames, 4 pages, 3 rows of 2, 6 and 7 in pages for 6 | `PagesFormADoublyLinkedList`, `PinsAreReturned`, `RidsNameTheirRows`, `TupleIsItsRowWhileCached` | holds; 38,517 states |
| `tuple_memory` | 3 Tuples, 4 addresses, 1 buffer, 2 contents, 1 exception | `OwnedBytesAreKept`, `OnlyThrowsLeak` | holds; 174,864 states |
| `tuple_layout` | all schemas of up to 3 columns over 8 column kinds, all rows over 7 values, the demo's row | `PackedColumnsReadBack`, `StaysInside`, `EndsPackedIffItFits` | holds; 753,709 states |

**The bounds.**

* Replacer: one frame more than the capacity, so the call that is silently
  dropped happens; every list of up to three nodes over three addresses, as many
  as a full list has, so that every address is used again and a new node may get
  the one just freed.
* Pool: three pages for two frames force eviction with every combination of
  clean, dirty and pinned; two pins a page tell a count from a flag; two contents
  tell a page from its stale copy; restarts come at every point.
  `MAX_PAGES` stands for the page ids whose byte offset fits an `int`.
  The invariants of this run are also proved for every size (section 5).
* Deep tree: with pages of two entries six distinct keys, in every order, reach
  height five, and splits that propagate through all of it. `POOL_SIZE` is 11 =
  2*5 + 1, the bound `PinnedPagesAreBounded` states at that height; a bound one
  lower is violated, so the bound is exact.
* Wide tree: internal pages of three entries split unevenly and have a middle;
  five keys in every order reach height three. 7 = 2*3 + 1 frames.
* Full pool: others may hold any number of the five frames, so the pool runs out
  in every statement that asks for a frame; with all of them free an internal
  node is split and the root grows above it. Deadlock is not checked there, since a crashed process and a
  pool all of whose frames leaked really stop.
* In the replacer's run deadlock is not checked because the destructor ends it.
* Slotted page: the lengths 0, 1, 3, 8 and 9 for 10 bytes and slots of 2 include
  a row that fills the page and one a byte too long, and leave gaps of every
  size, of less than a slot too; 32 and 35 arrive as 0 and 3, as a length of
  65,536 and more would;
  deletions and look-ups come for every slot and for ids that are none, -1
  included. The 5-bit fields leave room for every offset, as 16 bits do.
* Commands: a page holds two short rows or one of full length, so rows change the
  page at the first, second and third insert; the third key splits a leaf, and
  a tree of height two needs 2*2 + 1 of the 6 frames and the data page one. A row
  of length 7 fits in no page. Ids are distinct within a session (`UNIQUE_KEYS`),
  for the reason `tree_duplicates` shows. With these frames no command crashes
  (`EveryCommandEnds`) unless a pin is leaked; what happens to the tree when the
  pool does run out is what `tree_full_pool` is for. A restart leaves blank pages:
  nothing reads the old ones.
* Heap: with two frames the last page and a new one fill the pool, and one page
  held by another caller makes an insert fail after its fetch.
* Tuple memory: a copy of a copy, a wrap of a block whose owner is assigned to or
  destroyed, and an address used again all need at most three Tuples; four
  addresses leave one free after three owners and before the exception's.
* Tuple layout: lengths 2, 4 and 5 are below, at and above an INTEGER's four
  bytes and cut, match or exceed the strings; deadlock is not checked because a
  constructor returns.

**Fairness.** Three specifications have a liveness property and assume fairness.
`BPlusTree` and `IrisDB` assume `WF_vars(Step)`: a call or command that was begun
is executed by the only thread there is and waits for nothing. `TupleLayout`
assumes `WF_packVars(PackNext)`: its only steps are those of one constructor. No fairness
is assumed of callers: a call or command need never be given.

**What the two violations show.**

* `pool_shutdown`: `BufferPoolManager.cpp:153` marks a new page dirty "so it
  eventually gets saved to the .db file". Only eviction writes dirty pages; the
  destructor (lines 12-14) deletes the disk manager and writes nothing. NewPage,
  UnpinPage(dirty), exit: the page is not in the file.
* `tree_duplicates`: `BPlusTreeInternalPage::Insert` puts a separator *before* an
  equal one (lower bound) although its child lies to the right. When a key is
  inserted more often than a leaf holds, two equal separators get their children
  in swapped order, and a larger key in the right-hand leaf is no longer found.
  The other tree runs have distinct keys (`UNIQUE_KEYS`) for that reason.

## 4. Refinements

* `LRUReplacer!Spec => LRUQueue!Spec`: the queue is the frame ids on the list,
  from the head; calls and what they return are the same.
* `BufferPool!Spec => PageStore!Spec`: a page's content is its frame's if it is
  resident and the file's otherwise.
* `BPlusTree!Spec => Dictionary!Spec`: the entries are those in the leaves, in
  the middle of a split too.
* `SlottedPage!Spec => RowPage!Spec`: the rows are what the slots point at, a
  deleted one keeping its mark, and the free space is the gap between slots and
  rows; calls and answers are the same.
* `IrisDB!Spec => RowTable!Spec`: the table is what the index leads to, through
  the record id to the bytes of the page, read as a C string.

`BPlusTree` is specified over `PageStore`'s pin operations rather than over the
whole pool: that is what the second refinement allows, and it lets the tree's
instances be large enough for five levels. `IrisDB` and `HeapTable` rely on the
same for their pools.

## 5. Proofs

Everything below holds for every value of the constants the module's `ASSUME`
admits. Nothing else is assumed, except where a premise is named.

| Module | Theorems about `Spec` | Assumptions |
|---|---|---|
| `MemoryProofs`, of `LRUReplacer` | `TypeOK`, `NoDanglingPointer`, `MapListAndCountAgree`, `DestructorFreesEverything`, `ImplementsQueue` | `ReplacerAssumption` |
| `BufferPoolProofs` | `TypeOK`, `EveryFrameIsAccountedFor`, `PageTableIsExact`, `PinCountsMatchHolders`, `NoUpdateIsLost`, `NextIdIsFresh`, `PinnedPagesStayPut`, `ImplementsPageStore` | `PoolAssumption` |
| `BPlusTreeProofs` | `TypeOK`, `ChangesAreDeclaredDirty`, `OnlyPinnedPagesChange`; `PinsAreReturned` as long as splits of leaves find a page | `TreeAssumption`, `NodeAssumption` |
| `BPlusTreeKeyProofs` | when callers insert a key once: `EveryKeyIsFound`, `IsBalancedTree`, `LeafChainIsSorted`, `TreeIsIntact`, `OnlyAnEmptyTreeLosesInserts`; `ImplementsDictionary` as long as the first insert finds a page; `PinnedPagesAreBounded` as long as the pool has that many frames | the same |
| `SlottedPageProofs` | `TypeOK`, `LayoutIsSound`, `ImplementsRowPage` | `SlottedPageAssumption` |
| `HeapTableProofs` | `PinsAreReturned`, `PagesFormADoublyLinkedList`; `RidsNameTheirRows` and `TupleIsItsRowWhileCached` for lengths below `W16` | `HeapTableAssumption` |
| `MemoryProofs`, of `TupleLayout` | `PackedColumnsReadBack`, `StaysInside` | `TupleLayoutAssumption` |
| `MemoryProofs`, of `TupleMemory` | `OwnedBytesAreKept`, `OnlyThrowsLeak`, one owner for each block | `TupleMemoryAssumption` |
| `IrisDBProofs` | `PinsAndDirtyBitsAreRight` as long as splits of leaves find a page | `IrisDBAssumption` |

**The replacer.** `NoDanglingPointer` is far from inductive: two rings of nodes
have no dangling pointer either. The invariant (`ListInv`) says that there *is* a
sequence from `head` to `tail` that `next` and `prev` link, that holds every
allocated node once, and that holds the node of every key of the map. `Victim`
drops its last element, `Pin` one in the middle, `Unpin` puts one in front; each
step names the new sequence and the lemmas of `QueueLemmas` say what is in it.
The refinement of `LRUQueue` reads the frame ids off that sequence: the node
before `tail` is its last one, so the frame returned is the last of the queue, and
a call that returns early (`EarlyReturn`) leaves the queue and still answers.

**The buffer pool.** None of the six invariants is inductive alone. Not even the
types are: `WritePage` bumps the page count when it is given an id past it, so
the count stays in its type only because no frame caches such an id
(`NextIdIsFresh`). An update survives eviction because a victim is unpinned
(`EveryFrameIsAccountedFor`), has therefore no holder (`PinCountsMatchHolders`),
is therefore not being changed (`IdleIsClean`), and is therefore equal to its
copy in the file or dirty. `IInv` is the six with `IdleIsClean`: a page without
holders has no undeclared change, a frame never used has no pins, and the stream
is good. The argument has three layers.

1. `QueueLemmas`: a sequence without duplicates over a finite set that misses an
   element is shorter than the set is large. So the replacer is never full when
   the pool unpins a frame, and its silent refusal never loses one.
2. `Placing`: if a frame that caches nothing or an unpinned page is given to
   page `p`, the queues lose exactly that frame, and the file keeps every page
   and has the frame's old one, `IInv` is preserved. `FreeFrame`, `VictimFrame`,
   `WriteBackProps`, `ReadProps` and `AllocateProps` supply these premises for
   the four ways `FetchPage` and `NewPage` come to a frame.
3. One lemma for each action, one step for each conjunct.

For `ImplementsPageStore` each action is a step of the array of pages or none.
`PlacingKeepsContents` says that giving a frame to another page changes no page's
current content. Two facts `IInv` does not have are needed: the file is zero past
its end (`ZeroPastEnd`), so a new page reads as zero; and a call finds no frame
exactly when `POOL_SIZE` pages are pinned, by counting the pinned pages against
the frames they are in.

**The tree and the pool.** `IInv` has a part for each thing a step relies on.

* `PagesInv`: a page is blank, a leaf or an internal node that is not overfull;
  children are nodes other than the root; pages past `num_pages` are blank.
* `ParentsInv`: the parent pointer of a node other than the root names an
  internal node. The exception is the right half of a split root until
  `InsertIntoParent` has made the new root (`SplitsRoot`): it is what keeps
  `InsertIntoOldParent` from following -1.
* `StackInv`: which statements may be behind which. An `InsertIntoParent` has the
  unpins of its two nodes right behind it and only unpins after those; an
  `AdoptChildren` is followed by the `InsertIntoParent` of its node; a split has
  nothing but unpins behind it. What each expects of its page holds now
  (`IsReady`), and steps before it keep it so.
* `PinsInv`: a page has at least as many pins as statements on the stack that will
  unpin it (`Owes`), and one more if a caller holds it.
* `DirtyInv`: a changed page has an `UnpinPage(page, TRUE)` on the stack.

`ChangesAreDeclaredDirty` and `OnlyPinnedPagesChange` follow from the last two.
That a call returns *every* pin needs equality instead of "at least"
(`PinsAreExact`), which one path breaks: when `NewPage` fails in the second half
of `Insert`, it returns without unpinning the leaf (`b_plus_tree.cpp:191`).
`PinsComeBack` therefore has the premise `[]HasRoomToSplit`: whenever the split
of a leaf begins, the pool has a frame left. It always holds in `tree_deep`; in
`tree_full_pool` it does not. The searches are proved as loops: `LoopExists`
and the lemmas after it say where they end, by induction over the rounds, which
`QueueLemmas` states as a fact about a set of numbers (`NatInd`).

**The tree and its keys.** That a key is found depends on every separator above
it, and in the middle of a split the separators are not all in place yet: the
right node is in the tree, and its parent has no entry for it. `KeyInv`
therefore reads the tree off the pages *and* the stack. It says that there are a
height `lev[p]` and a set `R[p]` of the keys searched for through each page, such
that:

* `RangesInv`: a leaf has height 0 and a child is one lower than its parent. The
  children of a node share its keys out at the separators. Separators are those
  in the node and those on their way to it: `InsertIntoParent` and
  `SplitInternal` on the stack each promise one (`Promised`). Two nodes of one
  height have no key in common, so no node is the child of two.
* `OrderInv`: arrays are sorted and a leaf's keys are in its `R`, which with the
  search along `R` is why a key is found.
* `RootInv`: all keys are searched for from the root, except that a split root
  has given the keys from the middle one on to its new right half; no node is
  higher than the root, and the root's height is less than `num_pages`, so
  `MAX_PAGES - 1` steps of a search always arrive.
* `FamilyInv`: the parent pointer of a node names the node it is a child of,
  except for children that an `AdoptChildren` on the stack has still to tell and
  for the right half of a split root.
* `ChainInv`, `BottomInv`: the keys of a leaf and those of `next` are adjacent
  intervals, the last leaf has the largest keys, and a page that is searched for
  one key below all of `Key` is searched for every such key (the chain starts
  where the search for one of them ends).

The heights and keys are *given*, not computed: each action names the new ones
(`CutAt` for a split, one more level for a new root), and the lemmas on
`ChildrenOf`, `Arrives` and `AdoptStays` say that the parts still hold. One lemma
per action (`...KeepsKeys`) makes `KeysHold`; the properties are read off it
between calls, when nothing is promised. `OnlyAnEmptyTreeLosesInserts` and the
refinement also need that what a call is about to answer stays true until it
does (`CallInv`): a `Return` on the stack with `true` has its entry in a leaf.

The theorems have the premise `UNIQUE_KEYS`: without it `EveryKeyIsFound` is
violated (`tree_duplicates`), and the separators need not even be distinct. The
refinement also has `[]HasRoomToStart`, since an insert into an empty tree returns
true for a row it drops when the pool has no page for the root; every other
failed insert answers false.

`PinnedPagesAreBounded` is proved from the heights. A node keeps its height while
others are split (`LevelsStay`: it is the number of first children down to a
leaf), so an `InsertIntoParent` for a node of height `l` has at most the two nodes
of each level up to `l` and the answer waiting behind it (`Climbs`), and only a
new root raises the bound. Each statement owes at most one pin (`FewOwe`) and
every page the tree has pinned is owed by one (`PinnedAreOwed`, from
`PinsAreExact`), hence `2 * Height + 1`. The premise `[]EnoughFrames` is that
number of frames besides the pages callers hold, which `tree_deep` has exactly:
then no request is refused (`HasRoomAtHead`), no pin is lost and nothing crashes.

**The slotted page.** `LayoutIsSound` says where slots and rows lie, not in which
order, and is not inductive: the invariant adds that each row ends where an
earlier one begins or before (`RowsDescend`), that the end of the slots follows
their number, and that a page nobody formatted has both ends at zero
(`EndsAreSound`). From these no 16-bit sum wraps (`PlacedFields`). The refinement
needs one more conjunct, `GapIsZero`: nobody assigns `is_deleted` when a row is
inserted, so a new row is live only because the gap between slots and rows was
never written. Then `PlacedBytes` says which bytes an insert changes,
`PlacedAppends` and `DeletedMarks` what that means for the list of rows, and
`LiveRows` that a slot id, -1 and the 16-bit conversion included, names the same
row in both. No premise on lengths is needed: both sides reduce them modulo `W16`,
and from there on only the reduced length counts.

**The heap table.** `HeapInv`: what is saved of a page, or would be when its frame
is reused, is the page (`IsSaved`), so a link survives eviction; every page is a
sound slotted page by the lemmas of `SlottedPageProofs`; the pins are those of
the other callers; and `next` and `prev` number the pages from `first` to `last`.
An operation is a chain of calls on the pool, each a lemma (`UnpinDirty` and its
neighbours); the failing paths are cases of their own. `RowInv` adds that each
record id names its row, or no slot if the row fits in no page.

**Rows as bytes.** An offset is the sum of the lengths before it, a recursive
function as in `Schema`; that it exists (`SumsExist`), what it is (`OffsetFacts`)
and that ranges are disjoint (`OffsetsGrow`) are inductions with `NatInd`.
`LayoutInv` says that the data behind the next column's offset is zero and that
the range of every column before it holds what its value is written as, and
zeroes. The zeroes are what ends a short string (`UntilZeroFinds`) and what a null
reads as, so `CopyLies` has to show that no later column writes into them.
`TupleLayoutAssumption` gives values the bytes their constructors do and strings
no NUL inside; a string with one reads back cut. Schemas too narrow for their
types are excluded by `WidthsFit` in the properties themselves.

**Tuples.** With the types, the three facts about owners are inductive together.
Every constructor and the assignment go through `HoldsKeepsOwners`: a Tuple whose
own block, if any, has been freed gets an address it does not own or a new
block; `DestructKeepsOwners` is the other case.

**The command loop.** `IrisDBProofs` does not prove the tree again: it instantiates
`BPlusTreeProofs` over what the tree sees of the loop's state. Pages with rows are
blank to it (`nodes`), the page the loop keeps is one "held by others" (`kept`),
the page of a row being shown has one pin less (`other_pins`), and its stack is
the part above the statement that waits for its answer (`calls`). The two
instances of the tree's operators are shown to be the same (`SameNodeOperators`,
`SameStatements`); each statement of the tree is then a step of the tree alone
(`StepMaps`), since no row lies in a page it writes (`TreePagesAreNoData`), and
`NextKeepsIInv` gives its invariant after the step. The loop's own statements
leave the tree's state alone but for `HoldDataPage` and `ReleaseDataPage`, or
begin a call (`TreeCallPreserves`). `LoopInv` is that invariant with the shapes of
the stack (`StackShape`) and the pages with rows (`PageInv`); a restart is a tree
without nodes on a file with pages (`NoTreeHasIInv`). The premise is that of
`PinsComeBack`, and it always holds in `commands`.

**Only model-checked.** The command loop's refinement of `RowTable`. Liveness
(`EveryCallReturns`, `EveryCommandEnds`, `EndsPackedIffItFits`), which this prover
cannot reach.

## 6. Not modelled, and limits of what is checked

* Failures of the file system. A write the operating system fails sets the
  failbit, which `WritePage` ignores: until a read falls short and clears it,
  every later write does nothing and every read leaves its buffer as it was.
  `DiskManager` carries the failbit, but no action sets it: the pool promises
  nothing in that case, so there is no property to hold it to.
* Offsets that overflow an `int` (2^19 pages): `MAX_PAGES` stops before that.
* Row lengths from 65,535 characters on, whose 16-bit length (with the NUL)
  wraps, under the command loop and the heap: `commands` and `heap` have none, and
  the heap's proofs about rows assume lengths below 2^16. `SlottedPage` has them:
  the page stays sound, and `RowPage` says that only the wrapped length is stored.
* Rows too long for a page are modelled: the loop and the heap report success,
  and `RowTable` and `RidsNameTheirRows` state what becomes of them.
* A table after a restart: the root's page id is not in the file, so `RowTable`
  starts empty. What the file then still holds is not looked at by any code, and
  `IrisDB` blanks it: that no row of an earlier session shows up again is how the
  restart is modelled, not a result. That stored page ids are not handed out
  again is a result, of the pool (`NextIdIsFresh`).
* A Tuple that wraps bytes of a page, and its copies, change with those bytes;
  `TupleIsItsRowWhileCached` and `OwnedBytesAreKept` say up to when they do not.
* A VARCHAR with a NUL inside, which reads back cut: `Values` holds none.
* Tuples of 2^32 bytes or more, whose offsets wrap: lengths are naturals here.
* INTEGER columns declared shorter than four bytes, which the constructor
  overruns (`WidthsFit` excludes them).
* An exhausted pool under the command loop: `tree_full_pool` covers the tree. A
  pool of fewer frames than the loop and the tree need crashes the loop, which
  tests no `NewPage`, and makes it report a success for a row the tree refused.
* The heap table's second constructor, which stores two ids and has no caller;
  `GetFileSize`; the getters of `Value`, `Column` and of the page classes, which
  are record fields here; parsing of command lines and everything printed.
* The layout of node pages in bytes, and the sizes 339 and 509 themselves.
* `CMakeFiles/`, compiler identification that CMake generated: about half of the
  repository's lines of C and C++, and none of the engine's.

## 7. Plan

Done: all components of section 1, and proofs of all that a run checks about the
replacer, the pool, the tree, the slotted page, the heap table and tuples, and of
the command loop's pins and dirty bits, but for liveness.
Next: the refinement of `RowTable`, from `IrisDBProofs` and `BPlusTreeKeyProofs`.
