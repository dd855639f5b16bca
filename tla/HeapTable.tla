----------------------------- MODULE HeapTable -----------------------------
(***************************************************************************)
(* HeapTable (table_heap.cpp): rows in a doubly linked list of slotted     *)
(* pages over the buffer pool, whose frames are explicit here because a    *)
(* Tuple that GetTuple hands out points into one.                          *)
(*                                                                         *)
(* pool is the record of                                                   *)
(*   frames     the page in each frame                                     *)
(*   contents   every page as the next fetch of it would see it            *)
(*   saved      every page as it was when last unpinned as dirty: what is  *)
(*              left of it when its frame is reused                        *)
(*   pins, num  the pins on each page, and the number of pages             *)
(* There is one thread: an operation of the heap is one step, and other    *)
(* callers of the pool hold their pages in between.                        *)
(***************************************************************************)
EXTENDS Integers, Sequences, FiniteSets

CONSTANTS
  Frame,         \* the frames of the pool
  PAGE_SIZE, HEADER, SLOT, W16,   \* see SlottedPage
  Data, Length,  \* the rows and their lengths
  MAX_PAGES,     \* bound on the page ids
  MAX_ROWS,      \* bound on the inserts
  Zero, Used, Null

ASSUME HeapTableAssumption ==
  /\ {PAGE_SIZE, HEADER, SLOT, W16} \subseteq Nat \ {0}
  /\ HEADER <= PAGE_SIZE
  /\ PAGE_SIZE < W16
  /\ Length \subseteq Nat
  /\ MAX_PAGES \in Nat

VARIABLES
  pool,
  first, last,   \* first_page_id_ and last_page_id_
  held,          \* the pages other callers hold
  rids,          \* the RecordIDs handed out, each with its row
  tuple          \* the Tuple a caller got last: an address and a length

vars == <<pool, first, last, held, rids, tuple>>

NoPage == -1

PageId == 0 .. MAX_PAGES - 1

Rows == INSTANCE SlottedPage WITH page <- Null, reply <- Null

-----------------------------------------------------------------------------
(* The pool.  A set of outcomes: one for each frame the pool may choose,   *)
(* none when all pages in frames are pinned.                               *)

IsFree(m, f) == m.frames[f] = NoPage \/ m.pins[m.frames[f]] = 0

Evicted(m, f) ==
  IF m.frames[f] = NoPage THEN m.contents
  ELSE [m.contents EXCEPT ![m.frames[f]] = m.saved[m.frames[f]]]

FrameOf(m, p) == CHOOSE f \in Frame : m.frames[f] = p

FetchPage(m, p) ==
  LET Pinned(x) == [x EXCEPT !.pins[p] = @ + 1] IN
  IF \E f \in Frame : m.frames[f] = p
  THEN {Pinned(m)}
  ELSE {Pinned([m EXCEPT !.frames[f] = p, !.contents = Evicted(m, f)]) :
          f \in {g \in Frame : IsFree(m, g)}}

NewPage(m) ==
  {[m EXCEPT !.frames[f]   = m.num,
             !.contents    = [Evicted(m, f) EXCEPT ![m.num] = Rows!ZeroedPage],
             !.saved[m.num] = Rows!ZeroedPage,
             !.pins[m.num] = 1,
             !.num         = @ + 1] :
     f \in {g \in Frame : IsFree(m, g)}}

UnpinPage(m, p, is_dirty) ==
  [m EXCEPT !.pins[p] = @ - 1,
            !.saved[p] = IF is_dirty THEN m.contents[p] ELSE @]

-----------------------------------------------------------------------------
Init ==
  /\ pool = [frames   |-> [f \in Frame |-> NoPage],
             contents |-> [p \in PageId |-> Rows!ZeroedPage],
             saved    |-> [p \in PageId |-> Rows!ZeroedPage],
             pins     |-> [p \in PageId |-> 0],
             num      |-> 0]
  /\ first = NoPage /\ last = NoPage
  /\ held = {}
  /\ rids = {}
  /\ tuple = Null

(* The constructor writes the links of the first page and no more: its     *)
(* free space stays zero.                                                  *)
Bootstrap(m, p) ==
  [m EXCEPT !.contents[p].prev = NoPage, !.contents[p].next = NoPage]

Create ==
  /\ first = NoPage
  /\ pool.num < MAX_PAGES
  /\ \E m \in NewPage(pool) :
       /\ pool' = UnpinPage(Bootstrap(m, pool.num), pool.num, TRUE)
       /\ first' = pool.num
       /\ last' = pool.num
  /\ UNCHANGED <<held, rids, tuple>>

(* The row just inserted is in the last slot.                              *)
Handed_NextSlot(m, p, d, n) ==   \* faulty variant
  [page |-> p, slot |-> m.contents[p].num, row |-> [k \in 0 .. n - 1 |-> <<d, k>>]]

Handed(m, p, d, n) ==
  [page |-> p, slot |-> m.contents[p].num - 1,
   row  |-> [k \in 0 .. n - 1 |-> <<d, k>>]]

Inserted(m, p, d, n) ==
  [m EXCEPT !.contents[p] = Rows!InsertTuple(@, d, n)]

(* Scenario 1: the last page has room for the row.                         *)
InsertInLast(d, n) ==
  \E m \in FetchPage(pool, last) :
    /\ Rows!Inserts(m.contents[last], n)
    /\ LET after == Inserted(m, last, d, n) IN
       /\ pool' = UnpinPage(after, last, TRUE)
       /\ rids' = rids \cup {Handed(after, last, d, n)}
    /\ UNCHANGED last

(* Scenario 2: it has not, and a new page is linked behind it.  Whether    *)
(* the row went into that one is not tested.                               *)
Linked_OneWay(m, p, q) ==   \* faulty variant
  [m EXCEPT !.contents[p].next = q, !.contents[q].next = NoPage]

Linked(m, p, q) ==
  [m EXCEPT !.contents[q] = [Rows!Formatted EXCEPT !.prev = p, !.next = NoPage],
            !.contents[p].next = q]

Returned_LastTwice(m, p, q) ==    \* faulty variant
  UnpinPage(UnpinPage(m, q, TRUE), q, TRUE)

Returned(m, p, q) == UnpinPage(UnpinPage(m, p, TRUE), q, TRUE)

InsertInNew(d, n) ==
  \E m \in FetchPage(pool, last) :
    /\ ~Rows!Inserts(m.contents[last], n)
    /\ \/ /\ m.num < MAX_PAGES
          /\ \E m2 \in NewPage(m) :
               LET after == Inserted(Linked(m2, last, m.num), m.num, d, n) IN
               /\ pool' = Returned(after, last, m.num)
               /\ rids' = rids \cup {Handed(after, m.num, d, n)}
               /\ last' = m.num
       \/ /\ NewPage(m) = {}
          /\ pool' = UnpinPage(m, last, FALSE)
          /\ UNCHANGED <<last, rids>>

(* A fetch that fails leaves everything as it was.                         *)
InsertTuple(d, n) ==
  /\ first # NoPage
  /\ Cardinality(rids) < MAX_ROWS
  /\ InsertInLast(d, n) \/ InsertInNew(d, n)
  /\ UNCHANGED <<first, held, tuple>>

(* The Tuple points at the row in its frame, which is then unpinned.       *)
Address_FirstSlot(m, r) ==   \* faulty variant
  LET slot == m.contents[r.page].slots[1]
  IN [frame |-> FrameOf(m, r.page), offset |-> slot.offset, size |-> slot.size, rid |-> r]

Address(m, r) ==
  LET slot == m.contents[r.page].slots[(r.slot % W16) + 1]
  IN [frame |-> FrameOf(m, r.page), offset |-> slot.offset, size |-> slot.size, rid |-> r]

GetTuple(r) ==
  /\ \E m \in FetchPage(pool, r.page) :
       /\ pool' = UnpinPage(m, r.page, FALSE)
       /\ tuple' = IF Rows!IsLive(m.contents[r.page], r.slot) THEN Address(m, r) ELSE tuple
  /\ UNCHANGED <<first, last, held, rids>>

(* Other callers of the pool.                                              *)
Hold ==
  /\ \E p \in 0 .. pool.num - 1 :
       /\ p \notin held
       /\ pool' \in FetchPage(pool, p)
       /\ held' = held \cup {p}
  /\ UNCHANGED <<first, last, rids, tuple>>

Release ==
  /\ \E p \in held :
       /\ pool' = UnpinPage(pool, p, FALSE)
       /\ held' = held \ {p}
  /\ UNCHANGED <<first, last, rids, tuple>>

Next ==
  \/ Create
  \/ \E d \in Data, n \in Length : InsertTuple(d, n)
  \/ \E r \in rids : GetTuple(r)
  \/ Hold
  \/ Release

Spec == Init /\ [][Next]_vars
-----------------------------------------------------------------------------
(* Properties.                                                             *)

(* "head of the dll", "tail of the dll" (table_heap.h:12-13): the links    *)
(* lead from the first page to the last and back through the same n pages, *)
(* those of the rows among them, and end there: also after their pages     *)
(* were evicted and read again.                                            *)
Walk(from, link) ==
  LET At[i \in 0 .. MAX_PAGES] ==
        IF i = 0 THEN from
        ELSE IF At[i - 1] = NoPage THEN NoPage ELSE link[At[i - 1]]
  IN At

PagesFormADoublyLinkedList ==
  first # NoPage =>
    LET forth == Walk(first, [p \in PageId |-> pool.contents[p].next])
        back  == Walk(last, [p \in PageId |-> pool.contents[p].prev])
    IN \E n \in 1 .. MAX_PAGES :
         /\ forth[n] = NoPage /\ back[n] = NoPage
         /\ \A i \in 0 .. n - 1 : forth[i] # NoPage /\ back[n - 1 - i] = forth[i]
         /\ {r.page : r \in rids} \subseteq {forth[i] : i \in 0 .. n - 1}

(* Every way through an operation gives back the pins it took, the two     *)
(* pages of scenario 2 and its failure included.                           *)
PinsAreReturned ==
  \A p \in PageId : pool.pins[p] = IF p \in held THEN 1 ELSE 0

(* "It will use InsertTuple api of SlottedPage to insert and return rid"   *)
(* (table_heap.h:22): the RecordID names the row that was inserted, from   *)
(* then on, whatever was evicted meanwhile.  That of a row too long for a  *)
(* page, whose insert was a success as well (table_heap.cpp:69), names no  *)
(* row at all, rather than one of another insert.                          *)
FitsAPage(row) == Rows!Inserts(Rows!Formatted, Cardinality(DOMAIN row))

RidsNameTheirRows ==
  \A r \in rids :
    Rows!GetTuple(pool.contents[r.page], r.slot) = IF FitsAPage(r.row) THEN r.row ELSE Null

(* The bytes a Tuple shows.                                                *)
TupleBytes ==
  Rows!BytesAt(pool.contents[pool.frames[tuple.frame]],
               [offset |-> tuple.offset, size |-> tuple.size])

(* "input : record_id output: tuple" (table_heap.h:25): the Tuple points   *)
(* into a frame that is unpinned already.  It shows the row of its         *)
(* RecordID for as long as the page is in that frame, inserts into the     *)
(* page included, and no longer.                                           *)
TupleIsItsRowWhileCached ==
  tuple # Null /\ pool.frames[tuple.frame] = tuple.rid.page =>
    TupleBytes = tuple.rid.row
=============================================================================
