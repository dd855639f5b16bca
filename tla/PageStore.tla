----------------------------- MODULE PageStore -----------------------------
(***************************************************************************)
(* What the buffer pool promises its callers: an array of pages that only  *)
(* grows, each page with one current content, where a caller that holds a  *)
(* pin on a page can read and change it, and where at most POOL_SIZE pages *)
(* are pinned at a time.  Frames, the page table, dirty bits, eviction and *)
(* the file do not appear: BufferPool implements this.                     *)
(***************************************************************************)
EXTENDS Integers, FiniteSets

CONSTANTS
  POOL_SIZE,   \* the number of frames
  MAX_PAGES,   \* bound on the page ids
  MAX_PINS,    \* bound on the pins a page has at a time
  Data,        \* the contents a page can have
  Zero,        \* a page of zero bytes
  Null         \* the null Page*

VARIABLES
  contents,    \* the current content of every page
  num_pages,   \* pages 0 .. num_pages - 1 are allocated
  pins,        \* the pins its callers hold on a page
  returned     \* what the last call returned: the bytes seen, or Null

vars == <<contents, num_pages, pins, returned>>

PageId == 0 .. MAX_PAGES - 1

Pinned == {p \in PageId : pins[p] > 0}

HasRoom == Cardinality(Pinned) < POOL_SIZE

CanPin(p) == pins[p] > 0 \/ HasRoom

PlusPin(p) == [pins EXCEPT ![p] = @ + 1]

MinusPin(p) == [pins EXCEPT ![p] = @ - 1]

-----------------------------------------------------------------------------
Init ==
  /\ num_pages \in 0 .. MAX_PAGES
  /\ contents \in [PageId -> Data]
  /\ \A p \in PageId : p >= num_pages => contents[p] = Zero
  /\ pins = [p \in PageId |-> 0]
  /\ returned = Null

(* A fetch returns the current content of the page; it fails only when     *)
(* POOL_SIZE other pages are pinned.                                       *)
Fetch(p) ==
  /\ p < num_pages
  /\ \/ /\ CanPin(p)
        /\ pins' = PlusPin(p)
        /\ returned' = contents[p]
     \/ /\ ~CanPin(p)
        /\ returned' = Null
        /\ UNCHANGED pins
  /\ UNCHANGED <<contents, num_pages>>

(* A new page has an id never handed out before and is all zeroes.  A call *)
(* that fails allocates nothing.                                           *)
New ==
  \/ /\ HasRoom
     /\ num_pages < MAX_PAGES
     /\ num_pages' = num_pages + 1
     /\ contents' = [contents EXCEPT ![num_pages] = Zero]
     /\ pins' = PlusPin(num_pages)
     /\ returned' = Zero
  \/ /\ ~HasRoom
     /\ returned' = Null
     /\ UNCHANGED <<contents, num_pages, pins>>

Unpin(p) ==
  /\ pins[p] > 0
  /\ pins' = MinusPin(p)
  /\ UNCHANGED <<contents, num_pages, returned>>

Write(p, bytes) ==
  /\ pins[p] > 0
  /\ contents' = [contents EXCEPT ![p] = bytes]
  /\ UNCHANGED <<num_pages, pins, returned>>

(* The process ends and the file is opened again.  Nothing is promised of  *)
(* the pages that survive: there is no log and no flush yet.               *)
Restart ==
  /\ num_pages' \in 0 .. num_pages
  /\ contents' \in [PageId -> Data]
  /\ \A p \in PageId : p >= num_pages' => contents'[p] = Zero
  /\ pins' = [p \in PageId |-> 0]
  /\ returned' = Null

Next ==
  \/ \E p \in PageId : Fetch(p) \/ Unpin(p) \/ \E bytes \in Data : Write(p, bytes)
  \/ New
  \/ Restart

Spec == Init /\ [][Next]_vars
=============================================================================
