-------------------------- MODULE HeapTableProofs --------------------------
(***************************************************************************)
(* Every property of HeapTable that a run checks, for any numbers of       *)
(* frames, pages and rows and any page geometry that HeapTableAssumption   *)
(* allows.                                                                 *)
(*                                                                         *)
(* HeapInv is what every operation of the heap relies on and restores: the *)
(* image of each page on its way to the disk is the page (so an eviction   *)
(* loses nothing), every page is a sound slotted page, the pins are those  *)
(* of the other callers, and the links number the pages in order.  RowInv  *)
(* adds the rows: each RecordID names its row or, if the row is too long   *)
(* for a page, no slot; and the last Tuple points at the bytes of its row. *)
(* The slotted pages are used through the lemmas of SlottedPageProofs.     *)
(***************************************************************************)
EXTENDS HeapTable, QueueLemmas

Slotted == INSTANCE SlottedPageProofs WITH page <- Null, reply <- Null

-----------------------------------------------------------------------------
(* Slotted pages, by the lemmas of SlottedPageProofs.                      *)

LEMMA Sizes ==
  /\ PAGE_SIZE \in Nat /\ HEADER \in Nat /\ SLOT \in Nat /\ W16 \in Nat
  /\ HEADER > 0 /\ SLOT > 0 /\ W16 > 0
  /\ HEADER <= PAGE_SIZE /\ PAGE_SIZE < W16
BY HeapTableAssumption

(* The two instances of SlottedPage are the same.                          *)
LEMMA SameOperators ==
  /\ Rows!ZeroedPage = Slotted!ZeroedPage
  /\ Rows!Formatted = Slotted!Formatted
  /\ \A pg, n : Rows!Inserts(pg, n) = Slotted!Inserts(pg, n)
  /\ \A pg, d, n : Rows!InsertTuple(pg, d, n) = Slotted!InsertTuple(pg, d, n)
  /\ \A pg, s : Rows!IsLive(pg, s) = Slotted!IsLive(pg, s)
  /\ \A pg, slot : Rows!BytesAt(pg, slot) = Slotted!BytesAt(pg, slot)
  /\ \A pg, s : Rows!GetTuple(pg, s) = Slotted!GetTuple(pg, s)
<1>1. Rows!Offsets = Slotted!Offsets
  BY DEF Rows!Offsets, Slotted!Offsets
<1>2. Rows!ZeroedPage = Slotted!ZeroedPage /\ Rows!Formatted = Slotted!Formatted
  BY <1>1 DEF Rows!ZeroedPage, Slotted!ZeroedPage, Rows!Formatted, Slotted!Formatted
<1>3. ASSUME NEW pg, NEW n
      PROVE  Rows!Inserts(pg, n) = Slotted!Inserts(pg, n)
  BY DEF Rows!Inserts, Slotted!Inserts, Rows!HasRoom, Slotted!HasRoom
<1>4. ASSUME NEW pg, NEW d, NEW n
      PROVE  Rows!InsertTuple(pg, d, n) = Slotted!InsertTuple(pg, d, n)
  <2>1. Rows!NewSlot(pg, n % W16) = Slotted!NewSlot(pg, n % W16)
    BY DEF Rows!NewSlot, Slotted!NewSlot, Rows!NewOffset, Slotted!NewOffset,
           Rows!DeletedByte, Slotted!DeletedByte
  <2>2. ASSUME NEW slot
        PROVE  Rows!BytesWith(pg, slot, d) = Slotted!BytesWith(pg, slot, d)
    BY <1>1 DEF Rows!BytesWith, Slotted!BytesWith, Rows!RowBytes, Slotted!RowBytes,
           Rows!SlotBytes, Slotted!SlotBytes
  <2>3. Rows!Placed(pg, d, n % W16) = Slotted!Placed(pg, d, n % W16)
    BY <2>1, <2>2 DEF Rows!Placed, Slotted!Placed
  <2> QED BY <1>3, <2>3 DEF Rows!InsertTuple, Slotted!InsertTuple
<1>5. ASSUME NEW pg, NEW s
      PROVE  Rows!IsLive(pg, s) = Slotted!IsLive(pg, s)
  BY DEF Rows!IsLive, Slotted!IsLive
<1>6. ASSUME NEW pg, NEW slot
      PROVE  Rows!BytesAt(pg, slot) = Slotted!BytesAt(pg, slot)
  BY <1>1 DEF Rows!BytesAt, Slotted!BytesAt
<1>7. ASSUME NEW pg, NEW s
      PROVE  Rows!GetTuple(pg, s) = Slotted!GetTuple(pg, s)
  BY <1>5, <1>6 DEF Rows!GetTuple, Slotted!GetTuple
<1> QED BY <1>2, <1>3, <1>4, <1>5, <1>6, <1>7

PageRecord ==
  [num : Nat, start : 0 .. PAGE_SIZE, end : 0 .. PAGE_SIZE, slots : Seq(Slotted!Slot),
   bytes : [Slotted!Offsets -> Slotted!Byte], prev : Int, next : Int]

(* What SlottedPageProofs shows of every page.                             *)
GoodPage(pg) == pg \in PageRecord /\ Slotted!RowsInv(pg)

(* Slot s of the page names the row.                                       *)
Holds(pg, s, row) ==
  /\ s \in 0 .. pg.num - 1
  /\ ~pg.slots[s + 1].deleted
  /\ Rows!BytesAt(pg, pg.slots[s + 1]) = row

Row(d, n) == [k \in 0 .. n - 1 |-> <<d, k>>]

(* The bytes of row d, n of them, from offset o on.                        *)
RowLiesAt(pg, o, d, n) ==
  \A k \in 0 .. n - 1 : o + k \in Slotted!Offsets /\ pg.bytes[o + k] = <<d, k>>

(* The pages that there are at the beginning.                              *)
LEMMA FreshPages == GoodPage(Rows!ZeroedPage) /\ GoodPage(Rows!Formatted)
<1>1. Slotted!PageInv(Slotted!ZeroedPage) /\ Slotted!PageInv(Slotted!Formatted)
  BY Slotted!InitialPages, HeapTableAssumption
<1>2. /\ Slotted!ZeroedPage \in PageRecord /\ Slotted!Formatted \in PageRecord
  BY <1>1 DEF Slotted!PageInv, Slotted!IsPage, PageRecord
<1>3. \A o \in Slotted!Offsets : Slotted!ZeroedPage.bytes[o] = Zero
  BY DEF Slotted!ZeroedPage
<1>4. Slotted!Formatted.bytes = Slotted!ZeroedPage.bytes
  BY <1>2 DEF PageRecord, Slotted!Formatted
<1> QED BY <1>1, <1>2, <1>3, <1>4, SameOperators
        DEF GoodPage, Slotted!RowsInv, Slotted!GapIsZero

(* Writing the links of a page changes nothing else of it.                 *)
LEMMA LinksAreApart ==
  ASSUME NEW pg, GoodPage(pg), NEW new \in PageRecord,
         new.num = pg.num, new.start = pg.start, new.end = pg.end,
         new.slots = pg.slots, new.bytes = pg.bytes
  PROVE  /\ GoodPage(new)
         /\ \A s, row : Holds(pg, s, row) <=> Holds(new, s, row)
         /\ \A n : Rows!Inserts(new, n) = Rows!Inserts(pg, n)
<1>1. Slotted!PageInv(new)
  BY DEF GoodPage, Slotted!RowsInv, Slotted!PageInv, Slotted!IsPage,
         Slotted!EndsAreSound, Slotted!RowsDescend, PageRecord
<1>2. Slotted!GapIsZero(new)
  BY DEF GoodPage, Slotted!RowsInv, Slotted!GapIsZero
<1>3. \A slot : Rows!BytesAt(pg, slot) = Rows!BytesAt(new, slot)
  BY DEF Rows!BytesAt
<1>4. \A s, row : Holds(pg, s, row) <=> Holds(new, s, row)
  BY <1>3 DEF Holds
<1> QED BY <1>1, <1>2, <1>4 DEF GoodPage, Slotted!RowsInv, Rows!Inserts, Rows!HasRoom

(* A page that has room for a row.                                         *)
LEMMA InsertPlaces ==
  ASSUME NEW pg, GoodPage(pg), NEW d \in Data, NEW n \in Nat, Rows!Inserts(pg, n),
         NEW size, size = n % W16
  PROVE  LET after == Rows!InsertTuple(pg, d, n) IN
             /\ GoodPage(after)
             /\ after.prev = pg.prev /\ after.next = pg.next
             /\ after.num = pg.num + 1
             /\ after.slots = Append(pg.slots, [offset |-> pg.start - size,
                                                size |-> size, deleted |-> FALSE])
             /\ \A o \in Slotted!Offsets : o >= pg.start => after.bytes[o] = pg.bytes[o]
             /\ RowLiesAt(after, pg.start - size, d, size)
             /\ pg.start >= pg.end + SLOT + size /\ pg.end >= HEADER
             /\ size \in 0 .. W16 - 1
<1> DEFINE after == Slotted!Placed(pg, d, size)
<1>1. size \in 0 .. W16 - 1
  BY HeapTableAssumption
<1>2. Slotted!HasRoom(pg, size) /\ Rows!InsertTuple(pg, d, n) = after
  BY SameOperators DEF Slotted!Inserts, Slotted!InsertTuple
<1>3. Slotted!RowsInv(pg) /\ pg \in PageRecord
  BY DEF GoodPage
<1>4. Slotted!PageInv(after)
  <2>1. Slotted!PageInv(Slotted!InsertTuple(pg, d, n))
    BY <1>3, Slotted!InsertKeepsPage, HeapTableAssumption DEF Slotted!RowsInv
  <2> QED BY <1>2, <2>1, SameOperators
<1>5. /\ Slotted!GapIsZero(after)
      /\ \A o \in Slotted!Offsets : o >= pg.start => after.bytes[o] = pg.bytes[o]
      /\ \A k \in 0 .. size - 1 :
           /\ pg.start - size + k \in Slotted!Offsets
           /\ after.bytes[pg.start - size + k] = <<d, k>>
      /\ after.slots = Append(pg.slots, [offset |-> pg.start - size,
                                         size |-> size, deleted |-> FALSE])
  BY <1>1, <1>2, <1>3, Slotted!PlacedBytes, HeapTableAssumption
<1>6. /\ after.num = pg.num + 1
      /\ pg.end = HEADER + SLOT * pg.num /\ pg.end + SLOT + size <= pg.start
  BY <1>1, <1>2, <1>3, Slotted!PlacedFields, HeapTableAssumption DEF Slotted!RowsInv
<1>7. after.prev = pg.prev /\ after.next = pg.next
  BY <1>3 DEF Slotted!Placed, PageRecord
<1>8. after \in PageRecord
  BY <1>4 DEF Slotted!PageInv, Slotted!IsPage, PageRecord
<1>9. pg.end >= HEADER /\ pg.start \in Nat /\ pg.end \in Nat
  <2>1. pg.num \in Nat /\ pg.start \in Nat /\ pg.end \in Nat /\ SLOT \in Nat /\ HEADER \in Nat
    BY <1>3, HeapTableAssumption DEF PageRecord
  <2>2. SLOT * pg.num >= 0 /\ SLOT * pg.num \in Nat
    BY <2>1
  <2> QED BY <1>6, <2>1, <2>2
<1>10. pg.start >= pg.end + SLOT + size
  BY <1>1, <1>6, <1>9, HeapTableAssumption
<1> HIDE DEF after
<1> QED BY <1>1, <1>2, <1>4, <1>5, <1>6, <1>7, <1>8, <1>9, <1>10 DEF GoodPage, Slotted!RowsInv, RowLiesAt

(* An insert keeps the page in order, its links and the rows it had.       *)
LEMMA InsertKeepsRows ==
  ASSUME NEW pg, GoodPage(pg), NEW d \in Data, NEW n \in Nat
  PROVE  LET after == Rows!InsertTuple(pg, d, n) IN
         /\ GoodPage(after)
         /\ after.prev = pg.prev /\ after.next = pg.next
         /\ \A s \in 0 .. pg.num - 1 :
              /\ s \in 0 .. after.num - 1
              /\ after.slots[s + 1] = pg.slots[s + 1]
         /\ \A s, row : Holds(pg, s, row) => Holds(after, s, row)
<1> DEFINE after == Rows!InsertTuple(pg, d, n)
<1>1. CASE ~Rows!Inserts(pg, n)
  <2>1. after = pg
    BY <1>1 DEF Rows!InsertTuple
  <2> HIDE DEF after
  <2> QED BY <2>1 DEF after
<1>2. CASE Rows!Inserts(pg, n)
  <2> DEFINE size == n % W16
             new  == [offset |-> pg.start - size, size |-> size, deleted |-> FALSE]
  <2> HIDE DEF size
  <2>1. /\ GoodPage(after)
        /\ after.prev = pg.prev /\ after.next = pg.next
        /\ after.num = pg.num + 1
        /\ after.slots = Append(pg.slots, new)
        /\ \A o \in Slotted!Offsets : o >= pg.start => after.bytes[o] = pg.bytes[o]
    BY <1>2, InsertPlaces DEF size
  <2> HIDE DEF after, new
  <2>2. /\ pg.num \in Nat /\ Len(pg.slots) = pg.num /\ pg.slots \in Seq(Slotted!Slot)
        /\ pg.start \in Nat
        /\ \A i \in 1 .. pg.num : pg.start <= pg.slots[i].offset
    BY DEF GoodPage, PageRecord, Slotted!RowsInv, Slotted!PageInv, Slotted!IsPage,
           Slotted!RowsDescend
  <2>3. \A s \in 0 .. pg.num - 1 :
          /\ s \in 0 .. after.num - 1 /\ s + 1 \in 1 .. pg.num
          /\ after.slots[s + 1] = pg.slots[s + 1]
    BY <2>1, <2>2
  <2>4. ASSUME NEW s, NEW row, Holds(pg, s, row)
        PROVE  Holds(after, s, row)
    <3> DEFINE slot == pg.slots[s + 1]
    <3>1. s + 1 \in 1 .. pg.num /\ s \in 0 .. pg.num - 1
      BY <2>2, <2>4 DEF Holds
    <3>2. slot.offset \in Nat /\ slot.size \in Nat /\ pg.start <= slot.offset
      <4>1. slot \in Slotted!Slot /\ pg.start <= slot.offset
        BY <3>1, <2>2
      <4> QED BY <4>1, HeapTableAssumption DEF Slotted!Slot
    <3>3. after.slots[s + 1] = slot /\ s \in 0 .. after.num - 1
      BY <2>3, <3>1
    <3> HIDE DEF slot
    <3>4. \A k \in 0 .. slot.size - 1 : slot.offset + k \in Slotted!Offsets =>
            after.bytes[slot.offset + k] = pg.bytes[slot.offset + k]
      BY <2>1, <2>2, <3>2, SMTT(30)
    <3>5. Rows!BytesAt(after, slot) = Rows!BytesAt(pg, slot)
      BY <3>4 DEF Rows!BytesAt, Rows!Offsets, Slotted!Offsets
    <3> QED BY <2>4, <3>3, <3>5 DEF Holds, slot
  <2> QED BY <2>1, <2>3, <2>4 DEF after
<1> QED BY <1>1, <1>2

(* The new row is in the last slot.                                        *)
LEMMA InsertAddsRow ==
  ASSUME NEW pg, GoodPage(pg), NEW d \in Data, NEW n \in Nat, n < W16,
         Rows!Inserts(pg, n)
  PROVE  LET after == Rows!InsertTuple(pg, d, n) IN
         /\ Holds(after, after.num - 1, Row(d, n))
         /\ Rows!Inserts(Rows!Formatted, n)
<1> DEFINE after == Rows!InsertTuple(pg, d, n)
<1>1. PICK size : size = n % W16
  OBVIOUS
<1> DEFINE slot == [offset |-> pg.start - size, size |-> size, deleted |-> FALSE]
<1>2. /\ after.num = pg.num + 1
      /\ after.slots = Append(pg.slots, slot)
      /\ RowLiesAt(after, pg.start - size, d, size)
      /\ pg.start >= pg.end + SLOT + size /\ pg.end >= HEADER
  BY <1>1, InsertPlaces
<1>0. size = n
  BY <1>1, HeapTableAssumption
<1>3. /\ pg.num \in Nat /\ Len(pg.slots) = pg.num /\ pg.slots \in Seq(Slotted!Slot)
      /\ pg.start \in 0 .. PAGE_SIZE /\ pg.end \in 0 .. PAGE_SIZE
  BY DEF GoodPage, PageRecord, Slotted!RowsInv, Slotted!PageInv, Slotted!IsPage
<1> HIDE DEF after
<1>4. after.slots[after.num] = slot /\ after.num - 1 + 1 = after.num
  BY <1>2, <1>3
<1>5. slot.offset = pg.start - size /\ slot.size = size /\ slot.deleted = FALSE
  OBVIOUS
<1> HIDE DEF slot
<1>6. Rows!BytesAt(after, slot) = Row(d, n)
  BY <1>0, <1>2, <1>5 DEF Rows!BytesAt, Rows!Offsets, Slotted!Offsets, Row, RowLiesAt
<1>7. Holds(after, after.num - 1, Row(d, n))
  BY <1>2, <1>3, <1>4, <1>5, <1>6 DEF Holds
<1>8. Rows!Formatted.start = PAGE_SIZE /\ Rows!Formatted.end = HEADER
  BY DEF Rows!Formatted, Rows!ZeroedPage
<1>9. Rows!Inserts(Rows!Formatted, n)
  <2>1. PAGE_SIZE - HEADER >= SLOT + n
    BY <1>0, <1>2, <1>3, Sizes
  <2> QED BY <2>1, <1>0, <1>1, <1>8 DEF Rows!Inserts, Rows!HasRoom
<1> QED BY <1>7, <1>9 DEF after

-----------------------------------------------------------------------------
(* The pool.  Between two operations of the heap every page has been saved *)
(* as it is, so that giving its frame to another page changes nothing.     *)

PoolType ==
  [frames : [Frame -> PageId \cup {NoPage}], contents : [PageId -> PageRecord],
   saved : [PageId -> PageRecord], pins : [PageId -> Int], num : 0 .. MAX_PAGES]

IsSaved(m) == m \in PoolType /\ m.saved = m.contents

LEMMA EvictionKeepsContents ==
  ASSUME NEW m, IsSaved(m), NEW f \in Frame
  PROVE  Evicted(m, f) = m.contents
<1>1. /\ m.contents \in [PageId -> PageRecord] /\ m.saved = m.contents
      /\ m.frames \in [Frame -> PageId \cup {NoPage}]
  BY DEF IsSaved, PoolType
<1> QED BY <1>1 DEF Evicted

(* FetchPage pins the page, which is in a frame then.                      *)
LEMMA FetchProps ==
  ASSUME NEW m, IsSaved(m), NEW p \in PageId, NEW new \in FetchPage(m, p)
  PROVE  /\ IsSaved(new)
         /\ new.contents = m.contents /\ new.num = m.num
         /\ new.pins = [m.pins EXCEPT ![p] = @ + 1]
         /\ FrameOf(new, p) \in Frame
<1>1. CASE \E f \in Frame : m.frames[f] = p
  <2>1. new = [m EXCEPT !.pins[p] = @ + 1]
    BY <1>1 DEF FetchPage
  <2>2. IsSaved(new) /\ new.contents = m.contents /\ new.num = m.num
        /\ new.pins = [m.pins EXCEPT ![p] = @ + 1] /\ new.frames = m.frames
    BY <2>1 DEF IsSaved, PoolType
  <2>3. FrameOf(new, p) \in Frame
    BY <1>1, <2>2 DEF FrameOf
  <2> QED BY <2>2, <2>3
<1>2. CASE ~\E f \in Frame : m.frames[f] = p
  <2>1. PICK f \in Frame :
          new = [[m EXCEPT !.frames[f] = p, !.contents = Evicted(m, f)] EXCEPT !.pins[p] = @ + 1]
    BY <1>2 DEF FetchPage
  <2> DEFINE frames == [m.frames EXCEPT ![f] = p]
             pins   == [m.pins EXCEPT ![p] = @ + 1]
  <2>2. new = [m EXCEPT !.frames = frames, !.contents = m.contents, !.pins = pins]
    BY <2>1, EvictionKeepsContents DEF IsSaved, PoolType
  <2>3. /\ frames \in [Frame -> PageId \cup {NoPage}] /\ frames[f] = p
        /\ pins \in [PageId -> Int]
    BY DEF IsSaved, PoolType
  <2> HIDE DEF frames, pins
  <2>5. IsSaved(new) /\ new.contents = m.contents /\ new.num = m.num
        /\ new.pins = pins /\ new.frames = frames
    BY <2>2, <2>3 DEF IsSaved, PoolType
  <2>4. FrameOf(new, p) \in Frame
    BY <2>3, <2>5 DEF FrameOf
  <2> QED BY <2>4, <2>5 DEF pins
<1> QED BY <1>1, <1>2

(* NewPage pins a page of zeroes.                                          *)
LEMMA NewProps ==
  ASSUME NEW m, IsSaved(m), m.num < MAX_PAGES, NEW new \in NewPage(m)
  PROVE  /\ m.num \in PageId
         /\ IsSaved(new)
         /\ new.contents = [m.contents EXCEPT ![m.num] = Rows!ZeroedPage]
         /\ new.num = m.num + 1
         /\ new.pins = [m.pins EXCEPT ![m.num] = 1]
<1>1. PICK f \in Frame :
        new = [m EXCEPT !.frames[f]   = m.num,
                        !.contents    = [Evicted(m, f) EXCEPT ![m.num] = Rows!ZeroedPage],
                        !.saved[m.num] = Rows!ZeroedPage,
                        !.pins[m.num] = 1,
                        !.num         = @ + 1]
  BY DEF NewPage
<1> DEFINE frames   == [m.frames EXCEPT ![f] = m.num]
           contents == [m.contents EXCEPT ![m.num] = Rows!ZeroedPage]
           pins     == [m.pins EXCEPT ![m.num] = 1]
<1>2. m.num \in PageId /\ m.num + 1 \in 0 .. MAX_PAGES
  BY HeapTableAssumption DEF IsSaved, PoolType, PageId
<1>3. new = [m EXCEPT !.frames = frames, !.contents = contents, !.saved = contents,
                      !.pins = pins, !.num = m.num + 1]
  BY <1>1, EvictionKeepsContents DEF IsSaved, PoolType
<1>4. Rows!ZeroedPage \in PageRecord
  BY FreshPages DEF GoodPage
<1>5. /\ frames \in [Frame -> PageId \cup {NoPage}]
      /\ contents \in [PageId -> PageRecord]
      /\ pins \in [PageId -> Int]
  BY <1>2, <1>4 DEF IsSaved, PoolType
<1> HIDE DEF frames, contents, pins
<1>6. /\ IsSaved(new) /\ new.contents = contents /\ new.pins = pins
      /\ new.num = m.num + 1
  BY <1>2, <1>3, <1>5 DEF IsSaved, PoolType
<1> QED BY <1>2, <1>6 DEF contents, pins

With(f, x, y) == [f EXCEPT ![x] = y]

(* UnpinPage gives one pin back, and a dirty page is saved.                *)
LEMMA UnpinDirty ==
  ASSUME NEW m \in PoolType, NEW p \in PageId, NEW new, new = UnpinPage(m, p, TRUE)
  PROVE  /\ new \in PoolType
         /\ new.contents = m.contents /\ new.num = m.num /\ new.frames = m.frames
         /\ new.pins = With(m.pins, p, m.pins[p] - 1)
         /\ new.saved = With(m.saved, p, m.contents[p])
<1> DEFINE pins  == With(m.pins, p, m.pins[p] - 1)
           saved == With(m.saved, p, m.contents[p])
<1>1. new = [m EXCEPT !.pins = pins, !.saved = saved]
  BY DEF UnpinPage, PoolType, With
<1>2. pins \in [PageId -> Int] /\ saved \in [PageId -> PageRecord]
  BY DEF PoolType, With
<1> HIDE DEF pins, saved
<1>3. /\ new \in PoolType
      /\ new.contents = m.contents /\ new.num = m.num /\ new.frames = m.frames
      /\ new.pins = pins /\ new.saved = saved
  BY <1>1, <1>2 DEF PoolType
<1> QED BY <1>3 DEF pins, saved

LEMMA UnpinClean ==
  ASSUME NEW m \in PoolType, NEW p \in PageId, NEW new, new = UnpinPage(m, p, FALSE)
  PROVE  /\ new \in PoolType
         /\ new.contents = m.contents /\ new.num = m.num /\ new.frames = m.frames
         /\ new.pins = With(m.pins, p, m.pins[p] - 1)
         /\ new.saved = m.saved
<1> DEFINE pins == With(m.pins, p, m.pins[p] - 1)
<1>1. new = [m EXCEPT !.pins = pins]
  BY DEF UnpinPage, PoolType, With
<1>2. pins \in [PageId -> Int]
  BY DEF PoolType, With
<1> HIDE DEF pins
<1>3. /\ new \in PoolType
      /\ new.contents = m.contents /\ new.num = m.num /\ new.frames = m.frames
      /\ new.pins = pins /\ new.saved = m.saved
  BY <1>1, <1>2 DEF PoolType
<1> QED BY <1>3 DEF pins

(* A caller changes pages it has pinned.                                   *)
LEMMA ContentsProps ==
  ASSUME NEW m \in PoolType, NEW c \in [PageId -> PageRecord]
  PROVE  LET new == [m EXCEPT !.contents = c] IN
         /\ new \in PoolType
         /\ new.contents = c /\ new.saved = m.saved /\ new.num = m.num
         /\ new.frames = m.frames /\ new.pins = m.pins
BY DEF PoolType

WithLinks(pg, prev, next) == [pg EXCEPT !.prev = prev, !.next = next]

LEMMA WithLinksProps ==
  ASSUME NEW pg, GoodPage(pg), NEW prev \in Int, NEW next \in Int
  PROVE  LET new == WithLinks(pg, prev, next) IN
         /\ GoodPage(new)
         /\ new.prev = prev /\ new.next = next
         /\ new.num = pg.num /\ new.slots = pg.slots /\ new.bytes = pg.bytes
         /\ \A s, row : Holds(pg, s, row) <=> Holds(new, s, row)
         /\ \A n : Rows!Inserts(new, n) = Rows!Inserts(pg, n)
<1> DEFINE new == WithLinks(pg, prev, next)
<1>1. /\ new \in PageRecord
      /\ new.prev = prev /\ new.next = next
      /\ new.num = pg.num /\ new.start = pg.start /\ new.end = pg.end
      /\ new.slots = pg.slots /\ new.bytes = pg.bytes
  BY DEF GoodPage, PageRecord, WithLinks
<1> HIDE DEF new
<1>2. GoodPage(new) /\ (\A s, row : Holds(pg, s, row) <=> Holds(new, s, row))
      /\ \A n : Rows!Inserts(new, n) = Rows!Inserts(pg, n)
  BY <1>1, LinksAreApart
<1> QED BY <1>1, <1>2 DEF new

-----------------------------------------------------------------------------
(* What each operation of the heap does to the pool.                       *)

PagesAreGood == \A p \in PageId : GoodPage(pool.contents[p])

(* The constructor of an empty table.                                      *)
LEMMA CreateEffect ==
  ASSUME IsSaved(pool), PagesAreGood, Create
  PROVE  /\ IsSaved(pool') /\ PagesAreGood'
         /\ pool.num \in PageId /\ pool'.num = pool.num + 1
         /\ pool'.contents = [pool.contents EXCEPT
              ![pool.num] = WithLinks(Rows!ZeroedPage, NoPage, NoPage)]
         /\ pool'.pins = [pool.pins EXCEPT ![pool.num] = 0]
         /\ first' = pool.num /\ last' = pool.num
         /\ UNCHANGED <<held, rids, tuple>>
<1>1. PICK m \in NewPage(pool) : pool' = UnpinPage(Bootstrap(m, pool.num), pool.num, TRUE)
  BY DEF Create
<1>2. pool.num < MAX_PAGES
  BY DEF Create
<1>3. PICK p \in PageId : p = pool.num
  BY <1>1, <1>2, NewProps
<1>4. /\ IsSaved(m)
      /\ m.contents = [pool.contents EXCEPT ![p] = Rows!ZeroedPage]
      /\ m.num = p + 1
      /\ m.pins = [pool.pins EXCEPT ![p] = 1]
  BY <1>1, <1>2, <1>3, NewProps
<1> DEFINE blank == WithLinks(Rows!ZeroedPage, NoPage, NoPage)
           c     == [m.contents EXCEPT ![p] = blank]
           new   == [m EXCEPT !.contents = c]
<1>5. GoodPage(blank)
  BY FreshPages, WithLinksProps DEF NoPage
<1>6. m.contents \in [PageId -> PageRecord] /\ pool.contents \in [PageId -> PageRecord]
      /\ m \in PoolType /\ pool.pins \in [PageId -> Int] /\ m.saved = m.contents
  BY <1>4 DEF IsSaved, PoolType
<1>7. Bootstrap(m, p) = new
  <2>1. m.contents[p] = Rows!ZeroedPage
    BY <1>4, <1>6
  <2> QED BY <2>1, <1>6 DEF Bootstrap, WithLinks, PoolType
<1> HIDE DEF blank
<1>8. c \in [PageId -> PageRecord] /\ c[p] = blank
      /\ c = [pool.contents EXCEPT ![p] = blank]
  BY <1>4, <1>5, <1>6 DEF GoodPage
<1> HIDE DEF c
<1>9. /\ new \in PoolType
      /\ new.contents = c /\ new.saved = m.contents /\ new.num = p + 1
      /\ new.pins = [pool.pins EXCEPT ![p] = 1]
  BY <1>4, <1>6, <1>8, ContentsProps
<1> HIDE DEF new
<1> HIDE DEF new
<1>9a. pool' = UnpinPage(new, p, TRUE)
  BY <1>1, <1>3, <1>7
<1>10. /\ pool' \in PoolType
       /\ pool'.contents = c /\ pool'.num = p + 1
       /\ pool'.pins = [new.pins EXCEPT ![p] = @ - 1]
       /\ pool'.saved = [m.contents EXCEPT ![p] = c[p]]
  <2>1. new \in PoolType
    BY <1>9
  <2>2. /\ pool' \in PoolType
        /\ pool'.contents = new.contents /\ pool'.num = new.num
        /\ pool'.pins = With(new.pins, p, new.pins[p] - 1)
        /\ pool'.saved = With(new.saved, p, new.contents[p])
    BY <2>1, <1>9a, UnpinDirty
  <2> QED BY <2>2, <1>9 DEF With
<1>11. pool'.pins = [pool.pins EXCEPT ![p] = 0]
  BY <1>6, <1>9, <1>10
<1>12. pool'.saved = c
  BY <1>4, <1>6, <1>8, <1>10
<1>13. PagesAreGood'
  BY <1>5, <1>6, <1>8, <1>10 DEF PagesAreGood
<1>14. first' = p /\ last' = p /\ UNCHANGED <<held, rids, tuple>>
  BY <1>3 DEF Create
<1> QED BY <1>3, <1>8, <1>10, <1>11, <1>12, <1>13, <1>14 DEF IsSaved, blank

(* InsertTuple into the last page.                                         *)
LEMMA InsertInLastEffect ==
  ASSUME IsSaved(pool), PagesAreGood, NEW d \in Data, NEW n \in Nat, last \in PageId,
         InsertInLast(d, n)
  PROVE  LET pg == Rows!InsertTuple(pool.contents[last], d, n) IN
         /\ IsSaved(pool') /\ PagesAreGood'
         /\ Rows!Inserts(pool.contents[last], n)
         /\ pool'.contents = [pool.contents EXCEPT ![last] = pg]
         /\ pool'.num = pool.num /\ pool'.pins = pool.pins
         /\ rids' = rids \cup {[page |-> last, slot |-> pg.num - 1, row |-> Row(d, n)]}
         /\ last' = last
<1>1. PICK m \in FetchPage(pool, last) :
        /\ Rows!Inserts(m.contents[last], n)
        /\ pool' = UnpinPage(Inserted(m, last, d, n), last, TRUE)
        /\ rids' = rids \cup {Handed(Inserted(m, last, d, n), last, d, n)}
  BY DEF InsertInLast
<1>2. /\ IsSaved(m)
      /\ m.contents = pool.contents /\ m.num = pool.num
      /\ m.pins = [pool.pins EXCEPT ![last] = @ + 1]
  BY FetchProps
<1> DEFINE pg  == Rows!InsertTuple(pool.contents[last], d, n)
           c   == [pool.contents EXCEPT ![last] = pg]
           new == [m EXCEPT !.contents = c]
<1>3. GoodPage(pg)
  BY InsertKeepsRows DEF PagesAreGood
<1>4. m \in PoolType /\ pool.contents \in [PageId -> PageRecord]
      /\ pool.pins \in [PageId -> Int] /\ m.saved = pool.contents
  BY <1>2 DEF IsSaved, PoolType
<1>5. Inserted(m, last, d, n) = new
  BY <1>2, <1>4 DEF Inserted, PoolType
<1> HIDE DEF pg
<1>6. c \in [PageId -> PageRecord] /\ c[last] = pg
  BY <1>3, <1>4 DEF GoodPage
<1> HIDE DEF c
<1>7. /\ new \in PoolType
      /\ new.contents = c /\ new.saved = pool.contents /\ new.num = pool.num
      /\ new.pins = [pool.pins EXCEPT ![last] = @ + 1]
  BY <1>2, <1>4, <1>6, ContentsProps
<1> HIDE DEF new
<1>7a. pool' = UnpinPage(new, last, TRUE)
  BY <1>1, <1>5
<1>8. /\ pool' \in PoolType
      /\ pool'.contents = c /\ pool'.num = pool.num
      /\ pool'.pins = [new.pins EXCEPT ![last] = @ - 1]
      /\ pool'.saved = [pool.contents EXCEPT ![last] = c[last]]
  <2>1. new \in PoolType
    BY <1>7
  <2>2. /\ pool' \in PoolType
        /\ pool'.contents = new.contents /\ pool'.num = new.num
        /\ pool'.pins = With(new.pins, last, new.pins[last] - 1)
        /\ pool'.saved = With(new.saved, last, new.contents[last])
    BY <2>1, <1>7a, UnpinDirty
  <2> QED BY <2>2, <1>7 DEF With
<1>9. pool'.pins = pool.pins
  BY <1>4, <1>7, <1>8
<1>10. pool'.saved = c
  BY <1>4, <1>6, <1>8 DEF c
<1>11. PagesAreGood'
  BY <1>3, <1>4, <1>8 DEF PagesAreGood, c
<1>12. Rows!Inserts(pool.contents[last], n)
  BY <1>1, <1>2
<1>13. rids' = rids \cup {[page |-> last, slot |-> pg.num - 1, row |-> Row(d, n)]}
  BY <1>1, <1>5, <1>6, <1>7 DEF Handed, Row
<1>14. last' = last
  BY DEF InsertInLast
<1> QED BY <1>8, <1>9, <1>10, <1>11, <1>12, <1>13, <1>14 DEF IsSaved, c, pg

(* InsertTuple, with a new page linked behind the last one.                *)
LEMMA InsertInNewEffect ==
  ASSUME IsSaved(pool), PagesAreGood, NEW d \in Data, NEW n \in Nat,
         last \in PageId, last # pool.num,
         NEW m \in FetchPage(pool, last), m.num < MAX_PAGES, NEW m2 \in NewPage(m),
         NEW after, after = Inserted(Linked(m2, last, m.num), m.num, d, n),
         pool' = Returned(after, last, m.num)
  PROVE  LET q  == pool.num
             pg == Rows!InsertTuple(WithLinks(Rows!Formatted, last, NoPage), d, n)
         IN
         /\ IsSaved(pool') /\ PagesAreGood'
         /\ m.num = q /\ q \in PageId
         /\ pool'.contents = [pool.contents EXCEPT
              ![q] = pg, ![last] = WithLinks(@, @.prev, q)]
         /\ pool'.num = q + 1 /\ pool'.pins = [pool.pins EXCEPT ![q] = 0]
         /\ Handed(after, q, d, n) = [page |-> q, slot |-> pg.num - 1, row |-> Row(d, n)]
<1>1. /\ IsSaved(m)
      /\ m.contents = pool.contents /\ m.num = pool.num
      /\ m.pins = [pool.pins EXCEPT ![last] = @ + 1]
  BY FetchProps
<1>2. PICK q \in PageId : q = pool.num
  BY <1>1, NewProps
<1>3. /\ IsSaved(m2)
      /\ m2.contents = [m.contents EXCEPT ![q] = Rows!ZeroedPage]
      /\ m2.num = q + 1
      /\ m2.pins = [m.pins EXCEPT ![q] = 1]
  BY <1>1, <1>2, NewProps
<1>4. /\ pool.contents \in [PageId -> PageRecord] /\ pool.pins \in [PageId -> Int]
      /\ m2 \in PoolType /\ m2.saved = m2.contents
      /\ m2.contents \in [PageId -> PageRecord]
  BY <1>3 DEF IsSaved, PoolType
<1>5. q # last /\ last \in Int /\ q \in Int
  BY <1>2 DEF PageId
<1> DEFINE linked == WithLinks(Rows!Formatted, last, NoPage)
           pg     == Rows!InsertTuple(linked, d, n)
           old    == WithLinks(pool.contents[last], pool.contents[last].prev, q)
           c      == [pool.contents EXCEPT ![q] = pg, ![last] = old]
           new    == [m2 EXCEPT !.contents = c]
<1>6. GoodPage(linked) /\ GoodPage(pg)
  <2>1. GoodPage(linked)
    BY <1>5, FreshPages, WithLinksProps DEF NoPage
  <2> QED BY <2>1, InsertKeepsRows
<1>7. GoodPage(old)
  <2>1. pool.contents[last].prev \in Int
    BY <1>4 DEF PageRecord
  <2> QED BY <2>1, <1>5, WithLinksProps DEF PagesAreGood
<1>8. after = new
  <2>1. m2.contents[last] = pool.contents[last]
    BY <1>1, <1>3, <1>4, <1>5
  <2>2. [pool.contents[last] EXCEPT !.next = q] = old
    BY <1>4 DEF WithLinks, PageRecord
  <2> DEFINE one == With(m2.contents, q, linked)
             two == With(one, last, old)
  <2>3. /\ one \in [PageId -> PageRecord] /\ one[last] = pool.contents[last]
    BY <2>1, <1>4, <1>5, <1>6 DEF With, GoodPage
  <2>4. Linked(m2, last, q) = [m2 EXCEPT !.contents = two]
    BY <2>2, <2>3, <1>4 DEF Linked, WithLinks, With, PoolType
  <2>5. two[q] = linked
    BY <1>4, <1>5 DEF With
  <2>6. Inserted([m2 EXCEPT !.contents = two], q, d, n)
          = [m2 EXCEPT !.contents = With(two, q, pg)]
    BY <2>5, <1>4, <1>5 DEF Inserted, PoolType, With
  <2>7. With(two, q, pg) = c
    BY <1>1, <1>3, <1>4, <1>5 DEF With
  <2> QED BY <2>4, <2>6, <2>7, <1>1, <1>2
<1> HIDE DEF pg, old
<1>9. /\ c \in [PageId -> PageRecord] /\ c[q] = pg /\ c[last] = old
      /\ \A p \in PageId : p # q /\ p # last => c[p] = pool.contents[p]
  BY <1>4, <1>5, <1>6, <1>7 DEF GoodPage
<1> HIDE DEF c
<1>10. /\ new \in PoolType
       /\ new.contents = c /\ new.saved = m2.contents /\ new.num = q + 1
       /\ new.pins = m2.pins
  BY <1>3, <1>4, <1>9, ContentsProps
<1> HIDE DEF new
<1>11. PICK half : half = UnpinPage(new, last, TRUE)
  OBVIOUS
<1>12. /\ half \in PoolType
       /\ half.contents = c /\ half.num = q + 1
       /\ half.pins = With(m2.pins, last, m2.pins[last] - 1)
       /\ half.saved = With(m2.contents, last, c[last])
  <2>1. new \in PoolType
    BY <1>10
  <2>2. /\ half \in PoolType
        /\ half.contents = new.contents /\ half.num = new.num
        /\ half.pins = With(new.pins, last, new.pins[last] - 1)
        /\ half.saved = With(new.saved, last, new.contents[last])
    BY <2>1, <1>11, UnpinDirty, ZenonT(60)
  <2> QED BY <2>2, <1>10
<1>13. /\ pool' \in PoolType
       /\ pool'.contents = c /\ pool'.num = q + 1
       /\ pool'.pins = With(half.pins, q, half.pins[q] - 1)
       /\ pool'.saved = With(half.saved, q, c[q])
  <2>1. PICK whole : whole = UnpinPage(half, q, TRUE)
    OBVIOUS
  <2>2. pool' = whole
    BY <2>1, <1>1, <1>2, <1>8, <1>11 DEF Returned
  <2>3. half \in PoolType
    BY <1>12
  <2>4. /\ whole \in PoolType
        /\ whole.contents = half.contents /\ whole.num = half.num
        /\ whole.pins = With(half.pins, q, half.pins[q] - 1)
        /\ whole.saved = With(half.saved, q, half.contents[q])
    BY <2>1, <2>3, UnpinDirty, ZenonT(60)
  <2> QED BY <2>2, <2>4, <1>12
<1>14. pool'.pins = [pool.pins EXCEPT ![q] = 0]
  BY <1>1, <1>3, <1>4, <1>5, <1>12, <1>13 DEF With
<1>15. pool'.saved = c
  <2>1. pool'.saved = [[m2.contents EXCEPT ![last] = c[last]] EXCEPT ![q] = c[q]]
    BY <1>12, <1>13 DEF With
  <2>2. \A p \in PageId : p # q => m2.contents[p] = pool.contents[p]
    BY <1>1, <1>3, <1>4
  <2> QED BY <2>1, <2>2, <1>4, <1>5, <1>9, ZenonT(60)
<1>16. PagesAreGood'
  BY <1>6, <1>7, <1>9, <1>13 DEF PagesAreGood
<1>17. Handed(after, q, d, n) = [page |-> q, slot |-> pg.num - 1, row |-> Row(d, n)]
  BY <1>8, <1>9, <1>10 DEF Handed, Row
<1> QED BY <1>1, <1>2, <1>13, <1>14, <1>15, <1>16, <1>17 DEF IsSaved, c, old, pg

(* A fetch and the unpin after it.                                         *)
LEMMA FetchAndUnpin ==
  ASSUME IsSaved(pool), NEW p \in PageId, NEW m \in FetchPage(pool, p),
         pool' = UnpinPage(m, p, FALSE)
  PROVE  /\ IsSaved(pool')
         /\ pool'.contents = pool.contents /\ pool'.num = pool.num
         /\ pool'.pins = pool.pins
         /\ m.contents = pool.contents /\ FrameOf(m, p) \in Frame
<1>1. /\ IsSaved(m)
      /\ m.contents = pool.contents /\ m.num = pool.num
      /\ m.pins = [pool.pins EXCEPT ![p] = @ + 1]
      /\ FrameOf(m, p) \in Frame
  BY FetchProps
<1>2. m \in PoolType /\ m.saved = m.contents /\ pool.pins \in [PageId -> Int]
  BY <1>1 DEF IsSaved, PoolType
<1>3. /\ pool' \in PoolType
      /\ pool'.contents = m.contents /\ pool'.num = m.num
      /\ pool'.pins = With(m.pins, p, m.pins[p] - 1)
      /\ pool'.saved = m.saved
  BY <1>2, UnpinClean
<1>4. pool'.pins = pool.pins
  BY <1>1, <1>2, <1>3 DEF With
<1> QED BY <1>1, <1>2, <1>3, <1>4 DEF IsSaved

-----------------------------------------------------------------------------
(* The pins, the pages and their links.                                    *)

(* Pages are linked in the order of their ids: no one else allocates any.  *)
LinksAreInOrder ==
  IF first = NoPage
  THEN last = NoPage /\ pool.num = 0
  ELSE /\ first = 0 /\ last = pool.num - 1 /\ pool.num > 0
       /\ \A p \in 0 .. pool.num - 1 :
            /\ pool.contents[p].prev = p - 1
            /\ pool.contents[p].next = IF p = last THEN NoPage ELSE p + 1

HeapInv ==
  /\ IsSaved(pool) /\ PagesAreGood
  /\ PinsAreReturned
  /\ held \subseteq 0 .. pool.num - 1
  /\ LinksAreInOrder
  /\ \A r \in rids : r.page \in 0 .. pool.num - 1

LEMMA HeapTypes ==
  ASSUME HeapInv
  PROVE  /\ pool.num \in 0 .. MAX_PAGES /\ pool.num \in Nat
         /\ pool.contents \in [PageId -> PageRecord]
         /\ pool.pins \in [PageId -> Int]
         /\ 0 .. pool.num - 1 \subseteq PageId /\ PageId \subseteq Nat
         /\ first # NoPage => last \in PageId /\ last \in 0 .. pool.num - 1
                              /\ last = pool.num - 1
<1>1. /\ pool.num \in 0 .. MAX_PAGES
      /\ pool.contents \in [PageId -> PageRecord]
      /\ pool.pins \in [PageId -> Int]
  BY DEF HeapInv, IsSaved, PoolType
<1>2. pool.num \in Nat /\ 0 .. pool.num - 1 \subseteq PageId /\ PageId \subseteq Nat
  BY <1>1, HeapTableAssumption DEF PageId
<1>3. first # NoPage => last = pool.num - 1 /\ last \in 0 .. pool.num - 1
  BY <1>2 DEF HeapInv, LinksAreInOrder
<1> QED BY <1>1, <1>2, <1>3

LEMMA InitHeap == Init => HeapInv
<1> SUFFICES ASSUME Init
             PROVE  HeapInv
  OBVIOUS
<1>1. Rows!ZeroedPage \in PageRecord /\ GoodPage(Rows!ZeroedPage)
  BY FreshPages DEF GoodPage
<1>2. 0 \in 0 .. MAX_PAGES /\ 0 .. 0 - 1 = {}
  BY HeapTableAssumption
<1> DEFINE zeroed == Rows!ZeroedPage
<1> HIDE DEF zeroed
<1>3. pool = [frames   |-> [f \in Frame |-> NoPage],
              contents |-> [p \in PageId |-> zeroed],
              saved    |-> [p \in PageId |-> zeroed],
              pins     |-> [p \in PageId |-> 0],
              num      |-> 0]
  BY DEF Init, zeroed
<1>4. zeroed \in PageRecord /\ GoodPage(zeroed)
  BY <1>1 DEF zeroed
<1>5. IsSaved(pool) /\ PagesAreGood
  BY <1>2, <1>3, <1>4 DEF IsSaved, PoolType, PagesAreGood
<1>6. pool.num = 0 /\ \A p \in PageId : pool.pins[p] = 0
  BY <1>3
<1> QED BY <1>2, <1>5, <1>6 DEF Init, HeapInv, PinsAreReturned, LinksAreInOrder

LEMMA CreateHeap ==
  ASSUME HeapInv, Create
  PROVE  HeapInv'
<1>1. /\ IsSaved(pool') /\ PagesAreGood'
      /\ pool.num \in PageId /\ pool'.num = pool.num + 1
      /\ pool'.contents = [pool.contents EXCEPT
           ![pool.num] = WithLinks(Rows!ZeroedPage, NoPage, NoPage)]
      /\ pool'.pins = [pool.pins EXCEPT ![pool.num] = 0]
      /\ first' = pool.num /\ last' = pool.num
      /\ UNCHANGED <<held, rids, tuple>>
  BY CreateEffect DEF HeapInv
<1>2. first = NoPage /\ pool.num = 0 /\ 0 .. 0 - 1 = {}
  BY DEF Create, HeapInv, LinksAreInOrder
<1>3. held = {} /\ rids = {} /\ held' = {} /\ rids' = {}
  BY <1>1, <1>2 DEF HeapInv
<1>4. pool'.contents[0] = WithLinks(Rows!ZeroedPage, NoPage, NoPage)
  BY <1>1, <1>2, HeapTypes
<1>5. pool'.contents[0].prev = -1 /\ pool'.contents[0].next = NoPage
  BY <1>4, FreshPages, WithLinksProps DEF NoPage
<1>6. LinksAreInOrder'
  BY <1>1, <1>2, <1>5 DEF LinksAreInOrder, NoPage
<1>7. PinsAreReturned'
  BY <1>1, <1>2, <1>3, HeapTypes DEF PinsAreReturned, HeapInv
<1> QED BY <1>1, <1>3, <1>6, <1>7 DEF HeapInv

LEMMA InsertInLastHeap ==
  ASSUME HeapInv, NEW d \in Data, NEW n \in Nat, first # NoPage, first' = first,
         InsertInLast(d, n), held' = held
  PROVE  HeapInv'
<1> DEFINE pg == Rows!InsertTuple(pool.contents[last], d, n)
<1>1. /\ IsSaved(pool') /\ PagesAreGood'
      /\ pool'.contents = [pool.contents EXCEPT ![last] = pg]
      /\ pool'.num = pool.num /\ pool'.pins = pool.pins
      /\ rids' = rids \cup {[page |-> last, slot |-> pg.num - 1, row |-> Row(d, n)]}
      /\ last' = last
  BY HeapTypes, InsertInLastEffect DEF HeapInv
<1>2. pg.prev = pool.contents[last].prev /\ pg.next = pool.contents[last].next
  BY HeapTypes, InsertKeepsRows DEF HeapInv, PagesAreGood
<1> HIDE DEF pg
<1>3. \A p \in PageId : /\ pool'.contents[p].prev = pool.contents[p].prev
                        /\ pool'.contents[p].next = pool.contents[p].next
  BY <1>1, <1>2, HeapTypes
<1>4. LinksAreInOrder'
  BY <1>1, <1>3, HeapTypes DEF HeapInv, LinksAreInOrder
<1>5. \A r \in rids' : r.page \in 0 .. pool'.num - 1
  BY <1>1, HeapTypes DEF HeapInv
<1> QED BY <1>1, <1>4, <1>5 DEF HeapInv, PinsAreReturned

LEMMA InsertInNewHeap ==
  ASSUME HeapInv, NEW d \in Data, NEW n \in Nat, first # NoPage, first' = first,
         InsertInNew(d, n), held' = held
  PROVE  HeapInv'
<1>1. PICK m \in FetchPage(pool, last) :
        \/ /\ m.num < MAX_PAGES
           /\ \E m2 \in NewPage(m) :
                LET after == Inserted(Linked(m2, last, m.num), m.num, d, n) IN
                /\ pool' = Returned(after, last, m.num)
                /\ rids' = rids \cup {Handed(after, m.num, d, n)}
                /\ last' = m.num
        \/ /\ NewPage(m) = {}
           /\ pool' = UnpinPage(m, last, FALSE)
           /\ UNCHANGED <<last, rids>>
  BY DEF InsertInNew
<1>2. /\ pool.num \in Nat /\ last \in PageId /\ last = pool.num - 1 /\ last # pool.num
      /\ last \in Nat /\ pool.num > 0
  BY HeapTypes
<1>3. ASSUME m.num < MAX_PAGES, NEW m2 \in NewPage(m),
             NEW after, after = Inserted(Linked(m2, last, m.num), m.num, d, n),
             pool' = Returned(after, last, m.num),
             rids' = rids \cup {Handed(after, m.num, d, n)},
             last' = m.num
      PROVE  HeapInv'
  <2> DEFINE q  == pool.num
             pg == Rows!InsertTuple(WithLinks(Rows!Formatted, last, NoPage), d, n)
             old == WithLinks(pool.contents[last], pool.contents[last].prev, q)
  <2>1. /\ IsSaved(pool') /\ PagesAreGood'
        /\ m.num = q /\ q \in PageId
        /\ pool'.contents = [pool.contents EXCEPT
             ![q] = pg, ![last] = WithLinks(@, @.prev, q)]
        /\ pool'.num = q + 1 /\ pool'.pins = [pool.pins EXCEPT ![q] = 0]
        /\ Handed(after, q, d, n) = [page |-> q, slot |-> pg.num - 1, row |-> Row(d, n)]
    BY <1>2, <1>3, InsertInNewEffect DEF HeapInv
  <2>2. pg.prev = last /\ pg.next = NoPage
    <3>1. WithLinks(Rows!Formatted, last, NoPage).prev = last
          /\ WithLinks(Rows!Formatted, last, NoPage).next = NoPage
          /\ GoodPage(WithLinks(Rows!Formatted, last, NoPage))
      BY <1>2, FreshPages, WithLinksProps DEF NoPage
    <3> QED BY <3>1, InsertKeepsRows
  <2>3. old.prev = pool.contents[last].prev /\ old.next = q
    <3>1. pool.contents[last].prev \in Int
      BY <1>2, HeapTypes DEF PageRecord
    <3> QED BY <3>1, <1>2, WithLinksProps DEF HeapInv, PagesAreGood
  <2> HIDE DEF pg
  <2>4. pool'.contents = [pool.contents EXCEPT ![q] = pg, ![last] = old]
    BY <2>1, <1>2, HeapTypes
  <2> HIDE DEF old
  <2>5. \A p \in PageId :
          pool'.contents[p] = IF p = last THEN old ELSE IF p = q THEN pg ELSE pool.contents[p]
    BY <2>1, <2>4, <1>2, HeapTypes
  <2>6. LinksAreInOrder'
    <3>1. first = 0 /\ first' = 0 /\ last' = pool'.num - 1 /\ pool'.num > 0
      BY <2>1, <1>2, <1>3 DEF HeapInv, LinksAreInOrder
    <3>2. ASSUME NEW p \in 0 .. pool'.num - 1
          PROVE  /\ pool'.contents[p].prev = p - 1
                 /\ pool'.contents[p].next = IF p = last' THEN NoPage ELSE p + 1
      <4>1. p \in PageId /\ p \in Nat /\ last' = q /\ (p = q \/ p \in 0 .. pool.num - 1)
        BY <2>1, <1>2, <1>3, HeapTypes
      <4>2. CASE p = q
        BY <4>1, <4>2, <2>2, <2>5, <1>2
      <4>3. CASE p # q
        <5>1. p \in 0 .. pool.num - 1
          BY <4>1, <4>3
        <5>2. /\ pool.contents[p].prev = p - 1
              /\ pool.contents[p].next = IF p = last THEN NoPage ELSE p + 1
          BY <5>1 DEF HeapInv, LinksAreInOrder
        <5> QED BY <5>2, <4>1, <4>3, <2>3, <2>5, <1>2
      <4> QED BY <4>2, <4>3
    <3> QED BY <3>1, <3>2 DEF LinksAreInOrder, NoPage
  <2>7. PinsAreReturned'
    <3>1. q \notin held
      BY <1>2 DEF HeapInv
    <3> QED BY <3>1, <2>1, HeapTypes DEF PinsAreReturned, HeapInv
  <2>8. \A r \in rids' : r.page \in 0 .. pool'.num - 1
    BY <2>1, <1>2, <1>3 DEF HeapInv
  <2>9. held' \subseteq 0 .. pool'.num - 1
    BY <2>1, <1>2 DEF HeapInv
  <2> QED BY <2>1, <2>6, <2>7, <2>8, <2>9 DEF HeapInv
<1>4. ASSUME pool' = UnpinPage(m, last, FALSE), UNCHANGED <<last, rids>>
      PROVE  HeapInv'
  <2>1. /\ IsSaved(pool')
        /\ pool'.contents = pool.contents /\ pool'.num = pool.num
        /\ pool'.pins = pool.pins
    BY <1>2, <1>4, FetchAndUnpin DEF HeapInv
  <2> QED BY <2>1, <1>4 DEF HeapInv, PagesAreGood, PinsAreReturned, LinksAreInOrder
<1> QED BY <1>1, <1>3, <1>4

LEMMA GetHeap ==
  ASSUME HeapInv, NEW r \in rids, GetTuple(r)
  PROVE  HeapInv' /\ pool'.contents = pool.contents
<1>1. PICK m \in FetchPage(pool, r.page) : pool' = UnpinPage(m, r.page, FALSE)
  BY DEF GetTuple
<1>2. r.page \in PageId
  BY HeapTypes DEF HeapInv
<1>3. /\ IsSaved(pool')
      /\ pool'.contents = pool.contents /\ pool'.num = pool.num
      /\ pool'.pins = pool.pins
  BY <1>1, <1>2, FetchAndUnpin DEF HeapInv
<1> QED BY <1>3 DEF GetTuple, HeapInv, PagesAreGood, PinsAreReturned, LinksAreInOrder

LEMMA HoldHeap ==
  ASSUME HeapInv, Hold
  PROVE  HeapInv' /\ pool'.contents = pool.contents
<1>1. PICK p \in 0 .. pool.num - 1 :
        p \notin held /\ pool' \in FetchPage(pool, p) /\ held' = held \cup {p}
  BY DEF Hold
<1>2. p \in PageId
  BY HeapTypes
<1>3. /\ IsSaved(pool')
      /\ pool'.contents = pool.contents /\ pool'.num = pool.num
      /\ pool'.pins = [pool.pins EXCEPT ![p] = @ + 1]
  BY <1>1, <1>2, FetchProps DEF HeapInv
<1>4. PinsAreReturned'
  BY <1>1, <1>2, <1>3, HeapTypes DEF PinsAreReturned, HeapInv
<1> QED BY <1>1, <1>3, <1>4 DEF Hold, HeapInv, PagesAreGood, LinksAreInOrder

LEMMA ReleaseHeap ==
  ASSUME HeapInv, Release
  PROVE  HeapInv' /\ pool'.contents = pool.contents
<1>1. PICK p \in held : pool' = UnpinPage(pool, p, FALSE) /\ held' = held \ {p}
  BY DEF Release
<1>2. p \in PageId
  BY HeapTypes DEF HeapInv
<1>3. /\ IsSaved(pool')
      /\ pool'.contents = pool.contents /\ pool'.num = pool.num
      /\ pool'.pins = With(pool.pins, p, pool.pins[p] - 1)
  <2>1. pool \in PoolType /\ pool.saved = pool.contents
    BY DEF HeapInv, IsSaved
  <2> QED BY <2>1, <1>1, <1>2, UnpinClean DEF IsSaved
<1>4. PinsAreReturned'
  <2>1. pool.pins[p] = 1 /\ \A x \in PageId : pool.pins[x] = IF x \in held THEN 1 ELSE 0
    BY <1>1, <1>2 DEF HeapInv, PinsAreReturned
  <2>2. DOMAIN pool.pins = PageId
    BY HeapTypes DEF HeapInv, PoolType
  <2>3. \A x \in PageId : pool'.pins[x] = IF x = p THEN 0 ELSE pool.pins[x]
    BY <1>3, <2>1, <2>2 DEF With
  <2>4. \A x \in PageId : pool'.pins[x] = IF x \in held' THEN 1 ELSE 0
    BY <1>1, <2>1, <2>3
  <2> QED BY <2>4 DEF PinsAreReturned
<1> QED BY <1>1, <1>3, <1>4 DEF Release, HeapInv, PagesAreGood, LinksAreInOrder

(* One step of the heap or of another caller of the pool.                  *)
LEMMA StepKeepsHeap == HeapInv /\ [Next]_vars => HeapInv'
<1> SUFFICES ASSUME HeapInv, [Next]_vars
             PROVE  HeapInv'
  OBVIOUS
<1>1. CASE Create
  BY <1>1, CreateHeap
<1>2. ASSUME NEW d \in Data, NEW n \in Length, InsertTuple(d, n)
      PROVE  HeapInv'
  <2>1. n \in Nat /\ first # NoPage /\ first' = first /\ held' = held
    BY <1>2, HeapTableAssumption DEF InsertTuple
  <2> QED BY <1>2, <2>1, InsertInLastHeap, InsertInNewHeap DEF InsertTuple
<1>3. ASSUME NEW r \in rids, GetTuple(r)
      PROVE  HeapInv'
  BY <1>3, GetHeap
<1>4. CASE Hold
  BY <1>4, HoldHeap
<1>5. CASE Release
  BY <1>5, ReleaseHeap
<1>6. CASE UNCHANGED vars
  BY <1>6 DEF vars, HeapInv, PagesAreGood, PinsAreReturned, LinksAreInOrder
<1> QED BY <1>1, <1>2, <1>3, <1>4, <1>5, <1>6 DEF Next

LEMMA HeapInvHolds == Spec => []HeapInv
BY InitHeap, StepKeepsHeap, PTL DEF Spec

(* HeapTable gives back every pin it takes, whichever way an operation     *)
(* goes: table_heap.cpp has six calls of UnpinPage for four of FetchPage   *)
(* and NewPage.                                                            *)
THEOREM PinsComeBack == Spec => []PinsAreReturned
<1>1. HeapInv => PinsAreReturned
  BY DEF HeapInv
<1> QED BY <1>1, HeapInvHolds, PTL

-----------------------------------------------------------------------------
(* The rows.                                                               *)

(* What an operation of the heap may do to a page: the rows stay, in their *)
(* slots and where they are.                                               *)
KeepsRows(pg, new) ==
  /\ \A s, row : Holds(pg, s, row) => Holds(new, s, row)
  /\ \A s \in 0 .. pg.num - 1 : new.slots[s + 1] = pg.slots[s + 1]

IsNamed(contents, r) ==
  IF FitsAPage(r.row) THEN Holds(contents[r.page], r.slot, r.row) ELSE r.slot = -1

PointsAtItsRow(contents, t) ==
  LET slot == contents[t.rid.page].slots[t.rid.slot + 1] IN
  /\ t.rid \in rids /\ FitsAPage(t.rid.row)
  /\ t.offset = slot.offset /\ t.size = slot.size
  /\ t.frame \in Frame

RowInv ==
  /\ \A r \in rids : IsNamed(pool.contents, r)
  /\ tuple # Null => PointsAtItsRow(pool.contents, tuple)

(* The row that InsertTuple was given.                                     *)
LEMMA RowLength ==
  ASSUME NEW d, NEW n \in Nat
  PROVE  FitsAPage(Row(d, n)) <=> Rows!Inserts(Rows!Formatted, n)
<1>1. DOMAIN Row(d, n) = 0 .. n - 1
  BY DEF Row
<1>2. Cardinality(0 .. n - 1) = n
  BY FS_Interval
<1> QED BY <1>1, <1>2 DEF FitsAPage

(* An operation that keeps the rows of every page and adds a RecordID that *)
(* names its row.                                                          *)
LEMMA RowsAreKept ==
  ASSUME HeapInv, RowInv, tuple' = tuple, rids \subseteq rids',
         \A p \in 0 .. pool.num - 1 : KeepsRows(pool.contents[p], pool'.contents[p]),
         \A r \in rids' \ rids : IsNamed(pool'.contents, r)
  PROVE  RowInv'
<1>1. ASSUME NEW r \in rids
      PROVE  IsNamed(pool'.contents, r)
  <2>1. IsNamed(pool.contents, r) /\ r.page \in 0 .. pool.num - 1
    BY DEF RowInv, HeapInv
  <2> QED BY <2>1 DEF IsNamed, KeepsRows
<1>2. ASSUME tuple # Null
      PROVE  PointsAtItsRow(pool.contents, tuple)'
  <2>1. PointsAtItsRow(pool.contents, tuple)
    BY <1>2 DEF RowInv
  <2> DEFINE r == tuple.rid
  <2>2. /\ r \in rids /\ FitsAPage(r.row) /\ r.page \in 0 .. pool.num - 1
        /\ IsNamed(pool.contents, r)
    BY <2>1 DEF PointsAtItsRow, HeapInv, RowInv
  <2>3. r.slot \in 0 .. pool.contents[r.page].num - 1
    BY <2>2 DEF IsNamed, Holds
  <2>4. pool'.contents[r.page].slots[r.slot + 1] = pool.contents[r.page].slots[r.slot + 1]
    BY <2>2, <2>3 DEF KeepsRows
  <2> QED BY <2>1, <2>2, <2>4 DEF PointsAtItsRow
<1>3. \A r \in rids' : IsNamed(pool'.contents, r)
  BY <1>1
<1> QED BY <1>2, <1>3 DEF RowInv

LEMMA KeepsRowsItself == \A pg : KeepsRows(pg, pg)
BY DEF KeepsRows

LEMMA InsertInLastRows ==
  ASSUME HeapInv, RowInv, NEW d \in Data, NEW n \in Nat, n < W16, first # NoPage,
         InsertInLast(d, n), tuple' = tuple
  PROVE  RowInv'
<1> DEFINE pg  == Rows!InsertTuple(pool.contents[last], d, n)
           rid == [page |-> last, slot |-> pg.num - 1, row |-> Row(d, n)]
<1>1. /\ Rows!Inserts(pool.contents[last], n)
      /\ pool'.contents = [pool.contents EXCEPT ![last] = pg]
      /\ rids' = rids \cup {rid}
  BY HeapTypes, InsertInLastEffect DEF HeapInv
<1>2. GoodPage(pool.contents[last]) /\ last \in PageId
  BY HeapTypes DEF HeapInv, PagesAreGood
<1>3. /\ Holds(pg, pg.num - 1, Row(d, n)) /\ Rows!Inserts(Rows!Formatted, n)
      /\ KeepsRows(pool.contents[last], pg)
  <2>1. Holds(pg, pg.num - 1, Row(d, n)) /\ Rows!Inserts(Rows!Formatted, n)
    BY <1>1, <1>2, InsertAddsRow
  <2>2. KeepsRows(pool.contents[last], pg)
    BY <1>2, InsertKeepsRows DEF KeepsRows
  <2> QED BY <2>1, <2>2
<1> HIDE DEF pg
<1>4. \A p \in PageId : pool'.contents[p] = IF p = last THEN pg ELSE pool.contents[p]
  BY <1>1, <1>2, HeapTypes
<1>5. \A p \in 0 .. pool.num - 1 : KeepsRows(pool.contents[p], pool'.contents[p])
  BY <1>3, <1>4, HeapTypes, KeepsRowsItself
<1>6. IsNamed(pool'.contents, rid)
  <2>1. FitsAPage(rid.row)
    BY <1>3, RowLength
  <2>2. pool'.contents[rid.page] = pg
    BY <1>2, <1>4
  <2> QED BY <2>1, <2>2, <1>3 DEF IsNamed
<1> QED BY <1>1, <1>5, <1>6, RowsAreKept

LEMMA InsertInNewRows ==
  ASSUME HeapInv, RowInv, NEW d \in Data, NEW n \in Nat, n < W16, first # NoPage,
         InsertInNew(d, n), tuple' = tuple
  PROVE  RowInv'
<1>1. PICK m \in FetchPage(pool, last) :
        \/ /\ m.num < MAX_PAGES
           /\ \E m2 \in NewPage(m) :
                LET after == Inserted(Linked(m2, last, m.num), m.num, d, n) IN
                /\ pool' = Returned(after, last, m.num)
                /\ rids' = rids \cup {Handed(after, m.num, d, n)}
                /\ last' = m.num
        \/ /\ NewPage(m) = {}
           /\ pool' = UnpinPage(m, last, FALSE)
           /\ UNCHANGED <<last, rids>>
  BY DEF InsertInNew
<1>2. /\ pool.num \in Nat /\ last \in PageId /\ last = pool.num - 1 /\ last # pool.num
      /\ last \in Nat /\ last \in 0 .. pool.num - 1
  BY HeapTypes
<1>3. ASSUME m.num < MAX_PAGES, NEW m2 \in NewPage(m),
             NEW after, after = Inserted(Linked(m2, last, m.num), m.num, d, n),
             pool' = Returned(after, last, m.num),
             rids' = rids \cup {Handed(after, m.num, d, n)}
      PROVE  RowInv'
  <2> DEFINE q   == pool.num
             new == WithLinks(Rows!Formatted, last, NoPage)
             pg  == Rows!InsertTuple(new, d, n)
             old == WithLinks(pool.contents[last], pool.contents[last].prev, q)
             rid == [page |-> q, slot |-> pg.num - 1, row |-> Row(d, n)]
  <2>1. /\ m.num = q /\ q \in PageId
        /\ pool'.contents = [pool.contents EXCEPT
             ![q] = pg, ![last] = WithLinks(@, @.prev, q)]
        /\ Handed(after, q, d, n) = rid
    BY <1>2, <1>3, InsertInNewEffect DEF HeapInv
  <2>2. KeepsRows(pool.contents[last], old)
    <3>1. pool.contents[last].prev \in Int
      BY <1>2, HeapTypes DEF PageRecord
    <3> QED BY <3>1, <1>2, WithLinksProps DEF HeapInv, PagesAreGood, KeepsRows
  <2>3. /\ GoodPage(new) /\ new.num = 0
        /\ \A k : Rows!Inserts(new, k) = Rows!Inserts(Rows!Formatted, k)
    <3>1. Rows!Formatted.num = 0
      BY DEF Rows!Formatted, Rows!ZeroedPage
    <3> QED BY <3>1, <1>2, FreshPages, WithLinksProps DEF NoPage
  <2> HIDE DEF new
  <2>4. IF FitsAPage(Row(d, n)) THEN Holds(pg, pg.num - 1, Row(d, n)) ELSE pg.num - 1 = -1
    <3>1. CASE Rows!Inserts(new, n)
      BY <3>1, <2>3, InsertAddsRow, RowLength
    <3>2. CASE ~Rows!Inserts(new, n)
      BY <3>2, <2>3, RowLength DEF Rows!InsertTuple
    <3> QED BY <3>1, <3>2
  <2>5. pool'.contents = [pool.contents EXCEPT ![q] = pg, ![last] = old]
    BY <2>1, <1>2, HeapTypes
  <2> HIDE DEF pg, old
  <2>6. \A p \in PageId :
          pool'.contents[p] = IF p = last THEN old ELSE IF p = q THEN pg ELSE pool.contents[p]
    BY <2>1, <2>5, <1>2, HeapTypes
  <2>7. \A p \in 0 .. pool.num - 1 : KeepsRows(pool.contents[p], pool'.contents[p])
    <3>1. \A p \in 0 .. pool.num - 1 : p # q
      BY <1>2
    <3> QED BY <3>1, <2>2, <2>6, HeapTypes, KeepsRowsItself
  <2>8. IsNamed(pool'.contents, rid)
    <3>1. pool'.contents[rid.page] = pg
      BY <2>1, <2>6, <1>2
    <3> QED BY <3>1, <2>4 DEF IsNamed
  <2> QED BY <2>1, <2>7, <2>8, <1>3, RowsAreKept
<1>4. ASSUME pool' = UnpinPage(m, last, FALSE), UNCHANGED <<last, rids>>
      PROVE  RowInv'
  <2>1. pool'.contents = pool.contents
    BY <1>2, <1>4, FetchAndUnpin DEF HeapInv
  <2> QED BY <2>1, <1>4, RowsAreKept, KeepsRowsItself
<1> QED BY <1>1, <1>3, <1>4

(* A slot id that was handed out is that of a live row, unless the row was *)
(* too long for a page.                                                    *)
LEMMA NamedIsLive ==
  ASSUME HeapInv, NEW r \in rids, IsNamed(pool.contents, r)
  PROVE  /\ Rows!IsLive(pool.contents[r.page], r.slot) <=> FitsAPage(r.row)
         /\ FitsAPage(r.row) => r.slot % W16 = r.slot
<1> DEFINE pg == pool.contents[r.page]
<1>1. Slotted!PageInv(pg)
  BY HeapTypes DEF HeapInv, PagesAreGood, GoodPage, Slotted!RowsInv
<1>2. pg.num \in Nat /\ pg.num < W16 - 1
  BY <1>1, Slotted!SlotIdsFit, HeapTableAssumption
<1>3. CASE FitsAPage(r.row)
  <2>1. Holds(pg, r.slot, r.row)
    BY <1>3 DEF IsNamed
  <2>2. r.slot \in 0 .. pg.num - 1
    BY <2>1 DEF Holds
  <2>3. r.slot % W16 = r.slot
    BY <2>2, <1>2, Sizes
  <2> QED BY <1>3, <2>1, <2>2, <2>3, <1>2 DEF Rows!IsLive, Holds
<1>4. CASE ~FitsAPage(r.row)
  <2>1. r.slot = -1
    BY <1>4 DEF IsNamed
  <2>2. (-1) % W16 = W16 - 1
    BY Sizes
  <2> QED BY <1>4, <2>1, <2>2, <1>2, Sizes DEF Rows!IsLive
<1> QED BY <1>3, <1>4

LEMMA GetRows ==
  ASSUME HeapInv, RowInv, NEW r \in rids, GetTuple(r)
  PROVE  RowInv'
<1>1. PICK m \in FetchPage(pool, r.page) :
        /\ pool' = UnpinPage(m, r.page, FALSE)
        /\ tuple' = IF Rows!IsLive(m.contents[r.page], r.slot) THEN Address(m, r) ELSE tuple
  BY DEF GetTuple
<1>2. r.page \in PageId
  BY HeapTypes DEF HeapInv
<1>3. /\ pool'.contents = pool.contents
      /\ m.contents = pool.contents /\ FrameOf(m, r.page) \in Frame
  BY <1>1, <1>2, FetchAndUnpin DEF HeapInv
<1>4. rids' = rids
  BY DEF GetTuple
<1>5. CASE ~Rows!IsLive(pool.contents[r.page], r.slot)
  BY <1>1, <1>3, <1>4, <1>5, RowsAreKept, KeepsRowsItself
<1>6. CASE Rows!IsLive(pool.contents[r.page], r.slot)
  <2>1. FitsAPage(r.row) /\ r.slot % W16 = r.slot
    BY <1>6, NamedIsLive DEF RowInv
  <2>2. /\ tuple'.rid = r /\ tuple'.frame \in Frame
        /\ tuple'.offset = pool.contents[r.page].slots[r.slot + 1].offset
        /\ tuple'.size = pool.contents[r.page].slots[r.slot + 1].size
    BY <1>1, <1>3, <1>6, <2>1 DEF Address
  <2>3. PointsAtItsRow(pool.contents, tuple)'
    BY <2>1, <2>2, <1>3, <1>4 DEF PointsAtItsRow
  <2> QED BY <2>3, <1>3, <1>4 DEF RowInv
<1> QED BY <1>5, <1>6

(* One step, of a heap whose rows are shorter than a uint16_t can say.     *)
LEMMA StepKeepsRows ==
  ASSUME \A n \in Length : n < W16
  PROVE  HeapInv /\ RowInv /\ [Next]_vars => RowInv'
<1> SUFFICES ASSUME HeapInv, RowInv, [Next]_vars
             PROVE  RowInv'
  OBVIOUS
<1>1. CASE Create
  <2>1. rids = {} /\ rids' = {} /\ tuple' = tuple /\ pool.num = 0 /\ 0 .. 0 - 1 = {}
    BY <1>1 DEF Create, HeapInv, LinksAreInOrder
  <2> QED BY <2>1, RowsAreKept
<1>2. ASSUME NEW d \in Data, NEW n \in Length, InsertTuple(d, n)
      PROVE  RowInv'
  <2>1. n \in Nat /\ n < W16 /\ first # NoPage /\ tuple' = tuple
    BY <1>2, HeapTableAssumption DEF InsertTuple
  <2> QED BY <1>2, <2>1, InsertInLastRows, InsertInNewRows DEF InsertTuple
<1>3. ASSUME NEW r \in rids, GetTuple(r)
      PROVE  RowInv'
  BY <1>3, GetRows
<1>4. CASE Hold
  BY <1>4, HoldHeap, RowsAreKept, KeepsRowsItself DEF Hold
<1>5. CASE Release
  BY <1>5, ReleaseHeap, RowsAreKept, KeepsRowsItself DEF Release
<1>6. CASE UNCHANGED vars
  BY <1>6, RowsAreKept, KeepsRowsItself DEF vars
<1> QED BY <1>1, <1>2, <1>3, <1>4, <1>5, <1>6 DEF Next

LEMMA RowInvHolds ==
  ASSUME \A n \in Length : n < W16
  PROVE  Spec => []RowInv
<1>1. Init => RowInv
  BY DEF Init, RowInv
<1>2. HeapInv /\ RowInv /\ [Next]_vars => RowInv'
  BY StepKeepsRows
<1> QED BY <1>1, <1>2, HeapInvHolds, PTL DEF Spec

(* A RecordID names the row that was inserted, from then on.               *)
THEOREM RidsDoNameTheirRows ==
  ASSUME \A n \in Length : n < W16
  PROVE  Spec => []RidsNameTheirRows
<1>1. HeapInv /\ RowInv => RidsNameTheirRows
  <2> SUFFICES ASSUME HeapInv, RowInv, NEW r \in rids
               PROVE  Rows!GetTuple(pool.contents[r.page], r.slot)
                        = IF FitsAPage(r.row) THEN r.row ELSE Null
    BY DEF RidsNameTheirRows
  <2>1. IsNamed(pool.contents, r)
    BY DEF RowInv
  <2>2. /\ Rows!IsLive(pool.contents[r.page], r.slot) <=> FitsAPage(r.row)
        /\ FitsAPage(r.row) => r.slot % W16 = r.slot
    BY <2>1, NamedIsLive
  <2> QED BY <2>1, <2>2 DEF Rows!GetTuple, IsNamed, Holds
<1> QED BY <1>1, HeapInvHolds, RowInvHolds, PTL

(* A Tuple shows its row for as long as the page is in the frame it points *)
(* into, although the page is unpinned and written meanwhile.              *)
THEOREM TuplesShowTheirRows ==
  ASSUME \A n \in Length : n < W16
  PROVE  Spec => []TupleIsItsRowWhileCached
<1>1. HeapInv /\ RowInv => TupleIsItsRowWhileCached
  <2> SUFFICES ASSUME HeapInv, RowInv, tuple # Null,
                      pool.frames[tuple.frame] = tuple.rid.page
               PROVE  TupleBytes = tuple.rid.row
    BY DEF TupleIsItsRowWhileCached
  <2> DEFINE r    == tuple.rid
             pg   == pool.contents[r.page]
             slot == pg.slots[r.slot + 1]
             copy == [offset |-> tuple.offset, size |-> tuple.size]
  <2>1. PointsAtItsRow(pool.contents, tuple)
    BY DEF RowInv
  <2>2. r \in rids /\ FitsAPage(r.row) /\ tuple.offset = slot.offset /\ tuple.size = slot.size
    BY <2>1 DEF PointsAtItsRow
  <2>3. Rows!BytesAt(pg, slot) = r.row
    BY <2>2 DEF RowInv, IsNamed, Holds
  <2>4. TupleBytes = Rows!BytesAt(pg, copy)
    BY DEF TupleBytes
  <2>5. copy.offset = slot.offset /\ copy.size = slot.size
    BY <2>2
  <2> HIDE DEF copy, slot
  <2>6. Rows!BytesAt(pg, copy) = Rows!BytesAt(pg, slot)
    BY <2>5 DEF Rows!BytesAt
  <2> QED BY <2>3, <2>4, <2>6
<1> QED BY <1>1, HeapInvHolds, RowInvHolds, PTL
-----------------------------------------------------------------------------
(* The list.                                                               *)

(* What a recursive walk over 0 .. MAX_PAGES computes: any function that   *)
(* takes the same steps.                                                   *)
Follows(g, from, link) ==
  /\ DOMAIN g = 0 .. MAX_PAGES
  /\ g[0] = from
  /\ \A i \in 1 .. MAX_PAGES :
       g[i] = IF g[i - 1] = NoPage THEN NoPage ELSE link[g[i - 1]]

LEMMA WalkAlong ==
  ASSUME NEW from, NEW link, NEW g, Follows(g, from, link)
  PROVE  \A i \in 0 .. MAX_PAGES : Walk(from, link)[i] = g[i]
<1> DEFINE Step(w) == [i \in 0 .. MAX_PAGES |->
                         IF i = 0 THEN from
                         ELSE IF w[i - 1] = NoPage THEN NoPage ELSE link[w[i - 1]]]
           IsWalk(w) == w = Step(w)
           h == [i \in 0 .. MAX_PAGES |-> g[i]]
           w == Walk(from, link)
<1>0. /\ g[0] = from
      /\ \A i \in 1 .. MAX_PAGES :
           g[i] = IF g[i - 1] = NoPage THEN NoPage ELSE link[g[i - 1]]
  BY DEF Follows
<1>1. IsWalk(h)
  <2>1. \A i \in 0 .. MAX_PAGES : h[i] = Step(h)[i]
    BY <1>0, HeapTableAssumption
  <2> QED BY <2>1
<1>2. IsWalk(w)
  <2>1. w = CHOOSE x : IsWalk(x)
    BY DEF Walk
  <2> HIDE DEF IsWalk, h, w
  <2> QED BY <1>1, <2>1
<1>3. /\ MAX_PAGES >= 0 => w[0] = from
      /\ \A i \in 1 .. MAX_PAGES :
           w[i] = IF w[i - 1] = NoPage THEN NoPage ELSE link[w[i - 1]]
  <2> HIDE DEF w
  <2> QED BY <1>2, HeapTableAssumption
<1> HIDE DEF w
<1> DEFINE Same == {i \in Nat : i <= MAX_PAGES => w[i] = g[i]}
<1>4. 0 \in Same
  BY <1>0, <1>3
<1>5. ASSUME NEW i \in Nat, i \in Same
      PROVE  i + 1 \in Same
  <2> SUFFICES ASSUME i + 1 <= MAX_PAGES
               PROVE  w[i + 1] = g[i + 1]
    OBVIOUS
  <2>1. i + 1 \in 1 .. MAX_PAGES /\ (i + 1) - 1 = i /\ i <= MAX_PAGES
    BY HeapTableAssumption
  <2>2. w[i] = g[i]
    BY <1>5, <2>1
  <2> QED BY <1>0, <1>3, <2>1, <2>2
<1>6. Nat \subseteq Same
  <2> HIDE DEF Same
  <2> QED BY <1>4, <1>5, NatInd
<1> QED BY <1>6, HeapTableAssumption DEF w

(* TableHeap's list of pages, read along next_page_id_ from the head and   *)
(* along prev_page_id_ from the tail, is one list that ends and holds      *)
(* every page with a row.                                                  *)
THEOREM LinksLeadThereAndBack == Spec => []PagesFormADoublyLinkedList
<1>1. HeapInv => PagesFormADoublyLinkedList
  <2> SUFFICES ASSUME HeapInv, first # NoPage
               PROVE  PagesFormADoublyLinkedList
    BY DEF PagesFormADoublyLinkedList
  <2> DEFINE num   == pool.num
             next  == [p \in PageId |-> pool.contents[p].next]
             prev  == [p \in PageId |-> pool.contents[p].prev]
             forth == Walk(first, next)
             back  == Walk(last, prev)
             there == [i \in 0 .. MAX_PAGES |-> IF i < num THEN i ELSE NoPage]
             again == [i \in 0 .. MAX_PAGES |-> IF i < num THEN num - 1 - i ELSE NoPage]
  <2>1. /\ MAX_PAGES \in Nat /\ num \in 1 .. MAX_PAGES
        /\ first = 0 /\ last = num - 1
        /\ PageId = 0 .. MAX_PAGES - 1
        /\ \A p \in 0 .. num - 1 : /\ next[p] = IF p = num - 1 THEN NoPage ELSE p + 1
                                   /\ prev[p] = p - 1
    <3>1. /\ MAX_PAGES \in Nat /\ num \in 0 .. MAX_PAGES
          /\ PageId = 0 .. MAX_PAGES - 1 /\ 0 .. num - 1 \subseteq PageId
      BY HeapTypes, HeapTableAssumption DEF PageId
    <3>2. /\ first = 0 /\ last = num - 1 /\ num > 0
          /\ \A p \in 0 .. num - 1 :
               /\ pool.contents[p].prev = p - 1
               /\ pool.contents[p].next = IF p = last THEN NoPage ELSE p + 1
      BY DEF HeapInv, LinksAreInOrder
    <3> HIDE DEF num
    <3>3. \A p \in 0 .. num - 1 : /\ next[p] = IF p = num - 1 THEN NoPage ELSE p + 1
                                 /\ prev[p] = p - 1
      BY <3>1, <3>2
    <3> QED BY <3>1, <3>2, <3>3
  <2>2. \A r \in rids : r.page \in 0 .. num - 1
    BY DEF HeapInv
  <2> HIDE DEF num, next, prev
  <2>3. \A i \in 0 .. MAX_PAGES : forth[i] = there[i]
    <3>1. Follows(there, first, next)
      BY <2>1 DEF NoPage, Follows
    <3> HIDE DEF there
    <3> QED BY <3>1, WalkAlong
  <2>4. \A i \in 0 .. MAX_PAGES : back[i] = again[i]
    <3>1. Follows(again, last, prev)
      BY <2>1 DEF NoPage, Follows
    <3> HIDE DEF again
    <3> QED BY <3>1, WalkAlong
  <2> HIDE DEF forth, back
  <2>5. /\ num \in 1 .. MAX_PAGES
        /\ forth[num] = NoPage /\ back[num] = NoPage
        /\ \A i \in 0 .. num - 1 : forth[i] = i /\ back[num - 1 - i] = i
    BY <2>1, <2>3, <2>4 DEF NoPage
  <2>6. \A i \in 0 .. num - 1 : forth[i] # NoPage /\ back[num - 1 - i] = forth[i]
    BY <2>1, <2>5 DEF NoPage
  <2>7. {r.page : r \in rids} \subseteq {forth[i] : i \in 0 .. num - 1}
    BY <2>2, <2>5
  <2> QED BY <2>5, <2>6, <2>7 DEF PagesFormADoublyLinkedList, forth, back, next, prev
<1> QED BY <1>1, HeapInvHolds, PTL

=============================================================================
