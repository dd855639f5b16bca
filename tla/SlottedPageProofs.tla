-------------------------- MODULE SlottedPageProofs --------------------------
(***************************************************************************)
(* LayoutIsSound for every page, header and slot size: the slots and the   *)
(* rows of a page never meet, and no two rows share a byte; and from it    *)
(* that the page implements RowPage.                                       *)
(*                                                                         *)
(* LayoutIsSound itself is not inductive: the last row must be known to    *)
(* end where the one before it starts, the length and the order of the     *)
(* slots to follow the counters, and the 16-bit sums not to wrap.          *)
(***************************************************************************)
EXTENDS SlottedPage, SequenceTheorems, TLAPS

Slot == [offset : 0 .. PAGE_SIZE, size : 0 .. PAGE_SIZE, deleted : BOOLEAN]

Byte == {Zero, Used} \cup (Data \X Nat)

(* The fields of a page.                                                   *)
IsPage(pg) ==
  /\ pg \in [num : Nat, start : 0 .. PAGE_SIZE, end : 0 .. PAGE_SIZE, slots : Seq(Slot),
             bytes : [Offsets -> Byte], prev : Int, next : Int]
  /\ Len(pg.slots) = pg.num

(* The two ends: both zero on a page nobody formatted.                     *)
EndsAreSound(pg) ==
  \/ pg.num = 0 /\ pg.start = 0 /\ pg.end = 0
  \/ pg.end = HEADER + SLOT * pg.num /\ pg.end <= pg.start

(* Rows lie behind start, each before the ones inserted earlier.           *)
RowsDescend(pg) ==
  /\ \A i \in 1 .. pg.num :
       /\ pg.start <= pg.slots[i].offset
       /\ pg.slots[i].offset + pg.slots[i].size <= PAGE_SIZE
  /\ \A i, j \in 1 .. pg.num :
       i < j => pg.slots[j].offset + pg.slots[j].size <= pg.slots[i].offset

PageInv(pg) == IsPage(pg) /\ EndsAreSound(pg) /\ RowsDescend(pg)

IInv == PageInv(page)
-----------------------------------------------------------------------------
(* The sizes, one by one.                                                  *)
LEMMA Sizes ==
  /\ PAGE_SIZE \in Nat /\ HEADER \in Nat /\ SLOT \in Nat /\ W16 \in Nat
  /\ HEADER > 0 /\ SLOT > 0 /\ W16 > 0
  /\ HEADER <= PAGE_SIZE /\ PAGE_SIZE < W16
BY SlottedPageAssumption

(* Every page there is at the beginning satisfies the invariant.           *)
LEMMA InitialPages == PageInv(ZeroedPage) /\ PageInv(Formatted)
<1>1. ZeroedPage.bytes \in [Offsets -> Byte]
  BY DEF ZeroedPage, Byte
<1>2. /\ IsPage(ZeroedPage)
      /\ ZeroedPage.num = 0 /\ ZeroedPage.start = 0 /\ ZeroedPage.end = 0
  BY <1>1, Sizes DEF ZeroedPage, IsPage
<1>3. /\ IsPage(Formatted)
      /\ Formatted.num = 0 /\ Formatted.start = PAGE_SIZE /\ Formatted.end = HEADER
  <2>1. /\ ZeroedPage \in [num : Nat, start : 0 .. PAGE_SIZE, end : 0 .. PAGE_SIZE,
                          slots : Seq(Slot), bytes : [Offsets -> Byte],
                          prev : Int, next : Int]
        /\ Len(ZeroedPage.slots) = 0
    BY <1>2 DEF IsPage
  <2>. DEFINE zeroed == ZeroedPage
  <2>. HIDE DEF zeroed
  <2>2. zeroed = ZeroedPage
    BY DEF zeroed
  <2>3. HEADER \in 0 .. PAGE_SIZE /\ PAGE_SIZE \in 0 .. PAGE_SIZE
    BY Sizes
  <2>4. Formatted = [zeroed EXCEPT !.start = PAGE_SIZE, !.end = HEADER]
    BY <2>2 DEF Formatted
  <2>. QED  BY <1>2, <2>1, <2>2, <2>3, <2>4 DEF IsPage
<1>4. SLOT * 0 = 0
  BY Sizes
<1>. QED  BY <1>2, <1>3, <1>4, Sizes DEF PageInv, EndsAreSound, RowsDescend

(* A row that fits is placed without a wrap of the 16-bit fields.          *)
LEMMA PlacedFields ==
  ASSUME NEW pg, PageInv(pg), NEW d \in Data, NEW size \in 0 .. W16 - 1, HasRoom(pg, size)
  PROVE  /\ pg.end = HEADER + SLOT * pg.num
         /\ pg.end + SLOT + size <= pg.start
         /\ Placed(pg, d, size).num = pg.num + 1
         /\ Placed(pg, d, size).start = pg.start - size
         /\ Placed(pg, d, size).end = pg.end + SLOT
         /\ \E deleted \in BOOLEAN :
              Placed(pg, d, size).slots =
                Append(pg.slots, [offset |-> pg.start - size, size |-> size,
                                  deleted |-> deleted])
         /\ IsPage(Placed(pg, d, size))
<1>1. pg.start \in 0 .. PAGE_SIZE /\ pg.end \in 0 .. PAGE_SIZE /\ pg.num \in Nat
  BY DEF PageInv, IsPage
<1>2. /\ pg.end = HEADER + SLOT * pg.num
      /\ pg.end + SLOT + size <= pg.start
  <2>1. CASE pg.num = 0 /\ pg.start = 0 /\ pg.end = 0
    BY <2>1, Sizes DEF HasRoom
  <2>2. CASE pg.end = HEADER + SLOT * pg.num /\ pg.end <= pg.start
    BY <1>1, <2>2, Sizes DEF HasRoom
  <2>. QED  BY <2>1, <2>2 DEF PageInv, EndsAreSound
<1>3. /\ pg.start - size \in 0 .. PAGE_SIZE /\ pg.end + SLOT \in 0 .. PAGE_SIZE
      /\ size \in 0 .. PAGE_SIZE
  BY <1>1, <1>2, Sizes
<1>4. \A n \in 0 .. PAGE_SIZE : n % W16 = n
  BY Sizes
<1>5. (pg.start - size) % W16 = pg.start - size /\ (pg.end + SLOT) % W16 = pg.end + SLOT
  BY <1>3, <1>4
<1>6. PICK deleted \in BOOLEAN : deleted = DeletedByte(pg, pg.num)
  BY DEF DeletedByte
<1>. DEFINE slot == NewSlot(pg, size)
<1>7. slot = [offset |-> pg.start - size, size |-> size, deleted |-> deleted]
  BY <1>5, <1>6 DEF NewSlot, NewOffset
<1>8. slot \in Slot
  BY <1>3, <1>7 DEF Slot
<1>9. BytesWith(pg, slot, d) \in [Offsets -> Byte]
  <2>. SUFFICES ASSUME NEW o \in Offsets  PROVE BytesWith(pg, slot, d)[o] \in Byte
    BY DEF BytesWith
  <2>1. pg.bytes[o] \in Byte
    BY DEF PageInv, IsPage
  <2>2. o \in RowBytes(slot) => o - slot.offset \in Nat
    BY <1>3, <1>7, Sizes DEF RowBytes, Offsets
  <2>. HIDE DEF slot
  <2>. QED  BY <2>1, <2>2 DEF Byte, BytesWith
<1>. HIDE DEF slot
<1>10. /\ Append(pg.slots, slot) \in Seq(Slot)
       /\ Len(Append(pg.slots, slot)) = pg.num + 1
  BY <1>8 DEF PageInv, IsPage
<1>. DEFINE slots == Append(pg.slots, slot)
            bytes == BytesWith(pg, slot, d)
<1>. HIDE DEF slots, bytes
<1>11. Placed(pg, d, size) =
         [pg EXCEPT !.slots = slots, !.bytes = bytes, !.num = @ + 1,
                    !.start = pg.start - size, !.end = pg.end + SLOT]
  BY <1>5 DEF Placed, slots, bytes, slot
<1>12. slots \in Seq(Slot) /\ Len(slots) = pg.num + 1 /\ bytes \in [Offsets -> Byte]
  BY <1>9, <1>10 DEF slots, bytes
<1>13. /\ Placed(pg, d, size).num = pg.num + 1
       /\ Placed(pg, d, size).start = pg.start - size
       /\ Placed(pg, d, size).end = pg.end + SLOT
       /\ Placed(pg, d, size).slots = slots
       /\ IsPage(Placed(pg, d, size))
  <2>1. pg \in [num : Nat, start : 0 .. PAGE_SIZE, end : 0 .. PAGE_SIZE, slots : Seq(Slot),
                bytes : [Offsets -> Byte], prev : Int, next : Int]
    BY DEF PageInv, IsPage
  <2>2. pg.num + 1 \in Nat
    BY <1>1
  <2>. DEFINE n == pg.num + 1
              start == pg.start - size
              end == pg.end + SLOT
  <2>3. n \in Nat /\ start \in 0 .. PAGE_SIZE /\ end \in 0 .. PAGE_SIZE /\ Len(slots) = n
    BY <2>2, <1>3, <1>12
  <2>4. Placed(pg, d, size) =
          [pg EXCEPT !.slots = slots, !.bytes = bytes, !.num = n, !.start = start, !.end = end]
    BY <1>11
  <2>. HIDE DEF n, start, end
  <2>5. /\ Placed(pg, d, size).num = n /\ Placed(pg, d, size).start = start
        /\ Placed(pg, d, size).end = end /\ Placed(pg, d, size).slots = slots
        /\ IsPage(Placed(pg, d, size))
    BY <2>1, <2>3, <2>4, <1>12 DEF IsPage
  <2>. QED  BY <2>5 DEF n, start, end
<1>. QED  BY <1>2, <1>7, <1>13 DEF slots

(* InsertTuple preserves the invariant, on any page and for any length.    *)
LEMMA InsertKeepsPage ==
  ASSUME NEW pg, PageInv(pg), NEW d \in Data, NEW length \in Nat
  PROVE  PageInv(InsertTuple(pg, d, length))
<1>. DEFINE size == length % W16
            after == Placed(pg, d, size)
<1>1. size \in 0 .. W16 - 1
  BY Sizes
<1>2. CASE ~HasRoom(pg, size)
  BY <1>2 DEF InsertTuple, Inserts
<1>3. CASE HasRoom(pg, size)
  <2>. HIDE DEF size
  <2>1. InsertTuple(pg, d, length) = after
    BY <1>3 DEF InsertTuple, Inserts, size
  <2>. HIDE DEF after
  <2>2. /\ IsPage(after)
        /\ pg.end = HEADER + SLOT * pg.num
        /\ pg.end + SLOT + size <= pg.start
        /\ after.num = pg.num + 1
        /\ after.start = pg.start - size
        /\ after.end = pg.end + SLOT
    BY <1>1, <1>3, PlacedFields DEF after
  <2>3. PICK deleted \in BOOLEAN :
          after.slots = Append(pg.slots, [offset |-> pg.start - size, size |-> size,
                                          deleted |-> deleted])
    BY <1>1, <1>3, PlacedFields DEF after
  <2>. HIDE DEF after
  <2>4. IsPage(pg) /\ RowsDescend(pg)
    BY DEF PageInv
  <2>4a. pg.num \in Nat /\ pg.start \in Nat /\ pg.end \in Nat /\ size \in Nat
    BY <1>1, <2>4, Sizes DEF IsPage
  <2>5. /\ \A i \in 1 .. pg.num : after.slots[i] = pg.slots[i]
        /\ after.slots[pg.num + 1].offset = pg.start - size
        /\ after.slots[pg.num + 1].size = size
    BY <2>3, <2>4 DEF IsPage
  <2>6. EndsAreSound(after)
    <3>1. pg.num \in Nat /\ SLOT * (pg.num + 1) = SLOT * pg.num + SLOT
      BY <2>4, Sizes DEF IsPage
    <3>2. after.end = HEADER + SLOT * after.num
      BY <2>2, <3>1, Sizes
    <3>3. after.end <= after.start
      BY <2>2, <2>4a, Sizes
    <3>. QED  BY <3>2, <3>3 DEF EndsAreSound
  <2>7. \A i \in 1 .. pg.num : pg.slots[i].offset \in Nat /\ pg.slots[i].size \in Nat
    <3>1. \A i \in 1 .. pg.num : pg.slots[i] \in Slot
      BY <2>4 DEF IsPage
    <3>. QED  BY <3>1 DEF Slot
  <2>8. ASSUME NEW i \in 1 .. after.num
        PROVE  /\ after.start <= after.slots[i].offset
               /\ after.slots[i].offset + after.slots[i].size <= PAGE_SIZE
    <3>1. CASE i \in 1 .. pg.num
      <4>1. /\ pg.start <= pg.slots[i].offset
            /\ pg.slots[i].offset + pg.slots[i].size <= PAGE_SIZE
        BY <2>4, <3>1 DEF RowsDescend
      <4>2. after.start <= pg.start
        BY <2>2, <2>4a
      <4>3. pg.start \in Nat /\ after.start \in Int /\ pg.slots[i].offset \in Nat
        BY <2>2, <2>7, <2>4a, <3>1
      <4>. QED  BY <2>5, <3>1, <4>1, <4>2, <4>3
    <3>2. CASE i = pg.num + 1
      BY <1>1, <3>2, <2>2, <2>4, <2>5 DEF IsPage
    <3>. QED  BY <3>1, <3>2, <2>2, <2>4 DEF IsPage
  <2>9. ASSUME NEW i \in 1 .. after.num, NEW j \in 1 .. after.num, i < j
        PROVE  after.slots[j].offset + after.slots[j].size <= after.slots[i].offset
    <3>1. i \in 1 .. pg.num
      BY <2>9, <2>2, <2>4 DEF IsPage
    <3>2. CASE j \in 1 .. pg.num
      BY <2>9, <3>1, <3>2, <2>4, <2>5 DEF RowsDescend
    <3>3. CASE j = pg.num + 1
      <4>1. pg.start <= pg.slots[i].offset
        BY <2>4, <3>1 DEF RowsDescend
      <4>2. after.slots[j].offset + after.slots[j].size = pg.start
        BY <2>4a, <2>5, <3>3
      <4>. QED  BY <2>5, <3>1, <4>1, <4>2
    <3>. QED  BY <3>2, <3>3, <2>2, <2>4 DEF IsPage
  <2>10. RowsDescend(after)
    BY <2>8, <2>9 DEF RowsDescend
  <2>. QED  BY <2>1, <2>2, <2>6, <2>10 DEF PageInv
<1>. QED  BY <1>2, <1>3
(* DeleteTuple marks a slot that is there, and moves nothing.              *)
LEMMA DeleteKeepsPage ==
  ASSUME NEW pg, PageInv(pg), NEW slot_id \in Int
  PROVE  PageInv(DeleteTuple(pg, slot_id))
<1>. DEFINE i == (slot_id % W16) + 1
            after == DeleteTuple(pg, slot_id)
<1>1. CASE ~IsLive(pg, slot_id)
  BY <1>1 DEF DeleteTuple
<1>2. CASE IsLive(pg, slot_id)
  <2>1. i \in 1 .. pg.num
    <3>1. slot_id % W16 \in 0 .. W16 - 1 /\ pg.num \in Nat
      BY Sizes DEF PageInv, IsPage
    <3>. QED  BY <1>2, <3>1, Sizes DEF IsLive
  <2>2. after = [pg EXCEPT !.slots[i].deleted = TRUE]
    BY <1>2 DEF DeleteTuple
  <2>. HIDE DEF i, after
  <2>. DEFINE slots == [pg.slots EXCEPT ![i].deleted = TRUE]
  <2>3. /\ slots \in Seq(Slot) /\ Len(slots) = pg.num
        /\ \A j \in 1 .. pg.num : /\ slots[j].offset = pg.slots[j].offset
                                 /\ slots[j].size = pg.slots[j].size
    <3>1. pg.slots \in Seq(Slot) /\ Len(pg.slots) = pg.num /\ pg.num \in Nat
      BY DEF PageInv, IsPage
    <3>2. \A j \in 1 .. pg.num : pg.slots[j] \in Slot
      BY <3>1
    <3>3. [pg.slots[i] EXCEPT !.deleted = TRUE] \in Slot
      BY <2>1, <3>2 DEF Slot
    <3>4. slots \in Seq(Slot) /\ Len(slots) = pg.num
      BY <2>1, <3>1, <3>3
    <3>5. ASSUME NEW j \in 1 .. pg.num
          PROVE  slots[j].offset = pg.slots[j].offset /\ slots[j].size = pg.slots[j].size
      BY <2>1, <3>1, <3>2, SMTT(30) DEF Slot
    <3>. QED  BY <3>4, <3>5
  <2>4. after = [pg EXCEPT !.slots = slots]
    BY <2>2
  <2>. HIDE DEF slots
  <2>5. /\ IsPage(after) /\ after.slots = slots
        /\ after.num = pg.num /\ after.start = pg.start /\ after.end = pg.end
    BY <2>3, <2>4 DEF PageInv, IsPage
  <2>6. EndsAreSound(after) /\ RowsDescend(after)
    BY <2>3, <2>5 DEF PageInv, EndsAreSound, RowsDescend
  <2>. QED  BY <2>5, <2>6 DEF PageInv, after
<1>. QED  BY <1>1, <1>2
-----------------------------------------------------------------------------
(* The invariant holds of the page in every state.                         *)
LEMMA IInvHolds == Spec => []IInv
<1>1. Init => IInv
  BY InitialPages DEF Init, IInv
<1>2. IInv /\ [Next]_vars => IInv'
  <2>. SUFFICES ASSUME IInv, [Next]_vars  PROVE IInv'
    OBVIOUS
  <2>1. ASSUME NEW d \in Data, NEW length \in Length, Insert(d, length)
        PROVE  IInv'
    BY <2>1, InsertKeepsPage, SlottedPageAssumption DEF Insert, IInv
  <2>2. ASSUME NEW slot_id \in -1 .. page.num, Delete(slot_id)
        PROVE  IInv'
    <3>1. slot_id \in Int
      BY DEF IInv, PageInv, IsPage
    <3>. QED  BY <2>2, <3>1, DeleteKeepsPage DEF Delete, IInv
  <2>3. ASSUME NEW slot_id \in -1 .. page.num, Get(slot_id)
        PROVE  IInv'
    BY <2>3 DEF Get, IInv
  <2>4. CASE UNCHANGED vars
    BY <2>4 DEF vars, IInv
  <2>. QED  BY <2>1, <2>2, <2>3, <2>4 DEF Next
<1>. QED  BY <1>1, <1>2, PTL DEF Spec

(* Every field keeps its type: the 16-bit offsets never wrap out of the    *)
(* page, at whatever lengths InsertTuple is called.                        *)
THEOREM TypeIsCorrect == Spec => []TypeOK
<1>1. IInv => TypeOK
  <2>. SUFFICES ASSUME IInv  PROVE TypeOK
    OBVIOUS
  <2>. DEFINE S == [offset : HEADER .. PAGE_SIZE, size : 0 .. PAGE_SIZE, deleted : BOOLEAN]
  <2>1. IsPage(page) /\ EndsAreSound(page) /\ RowsDescend(page)
    BY DEF IInv, PageInv
  <2>2. /\ page.num \in Nat /\ page.start \in 0 .. PAGE_SIZE /\ page.end \in 0 .. PAGE_SIZE
        /\ page.slots \in Seq(Slot) /\ Len(page.slots) = page.num
        /\ DOMAIN page.bytes = Offsets
    BY <2>1 DEF IsPage
  <2>3. page.num > 0 => HEADER <= page.start
    <3>1. page.num > 0 => SLOT * page.num \in Nat
      BY <2>2, Sizes
    <3>. QED  BY <2>1, <2>2, <3>1, Sizes DEF EndsAreSound
  <2>4. ASSUME NEW i \in 1 .. page.num  PROVE page.slots[i] \in S
    <3>1. page.slots[i] \in Slot /\ page.start <= page.slots[i].offset /\ page.num > 0
      BY <2>1, <2>2 DEF RowsDescend
    <3>. QED  BY <2>2, <2>3, <3>1, Sizes DEF Slot
  <2>. HIDE DEF S
  <2>5. page.slots \in Seq(S)
    BY <2>2, <2>4
  <2>. QED  BY <2>2, <2>5 DEF TypeOK, S
<1>. QED  BY <1>1, IInvHolds, PTL

(* Slots and rows of a page never meet, and no two rows share a byte.      *)
THEOREM SlotsAndRowsNeverMeet == Spec => []LayoutIsSound
<1>1. IInv => LayoutIsSound
  <2>. SUFFICES ASSUME IInv, page.num > 0  PROVE LayoutIsSound
    BY DEF LayoutIsSound
  <2>1. IsPage(page) /\ EndsAreSound(page) /\ RowsDescend(page)
    BY DEF IInv, PageInv
  <2>2. /\ page.num \in Nat /\ page.start \in 0 .. PAGE_SIZE /\ page.end \in 0 .. PAGE_SIZE
        /\ page.slots \in Seq(Slot) /\ Len(page.slots) = page.num
    BY <2>1 DEF IsPage
  <2>3. page.end = HEADER + SLOT * page.num /\ page.end <= page.start
    BY <2>1, <2>2 DEF EndsAreSound
  <2>4. \A i \in 1 .. page.num : page.slots[i] \in Slot
    BY <2>2
  <2>5. \A i \in 1 .. page.num : page.slots[i].offset \in Nat /\ page.slots[i].size \in Nat
    BY <2>4, Sizes DEF Slot
  <2>6. ASSUME NEW i \in 1 .. page.num
        PROVE  RowBytes(page.slots[i]) \subseteq page.start .. PAGE_SIZE - 1
    <3>1. /\ page.start <= page.slots[i].offset
          /\ page.slots[i].offset + page.slots[i].size <= PAGE_SIZE
      BY <2>1 DEF RowsDescend
    <3>2. /\ page.slots[i].offset \in Nat /\ page.slots[i].size \in Nat
          /\ page.start \in Nat /\ PAGE_SIZE \in Nat
      BY <2>2, <2>5, Sizes
    <3>. DEFINE offset == page.slots[i].offset
                size   == page.slots[i].size
                start  == page.start
    <3>. HIDE DEF offset, size, start
    <3>3. offset .. offset + size - 1 \subseteq start .. PAGE_SIZE - 1
      BY <3>1, <3>2 DEF offset, size, start
    <3>. QED  BY <3>3 DEF RowBytes, offset, size, start
  <2>7. ASSUME NEW i \in 1 .. page.num, NEW j \in 1 .. page.num, i < j
        PROVE  RowBytes(page.slots[i]) \cap RowBytes(page.slots[j]) = {}
    BY <2>1, <2>5, <2>7 DEF RowsDescend, RowBytes
  <2>8. ASSUME NEW i \in 1 .. page.num, NEW j \in 1 .. page.num, i # j
        PROVE  RowBytes(page.slots[i]) \cap RowBytes(page.slots[j]) = {}
    <3>1. i < j \/ j < i
      BY <2>2, <2>8
    <3>. QED  BY <2>7, <3>1
  <2>. QED  BY <2>3, <2>6, <2>8 DEF LayoutIsSound
<1>. QED  BY <1>1, IInvHolds, PTL
-----------------------------------------------------------------------------
(* The page implements RowPage.                                            *)

(* The gap between the slots and the rows has never been written.          *)
GapIsZero(pg) ==
  \A o \in Offsets : pg.end <= o /\ o < pg.start => pg.bytes[o] = Zero

RowsInv(pg) == PageInv(pg) /\ GapIsZero(pg)

(* A page never has so many slots that a slot id wraps.                    *)
LEMMA SlotIdsFit ==
  ASSUME NEW pg, PageInv(pg)
  PROVE  pg.num \in Nat /\ pg.num < W16 - 1
<1>1. pg.num \in Nat /\ pg.start \in 0 .. PAGE_SIZE
  BY DEF PageInv, IsPage
<1>2. CASE pg.num = 0 /\ pg.start = 0 /\ pg.end = 0
  BY <1>2, Sizes
<1>3. CASE pg.end = HEADER + SLOT * pg.num /\ pg.end <= pg.start
  <2>1. SLOT * pg.num >= pg.num
    BY <1>1, Sizes
  <2>2. SLOT * pg.num \in Nat
    BY <1>1, Sizes
  <2>. QED  BY <1>1, <1>3, <2>1, <2>2, Sizes
<1>. QED  BY <1>1, <1>2, <1>3 DEF PageInv, EndsAreSound

(* Placing a row writes its own bytes and the bytes of its slot, and both  *)
(* lie in the gap there was.                                               *)
LEMMA PlacedBytes ==
  ASSUME NEW pg, RowsInv(pg), NEW d \in Data, NEW size \in 0 .. W16 - 1, HasRoom(pg, size)
  PROVE  /\ GapIsZero(Placed(pg, d, size))
         /\ \A o \in Offsets : o >= pg.start => Placed(pg, d, size).bytes[o] = pg.bytes[o]
         /\ \A k \in 0 .. size - 1 :
              /\ pg.start - size + k \in Offsets
              /\ Placed(pg, d, size).bytes[pg.start - size + k] = <<d, k>>
         /\ Placed(pg, d, size).slots =
              Append(pg.slots, [offset |-> pg.start - size, size |-> size, deleted |-> FALSE])
<1>1. /\ pg.end = HEADER + SLOT * pg.num
      /\ pg.end + SLOT + size <= pg.start
      /\ Placed(pg, d, size).start = pg.start - size
      /\ Placed(pg, d, size).end = pg.end + SLOT
  BY PlacedFields DEF RowsInv
<1>2. pg.start \in 0 .. PAGE_SIZE /\ pg.end \in 0 .. PAGE_SIZE /\ pg.num \in Nat
  BY DEF RowsInv, PageInv, IsPage
<1>3. SLOT * (pg.num + 1) = SLOT * pg.num + SLOT /\ SLOT * pg.num \in Nat
  BY <1>2, Sizes
<1>4. NewOffset(pg, size) = pg.start - size
  <2>1. pg.start - size \in 0 .. PAGE_SIZE
    BY <1>1, <1>2, <1>3, Sizes
  <2>2. \A n \in 0 .. PAGE_SIZE : n % W16 = n
    BY Sizes
  <2>. QED  BY <2>1, <2>2 DEF NewOffset
<1>5. ~DeletedByte(pg, pg.num)
  <2>. DEFINE o == HEADER + SLOT * (pg.num + 1) - 1
  <2>1. o = pg.end + SLOT - 1
    BY <1>1, <1>2, <1>3, Sizes
  <2>2. o \in Offsets /\ pg.end <= o /\ o < pg.start
    BY <1>1, <1>2, <1>3, <2>1, Sizes DEF Offsets
  <2>. QED  BY <2>2 DEF DeletedByte, RowsInv, GapIsZero
<1>. DEFINE slot == NewSlot(pg, size)
<1>6. slot = [offset |-> pg.start - size, size |-> size, deleted |-> FALSE]
  BY <1>4, <1>5 DEF NewSlot, DeletedByte
<1>7. RowBytes(slot) = pg.start - size .. pg.start - 1
  BY <1>2, <1>6, Sizes DEF RowBytes
<1>8. SlotBytes(pg.num) = pg.end .. pg.end + SLOT - 1
  BY <1>1, <1>2, <1>3, Sizes, SMTT(30) DEF SlotBytes
<1>9. slot.offset = pg.start - size
  BY <1>6
<1>. HIDE DEF slot
<1>10. /\ Placed(pg, d, size).bytes = BytesWith(pg, slot, d)
       /\ Placed(pg, d, size).slots = Append(pg.slots, slot)
  BY DEF Placed, slot, RowsInv, PageInv, IsPage
<1>. DEFINE bytes == Placed(pg, d, size).bytes
<1>11. \A o \in Offsets :
         bytes[o] = IF o \in pg.start - size .. pg.start - 1 THEN <<d, o - (pg.start - size)>>
                    ELSE IF o \in pg.end .. pg.end + SLOT - 1 THEN Used
                    ELSE pg.bytes[o]
  <2>1. \A o \in Int : ~(o \in pg.start - size .. pg.start - 1 /\ o \in pg.end .. pg.end + SLOT - 1)
    BY <1>1, <1>2, Sizes
  <2>2. Offsets \subseteq Int
    BY Sizes DEF Offsets
  <2>. QED  BY <1>7, <1>8, <1>9, <1>10, <2>1, <2>2 DEF BytesWith, bytes
<1>. HIDE DEF bytes
<1>12. GapIsZero(Placed(pg, d, size))
  <2>. SUFFICES ASSUME NEW o \in Offsets, pg.end + SLOT <= o, o < pg.start - size
                PROVE  bytes[o] = Zero
    BY <1>1 DEF GapIsZero, bytes
  <2>0. /\ GapIsZero(pg) /\ pg.start \in Nat /\ pg.end \in Nat
        /\ Offsets \subseteq Int
    BY <1>2, Sizes DEF RowsInv, Offsets
  <2>1. o \notin pg.start - size .. pg.start - 1 /\ o \notin pg.end .. pg.end + SLOT - 1
    BY <1>2, Sizes DEF Offsets
  <2>2. pg.end <= o /\ o < pg.start
    BY <1>2, Sizes DEF Offsets
  <2>3. pg.bytes[o] = Zero
    BY <2>0, <2>2 DEF GapIsZero
  <2>. QED  BY <1>11, <2>1, <2>3
<1>13. ASSUME NEW o \in Offsets, o >= pg.start
       PROVE  bytes[o] = pg.bytes[o]
  <2>1. o \notin pg.start - size .. pg.start - 1 /\ o \notin pg.end .. pg.end + SLOT - 1
    BY <1>1, <1>2, <1>13, Sizes DEF Offsets
  <2>. QED  BY <1>11, <2>1
<1>14. ASSUME NEW k \in 0 .. size - 1
       PROVE  pg.start - size + k \in Offsets /\ bytes[pg.start - size + k] = <<d, k>>
  <2>1. pg.start - size + k \in Offsets
    BY <1>1, <1>2, <1>3, Sizes DEF Offsets
  <2>2. /\ pg.start - size + k \in pg.start - size .. pg.start - 1
        /\ (pg.start - size + k) - (pg.start - size) = k
    BY <1>2, Sizes
  <2>. QED  BY <1>11, <2>1, <2>2
<1>. QED  BY <1>6, <1>10, <1>12, <1>13, <1>14 DEF bytes, slot

(* A row that was there reads as before, and the new one as it was given.  *)
LEMMA PlacedAppends ==
  ASSUME NEW pg, RowsInv(pg), NEW d \in Data, NEW size \in 0 .. W16 - 1, HasRoom(pg, size)
  PROVE  RowsIn(Placed(pg, d, size)) = Append(RowsIn(pg), Rows!Row(d, size))
<1>. DEFINE after == Placed(pg, d, size)
            slot == [offset |-> pg.start - size, size |-> size, deleted |-> FALSE]
            n == pg.num
            R(p, i) == [bytes |-> BytesAt(p, p.slots[i]), deleted |-> p.slots[i].deleted]
<1>1. /\ \A o \in Offsets : o >= pg.start => after.bytes[o] = pg.bytes[o]
      /\ \A k \in 0 .. size - 1 :
           pg.start - size + k \in Offsets /\ after.bytes[pg.start - size + k] = <<d, k>>
      /\ after.slots = Append(pg.slots, slot)
  BY PlacedBytes
<1>2. after.num = n + 1
  BY PlacedFields DEF RowsInv
<1>3. /\ IsPage(pg) /\ RowsDescend(pg) /\ n \in Nat
  BY DEF RowsInv, PageInv, IsPage
<1>. HIDE DEF after, slot
<1>4. /\ \A i \in 1 .. n : after.slots[i] = pg.slots[i]
      /\ after.slots[n + 1] = slot
  BY <1>1, <1>3 DEF IsPage
<1>5. ASSUME NEW i \in 1 .. n  PROVE BytesAt(after, pg.slots[i]) = BytesAt(pg, pg.slots[i])
  <2>1. pg.slots[i] \in Slot /\ pg.start <= pg.slots[i].offset /\ pg.start \in Nat
    BY <1>3, Sizes DEF IsPage, RowsDescend
  <2>. DEFINE offset == pg.slots[i].offset
              m == pg.slots[i].size
  <2>2. offset \in Nat /\ m \in Nat /\ offset >= pg.start
    BY <2>1, Sizes DEF Slot
  <2>. HIDE DEF offset, m
  <2>3. \A k \in 0 .. m - 1 :
          offset + k \in Offsets => after.bytes[offset + k] = pg.bytes[offset + k]
    BY <1>1, <2>1, <2>2
  <2>. QED  BY <2>3 DEF BytesAt, offset, m
<1>6. R(after, n + 1) = Rows!Row(d, size)
  <2>1. slot.offset = pg.start - size /\ slot.size = size /\ slot.deleted = FALSE
    BY DEF slot
  <2>2. BytesAt(after, slot) = [k \in 0 .. size - 1 |-> <<d, k>>]
    BY <1>1, <2>1 DEF BytesAt
  <2>. QED  BY <1>4, <2>1, <2>2 DEF Rows!Row
<1>7. \A i \in 1 .. n : R(after, i) = R(pg, i)
  BY <1>4, <1>5
<1>. DEFINE S == {R(pg, i) : i \in 1 .. n} \cup {Rows!Row(d, size)}
<1>8. RowsIn(pg) \in Seq(S) /\ Len(RowsIn(pg)) = n /\ \A i \in 1 .. n : RowsIn(pg)[i] = R(pg, i)
  <2>1. RowsIn(pg) = [i \in 1 .. n |-> R(pg, i)]
    BY DEF RowsIn
  <2>. HIDE DEF R
  <2>2. [i \in 1 .. n |-> R(pg, i)] \in [1 .. n -> S]
    OBVIOUS
  <2>. HIDE DEF S
  <2>. QED  BY <1>3, <2>1, <2>2
<1>9. RowsIn(after) \in Seq(S) /\ Len(RowsIn(after)) = n + 1
      /\ \A i \in 1 .. n + 1 : RowsIn(after)[i] = R(after, i)
  <2>1. RowsIn(after) = [i \in 1 .. n + 1 |-> R(after, i)]
    BY <1>2 DEF RowsIn
  <2>2. \A i \in 1 .. n + 1 : R(after, i) \in S
    <3>. SUFFICES ASSUME NEW i \in 1 .. n + 1  PROVE R(after, i) \in S
      OBVIOUS
    <3>1. CASE i \in 1 .. n
      BY <3>1, <1>7
    <3>2. CASE i = n + 1
      BY <3>2, <1>6
    <3>. QED  BY <3>1, <3>2, <1>3
  <2>3. n + 1 \in Nat
    BY <1>3
  <2>. HIDE DEF R, S
  <2>. QED  BY <2>1, <2>2, <2>3
<1>10. Rows!Row(d, size) \in S
  OBVIOUS
<1>. HIDE DEF R, n, S
<1>. DEFINE appended == Append(RowsIn(pg), Rows!Row(d, size))
<1>11. /\ appended \in Seq(S) /\ Len(appended) = n + 1
       /\ \A i \in 1 .. n : appended[i] = RowsIn(pg)[i]
       /\ appended[n + 1] = Rows!Row(d, size)
  BY <1>3, <1>8, <1>10, AppendProperties
<1>. HIDE DEF appended
<1>12. \A i \in 1 .. n + 1 : appended[i] = RowsIn(after)[i]
  <2>1. \A i \in 1 .. n + 1 : i \in 1 .. n \/ i = n + 1
    BY <1>3
  <2>. QED  BY <1>6, <1>7, <1>8, <1>9, <1>11, <2>1
<1>13. appended = RowsIn(after)
  BY <1>9, <1>11, <1>12, SeqEqual
<1>. QED  BY <1>13 DEF appended, after

(* Marking a slot marks its row, and no other.                             *)
LEMMA DeletedMarks ==
  ASSUME NEW pg, PageInv(pg), NEW slot_id \in Int, IsLive(pg, slot_id)
  PROVE  LET i == (slot_id % W16) + 1 IN
         /\ RowsIn(DeleteTuple(pg, slot_id)) = [RowsIn(pg) EXCEPT ![i].deleted = TRUE]
         /\ DeleteTuple(pg, slot_id).start = pg.start
         /\ DeleteTuple(pg, slot_id).end = pg.end
         /\ DeleteTuple(pg, slot_id).bytes = pg.bytes
<1>. DEFINE i == (slot_id % W16) + 1
            after == DeleteTuple(pg, slot_id)
            slots == [pg.slots EXCEPT ![i].deleted = TRUE]
<1>1. /\ pg.num \in Nat /\ pg.slots \in Seq(Slot) /\ Len(pg.slots) = pg.num
      /\ pg \in [num : Nat, start : 0 .. PAGE_SIZE, end : 0 .. PAGE_SIZE, slots : Seq(Slot),
                 bytes : [Offsets -> Byte], prev : Int, next : Int]
  BY DEF PageInv, IsPage
<1>2. i \in 1 .. pg.num
  <2>1. slot_id % W16 \in 0 .. W16 - 1
    BY Sizes
  <2>. QED  BY <1>1, <2>1, Sizes DEF IsLive
<1>3. after = [pg EXCEPT !.slots = slots]
  BY DEF DeleteTuple
<1>. HIDE DEF i, after
<1>4. \A j \in 1 .. pg.num :
        slots[j] = IF j = i THEN [pg.slots[j] EXCEPT !.deleted = TRUE] ELSE pg.slots[j]
  <2>1. DOMAIN pg.slots = 1 .. pg.num
    BY <1>1
  <2>2. slots = [j \in 1 .. pg.num |->
                   IF j = i THEN [pg.slots[i] EXCEPT !.deleted = TRUE] ELSE pg.slots[j]]
    BY <1>2, <2>1, Zenon
  <2>. QED  BY <2>2, Zenon
<1>5. \A j \in 1 .. pg.num : pg.slots[j] \in Slot
  BY <1>1
<1>6. \A j \in 1 .. pg.num :
        /\ slots[j].offset = pg.slots[j].offset /\ slots[j].size = pg.slots[j].size
        /\ slots[j].deleted = IF j = i THEN TRUE ELSE pg.slots[j].deleted
  <2>. HIDE DEF slots
  <2>. QED  BY <1>4, <1>5 DEF Slot
<1>. HIDE DEF slots
<1>7. /\ after.slots = slots /\ after.num = pg.num /\ after.bytes = pg.bytes
      /\ after.start = pg.start /\ after.end = pg.end
  BY <1>1, <1>3
<1>8. \A j \in 1 .. pg.num : BytesAt(after, slots[j]) = BytesAt(pg, pg.slots[j])
  BY <1>6, <1>7 DEF BytesAt
<1>. DEFINE R(p, j) == [bytes |-> BytesAt(p, p.slots[j]), deleted |-> p.slots[j].deleted]
<1>9. \A j \in 1 .. pg.num :
        R(after, j) = IF j = i THEN [R(pg, j) EXCEPT !.deleted = TRUE] ELSE R(pg, j)
  BY <1>6, <1>7, <1>8
<1>10. /\ RowsIn(after) = [j \in 1 .. pg.num |-> R(after, j)]
       /\ RowsIn(pg) = [j \in 1 .. pg.num |-> R(pg, j)]
  BY <1>7 DEF RowsIn
<1>. HIDE DEF R
<1>11. RowsIn(after) = [RowsIn(pg) EXCEPT ![i].deleted = TRUE]
  BY <1>2, <1>9, <1>10
<1>. QED  BY <1>7, <1>11 DEF after, i

(* What a caller knows of a slot id is what RowPage knows of a position.   *)
LEMMA LiveRows ==
  ASSUME NEW pg, PageInv(pg), NEW slot_id \in -1 .. pg.num
  PROVE  /\ pg.num \in Nat
         /\ DOMAIN RowsIn(pg) = 1 .. pg.num /\ Len(RowsIn(pg)) = pg.num
         /\ slot_id \in Int
         /\ slot_id >= 0 => slot_id % W16 = slot_id
         /\ slot_id = -1 => ~IsLive(pg, slot_id)
         /\ slot_id >= 0 =>
              (IsLive(pg, slot_id) <=> /\ slot_id + 1 \in DOMAIN RowsIn(pg)
                                       /\ ~RowsIn(pg)[slot_id + 1].deleted)
<1>1. pg.num \in Nat /\ pg.num < W16 - 1
  BY SlotIdsFit
<1>2. slot_id \in Int /\ (slot_id >= 0 => slot_id % W16 = slot_id)
  BY <1>1, Sizes
<1>3. DOMAIN RowsIn(pg) = 1 .. pg.num /\ Len(RowsIn(pg)) = pg.num
  BY <1>1 DEF RowsIn
<1>4. slot_id = -1 => ~IsLive(pg, slot_id)
  <2>1. (-1) % W16 = W16 - 1
    BY Sizes
  <2>. QED  BY <1>1, <2>1, Sizes DEF IsLive
<1>5. ASSUME slot_id >= 0
      PROVE  IsLive(pg, slot_id) <=> /\ slot_id + 1 \in DOMAIN RowsIn(pg)
                                     /\ ~RowsIn(pg)[slot_id + 1].deleted
  <2>1. slot_id < pg.num <=> slot_id + 1 \in 1 .. pg.num
    BY <1>1, <1>5
  <2>2. slot_id + 1 \in 1 .. pg.num =>
          RowsIn(pg)[slot_id + 1].deleted = pg.slots[slot_id + 1].deleted
    BY DEF RowsIn
  <2>. QED  BY <1>2, <1>3, <1>5, <2>1, <2>2 DEF IsLive
<1>. QED  BY <1>1, <1>2, <1>3, <1>4, <1>5

(* One lemma for each operation.                                           *)
LEMMA InsertImplements ==
  ASSUME RowsInv(page), NEW d \in Data, NEW n \in Length, Insert(d, n)
  PROVE  RowsInv(page)' /\ Rows!Insert(d, n)
<1>. DEFINE m == n % W16
            after == Placed(page, d, m)
<1>1. n \in Nat /\ m \in 0 .. W16 - 1 /\ m \in Nat
  BY Sizes, SlottedPageAssumption
<1>2. page.start \in Nat /\ page.end \in Nat /\ (page.start < page.end => page.num < 0)
      /\ PageInv(page) /\ page.num \in Nat
  <2>1. PageInv(page) /\ page.start \in Nat /\ page.end \in Nat /\ page.num \in Nat
    BY Sizes DEF RowsInv, PageInv, IsPage
  <2>2. ~(page.start < page.end)
    BY <2>1 DEF PageInv, EndsAreSound
  <2>. QED  BY <2>1, <2>2
<1>3. PageInv(page)'
  BY <1>1, <1>2, InsertKeepsPage DEF Insert
<1>4. Rows!Arriving(n) = m
  BY DEF Rows!Arriving
<1>5. Inserts(page, n) = HasRoom(page, m)
  BY DEF Inserts
<1>6. page' = IF HasRoom(page, m) THEN after ELSE page
  BY <1>5 DEF Insert, InsertTuple
<1>. HIDE DEF m, after
<1>7. HasRoom(page, m) = (SLOT + m <= page.start - page.end)
  BY <1>1, <1>2, Sizes DEF HasRoom
<1>8. Rows!Fits(n) = HasRoom(page, m)
  BY <1>4, <1>7 DEF Rows!Fits
<1>9. Rows!Answers([op |-> "insert", row |-> d, length |-> n, ok |-> Rows!Fits(n)])
  BY <1>5, <1>8 DEF Insert, Answers, Rows!Answers
<1>10. CASE HasRoom(page, m)
  <2>1. page' = after
    BY <1>6, <1>10
  <2>2. GapIsZero(after) /\ RowsIn(after) = Append(RowsIn(page), Rows!Row(d, m))
    BY <1>1, <1>10, PlacedBytes, PlacedAppends DEF after
  <2>3. after.start = page.start - m /\ after.end = page.end + SLOT
    BY <1>1, <1>2, <1>10, PlacedFields DEF after
  <2>4. page'.start - page'.end = page.start - page.end - SLOT - m
    BY <1>1, <1>2, <2>1, <2>3, Sizes
  <2>. QED  BY <1>3, <1>4, <1>8, <1>9, <1>10, <2>1, <2>2, <2>4 DEF Rows!Insert, RowsInv
<1>11. CASE ~HasRoom(page, m)
  BY <1>6, <1>8, <1>9, <1>11 DEF Rows!Insert
<1>. QED  BY <1>10, <1>11

(* A slot id a caller has names the same row, or none, in RowPage.         *)
LEMMA SameSlots ==
  ASSUME PageInv(page), NEW slot_id \in -1 .. page.num
  PROVE  /\ slot_id \in -1 .. Len(RowsIn(page))
         /\ Rows!IsLive(slot_id) = IsLive(page, slot_id)
         /\ IsLive(page, slot_id) =>
              slot_id % W16 = slot_id /\ slot_id + 1 \in DOMAIN RowsIn(page)
<1>1. /\ page.num \in Nat /\ slot_id \in Int
      /\ DOMAIN RowsIn(page) = 1 .. page.num /\ Len(RowsIn(page)) = page.num
      /\ slot_id >= 0 => slot_id % W16 = slot_id
      /\ slot_id = -1 => ~IsLive(page, slot_id)
      /\ slot_id >= 0 =>
           (IsLive(page, slot_id) <=> /\ slot_id + 1 \in DOMAIN RowsIn(page)
                                      /\ ~RowsIn(page)[slot_id + 1].deleted)
  BY LiveRows
<1>2. CASE slot_id = -1
  <2>1. slot_id + 1 \notin DOMAIN RowsIn(page)
    BY <1>1, <1>2
  <2>2. ~Rows!IsLive(slot_id) /\ ~IsLive(page, slot_id)
    BY <1>1, <1>2, <2>1 DEF Rows!IsLive
  <2>3. slot_id \in -1 .. Len(RowsIn(page))
    BY <1>1, <1>2
  <2>4. IsLive(page, slot_id) \in BOOLEAN /\ Rows!IsLive(slot_id) \in BOOLEAN
    BY DEF IsLive, Rows!IsLive
  <2>. QED  BY <2>2, <2>3, <2>4
<1>3. CASE slot_id >= 0
  <2>1. IsLive(page, slot_id) <=> Rows!IsLive(slot_id)
    BY <1>1, <1>3 DEF Rows!IsLive
  <2>2. IsLive(page, slot_id) \in BOOLEAN /\ Rows!IsLive(slot_id) \in BOOLEAN
    BY DEF IsLive, Rows!IsLive
  <2>. QED  BY <1>1, <1>3, <2>1, <2>2
<1>. QED  BY <1>1, <1>2, <1>3

LEMMA DeleteImplements ==
  ASSUME RowsInv(page), NEW slot_id \in -1 .. page.num, Delete(slot_id)
  PROVE  RowsInv(page)' /\ Rows!Delete(slot_id)
<1>1. PageInv(page) /\ GapIsZero(page)
  BY DEF RowsInv
<1>2. /\ Rows!IsLive(slot_id) = IsLive(page, slot_id) /\ slot_id \in Int
      /\ IsLive(page, slot_id) => slot_id % W16 = slot_id
  BY <1>1, SameSlots
<1>3. PageInv(page)'
  BY <1>1, <1>2, DeleteKeepsPage DEF Delete
<1>4. Rows!Answers([op |-> "delete", slot |-> slot_id, ok |-> Rows!IsLive(slot_id)])
  BY <1>2 DEF Delete, Answers, Rows!Answers
<1>5. CASE IsLive(page, slot_id)
  <2>1. /\ RowsIn(page') = [RowsIn(page) EXCEPT ![slot_id + 1].deleted = TRUE]
        /\ page'.start = page.start /\ page'.end = page.end /\ page'.bytes = page.bytes
    BY <1>1, <1>2, <1>5, DeletedMarks DEF Delete
  <2>2. GapIsZero(page)'
    BY <1>1, <2>1 DEF GapIsZero
  <2>3. Rows!Delete(slot_id)
    BY <1>2, <1>4, <1>5, <2>1 DEF Rows!Delete
  <2>. QED  BY <1>3, <2>2, <2>3 DEF RowsInv
<1>6. CASE ~IsLive(page, slot_id)
  <2>1. page' = page
    BY <1>6 DEF Delete, DeleteTuple
  <2>2. Rows!Delete(slot_id)
    BY <1>2, <1>4, <1>6, <2>1 DEF Rows!Delete
  <2>. QED  BY <2>1, <2>2
<1>. QED  BY <1>5, <1>6

LEMMA GetImplements ==
  ASSUME RowsInv(page), NEW slot_id \in -1 .. page.num, Get(slot_id)
  PROVE  RowsInv(page)' /\ Rows!Get(slot_id)
<1>1. PageInv(page) /\ page' = page
  BY DEF RowsInv, Get
<1>2. /\ Rows!IsLive(slot_id) = IsLive(page, slot_id) /\ slot_id \in Int
      /\ IsLive(page, slot_id) =>
           slot_id % W16 = slot_id /\ slot_id + 1 \in DOMAIN RowsIn(page)
  BY <1>1, SameSlots
<1>3. IsLive(page, slot_id) =>
        RowsIn(page)[slot_id + 1].bytes = BytesAt(page, page.slots[slot_id + 1])
  BY <1>2 DEF RowsIn
<1>4. GetTuple(page, slot_id) =
        IF Rows!IsLive(slot_id) THEN RowsIn(page)[slot_id + 1].bytes ELSE Null
  BY <1>2, <1>3 DEF GetTuple
<1>5. Rows!Get(slot_id)
  BY <1>1, <1>4 DEF Rows!Get, Rows!Answers, Get, Answers
<1>. QED  BY <1>1, <1>5

(* The page implements RowPage, of any size and for rows of any length,    *)
(* call by call: what InsertTuple stores is what was given it, a slot id   *)
(* names its row for good, getTuple and deleteTuple answer for the slot    *)
(* they were asked, and a row is refused only when it and its slot do not  *)
(* fit.                                                                    *)
THEOREM PageIsAListOfRows == Spec => ImplementsRowPage
<1>1. Init => RowsInv(page) /\ Rows!Init
  <2>. SUFFICES ASSUME Init  PROVE RowsInv(page) /\ Rows!Init
    OBVIOUS
  <2>1. PageInv(page)
    BY InitialPages DEF Init
  <2>2. /\ page.num = 0
        /\ (page.start = 0 /\ page.end = 0) \/ (page.start = PAGE_SIZE /\ page.end = HEADER)
        /\ \A o \in Offsets : page.bytes[o] = Zero
    <3>1. CASE page = ZeroedPage
      BY <3>1 DEF ZeroedPage
    <3>2. CASE page = Formatted
      BY <3>2 DEF Formatted, ZeroedPage
    <3>. QED  BY <3>1, <3>2 DEF Init
  <2>3. RowsIn(page) = << >>
    BY <2>2 DEF RowsIn
  <2>4. page.start - page.end \in {0, PAGE_SIZE - HEADER}
    BY <2>2, Sizes
  <2>. QED  BY <2>1, <2>2, <2>3, <2>4 DEF Init, RowsInv, GapIsZero, Rows!Init
<1>2. RowsInv(page) /\ [Next]_vars => RowsInv(page)' /\ [Rows!Next]_(Rows!vars)
  <2>. SUFFICES ASSUME RowsInv(page), [Next]_vars
                PROVE  RowsInv(page)' /\ [Rows!Next]_(Rows!vars)
    OBVIOUS
  <2>1. ASSUME NEW d \in Data, NEW n \in Length, Insert(d, n)
        PROVE  RowsInv(page)' /\ Rows!Next
    BY <2>1, InsertImplements DEF Rows!Next
  <2>2. ASSUME NEW slot_id \in -1 .. page.num, Delete(slot_id)
        PROVE  RowsInv(page)' /\ Rows!Next
    BY <2>2, DeleteImplements, SameSlots DEF Rows!Next, RowsInv
  <2>3. ASSUME NEW slot_id \in -1 .. page.num, Get(slot_id)
        PROVE  RowsInv(page)' /\ Rows!Next
    BY <2>3, GetImplements, SameSlots DEF Rows!Next, RowsInv
  <2>4. CASE UNCHANGED vars
    BY <2>4 DEF vars, Rows!vars
  <2>. QED  BY <2>1, <2>2, <2>3, <2>4 DEF Next
<1>. QED  BY <1>1, <1>2, PTL DEF Spec, ImplementsRowPage, Rows!Spec
=============================================================================
