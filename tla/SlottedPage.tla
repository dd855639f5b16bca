---------------------------- MODULE SlottedPage ----------------------------
(***************************************************************************)
(* SlottedPage (slotted_page.cpp): rows of any length in a page.  Slots    *)
(* grow up from the header and row bytes down from the end of the page.    *)
(*                                                                         *)
(* A page is the record of                                                 *)
(*   num, start, end   num_of_tuples, free_space_start and free_space_end  *)
(*   slots             the slots written so far, slot 0 at position 1      *)
(*   bytes             what each byte behind the header holds: Zero, Used  *)
(*                     (a byte of a slot), or <<d, k>>, byte k of the row d *)
(*   prev, next        the page links a heap table keeps in the header     *)
(* The operations are functions of it, for the modules that have such      *)
(* pages in a pool; Spec below is one page and its caller.                 *)
(***************************************************************************)
EXTENDS Integers, Sequences

CONSTANTS
  PAGE_SIZE,   \* 4096 in the code
  HEADER,      \* sizeof(PageHeader), 24
  SLOT,        \* sizeof(Slot), 5: slots are packed
  W16,         \* 2^16, the values of a uint16_t
  Data,        \* the rows
  Length,      \* the lengths inserted
  Zero, Used, Null

ASSUME SlottedPageAssumption ==
  /\ {PAGE_SIZE, HEADER, SLOT, W16} \subseteq Nat \ {0}
  /\ HEADER <= PAGE_SIZE
  /\ PAGE_SIZE < W16
  /\ Length \subseteq Nat

VARIABLES
  page,
  reply        \* the last call with what it returned, see RowPage

vars == <<page, reply>>

Offsets == HEADER .. PAGE_SIZE - 1

-----------------------------------------------------------------------------
(* The operations.                                                         *)

(* A page as NewPage makes it, every field zero, and one that Init wrote.  *)
ZeroedPage ==
  [num |-> 0, start |-> 0, end |-> 0, slots |-> <<>>,
   bytes |-> [o \in Offsets |-> Zero], prev |-> 0, next |-> 0]

Formatted == [ZeroedPage EXCEPT !.start = PAGE_SIZE, !.end = HEADER]

(* An int compared with a size_t: a negative one would pass for huge.      *)
HasRoom_NoSlot(pg, size) == pg.start - pg.end >= size   \* faulty variant

HasRoom_Spare(pg, size) ==              \* faulty variant: never the last byte
  pg.start < pg.end \/ pg.start - pg.end > SLOT + size

HasRoom(pg, size) ==
  pg.start < pg.end \/ pg.start - pg.end >= SLOT + size

SlotBytes(i) == HEADER + SLOT * i .. HEADER + SLOT * (i + 1) - 1

(* is_deleted is the last byte of a slot, and nobody assigns it FALSE.     *)
DeletedByte(pg, i) == pg.bytes[HEADER + SLOT * (i + 1) - 1] # Zero

RowBytes(slot) == slot.offset .. slot.offset + slot.size - 1

NewOffset_Over(pg, size) == (pg.start - size + 1) % W16    \* faulty variant

NewOffset(pg, size) == (pg.start - size) % W16

NewSlot(pg, size) ==
  [offset |-> NewOffset(pg, size), size |-> size, deleted |-> DeletedByte(pg, pg.num)]

BytesWith(pg, slot, d) ==
  [o \in Offsets |->
     CASE o \in RowBytes(slot)    -> <<d, o - slot.offset>>
       [] o \in SlotBytes(pg.num) -> Used
       [] OTHER                   -> pg.bytes[o]]

Placed(pg, d, size) ==
  [pg EXCEPT !.slots = Append(@, NewSlot(pg, size)),
             !.bytes = BytesWith(pg, NewSlot(pg, size), d),
             !.num   = @ + 1,
             !.start = (@ - size) % W16,
             !.end   = (@ + SLOT) % W16]

(* The length arrives as a uint16_t.                                       *)
Inserts(pg, length) == HasRoom(pg, length % W16)

InsertTuple(pg, d, length) ==
  IF Inserts(pg, length) THEN Placed(pg, d, length % W16) ELSE pg

(* So does a slot id: -1 is 65535 here.                                    *)
IsLive(pg, slot_id) ==
  /\ slot_id % W16 < pg.num
  /\ ~pg.slots[(slot_id % W16) + 1].deleted

DeleteTuple(pg, slot_id) ==
  IF IsLive(pg, slot_id)
  THEN [pg EXCEPT !.slots[(slot_id % W16) + 1].deleted = TRUE]
  ELSE pg

(* getTuple returns the address of the row; these are the bytes there, as  *)
(* many as the slot says.                                                  *)
BytesAt(pg, slot) ==
  [k \in 0 .. slot.size - 1 |->
     IF slot.offset + k \in Offsets THEN pg.bytes[slot.offset + k] ELSE Null]

GetTuple(pg, slot_id) ==
  IF IsLive(pg, slot_id) THEN BytesAt(pg, pg.slots[(slot_id % W16) + 1]) ELSE Null

-----------------------------------------------------------------------------
(* One page and its caller.  The first page of a heap table is used as     *)
(* NewPage made it.                                                        *)
Init ==
  /\ page \in {Formatted, ZeroedPage}
  /\ reply = [turn |-> 0, answer |-> Null]

Answers(answer) == reply' = [turn |-> 1 - reply.turn, answer |-> answer]

Insert(d, length) ==
  /\ page' = InsertTuple(page, d, length)
  /\ Answers([op |-> "insert", row |-> d, length |-> length, ok |-> Inserts(page, length)])

Delete(slot_id) ==
  /\ page' = DeleteTuple(page, slot_id)
  /\ Answers([op |-> "delete", slot |-> slot_id, ok |-> IsLive(page, slot_id)])

Get(slot_id) ==
  /\ Answers([op |-> "get", slot |-> slot_id, row |-> GetTuple(page, slot_id)])
  /\ UNCHANGED page

(* Callers name the slots they were given, the next one, and the -1 that a *)
(* failed insert into an empty page leaves them with.                      *)
Next ==
  \/ \E d \in Data, length \in Length : Insert(d, length)
  \/ \E slot_id \in -1 .. page.num : Delete(slot_id) \/ Get(slot_id)

Spec == Init /\ [][Next]_vars
-----------------------------------------------------------------------------
(* Properties.                                                             *)

(* Every field has its type, and the 16-bit ones hold offsets of the page. *)
TypeOK ==
  /\ page.num \in Nat
  /\ page.start \in 0 .. PAGE_SIZE
  /\ page.end \in 0 .. PAGE_SIZE
  /\ page.slots \in Seq([offset : HEADER .. PAGE_SIZE, size : 0 .. PAGE_SIZE,
                        deleted : BOOLEAN])
  /\ DOMAIN page.bytes = Offsets

(* Slots and rows, each growing towards the other, never meet, and every   *)
(* row has bytes of its own: InsertTuple compares the gap with the size of *)
(* row and slot once, and writes both without looking again.               *)
LayoutIsSound ==
  page.num > 0 =>
    /\ page.end = HEADER + SLOT * page.num
    /\ page.end <= page.start
    /\ \A i \in 1 .. page.num :
         RowBytes(page.slots[i]) \subseteq page.start .. PAGE_SIZE - 1
    /\ \A i, j \in 1 .. page.num :
         i # j => RowBytes(page.slots[i]) \cap RowBytes(page.slots[j]) = {}

\* The rows of a page in the order of their slots, as the slots point at them.
RowsIn(pg) ==
  [i \in 1 .. pg.num |-> [bytes   |-> BytesAt(pg, pg.slots[i]),
                         deleted |-> pg.slots[i].deleted]]

Rows ==
  INSTANCE RowPage WITH
    CAPACITY <- PAGE_SIZE - HEADER,
    rows     <- RowsIn(page),
    free     <- page.start - page.end

(* The page implements RowPage, call by call: a slot id names its row for  *)
(* good, a row reads back as it was inserted whatever was inserted or      *)
(* deleted since, and an insert is refused only when its bytes and its     *)
(* slot do not fit, where a length counts modulo 2^16.                     *)
ImplementsRowPage == Rows!Spec
=============================================================================
