------------------------------ MODULE RowPage ------------------------------
(***************************************************************************)
(* What a slotted page promises: a list of rows that only grows, each row  *)
(* named by its position for good and reading back as it was inserted      *)
(* until it is marked deleted, and a budget of bytes of which a row takes  *)
(* its length and one slot.  What was called and what it returned is       *)
(* recorded.  Offsets, the two ends of the free space and 16-bit fields do *)
(* not appear, except that lengths arrive modulo W16: SlottedPage          *)
(* implements this.                                                        *)
(***************************************************************************)
EXTENDS Integers, Sequences

CONSTANTS
  CAPACITY,   \* the bytes of an empty page that rows and slots can take
  SLOT,       \* the bytes of a slot
  W16,        \* 2^16: a length is passed as a uint16_t
  Data, Length,
  Null

VARIABLES
  rows,    \* the rows, [bytes, deleted] records
  free,    \* the bytes left
  reply    \* the last call with what it returned, and whose turn it is

vars == <<rows, free, reply>>

Row(d, n) == [bytes |-> [k \in 0 .. n - 1 |-> <<d, k>>], deleted |-> FALSE]

\* Slot 0 is the first row.
IsLive(slot_id) == slot_id + 1 \in DOMAIN rows /\ ~rows[slot_id + 1].deleted

(* The turn alternates: a call that returns what the last one did is not a *)
(* stuttering step.                                                        *)
Answers(answer) == reply' = [turn |-> 1 - reply.turn, answer |-> answer]

(* A page nobody formatted has no room at all.                             *)
Init ==
  /\ rows = <<>>
  /\ free \in {0, CAPACITY}
  /\ reply = [turn |-> 0, answer |-> Null]

Arriving(n) == n % W16

Fits(n) == SLOT + Arriving(n) <= free

Insert(d, n) ==
  /\ Answers([op |-> "insert", row |-> d, length |-> n, ok |-> Fits(n)])
  /\ \/ /\ Fits(n)
        /\ rows' = Append(rows, Row(d, Arriving(n)))
        /\ free' = free - SLOT - Arriving(n)
     \/ ~Fits(n) /\ UNCHANGED <<rows, free>>

Delete(slot_id) ==
  /\ Answers([op |-> "delete", slot |-> slot_id, ok |-> IsLive(slot_id)])
  /\ \/ IsLive(slot_id) /\ rows' = [rows EXCEPT ![slot_id + 1].deleted = TRUE]
     \/ ~IsLive(slot_id) /\ UNCHANGED rows
  /\ UNCHANGED free

Get(slot_id) ==
  /\ Answers([op   |-> "get", slot |-> slot_id,
              row  |-> IF IsLive(slot_id) THEN rows[slot_id + 1].bytes ELSE Null])
  /\ UNCHANGED <<rows, free>>

Next ==
  \/ \E d \in Data, n \in Length : Insert(d, n)
  \/ \E slot_id \in -1 .. Len(rows) : Delete(slot_id) \/ Get(slot_id)

Spec == Init /\ [][Next]_vars
=============================================================================
