----------------------------- MODULE BPlusNode -----------------------------
(***************************************************************************)
(* The pages of the B+ tree, BPlusTreeLeafPage and BPlusTreeInternalPage,  *)
(* as records, and their operations as functions of the record.            *)
(*                                                                         *)
(* array holds the first size_ entries of array_.  An entry of a leaf is a *)
(* key and a RecordID; one of an internal page is a key and the page id of *)
(* a child, and the key of its first entry takes no part in a search.  A   *)
(* position of array_ is one less than the position of the sequence.       *)
(* page_id_ is the id of the page the record is in.                        *)
(***************************************************************************)
EXTENDS Integers, Sequences, SequencesExt

CONSTANTS
  LEAF_MAX,      \* max_size_ of a leaf, 339 in the code
  INTERNAL_MAX   \* max_size_ of an internal page, 509 in the code

ASSUME NodeAssumption ==
  /\ LEAF_MAX \in Nat \ {0, 1}
  /\ INTERNAL_MAX \in Nat \ {0, 1}

NoPage == -1

(* The bytes a new page has: type INVALID_INDEX_PAGE, everything zero.     *)
BlankPage == [type |-> "invalid", parent |-> 0, next |-> 0, array |-> <<>>]

Leaf_Unlinked(parent, next, array) ==   \* faulty variant
  [type |-> "leaf", parent |-> parent, next |-> NoPage, array |-> array]

Leaf(parent, next, array) ==
  [type |-> "leaf", parent |-> parent, next |-> next, array |-> array]

(* An internal page has no next_page_id_.                                  *)
Internal(parent, array) ==
  [type |-> "internal", parent |-> parent, next |-> NoPage, array |-> array]

Entry(key, value) == [key |-> key, value |-> value]

IsInternal(node) == node.type = "internal"

-----------------------------------------------------------------------------
(* The binary search all of them use: the first position from `first` on   *)
(* whose key is not below the key searched for, Goes(k) telling which keys *)
(* are.  After[n] is what n rounds of its loop leave of the range; there   *)
(* are never more rounds than entries.                                     *)
FirstNot(Goes(_), array, first) ==
  LET Round(s) ==
        LET mid == s.left + (s.right - s.left) \div 2 IN
        IF s.left >= s.right THEN s
        ELSE IF Goes(array[mid].key) THEN [s EXCEPT !.left = mid + 1]
        ELSE [s EXCEPT !.right = mid]
      After[n \in Nat] ==
        IF n = 0 THEN [left |-> first, right |-> Len(array) + 1] ELSE Round(After[n - 1])
  IN After[Len(array)].left

LowerBound(array, first, key) == FirstNot(LAMBDA k : k < key, array, first)

UpperBound(array, first, key) == FirstNot(LAMBDA k : k <= key, array, first)

-----------------------------------------------------------------------------
(* Leaf pages.                                                             *)

LeafHasRoom(leaf) == Len(leaf.array) # LEAF_MAX

LeafInsert(node, key, value) ==
  IF ~LeafHasRoom(node) THEN node
  ELSE [node EXCEPT !.array =
          InsertAt(@, LowerBound(@, 1, key), Entry(key, value))]

(* The position of the entry Lookup finds, 0 if it returns false.          *)
LeafLookup(node, key) ==
  LET Mid(s) == s.left + (s.right - s.left) \div 2
      Round(s) ==
        IF s.left > s.right THEN s
        ELSE CASE node.array[Mid(s)].key < key -> [s EXCEPT !.left = Mid(s) + 1]
               [] node.array[Mid(s)].key > key -> [s EXCEPT !.right = Mid(s) - 1]
               [] OTHER                        -> s
      After[n \in Nat] ==
        IF n = 0 THEN [left |-> 1, right |-> Len(node.array)] ELSE Round(After[n - 1])
      end == After[Len(node.array)]
  IN IF end.left > end.right THEN 0 ELSE Mid(end)

(* What MoveHalfTo leaves behind and what it moves, and KeyAt(0).          *)
Kept_OneMore(array, max) == SubSeq(array, 1, max \div 2 + 1)   \* faulty variant

Kept_OneLess(array, max) == SubSeq(array, 1, max \div 2 - 1)   \* faulty variant

Kept(array, max) == SubSeq(array, 1, max \div 2)

Moved(array, max) == SubSeq(array, max \div 2 + 1, Len(array))

MiddleKey_SizeUnset(node) == -1   \* faulty variant: KeyAt(0) of a page of size 0

MiddleKey(node) == node.array[1].key

-----------------------------------------------------------------------------
(* Internal pages.                                                         *)

InternalHasRoom(node) == Len(node.array) < INTERNAL_MAX

ChildFor_LowerBound(node, key) ==   \* faulty variant
  node.array[LowerBound(node.array, 2, key) - 1].value

ChildFor(node, key) == node.array[UpperBound(node.array, 2, key) - 1].value

InternalInsert(node, key, child) ==
  IF Len(node.array) = INTERNAL_MAX THEN node
  ELSE [node EXCEPT !.array =
          InsertAt(@, LowerBound(@, 2, key), Entry(key, child))]
=============================================================================
