----------------------------- MODULE Dictionary -----------------------------
(***************************************************************************)
(* What the B+ tree index promises: a growing set of (key, RecordID)       *)
(* entries, where a call answers what the entries say at that moment.  An  *)
(* insert that returns true has added its entry and one that returns false *)
(* has not; a look-up finds a value of its key if there is one.  Pages,    *)
(* splits and pins do not appear: BPlusTree implements this.               *)
(***************************************************************************)
CONSTANTS Key, RecordID, NoReply

VARIABLES
  entries,   \* a set of [key, value] records
  reply      \* what the last call answered

vars == <<entries, reply>>

IsKey(k) == \E e \in entries : e.key = k

Init == entries = {} /\ reply = NoReply

Insert(e) ==
  /\ entries' = entries \cup {e}
  /\ reply' = NoReply

AnswerInsert(e) ==
  /\ reply' = [op |-> "Insert", entry |-> e, ok |-> e \in entries]
  /\ UNCHANGED entries

AnswerFound(e) ==
  /\ e \in entries
  /\ reply' = [op |-> "GetValue", entry |-> e, ok |-> TRUE]
  /\ UNCHANGED entries

AnswerMissing(k) ==
  /\ ~IsKey(k)
  /\ reply' = [op |-> "GetValue", key |-> k, ok |-> FALSE]
  /\ UNCHANGED entries

Call == reply' = NoReply /\ UNCHANGED entries

Next ==
  \/ \E k \in Key : AnswerMissing(k) \/ \E v \in RecordID :
       LET e == [key |-> k, value |-> v] IN
       Insert(e) \/ AnswerInsert(e) \/ AnswerFound(e)
  \/ Call

Spec == Init /\ [][Next]_vars
=============================================================================
