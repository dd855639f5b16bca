------------------------------ MODULE RowTable ------------------------------
(***************************************************************************)
(* What the command loop promises its user: a table of rows under their    *)
(* ids.  "Success" means the row is in the table; a SELECT shows a row of  *)
(* its id and says that there is none only when there is none.  Pages,     *)
(* slots, the index and pins do not appear: IrisDB implements this.        *)
(*                                                                         *)
(* With one reservation: of a row too long for a page it keeps the id but  *)
(* no text, reports a success, and a SELECT says that it was deleted.      *)
(***************************************************************************)
CONSTANTS
  Id,
  Row, LongRow,   \* the texts a page can hold, and those too long for one
  NoRow,          \* the text of an id that has none
  NoAnswer

VARIABLES
  table,    \* a set of [id, row] records
  answer    \* what the last command printed

vars == <<table, answer>>

Init == table = {} /\ answer = NoAnswer

Store(r) ==
  /\ table' = table \cup {r}
  /\ UNCHANGED answer

Kept(row) == IF row \in LongRow THEN NoRow ELSE row

Success(id, row) ==
  /\ [id |-> id, row |-> Kept(row)] \in table
  /\ answer' = [op |-> "INSERT", id |-> id, row |-> row]
  /\ UNCHANGED table

Show(r) ==
  /\ r \in table
  /\ answer' = [op |-> "SELECT", id |-> r.id, row |-> r.row]
  /\ UNCHANGED table

ShowDeleted(id) ==
  /\ [id |-> id, row |-> NoRow] \in table
  /\ answer' = [op |-> "DELETED", id |-> id]
  /\ UNCHANGED table

NotFound(id) ==
  /\ \A r \in table : r.id # id
  /\ answer' = [op |-> "NOT FOUND", id |-> id]
  /\ UNCHANGED table

Command == answer' = NoAnswer /\ UNCHANGED table

(* The program ends; a table does not outlive it.                          *)
Restart == table' = {} /\ answer' = NoAnswer

Next ==
  \/ \E id \in Id :
       \/ NotFound(id)
       \/ Store([id |-> id, row |-> NoRow])
       \/ ShowDeleted(id)
       \/ \E row \in Row : LET r == [id |-> id, row |-> row] IN Store(r) \/ Show(r)
       \/ \E row \in Row \cup LongRow : Success(id, row)
  \/ Command
  \/ Restart

Spec == Init /\ [][Next]_vars
=============================================================================
