------------------------------- MODULE IrisDB -------------------------------
(***************************************************************************)
(* The command loop (main.cpp): INSERT puts a row into the current data    *)
(* page, which it keeps pinned, and the row's RecordID into the index;     *)
(* SELECT looks the id up and shows the row.  The index is BPlusTree, its  *)
(* statements executed here one by one; data pages are SlottedPages in the *)
(* same pool, next to the nodes of the tree.                               *)
(*                                                                         *)
(* The text of a row is known by its id and length, the NUL included.      *)
(***************************************************************************)
EXTENDS Integers, Sequences, FiniteSets

CONSTANTS
  Id,            \* the ids the user inserts and selects
  Length,        \* the lengths of the rows, with their NUL
  PAGE_SIZE, HEADER, SLOT, W16,   \* see SlottedPage
  LEAF_MAX, INTERNAL_MAX,         \* see BPlusNode
  POOL_SIZE,     \* the number of frames
  MAX_PAGES,     \* bound on the page ids
  MAX_INSERTS,   \* bound: the INSERT commands
  MAX_RESTARTS,  \* bound: the times the program is started again
  UNIQUE_KEYS,   \* whether the user gives an id only once
  Zero, Used, Null, NoReply,
  Unknown        \* text from behind the end of a page

ASSUME IrisDBAssumption ==
  /\ Id \subseteq Int /\ IsFiniteSet(Id)
  /\ {LEAF_MAX, INTERNAL_MAX} \subseteq Nat \ {0, 1}
  /\ {POOL_SIZE, MAX_PAGES, MAX_INSERTS} \subseteq Nat
  /\ UNIQUE_KEYS \in BOOLEAN

VARIABLES
  root_page_id, contents, num_pages, pins, touched, stack, crashed, reply,
                 \* of BPlusTree and its pool
  current,       \* current_data_page_id
  answer,        \* what the last command printed
  inserts, restarts

pool == <<contents, num_pages, pins, touched>>
vars == <<root_page_id, pool, stack, crashed, reply, current, answer, inserts,
          restarts>>

NoPage == -1

Text(id, length) == [id |-> id, length |-> length]

Rows ==
  INSTANCE SlottedPage WITH
    Data <- {Text(id, n) : id \in Id, n \in Length},
    page <- Null, reply <- NoReply

RecordIDs == [page : 0 .. MAX_PAGES - 1, slot : -1 .. PAGE_SIZE]

(* The page the loop holds is the only one pinned outside the tree.        *)
Tree ==
  INSTANCE BPlusTree WITH
    Key <- Id, RecordID <- RecordIDs, MAX_DATA_PAGES <- 0,
    held <- IF current = NoPage THEN {} ELSE {current}

Idle == stack = <<>> /\ ~crashed

Executing(do) == stack # <<>> /\ ~crashed /\ Head(stack).do = do

Then(statements) == stack' = statements \o Tail(stack)

-----------------------------------------------------------------------------
(* Data pages.                                                             *)

DataPage(pg) == [type |-> "data", rows |-> pg]

RowsOf(p) == contents[p].rows

(* A char* into a page, as a C string: the bytes up to the first NUL.      *)
IsNul(byte) == byte \notin {Zero, Used} /\ byte[2] = byte[1].length - 1

StringAt(pg, offset) ==
  LET nul == {o \in Rows!Offsets : o >= offset /\ (pg.bytes[o] = Zero \/ IsNul(pg.bytes[o]))}
      end == CHOOSE o \in nul : \A other \in nul : o <= other
  IN IF nul = {} THEN Unknown
     ELSE [k \in 0 .. end - offset |-> pg.bytes[offset + k]]

String(id, length) == [k \in 0 .. length - 1 |-> <<Text(id, length), k>>]

(* What getTuple finds at a RecordID: a string, or Null for nullptr.       *)
StringOf(rid) ==
  LET pg == RowsOf(rid.page) IN
  IF Rows!IsLive(pg, rid.slot)
  THEN StringAt(pg, pg.slots[(rid.slot % W16) + 1].offset)
  ELSE Null

-----------------------------------------------------------------------------
(* Statements of the loop; those of the tree are BPlusTree's.              *)

OpenPage == [do |-> "OpenPage"]

(* StoreRow, StoreInNewPage, IndexRow and Acknowledge.                     *)
ForRow(do, id, length) == [do |-> do, id |-> id, length |-> length]

ShowRow(id) == [do |-> "ShowRow", id |-> id]

Init ==
  /\ current = NoPage
  /\ Tree!Init
  /\ answer = NoReply
  /\ restarts = 0

(* The commands.                                                           *)

InsertCommand(id, length) ==
  /\ Idle
  /\ inserts < MAX_INSERTS
  /\ UNIQUE_KEYS => ~Tree!IsStored(id)
  /\ inserts' = inserts + 1
  /\ answer' = NoReply
  /\ stack' = (IF current = NoPage THEN <<OpenPage>> ELSE <<>>)
              \o <<ForRow("StoreRow", id, length)>>
  /\ UNCHANGED <<root_page_id, pool, crashed, reply, current, restarts>>

SelectCommand(id) ==
  /\ Idle
  /\ answer' = NoReply
  /\ stack' = <<Tree!CallGetValue(id), ShowRow(id)>>
  /\ UNCHANGED <<root_page_id, pool, crashed, reply, current, inserts, restarts>>

(* EXIT, or a process that dies in the middle of a command, and the next   *)
(* start.  The root's id is gone with the process, so no page of its time  *)
(* is read again, whatever the file kept of it: they are blank here.       *)
Restart ==
  /\ restarts < MAX_RESTARTS
  /\ restarts' = restarts + 1
  /\ root_page_id' = NoPage
  /\ num_pages' \in 0 .. num_pages
  /\ contents' = [p \in Tree!PageId |-> Tree!BlankPage]
  /\ pins' = [p \in Tree!PageId |-> 0]
  /\ touched' = {}
  /\ stack' = <<>>
  /\ crashed' = FALSE
  /\ reply' = NoReply
  /\ current' = NoPage
  /\ answer' = NoReply
  /\ UNCHANGED inserts

-----------------------------------------------------------------------------
(* The statements.                                                         *)

DoOpenPage ==
  /\ Executing("OpenPage")
  /\ IF Tree!Pool!HasRoom
     THEN /\ Tree!NewPage([contents EXCEPT ![num_pages] = DataPage(Rows!Formatted)])
          /\ current' = num_pages
          /\ Then(<<>>)
          /\ UNCHANGED root_page_id
     ELSE Tree!Crash /\ UNCHANGED current

Store(id, length) ==
  /\ Tree!Assign([contents EXCEPT ![current].rows =
                    Rows!InsertTuple(@, Text(id, length), length)])
  /\ Then(<<ForRow("IndexRow", id, length)>>)

(* A full page is given back and a new one opened; the second insert is    *)
(* not tested.                                                             *)
NextPage_Clean(id, length) ==        \* faulty variant
  <<Tree!UnpinPage(current, FALSE), OpenPage, ForRow("StoreInNewPage", id, length)>>

NextPage_SamePage(id, length) ==     \* faulty variant
  <<ForRow("StoreRow", id, length)>>

NextPage(id, length) ==
  <<Tree!UnpinPage(current, TRUE), OpenPage, ForRow("StoreInNewPage", id, length)>>

DoStoreRow ==
  LET s == Head(stack) IN
  /\ Executing("StoreRow")
  /\ \/ /\ Rows!Inserts(RowsOf(current), s.length)
        /\ Store(s.id, s.length)
     \/ /\ ~Rows!Inserts(RowsOf(current), s.length)
        /\ Then(NextPage(s.id, s.length))
        /\ UNCHANGED <<contents, touched>>
  /\ UNCHANGED <<root_page_id, num_pages, pins, crashed, current>>

DoStoreInNewPage ==
  LET s == Head(stack) IN
  /\ Executing("StoreInNewPage")
  /\ Store(s.id, s.length)
  /\ UNCHANGED <<root_page_id, num_pages, pins, crashed, current>>

(* The slot of the row just stored is the last one of the page.            *)
LastSlot_Next(pg) == pg.num   \* faulty variant

LastSlot(pg) == pg.num - 1

DoIndexRow ==
  LET s == Head(stack)
      rid == [page |-> current, slot |-> LastSlot(RowsOf(current))]
  IN
  /\ Executing("IndexRow")
  /\ Then(<<Tree!CallInsert(s.id, rid), ForRow("Acknowledge", s.id, s.length)>>)
  /\ UNCHANGED <<root_page_id, pool, crashed, current>>

(* Whatever tree->Insert returned.                                         *)
DoAcknowledge ==
  LET s == Head(stack) IN
  /\ Executing("Acknowledge")
  /\ answer' = [op |-> "INSERT", id |-> s.id, row |-> String(s.id, s.length)]
  /\ Then(<<>>)
  /\ UNCHANGED <<root_page_id, pool, crashed, reply, current, inserts, restarts>>

Shown(id, row) ==
  IF row = Null THEN [op |-> "DELETED", id |-> id]
                ELSE [op |-> "SELECT", id |-> id, row |-> row]

DoShowRow ==
  LET s   == Head(stack)
      rid == reply.entry.value
  IN
  /\ Executing("ShowRow")
  /\ \/ /\ ~reply.ok
        /\ answer' = [op |-> "NOT FOUND", id |-> s.id]
        /\ Then(<<>>)
        /\ UNCHANGED <<root_page_id, pool, crashed>>
     \/ /\ reply.ok
        /\ Tree!FetchPage(rid.page, contents)
        /\ answer' = Shown(s.id, StringOf(rid))
        /\ Then(<<Tree!UnpinPage(rid.page, FALSE)>>)
        /\ UNCHANGED root_page_id
     \/ /\ reply.ok
        /\ ~Tree!Pool!CanPin(rid.page)
        /\ Tree!Crash
        /\ UNCHANGED answer
  /\ UNCHANGED <<reply, current, inserts, restarts>>

Step ==
  \/ /\ UNCHANGED <<current, answer, restarts>>
     /\ Tree!Step
  \/ /\ DoOpenPage \/ DoStoreRow \/ DoStoreInNewPage \/ DoIndexRow
     /\ UNCHANGED <<reply, answer, inserts, restarts>>
  \/ DoAcknowledge
  \/ DoShowRow

Next ==
  \/ Step
  \/ \E id \in Id : SelectCommand(id) \/ \E length \in Length : InsertCommand(id, length)
  \/ Restart

(* A command that was read is executed: there is nothing to wait for.      *)
Spec == Init /\ [][Next]_vars /\ WF_vars(Step)
-----------------------------------------------------------------------------
(* Properties.                                                             *)

(* The rows the index leads to.                                            *)
Table == {[id |-> e.key, row |-> StringOf(e.value)] : e \in Tree!Entries}

(* The loop implements RowTable, with the tree, the slotted pages and the  *)
(* pins in between: an INSERT reported as a success has stored and indexed *)
(* its row if a page can hold it, a SELECT shows the text of its own id    *)
(* however many pages, splits and rows came since, no row is lost or       *)
(* changes, and a row too long for a page harms no other.                  *)
TooLong == {n \in Length : ~Rows!Inserts(Rows!Formatted, n)}

Promise ==
  INSTANCE RowTable WITH
    Row <- {String(id, n) : id \in Id, n \in Length \ TooLong},
    LongRow <- {String(id, n) : id \in Id, n \in TooLong},
    NoRow <- Null, NoAnswer <- NoReply, table <- Table

ImplementsRowTable == Promise!Spec

(* What the pool asks of the loop, which keeps current_data_page, a raw    *)
(* pointer into a frame, over every command: between commands that page is *)
(* pinned once and nothing else is, so NewPage, whose result is used       *)
(* without a test (main.cpp:46, 57), finds a frame; and a changed page is  *)
(* given back as dirty.                                                    *)
PinsAndDirtyBitsAreRight ==
  /\ Idle => \A p \in Tree!PageId : pins[p] = IF p = current THEN 1 ELSE 0
  /\ \A p \in Tree!PageId : pins[p] = 0 => p \notin touched

(* Every command comes to its end, and none by a crash: in this number of  *)
(* frames the results of NewPage and FetchPage that the loop and the tree  *)
(* use without a test are never null.                                      *)
EveryCommandEnds == (stack # <<>>) ~> (stack = <<>>)
=============================================================================
