------------------------------ MODULE LRUQueue ------------------------------
(***************************************************************************)
(* What the LRU replacer of the buffer pool promises: a queue of distinct  *)
(* frames, the most recently unpinned one first and the next victim last.  *)
(* What was called and what it returned is recorded, so that a call can    *)
(* only do what this call does to the queue.  LRUReplacer is the linked    *)
(* list and hash map that implement it; the buffer pool is specified over  *)
(* this queue.                                                             *)
(***************************************************************************)
EXTENDS Integers, Sequences, SequencesExt

CONSTANTS
  Frame,      \* the frame ids the replacer may be asked to track
  CAPACITY    \* LRUReplacer::capacity, the number of frames it can track

VARIABLES
  order,
  reply       \* the last call with what it returned, and whose turn it is

vars == <<order, reply>>

NoFrame == -1

-----------------------------------------------------------------------------
(* The operations as functions of the queue; the buffer pool composes them *)
(* with its own updates.                                                   *)

Victim(q) == Last(q)

AfterVictim(q) == Front(q)

AfterPin_Ignored(q, f) == q   \* faulty variant

AfterPin(q, f) == RemoveFirst(q, f)

AfterUnpin(q, f) ==
  IF Contains(q, f) \/ Len(q) >= CAPACITY THEN q ELSE Cons(f, q)

-----------------------------------------------------------------------------
(* The turn alternates: a call that returns what the last one did is not a *)
(* stuttering step.                                                        *)
Answers(answer) == reply' = [turn |-> 1 - reply.turn, answer |-> answer]

Init == order = <<>> /\ reply = [turn |-> 0, answer |-> [op |-> "none"]]

Evict ==
  \/ /\ order # <<>>
     /\ order' = AfterVictim(order)
     /\ Answers([op |-> "Victim", ok |-> TRUE, fid |-> Victim(order)])
  \/ /\ order = <<>>
     /\ Answers([op |-> "Victim", ok |-> FALSE, fid |-> NoFrame])
     /\ UNCHANGED order

Pin(f) ==
  /\ order' = AfterPin(order, f)
  /\ Answers([op |-> "Pin", fid |-> f])

Unpin(f) ==
  /\ order' = AfterUnpin(order, f)
  /\ Answers([op |-> "Unpin", fid |-> f])

Next == Evict \/ \E f \in Frame : Pin(f) \/ Unpin(f)

Spec == Init /\ [][Next]_vars
=============================================================================
