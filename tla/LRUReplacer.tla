---------------------------- MODULE LRUReplacer ----------------------------
(***************************************************************************)
(* LRUReplacer: a doubly-linked list of heap nodes between two sentinels,  *)
(* a hash map from frame id to node, and a count.  It implements LRUQueue. *)
(*                                                                         *)
(* Addr is the heap the nodes come from: `new Node` may return any address *)
(* not in use, so a pointer left behind in the map or in the list sooner   *)
(* or later points at a freed node or at another frame's node.             *)
(***************************************************************************)
EXTENDS Integers, FiniteSets, Pointers

CONSTANTS
  Frame,       \* the frame ids the pool may pass
  CAPACITY,    \* LRUReplacer::capacity
  Addr,        \* the addresses of the nodes between the sentinels
  head, tail   \* the sentinels

ASSUME ReplacerAssumption ==
  /\ Frame \subseteq Nat
  /\ CAPACITY \in Nat
  /\ IsFiniteSet(Addr)
  /\ head # tail /\ Addr \cap {head, tail} = {}
  /\ nullptr \notin Addr \cup {head, tail}

VARIABLES
  next, prev,  \* Node::next and Node::prev of every address
  frame_id,    \* Node::frame_id of every address
  live,        \* the addresses that are allocated
  mp,          \* frame id -> its node, nullptr for a frame that is no key
  curr_size,   \* LRUReplacer::curr_size
  reply        \* the last call with what it returned, see LRUQueue

structures == <<next, prev, frame_id, live, mp, curr_size>>

vars == <<structures, reply>>

Node    == Addr \cup {head, tail}
NoFrame == -1

-----------------------------------------------------------------------------
Init ==
  /\ next = [a \in Node |-> IF a = head THEN tail ELSE nullptr]
  /\ prev = [a \in Node |-> IF a = tail THEN head ELSE nullptr]
  /\ frame_id = [a \in Node |-> NoFrame]
  /\ live = {head, tail}
  /\ mp = [f \in Frame |-> nullptr]
  /\ curr_size = 0
  /\ reply = [turn |-> 0, answer |-> [op |-> "none"]]

Answers(answer) == reply' = [turn |-> 1 - reply.turn, answer |-> answer]

IsKey(f) == mp[f] # nullptr

(* mp.erase, deleteNode and delete of the node of one frame.               *)
Erase_Forgotten(f) == UNCHANGED mp   \* faulty variant

Erase(f) == mp' = [mp EXCEPT ![f] = nullptr]

DeleteNode_Uncounted(temp) ==        \* faulty variant
  /\ next' = [next EXCEPT ![prev[temp]] = next[temp]]
  /\ prev' = [prev EXCEPT ![next[temp]] = prev[temp]]
  /\ live' = live \ {temp}
  /\ UNCHANGED <<frame_id, curr_size>>

DeleteNode(temp) ==
  /\ next' = [next EXCEPT ![prev[temp]] = next[temp]]
  /\ prev' = [prev EXCEPT ![next[temp]] = prev[temp]]
  /\ live' = live \ {temp}
  /\ curr_size' = curr_size - 1
  /\ UNCHANGED frame_id

(* new Node(f), and putNode behind the head.                               *)
PutNode_Uncounted(temp, f) ==        \* faulty variant
  LET adjNode == next[head] IN
  /\ next' = [next EXCEPT ![head] = temp, ![temp] = adjNode]
  /\ prev' = [prev EXCEPT ![temp] = head, ![adjNode] = temp]
  /\ frame_id' = [frame_id EXCEPT ![temp] = f]
  /\ live' = live \cup {temp}
  /\ UNCHANGED curr_size

PutNode_HeadKept(temp, f) ==         \* faulty variant: head->next is not set
  /\ next' = [next EXCEPT ![temp] = next[head]]
  /\ prev' = [prev EXCEPT ![temp] = head, ![next[head]] = temp]
  /\ frame_id' = [frame_id EXCEPT ![temp] = f]
  /\ live' = live \cup {temp}
  /\ curr_size' = curr_size + 1

PutNode(temp, f) ==
  LET adjNode == next[head] IN
  /\ next' = [next EXCEPT ![head] = temp, ![temp] = adjNode]
  /\ prev' = [prev EXCEPT ![temp] = head, ![adjNode] = temp]
  /\ frame_id' = [frame_id EXCEPT ![temp] = f]
  /\ live' = live \cup {temp}
  /\ curr_size' = curr_size + 1

-----------------------------------------------------------------------------
(* The operations, each with its early return.                             *)

VictimNode_Newest == next[head]   \* faulty variant

VictimNode == prev[tail]

(* An empty replacer leaves *fid alone.                                    *)
Victim ==
  \/ LET fid == frame_id[VictimNode] IN
     /\ curr_size # 0
     /\ Erase(fid)
     /\ DeleteNode(VictimNode)
     /\ Answers([op |-> "Victim", ok |-> TRUE, fid |-> fid])
  \/ /\ curr_size = 0
     /\ Answers([op |-> "Victim", ok |-> FALSE, fid |-> NoFrame])
     /\ UNCHANGED structures

Pin(fid) ==
  /\ \/ IsKey(fid) /\ Erase(fid) /\ DeleteNode(mp[fid])
     \/ ~IsKey(fid) /\ UNCHANGED structures
  /\ Answers([op |-> "Pin", fid |-> fid])

Unpin(fid) ==
  /\ \/ /\ ~IsKey(fid)
        /\ curr_size < CAPACITY
        /\ \E temp \in Addr \ live :
             /\ PutNode(temp, fid)
             /\ mp' = [mp EXCEPT ![fid] = temp]
     \/ (IsKey(fid) \/ curr_size >= CAPACITY) /\ UNCHANGED structures
  /\ Answers([op |-> "Unpin", fid |-> fid])

(* The n-th node from the head.                                            *)
Successor(a) == IF a \in Node THEN next[a] ELSE nullptr

NodeAt[n \in Nat] == IF n = 0 THEN head ELSE Successor(NodeAt[n - 1])

(* The destructor frees every node it finds walking from the head.         *)
Destroy ==
  /\ live' = live \ {NodeAt[n] : n \in 0 .. Cardinality(Addr) + 1}
  /\ UNCHANGED <<next, prev, frame_id, mp, curr_size, reply>>

IsAlive == head \in live

Next == IsAlive /\ (Victim \/ Destroy \/ \E f \in Frame : Pin(f) \/ Unpin(f))

Spec == Init /\ [][Next]_vars

-----------------------------------------------------------------------------
(* Every variable has its type.                                            *)
TypeOK ==
  /\ next \in [Node -> Node \cup {nullptr}]
  /\ prev \in [Node -> Node \cup {nullptr}]
  /\ frame_id \in [Node -> Frame \cup {NoFrame}]
  /\ live \subseteq Node
  /\ mp \in [Frame -> Addr \cup {nullptr}]
  /\ curr_size \in Nat
  /\ reply \in
       [turn : {0, 1},
        answer : {[op |-> "none"]}
                 \cup [op : {"Victim"}, ok : BOOLEAN, fid : Frame \cup {NoFrame}]
                 \cup [op : {"Pin", "Unpin"}, fid : Frame]]

(* No pointer the code follows dangles: the map points at the allocated    *)
(* node of its frame, and both links of an allocated node lead to one.     *)
NoDanglingPointer ==
  IsAlive =>
    /\ \A f \in Frame : IsKey(f) => mp[f] \in live /\ frame_id[mp[f]] = f
    /\ \A a \in live \ {tail} : next[a] \in live /\ prev[next[a]] = a
    /\ \A a \in live \ {head} : prev[a] \in live /\ next[prev[a]] = a

(* The map, the list and the count agree: every node between the sentinels *)
(* is the one its frame's map entry points at, and curr_size counts them.  *)
MapListAndCountAgree ==
  IsAlive =>
    /\ \A a \in live \cap Addr : frame_id[a] \in Frame /\ mp[frame_id[a]] = a
    /\ curr_size = Cardinality(live \cap Addr)

(* Nothing is leaked: the destructor reaches every allocated node.         *)
DestructorFreesEverything == IsAlive \/ live = {}

(* The list read from the head is the queue LRUQueue specifies, call by    *)
(* call: Victim evicts and returns the frame that was unpinned the longest *)
(* ago and fails only when none is left, Pin takes out the frame it is     *)
(* given and no other, and Unpin of a frame neither tracked nor one too    *)
(* many is never dropped.                                                  *)
FrameAt(n) == IF NodeAt[n] \in Node THEN frame_id[NodeAt[n]] ELSE NoFrame

Queue == INSTANCE LRUQueue WITH order <- [n \in 1 .. curr_size |-> FrameAt(n)]

ImplementsQueue == Queue!Spec
=============================================================================
