---------------------------- MODULE TupleMemory ----------------------------
(***************************************************************************)
(* Who owns the bytes of a Tuple (tuple.cpp).  A Tuple either allocated    *)
(* its bytes or points at bytes of somebody else's: a page in a frame, or  *)
(* another Tuple's.  Copies and assignments have to keep every allocated   *)
(* block with one owner, that frees it once.                               *)
(***************************************************************************)
EXTENDS Naturals, FiniteSets, Pointers

CONSTANTS
  Name,         \* the Tuple objects of a program
  Block,        \* the addresses new char[] can return
  Buffer,       \* the addresses of bytes that are no Tuple's
  Bytes,        \* what a block or buffer can contain
  MAX_THROWS    \* bound on the constructors that throw

ASSUME TupleMemoryAssumption ==
  /\ Block \cap (Buffer \cup {nullptr}) = {}
  /\ MAX_THROWS \in Nat

VARIABLES
  tuple,    \* the live Tuples: data_ and allocated_ of each
  heap,     \* the live blocks, with their contents
  buffer,   \* the contents of the buffers
  meant,    \* the bytes each of them was given
  throws    \* constructors that threw so far

memory_vars == <<tuple, heap, buffer, meant, throws>>

Address == Block \cup Buffer \cup {nullptr}

Live == DOMAIN tuple

Owns(t) == tuple[t].allocated /\ tuple[t].data # nullptr

BytesAt(a) ==
  CASE a \in DOMAIN heap -> heap[a]
    [] a \in Buffer      -> buffer[a]
    [] OTHER             -> nullptr

(* A function with one more argument, or without some.                     *)
With(f, x, y) == [z \in DOMAIN f \cup {x} |-> IF z = x THEN y ELSE f[z]]

Without(f, S) == [z \in DOMAIN f \ S |-> f[z]]

-----------------------------------------------------------------------------
MemoryInit ==
  /\ tuple = [t \in {} |-> nullptr]
  /\ heap = [b \in {} |-> nullptr]
  /\ buffer \in [Buffer -> Bytes]
  /\ meant = [t \in {} |-> nullptr]
  /\ throws = 0

Holds(t, address, allocated, bytes) ==
  /\ tuple' = With(tuple, t, [data |-> address, allocated |-> allocated])
  /\ meant' = With(meant, t, bytes)

(* Tuple(), Tuple(values, schema) and Tuple(data, size).                   *)

Default(t) ==
  /\ t \notin Live
  /\ Holds(t, nullptr, FALSE, nullptr)
  /\ UNCHANGED <<heap, buffer, throws>>

Serialize(t) ==
  /\ t \notin Live
  /\ \E b \in Block \ DOMAIN heap, bytes \in Bytes :
       /\ heap' = With(heap, b, bytes)
       /\ Holds(t, b, TRUE, bytes)
  /\ UNCHANGED <<buffer, throws>>

(* A value of the wrong type: the exception leaves the constructor after   *)
(* the allocation, and no destructor runs.                                 *)
SerializeThrows ==
  /\ throws < MAX_THROWS
  /\ \E b \in Block \ DOMAIN heap, bytes \in Bytes : heap' = With(heap, b, bytes)
  /\ throws' = throws + 1
  /\ UNCHANGED <<tuple, buffer, meant>>

Wrap(t) ==
  /\ t \notin Live
  /\ \E a \in Buffer \cup DOMAIN heap : Holds(t, a, FALSE, BytesAt(a))
  /\ UNCHANGED <<heap, buffer, throws>>

(* The blocks left once t has freed its own.                               *)
Freed(t) == IF Owns(t) THEN Without(heap, {tuple[t].data}) ELSE heap

Destruct(t) ==
  /\ t \in Live
  /\ heap' = Freed(t)
  /\ tuple' = Without(tuple, {t})
  /\ meant' = Without(meant, {t})
  /\ UNCHANGED <<buffer, throws>>

(* What copy constructor and assignment share: t gets a block of its own   *)
(* if u has one, and u's pointer otherwise.                                *)
TakeCopy_Shallow(t, u, h) ==   \* faulty variant
  /\ heap' = h
  /\ Holds(t, tuple[u].data, tuple[u].allocated, BytesAt(tuple[u].data))

TakeCopy(t, u, h) ==
  IF Owns(u)
  THEN \E b \in Block \ DOMAIN h :
         /\ heap' = With(h, b, heap[tuple[u].data])
         /\ Holds(t, b, TRUE, heap[tuple[u].data])
  ELSE /\ heap' = h
       /\ Holds(t, tuple[u].data, tuple[u].allocated, BytesAt(tuple[u].data))

Copy(t, u) ==
  /\ t \notin Live /\ u \in Live
  /\ TakeCopy(t, u, heap)
  /\ UNCHANGED <<buffer, throws>>

(* Assigned to itself a Tuple stays as it is.                              *)
BeforeAssign_Kept(t) == heap   \* faulty variant

BeforeAssign(t) == Freed(t)

Assign(t, u) ==
  /\ {t, u} \subseteq Live
  /\ t # u
  /\ TakeCopy(t, u, BeforeAssign(t))
  /\ UNCHANGED <<buffer, throws>>

(* The pool reuses a frame.                                                *)
Overwrite(x) ==
  /\ \E bytes \in Bytes : buffer' = [buffer EXCEPT ![x] = bytes]
  /\ UNCHANGED <<tuple, heap, meant, throws>>

MemoryNext ==
  \/ \E t \in Name :
       \/ Default(t) \/ Serialize(t) \/ Wrap(t) \/ Destruct(t)
       \/ \E u \in Name : Copy(t, u) \/ Assign(t, u)
  \/ SerializeThrows
  \/ \E x \in Buffer : Overwrite(x)

MemorySpec == MemoryInit /\ [][MemoryNext]_memory_vars
-----------------------------------------------------------------------------
(* Properties.                                                             *)

(* Every live Tuple has an address, and memory has contents.               *)
MemoryTypeOK ==
  /\ Live \subseteq Name
  /\ \A t \in Live : tuple[t] \in [data : Address, allocated : BOOLEAN]
  /\ DOMAIN meant = Live
  /\ DOMAIN heap \subseteq Block
  /\ buffer \in [Buffer -> Bytes]
  /\ throws \in 0 .. MAX_THROWS

(* "True if we dynamically allocated data_ and own it" (tuple.h:17): the   *)
(* block of a Tuple that says so is live and nobody else's, so it is freed *)
(* once, whatever copies and assignments came before.                      *)
EveryOwnerIsAlone ==
  \A t \in Live : Owns(t) =>
    /\ tuple[t].data \in DOMAIN heap
    /\ \A u \in Live \ {t} : Owns(u) => tuple[u].data # tuple[t].data

(* A Tuple that owns its bytes has the bytes it was given, for as long as  *)
(* it lives: no copy, assignment or reuse of an address touches them.      *)
OwnedBytesAreKept ==
  \A t \in Live : Owns(t) => BytesAt(tuple[t].data) = meant[t]

(* A constructor that throws leaks its block, and nothing else ever does.  *)
Orphans == {b \in DOMAIN heap : \A t \in Live : Owns(t) => tuple[t].data # b}

OnlyThrowsLeak == Cardinality(Orphans) = throws
=============================================================================
