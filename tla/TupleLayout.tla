---------------------------- MODULE TupleLayout ----------------------------
(***************************************************************************)
(* How a row of Values becomes the bytes of a Tuple under a Schema, and is *)
(* read back (schema.cpp, column.cpp, value.cpp, tuple.cpp).  Columns lie  *)
(* one behind the other, each as long as it was declared; an INTEGER takes *)
(* four bytes and a BOOLEAN one whatever was declared.                     *)
(***************************************************************************)
EXTENDS Integers, Sequences

CONSTANTS
  Columns,   \* the columns schemas are made of, [type, length] records
  Values,    \* the values rows are made of
  MAX_COLUMNS

INT_BYTES == 4    \* sizeof(int32_t)

(* A Value: its TypeId, is_null_, and the bytes of what value_ holds, an   *)
(* int32_t in four of them, a bool in one, a string without its NUL.       *)
Value(type, bytes) == [type |-> type, null |-> FALSE, bytes |-> bytes]

NullValue(type) == [type |-> type, null |-> TRUE, bytes |-> <<>>]

Column(type, length) == [type |-> type, length |-> length]

TypeId == {"INVALID", "BOOLEAN", "INTEGER", "VARCHAR"}

Byte == 0 .. 255

(* What the constructors of Value make, of strings without a NUL inside.   *)
RowValue ==
  [type : TypeId, null : {TRUE}, bytes : {<<>>}]
  \cup [type : {"INTEGER"}, null : {FALSE}, bytes : [1 .. INT_BYTES -> Byte]]
  \cup [type : {"BOOLEAN"}, null : {FALSE}, bytes : [1 .. 1 -> 0 .. 1]]
  \cup [type : {"VARCHAR"}, null : {FALSE}, bytes : Seq(Byte \ {0})]

ASSUME TupleLayoutAssumption ==
  /\ Columns \subseteq [type : TypeId, length : Nat]
  /\ Values \subseteq RowValue
  /\ MAX_COLUMNS \in Nat

VARIABLES
  columns,   \* the Schema
  values,    \* the row
  data,      \* data_, the first byte at position 1
  at,        \* the column the constructor is at
  outcome    \* "packing", "packed", or how it threw

packVars == <<columns, values, data, at, outcome>>

-----------------------------------------------------------------------------
(* Schema: the offset of column i, and of the end behind the last.         *)
Offset_NoBool(cols, i) ==   \* faulty variant
  LET curr_offset[k \in 0 .. Len(cols)] ==
        IF k = 0 THEN 0
        ELSE curr_offset[k - 1] + IF cols[k].type = "BOOLEAN" THEN 0 ELSE cols[k].length
  IN curr_offset[i - 1]

Offset(cols, i) ==
  LET curr_offset[k \in 0 .. Len(cols)] ==
        IF k = 0 THEN 0 ELSE curr_offset[k - 1] + cols[k].length
  IN curr_offset[i - 1]

TupleLength(cols) == Offset(cols, Len(cols) + 1)

(* The bytes a value is written as.  A string is cut to its column and not *)
(* terminated; a null leaves the zeroes that are there.                    *)
Written_Uncut(col, val) == val.bytes   \* faulty variant

Written(col, val) ==
  IF col.type = "VARCHAR"
  THEN SubSeq(val.bytes, 1, IF Len(val.bytes) < col.length THEN Len(val.bytes) ELSE col.length)
  ELSE val.bytes

(* memcpy, which knows of no end: what goes past it is lost here.          *)
CopyTo(bytes, offset, written) ==
  [o \in DOMAIN bytes |->
     IF o - offset \in DOMAIN written THEN written[o - offset] ELSE bytes[o]]

(* GetValue.  A string ends at the first zero byte or with its column.     *)
BytesFrom(bytes, offset, n) ==
  [k \in 1 .. n |-> IF offset + k \in DOMAIN bytes THEN bytes[offset + k] ELSE -1]

UntilZero(s) ==
  LET zeroes == {k \in DOMAIN s : s[k] = 0}
  IN IF zeroes = {} THEN s
     ELSE SubSeq(s, 1, (CHOOSE k \in zeroes : \A j \in zeroes : k <= j) - 1)

GetValue(cols, bytes, i) ==
  LET offset == Offset(cols, i) IN
  CASE cols[i].type = "INTEGER" -> Value("INTEGER", BytesFrom(bytes, offset, INT_BYTES))
    [] cols[i].type = "BOOLEAN" -> Value("BOOLEAN", BytesFrom(bytes, offset, 1))
    [] cols[i].type = "VARCHAR" ->
         Value("VARCHAR", UntilZero(BytesFrom(bytes, offset, cols[i].length)))
    [] OTHER -> NullValue("INVALID")

-----------------------------------------------------------------------------
(* The serialization constructor, one column at a time.                    *)

(* The schema and the row of test_tuple.cpp: an id, a flag and a name.     *)
DemoColumns ==
  <<Column("INTEGER", 4), Column("BOOLEAN", 1), Column("VARCHAR", 20)>>

DemoValues ==
  <<Value("INTEGER", <<105, 0, 0, 0>>), Value("BOOLEAN", <<1>>),
    Value("VARCHAR", <<65, 108, 105, 99, 101>>)>>

(* Named apart from LRUReplacer's, which MemoryProofs extends as well.      *)
PackInit ==
  /\ \/ /\ columns \in UNION {[1 .. n -> Columns] : n \in 1 .. MAX_COLUMNS}
        /\ values \in UNION {[1 .. n -> Values] : n \in 1 .. MAX_COLUMNS}
     \/ columns = DemoColumns /\ values = DemoValues
  /\ data = <<>>
  /\ at = 0
  /\ outcome = "packing"

Throws(reason) ==
  /\ outcome' = reason
  /\ UNCHANGED <<columns, values, data, at>>

Allocate ==
  /\ outcome = "packing"
  /\ at = 0
  /\ \/ /\ Len(values) # Len(columns)
        /\ Throws("count mismatch")
     \/ /\ Len(values) = Len(columns)
        /\ data' = [o \in 1 .. TupleLength(columns) |-> 0]
        /\ at' = 1
        /\ UNCHANGED <<columns, values, outcome>>

(* A null goes into a column of any type.                                  *)
Mismatch_NullToo(col, val) == val.type # col.type   \* faulty variant

Mismatch(col, val) == val.type # col.type /\ ~val.null

(* getAsInt, getAsBool and getAsString throw for a null, or another type.  *)
HasBytesOf(col, val) == ~val.null /\ val.type = col.type

Advance ==
  /\ at' = at + 1
  /\ outcome' = IF at = Len(columns) THEN "packed" ELSE "packing"
  /\ UNCHANGED <<columns, values>>

Pack(col, val) ==
  IF HasBytesOf(col, val)
  THEN data' = CopyTo(data, Offset(columns, at), Written(col, val)) /\ Advance
  ELSE Throws("wrong accessor")

PackColumn ==
  LET col == columns[at]
      val == values[at]
  IN
  /\ outcome = "packing"
  /\ at \in DOMAIN columns
  /\ \/ Mismatch(col, val) /\ Throws("type mismatch")
     \/ ~Mismatch(col, val) /\ val.null /\ Advance /\ UNCHANGED data
     \/ ~Mismatch(col, val) /\ ~val.null /\ Pack(col, val)

PackNext == Allocate \/ PackColumn

PackSpec == PackInit /\ [][PackNext]_packVars /\ WF_packVars(PackNext)
-----------------------------------------------------------------------------
(* Properties.                                                             *)

(* Schemas declare at least the four bytes an INTEGER and the one byte a   *)
(* BOOLEAN takes, as test_tuple.cpp does; nothing in Column or Schema      *)
(* makes them.                                                             *)
WidthsFit ==
  \A i \in DOMAIN columns :
    columns[i].length >= (CASE columns[i].type = "INTEGER" -> INT_BYTES
                            [] columns[i].type = "BOOLEAN" -> 1
                            [] OTHER                       -> 0)

(* What a value reads back as: a string cut to its column, a null as the   *)
(* zero of the column's type.                                              *)
ReadsAs(col, val) ==
  IF ~val.null THEN [val EXCEPT !.bytes = Written(col, val)]
  ELSE CASE col.type = "INTEGER" -> Value("INTEGER", <<0, 0, 0, 0>>)
         [] col.type = "BOOLEAN" -> Value("BOOLEAN", <<0>>)
         [] col.type = "VARCHAR" -> Value("VARCHAR", <<>>)
         [] OTHER                -> NullValue("INVALID")

(* "pulling a Value back out from the byte array" (tuple.h:12): every      *)
(* column packed so far reads back, and packing the next ones, of any type *)
(* and length, does not disturb it.                                        *)
PackedColumnsReadBack ==
  WidthsFit =>
    \A i \in DOMAIN columns :
      i < at => GetValue(columns, data, i) = ReadsAs(columns[i], values[i])

(* No column is written or read past the end of the tuple: the bytes are a *)
(* heap block, or a row with other rows behind it in its page.             *)
StaysInside ==
  WidthsFit /\ outcome = "packed" =>
    \A i \in DOMAIN columns :
      LET offset == Offset(columns, i) IN
      /\ offset + Len(Written(columns[i], values[i])) <= Len(data)
      /\ \A k \in DOMAIN GetValue(columns, data, i).bytes :
           GetValue(columns, data, i).bytes[k] >= 0

(* A row is packed if and only if it has a value of the right type or a    *)
(* null for every column, and never ends half packed.                      *)
Fits ==
  /\ Len(values) = Len(columns)
  /\ \A i \in DOMAIN columns : values[i].null \/ values[i].type = columns[i].type

EndsPackedIffItFits ==
  <>[](outcome # "packing" /\ (outcome = "packed" <=> Fits))
=============================================================================
