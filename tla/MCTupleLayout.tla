--------------------------- MODULE MCTupleLayout ---------------------------
(* Small schemas and rows for TupleLayout.                                 *)
EXTENDS TupleLayout

CONSTANT Lengths

MCColumns ==
  [type : {"INTEGER", "VARCHAR"}, length : Lengths] \cup {Column("BOOLEAN", 1), Column("INVALID", 1)}

MCValues ==
  {Value("INTEGER", <<1, 2, 0, 255>>), Value("INTEGER", <<7, 7, 7, 7>>),
   Value("BOOLEAN", <<1>>),
   Value("VARCHAR", <<>>), Value("VARCHAR", <<65, 66>>), Value("VARCHAR", <<67, 68, 69, 70, 71>>),
   NullValue("INTEGER")}
=============================================================================
