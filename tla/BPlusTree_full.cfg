CONSTANTS
  LEAF_MAX = 2
  INTERNAL_MAX = 2
  Key = {1, 2, 3, 4}
  RecordID = {r1}
  UNIQUE_KEYS = TRUE
  MAX_INSERTS = 4
  MAX_DATA_PAGES = 5
  POOL_SIZE = 5
  MAX_PAGES = 12
  NoReply = NoReply
SPECIFICATION Spec
INVARIANTS
  TreeIsIntact
PROPERTIES
  OnlyAnEmptyTreeLosesInserts
CHECK_DEADLOCK FALSE
