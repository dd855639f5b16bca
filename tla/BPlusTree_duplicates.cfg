CONSTANTS
  LEAF_MAX = 2
  INTERNAL_MAX = 3
  Key = {1, 2}
  RecordID = {r1}
  UNIQUE_KEYS = FALSE
  MAX_INSERTS = 4
  MAX_DATA_PAGES = 0
  POOL_SIZE = 8
  MAX_PAGES = 10
  NoReply = NoReply
SPECIFICATION Spec
INVARIANTS
  EveryKeyIsFound
