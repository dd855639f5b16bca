CONSTANTS
  LEAF_MAX = 2
  INTERNAL_MAX = 2
  Key = {1, 2, 3, 4, 5, 6}
  RecordID = {r1}
  UNIQUE_KEYS = TRUE
  MAX_INSERTS = 6
  MAX_DATA_PAGES = 0
  POOL_SIZE = 11
  MAX_PAGES = 16
  NoReply = NoReply
SPECIFICATION Spec
INVARIANTS
  PinsAreReturned
  PinnedPagesAreBounded
  IsBalancedTree
PROPERTIES
  OnlyPinnedPagesChange
  EveryCallReturns
