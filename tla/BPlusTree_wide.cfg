CONSTANTS
  LEAF_MAX = 2
  INTERNAL_MAX = 3
  Key = {1, 2, 3, 4, 5}
  RecordID = {r1, r2}
  UNIQUE_KEYS = TRUE
  MAX_INSERTS = 5
  MAX_DATA_PAGES = 0
  POOL_SIZE = 7
  MAX_PAGES = 13
  NoReply = NoReply
SPECIFICATION Spec
INVARIANTS
  TypeOK
  EveryKeyIsFound
  LeafChainIsSorted
  ChangesAreDeclaredDirty
PROPERTIES
  ImplementsDictionary
