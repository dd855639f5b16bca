CONSTANTS
  Id = {1, 2, 3}
  Length = {2, 6, 7}
  PAGE_SIZE = 10
  HEADER = 2
  SLOT = 2
  W16 = 16
  LEAF_MAX = 2
  INTERNAL_MAX = 3
  POOL_SIZE = 6
  MAX_PAGES = 10
  MAX_INSERTS = 3
  MAX_RESTARTS = 1
  UNIQUE_KEYS = TRUE
  Zero = zero
  Used = used
  Null = null
  NoReply = noreply
  Unknown = unknown
SPECIFICATION Spec
INVARIANTS
  PinsAndDirtyBitsAreRight
PROPERTIES
  ImplementsRowTable
  EveryCommandEnds
