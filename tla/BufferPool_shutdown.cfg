CONSTANTS
  POOL_SIZE = 2
  CAPACITY = 2
  MAX_PAGES = 3
  MAX_PINS = 2
  Zero = zero
  Data = {zero, b1}
  Null = null
SPECIFICATION Spec
PROPERTIES
  ShutdownSavesDirtyPages
