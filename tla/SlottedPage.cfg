CONSTANTS
  PAGE_SIZE = 13
  HEADER = 3
  SLOT = 2
  W16 = 32
  Data = {d1, d2}
  Length = {0, 1, 3, 8, 9, 32, 35}
  Zero = zero
  Used = used
  Null = null
SPECIFICATION Spec
INVARIANTS
  TypeOK
  LayoutIsSound
PROPERTIES
  ImplementsRowPage
