CONSTANTS
  Frame = {f1, f2}
  PAGE_SIZE = 10
  HEADER = 2
  SLOT = 2
  W16 = 16
  Data = {d1, d2}
  Length = {2, 6, 7}
  MAX_PAGES = 4
  MAX_ROWS = 3
  Zero = zero
  Used = used
  Null = null
SPECIFICATION Spec
INVARIANTS
  PagesFormADoublyLinkedList
  PinsAreReturned
  RidsNameTheirRows
  TupleIsItsRowWhileCached
