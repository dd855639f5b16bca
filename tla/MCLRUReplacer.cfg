CONSTANTS
  Frame = {0, 1, 2, 3}
  CAPACITY = 3
  Addr = {a1, a2, a3}
  head = head
  tail = tail
  nullptr = nullptr
SPECIFICATION Spec
INVARIANTS
  TypeOK
  NoDanglingPointer
  MapListAndCountAgree
  DestructorFreesEverything
PROPERTIES
  ImplementsQueue
CHECK_DEADLOCK FALSE
SYMMETRY Symmetry
