CONSTANTS
  Name = {s, t, u}
  Block = {b1, b2, b3, b4}
  Buffer = {x}
  Bytes = {v1, v2}
  MAX_THROWS = 1
  nullptr = nullptr
SPECIFICATION MemorySpec
INVARIANTS
  OwnedBytesAreKept
  OnlyThrowsLeak
