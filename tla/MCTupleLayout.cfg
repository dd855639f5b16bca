CONSTANTS
  Lengths = {2, 4, 5}
  Columns <- MCColumns
  Values <- MCValues
  MAX_COLUMNS = 3
SPECIFICATION PackSpec
INVARIANTS
  PackedColumnsReadBack
  StaysInside
PROPERTIES
  EndsPackedIffItFits
CHECK_DEADLOCK FALSE
