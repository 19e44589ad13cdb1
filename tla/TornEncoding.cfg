\* A compressing pass whose source is cut short.
SPECIFICATION SpecParts
CONSTANTS
  Off = Off
  Parts = {"encoded"}
INVARIANTS RowsOpen
CHECK_DEADLOCK FALSE
