\* Every part of the object path.
SPECIFICATION FairParts
CONSTANTS
  Off = Off
  Parts = {"rot", "failover", "cache", "ranges", "streams", "copies", "retagged", "parts", "passes", "capped", "torn", "rotation", "repeated", "pages", "moving"}
INVARIANTS   RowsOpen PageIsS3Page
PROPERTIES RewritesLast
CHECK_DEADLOCK FALSE
