\* What the background workers may never do.
SPECIFICATION SpecParts
CONSTANTS
  Off = Off
  Backends = {"a", "b"}
  Keys = {"k1"}
  Writes = {"w1"}
  Uploads = {"u"}
  Instances = {"i"}
  Cordonable = {}
  Drainable = {"a", "b"}
  Removable = {"a", "b"}
  Untracked <- NoUntracked
  OpenTransactions = FALSE
  Reconciles = FALSE
  Drained1st = TRUE
  QuietRemoval = TRUE
  ListFails = TRUE
  None = None
  Old = Old
  Moved = Moved
  Imported = Imported
  Parts = {"drain", "checks", "backfill", "clean", "pack", "spread", "merges", "syncs", "expiry"}
INVARIANTS  ObjectsSurvive RowsTended
 
CHECK_DEADLOCK FALSE
