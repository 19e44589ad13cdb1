\* A PUT and a fan-out PUT, answered and resolved.
SPECIFICATION FairTeams
CONSTANTS
  Keys = {k1}
  Backends = {b1, b2}
  Puts = {"w1"}
  Fanouts = {"f1"}
  Replicas = {}
  Moves = {}
  KeyOf <- OneKey
  Capacity <- MCCapacity
  Limit = 1
  Teams <- WritersOnly
  MaxPaths = 3
  CopiesPerWrite = 2
  ReaperRaces = FALSE
  None = None
INVARIANTS LedgerInv
PROPERTIES EveryWriteEnds
CHECK_DEADLOCK FALSE
