\* Two rows, one on a backend that leaves the fleet.
SPECIFICATION FairSpec
CONSTANTS
  Rows = {r1, r2}
  Leaving = {r2}
  MaxAttempts = 2
  MaxClaims = 3
  MaxFaults = 1
  NoClaim = NoClaim
INVARIANTS CleanupInv
PROPERTIES OnlyHolderSettles QueueDrains
CHECK_DEADLOCK FALSE
