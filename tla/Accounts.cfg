\* What the instances count and queue in shared tables.
SPECIFICATION FairParts
CONSTANTS
  Off = Off
  Parts = {"flush", "exact", "days", "ceilings", "drift", "waits", "queue", "outbox", "settled", "breakers", "calls"}
  Charges = {"c1"}
  Instances = {"i1", "i2"}
  FlushIDs = {"f1", "f2"}
  KeyTTL = 1
  UsageFlushRetention = 2
  MaxDay = 0
  MaxFaults = 1
  LostAnswers = TRUE
  LostCommits = TRUE
  SlowCharges = FALSE
  None = None
INVARIANTS SharedCountedOnce  ArrivesOnce StatementsHold ReportedHealth
 
CHECK_DEADLOCK FALSE
