\* Writes, fan-outs, replicas and moves of one key on two backends.
SPECIFICATION SpecTeams
CONSTANTS
  Keys = {k1}
  Backends = {b1, b2}
  Puts = {"w1", "w2"}
  Fanouts = {"f1"}
  Replicas = {"r1"}
  Moves = {"m1"}
  KeyOf <- OneKey
  Capacity <- MCCapacity
  Limit = 2
  Teams <- EveryTeam
  MaxPaths = 3
  CopiesPerWrite = 2
  ReaperRaces = FALSE
  None = None
SYMMETRY Symmetry
INVARIANTS QueuedBytesAreDead RecordedBytesStored CopiesAgree WithinLimit
PROPERTIES KeptUntilDeleted AtomicRegister
CHECK_DEADLOCK FALSE
