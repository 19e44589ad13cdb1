\* Every part of the front of the server.
SPECIFICATION FairParts
CONSTANTS
  Off = Off
  Parts = {"queries", "grants", "keypairs", "signed", "headers", "bodies", "damaged", "tags", "mixed", "dates", "waiting", "turns", "shedding"}
INVARIANTS ServedOnce Authentic AnsweredFromOneVersion
PROPERTIES TurnGetsSlot
CHECK_DEADLOCK FALSE
