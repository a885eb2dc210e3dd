SPECIFICATION FairSpec
CONSTANTS
  Reqs = {r1, r2}
  Cands = 2
CHECK_DEADLOCK FALSE
INVARIANTS
  TypeOK
  BarrierCounts
  PlainTurnsRecalled
  ConnectionsBounded
PROPERTIES
  KeepsContract
  RequestEnds
