SPECIFICATION Spec
CONSTANTS
  Procs = {p1, p2}
  NoProc = NoProc
  Ops = {"remember", "forget", "resolve_conflict", "challenge_rule", "reinforce"}
  Cap = 1
  Bands = {"active", "solidified"}
  Retries = 1
  MaxId = 2
  MaxConf = 1
SYMMETRY Symmetry
INVARIANTS
  TypeOK
  ConflictRefsStored
  ResolvedSettlesChallenger
  LockOutlivesOnlyErrors
PROPERTIES
  CapAfterRemember
