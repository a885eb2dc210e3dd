SPECIFICATION Spec
CONSTANTS
  Procs = {p1}
  NoProc = NoProc
  Ops = {"remember", "forget", "invalidate", "resolve_conflict", "challenge_rule", "reinforce", "sleep_now"}
  Cap = 2
  Bands = {"active", "solidified"}
  Retries = 1
  MaxId = 3
  MaxConf = 2
INVARIANTS
  ConflictsNameTheirMemories
  ChallengerHasConflict
PROPERTIES
  FollowsLifecycle
