SPECIFICATION Spec
CONSTANTS
  Procs = {p1, p2}
  NoProc = NoProc
  Ops = {"remember", "sleep_now"}
  Cap = 2
  Bands = {"active", "dormant", "solidified", "prune_candidate"}
  Retries = 1
  MaxId = 2
  MaxConf = 1
SYMMETRY Symmetry
PROPERTIES
  DeadStaysDead
