SPECIFICATION Spec
CONSTANTS
  Reqs = {r1, r2}
  Cands = 1
CHECK_DEADLOCK FALSE
SYMMETRY Symmetry
INVARIANT
  NoStaleRecall
