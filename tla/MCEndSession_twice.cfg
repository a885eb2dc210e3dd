SPECIFICATION Spec
CONSTANTS
  Sessions = {s1, s2}
  Insts = {a}
  Offline = Offline
  Buf = 2
  MaxSeq = 3
  MaxRows = 2
INVARIANTS
  CountedOnce
