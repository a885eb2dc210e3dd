SPECIFICATION FairSpec
CONSTANTS
  Sessions = {s1}
  Insts = {a, b}
  Offline = Offline
  Buf = 2
  MaxSeq = 4
  MaxRows = 3
INVARIANTS
  TypeOK
  NothingSkipped
  CountedOnce
PROPERTIES
  SessionEnds
