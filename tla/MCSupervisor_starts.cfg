SPECIFICATION Spec
CONSTANTS
  Starters = {p1, p2}
  Stoppers = {p3}
  Nobody = Nobody
  Tries = 2
  p1 = p1
  p2 = p2
  p3 = p3
INVARIANTS
  TypeOK
  SingleFlight
  ProxyIsOnRecord
  OnlyTheLivingBlock
  StopMeansDead
PROPERTIES
  CommandsEnd
