SPECIFICATION CompressorSpec
CONSTANTS
  MaxBlock = 6
  MinBlock = 2
  Threshold = 5
  HeadLen = 2
  TailLen = 1
  Repeats = 3
  Blanks = 1
  Numbers = {"one", "two"}
INVARIANTS
  SignaturesSurvive
CHECK_DEADLOCK FALSE
