SPECIFICATION Spec
CONSTANTS
  Polls = 2
  Tries = 2
  Nums <- MCNums
INVARIANTS
  CountIsTruth
  DataCommandsWait
PROPERTY CallsEnd
