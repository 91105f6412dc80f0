SPECIFICATION FairSpec
CONSTANTS
  MaxVMs = 3
  Boots  = 3
  Quanta = 2
  UInt32 = 16
INVARIANTS
  TypeOK
  QuantaInv
  OneBoosted
  ContextInv
PROPERTIES
  NeverRestarted
  RoundRobin
  EveryVmRuns
CHECK_DEADLOCK FALSE
