SPECIFICATION Spec
CONSTANTS
  VMs = {v1, v2}
  Timers = 2
  Word = 16
  Wide = 256
  Compares = {2, 3}
  ClockMax = 4
  CloAddress = 1
INVARIANTS
  TypeOK
  ActiveTime
PROPERTY
  NearestMarked
SYMMETRY Symmetry
