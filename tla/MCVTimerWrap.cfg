SPECIFICATION Spec
CONSTANTS
  VMs = {v1, v2}
  Timers = 2
  Word = 4
  Wide = 16
  Compares = {3}
  ClockMax = 6
  CloAddress = 2
INVARIANT
  ActiveTime
CHECK_DEADLOCK FALSE
