SPECIFICATION Spec
CONSTANTS
  VMs = {v1, v2}
  Timers = 2
  Word = 16
  Wide = 256
  Compares = {1, 3, 15}
  ClockMax = 5
  CloAddress = 4
INVARIANT
  TimerArrives
CHECK_DEADLOCK FALSE
