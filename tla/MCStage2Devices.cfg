SPECIFICATION Spec
CONSTANTS
  VMs = {v1, v2}
  Entries = 3
  Gigs = 2
  Frames = 20
  LoadPage = 2
  MaxImage = 2
  DeviceFirst = 4
  DeviceLast = 7
  MmioLast = 8
  Touched = {1, 3, 8, 9, 12}
  Far <- Flat
INVARIANT
  DevicesTrap
SYMMETRY Symmetry
CHECK_DEADLOCK FALSE
