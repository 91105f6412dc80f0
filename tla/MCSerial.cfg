SPECIFICATION LineSpec
CONSTANTS
  Guests = {g1, g2}
  Shell = shell
  Size = 1
  MaxSaid = 3
  Room = 3
  Char = {a, b}
INVARIANTS
  TypeOK
  Drained
  InOrder
  EscapeIsLast
  IndexInv
PROPERTIES
  Immediate
  IsFifo
SYMMETRY Symmetry
