SPECIFICATION Spec
CONSTANTS
  g1 = g1
  g2 = g2
  Guests <- MCGuests
  Shell = Shell
  Slots <- MCSlots
  Room = 2
  Programs <- MCPrograms
INVARIANT
  AloneKeepsEl1
PROPERTIES
  ImplementsMachines
  PendingUntilServed
