CONSTANTS
  Desktop = Desktop
  Phones = {p1, p2}
  MaxBreaks = 2
  MaxCodes = 2
  MaxEvents = 3
SPECIFICATION Spec
INVARIANTS TypeOK PairingHolds
PROPERTIES PairingKept
CHECK_DEADLOCK FALSE
SYMMETRY Symmetry
