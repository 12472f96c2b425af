CONSTANTS
  Phones = {p1, p2}
  NoPhone = NoPhone
  MaxChats = 2
  MaxRounds = 1
  MaxFaults = 1
SPECIFICATION ChatSpec
INVARIANTS ChatTypeOK Answered
CHECK_DEADLOCK FALSE
SYMMETRY PhonesAlike
