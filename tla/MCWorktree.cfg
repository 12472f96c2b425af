SPECIFICATION Spec
CONSTANTS
  ChangeSets = {c1, c2}
  NoOne = none
  MaxHead = 2
  Branches = {main, other}
  Worlds <- MCWorlds
SYMMETRY Symmetry
INVARIANTS TypeOK RecordsTrue
PROPERTIES WorkKept OnlyAsApproved
CHECK_DEADLOCK FALSE
