CONSTANTS
  Root = Root
  NoDir = NoDir
  Dirs = {Root, d1}
  MaxCalls = 3
  MaxShells = 2
  MaxText = 1
SPECIFICATION Spec
INVARIANTS TypeOK ToldOfReset ResultTrue
PROPERTIES CallsReturn
CHECK_DEADLOCK FALSE
