SPECIFICATION Spec
CONSTANTS
  MaxFiles = 3
  MaxSaves = 2
INVARIANTS TypeOK FilesAccountedFor StaleNeverLands
