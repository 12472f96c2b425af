SPECIFICATION AuthoringSpec
CONSTANTS
  Saved = {o}
  Team = {t}
  Unborn = {u}
  Reuses = {{}, {t}}
  Lossy = {{}, {t, u}}
  Limit = 2
  MaxEdits = 2
  MaxChanges = 1
  MaxFaults = 1
  MaxEvents = 3
INVARIANTS AuthoringTypeOK KeptIsThere GrantsHonoured
PROPERTIES OneEditAtATime
