CONSTANTS
  c1 = c1
  c2 = c2
  c3 = c3
  Conversations <- MCConversations
  First = c1
  Slugs <- MCSlugs
  Slug <- MCSlug
  HandoffSlug = "handoff"
  NoPath = NoPath
  Absent = Absent
  Torn = Torn
  MaxTurns = 2
  MaxSecond = 1
  MaxGeneration = 2
  SavesFail = TRUE
  Quits = TRUE
SPECIFICATION Spec
INVARIANTS OwnFileAlways
CHECK_DEADLOCK FALSE
