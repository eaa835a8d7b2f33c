SPECIFICATION DashFairSpec
CONSTANTS
  Worlds <- MCWorlds
  Polls = {p1, p2}
  MaxEffects = 2
INVARIANTS
  DashTypeOK
  ScreenIsLastAnswer
  DashRackSound
PROPERTIES
  ScreenCatchesUp
CHECK_DEADLOCK FALSE
