SPECIFICATION DashFairSpec
CONSTANTS
  Worlds <- MCWorlds
  Polls = {p1, p2}
  MaxEffects = 2
PROPERTIES
  BadgeComesBack
CHECK_DEADLOCK FALSE
