SPECIFICATION Spec
CONSTANTS
  TenantLanding <- MCLanding
  Draws <- MCDraws
  Hovered = {"nostos"}
  MaxSeq = 4
  Typed <- MCTyped
  MaxActs = 4
  MaxFrames = 2
INVARIANTS
  TypeOK
  AccountsComparable
  OneRoundOnScreen
  RackFitsVerdict
PROPERTIES
  LinksLand
CHECK_DEADLOCK FALSE
