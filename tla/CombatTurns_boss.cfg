SPECIFICATION Spec
CONSTANTS
  h1 = h1  h2 = h2  e1 = e1  e2 = e2  z1 = z1  z2 = z2  z3 = z3
  None = None
  Heroes = {h1, h2}
  Enemies = {e2}
  Bosses = {e2}
  Reinforcements = {}
  Zones = {z1}
  Links <- MCLinks
  Capacity = 4
  Threshold = 1
  GuardMax <- BossGuard
  ExertionMax = 1
  SupplyMax = 0
  WoundSlots = 1
  Abilities <- BossAbilities
  Start <- BossStart
  Site = z1
  Armor <- MCArmor
  OverlayGuard <- LastResonance
  Triggers = {"none"}
  MaxRound = 2
INVARIANTS TypeOK AcceptedApplies UndoRestores LastWoundIsTested FinishedIsResolved
CHECK_DEADLOCK FALSE
