SPECIFICATION Spec
CONSTANTS
  h1 = h1  h2 = h2  e1 = e1  e2 = e2  z1 = z1  z2 = z2  z3 = z3
  None = None
  Heroes = {h1, h2}
  Enemies = {e1, e2}
  Bosses = {}
  Reinforcements = {e2}
  Zones = {z1, z2}
  Links <- MCLinks
  Capacity = 4
  Threshold = 3
  GuardMax <- CrewGuard
  ExertionMax = 0
  SupplyMax = 1
  WoundSlots = 1
  Abilities <- CrewAbilities
  Start <- CrewStart
  Site = z1
  Armor <- MCArmor
  OverlayGuard <- LastResonance
  Triggers = {"round_2"}
  MaxRound = 2
INVARIANT SomeoneMayAct
CHECK_DEADLOCK FALSE
