SPECIFICATION Spec
CONSTANTS
  h1 = h1  h2 = h2    s1 = s1  s2 = s2  c1 = c1  n1 = n1  l1 = l1
  r1 = r1  r2 = r2  wick = wick  path = path  talent = talent
  None = None
  Heroes = {h1, h2}
  Scenes = {s1, s2}
  Challenges = {c1}
  Npcs = {n1}
  Leverage = {l1}
  Rituals = {r1, r2}
  CheckIds = {1, 2, 3}
  CheckLimit = 2
  GuardMax = 2
  ExertionMax = 1
  ProgressMax = 2
  DangerMax = 2
  TieRule = "resolved_with_cost"
  LeverageCapacity = 1
  Costs <- MCCosts
  Catalogs <- MCCatalogs
  PartySizes = {2, 3}
  OutcomeEffects <- MCOutcomeEffects
  InitialStance = 2
  HardLimits = {"abandon_gate"}
  Limits = {"abandon_gate"}
  Consequences <- MCConsequences
  CheckRequest <- MCRequest
  Dice = {1, 8, 13, 20}
  MaxSession = 1
INVARIANTS TypeOK AcceptedApplies UndoRestores ChecksAnswerable GearSpentForRituals OfferedIsAccepted
CHECK_DEADLOCK FALSE
