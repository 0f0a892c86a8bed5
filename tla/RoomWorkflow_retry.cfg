SPECIFICATION Spec
CONSTANTS
  m1 = m1
  m2 = m2
  s1 = s1
  r1 = r1
  e1 = e1
  Nil = Nil
  Mechanic = {m1, s1}
  System = {s1}
  RoomOnly = {r1, e1}
  Exempt = {e1}
  ExactRetryOf = {"accepted"}
  EngineMayFail = TRUE
  MaxExtra = 0
  MaxDomainEvents = 1
  MaxNarration = 2
  MaxCrashes = 1
CHECK_DEADLOCK FALSE
INVARIANTS Linkage RejectedNeverExecutes AckAfterFinalization
PROPERTIES ImplementsSingleEffect
