SPECIFICATION FairSpec
CONSTANTS
  a = a
  Phone = {a}
  MaxView = 4
  MaxFaults = 1
  MaxIdle = 1
CHECK_DEADLOCK FALSE
INVARIANTS TypeOK Contiguous Returnable CursorIsHeld
PROPERTIES NeverBack PhonesCatchUp
