SPECIFICATION FairSpec
CONSTANTS
  None = None
  Heroes = 2
  Enemies = 1
  WindowIds = {w1, w2}
  Duration = 2
  Grace = 3
INVARIANTS DeadlineFollowsWindow CountdownArmed
PROPERTIES TimeoutIsDue GraceKept WindowsEnd
