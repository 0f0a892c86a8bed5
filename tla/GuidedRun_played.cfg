SPECIFICATION Spec
CONSTANTS
  None = None
  PartySize = 2
  Operators = 2
  Providers = {"prompt", "deferred"}
INVARIANTS TypeOK ConclusionDecided NeverStranded
PROPERTIES StoryForward
CHECK_DEADLOCK FALSE
