SPECIFICATION Spec
CONSTANTS
  p1 = p1
  p2 = p2
  p3 = p3
  p4 = p4
  Nobody = Nobody
  Participant = {p1, p2, p3}
  Seats = 3
  Capacity = 2
  MinParty = 1
  MaxParty = 2
  Mode = "rehearsal"
SYMMETRY ParticipantSymmetry
INVARIANTS SelectionFollowsOwnership
