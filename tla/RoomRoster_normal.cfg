SPECIFICATION Spec
CONSTANTS
  p1 = p1
  p2 = p2
  p3 = p3
  p4 = p4
  Nobody = Nobody
  Participant = {p1, p2, p3, p4}
  Seats = 2
  Capacity = 3
  MinParty = 1
  MaxParty = 2
  Mode = "normal"
SYMMETRY ParticipantSymmetry
INVARIANTS AcceptedNeverThrows HostlessRoomUntouched RolesApproved ConclusionIsFinal
PROPERTIES TakenByAuthority
