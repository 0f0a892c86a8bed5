---------------------------- MODULE MCRoomRoster ----------------------------
(* RoomRoster for TLC: three or four participants and two or three seats.  *)
EXTENDS RoomRoster, TLC

CONSTANTS p1, p2, p3, p4

\* The participants are interchangeable.
ParticipantSymmetry == Permutations(Participant)
=============================================================================
