--------------------------- MODULE MCRoomWorkflow ---------------------------
(* RoomWorkflow for TLC: mechanics m1, m2 of clients and s1 of the host    *)
(* itself, a room-only command r1 under the busy rule and e1 exempt of it. *)
EXTENDS RoomWorkflow, TLC

CONSTANTS m1, m2, s1, r1, e1

\* The two client mechanics are interchangeable.
ClientSymmetry == Permutations({m1, m2})
=============================================================================
