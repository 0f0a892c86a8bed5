------------------------ MODULE MCReactionDeadlines ------------------------
(* ReactionDeadlines for TLC: two heroes and an enemy.  Every CONSTANT gets *)
(* its value in the configuration.                                         *)
EXTENDS ReactionDeadlines
=============================================================================
