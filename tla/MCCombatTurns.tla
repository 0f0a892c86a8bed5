--------------------------- MODULE MCCombatTurns ----------------------------
(* Small fights for TLC: two heroes against two enemies.                   *)
EXTENDS CombatTurns, FloodgateContent
CONSTANTS h1, h2, e1, e2, z1, z2, z3

MCLinks == {{z1, z2}, {z2, z3}}
MCArmor == [e \in Enemies |-> IF e = e2 THEN 1 ELSE 0]

\* Everybody in one zone, the boss with its overlay
BossGuard == [a \in Actors |-> IF a = e2 THEN 5 ELSE 3]
BossStart == [a \in Actors |-> z1]
BossAbilities ==
  [a \in Actors |-> CASE a = h1 -> {BraceTheBreach}
                        [] a = h2 -> {AnsweringCall, ResonantWick}
                        [] a = e1 -> {FloodPike}
                        [] OTHER -> {CrushingToll}]

\* A crew and a reinforcement, and heroes who work on the objective
CrewGuard == [a \in Actors |-> 3]
CrewStart == [a \in Actors |-> IF a = e1 THEN z2 ELSE z1]
CrewAbilities ==
  [a \in Actors |-> CASE a = h1 -> {GuidingCadence}
                        [] a = h2 -> {CurrentFold}
                        [] OTHER -> {FloodPike}]
=============================================================================
