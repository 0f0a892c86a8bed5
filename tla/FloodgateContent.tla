-------------------------- MODULE FloodgateContent --------------------------
(***************************************************************************)
(* The authored abilities of packages/content/src/phase-1-catalog.ts that  *)
(* the fight at the Floodgate uses, reduced to what the decisions of       *)
(* combat look at.  Reaches: 0 self, 1 same zone, 2 adjacent, 3 distant.   *)
(***************************************************************************)
EXTENDS Integers

Ability(slot, mode, range) ==
  [slot |-> slot, mode |-> mode, range |-> range, check |-> FALSE, impact |-> 0,
   moves |-> "none", track |-> 0, restores |-> FALSE, cost |-> 0, scene |-> FALSE]

Strike(impact, range) ==
  [Ability("action", "actor", range) EXCEPT !.check = TRUE, !.impact = impact]

\* Signature techniques
BraceTheBreach == [Strike(4, 1) EXCEPT !.cost = 1]
Flashcut == Strike(3, 2)
Threadline == [Ability("maneuver", "move", 2) EXCEPT !.moves = "ally"]
AnsweringCall == [Ability("reaction", "actor", 2) EXCEPT !.restores = TRUE]
CurrentFold == [Ability("action", "move", 3) EXCEPT !.check = TRUE, !.moves = "enemy"]
GuidingCadence == [Ability("action", "objective", 1) EXCEPT !.track = 2]

\* Significant gear
IronrootHook == Strike(3, 1)
SlateCompass == Threadline
AccordChime == [GuidingCadence EXCEPT !.track = 1]
ResonantWick == Strike(2, 3)

\* The enemies' actions
FloodPike == Strike(3, 1)
CrushingToll == Strike(4, 2)

\* What a boss's Last Resonance restores
LastResonance == 5
=============================================================================
