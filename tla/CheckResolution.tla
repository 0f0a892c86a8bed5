-------------------------- MODULE CheckResolution ---------------------------
(***************************************************************************)
(* How a check comes out: resolution.ts and physical-rolls.ts of           *)
(* packages/engine/src.  A check that is rolled at the table is disclosed  *)
(* first: the players see the outcome of each face of the die.  When the   *)
(* face is submitted, the request is rebuilt from the disclosure and       *)
(* resolved again (decideSubmitDieResult).                                 *)
(*                                                                         *)
(* Degrees are numbered: 1 Crisis, 2 Setback, 3 Success, 4 Triumph.        *)
(***************************************************************************)
EXTENDS Integers

Faces == 1 .. 20
Crisis == 1
Setback == 2
Success == 3
Triumph == 4
Degrees == Crisis .. Triumph

\* The requests of the rules: ratings, a standard target, edge and hindrance.
Requests ==
  [attribute : 0 .. 2, discipline : 0 .. 2, target : {10, 13, 16, 19, 22},
   edge : BOOLEAN, hindrance : BOOLEAN]

DegreeForDelta(delta) ==
  IF delta <= -5 THEN Crisis
  ELSE IF delta < 0 THEN Setback
  ELSE IF delta < 5 THEN Success ELSE Triumph

NaturalFaceAdjustment(face) == IF face = 1 THEN -1 ELSE IF face = 20 THEN 1 ELSE 0

ShiftDegree(degree, adjustment) ==
  IF degree + adjustment \in Degrees THEN degree + adjustment ELSE degree

SituationalModifier(r) ==
  (IF r.edge THEN 2 ELSE 0) + (IF r.hindrance THEN -2 ELSE 0)

FinalModifier(r) == r.attribute + r.discipline + SituationalModifier(r)

ResolveDegree(face, target, modifier) ==
  ShiftDegree(DegreeForDelta(face + modifier - target), NaturalFaceAdjustment(face))

ResolveCheck(r, face) == ResolveDegree(face, r.target, FinalModifier(r))

-----------------------------------------------------------------------------
(* Rolls at the table *)

\* Mutant: the outcomes are disclosed without the edge that Spark gives.
DisclosureBeforeSpark(r, spark) ==
  [request |-> [r EXCEPT !.edge = @ \/ spark],
   outcome |-> [face \in Faces |-> ResolveCheck(r, face)]]

\* A Spark gives the check an edge before the outcomes are disclosed.
Disclosure(r, spark) ==
  LET sparked == [r EXCEPT !.edge = @ \/ spark]
  IN [request |-> sparked,
      outcome |-> [face \in Faces |-> ResolveCheck(sparked, face)]]

\* The submitted face is resolved from what the disclosure retains, and
\* refused when it does not come out as disclosed.
SubmittedDegree(disclosure, face) == ResolveCheck(disclosure.request, face)
AsDisclosed(disclosure, face) ==
  SubmittedDegree(disclosure, face) = disclosure.outcome[face]
=============================================================================
