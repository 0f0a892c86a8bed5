-------------------------- MODULE CombatTurnsProofs --------------------------
(***************************************************************************)
(* The fight stays settled: after every accepted command the state is one  *)
(* in which the next command meets no surprise.  The proof follows the     *)
(* events of a decision: each event fits the state the events before it    *)
(* leave, and what a compensation may take back it takes back, for every   *)
(* encounter, every set of abilities and every choice of the players.      *)
(***************************************************************************)
EXTENDS CombatTurns, CombatEventsProofs

-----------------------------------------------------------------------------
(* The inductive invariant *)

Targets ==
  {Objective} \cup [kind : {"self", "actor"}, actor : Actors] \cup [kind : {"zone"}, zone : Zones]
  \cup [kind : {"actor_to_zone"}, actor : Actors, zone : Zones]

\* The candidates that may wait for a physical roll.
Awaitable ==
  [actor : Actors, slot : SlotNames, kind : {"ability"}, ability : AbilityRecords,
   target : Targets]

Games ==
  [status : {"active", "awaiting_death_test", "awaiting_physical_action", "resolved"},
   trigger : {"none", "round_2", "objective_progress_2"}, round : 1 .. MaxRound,
   side : {"hero", "enemy"}, actor : Actors \cup {None}, slots : [Actors -> SUBSET SlotNames],
   spent : [Actors -> BOOLEAN], zone : [Actors -> Zones], guard : [Actors -> Nat],
   wounds : [Heroes -> 0 .. WoundSlots], dead : SUBSET Heroes, progress : 0 .. Threshold,
   overlays : SUBSET Bosses, window : Seq(Actors), checks : SUBSET {"action", "death"},
   deathCheck : {None, "death"}, actionCheck : {None, "action"}, candidate : Awaitable \cup {None},
   tested : Heroes \cup {None}, aided : BOOLEAN, spark : SUBSET Heroes,
   exertion : [Heroes -> 0 .. ExertionMax], supply : 0 .. SupplyMax, used : SUBSET Actors,
   outcome : Outcomes \cup {None}]

\* The continuation of a check that is gone is forgotten with it.
Normal(g) ==
  /\ g.actionCheck = None => g.candidate = None
  /\ g.deathCheck = None => g.tested = None /\ ~g.aided

Guarded(g) == \A a \in Actors : g.guard[a] <= GuardMax[a]

Fights == {g \in Games : ValidCombat(g) /\ Normal(g) /\ Guarded(g)}

\* A check is open as long as the combat waits for it.
Checked(g) ==
  /\ "death" \in g.checks <=> g.deathCheck # None
  /\ "action" \in g.checks <=> g.actionCheck # None
  /\ g.deathCheck # None => g.tested # None

Wounded(g) ==
  /\ \A h \in Heroes : (g.wounds[h] = WoundSlots) <=> (h \in g.dead \/ g.tested = h)
  /\ g.tested \notin g.dead

Down(g) == \A e \in Enemies : g.guard[e] = 0

\* Only a resolved fight has an outcome, and it is the one that happened.
Decided(g) ==
  /\ g.status # "resolved" => g.outcome = None
  /\ g.outcome = "heroes_prevailed" => Down(g)
  /\ (g.outcome = "heroes_defeated") <=> (g.dead = Heroes)
  /\ Down(g) => g.status = "resolved"

\* What waits for a physical roll can still be done.
Waiting(g) ==
  g.actionCheck # None =>
    /\ g.candidate \in Awaitable
    /\ g.candidate.ability \in Abilities[g.candidate.actor]
    /\ g.candidate.target \in AbilityTargets(g, g.candidate.actor, g.candidate.ability)

Idle(g, a) == g.slots[a] \subseteq {"reaction"}

\* The active actor has something left to do, and so has a hero that has not
\* acted yet.
Busy(g) ==
  /\ g.actor # None => ~Idle(g, g.actor)
  /\ \A h \in Heroes : ~g.spent[h] => ~Idle(g, h)

\* What SomeoneMayAct rests on: no reinforcement waits for the objective and
\* no reaction does harm.
Quiet ==
  /\ "objective_progress_2" \notin Triggers
  /\ \A a \in Actors : \A b \in Abilities[a] : b.slot = "reaction" => b.impact = 0

Lively(g) ==
  /\ g.trigger \in Triggers
  /\ g.actor # None => Alive(g, g.actor) /\ g.actor # g.tested
  /\ g.actor # None /\ g.actionCheck # None => SideOf(g.candidate.actor) = SideOf(g.actor)
  /\ \A a \in Actors : ~g.spent[a] => ~Idle(g, a)

Sound(g) ==
  /\ Checked(g) /\ Wounded(g) /\ Decided(g) /\ Waiting(g) /\ Busy(g)
  /\ Quiet => Lively(g)

Settled == {g \in Fights : Sound(g)}

IInv == (game = NoGame \/ game \in Settled) /\ AcceptedApplies /\ UndoRestores

\* The fight is not about to test or to resolve anything.
ActiveIn(g) == g.status = "active"

\* What the effects of an action look at.
Body(x, g) ==
  /\ x.trigger = g.trigger /\ x.round = g.round /\ x.zone = g.zone /\ x.guard = g.guard
  /\ x.wounds = g.wounds /\ x.dead = g.dead /\ x.progress = g.progress
  /\ x.overlays = g.overlays

Checks(x, g) ==
  /\ x.status = g.status /\ x.checks = g.checks /\ x.deathCheck = g.deathCheck
  /\ x.actionCheck = g.actionCheck /\ x.candidate = g.candidate /\ x.tested = g.tested
  /\ x.aided = g.aided /\ x.outcome = g.outcome

Turns(x, g) ==
  /\ x.side = g.side /\ x.actor = g.actor /\ x.slots = g.slots /\ x.spent = g.spent

-----------------------------------------------------------------------------
(* Frames *)

LEMMA ForgetsNothing ==
  ASSUME NEW x \in Games, Normal(x)
  PROVE  Forget(x) = x
BY DEF Forget, Normal, Games

\* Whatever an event leaves alone keeps what is said about it.
LEMMA ChecksKeep ==
  ASSUME NEW g \in Games, NEW x, Checks(x, g)
  PROVE  /\ Normal(g) => Normal(x)
         /\ Checked(g) => Checked(x)
BY DEF Checks, Normal, Checked

LEMMA AliveKept ==
  ASSUME NEW g, NEW x, Body(x, g), NEW a
  PROVE  Alive(x, a) = Alive(g, a)
BY DEF Body, Alive, Arrived

LEMMA TargetsKept ==
  ASSUME NEW g, NEW x, Body(x, g), NEW a, NEW b
  PROVE  AbilityTargets(x, a, b) = AbilityTargets(g, a, b)
<1>1. \A t \in Actors : Alive(x, t) = Alive(g, t)
  BY AliveKept
<1>2. \A z : Occupancy(x, z) = Occupancy(g, z)
  BY DEF Body, Occupancy
<1>3. \A t \in Actors : Movable(x, a, t, b.moves) = Movable(g, a, t, b.moves)
  BY <1>1 DEF Movable
<1>4. \A t \in Actors : Reach(x, a, t) = Reach(g, a, t)
  BY DEF Body, Reach
<1>5. x.progress = g.progress /\ x.zone = g.zone
  BY DEF Body
<1> DEFINE moved(y) == {n \in Actors \X Zones :
                         /\ Movable(y, a, n[1], b.moves)
                         /\ {y.zone[n[1]], n[2]} \in Links /\ y.zone[n[1]] # n[2]
                         /\ Occupancy(y, n[2]) < Capacity}
           struck(y) == {u \in Actors : /\ Alive(y, u)
                                        /\ (SideOf(u) # SideOf(a)) = (b.impact > 0)
                                        /\ Reach(y, a, u) <= b.range}
<1>6. moved(x) = moved(g)
  BY <1>2, <1>3, <1>5
<1>7. struck(x) = struck(g)
  BY <1>1, <1>4
<1>8. \A y : AbilityTargets(y, a, b) =
              CASE b.mode = "objective" ->
                     IF y.progress < Threshold /\ 1 + Distance(y.zone[a], Site) <= b.range
                     THEN {Objective} ELSE {}
                [] b.mode = "move" ->
                     {[kind |-> "actor_to_zone", actor |-> m[1], zone |-> m[2]] : m \in moved(y)}
                [] OTHER -> {[kind |-> "actor", actor |-> t] : t \in struck(y)}
  BY DEF AbilityTargets
<1> HIDE DEF moved, struck
<1>9. QED
  BY <1>5, <1>6, <1>7, <1>8

\* What the effects of an action look at has not changed.
LEMMA EffectsAlike ==
  ASSUME NEW g, NEW x, Body(x, g), NEW c, NEW d
  PROVE  EffectEvents(x, c, d) = EffectEvents(g, c, d)
<1>1. x.zone = g.zone /\ x.progress = g.progress
  BY DEF Body
<1>2. \A t, i : ImpactEvents(x, t, i, d) = ImpactEvents(g, t, i, d)
  BY DEF Body, ImpactEvents, WoundEvents, Overlay, Resolution
<1>3. \A n : ObjectiveEvents(x, n) = ObjectiveEvents(g, n)
  BY <1>1 DEF ObjectiveEvents
<1>4. QED
  BY <1>1, <1>2, <1>3 DEF EffectEvents

LEMMA BodyKeeps ==
  ASSUME NEW g, NEW x, Body(x, g), Checks(x, g)
  PROVE  /\ Wounded(g) => Wounded(x)
         /\ Decided(g) => Decided(x)
         /\ Waiting(g) => Waiting(x)
         /\ Guarded(g) => Guarded(x)
<1>1. Wounded(g) => Wounded(x)
  BY DEF Body, Checks, Wounded
<1>2. Decided(g) => Decided(x)
  BY DEF Body, Checks, Decided, Down
<1>3. Waiting(g) => Waiting(x)
  <2>1. \A a, b : AbilityTargets(x, a, b) = AbilityTargets(g, a, b)
    BY TargetsKept
  <2>2. x.actionCheck = g.actionCheck /\ x.candidate = g.candidate
    BY DEF Checks
  <2>3. QED
    BY <2>1, <2>2 DEF Waiting
<1>4. Guarded(g) => Guarded(x)
  BY DEF Body, Guarded
<1>5. QED
  BY <1>1, <1>2, <1>3, <1>4

LEMMA TurnsKeep ==
  ASSUME NEW g, NEW x, Turns(x, g)
  PROVE  Busy(g) => Busy(x)
BY DEF Turns, Busy, Idle

LEMMA LivelyKept ==
  ASSUME NEW g, NEW x, Turns(x, g), Body(x, g), Checks(x, g)
  PROVE  Lively(g) => Lively(x)
<1>1. \A a : Alive(x, a) = Alive(g, a)
  BY AliveKept
<1>2. QED
  BY <1>1 DEF Turns, Checks, Body, Lively, Idle

\* What the validation of a combat looks at.
LEMMA ValidKept ==
  ASSUME NEW g, NEW x, Turns(x, g), Body(x, g), Checks(x, g)
  PROVE  ValidCombat(g) => ValidCombat(x)
<1>1. \A z : Occupancy(x, z) = Occupancy(g, z)
  BY DEF Body, Occupancy
<1>2. QED
  BY <1>1 DEF Turns, Body, Checks, ValidCombat

\* An event that changes none of these leaves a settled fight.
LEMMA SettledKept ==
  ASSUME NEW g \in Settled, NEW x \in Games, Turns(x, g), Body(x, g), Checks(x, g)
  PROVE  x \in Settled /\ ValidCombat(x) /\ Forget(x) = x
<1>1. g \in Games /\ ValidCombat(g) /\ Normal(g) /\ Guarded(g) /\ Sound(g)
  BY DEF Settled, Fights
<1>2. Normal(x) /\ Guarded(x) /\ ValidCombat(x)
  BY <1>1, ChecksKeep, BodyKeeps, ValidKept
<1>3. Sound(x)
  BY <1>1, ChecksKeep, BodyKeeps, TurnsKeep, LivelyKept DEF Sound
<1>4. QED
  BY <1>2, <1>3, ForgetsNothing DEF Settled, Fights

-----------------------------------------------------------------------------
(* Events that leave turns, checks and bodies alone *)

Kept(x, g) == Turns(x, g) /\ Body(x, g) /\ Checks(x, g)

LEMMA KeptOn ==
  ASSUME NEW g, NEW x, Kept(x, g), NEW y, Kept(y, x)
  PROVE  Kept(y, g)
BY DEF Kept, Turns, Body, Checks

LEMMA SettledIs ==
  ASSUME NEW g \in Settled
  PROVE  g \in Games /\ ValidCombat(g) /\ Normal(g) /\ Guarded(g) /\ Sound(g)
BY DEF Settled, Fights

LEMMA NamesApart ==
  /\ None \notin Actors /\ None \notin Heroes /\ None \notin Enemies /\ None \notin Zones
  /\ None \notin Kinds /\ None # "action" /\ None # "death"
  /\ Heroes \subseteq Actors /\ Enemies \subseteq Actors /\ Bosses \subseteq Enemies
  /\ \A a \in Actors : (a \in Heroes) = (a \notin Enemies)
  /\ None \notin Outcomes
BY ActorsAssumption, KindsAssumption, EncounterAssumption DEF Actors

LEMMA FinalFares ==
  ASSUME NEW g, NEW e, Fits(g, e), Final(e), NEW S, Step(g, e) \in S
  PROVE  Fares(g, <<e>>, S)
BY GoesFinal DEF Fares

\* An event that touches nothing of what a settled fight is about.
LEMMA AsideFits ==
  ASSUME NEW g \in Settled, NEW e, e.kind \in Kinds, Applies(g, e),
         NEW y \in Games, Effect(g, e) = y, Kept(y, g)
  PROVE  Fits(g, e) /\ Step(g, e) = y /\ y \in Settled
BY SettledKept DEF Kept, Fits, Step

Paid(a, n, m) == [kind |-> "resource_changed", owner |-> a, previous |-> n, current |-> m]

Stocked(g, a, n) == [g EXCEPT !.exertion[a] = n]

LEMMA StockFits ==
  ASSUME NEW g \in Settled, NEW a \in Heroes, NEW n \in 0 .. ExertionMax
  PROVE  /\ Stocked(g, a, n) \in Settled
         /\ Kept(Stocked(g, a, n), g) /\ Stocked(g, a, n).used = g.used
         /\ Fits(g, Paid(a, g.exertion[a], n))
         /\ Step(g, Paid(a, g.exertion[a], n)) = Stocked(g, a, n)
<1> DEFINE e == Paid(a, g.exertion[a], n)
           y == [g EXCEPT !.exertion[a] = n]
<1>1. g \in Games /\ a # None
  BY SettledIs, NamesApart
<1>2. y \in Games /\ Kept(y, g) /\ y.used = g.used
  BY <1>1 DEF Games, Kept, Turns, Body, Checks
<1>3. e.kind \in Kinds
  BY DEF Paid, Kinds
<1>4. Applies(g, e) /\ Effect(g, e) = y
  BY <1>1 DEF Paid, Applies, HarmApplies, RecordApplies, Effect, HarmEffect, RecordEffect
<1> HIDE DEF e, y
<1>5. Fits(g, e) /\ Step(g, e) = y /\ y \in Settled
  BY <1>2, <1>3, <1>4, AsideFits
<1>6. QED
  BY <1>2, <1>5 DEF e, y, Stocked

LEMMA SupplyFits ==
  ASSUME NEW g \in Settled, NEW n \in 0 .. SupplyMax
  PROVE  /\ [g EXCEPT !.supply = n] \in Settled /\ Kept([g EXCEPT !.supply = n], g)
         /\ Fits(g, Paid(None, g.supply, n))
         /\ Step(g, Paid(None, g.supply, n)) = [g EXCEPT !.supply = n]
<1> DEFINE e == Paid(None, g.supply, n)
           y == [g EXCEPT !.supply = n]
<1>1. g \in Games
  BY SettledIs
<1>2. y \in Games /\ Kept(y, g)
  BY <1>1 DEF Games, Kept, Turns, Body, Checks
<1>3. e.kind \in Kinds
  BY DEF Paid, Kinds
<1>4. Applies(g, e) /\ Effect(g, e) = y
  BY <1>1 DEF Paid, Applies, HarmApplies, RecordApplies, Effect, HarmEffect, RecordEffect
<1> HIDE DEF e, y
<1>5. Fits(g, e) /\ Step(g, e) = y /\ y \in Settled
  BY <1>2, <1>3, <1>4, AsideFits
<1>6. QED
  BY <1>2, <1>5 DEF e, y

LEMMA StockFares ==
  ASSUME NEW g \in Settled, NEW a \in Heroes, NEW n \in 0 .. ExertionMax
  PROVE  Fares(g, <<Paid(a, g.exertion[a], n)>>, {y \in Settled : Kept(y, g) /\ y.used = g.used})
<1> DEFINE e == Paid(a, g.exertion[a], n)
           i == Paid(a, n, g.exertion[a])
           y == Stocked(g, a, n)
           m == g.exertion[a]
<1>1. y \in Settled /\ Kept(y, g) /\ y.used = g.used /\ Fits(g, e) /\ Step(g, e) = y
  BY StockFits
<1>2. g \in Games /\ m \in 0 .. ExertionMax /\ y.exertion[a] = n
  BY SettledIs DEF Games, Stocked
<1>3. InverseOf(e) = i /\ ~Skipped(e)
  BY DEF InverseOf, Skipped, NotStateChanging, Paid
<1>4. Fits(y, i) /\ Step(y, i) = g
  <2>1. \A x \in Settled : x.exertion[a] = n =>
          Fits(x, Paid(a, n, m)) /\ Step(x, Paid(a, n, m)) = Stocked(x, a, m)
    <3>1. \A x \in Settled : \A k \in 0 .. ExertionMax :
            /\ Fits(x, Paid(a, x.exertion[a], k))
            /\ Step(x, Paid(a, x.exertion[a], k)) = Stocked(x, a, k)
      BY StockFits
    <3> HIDE DEF m
    <3>2. QED
      BY <1>2, <3>1
  <2>2. Stocked(y, a, m) = g
    BY <1>2 DEF Games, Stocked
  <2> HIDE DEF y
  <2>3. QED
    BY <1>1, <1>2, <2>1, <2>2
<1> HIDE DEF e, i, y
<1>5. Goes(g, <<e>>, y)
  BY <1>1, <1>3, <1>4, GoesBack
<1>6. QED
  BY <1>1, <1>5 DEF Fares, e

LEMMA SceneFares ==
  ASSUME NEW g \in Settled, NEW a \in Actors, a \notin g.used
  PROVE  Fares(g, <<[kind |-> "scene_ability_used", actor |-> a]>>, {y \in Settled : Kept(y, g)})
<1> DEFINE e == [kind |-> "scene_ability_used", actor |-> a]
           y == [g EXCEPT !.used = @ \cup {a}]
<1>1. g \in Games /\ g.used \cup {a} \in SUBSET Actors
  BY SettledIs DEF Games
<1>2. y \in Games /\ Kept(y, g)
  BY <1>1, Zenon DEF Games, Kept, Turns, Body, Checks
<1>3. e.kind \in Kinds /\ Final(e)
  BY DEF Kinds, Final, Skipped, NotStateChanging, InverseKinds
<1>4. Applies(g, e) /\ Effect(g, e) = y
  BY <1>1 DEF Applies, HarmApplies, RecordApplies, Effect, HarmEffect, RecordEffect
<1> HIDE DEF e, y
<1>5. Fits(g, e) /\ Step(g, e) = y /\ y \in Settled
  BY <1>2, <1>3, <1>4, AsideFits
<1>6. Fares(g, <<e>>, {x \in Settled : Kept(x, g)})
  BY <1>2, <1>3, <1>5, FinalFares
<1>7. QED
  BY <1>6 DEF e

LEMMA WindowFares ==
  ASSUME NEW g \in Settled, NEW e, NEW w \in Seq(Actors),
         \/ e = [kind |-> "reaction_window_opened", eligible |-> w]
         \/ e = [kind |-> "reaction_window_closed"] /\ w = <<>>
  PROVE  Fares(g, <<e>>, Settled)
<1> DEFINE y == [g EXCEPT !.window = w]
<1>1. g \in Games
  BY SettledIs
<1>2. y \in Games /\ Kept(y, g)
  BY <1>1 DEF Games, Kept, Turns, Body, Checks
<1>3. e.kind \in Kinds /\ Final(e)
  BY DEF Kinds, Final, Skipped, NotStateChanging, InverseKinds
<1>4. Applies(g, e) /\ Effect(g, e) = y
  BY <1>1 DEF Applies, HarmApplies, RecordApplies, Effect, HarmEffect, RecordEffect
<1> HIDE DEF y
<1>5. Fits(g, e) /\ Step(g, e) = y /\ y \in Settled
  BY <1>2, <1>3, <1>4, AsideFits
<1>6. QED
  BY <1>3, <1>5, FinalFares

LEMMA SimulatedFares ==
  ASSUME NEW g \in Settled
  PROVE  Fares(g, Simulated, {g})
<1> DEFINE e == [kind |-> "check_resolved", check |-> None]
<1>1. g \in Games /\ Kept(g, g)
  BY SettledIs DEF Kept, Turns, Body, Checks
<1>2. e.kind \in Kinds /\ Skipped(e)
  BY DEF Kinds, Skipped
<1>3. Applies(g, e) /\ Effect(g, e) = g
  BY DEF Applies, HarmApplies, RecordApplies, Effect, HarmEffect, RecordEffect
<1> HIDE DEF e
<1>4. Fits(g, e) /\ Step(g, e) = g
  BY <1>1, <1>2, <1>3, AsideFits
<1>5. Goes(g, <<e>>, g)
  BY <1>2, <1>4, GoesNowhere
<1>6. QED
  BY <1>5 DEF Fares, Simulated, e

\* A hero that has no Spark is the exception that AcceptedApplies names.
LEMMA SparkFares ==
  ASSUME NEW g \in Settled, NEW a \in Heroes
  PROVE  Fares(g, <<[kind |-> "spark_spent", actor |-> a]>>, {y \in Settled : Kept(y, g)})
<1> DEFINE e == [kind |-> "spark_spent", actor |-> a]
           i == [kind |-> "spark_restored", actor |-> a]
           y == [g EXCEPT !.spark = @ \ {a}]
<1>1. g \in Games
  BY SettledIs
<1>2. CASE a \notin g.spark
  <2>1. ~Applies(g, e) /\ e.kind \in Tolerated
    BY <1>2 DEF Applies, HarmApplies, RecordApplies, Tolerated
  <2> HIDE DEF e
  <2>2. Stops(g, <<e>>)
    BY <2>1, StopsOne DEF Fits
  <2>3. QED
    BY <2>2 DEF Fares, e
<1>3. CASE a \in g.spark
  <2>1. y \in Games /\ Kept(y, g) /\ Kept(g, y) /\ a \notin y.spark
    BY <1>1 DEF Games, Kept, Turns, Body, Checks
  <2>2. e.kind \in Kinds /\ ~Skipped(e) /\ InverseOf(e) = i /\ i.kind \in Kinds
    BY DEF Kinds, Skipped, NotStateChanging, InverseOf
  <2>3. Applies(g, e) /\ Effect(g, e) = y
    BY <1>1, <1>3 DEF Applies, HarmApplies, RecordApplies, Effect, HarmEffect, RecordEffect
  <2>4. Applies(y, i) /\ Effect(y, i) = [y EXCEPT !.spark = @ \cup {a}]
    BY <1>1, <2>1 DEF Applies, HarmApplies, RecordApplies, Effect, HarmEffect, RecordEffect
  <2>5. [y EXCEPT !.spark = @ \cup {a}] = g
    <3>1. (g.spark \ {a}) \cup {a} = g.spark
      BY <1>3
    <3>2. QED
      BY <1>1, <3>1 DEF Games
  <2> HIDE DEF e, i, y
  <2>6. Fits(g, e) /\ Step(g, e) = y /\ y \in Settled
    BY <2>1, <2>2, <2>3, AsideFits
  <2>7. Fits(y, i) /\ Step(y, i) = g
    BY <1>1, <2>1, <2>2, <2>4, <2>5, <2>6, AsideFits
  <2>8. Goes(g, <<e>>, y)
    BY <2>2, <2>6, <2>7, GoesBack
  <2>9. QED
    BY <2>1, <2>6, <2>8 DEF Fares, e
<1>4. QED
  BY <1>2, <1>3

-----------------------------------------------------------------------------
(* Slots *)

\* A fight in which only the turn has changed.
LEMMA TurnSettled ==
  ASSUME NEW g \in Settled, NEW x \in Games, Body(x, g), Checks(x, g), ValidCombat(x), Busy(x),
         Lively(g) => Lively(x)
  PROVE  x \in Settled /\ Forget(x) = x
<1>1. g \in Games /\ Normal(g) /\ Guarded(g) /\ Sound(g)
  BY SettledIs
<1>2. Normal(x) /\ Guarded(x)
  BY <1>1, ChecksKeep, BodyKeeps
<1>3. Sound(x)
  BY <1>1, ChecksKeep, BodyKeeps DEF Sound
<1>4. QED
  BY <1>2, <1>3, ForgetsNothing DEF Settled, Fights

TurnFits(g, e, y) ==
  /\ Fits(g, e) /\ Step(g, e) = y /\ y \in Settled /\ Body(y, g) /\ Checks(y, g)

\* The parts of the validation that a change of turn may disturb.
LEMMA TurnValid ==
  ASSUME NEW g, NEW x, ValidCombat(g), Body(x, g), Checks(x, g),
         x.actor # None => SideOf(x.actor) = x.side /\ ~x.spent[x.actor],
         \A e \in Reinforcements :
           g.trigger # "none" /\ g.round = 1 /\ g.progress < 2 /\ g.spent[e] => x.spent[e]
  PROVE  ValidCombat(x)
<1>1. \A z : Occupancy(x, z) = Occupancy(g, z)
  BY DEF Body, Occupancy
<1>2. QED
  BY <1>1 DEF Body, Checks, ValidCombat

LEMMA SlotsLeft ==
  ASSUME NEW g \in Games, NEW a \in Actors, NEW s \in SlotNames
  PROVE  /\ SpendSlot(g, a, s) \in Games
         /\ Body(SpendSlot(g, a, s), g) /\ Checks(SpendSlot(g, a, s), g)
         /\ SpendSlot(g, a, s).slots = [g.slots EXCEPT ![a] = @ \ {s}]
         /\ SpendSlot(g, a, s).spent = [g.spent EXCEPT ![a] = g.slots[a] \ {s} \subseteq {"reaction"}]
         /\ SpendSlot(g, a, s).actor \in {g.actor, None}
<1> DEFINE left == g.slots[a] \ {s}
           done == left \subseteq {"reaction"}
           ends == s # "reaction" /\ done /\ ~g.spent[a]
           actor == IF ends THEN None ELSE g.actor
           side == IF ends THEN Opposite(SideOf(a)) ELSE g.side
           y == [g EXCEPT !.slots[a] = left, !.spent[a] = done, !.actor = actor, !.side = side]
<1>1. SpendSlot(g, a, s) = y
  BY DEF SpendSlot
<1>2. /\ left \in SUBSET SlotNames /\ done \in BOOLEAN /\ actor \in Actors \cup {None}
      /\ side \in {"hero", "enemy"} /\ actor \in {g.actor, None}
  BY DEF Games, Opposite
<1>3. [g.slots EXCEPT ![a] = left] \in [Actors -> SUBSET SlotNames]
  BY <1>2 DEF Games
<1>4. [g.spent EXCEPT ![a] = done] \in [Actors -> BOOLEAN]
  BY <1>2 DEF Games
<1> HIDE DEF left, done, actor, side
<1>5. y = [g EXCEPT !.slots = [g.slots EXCEPT ![a] = left], !.spent = [g.spent EXCEPT ![a] = done],
                    !.actor = actor, !.side = side]
  OBVIOUS
<1>6. y \in Games
  BY <1>2, <1>3, <1>4, <1>5 DEF Games
<1>7. /\ Body(y, g) /\ Checks(y, g) /\ y.actor = actor
      /\ y.slots = [g.slots EXCEPT ![a] = left] /\ y.spent = [g.spent EXCEPT ![a] = done]
  BY <1>5 DEF Body, Checks, Games
<1> HIDE DEF y
<1>8. QED
  BY <1>1, <1>2, <1>6, <1>7 DEF left, done

\* The active actor spends a slot; the second one ends its activation.
LEMMA SlotFits ==
  ASSUME NEW g \in Settled, NEW a \in Actors, g.actor = a, NEW s \in g.slots[a], s # "reaction"
  PROVE  TurnFits(g, [kind |-> "action_slot_spent", actor |-> a, slot |-> s], SpendSlot(g, a, s))
<1> DEFINE e == [kind |-> "action_slot_spent", actor |-> a, slot |-> s]
           y == SpendSlot(g, a, s)
           done == g.slots[a] \ {s} \subseteq {"reaction"}
<1>1. g \in Games /\ ValidCombat(g) /\ Sound(g) /\ s \in SlotNames /\ a # None
  BY SettledIs, NamesApart DEF Games
<1>2. /\ y \in Games /\ Body(y, g) /\ Checks(y, g)
      /\ y.slots = [g.slots EXCEPT ![a] = @ \ {s}] /\ y.spent = [g.spent EXCEPT ![a] = done]
  BY <1>1, SlotsLeft
<1>3. ~g.spent[a] /\ SideOf(a) = g.side
  BY <1>1 DEF ValidCombat
<1>4. y.actor = (IF done THEN None ELSE a) /\ y.side = (IF done THEN Opposite(SideOf(a)) ELSE g.side)
  BY <1>1, <1>3 DEF SpendSlot, Games
<1>5. e.kind \in Kinds /\ Applies(g, e) /\ Effect(g, e) = y
  BY DEF Kinds, Applies, Effect
<1> HIDE DEF e, y, done
<1>6. /\ g.slots \in [Actors -> SUBSET SlotNames] /\ g.spent \in [Actors -> BOOLEAN]
      /\ done \in BOOLEAN
  BY <1>1 DEF Games, done
<1>7. /\ y.spent[a] = done /\ y.slots[a] = g.slots[a] \ {s}
      /\ \A b \in Actors \ {a} : y.spent[b] = g.spent[b] /\ y.slots[b] = g.slots[b]
  BY <1>2, <1>6
<1>8. ValidCombat(y)
  <2>1. y.actor # None => SideOf(y.actor) = y.side /\ ~y.spent[y.actor]
    BY <1>3, <1>4, <1>7
  <2>2. \A b \in Reinforcements : g.spent[b] => y.spent[b]
    BY <1>3, <1>7, ActorsAssumption DEF Actors
  <2>3. QED
    BY <1>1, <1>2, <2>1, <2>2, TurnValid
<1>9. \A b \in Actors : (~g.spent[b] => ~Idle(g, b)) => (~y.spent[b] => ~Idle(y, b))
  BY <1>7 DEF Idle, done
<1>10. Busy(y)
  <2>1. y.actor # None => ~Idle(y, y.actor)
    BY <1>4, <1>7 DEF Idle, done
  <2>2. QED
    BY <1>1, <1>9, <2>1, NamesApart DEF Sound, Busy
<1>11. Lively(g) => Lively(y)
  <2>1. SUFFICES ASSUME Lively(g) PROVE Lively(y)
    OBVIOUS
  <2>2. Alive(y, a) = Alive(g, a)
    BY <1>2, AliveKept
  <2>3. y.actor # None => y.actor = a
    BY <1>4
  <2>4. y.trigger = g.trigger /\ y.tested = g.tested /\ y.actionCheck = g.actionCheck
        /\ y.candidate = g.candidate
    BY <1>2 DEF Body, Checks
  <2>5. \A b \in Actors : ~y.spent[b] => ~Idle(y, b)
    BY <1>9, <2>1 DEF Lively
  <2>6. QED
    BY <1>1, <2>1, <2>2, <2>3, <2>4, <2>5 DEF Lively
<1>12. y \in Settled /\ Forget(y) = y
  BY <1>2, <1>8, <1>10, <1>11, TurnSettled
<1>13. QED
  BY <1>2, <1>5, <1>8, <1>12 DEF TurnFits, Fits, Step, e, y

\* Anybody alive may spend its reaction.
LEMMA ReactionFits ==
  ASSUME NEW g \in Settled, NEW a \in Actors, Alive(g, a), "reaction" \in g.slots[a]
  PROVE  /\ TurnFits(g, [kind |-> "action_slot_spent", actor |-> a, slot |-> "reaction"],
                     SpendSlot(g, a, "reaction"))
         /\ SpendSlot(g, a, "reaction").actor = g.actor
<1> DEFINE s == "reaction"
           e == [kind |-> "action_slot_spent", actor |-> a, slot |-> s]
           y == SpendSlot(g, a, s)
           done == g.slots[a] \ {s} \subseteq {"reaction"}
<1>1. g \in Games /\ ValidCombat(g) /\ Sound(g) /\ s \in SlotNames /\ a # None
  BY SettledIs, NamesApart DEF Games, SlotNames
<1>2. /\ y \in Games /\ Body(y, g) /\ Checks(y, g)
      /\ y.slots = [g.slots EXCEPT ![a] = @ \ {s}] /\ y.spent = [g.spent EXCEPT ![a] = done]
  BY <1>1, SlotsLeft
<1>3. y.actor = g.actor /\ y.side = g.side
  BY <1>1 DEF SpendSlot, Games
<1>4. e.kind \in Kinds /\ Applies(g, e) /\ Effect(g, e) = y
  BY DEF Kinds, Applies, Effect
<1>5. done = Idle(g, a)
  BY DEF Idle
<1>6. \A b \in Reinforcements : ~(g.trigger # "none" /\ g.round = 1 /\ g.progress < 2 /\ b = a)
  <2>1. SUFFICES ASSUME a \in Reinforcements PROVE ~(g.trigger # "none" /\ g.round = 1 /\ g.progress < 2)
    OBVIOUS
  <2>2. Arrived(g, a)
    BY <2>1, ActorsAssumption DEF Alive
  <2>3. g.round \in Nat /\ g.progress \in Nat
    BY <1>1, EncounterAssumption, BoundsAssumption DEF Games
  <2>4. QED
    BY <2>1, <2>2, <2>3 DEF Arrived
<1> HIDE DEF e, y, done, s
<1>7. /\ g.slots \in [Actors -> SUBSET SlotNames] /\ g.spent \in [Actors -> BOOLEAN]
      /\ done \in BOOLEAN
  BY <1>1, <1>5 DEF Games, Idle
<1>8. /\ y.spent[a] = done /\ y.slots[a] = g.slots[a] \ {s}
      /\ \A b \in Actors \ {a} : y.spent[b] = g.spent[b] /\ y.slots[b] = g.slots[b]
  BY <1>2, <1>7
<1>9. \A b \in Actors : Idle(y, b) = Idle(g, b)
  BY <1>8 DEF Idle, s
<1>10. g.actor # None => ~Idle(g, g.actor) /\ g.actor \in Actors
  BY <1>1 DEF Sound, Busy, Games
<1>11. ValidCombat(y)
  <2>1. y.actor # None => SideOf(y.actor) = y.side /\ ~y.spent[y.actor]
    BY <1>1, <1>3, <1>5, <1>8, <1>10 DEF ValidCombat
  <2>2. \A b \in Reinforcements :
          g.trigger # "none" /\ g.round = 1 /\ g.progress < 2 /\ g.spent[b] => y.spent[b]
    BY <1>6, <1>8, ActorsAssumption DEF Actors
  <2>3. QED
    BY <1>1, <1>2, <2>1, <2>2, TurnValid
<1>12. \A b \in Actors : (~g.spent[b] => ~Idle(g, b)) => (~y.spent[b] => ~Idle(y, b))
  BY <1>5, <1>8, <1>9
<1>13. Busy(y)
  BY <1>1, <1>3, <1>9, <1>10, <1>12, NamesApart DEF Sound, Busy
<1>14. Lively(g) => Lively(y)
  <2>1. SUFFICES ASSUME Lively(g) PROVE Lively(y)
    OBVIOUS
  <2>2. \A b : Alive(y, b) = Alive(g, b)
    BY <1>2, AliveKept
  <2>3. y.trigger = g.trigger /\ y.tested = g.tested /\ y.actionCheck = g.actionCheck
        /\ y.candidate = g.candidate
    BY <1>2 DEF Body, Checks
  <2>4. \A b \in Actors : ~y.spent[b] => ~Idle(y, b)
    BY <1>12, <2>1 DEF Lively
  <2>5. QED
    BY <1>3, <2>1, <2>2, <2>3, <2>4 DEF Lively
<1>15. y \in Settled /\ Forget(y) = y
  BY <1>2, <1>11, <1>13, <1>14, TurnSettled
<1>16. QED
  BY <1>2, <1>3, <1>4, <1>11, <1>15 DEF TurnFits, Fits, Step, e, y, s

\* What the active actor spends can be given back.
LEMMA SlotFares ==
  ASSUME NEW g \in Settled, NEW a \in Actors, g.actor = a, NEW s \in g.slots[a], s # "reaction"
  PROVE  Fares(g, <<[kind |-> "action_slot_spent", actor |-> a, slot |-> s]>>,
               {y \in Settled : Body(y, g) /\ Checks(y, g) /\ y.actor \in {a, None}})
<1> DEFINE e == [kind |-> "action_slot_spent", actor |-> a, slot |-> s]
           i == [kind |-> "action_slot_restored", actor |-> a, slot |-> s]
           y == SpendSlot(g, a, s)
<1>1. g \in Games /\ ValidCombat(g) /\ s \in SlotNames /\ a # None
  BY SettledIs, NamesApart DEF Games
<1>2. Fits(g, e) /\ Step(g, e) = y /\ y \in Settled /\ Body(y, g) /\ Checks(y, g)
  BY SlotFits DEF TurnFits
<1>3. y.actor \in {a, None}
  BY <1>1, SlotsLeft
<1>4. ~Skipped(e) /\ InverseOf(e) = i /\ i.kind \in Kinds
  BY DEF Skipped, NotStateChanging, InverseOf, Kinds
<1>5. Applies(y, i) /\ Effect(y, i) = RestoreSlot(y, a, s)
  BY DEF Applies, HarmApplies, RecordApplies, Effect
<1>6. RestoreSlot(y, a, s) = g
  <2>1. ~g.spent[a] /\ SideOf(a) = g.side
    BY <1>1 DEF ValidCombat
  <2> DEFINE left == g.slots[a] \ {s}
             done == left \subseteq {"reaction"}
             actor == IF s # "reaction" /\ done /\ ~g.spent[a] THEN None ELSE g.actor
             side == IF s # "reaction" /\ done /\ ~g.spent[a] THEN Opposite(SideOf(a)) ELSE g.side
             slots == [g.slots EXCEPT ![a] = left]
             spent == [g.spent EXCEPT ![a] = done]
  <2>2. y = [g EXCEPT !.slots = slots, !.spent = spent, !.actor = actor, !.side = side]
    BY DEF SpendSlot
  <2>3. [slots EXCEPT ![a] = @ \cup {s}] = g.slots
    <3>1. left \cup {s} = g.slots[a]
      OBVIOUS
    <3>2. g.slots \in [Actors -> SUBSET SlotNames]
      BY <1>1 DEF Games
    <3> HIDE DEF left
    <3>3. QED
      BY <3>1, <3>2
  <2>4. [spent EXCEPT ![a] = FALSE] = g.spent
    <3>1. g.spent \in [Actors -> BOOLEAN] /\ g.spent[a] = FALSE
      BY <1>1, <2>1 DEF Games
    <3> HIDE DEF done
    <3>2. QED
      BY <3>1
  <2> HIDE DEF slots, spent, actor, side, y
  <2>5. RestoreSlot(y, a, s) = [y EXCEPT !.slots = [y.slots EXCEPT ![a] = @ \cup {s}],
                                         !.spent = [y.spent EXCEPT ![a] = FALSE],
                                         !.actor = a, !.side = SideOf(a)]
    BY DEF RestoreSlot
  <2>6. y.slots = slots /\ y.spent = spent
    BY <1>1, <2>2 DEF Games
  <2>7. RestoreSlot(y, a, s) = [y EXCEPT !.slots = g.slots, !.spent = g.spent, !.actor = g.actor,
                                         !.side = g.side]
    BY <2>1, <2>3, <2>4, <2>5, <2>6
  <2>8. [y EXCEPT !.slots = g.slots, !.spent = g.spent, !.actor = g.actor, !.side = g.side] = g
    <3>1. \A k \in DOMAIN g : k \notin {"slots", "spent", "actor", "side"} => y[k] = g[k]
      BY <1>1, <2>2 DEF Games
    <3>2. DOMAIN y = DOMAIN g /\ {"slots", "spent", "actor", "side"} \subseteq DOMAIN g
      BY <1>1, <2>2 DEF Games
    <3>3. g = [k \in DOMAIN g |-> g[k]]
      BY <1>1 DEF Games
    <3>4. QED
      BY <2>2, <3>1, <3>2, <3>3
  <2>9. QED
    BY <2>7, <2>8
<1> HIDE DEF e, i, y
<1>7. Fits(y, i) /\ Step(y, i) = g
  BY <1>1, <1>4, <1>5, <1>6, SettledIs, ForgetsNothing DEF Fits, Step
<1>8. Goes(g, <<e>>, y)
  BY <1>2, <1>4, <1>7, GoesBack
<1>9. QED
  BY <1>2, <1>3, <1>8 DEF Fares, e

-----------------------------------------------------------------------------
(* Fights that nothing waits for *)

\* An active fight of which only the end may be missing.
Open ==
  {x \in Fights : /\ x.status = "active" /\ x.outcome = None
                  /\ Checked(x) /\ Wounded(x) /\ Busy(x) /\ (Quiet => Lively(x))}

LEMMA OpenIs ==
  ASSUME NEW x \in Open
  PROVE  /\ x \in Games /\ ValidCombat(x) /\ Normal(x) /\ Guarded(x)
         /\ Checked(x) /\ Wounded(x) /\ Busy(x) /\ (Quiet => Lively(x))
         /\ x.status = "active" /\ x.outcome = None
         /\ x.deathCheck = None /\ x.actionCheck = None /\ x.tested = None /\ x.candidate = None
BY DEF Open, Fights, ValidCombat, Normal

LEMMA OpenSettled ==
  ASSUME NEW x \in Open, ~Down(x), x.dead # Heroes
  PROVE  x \in Settled
<1>1. Waiting(x)
  BY OpenIs DEF Waiting
<1>2. Decided(x)
  BY OpenIs, NamesApart DEF Decided, Outcomes
<1>3. QED
  BY <1>1, <1>2 DEF Open, Settled, Sound

LEMMA SettledOpen ==
  ASSUME NEW g \in Settled, ActiveIn(g)
  PROVE  g \in Open /\ ~Down(g) /\ g.dead # Heroes
<1>1. g.outcome = None /\ ~Down(g) /\ g.dead # Heroes
  BY NamesApart DEF Settled, Sound, Decided, ActiveIn, Outcomes
<1>2. QED
  BY <1>1 DEF Settled, Sound, Open, ActiveIn

\* How an open fight stays one.
LEMMA OpenKept ==
  ASSUME NEW g \in Open, NEW x \in Games, Checks(x, g), ValidCombat(x), Guarded(x), Wounded(x),
         Busy(x), Quiet /\ Lively(g) => Lively(x)
  PROVE  x \in Open /\ Forget(x) = x
<1>1. Normal(x) /\ Checked(x)
  BY OpenIs, ChecksKeep
<1>2. x.status = "active" /\ x.outcome = None
  BY OpenIs DEF Checks
<1>3. QED
  BY <1>1, <1>2, OpenIs, ForgetsNothing DEF Open, Fights

\* The fight ends, with an outcome that is right.
LEMMA ResolvedFits ==
  ASSUME NEW x \in Open, NEW o \in Outcomes, o = "heroes_prevailed" => Down(x),
         (o = "heroes_defeated") <=> (x.dead = Heroes)
  PROVE  /\ Fits(x, [kind |-> "combat_resolved", outcome |-> o])
         /\ Step(x, [kind |-> "combat_resolved", outcome |-> o]) \in Settled
<1> DEFINE e == [kind |-> "combat_resolved", outcome |-> o]
           y == [x EXCEPT !.status = "resolved", !.outcome = o]
<1>1. /\ x \in Games /\ ValidCombat(x) /\ Normal(x) /\ Guarded(x)
      /\ Checked(x) /\ Wounded(x) /\ Busy(x) /\ (Quiet => Lively(x))
      /\ x.status = "active" /\ x.deathCheck = None /\ x.actionCheck = None
  BY OpenIs
<1>2. e.kind \in Kinds /\ Applies(x, e) /\ Effect(x, e) = y
  BY DEF Kinds, Applies, HarmApplies, RecordApplies, Effect, HarmEffect
<1>3. y \in Games
  BY <1>1 DEF Games
<1>4. /\ Turns(y, x) /\ Body(y, x) /\ y.checks = x.checks /\ y.deathCheck = x.deathCheck
      /\ y.actionCheck = x.actionCheck /\ y.candidate = x.candidate /\ y.tested = x.tested
      /\ y.aided = x.aided /\ y.status = "resolved" /\ y.outcome = o
  BY <1>1 DEF Games, Turns, Body
<1> HIDE DEF e, y
<1>5. ValidCombat(y)
  <2>1. \A z : Occupancy(y, z) = Occupancy(x, z)
    BY <1>4 DEF Body, Occupancy
  <2>2. QED
    BY <1>1, <1>4, <2>1 DEF Turns, Body, ValidCombat
<1>6. Normal(y) /\ Checked(y) /\ Wounded(y) /\ Guarded(y) /\ Busy(y) /\ Waiting(y)
  <2>1. Normal(y) /\ Checked(y)
    BY <1>1, <1>4 DEF Normal, Checked
  <2>2. Wounded(y) /\ Guarded(y)
    BY <1>1, <1>4 DEF Wounded, Guarded, Body
  <2>3. Busy(y) /\ Waiting(y)
    BY <1>1, <1>4, TurnsKeep DEF Waiting
  <2>4. QED
    BY <2>1, <2>2, <2>3
<1>7. Decided(y)
  BY <1>1, <1>4 DEF Decided, Down, Body
<1>8. Quiet => Lively(y)
  <2>1. \A a : Alive(y, a) = Alive(x, a)
    BY <1>4, AliveKept
  <2>2. QED
    BY <1>1, <1>4, <2>1 DEF Turns, Body, Lively, Idle
<1>9. QED
  BY <1>2, <1>3, <1>5, <1>6, <1>7, <1>8, ForgetsNothing DEF Fits, Step, Settled, Fights, Sound, e

-----------------------------------------------------------------------------
(* Positions, the objective and reactions that are given back *)

In(g, z) == {a \in Actors : g.zone[a] = z}

LEMMA OccupancyIs ==
  ASSUME NEW g, NEW z
  PROVE  /\ IsFiniteSet(In(g, z)) /\ Occupancy(g, z) = Cardinality(In(g, z))
         /\ Occupancy(g, z) \in Nat
<1>1. IsFiniteSet(In(g, z))
  <2>1. In(g, z) \subseteq Actors
    BY DEF In
  <2>2. QED
    BY <2>1, ActorsAssumption, FS_Subset
<1>2. Occupancy(g, z) = Cardinality(In(g, z))
  BY DEF Occupancy, In
<1>3. QED
  BY <1>1, <1>2, FS_CardinalityType

\* Somebody leaves one zone for another.
LEMMA Relocated ==
  ASSUME NEW g, g.zone \in [Actors -> Zones], NEW t \in Actors, NEW z \in Zones, z # g.zone[t],
         NEW y, y.zone = [g.zone EXCEPT ![t] = z]
  PROVE  /\ Occupancy(y, z) = Occupancy(g, z) + 1
         /\ Occupancy(y, g.zone[t]) = Occupancy(g, g.zone[t]) - 1
         /\ \A u \in Zones \ {z, g.zone[t]} : Occupancy(y, u) = Occupancy(g, u)
<1> DEFINE w == g.zone[t]
<1>1. In(y, z) = In(g, z) \cup {t} /\ t \notin In(g, z)
  BY DEF In
<1>2. In(y, w) = In(g, w) \ {t} /\ t \in In(g, w)
  BY DEF In
<1>3. \A u \in Zones \ {z, w} : In(y, u) = In(g, u)
  BY DEF In
<1>4. \A u : IsFiniteSet(In(g, u)) /\ Occupancy(g, u) = Cardinality(In(g, u))
  BY OccupancyIs
<1>5. \A u : Occupancy(y, u) = Cardinality(In(y, u))
  BY OccupancyIs
<1>6. Cardinality(In(g, z) \cup {t}) = Cardinality(In(g, z)) + 1
  BY <1>1, <1>4, FS_AddElement
<1>7. Cardinality(In(g, w) \ {t}) = Cardinality(In(g, w)) - 1
  BY <1>2, <1>4, FS_RemoveElement
<1>8. QED
  BY <1>1, <1>2, <1>3, <1>4, <1>5, <1>6, <1>7

Moved(t, y, z) == [kind |-> "actor_moved", actor |-> t, from |-> y, to |-> z]
Relocate(g, t, z) == [g EXCEPT !.zone[t] = z]

LEMMA MovedFits ==
  ASSUME NEW g \in Open, NEW t \in Actors, NEW z \in Zones, z # g.zone[t],
         Occupancy(g, z) < Capacity
  PROVE  /\ Fits(g, Moved(t, g.zone[t], z)) /\ Step(g, Moved(t, g.zone[t], z)) = Relocate(g, t, z)
         /\ Relocate(g, t, z) \in Open
         /\ Occupancy(Relocate(g, t, z), g.zone[t]) < Capacity
<1> DEFINE e == Moved(t, g.zone[t], z)
           y == Relocate(g, t, z)
<1>1. /\ g \in Games /\ ValidCombat(g) /\ Guarded(g) /\ Wounded(g) /\ Busy(g)
      /\ g.zone \in [Actors -> Zones]
  BY OpenIs DEF Games
<1>2. e.kind \in Kinds /\ Applies(g, e) /\ Effect(g, e) = y
  BY DEF Moved, Relocate, Kinds, Applies, Effect
<1>3. y.zone = [g.zone EXCEPT ![t] = z]
  BY <1>1 DEF Relocate, Games
<1>4. [g.zone EXCEPT ![t] = z] \in [Actors -> Zones]
  BY <1>1
<1>5. y \in Games
  BY <1>1, <1>4, Zenon DEF Relocate, Games
<1>6. /\ Turns(y, g) /\ Checks(y, g) /\ y.trigger = g.trigger /\ y.round = g.round
      /\ y.guard = g.guard /\ y.wounds = g.wounds /\ y.dead = g.dead /\ y.progress = g.progress
  BY <1>1 DEF Relocate, Games, Turns, Checks
<1> HIDE DEF e, y
<1>7. /\ Occupancy(y, z) = Occupancy(g, z) + 1
      /\ Occupancy(y, g.zone[t]) = Occupancy(g, g.zone[t]) - 1
      /\ \A u \in Zones \ {z, g.zone[t]} : Occupancy(y, u) = Occupancy(g, u)
  BY <1>1, <1>3, Relocated
<1>8. \A u : Occupancy(g, u) \in Nat
  BY OccupancyIs
<1>9. /\ \A u \in Zones : Occupancy(y, u) <= Capacity
      /\ Occupancy(y, g.zone[t]) < Capacity
  <2>1. Capacity \in Nat /\ g.zone[t] \in Zones /\ \A u \in Zones : Occupancy(g, u) <= Capacity
    BY <1>1, BoundsAssumption DEF ValidCombat
  <2>2. Occupancy(y, z) <= Capacity
    BY <1>7, <1>8, <2>1
  <2>3. Occupancy(y, g.zone[t]) < Capacity
    BY <1>7, <1>8, <2>1
  <2>4. Occupancy(y, g.zone[t]) <= Capacity
    BY <1>7, <1>8, <2>1
  <2>5. QED
    BY <1>7, <2>1, <2>2, <2>3, <2>4
<1>10. ValidCombat(y)
  BY <1>1, <1>6, <1>9 DEF ValidCombat, Turns, Checks
<1>11. Guarded(y) /\ Wounded(y) /\ Busy(y)
  BY <1>1, <1>6, TurnsKeep DEF Guarded, Wounded, Checks
<1>12. Lively(g) => Lively(y)
  <2>1. \A a : Alive(y, a) = Alive(g, a)
    BY <1>6 DEF Alive, Arrived
  <2>2. QED
    BY <1>6, <2>1 DEF Lively, Turns, Checks, Idle
<1>13. y \in Open /\ Forget(y) = y
  BY <1>5, <1>6, <1>10, <1>11, <1>12, OpenKept
<1>14. QED
  BY <1>2, <1>9, <1>10, <1>13 DEF Fits, Step, e, y

LEMMA MovedFares ==
  ASSUME NEW g \in Settled, ActiveIn(g), NEW t \in Actors, NEW z \in Zones, z # g.zone[t],
         Occupancy(g, z) < Capacity
  PROVE  Fares(g, <<Moved(t, g.zone[t], z)>>, Settled)
<1> DEFINE w == g.zone[t]
           y == Relocate(g, t, z)
           e == Moved(t, w, z)
           i == Moved(t, z, w)
<1>1. g \in Open /\ ~Down(g) /\ g.dead # Heroes
  BY SettledOpen
<1>2. g \in Games /\ g.zone \in [Actors -> Zones] /\ w \in Zones
  BY <1>1, OpenIs DEF Games
<1>3. Fits(g, e) /\ Step(g, e) = y /\ y \in Open /\ Occupancy(y, w) < Capacity
  BY <1>1, MovedFits
<1>4. y.zone[t] = z /\ y.guard = g.guard /\ y.dead = g.dead
  BY <1>2 DEF Games, Relocate
<1>5. y \in Settled
  BY <1>1, <1>3, <1>4, OpenSettled DEF Down
<1>6. InverseOf(e) = i /\ ~Skipped(e)
  BY DEF InverseOf, Skipped, NotStateChanging, Moved
<1>7. Relocate(y, t, w) = g
  BY <1>2 DEF Relocate, Games
<1>8. Fits(y, i) /\ Step(y, i) = Relocate(y, t, w)
  <2> HIDE DEF w, y, e
  <2>1. w # y.zone[t]
    BY <1>4 DEF w
  <2>2. QED
    BY <1>2, <1>3, <1>4, <2>1, MovedFits
<1> HIDE DEF w, y, e, i
<1>9. Goes(g, <<e>>, y)
  BY <1>3, <1>6, <1>7, <1>8, GoesBack
<1>10. QED
  BY <1>5, <1>9 DEF Fares, e, w

LEMMA ObjectiveFares ==
  ASSUME NEW g \in Settled, ActiveIn(g), NEW n \in Nat
  PROVE  Fares(g, ObjectiveEvents(g, n), Settled)
<1> DEFINE m == IF g.progress + n < Threshold THEN g.progress + n ELSE Threshold
           e == [kind |-> "objective_advanced", previous |-> g.progress, current |-> m]
           spent == [a \in Actors |-> g.spent[a] /\ ~(/\ m >= 2 /\ a \in Reinforcements
                                                     /\ g.trigger = "objective_progress_2")]
           y == [g EXCEPT !.progress = m, !.spent = spent]
<1>1. g \in Open /\ ~Down(g) /\ g.dead # Heroes
  BY SettledOpen
<1>2. /\ g \in Games /\ ValidCombat(g) /\ Guarded(g) /\ Wounded(g) /\ Busy(g)
      /\ g.progress \in 0 .. Threshold /\ Threshold \in Nat
      /\ g.spent \in [Actors -> BOOLEAN]
  BY <1>1, OpenIs, BoundsAssumption DEF Games
<1>3. m \in g.progress .. Threshold /\ m \in 0 .. Threshold
  BY <1>2
<1>4. e.kind \in Kinds /\ Final(e)
  BY DEF Kinds, Final, Skipped, NotStateChanging, InverseKinds
<1>5. Applies(g, e) /\ Effect(g, e) = y
  BY <1>3 DEF Applies, HarmApplies, Effect, HarmEffect, AdvanceObjective
<1>6. spent \in [Actors -> BOOLEAN]
  OBVIOUS
<1> HIDE DEF m, spent
<1>7. y \in Games
  BY <1>2, <1>3, <1>6, Zenon DEF Games
<1>8. /\ y.spent = spent /\ y.progress = m /\ y.side = g.side /\ y.actor = g.actor
      /\ y.slots = g.slots /\ Checks(y, g) /\ y.trigger = g.trigger /\ y.round = g.round
      /\ y.guard = g.guard /\ y.wounds = g.wounds /\ y.dead = g.dead /\ y.zone = g.zone
  BY <1>2 DEF Games, Checks
<1> HIDE DEF y, e
<1>9. /\ \A a \in Actors : spent[a] => g.spent[a]
      /\ \A a \in Actors : g.spent[a] /\ (a \notin Reinforcements \/ m < 2) => spent[a]
      /\ g.trigger # "objective_progress_2" => \A a \in Actors : spent[a] = g.spent[a]
  BY <1>2, <1>3 DEF spent
<1>10. ValidCombat(y)
  <2>1. \A u : Occupancy(y, u) = Occupancy(g, u)
    BY <1>8 DEF Occupancy
  <2>2. Reinforcements \subseteq Actors /\ g.actor \in Actors \cup {None}
    BY <1>2, ActorsAssumption DEF Actors, Games
  <2>3. y.actor # None => SideOf(y.actor) = y.side /\ ~y.spent[y.actor]
    BY <1>2, <1>8, <1>9, <2>2 DEF ValidCombat
  <2>4. y.trigger # "none" /\ y.round = 1 /\ y.progress < 2 => \A e1 \in Reinforcements : y.spent[e1]
    <3>1. m < 2 => g.progress < 2
      BY <1>2, <1>3
    <3>2. QED
      BY <1>2, <1>8, <1>9, <2>2, <3>1 DEF ValidCombat
  <2>5. y.progress <= Threshold
    BY <1>3, <1>8
  <2>6. QED
    BY <1>2, <1>8, <2>1, <2>3, <2>4, <2>5 DEF ValidCombat, Checks
<1>11. Guarded(y) /\ Wounded(y)
  BY <1>2, <1>8 DEF Guarded, Wounded, Checks
<1>12. Busy(y)
  <2>1. \A h \in Heroes : h \in Actors /\ h \notin Reinforcements
    BY ActorsAssumption DEF Actors
  <2>2. QED
    BY <1>2, <1>8, <1>9, <2>1 DEF Busy, Idle
<1>13. Quiet /\ Lively(g) => Lively(y)
  <2>1. SUFFICES ASSUME Quiet, Lively(g) PROVE Lively(y)
    OBVIOUS
  <2>2. g.trigger # "objective_progress_2"
    BY <2>1 DEF Quiet, Lively
  <2>3. \A a : Alive(y, a) = Alive(g, a)
    BY <1>8, <2>2 DEF Alive, Arrived
  <2>4. QED
    BY <1>2, <1>8, <1>9, <2>1, <2>2, <2>3 DEF Lively, Checks, Idle, Games
<1>14. y \in Open /\ Forget(y) = y
  BY <1>1, <1>7, <1>8, <1>10, <1>11, <1>12, <1>13, OpenKept
<1>15. y \in Settled
  BY <1>1, <1>8, <1>14, OpenSettled DEF Down
<1>16. Fares(g, <<e>>, Settled)
  BY <1>4, <1>5, <1>10, <1>14, <1>15, FinalFares DEF Fits, Step
<1>17. QED
  BY <1>16 DEF ObjectiveEvents, e, m

\* An actor that still holds its reaction is the exception that
\* AcceptedApplies names.
LEMMA RestoredFares ==
  ASSUME NEW g \in Settled, NEW t \in Actors
  PROVE  Fares(g, <<[kind |-> "reaction_restored", actor |-> t]>>, Settled)
<1> DEFINE e == [kind |-> "reaction_restored", actor |-> t]
           slots == [g.slots EXCEPT ![t] = @ \cup {"reaction"}]
           y == [g EXCEPT !.slots = slots]
<1>1. g \in Games /\ ValidCombat(g) /\ Sound(g) /\ g.slots \in [Actors -> SUBSET SlotNames]
  BY SettledIs DEF Games
<1>2. CASE "reaction" \in g.slots[t]
  <2>1. ~Applies(g, e) /\ e.kind \in Tolerated
    BY <1>2 DEF Applies, Tolerated
  <2> HIDE DEF e
  <2>2. Stops(g, <<e>>)
    BY <2>1, StopsOne DEF Fits
  <2>3. QED
    BY <2>2 DEF Fares, e
<1>3. CASE "reaction" \notin g.slots[t]
  <2>1. e.kind \in Kinds /\ Final(e)
    BY DEF Kinds, Final, Skipped, NotStateChanging, InverseKinds
  <2>2. Applies(g, e) /\ Effect(g, e) = y
    BY <1>3 DEF Applies, Effect
  <2>3. slots \in [Actors -> SUBSET SlotNames]
    BY <1>1 DEF SlotNames
  <2>4. \A a \in Actors : slots[a] \subseteq {"reaction"} <=> g.slots[a] \subseteq {"reaction"}
    BY <1>1
  <2> HIDE DEF slots
  <2>5. y \in Games
    BY <1>1, <2>3, Zenon DEF Games
  <2>6. /\ Body(y, g) /\ Checks(y, g) /\ y.side = g.side /\ y.actor = g.actor /\ y.spent = g.spent
        /\ y.slots = slots
    BY <1>1 DEF Games, Body, Checks
  <2> HIDE DEF e, y
  <2>7. \A a \in Actors : Idle(y, a) <=> Idle(g, a)
    BY <2>4, <2>6 DEF Idle
  <2>8. ValidCombat(y)
    BY <1>1, <2>6, TurnValid DEF ValidCombat
  <2>9. Busy(y)
    BY <1>1, <2>6, <2>7, NamesApart DEF Sound, Busy, Games
  <2>10. Lively(g) => Lively(y)
    <3>1. \A a : Alive(y, a) = Alive(g, a)
      BY <2>6, AliveKept
    <3>2. QED
      BY <2>6, <2>7, <3>1 DEF Lively, Body, Checks
  <2>11. y \in Settled /\ Forget(y) = y
    BY <2>5, <2>6, <2>8, <2>9, <2>10, TurnSettled
  <2>12. Fares(g, <<e>>, Settled)
    BY <2>1, <2>2, <2>8, <2>11, FinalFares DEF Fits, Step
  <2>13. QED
    BY <2>12 DEF e
<1>4. QED
  BY <1>2, <1>3

-----------------------------------------------------------------------------
(* Physical rolls *)

LEMMA TwoJoined ==
  ASSUME NEW e, NEW f
  PROVE  <<e, f>> = <<e>> \o <<f>>
<1> DEFINE T == {e, f}
           l == <<e, f>>
           r == <<e>> \o <<f>>
<1>1. /\ l \in Seq(T) /\ Len(l) = 2 /\ l[1] = e /\ l[2] = f
      /\ <<e>> \in Seq(T) /\ Len(<<e>>) = 1 /\ <<e>>[1] = e
      /\ <<f>> \in Seq(T) /\ Len(<<f>>) = 1 /\ <<f>>[1] = f
  OBVIOUS
<1>2. r \in Seq(T) /\ Len(r) = 2 /\ r[1] = e /\ r[2] = f
  BY <1>1
<1>3. \A i \in 1 .. Len(l) : l[i] = r[i]
  <2> HIDE DEF l, r
  <2>1. QED
    BY <1>1, <1>2
<1> HIDE DEF l, r, T
<1>4. l = r
  BY <1>1, <1>2, <1>3, SeqEqual
<1>5. QED
  BY <1>4 DEF l, r

Requested == [kind |-> "physical_roll_requested", check |-> "action", reason |-> "selected"]
Awaited(c) == [kind |-> "combat_action_pending", check |-> "action", candidate |-> c]

\* An action that waits for a physical roll.
LEMMA PendingFares ==
  ASSUME NEW g \in Settled, ActiveIn(g), NEW c \in Awaitable, c.ability \in Abilities[c.actor],
         c.target \in AbilityTargets(g, c.actor, c.ability), g.actor \in {c.actor, None}
  PROVE  Fares(g, <<Requested, Awaited(c)>>, Settled)
<1> DEFINE e == Requested
           f == Awaited(c)
           i == [kind |-> "physical_roll_cancelled", check |-> "action"]
           x == [g EXCEPT !.checks = @ \cup {"action"}]
           y == [x EXCEPT !.status = "awaiting_physical_action", !.actionCheck = "action",
                          !.candidate = c]
<1>1. /\ g \in Open /\ g \in Games /\ ValidCombat(g) /\ Normal(g) /\ Guarded(g) /\ Checked(g)
      /\ Wounded(g) /\ Busy(g) /\ (Quiet => Lively(g)) /\ ~Down(g) /\ g.dead # Heroes
      /\ g.status = "active" /\ g.outcome = None /\ g.deathCheck = None /\ g.actionCheck = None
      /\ g.tested = None /\ g.candidate = None
  BY SettledOpen, OpenIs
<1>2. "action" \notin g.checks /\ g.checks \cup {"action"} \in SUBSET {"action", "death"}
  BY <1>1 DEF Checked, Games
<1>3. x \in Games
  BY <1>1, <1>2, Zenon DEF Games
<1>4. /\ Body(x, g) /\ Turns(x, g) /\ x.checks = g.checks \cup {"action"} /\ x.status = g.status
      /\ x.deathCheck = g.deathCheck /\ x.actionCheck = g.actionCheck
      /\ x.candidate = g.candidate /\ x.tested = g.tested /\ x.aided = g.aided
      /\ x.outcome = g.outcome
  BY <1>1 DEF Games, Body, Turns
<1>5. y \in Games
  BY <1>3, Zenon DEF Games
<1>6. /\ Body(y, x) /\ Turns(y, x) /\ y.checks = x.checks /\ y.status = "awaiting_physical_action"
      /\ y.deathCheck = x.deathCheck /\ y.actionCheck = "action" /\ y.candidate = c
      /\ y.tested = x.tested /\ y.aided = x.aided /\ y.outcome = x.outcome
  BY <1>3 DEF Games, Body, Turns
<1>7. e.kind \in Kinds /\ ~Skipped(e) /\ f.kind \in Kinds /\ Skipped(f) /\ i.kind \in Kinds
      /\ InverseOf(e) = i
  BY DEF Requested, Awaited, Kinds, Skipped, NotStateChanging, InverseOf
<1>8. Applies(g, e) /\ Effect(g, e) = x
  BY <1>1, <1>2 DEF Requested, Applies, HarmApplies, RecordApplies, Effect, HarmEffect,
     RecordEffect, RequestRoll
<1>9. Applies(x, f) /\ Effect(x, f) = y
  BY <1>4 DEF Awaited, Applies, HarmApplies, Effect, HarmEffect
<1>10. Applies(y, i) /\ Effect(y, i) = Release(y, "action")
  BY <1>4, <1>6 DEF Applies, HarmApplies, RecordApplies, Effect, HarmEffect, RecordEffect
<1> HIDE DEF e, f, i, x, y
<1>11. \A u : Occupancy(x, u) = Occupancy(g, u) /\ Occupancy(y, u) = Occupancy(x, u)
  BY <1>4, <1>6 DEF Body, Occupancy
<1>12. ValidCombat(x) /\ Normal(x)
  BY <1>1, <1>4, <1>11 DEF ValidCombat, Normal, Body, Turns
<1>13. ValidCombat(y) /\ Normal(y)
  BY <1>1, <1>4, <1>6, <1>11, <1>12, NamesApart DEF ValidCombat, Normal, Body, Turns
<1>14. Fits(g, e) /\ Step(g, e) = x /\ Fits(x, f) /\ Step(x, f) = y
  BY <1>3, <1>5, <1>7, <1>8, <1>9, <1>12, <1>13, ForgetsNothing DEF Fits, Step
<1>15. Body(y, g) /\ Turns(y, g)
  BY <1>4, <1>6 DEF Body, Turns
<1>16. y \in Settled
  <2>1. Checked(y) /\ Guarded(y) /\ Wounded(y) /\ Decided(y)
    <3>1. Checked(y)
      BY <1>1, <1>4, <1>6, NamesApart DEF Checked
    <3>2. Guarded(y) /\ Wounded(y)
      BY <1>1, <1>4, <1>6, <1>15 DEF Guarded, Wounded, Body
    <3>3. Decided(y)
      BY <1>1, <1>4, <1>6, <1>15, NamesApart DEF Decided, Down, Body, Outcomes
    <3>4. QED
      BY <3>1, <3>2, <3>3
  <2>2. Waiting(y)
    BY <1>6, <1>15, TargetsKept DEF Waiting
  <2>3. Busy(y)
    BY <1>1, <1>15, TurnsKeep
  <2>4. Lively(g) => Lively(y)
    <3>1. \A a : Alive(y, a) = Alive(g, a)
      BY <1>15, AliveKept
    <3>2. g.actor # None => g.actor = c.actor
      OBVIOUS
    <3>3. y.tested = g.tested /\ y.candidate = c
      BY <1>4, <1>6
    <3>4. QED
      BY <1>15, <3>1, <3>2, <3>3 DEF Lively, Turns, Body, Idle
  <2>5. QED
    BY <1>1, <1>5, <1>13, <2>1, <2>2, <2>3, <2>4 DEF Settled, Fights, Sound
<1>17. Fits(y, i) /\ Step(y, i) = g
  <2> DEFINE r == [y EXCEPT !.checks = g.checks, !.deathCheck = g.deathCheck,
                            !.actionCheck = None, !.status = "active"]
  <2>1. y.checks \ {"action"} = g.checks
    BY <1>2, <1>4, <1>6
  <2>2. Release(y, "action") = r
    BY <1>1, <1>4, <1>6, <2>1, NamesApart DEF Release
  <2>3. /\ Body(r, y) /\ Turns(r, y) /\ r.checks = g.checks /\ r.status = g.status
        /\ r.deathCheck = g.deathCheck /\ r.actionCheck = g.actionCheck
    BY <1>1, <1>5 DEF Games, Body, Turns
  <2>4. \A u : Occupancy(r, u) = Occupancy(y, u)
    BY <2>3 DEF Body, Occupancy
  <2>5. ValidCombat(r)
    BY <1>1, <1>11, <1>15, <2>3, <2>4 DEF ValidCombat, Body, Turns
  <2>6. Forget(r) = [r EXCEPT !.candidate = None, !.tested = None, !.aided = FALSE]
    <3>1. r.actionCheck = None /\ r.deathCheck = None /\ r.aided \in BOOLEAN
      BY <1>1, <1>5, <2>3 DEF Games
    <3> HIDE DEF r
    <3>2. QED
      BY <3>1 DEF Forget
  <2>7. [r EXCEPT !.candidate = None, !.tested = None, !.aided = FALSE] = g
    <3> DEFINE N == {"status", "checks", "deathCheck", "actionCheck", "candidate", "tested", "aided"}
               q == [r EXCEPT !.candidate = None, !.tested = None, !.aided = FALSE]
    <3>1. DOMAIN g = DOMAIN y /\ DOMAIN y = DOMAIN x /\ N \subseteq DOMAIN g
      BY <1>1, <1>3, <1>5 DEF Games
    <3>2. \A k \in DOMAIN g \ N : y[k] = g[k]
      <4>1. \A k \in DOMAIN g \ N : x[k] = g[k]
        BY <1>1 DEF Games, x
      <4>2. \A k \in DOMAIN x \ N : y[k] = x[k]
        BY <1>3 DEF Games, y
      <4>3. QED
        BY <3>1, <4>1, <4>2
    <3>3. \A k \in DOMAIN g \ N : q[k] = y[k]
      BY <1>5, <3>1
    <3>4. /\ q.status = g.status /\ q.checks = g.checks /\ q.deathCheck = g.deathCheck
          /\ q.actionCheck = g.actionCheck /\ q.candidate = g.candidate /\ q.tested = g.tested
          /\ q.aided = g.aided
      BY <1>1, <1>5, <3>1 DEF Normal, Games
    <3>5. DOMAIN q = DOMAIN g /\ q = [k \in DOMAIN g |-> q[k]]
      BY <3>1
    <3>6. g = [k \in DOMAIN g |-> g[k]]
      BY <1>1 DEF Games
    <3> HIDE DEF q, r
    <3>7. \A k \in DOMAIN g : q[k] = g[k]
      BY <3>2, <3>3, <3>4
    <3>8. q = g
      BY <3>5, <3>6, <3>7
    <3>9. QED
      BY <3>8 DEF q
  <2>8. QED
    BY <1>7, <1>10, <2>2, <2>5, <2>6, <2>7 DEF Fits, Step
<1>18. Goes(g, <<e>> \o <<f>>, y)
  BY <1>7, <1>14, <1>17, GoesBackTwice
<1>19. QED
  BY <1>16, <1>18, TwoJoined DEF Fares, e, f

\* A submitted die answers the check, and the fight goes on.
LEMMA ReleaseIs ==
  ASSUME NEW g \in Settled, NEW c \in {"action", "death"}, c \in {g.actionCheck, g.deathCheck}
  PROVE  LET e == [kind |-> "check_resolved", check |-> c]
             y == Step(g, e)
         IN  /\ Fits(g, e) /\ Final(e) /\ y \in Fights /\ Body(y, g) /\ Turns(y, g)
             /\ y.status = "active" /\ y.checks = g.checks \ {c} /\ y.deathCheck = None
             /\ y.actionCheck = None /\ y.tested = None /\ y.outcome = None
             /\ "death" \notin y.checks /\ "action" \notin y.checks
<1> DEFINE e == [kind |-> "check_resolved", check |-> c]
           z == [g EXCEPT !.checks = g.checks \ {c}, !.deathCheck = None,
                          !.actionCheck = None, !.status = "active"]
           y == [z EXCEPT !.candidate = None, !.tested = None, !.aided = FALSE]
<1>1. /\ g \in Games /\ ValidCombat(g) /\ Normal(g) /\ Guarded(g) /\ Sound(g) /\ Checked(g)
      /\ Decided(g) /\ c # None
  BY SettledIs, NamesApart DEF Sound
<1>2. g.deathCheck \in {None, "death"} /\ g.actionCheck \in {None, "action"}
  BY <1>1 DEF Games
<1>3. (g.deathCheck = None \/ g.actionCheck = None) /\ g.status # "resolved"
  BY <1>1, <1>2, NamesApart DEF ValidCombat
<1>4. c \in g.checks /\ g.checks \ {c} \in SUBSET {"action", "death"}
  BY <1>1, <1>2, NamesApart DEF Checked, Games
<1>5. e.kind \in Kinds /\ Final(e)
  BY <1>1 DEF Kinds, Final, Skipped, NotStateChanging, InverseKinds
<1>6. Applies(g, e) /\ Effect(g, e) = Release(g, c)
  BY <1>1, <1>4 DEF Applies, HarmApplies, RecordApplies, Effect, HarmEffect, RecordEffect
<1>7. Release(g, c) = z
  <2>1. (IF g.deathCheck = c THEN None ELSE g.deathCheck) = None
    BY <1>1, <1>2, <1>3
  <2>2. (IF g.actionCheck = c THEN None ELSE g.actionCheck) = None
    BY <1>1, <1>2, <1>3
  <2>3. QED
    BY <2>1, <2>2 DEF Release
<1>8. z \in Games
  BY <1>1, <1>4, Zenon DEF Games
<1>9. /\ Body(z, g) /\ Turns(z, g) /\ z.status = "active" /\ z.deathCheck = None
      /\ z.actionCheck = None /\ z.checks = g.checks \ {c} /\ z.outcome = g.outcome
      /\ z.aided \in BOOLEAN
  BY <1>1, <1>8 DEF Games, Body, Turns
<1>10. Forget(z) = y
  <2> HIDE DEF z
  <2>1. QED
    BY <1>9 DEF Forget
<1> HIDE DEF z
<1>11. y \in Games
  BY <1>8, Zenon DEF Games
<1>12. /\ Body(y, z) /\ Turns(y, z) /\ y.status = z.status /\ y.deathCheck = None
       /\ y.actionCheck = None /\ y.checks = z.checks /\ y.outcome = z.outcome /\ y.tested = None
       /\ y.candidate = None /\ ~y.aided
  BY <1>8, <1>9 DEF Games, Body, Turns
<1> HIDE DEF y, e
<1>13. \A u : Occupancy(z, u) = Occupancy(g, u) /\ Occupancy(y, u) = Occupancy(z, u)
  BY <1>9, <1>12 DEF Body, Occupancy
<1>14. ValidCombat(z)
  BY <1>1, <1>9, <1>13 DEF ValidCombat, Body, Turns
<1>15. ValidCombat(y)
  BY <1>9, <1>12, <1>13, <1>14 DEF ValidCombat, Body, Turns
<1>16. Body(y, g) /\ Turns(y, g)
  BY <1>9, <1>12 DEF Body, Turns
<1>17. Normal(y) /\ Guarded(y)
  BY <1>1, <1>12, <1>16 DEF Normal, Guarded, Body
<1>18. y.outcome = None
  BY <1>1, <1>3, <1>9, <1>12 DEF Decided
<1>19. "death" \notin y.checks /\ "action" \notin y.checks
  BY <1>1, <1>2, <1>3, <1>9, <1>12 DEF Checked
<1>20. Step(g, e) = y /\ Fits(g, e)
  BY <1>5, <1>6, <1>7, <1>10, <1>14 DEF Fits, Step
<1>21. QED
  BY <1>5, <1>9, <1>11, <1>12, <1>15, <1>16, <1>17, <1>18, <1>19, <1>20 DEF e, Fights

-----------------------------------------------------------------------------
(* Harm *)

Struck(t, n, m) == [kind |-> "impact_applied", target |-> t, before |-> n, after |-> m]
Hit(g, t, n) == [g EXCEPT !.guard[t] = n]

\* What a change of Guard leaves alone.
Around(x, g) ==
  /\ Turns(x, g) /\ Checks(x, g) /\ x.trigger = g.trigger /\ x.round = g.round /\ x.zone = g.zone
  /\ x.wounds = g.wounds /\ x.dead = g.dead /\ x.progress = g.progress

\* A fight in which only the Guard of somebody has changed.
LEMMA GuardOpen ==
  ASSUME NEW g \in Open, NEW y \in Games, Around(y, g), Guarded(y),
         Quiet /\ g.actor # None => (Alive(g, g.actor) => Alive(y, g.actor))
  PROVE  y \in Open /\ Forget(y) = y /\ ValidCombat(y)
<1>1. /\ g \in Games /\ ValidCombat(g) /\ Wounded(g) /\ Busy(g)
  BY OpenIs
<1>2. ValidCombat(y)
  <2>1. \A u : Occupancy(y, u) = Occupancy(g, u)
    BY DEF Around, Occupancy
  <2>2. \A e \in Enemies : y.guard[e] <= GuardMax[e]
    BY NamesApart DEF Guarded
  <2>3. QED
    BY <1>1, <2>1, <2>2 DEF Around, Turns, Checks, ValidCombat
<1>3. Wounded(y) /\ Busy(y) /\ Checks(y, g)
  BY <1>1, TurnsKeep DEF Around, Wounded, Checks
<1>4. Quiet /\ Lively(g) => Lively(y)
  BY DEF Around, Turns, Checks, Lively, Idle
<1>5. QED
  BY <1>2, <1>3, <1>4, OpenKept

LEMMA StruckFits ==
  ASSUME NEW g \in Open, NEW t \in Actors, NEW n \in 0 .. g.guard[t],
         Quiet => g.actor # t \/ t \in Heroes
  PROVE  /\ Fits(g, Struck(t, g.guard[t], n)) /\ Step(g, Struck(t, g.guard[t], n)) = Hit(g, t, n)
         /\ Final(Struck(t, g.guard[t], n)) /\ Hit(g, t, n) \in Open /\ Around(Hit(g, t, n), g)
         /\ Hit(g, t, n).guard = [g.guard EXCEPT ![t] = n]
         /\ Hit(g, t, n).overlays = g.overlays
<1> DEFINE e == Struck(t, g.guard[t], n)
           y == Hit(g, t, n)
<1>1. g \in Games /\ Guarded(g) /\ g.guard \in [Actors -> Nat]
  BY OpenIs DEF Games
<1>2. n \in Nat /\ n <= g.guard[t]
  BY <1>1
<1>3. [g.guard EXCEPT ![t] = n] \in [Actors -> Nat]
  BY <1>1, <1>2
<1>4. y \in Games
  BY <1>1, <1>3, Zenon DEF Games, Hit
<1>5. Around(y, g) /\ y.guard = [g.guard EXCEPT ![t] = n] /\ y.overlays = g.overlays
  BY <1>1 DEF Games, Around, Turns, Checks, Hit
<1>6. e.kind \in Kinds /\ Final(e)
  BY DEF Struck, Kinds, Final, Skipped, NotStateChanging, InverseKinds
<1>7. Applies(g, e) /\ Effect(g, e) = y
  BY DEF Struck, Hit, Applies, HarmApplies, Effect, HarmEffect
<1> HIDE DEF e, y
<1>8. Guarded(y)
  <2>1. GuardMax \in [Actors -> Nat \ {0}]
    BY BoundsAssumption
  <2>2. \A a \in Actors : y.guard[a] = IF a = t THEN n ELSE g.guard[a]
    BY <1>1, <1>5
  <2>3. QED
    BY <1>1, <1>2, <2>1, <2>2 DEF Guarded
<1>9. Quiet /\ g.actor # None => (Alive(g, g.actor) => Alive(y, g.actor))
  <2>1. SUFFICES ASSUME Quiet, g.actor # None, Alive(g, g.actor) PROVE Alive(y, g.actor)
    OBVIOUS
  <2>2. g.actor \in Actors
    BY <1>1, <2>1 DEF Games
  <2>3. g.actor \notin Heroes => y.guard[g.actor] = g.guard[g.actor]
    BY <1>1, <1>5, <2>1, <2>2
  <2>4. QED
    BY <1>5, <2>1, <2>2, <2>3 DEF Alive, Arrived, Around
<1>10. y \in Open /\ Forget(y) = y /\ ValidCombat(y)
  BY <1>4, <1>5, <1>8, <1>9, GuardOpen
<1>11. QED
  BY <1>5, <1>6, <1>7, <1>10 DEF Fits, Step, e, y

\* A boss that falls for the first time gets Guard back.
LEMMA OverlayFits ==
  ASSUME NEW g \in Open, NEW b \in Bosses, g.guard[b] = 0
  PROVE  LET e == [kind |-> "boss_overlay_activated", boss |-> b, before |-> 0,
                   after |-> OverlayGuard]
         IN  Fits(g, e) /\ Step(g, e) \in Open /\ Around(Step(g, e), g) /\ ~Down(Step(g, e))
<1> DEFINE e == [kind |-> "boss_overlay_activated", boss |-> b, before |-> 0, after |-> OverlayGuard]
           guard == [g.guard EXCEPT ![b] = OverlayGuard]
           overlays == g.overlays \cup {b}
           y == [g EXCEPT !.guard = guard, !.overlays = overlays]
<1>1. /\ g \in Games /\ Guarded(g) /\ g.guard \in [Actors -> Nat] /\ b \in Enemies /\ b \in Actors
      /\ g.overlays \cup {b} \in SUBSET Bosses
  BY OpenIs, NamesApart DEF Games
<1>2. OverlayGuard \in Nat \ {0} /\ OverlayGuard <= GuardMax[b]
  BY EncounterAssumption
<1>3. guard \in [Actors -> Nat] /\ overlays \in SUBSET Bosses
  BY <1>1, <1>2
<1>4. y \in Games
  <2> HIDE DEF guard, overlays
  <2>1. g \in Games
    BY <1>1
  <2>2. QED
    BY <1>3, <2>1, ZenonT(60) DEF Games
<1>5. Around(y, g) /\ y.guard = [g.guard EXCEPT ![b] = OverlayGuard]
  BY <1>1 DEF Games, Around, Turns, Checks
<1>6. e.kind \in Kinds
  BY DEF Kinds
<1>7. Applies(g, e) /\ Effect(g, e) = y
  BY <1>2 DEF Applies, HarmApplies, Effect, HarmEffect
<1> HIDE DEF e, y
<1>8. \A a \in Actors : y.guard[a] = IF a = b THEN OverlayGuard ELSE g.guard[a]
  BY <1>1, <1>5
<1>9. Guarded(y)
  BY <1>1, <1>2, <1>8, BoundsAssumption DEF Guarded
<1>10. g.actor # None => (Alive(g, g.actor) => Alive(y, g.actor))
  <2>1. SUFFICES ASSUME g.actor # None, Alive(g, g.actor) PROVE Alive(y, g.actor)
    OBVIOUS
  <2>2. g.actor \in Actors
    BY <1>1, <2>1 DEF Games
  <2>3. y.guard[g.actor] > 0 \/ g.actor \in Heroes
    BY <1>2, <1>8, <2>1, <2>2 DEF Alive
  <2>4. QED
    BY <1>5, <2>1, <2>2, <2>3 DEF Alive, Arrived, Around
<1>11. y \in Open /\ Forget(y) = y /\ ValidCombat(y)
  BY <1>4, <1>5, <1>9, <1>10, GuardOpen
<1>12. ~Down(y)
  BY <1>1, <1>2, <1>8 DEF Down
<1>13. QED
  BY <1>5, <1>6, <1>7, <1>11, <1>12 DEF Fits, Step, e

\* A wound that is not the last.
LEMMA WoundFits ==
  ASSUME NEW g \in Open, NEW h \in Heroes, h \notin g.dead, g.wounds[h] # WoundSlots - 1
  PROVE  LET e == [kind |-> "wound_marked", hero |-> h]
         IN  /\ Fits(g, e) /\ Step(g, e) \in Open /\ Step(g, e).guard = g.guard
             /\ Step(g, e).dead = g.dead
<1> DEFINE e == [kind |-> "wound_marked", hero |-> h]
           wounds == [g.wounds EXCEPT ![h] = @ + 1]
           y == [g EXCEPT !.wounds = wounds]
<1>1. /\ g \in Games /\ ValidCombat(g) /\ Guarded(g) /\ Wounded(g) /\ Busy(g) /\ g.tested = None
      /\ g.wounds \in [Heroes -> 0 .. WoundSlots] /\ WoundSlots \in Nat \ {0} /\ h # None
  BY OpenIs, NamesApart, BoundsAssumption DEF Games
<1>2. g.wounds[h] # WoundSlots
  BY <1>1 DEF Wounded
<1>3. g.wounds[h] \in Nat /\ g.wounds[h] + 1 < WoundSlots
  BY <1>1, <1>2
<1>4. wounds \in [Heroes -> 0 .. WoundSlots]
  BY <1>1, <1>3
<1>5. y \in Games
  <2> HIDE DEF wounds
  <2>1. g \in Games
    BY <1>1
  <2>2. QED
    BY <1>4, <2>1, ZenonT(60) DEF Games
<1>6. /\ Turns(y, g) /\ Checks(y, g) /\ y.trigger = g.trigger /\ y.round = g.round
      /\ y.zone = g.zone /\ y.guard = g.guard /\ y.dead = g.dead /\ y.progress = g.progress
      /\ y.wounds = [g.wounds EXCEPT ![h] = @ + 1]
  BY <1>1 DEF Games, Turns, Checks
<1>7. e.kind \in Kinds
  BY DEF Kinds
<1>8. Applies(g, e) /\ Effect(g, e) = y
  BY <1>1, <1>3 DEF Applies, HarmApplies, Effect, HarmEffect
<1> HIDE DEF e, y
<1>9. ValidCombat(y)
  <2>1. \A u : Occupancy(y, u) = Occupancy(g, u)
    BY <1>6 DEF Occupancy
  <2>2. QED
    BY <1>1, <1>6, <2>1 DEF Turns, Checks, ValidCombat
<1>10. Guarded(y) /\ Busy(y)
  BY <1>1, <1>6, TurnsKeep DEF Guarded
<1>11. Wounded(y)
  <2>1. \A k \in Heroes : y.wounds[k] = IF k = h THEN g.wounds[h] + 1 ELSE g.wounds[k]
    BY <1>1, <1>6
  <2>2. y.tested = g.tested
    BY <1>6 DEF Checks
  <2>3. QED
    BY <1>1, <1>3, <1>6, <2>1, <2>2 DEF Wounded
<1>12. Lively(g) => Lively(y)
  <2>1. \A a : Alive(y, a) = Alive(g, a)
    BY <1>6 DEF Alive, Arrived
  <2>2. QED
    BY <1>6, <2>1 DEF Lively, Turns, Checks, Idle
<1>13. y \in Open /\ Forget(y) = y
  BY <1>5, <1>6, <1>9, <1>10, <1>11, <1>12, OpenKept
<1>14. QED
  BY <1>6, <1>7, <1>8, <1>9, <1>13 DEF Fits, Step, e

Fatal == [kind |-> "physical_roll_requested", check |-> "death", reason |-> "permanent_death"]
Tested(h) == [kind |-> "death_test_pending", check |-> "death", hero |-> h]
WoundOf(h) == [kind |-> "wound_marked", hero |-> h]

\* The states between the last wound and its test.
Filled(g, h) == [g EXCEPT !.wounds[h] = @ + 1]
Asked(g) == [g EXCEPT !.checks = @ \cup {"death"}, !.status = "awaiting_death_test",
                      !.deathCheck = "death"]
Under(g, h) == [g EXCEPT !.tested = h, !.aided = FALSE]

\* A state that is no settled fight yet, but whose fight is still valid.
LEMMA FilledFits ==
  ASSUME NEW g \in Open, NEW h \in Heroes, g.wounds[h] = WoundSlots - 1
  PROVE  /\ Fits(g, WoundOf(h)) /\ Step(g, WoundOf(h)) = Filled(g, h) /\ Filled(g, h) \in Games
         /\ ValidCombat(Filled(g, h)) /\ Turns(Filled(g, h), g) /\ Checks(Filled(g, h), g)
         /\ Filled(g, h).wounds = [g.wounds EXCEPT ![h] = WoundSlots]
         /\ Filled(g, h).trigger = g.trigger /\ Filled(g, h).round = g.round
         /\ Filled(g, h).zone = g.zone /\ Filled(g, h).guard = g.guard
         /\ Filled(g, h).dead = g.dead /\ Filled(g, h).progress = g.progress
<1> DEFINE e == WoundOf(h)
           wounds == [g.wounds EXCEPT ![h] = @ + 1]
           y == Filled(g, h)
<1>1. /\ g \in Games /\ ValidCombat(g) /\ Normal(g)
      /\ g.wounds \in [Heroes -> 0 .. WoundSlots] /\ WoundSlots \in Nat \ {0}
  BY OpenIs, BoundsAssumption DEF Games
<1>2. wounds \in [Heroes -> 0 .. WoundSlots] /\ wounds = [g.wounds EXCEPT ![h] = WoundSlots]
  BY <1>1
<1>3. y = [g EXCEPT !.wounds = wounds]
  BY <1>1 DEF Filled, Games
<1>4. y \in Games
  <2> HIDE DEF wounds, y
  <2>1. g \in Games
    BY <1>1
  <2>2. QED
    BY <1>2, <1>3, <2>1, ZenonT(60) DEF Games
<1>5. /\ Turns(y, g) /\ Checks(y, g) /\ y.trigger = g.trigger /\ y.round = g.round
      /\ y.zone = g.zone /\ y.guard = g.guard /\ y.dead = g.dead /\ y.progress = g.progress
      /\ y.wounds = wounds
  BY <1>1, <1>3 DEF Games, Turns, Checks
<1>6. e.kind \in Kinds
  BY DEF Kinds, WoundOf
<1>7. Applies(g, e) /\ Effect(g, e) = y
  BY <1>1 DEF Applies, HarmApplies, Effect, HarmEffect, WoundOf, Filled
<1> HIDE DEF e, y, wounds
<1>8. ValidCombat(y)
  <2>1. \A u : Occupancy(y, u) = Occupancy(g, u)
    BY <1>5 DEF Occupancy
  <2>2. QED
    BY <1>1, <1>5, <2>1 DEF Turns, Checks, ValidCombat
<1>9. Normal(y) /\ Forget(y) = y
  BY <1>1, <1>4, <1>5, ChecksKeep, ForgetsNothing
<1>10. QED
  BY <1>2, <1>4, <1>5, <1>6, <1>7, <1>8, <1>9 DEF Fits, Step, e, y

LEMMA AskedFits ==
  ASSUME NEW g \in Games, ValidCombat(g), g.status = "active", g.deathCheck = None,
         g.actionCheck = None, g.candidate = None, g.tested = None, ~g.aided,
         "death" \notin g.checks
  PROVE  /\ Fits(g, Fatal) /\ Step(g, Fatal) = Asked(g) /\ Asked(g) \in Games
         /\ ValidCombat(Asked(g)) /\ Turns(Asked(g), g) /\ Body(Asked(g), g)
         /\ Asked(g).checks = g.checks \cup {"death"} /\ Asked(g).deathCheck = "death"
         /\ Asked(g).actionCheck = None /\ Asked(g).status = "awaiting_death_test"
         /\ Asked(g).outcome = g.outcome /\ Asked(g).candidate = None
<1> DEFINE e == Fatal
           checks == g.checks \cup {"death"}
           y == Asked(g)
<1>1. checks \in SUBSET {"action", "death"}
  BY DEF Games
<1>2. y = [g EXCEPT !.checks = checks, !.status = "awaiting_death_test", !.deathCheck = "death"]
  BY DEF Asked
<1>3. y \in Games
  <2> HIDE DEF checks, y
  <2>1. QED
    BY <1>1, <1>2, ZenonT(60) DEF Games
<1>4. /\ Turns(y, g) /\ Body(y, g) /\ y.checks = checks /\ y.deathCheck = "death"
      /\ y.actionCheck = None /\ y.status = "awaiting_death_test" /\ y.outcome = g.outcome
      /\ y.candidate = None /\ y.tested = None /\ ~y.aided
  BY DEF Games, Turns, Body, Asked
<1>5. e.kind \in Kinds
  BY DEF Kinds, Fatal
<1>6. Applies(g, e) /\ Effect(g, e) = y
  BY DEF Applies, HarmApplies, RecordApplies, Effect, HarmEffect, RecordEffect, RequestRoll,
         Fatal, Asked
<1> HIDE DEF e, y
<1>7. ValidCombat(y)
  <2>1. \A u : Occupancy(y, u) = Occupancy(g, u)
    BY <1>4 DEF Body, Occupancy
  <2>2. QED
    BY <1>4, <2>1, NamesApart DEF Turns, Body, ValidCombat
<1>8. Forget(y) = y
  BY <1>3, <1>4, NamesApart, ForgetsNothing DEF Normal
<1>9. QED
  BY <1>3, <1>4, <1>5, <1>6, <1>7, <1>8 DEF Fits, Step, e, y

LEMMA UnderFits ==
  ASSUME NEW g \in Games, ValidCombat(g), NEW h \in Heroes, g.status = "awaiting_death_test",
         g.deathCheck = "death", g.actionCheck = None, g.candidate = None, "death" \in g.checks
  PROVE  /\ Fits(g, Tested(h)) /\ Step(g, Tested(h)) = Under(g, h) /\ Under(g, h) \in Games
         /\ ValidCombat(Under(g, h)) /\ Turns(Under(g, h), g) /\ Body(Under(g, h), g)
         /\ Normal(Under(g, h)) /\ Under(g, h).checks = g.checks
         /\ Under(g, h).deathCheck = "death" /\ Under(g, h).actionCheck = None
         /\ Under(g, h).status = "awaiting_death_test" /\ Under(g, h).outcome = g.outcome
         /\ Under(g, h).tested = h
<1> DEFINE e == Tested(h)
           y == Under(g, h)
<1>1. y \in Games
  BY ZenonT(60) DEF Games, Under
<1>2. /\ Turns(y, g) /\ Body(y, g) /\ y.checks = g.checks /\ y.deathCheck = "death"
      /\ y.actionCheck = None /\ y.status = "awaiting_death_test" /\ y.outcome = g.outcome
      /\ y.candidate = None /\ y.tested = h /\ ~y.aided
  BY DEF Games, Turns, Body, Under
<1>3. e.kind \in Kinds
  BY DEF Kinds, Tested
<1>4. Applies(g, e) /\ Effect(g, e) = y
  BY DEF Applies, HarmApplies, Effect, HarmEffect, Tested, Under
<1> HIDE DEF e, y
<1>5. ValidCombat(y)
  <2>1. \A u : Occupancy(y, u) = Occupancy(g, u)
    BY <1>2 DEF Body, Occupancy
  <2>2. QED
    BY <1>2, <2>1, NamesApart DEF Turns, Body, ValidCombat
<1>6. Normal(y) /\ Forget(y) = y
  BY <1>1, <1>2, NamesApart, ForgetsNothing DEF Normal
<1>7. QED
  BY <1>1, <1>2, <1>3, <1>4, <1>5, <1>6 DEF Fits, Step, e, y

\* The last wound: the hero is tested, and the fight waits for it.
LEMMA LastWound ==
  ASSUME NEW g \in Open, ~Down(g), g.dead # Heroes, NEW h \in Heroes, h \notin g.dead,
         g.wounds[h] = WoundSlots - 1, Quiet => g.actor # h
  PROVE  \E y \in Settled : Leads(g, <<WoundOf(h)>> \o (<<Fatal>> \o <<Tested(h)>>), y)
<1> DEFINE p == Filled(g, h)
           q == Asked(p)
           r == Under(q, h)
<1>1. /\ g \in Games /\ Checked(g) /\ Wounded(g) /\ Busy(g) /\ Guarded(g) /\ Normal(g)
      /\ (Quiet => Lively(g)) /\ g.status = "active" /\ g.outcome = None /\ g.deathCheck = None
      /\ g.actionCheck = None /\ g.candidate = None /\ g.tested = None
      /\ "death" \notin g.checks /\ "action" \notin g.checks /\ ~g.aided
  BY OpenIs DEF Checked, Normal
<1>2. /\ Fits(g, WoundOf(h)) /\ Step(g, WoundOf(h)) = p /\ p \in Games /\ ValidCombat(p)
      /\ Turns(p, g) /\ Checks(p, g) /\ p.wounds = [g.wounds EXCEPT ![h] = WoundSlots]
      /\ p.trigger = g.trigger /\ p.round = g.round /\ p.zone = g.zone
      /\ p.guard = g.guard /\ p.dead = g.dead /\ p.progress = g.progress
  BY FilledFits
<1> HIDE DEF p
<1>3. /\ p.status = "active" /\ p.deathCheck = None /\ p.actionCheck = None /\ p.candidate = None
      /\ p.tested = None /\ ~p.aided /\ "death" \notin p.checks /\ "action" \notin p.checks
      /\ p.outcome = None
  BY <1>1, <1>2 DEF Checks
<1>4. /\ Fits(p, Fatal) /\ Step(p, Fatal) = q /\ q \in Games /\ ValidCombat(q) /\ Turns(q, p)
      /\ Body(q, p) /\ q.checks = p.checks \cup {"death"} /\ q.deathCheck = "death"
      /\ q.actionCheck = None /\ q.status = "awaiting_death_test" /\ q.outcome = p.outcome
      /\ q.candidate = None
  BY <1>2, <1>3, AskedFits
<1> HIDE DEF q
<1>5. /\ Fits(q, Tested(h)) /\ Step(q, Tested(h)) = r /\ r \in Games /\ ValidCombat(r)
      /\ Turns(r, q) /\ Body(r, q) /\ Normal(r) /\ r.checks = q.checks /\ r.deathCheck = "death"
      /\ r.actionCheck = None /\ r.status = "awaiting_death_test" /\ r.outcome = q.outcome
      /\ r.tested = h
  BY <1>4, UnderFits
<1> HIDE DEF r
<1>6. /\ Turns(r, g) /\ r.guard = g.guard /\ r.dead = g.dead /\ r.trigger = g.trigger
      /\ r.round = g.round /\ r.progress = g.progress
      /\ r.wounds = [g.wounds EXCEPT ![h] = WoundSlots]
  BY <1>2, <1>4, <1>5 DEF Turns, Body
<1>7. r.outcome = None /\ "death" \in r.checks /\ "action" \notin r.checks
  BY <1>3, <1>4, <1>5
<1>8. Checked(r)
  BY <1>5, <1>7, NamesApart DEF Checked
<1>9. Wounded(r)
  <2>1. g.wounds \in [Heroes -> 0 .. WoundSlots]
    BY <1>1 DEF Games
  <2>2. \A k \in Heroes : r.wounds[k] = IF k = h THEN WoundSlots ELSE g.wounds[k]
    BY <1>6, <2>1
  <2>3. QED
    BY <1>1, <1>5, <1>6, <2>2, NamesApart DEF Wounded
<1>10. Decided(r)
  <2>1. None # "heroes_prevailed" /\ None # "heroes_defeated"
    BY NamesApart DEF Outcomes
  <2>2. ~Down(r)
    BY <1>6 DEF Down
  <2>3. QED
    BY <1>5, <1>6, <1>7, <2>1, <2>2 DEF Decided
<1>11. Waiting(r) /\ Busy(r) /\ Guarded(r)
  BY <1>1, <1>5, <1>6, TurnsKeep DEF Waiting, Guarded
<1>12. Quiet => Lively(r)
  <2>1. \A a : Alive(r, a) = Alive(g, a)
    BY <1>6 DEF Alive, Arrived
  <2>2. QED
    BY <1>1, <1>5, <1>6, <2>1 DEF Lively, Turns, Idle
<1>13. r \in Settled
  BY <1>5, <1>8, <1>9, <1>10, <1>11, <1>12 DEF Settled, Fights, Sound
<1>14. Leads(g, <<WoundOf(h)>>, p) /\ Leads(p, <<Fatal>>, q) /\ Leads(q, <<Tested(h)>>, r)
  BY <1>2, <1>4, <1>5, LeadsOne
<1>15. Leads(p, <<Fatal>> \o <<Tested(h)>>, r)
  BY <1>14, LeadsJoined
<1>16. Leads(g, <<WoundOf(h)>> \o (<<Fatal>> \o <<Tested(h)>>), r)
  BY <1>14, <1>15, LeadsJoined
<1>17. QED
  BY <1>13, <1>16

\* What a hit costs a hero, once its Guard has taken it.
LEMMA WoundsLead ==
  ASSUME NEW g \in Open, ~Down(g), g.dead # Heroes, NEW h \in Heroes, h \notin g.dead,
         Quiet => g.actor # h, NEW x, x.wounds = g.wounds, NEW n
  PROVE  \E y \in Settled : Leads(g, WoundEvents(x, h, n), y)
<1>1. CASE WoundEvents(x, h, n) = <<>>
  <2>1. Leads(g, <<>>, g)
    BY GoesNone DEF Goes
  <2>2. QED
    BY <1>1, <2>1, OpenSettled
<1>2. CASE WoundEvents(x, h, n) # <<>> /\ g.wounds[h] # WoundSlots - 1
  <2>1. WoundEvents(x, h, n) = <<WoundOf(h)>> \o <<>>
    BY <1>2 DEF WoundEvents, WoundOf
  <2>2. <<WoundOf(h)>> \o <<>> = <<WoundOf(h)>>
    OBVIOUS
  <2>3. /\ Fits(g, WoundOf(h)) /\ Step(g, WoundOf(h)) \in Open
        /\ Step(g, WoundOf(h)).guard = g.guard /\ Step(g, WoundOf(h)).dead = g.dead
    BY <1>2, WoundFits DEF WoundOf
  <2>4. ~Down(Step(g, WoundOf(h)))
    BY <2>3 DEF Down
  <2>5. Step(g, WoundOf(h)) \in Settled
    BY <2>3, <2>4, OpenSettled
  <2>6. Leads(g, <<WoundOf(h)>>, Step(g, WoundOf(h)))
    BY <2>3, LeadsOne
  <2>7. QED
    BY <2>1, <2>2, <2>5, <2>6
<1>3. CASE WoundEvents(x, h, n) # <<>> /\ g.wounds[h] = WoundSlots - 1
  <2>1. WoundEvents(x, h, n) = <<WoundOf(h)>> \o <<Fatal, Tested(h)>>
    BY <1>3 DEF WoundEvents, WoundOf, Fatal, Tested
  <2>2. <<Fatal, Tested(h)>> = <<Fatal>> \o <<Tested(h)>>
    BY TwoJoined
  <2>3. QED
    BY <1>3, <2>1, <2>2, LastWound
<1>4. QED
  BY <1>1, <1>2, <1>3

\* An enemy without Guard that has no overlay left may end the fight.
LEMMA ResolutionLeads ==
  ASSUME NEW g \in Open, g.dead # Heroes, NEW x, NEW felled, x.dead = g.dead,
         (\A e \in Enemies : e \in felled \/ x.guard[e] = 0) <=> Down(g)
  PROVE  \E y \in Settled : Leads(g, Resolution(x, felled, {}), y)
<1> DEFINE e == [kind |-> "combat_resolved", outcome |-> "heroes_prevailed"]
<1>1. CASE Down(g)
  <2>1. Resolution(x, felled, {}) = <<e>>
    BY <1>1 DEF Resolution
  <2>2. "heroes_prevailed" \in Outcomes
    BY DEF Outcomes
  <2>3. Fits(g, e) /\ Step(g, e) \in Settled
    BY <1>1, <2>2, ResolvedFits
  <2>4. Leads(g, <<e>>, Step(g, e))
    BY <2>3, LeadsOne
  <2>5. QED
    BY <2>1, <2>3, <2>4
<1>2. CASE ~Down(g)
  <2>1. g.dead \subseteq Heroes
    BY OpenIs DEF Games
  <2>2. Resolution(x, felled, {}) = <<>>
    BY <1>2, <2>1 DEF Resolution
  <2>3. Leads(g, <<>>, g)
    BY GoesNone DEF Goes
  <2>4. QED
    BY <1>2, <2>2, <2>3, OpenSettled
<1>3. QED
  BY <1>1, <1>2

\* A strike against a hero.
LEMMA HeroStruck ==
  ASSUME NEW g \in Settled, ActiveIn(g), NEW t \in Heroes, t \notin g.dead,
         NEW n \in 0 .. g.guard[t], NEW hit, Quiet => g.actor # t
  PROVE  Fares(g, <<Struck(t, g.guard[t], n)>> \o WoundEvents(g, t, hit), Settled)
<1> DEFINE e == Struck(t, g.guard[t], n)
           x == Hit(g, t, n)
<1>1. g \in Open /\ ~Down(g) /\ g.dead # Heroes /\ t \in Actors /\ g.guard \in [Actors -> Nat]
  BY SettledOpen, OpenIs, NamesApart DEF Games
<1>2. /\ Fits(g, e) /\ Step(g, e) = x /\ Final(e) /\ x \in Open /\ Around(x, g)
      /\ x.guard = [g.guard EXCEPT ![t] = n]
  BY <1>1, StruckFits
<1> HIDE DEF e, x
<1>3. x.wounds = g.wounds /\ x.dead = g.dead /\ x.actor = g.actor
  BY <1>2 DEF Around, Turns
<1>4. \A b \in Enemies : x.guard[b] = g.guard[b]
  BY <1>1, <1>2, NamesApart
<1>5. ~Down(x)
  BY <1>1, <1>4 DEF Down
<1>6. \E y \in Settled : Leads(x, WoundEvents(g, t, hit), y)
  BY <1>1, <1>2, <1>3, <1>5, WoundsLead
<1>7. PICK y \in Settled : Leads(x, WoundEvents(g, t, hit), y)
  BY <1>6
<1>8. Goes(g, <<e>> \o WoundEvents(g, t, hit), y)
  BY <1>2, <1>7, FinalThen
<1>9. QED
  BY <1>8 DEF Fares, e

\* A strike against an enemy: its overlay, or the end of the fight.
LEMMA EnemyStruck ==
  ASSUME NEW g \in Settled, ActiveIn(g), NEW t \in Enemies, NEW n \in 0 .. g.guard[t],
         Quiet => g.actor # t
  PROVE  Fares(g, <<Struck(t, g.guard[t], n)>> \o
                  (IF n > 0 THEN <<>>
                   ELSE Overlay(g, t) \o
                        Resolution(g, IF Overlay(g, t) = <<>> THEN {t} ELSE {}, {})), Settled)
<1> DEFINE e == Struck(t, g.guard[t], n)
           x == Hit(g, t, n)
           felled == IF Overlay(g, t) = <<>> THEN {t} ELSE {}
           rest == IF n > 0 THEN <<>> ELSE Overlay(g, t) \o Resolution(g, felled, {})
<1>1. /\ g \in Open /\ ~Down(g) /\ g.dead # Heroes /\ t \in Actors /\ g.guard \in [Actors -> Nat]
      /\ g.dead \subseteq Heroes
  BY SettledOpen, OpenIs, NamesApart DEF Games
<1>2. /\ Fits(g, e) /\ Step(g, e) = x /\ Final(e) /\ x \in Open /\ Around(x, g)
      /\ x.guard = [g.guard EXCEPT ![t] = n] /\ x.overlays = g.overlays
  BY <1>1, StruckFits
<1> HIDE DEF e, x
<1>3. x.dead = g.dead
  BY <1>2 DEF Around
<1>4. \A b \in Enemies : x.guard[b] = IF b = t THEN n ELSE g.guard[b]
  BY <1>1, <1>2, NamesApart
<1>5. \E y \in Settled : Leads(x, rest, y)
  <2>1. CASE n > 0
    <3>1. ~Down(x)
      BY <1>4, <2>1 DEF Down
    <3>2. x \in Settled
      BY <1>1, <1>2, <1>3, <3>1, OpenSettled
    <3>3. Leads(x, <<>>, x)
      BY GoesNone DEF Goes
    <3>4. QED
      BY <2>1, <3>2, <3>3
  <2>2. CASE n = 0 /\ t \in Bosses \ g.overlays
    <3> DEFINE o == [kind |-> "boss_overlay_activated", boss |-> t, before |-> 0,
                     after |-> OverlayGuard]
    <3>1. Overlay(g, t) = <<o>>
      BY <2>2 DEF Overlay
    <3>2. x.guard[t] = 0
      BY <1>4, <2>2
    <3>3. Fits(x, o) /\ Step(x, o) \in Open /\ Around(Step(x, o), x) /\ ~Down(Step(x, o))
      BY <1>2, <2>2, <3>2, OverlayFits
    <3>4. Step(x, o).dead = g.dead
      BY <1>3, <3>3 DEF Around
    <3> HIDE DEF o
    <3>5. Step(x, o) \in Settled
      BY <1>1, <3>3, <3>4, OpenSettled
    <3>6. felled = {}
      <4>1. <<o>> # <<>>
        OBVIOUS
      <4>2. QED
        BY <3>1, <4>1
    <3>7. Resolution(g, felled, {}) = <<>>
      BY <1>1, <3>6 DEF Resolution, Down
    <3>8. rest = <<o>>
      <4>1. <<o>> \o <<>> = <<o>>
        OBVIOUS
      <4>2. ~(n > 0)
        BY <2>2
      <4>3. QED
        BY <3>1, <3>7, <4>1, <4>2
    <3>9. Leads(x, <<o>>, Step(x, o))
      BY <3>3, LeadsOne
    <3>10. QED
      BY <3>5, <3>8, <3>9
  <2>3. CASE n = 0 /\ t \notin Bosses \ g.overlays
    <3>1. Overlay(g, t) = <<>> /\ felled = {t}
      BY <2>3 DEF Overlay
    <3>2. rest = Resolution(g, {t}, {})
      <4>1. <<>> \o Resolution(g, {t}, {}) = Resolution(g, {t}, {})
        BY DEF Resolution
      <4>2. QED
        BY <2>3, <3>1, <4>1
    <3>3. (\A b \in Enemies : b \in {t} \/ g.guard[b] = 0) <=> Down(x)
      BY <1>4, <2>3 DEF Down
    <3>4. \E y \in Settled : Leads(x, Resolution(g, {t}, {}), y)
      BY <1>1, <1>2, <1>3, <3>3, ResolutionLeads
    <3>5. QED
      BY <3>2, <3>4
  <2>4. n > 0 \/ n = 0
    BY <1>1
  <2>5. QED
    BY <2>1, <2>2, <2>3, <2>4, Zenon
<1>6. PICK y \in Settled : Leads(x, rest, y)
  BY <1>5
<1> HIDE DEF rest
<1>7. Goes(g, <<e>> \o rest, y)
  BY <1>2, <1>6, FinalThen
<1>8. QED
  BY <1>7 DEF Fares, e, rest

\* A strike, whatever it does.
LEMMA ImpactFares ==
  ASSUME NEW g \in Settled, ActiveIn(g), NEW t \in Actors, Alive(g, t), NEW i \in Nat, NEW d,
         Quiet => g.actor # t
  PROVE  Fares(g, ImpactEvents(g, t, i, d), Settled)
<1> DEFINE armor == IF t \in Enemies THEN Armor[t] ELSE 0
           bonus == IF d = "Triumph" THEN 2 ELSE 0
           dealt == IF i + bonus > armor THEN i + bonus - armor ELSE 1
           n == IF dealt < g.guard[t] THEN g.guard[t] - dealt ELSE 0
<1>1. g.guard[t] \in Nat
  BY SettledIs DEF Games
<1>2. armor \in Nat /\ bonus \in Nat
  BY EncounterAssumption
<1>3. dealt \in Nat
  <2> HIDE DEF armor, bonus
  <2>1. QED
    BY <1>2
<1>4. n \in 0 .. g.guard[t]
  <2> HIDE DEF dealt
  <2>1. QED
    BY <1>1, <1>3
<1>5. ImpactEvents(g, t, i, d) =
        <<Struck(t, g.guard[t], n)>> \o
          IF t \in Heroes THEN WoundEvents(g, t, dealt)
          ELSE IF n > 0 THEN <<>>
          ELSE Overlay(g, t) \o Resolution(g, IF Overlay(g, t) = <<>> THEN {t} ELSE {}, {})
  BY DEF ImpactEvents, Struck
<1> HIDE DEF n, dealt
<1>6. CASE t \in Heroes
  BY <1>4, <1>5, <1>6, HeroStruck DEF Alive
<1>7. CASE t \notin Heroes
  <2>1. t \in Enemies
    BY <1>7 DEF Actors
  <2>2. QED
    BY <1>4, <1>5, <1>7, <2>1, EnemyStruck
<1>8. QED
  BY <1>6, <1>7

-----------------------------------------------------------------------------
(* What an action does *)

LEMMA FaresSeq ==
  ASSUME NEW g, NEW es, NEW S, Fares(g, es, S)
  PROVE  \E F : es \in Seq(F)
BY DEF Fares, Goes, Leads, Stops

\* Four parts of a decision, one after the other.
LEMMA FaresFour ==
  ASSUME NEW g, NEW p, NEW P, Fares(g, p, P), NEW q, NEW Q, \A y \in P : Fares(y, q, Q),
         NEW r, NEW R, \A y \in Q : Fares(y, r, R), NEW s, NEW S, \A y \in R : Fares(y, s, S),
         \E F : q \in Seq(F), \E F : r \in Seq(F), \E F : s \in Seq(F)
  PROVE  Fares(g, p \o q \o r \o s, S)
<1>1. PICK F : q \in Seq(F)
  OBVIOUS
<1>2. PICK G : r \in Seq(G)
  OBVIOUS
<1>3. PICK H : s \in Seq(H)
  OBVIOUS
<1>4. Fares(g, p \o q, Q)
  BY <1>1, FaresJoined
<1>5. Fares(g, (p \o q) \o r, R)
  BY <1>2, <1>4, FaresJoined
<1>6. Fares(g, ((p \o q) \o r) \o s, S)
  BY <1>3, <1>5, FaresJoined
<1>7. QED
  BY <1>6

LEMMA NoneIsSeq == \E F : <<>> \in Seq(F)
<1>1. <<>> \in Seq({})
  OBVIOUS
<1>2. QED
  BY <1>1

LEMMA OneIsSeq ==
  ASSUME NEW e
  PROVE  \E F : <<e>> \in Seq(F)
<1>1. <<e>> \in Seq({e})
  OBVIOUS
<1>2. QED
  BY <1>1

\* What the schema says of an ability.
LEMMA AbilityIs ==
  ASSUME NEW a \in Actors, NEW b \in Abilities[a]
  PROVE  /\ b \in AbilityRecords /\ b # None /\ b.slot \in SlotNames /\ b.impact \in Nat
         /\ b.track \in Nat /\ b.cost \in Nat /\ b.check \in BOOLEAN
         /\ b.scene \in BOOLEAN /\ b.restores \in BOOLEAN
         /\ b.mode \in {"actor", "move", "objective"}
         /\ b.impact > 0 \/ b.restores => b.mode = "actor"
         /\ b.track > 0 => b.mode = "objective"
<1>1. /\ b \in AbilityRecords /\ b # None
      /\ b.impact > 0 \/ b.restores => b.mode = "actor"
      /\ b.track > 0 => b.mode = "objective"
  BY AbilitiesAssumption
<1>2. QED
  BY <1>1 DEF AbilityRecords

\* The targets of each mode.
Leaves(g, t) ==
  \E u \in Actors, z \in Zones :
    /\ t = [kind |-> "actor_to_zone", actor |-> u, zone |-> z]
    /\ g.zone[u] # z /\ Occupancy(g, z) < Capacity
Meets(g, a, b, t) ==
  \E u \in Actors :
    /\ t = [kind |-> "actor", actor |-> u]
    /\ Alive(g, u) /\ (SideOf(u) # SideOf(a)) = (b.impact > 0)

LEMMA TargetsIs ==
  ASSUME NEW g, NEW a \in Actors, NEW b \in Abilities[a], NEW t \in AbilityTargets(g, a, b)
  PROVE  /\ b.mode = "objective" => t = Objective
         /\ b.mode = "move" => Leaves(g, t)
         /\ b.mode = "actor" => Meets(g, a, b, t)
         /\ t \in Targets
<1>1. CASE b.mode = "objective"
  BY <1>1 DEF AbilityTargets, Targets
<1>2. CASE b.mode = "move"
  <2>1. PICK n \in Actors \X Zones :
          /\ t = [kind |-> "actor_to_zone", actor |-> n[1], zone |-> n[2]]
          /\ g.zone[n[1]] # n[2] /\ Occupancy(g, n[2]) < Capacity
    BY <1>2 DEF AbilityTargets
  <2>2. n[1] \in Actors /\ n[2] \in Zones
    OBVIOUS
  <2>3. t \in Targets
    BY <2>1, <2>2 DEF Targets
  <2>4. QED
    BY <1>2, <2>1, <2>2, <2>3 DEF Leaves
<1>3. CASE b.mode \notin {"objective", "move"}
  <2>1. PICK u \in Actors :
          /\ t = [kind |-> "actor", actor |-> u]
          /\ Alive(g, u) /\ (SideOf(u) # SideOf(a)) = (b.impact > 0)
    BY <1>3 DEF AbilityTargets
  <2>2. t \in Targets
    BY <2>1 DEF Targets
  <2>3. QED
    BY <1>3, <2>1, <2>2 DEF Meets
<1>4. QED
  BY <1>1, <1>2, <1>3

\* The effects of an ability.
LEMMA EffectFares ==
  ASSUME NEW g \in Settled, ActiveIn(g), NEW a \in Actors, NEW b \in Abilities[a], NEW c,
         c.kind = "ability", c.ability = b, c.target \in AbilityTargets(g, a, b), NEW d,
         Quiet /\ b.impact > 0 => g.actor = None \/ SideOf(g.actor) = SideOf(a)
  PROVE  Fares(g, EffectEvents(g, c, d), Settled)
<1> DEFINE p == IF b.impact > 0 THEN ImpactEvents(g, c.target.actor, b.impact, d) ELSE <<>>
           q == IF b.mode = "move"
                THEN <<Moved(c.target.actor, g.zone[c.target.actor], c.target.zone)>> ELSE <<>>
           r == IF b.track > 0 THEN ObjectiveEvents(g, b.track) ELSE <<>>
           s == IF b.restores
                THEN <<[kind |-> "reaction_restored", actor |-> c.target.actor]>> ELSE <<>>
<1>1. /\ b.impact \in Nat /\ b.track \in Nat /\ b.mode \in {"actor", "move", "objective"}
      /\ b.restores \in BOOLEAN
      /\ b.impact > 0 \/ b.restores => b.mode = "actor"
      /\ b.track > 0 => b.mode = "objective"
  BY AbilityIs
<1>2. CASE d \notin Good
  <2>1. EffectEvents(g, c, d) = <<>>
    BY <1>2 DEF EffectEvents
  <2>2. QED
    BY <2>1, FaresNone
<1>3. CASE d \in Good
  <2>1. EffectEvents(g, c, d) = p \o q \o r \o s
    BY <1>3 DEF EffectEvents, Moved
  <2>2. /\ b.mode = "move" => Leaves(g, c.target)
        /\ b.mode = "actor" => Meets(g, a, b, c.target)
    BY TargetsIs
  <2>3. CASE b.mode = "actor"
    <3>1. PICK u \in Actors :
            /\ c.target = [kind |-> "actor", actor |-> u]
            /\ Alive(g, u) /\ (SideOf(u) # SideOf(a)) = (b.impact > 0)
      BY <2>2, <2>3 DEF Meets
    <3>2. c.target.actor = u
      BY <3>1
    <3>3. Fares(g, p, Settled)
      <4>1. CASE b.impact > 0
        <5>1. Quiet => g.actor # u
          BY <3>1, <4>1, NamesApart
        <5>2. Fares(g, ImpactEvents(g, u, b.impact, d), Settled)
          BY <1>1, <3>1, <5>1, ImpactFares
        <5>3. QED
          BY <3>2, <4>1, <5>2
      <4>2. CASE ~(b.impact > 0)
        BY <4>2, FaresNone
      <4>3. QED
        BY <4>1, <4>2
    <3>4. q = <<>> /\ r = <<>>
      BY <1>1, <2>3
    <3>5. \A y \in Settled : Fares(y, q, Settled) /\ Fares(y, r, Settled)
      BY <3>4, FaresNone
    <3>6. \A y \in Settled : Fares(y, s, Settled)
      BY <1>1, <3>2, FaresNone, RestoredFares
    <3>7. \E F : s \in Seq(F)
      BY NoneIsSeq, OneIsSeq
    <3>8. (\E F : q \in Seq(F)) /\ (\E F : r \in Seq(F))
      BY <3>4, NoneIsSeq
    <3> HIDE DEF p, q, r, s
    <3>9. QED
      BY <2>1, <3>3, <3>5, <3>6, <3>7, <3>8, FaresFour
  <2>4. CASE b.mode = "move"
    <3>1. PICK u \in Actors, z \in Zones :
            /\ c.target = [kind |-> "actor_to_zone", actor |-> u, zone |-> z]
            /\ g.zone[u] # z /\ Occupancy(g, z) < Capacity
      BY <2>2, <2>4 DEF Leaves
    <3>2. c.target.actor = u /\ c.target.zone = z
      BY <3>1
    <3>3. p = <<>> /\ r = <<>> /\ s = <<>>
      BY <1>1, <2>4
    <3>4. Fares(g, p, {g}) /\ \A y \in Settled : Fares(y, r, Settled) /\ Fares(y, s, Settled)
      BY <3>3, FaresNone
    <3>5. q = <<Moved(u, g.zone[u], z)>>
      BY <2>4, <3>2
    <3>6. \A y \in {g} : Fares(y, q, Settled)
      BY <3>1, <3>5, MovedFares
    <3>7. (\E F : q \in Seq(F)) /\ (\E F : r \in Seq(F)) /\ (\E F : s \in Seq(F))
      BY <3>3, <3>5, NoneIsSeq, OneIsSeq
    <3> HIDE DEF p, q, r, s
    <3>8. QED
      BY <2>1, <3>4, <3>6, <3>7, FaresFour
  <2>5. CASE b.mode = "objective"
    <3>1. p = <<>> /\ q = <<>> /\ s = <<>>
      BY <1>1, <2>5
    <3>2. /\ Fares(g, p, {g}) /\ \A y \in {g} : Fares(y, q, {g})
          /\ \A y \in Settled : Fares(y, s, Settled)
      BY <3>1, FaresNone
    <3>3. Fares(g, r, Settled)
      BY <1>1, FaresNone, ObjectiveFares
    <3>4. (\E F : q \in Seq(F)) /\ (\E F : r \in Seq(F)) /\ (\E F : s \in Seq(F))
      BY <3>1, <3>3, FaresSeq, NoneIsSeq
    <3> HIDE DEF p, q, r, s
    <3>5. QED
      BY <2>1, <3>2, <3>3, <3>4, FaresFour
  <2>6. QED
    BY <1>1, <2>3, <2>4, <2>5
<1>4. QED
  BY <1>2, <1>3

\* The uses of an ability that an actor is offered.
Use(a, b, t) == [actor |-> a, slot |-> b.slot, kind |-> "ability", ability |-> b, target |-> t]

UsesAbility(g, a, c) ==
  \E b \in Abilities[a] : \E t \in AbilityTargets(g, a, b) :
    c = Use(a, b, t) /\ b.slot \in g.slots[a] /\ ~(b.scene /\ a \in g.used)

UsesPlain(g, a, c) ==
  /\ c.ability = None
  /\ \/ c.kind = "pass"
     \/ c.kind = "move" /\ c.target.zone \in Zones /\ c.target.zone # g.zone[a]
                        /\ Occupancy(g, c.target.zone) < Capacity
     \/ c.kind = "advance_objective"

LEMMA UsesIs ==
  ASSUME NEW g, NEW a \in Actors, NEW S, NEW c \in AbilityUses(g, a, S)
  PROVE  UsesAbility(g, a, c) /\ c.actor = a /\ c.slot \in S /\ c.slot \in g.slots[a]
<1>1. PICK b \in Abilities[a] : /\ b.slot \in S \cap g.slots[a] /\ ~(b.scene /\ a \in g.used)
                                /\ c \in {Use(a, b, t) : t \in AbilityTargets(g, a, b)}
  BY DEF AbilityUses, Use
<1>2. PICK t \in AbilityTargets(g, a, b) : c = Use(a, b, t)
  BY <1>1
<1>3. c.actor = a /\ c.slot = b.slot
  BY <1>2 DEF Use
<1>4. QED
  BY <1>1, <1>2, <1>3 DEF UsesAbility

LEMMA CandidateIs ==
  ASSUME NEW g, NEW a \in Actors, NEW c \in Candidates(g, a)
  PROVE  /\ g.status = "active" /\ Alive(g, a) /\ c.actor = a
         /\ c.slot \in g.slots[a] /\ c.slot # "reaction"
         /\ UsesPlain(g, a, c) \/ UsesAbility(g, a, c)
<1>1. g.status = "active" /\ Alive(g, a)
  BY DEF Candidates
<1>2. \/ c \in {Plain(a, s, "pass", Self(a)) : s \in g.slots[a] \ {"reaction"}}
      \/ "maneuver" \in g.slots[a]
           /\ c \in {Plain(a, "maneuver", "move", [kind |-> "zone", zone |-> z]) : z \in Moves(g, a)}
      \/ c \in AbilityUses(g, a, {"action", "maneuver"})
      \/ "action" \in g.slots[a] /\ c = Plain(a, "action", "advance_objective", Objective)
  BY DEF Candidates
<1>3. CASE c \in {Plain(a, s, "pass", Self(a)) : s \in g.slots[a] \ {"reaction"}}
  BY <1>1, <1>3 DEF Plain, UsesPlain
<1>4. CASE "maneuver" \in g.slots[a]
             /\ c \in {Plain(a, "maneuver", "move", [kind |-> "zone", zone |-> z]) : z \in Moves(g, a)}
  <2>1. PICK z \in Moves(g, a) : c = Plain(a, "maneuver", "move", [kind |-> "zone", zone |-> z])
    BY <1>4
  <2>2. z \in Zones /\ z # g.zone[a] /\ Occupancy(g, z) < Capacity
    BY <2>1 DEF Moves
  <2>3. c.ability = None /\ c.kind = "move" /\ c.target.zone = z /\ c.actor = a /\ c.slot = "maneuver"
    BY <2>1 DEF Plain
  <2>4. QED
    BY <1>1, <1>4, <2>2, <2>3 DEF UsesPlain
<1>5. CASE c \in AbilityUses(g, a, {"action", "maneuver"})
  BY <1>1, <1>5, UsesIs
<1>6. CASE "action" \in g.slots[a] /\ c = Plain(a, "action", "advance_objective", Objective)
  BY <1>1, <1>6 DEF Plain, UsesPlain
<1>7. QED
  BY <1>2, <1>3, <1>4, <1>5, <1>6

-----------------------------------------------------------------------------
(* What an action costs *)

LEMMA CostFares ==
  ASSUME NEW g \in Settled, NEW a \in Actors, NEW b \in Abilities[a],
         b.cost > 0 => a \in Heroes /\ b.cost <= g.exertion[a]
  PROVE  Fares(g, CostEvents(g, a, b), {y \in Settled : Kept(y, g) /\ y.used = g.used})
<1>1. b.cost \in Nat
  BY AbilityIs
<1>2. CASE b.cost = 0
  <2>1. CostEvents(g, a, b) = <<>>
    BY <1>2 DEF CostEvents
  <2>2. Kept(g, g)
    BY DEF Kept, Turns, Body, Checks
  <2>3. QED
    BY <2>1, <2>2, FaresNone
<1>3. CASE b.cost # 0
  <2>1. a \in Heroes /\ b.cost <= g.exertion[a]
    BY <1>1, <1>3
  <2>2. g.exertion \in [Heroes -> 0 .. ExertionMax] /\ ExertionMax \in Nat
    BY SettledIs, BoundsAssumption DEF Games
  <2>3. g.exertion[a] - b.cost \in 0 .. ExertionMax
    BY <1>1, <2>1, <2>2
  <2>4. CostEvents(g, a, b) = <<Paid(a, g.exertion[a], g.exertion[a] - b.cost)>>
    BY <1>3 DEF CostEvents, Paid
  <2>5. QED
    BY <2>1, <2>3, <2>4, StockFares
<1>4. QED
  BY <1>2, <1>3

LEMMA SceneEventsFare ==
  ASSUME NEW g \in Settled, NEW a \in Actors, NEW b, ~(b.scene /\ a \in g.used), b.scene \in BOOLEAN
  PROVE  /\ Fares(g, SceneEvents(a, b), {y \in Settled : Kept(y, g)})
         /\ \E F : SceneEvents(a, b) \in Seq(F)
<1>1. CASE b.scene
  BY <1>1, SceneFares, OneIsSeq DEF SceneEvents
<1>2. CASE ~b.scene
  <2>1. Kept(g, g)
    BY DEF Kept, Turns, Body, Checks
  <2>2. SceneEvents(a, b) = <<>>
    BY <1>2 DEF SceneEvents
  <2>3. QED
    BY <2>1, <2>2, FaresNone, NoneIsSeq
<1>3. QED
  BY <1>1, <1>2

\* The state after the costs of an action: nothing that its effects look at
\* has changed.
After(g, a) == {y \in Settled : Body(y, g) /\ Checks(y, g) /\ y.actor \in {a, None}}

LEMMA SpentFares ==
  ASSUME NEW g \in Settled, NEW a \in Actors, g.actor = a, NEW c, c.actor = a,
         c.slot \in g.slots[a], c.slot # "reaction", Payable(g, c),
         c.ability = None \/ UsesAbility(g, a, c)
  PROVE  Fares(g, SpentEvents(g, c), After(g, a))
<1> DEFINE slot == <<[kind |-> "action_slot_spent", actor |-> a, slot |-> c.slot]>>
           P == {y \in Settled : Kept(y, g) /\ y.used = g.used}
           Q == {y \in Settled : Kept(y, g)}
<1>1. \A y \in Q : Fares(y, slot, After(g, a))
  <2>1. SUFFICES ASSUME NEW y \in Q PROVE Fares(y, slot, After(g, a))
    OBVIOUS
  <2>2. y \in Settled /\ Kept(y, g) /\ y.actor = a /\ c.slot \in y.slots[a]
    BY DEF Kept, Turns
  <2>3. Fares(y, slot, After(y, a))
    BY <2>2, SlotFares DEF After
  <2>4. After(y, a) \subseteq After(g, a)
    BY <2>2 DEF After, Kept, Body, Checks
  <2> HIDE DEF slot
  <2>5. QED
    BY <2>3, <2>4, FaresWide
<1>2. \E F : slot \in Seq(F)
  BY OneIsSeq
<1>3. CASE c.ability = None
  <2>1. SpentEvents(g, c) = <<>> \o slot
    BY <1>3 DEF SpentEvents
  <2>2. g \in Q
    BY DEF Kept, Turns, Body, Checks
  <2>3. Fares(g, <<>>, Q)
    BY <2>2, FaresNone
  <2> HIDE DEF slot, Q
  <2>4. QED
    BY <1>1, <1>2, <2>1, <2>3, FaresJoined
<1>4. CASE UsesAbility(g, a, c)
  <2>1. PICK b \in Abilities[a] : \E t : c = Use(a, b, t) /\ ~(b.scene /\ a \in g.used)
    BY <1>4 DEF UsesAbility
  <2>2. c.ability = b
    BY <2>1 DEF Use
  <2>3. b # None /\ b.cost \in Nat /\ b.scene \in BOOLEAN
    BY AbilityIs
  <2>4. SpentEvents(g, c) = (CostEvents(g, a, b) \o SceneEvents(a, b)) \o slot
    BY <2>2, <2>3 DEF SpentEvents
  <2>5. b.cost > 0 => a \in Heroes /\ b.cost <= g.exertion[a]
    BY <2>2, <2>3 DEF Payable, Cost
  <2>6. Fares(g, CostEvents(g, a, b), P)
    BY <2>5, CostFares
  <2>7. \A y \in P : Fares(y, SceneEvents(a, b), Q)
    <3>1. SUFFICES ASSUME NEW y \in P PROVE Fares(y, SceneEvents(a, b), Q)
      OBVIOUS
    <3>2. ~(b.scene /\ a \in y.used)
      BY <2>1
    <3>3. Fares(y, SceneEvents(a, b), {x \in Settled : Kept(x, y)})
      BY <2>3, <3>2, SceneEventsFare
    <3>4. {x \in Settled : Kept(x, y)} \subseteq Q
      BY KeptOn
    <3>5. QED
      BY <3>3, <3>4, FaresWide
  <2>8. \E F : SceneEvents(a, b) \in Seq(F)
    BY <2>1, <2>3, SceneEventsFare
  <2> HIDE DEF slot, P, Q
  <2>9. Fares(g, CostEvents(g, a, b) \o SceneEvents(a, b), Q)
    BY <2>6, <2>7, <2>8, FaresJoined
  <2>10. QED
    BY <1>1, <1>2, <2>4, <2>9, FaresJoined
<1>5. QED
  BY <1>3, <1>4

-----------------------------------------------------------------------------
(* The decisions, one after the other *)

LEMMA AfterIs ==
  ASSUME NEW g \in Settled, NEW a, g.actor = a
  PROVE  /\ g \in After(g, a)
         /\ \A y \in After(g, a) : /\ y \in Settled /\ Body(y, g) /\ y.status = g.status
                                   /\ y.actor \in {a, None}
BY DEF After, Body, Checks

\* What follows the costs of an action, in the state after them.
LEMMA RestFares ==
  ASSUME NEW g \in Settled, NEW a \in Actors, g.actor = a, NEW p, Fares(g, p, After(g, a)),
         NEW rest, \A y \in After(g, a) : Fares(y, rest, Settled)
  PROVE  Fares(g, p \o rest, Settled)
<1>1. Fares(g, rest, Settled)
  BY AfterIs
<1>2. PICK F : rest \in Seq(F)
  BY <1>1, FaresSeq
<1>3. QED
  BY <1>2, FaresJoined

\* An action that waits for the die on the table.
LEMMA AwaitedFares ==
  ASSUME NEW g \in Settled, ActiveIn(g), NEW c \in Awaitable, c.ability \in Abilities[c.actor],
         c.target \in AbilityTargets(g, c.actor, c.ability), g.actor \in {c.actor, None},
         NEW spark \in BOOLEAN, spark => c.actor \in Heroes
  PROVE  Fares(g, PendingEvents(c, spark), Settled)
<1> DEFINE p == IF spark THEN <<[kind |-> "spark_spent", actor |-> c.actor]>> ELSE <<>>
           q == <<Requested, Awaited(c)>>
           P == {y \in Settled : Kept(y, g)}
<1>1. PendingEvents(c, spark) = p \o q
  BY DEF PendingEvents, Requested, Awaited
<1>2. Fares(g, p, P)
  <2>1. CASE spark
    BY <2>1, SparkFares
  <2>2. CASE ~spark
    <3>1. g \in P
      BY DEF Kept, Turns, Body, Checks
    <3> HIDE DEF P
    <3>2. QED
      BY <2>2, <3>1, FaresNone
  <2>3. QED
    BY <2>1, <2>2
<1>3. \A y \in P : Fares(y, q, Settled)
  <2>1. SUFFICES ASSUME NEW y \in P PROVE Fares(y, q, Settled)
    OBVIOUS
  <2>2. y \in Settled /\ ActiveIn(y) /\ y.actor \in {c.actor, None} /\ Body(y, g)
    BY DEF Kept, Turns, Checks, ActiveIn
  <2>3. c.target \in AbilityTargets(y, c.actor, c.ability)
    BY <2>2, TargetsKept
  <2>4. QED
    BY <2>2, <2>3, PendingFares
<1>4. \E F : q \in Seq(F)
  <2>1. q \in Seq({Requested, Awaited(c)})
    OBVIOUS
  <2>2. QED
    BY <2>1
<1> HIDE DEF p, q, P
<1>5. QED
  BY <1>1, <1>2, <1>3, <1>4, FaresJoined

\* The use of an ability.
LEMMA UseFares ==
  ASSUME NEW g \in Settled, ActiveIn(g), NEW a \in Actors, g.actor = a, NEW b \in Abilities[a],
         NEW t \in AbilityTargets(g, a, b), NEW c, c = Use(a, b, t),
         NEW y \in After(g, a), NEW d
  PROVE  Fares(y, EffectEvents(g, c, d), Settled)
<1>1. y \in Settled /\ Body(y, g) /\ ActiveIn(y) /\ y.actor \in {a, None}
  BY DEF After, Checks, ActiveIn
<1>2. EffectEvents(y, c, d) = EffectEvents(g, c, d)
  BY <1>1, EffectsAlike
<1>3. c.kind = "ability" /\ c.ability = b /\ c.target = t
  BY DEF Use
<1>4. t \in AbilityTargets(y, a, b)
  BY <1>1, TargetsKept
<1>5. Fares(y, EffectEvents(y, c, d), Settled)
  BY <1>1, <1>3, <1>4, EffectFares
<1>6. QED
  BY <1>2, <1>5

LEMMA ActionFares ==
  ASSUME NEW g \in Settled, ActiveIn(g), NEW a \in Actors, g.actor = a,
         NEW c \in Candidates(g, a), Payable(g, c), NEW spark \in BOOLEAN,
         spark => a \in Heroes, NEW d
  PROVE  Fares(g, ActionEvents(g, c, spark, d), Settled)
<1>1. /\ c.actor = a /\ c.slot \in g.slots[a] /\ c.slot # "reaction"
      /\ UsesPlain(g, a, c) \/ UsesAbility(g, a, c)
  BY CandidateIs
<1>2. Fares(g, SpentEvents(g, c), After(g, a))
  BY <1>1, SpentFares DEF UsesPlain
<1> DEFINE Goal(rest) == \A y \in After(g, a) : Fares(y, rest, Settled)
<1>3. ASSUME NEW rest, ActionEvents(g, c, spark, d) = SpentEvents(g, c) \o rest, Goal(rest)
      PROVE  Fares(g, ActionEvents(g, c, spark, d), Settled)
  BY <1>2, <1>3, RestFares
<1>4. CASE UsesPlain(g, a, c) /\ c.kind = "pass"
  <2>1. ActionEvents(g, c, spark, d) = SpentEvents(g, c) \o <<>>
    BY <1>4 DEF ActionEvents
  <2>2. Goal(<<>>)
    BY FaresNone DEF After
  <2> HIDE DEF Goal
  <2>3. QED
    BY <1>3, <2>1, <2>2
<1>5. CASE UsesPlain(g, a, c) /\ c.kind = "move"
  <2> DEFINE z == c.target.zone
             rest == <<Moved(a, g.zone[a], z)>>
  <2>1. z \in Zones /\ z # g.zone[a] /\ Occupancy(g, z) < Capacity
    BY <1>5 DEF UsesPlain
  <2>2. ActionEvents(g, c, spark, d) = SpentEvents(g, c) \o rest
    BY <1>1, <1>5 DEF ActionEvents, Moved
  <2>3. ASSUME NEW y \in After(g, a)
        PROVE  Fares(y, rest, Settled)
    <3>1. y \in Settled /\ ActiveIn(y) /\ y.zone = g.zone /\ Occupancy(y, z) = Occupancy(g, z)
      BY <2>3 DEF After, Body, Checks, ActiveIn, Occupancy
    <3> HIDE DEF z
    <3>2. Fares(y, <<Moved(a, y.zone[a], z)>>, Settled)
      BY <2>1, <3>1, MovedFares
    <3>3. QED
      BY <3>1, <3>2
  <2> HIDE DEF rest
  <2>4. QED
    BY <1>3, <2>2, <2>3
<1>6. CASE UsesPlain(g, a, c) /\ c.kind = "advance_objective"
  <2> DEFINE rest == ObjectiveEvents(g, 1)
  <2>1. ActionEvents(g, c, spark, d) = SpentEvents(g, c) \o rest
    BY <1>6 DEF ActionEvents, EffectEvents, Good
  <2>2. ASSUME NEW y \in After(g, a)
        PROVE  Fares(y, rest, Settled)
    <3>1. y \in Settled /\ ActiveIn(y) /\ y.progress = g.progress
      BY <2>2 DEF After, Body, Checks, ActiveIn
    <3>2. ObjectiveEvents(g, 1) = ObjectiveEvents(y, 1)
      BY <3>1 DEF ObjectiveEvents
    <3>3. QED
      BY <3>1, <3>2, ObjectiveFares
  <2> HIDE DEF rest
  <2>3. QED
    BY <1>3, <2>1, <2>2
<1>7. CASE UsesAbility(g, a, c)
  <2>1. PICK b \in Abilities[a] : \E t \in AbilityTargets(g, a, b) :
          c = Use(a, b, t) /\ b.slot \in g.slots[a] /\ ~(b.scene /\ a \in g.used)
    BY <1>7 DEF UsesAbility
  <2>2. PICK t \in AbilityTargets(g, a, b) : c = Use(a, b, t)
    BY <2>1
  <2>3. c.kind = "ability" /\ c.ability = b /\ c.target = t
    BY <2>2 DEF Use
  <2>4. \A e : \A y \in After(g, a) : Fares(y, EffectEvents(g, c, e), Settled)
    BY <2>2, UseFares
  <2>5. CASE ~b.check
    <3>1. ActionEvents(g, c, spark, d) = SpentEvents(g, c) \o EffectEvents(g, c, "Success")
      BY <2>3, <2>5 DEF ActionEvents, UseEvents
    <3>2. Goal(EffectEvents(g, c, "Success"))
      BY <2>4
    <3> HIDE DEF Goal
    <3>3. QED
      BY <1>3, <3>1, <3>2
  <2>6. CASE b.check /\ (spark \/ BossTransition(g, c))
    <3>1. ActionEvents(g, c, spark, d) = SpentEvents(g, c) \o PendingEvents(c, spark)
      BY <2>3, <2>6 DEF ActionEvents, UseEvents
    <3>2. c \in Awaitable
      <4>1. b \in AbilityRecords /\ b.slot \in SlotNames /\ t \in Targets
        BY AbilityIs, TargetsIs
      <4>2. QED
        BY <2>2, <4>1 DEF Awaitable, Use
    <3>3. ASSUME NEW y \in After(g, a)
          PROVE  Fares(y, PendingEvents(c, spark), Settled)
      <4>1. y \in Settled /\ ActiveIn(y) /\ y.actor \in {a, None} /\ Body(y, g)
        BY <3>3 DEF After, Checks, ActiveIn
      <4>2. t \in AbilityTargets(y, a, b)
        BY <4>1, TargetsKept
      <4>3. QED
        BY <1>1, <2>3, <3>2, <4>1, <4>2, AwaitedFares
    <3>4. QED
      BY <1>3, <3>1, <3>3
  <2>7. CASE b.check /\ ~(spark \/ BossTransition(g, c))
    <3> DEFINE rest == Simulated \o EffectEvents(g, c, d)
    <3>1. ActionEvents(g, c, spark, d) = SpentEvents(g, c) \o rest
      BY <2>3, <2>7 DEF ActionEvents, UseEvents
    <3>2. ASSUME NEW y \in After(g, a)
          PROVE  Fares(y, rest, Settled)
      <4>1. y \in Settled
        BY <3>2 DEF After
      <4>2. Fares(y, Simulated, {y})
        BY <4>1, SimulatedFares
      <4>3. \A x \in {y} : Fares(x, EffectEvents(g, c, d), Settled)
        BY <2>4
      <4>4. PICK F : EffectEvents(g, c, d) \in Seq(F)
        BY <4>3, FaresSeq
      <4>5. QED
        BY <4>2, <4>3, <4>4, FaresJoined
    <3> HIDE DEF rest
    <3>3. QED
      BY <1>3, <3>1, <3>2
  <2>8. QED
    BY <2>5, <2>6, <2>7
<1>8. QED
  BY <1>1, <1>4, <1>5, <1>6, <1>7 DEF UsesPlain

\* What a reaction does before its window closes.
LEMMA ReactionEnds ==
  ASSUME NEW g \in Settled, ActiveIn(g), NEW a \in Actors,
         NEW c \in Reactions(g, a), Payable(g, c)
  PROVE  Fares(g, CostEvents(g, c.actor, c.ability)
                  \o <<[kind |-> "action_slot_spent", actor |-> c.actor, slot |-> "reaction"]>>
                  \o EffectEvents(g, c, "Success") \o Closed, Settled)
<1>1. c \in AbilityUses(g, a, {"reaction"}) /\ Alive(g, a)
  BY DEF Reactions
<1>2. UsesAbility(g, a, c) /\ c.actor = a /\ c.slot = "reaction" /\ "reaction" \in g.slots[a]
  <2>1. UsesAbility(g, a, c) /\ c.actor = a /\ c.slot \in {"reaction"} /\ c.slot \in g.slots[a]
    BY <1>1, UsesIs
  <2>2. QED
    BY <2>1
<1>3. PICK b \in Abilities[a] : \E t \in AbilityTargets(g, a, b) : c = Use(a, b, t)
  BY <1>2 DEF UsesAbility
<1>4. PICK t \in AbilityTargets(g, a, b) : c = Use(a, b, t)
  BY <1>3
<1>5. /\ c.kind = "ability" /\ c.ability = b /\ c.target = t /\ b.slot = "reaction"
      /\ b # None /\ b.cost \in Nat
  BY <1>2, <1>4, AbilityIs DEF Use
<1> DEFINE p == CostEvents(g, a, b)
           q == <<[kind |-> "action_slot_spent", actor |-> a, slot |-> "reaction"]>>
           r == EffectEvents(g, c, "Success")
           P == {y \in Settled : Kept(y, g) /\ y.used = g.used}
           Q == {y \in Settled : Body(y, g) /\ Checks(y, g) /\ y.actor = g.actor}
<1>6. Ends(g, p, P)
  <2>1. b.cost > 0 => a \in Heroes /\ b.cost <= g.exertion[a]
    BY <1>2, <1>5 DEF Payable, Cost
  <2>2. Fares(g, p, P)
    BY <2>1, CostFares
  <2> HIDE DEF p, P
  <2>3. QED
    BY <2>2, FaresEnds
<1>7. \A y \in P : Ends(y, q, Q)
  <2>1. SUFFICES ASSUME NEW y \in P PROVE Ends(y, q, Q)
    OBVIOUS
  <2> DEFINE e == [kind |-> "action_slot_spent", actor |-> a, slot |-> "reaction"]
             x == SpendSlot(y, a, "reaction")
  <2>2. /\ y \in Settled /\ Body(y, g) /\ Checks(y, g) /\ y.actor = g.actor
        /\ "reaction" \in y.slots[a]
    BY <1>2 DEF Kept, Turns
  <2>3. Alive(y, a)
    BY <1>1, <2>2, AliveKept
  <2>4. TurnFits(y, e, x) /\ x.actor = y.actor
    BY <2>2, <2>3, ReactionFits
  <2>5. Leads(y, <<e>>, x)
    BY <2>4, LeadsOne DEF TurnFits
  <2>6. x \in Q
    <3>1. x \in Settled /\ Body(x, y) /\ Checks(x, y) /\ x.actor = y.actor
      BY <2>4 DEF TurnFits
    <3> HIDE DEF x
    <3>2. Body(x, g) /\ Checks(x, g)
      BY <2>2, <3>1 DEF Body, Checks
    <3>3. QED
      BY <2>2, <3>1, <3>2
  <2> HIDE DEF e, x, Q
  <2>7. QED
    BY <2>5, <2>6 DEF Ends, e
<1>8. \A y \in Q : Fares(y, r, Settled)
  <2>1. SUFFICES ASSUME NEW y \in Q PROVE Fares(y, r, Settled)
    OBVIOUS
  <2>2. y \in Settled /\ Body(y, g) /\ ActiveIn(y)
    BY DEF Checks, ActiveIn
  <2>3. t \in AbilityTargets(y, a, b)
    BY <2>2, TargetsKept
  <2>4. ~(Quiet /\ b.impact > 0)
    BY <1>5 DEF Quiet
  <2>5. Fares(y, EffectEvents(y, c, "Success"), Settled)
    BY <1>5, <2>2, <2>3, <2>4, EffectFares
  <2>6. EffectEvents(y, c, "Success") = r
    BY <2>2, EffectsAlike
  <2>7. QED
    BY <2>5, <2>6
<1>9. PICK F : r \in Seq(F)
  <2>1. Body(g, g) /\ Checks(g, g)
    BY DEF Body, Checks
  <2> HIDE DEF r
  <2>2. Fares(g, r, Settled)
    BY <1>8, <2>1
  <2>3. QED
    BY <2>2, FaresSeq
<1>10. \A y \in Settled : Ends(y, Closed, Settled)
  <2>1. SUFFICES ASSUME NEW y \in Settled PROVE Ends(y, Closed, Settled)
    OBVIOUS
  <2>2. <<>> \in Seq(Actors)
    OBVIOUS
  <2>3. Fares(y, Closed, Settled)
    BY <2>2, WindowFares DEF Closed
  <2>4. QED
    BY <2>3, FaresEnds
<1>11. Closed \in Seq({[kind |-> "reaction_window_closed"]}) /\ Lasting(Closed)
  <2>1. Final([kind |-> "reaction_window_closed"])
    BY DEF Final, Skipped, NotStateChanging, InverseKinds
  <2>2. QED
    BY <2>1, LastingOne DEF Closed
<1>12. PICK G : q \in Seq(G)
  BY OneIsSeq
<1> HIDE DEF p, q, r, P, Q
<1>13. Ends(g, p \o q, Q)
  BY <1>6, <1>7, <1>12, EndsJoined
<1>14. \A y \in Q : Ends(y, r, Settled)
  BY <1>8, FaresEnds
<1>15. Ends(g, (p \o q) \o r, Settled)
  BY <1>9, <1>13, <1>14, EndsJoined
<1>16. Ends(g, ((p \o q) \o r) \o Closed, Settled)
  BY <1>10, <1>11, <1>15, EndsJoined
<1>17. \E H : (p \o q) \o r \in Seq(H)
  BY <1>15 DEF Ends, Leads, Stops
<1>18. Lasting(((p \o q) \o r) \o Closed)
  BY <1>11, <1>17, LastingJoined
<1>19. Fares(g, ((p \o q) \o r) \o Closed, Settled)
  BY <1>16, <1>18, EndsFares
<1>20. QED
  BY <1>2, <1>5, <1>19 DEF p, q, r

\* Aid for a hero under test.
AidApplied == [kind |-> "death_test_aid_applied", check |-> "death"]

LEMMA AidFits ==
  ASSUME NEW g \in Settled, g.status = "awaiting_death_test"
  PROVE  Fits(g, AidApplied) /\ Step(g, AidApplied) \in Settled
<1> DEFINE y == [g EXCEPT !.aided = TRUE]
<1>1. g \in Games /\ ValidCombat(g) /\ Normal(g) /\ Guarded(g) /\ Sound(g)
  BY SettledIs
<1>2. g.deathCheck # None /\ "death" \in g.checks
  BY <1>1 DEF ValidCombat, Sound, Checked
<1>3. y \in Games
  BY <1>1, ZenonT(60) DEF Games
<1>4. /\ Turns(y, g) /\ Body(y, g) /\ y.status = g.status /\ y.checks = g.checks
      /\ y.deathCheck = g.deathCheck /\ y.actionCheck = g.actionCheck
      /\ y.candidate = g.candidate /\ y.tested = g.tested /\ y.outcome = g.outcome
  BY <1>1 DEF Games, Turns, Body
<1>5. Applies(g, AidApplied) /\ Effect(g, AidApplied) = y
  BY <1>2 DEF AidApplied, Applies, HarmApplies, Effect, HarmEffect
<1>6. AidApplied.kind \in Kinds
  BY DEF AidApplied, Kinds
<1> HIDE DEF y
<1>7. ValidCombat(y) /\ Guarded(y) /\ Normal(y)
  <2>1. \A u : Occupancy(y, u) = Occupancy(g, u)
    BY <1>4 DEF Body, Occupancy
  <2>2. QED
    BY <1>1, <1>2, <1>4, <2>1 DEF Turns, Body, ValidCombat, Guarded, Normal
<1>8. Sound(y)
  <2>1. Checked(y) /\ Wounded(y) /\ Decided(y) /\ Busy(y)
    BY <1>1, <1>4, TurnsKeep DEF Sound, Checked, Wounded, Decided, Down, Body
  <2>2. Waiting(y)
    BY <1>1, <1>2, <1>4 DEF ValidCombat, Waiting
  <2>3. \A a : Alive(y, a) = Alive(g, a)
    BY <1>4, AliveKept
  <2>4. Lively(g) => Lively(y)
    BY <1>4, <2>3 DEF Lively, Turns, Body, Idle
  <2>5. QED
    BY <1>1, <2>1, <2>2, <2>4 DEF Sound
<1>9. Forget(y) = y
  BY <1>3, <1>7, ForgetsNothing
<1>10. QED
  BY <1>3, <1>5, <1>6, <1>7, <1>8, <1>9 DEF Fits, Step, Settled, Fights

LEMMA AidFares ==
  ASSUME NEW g \in Settled, g.status = "awaiting_death_test", NEW e, NEW y \in Settled,
         Fits(g, e), Step(g, e) = y, Kept(y, g)
  PROVE  Fares(g, <<e, AidApplied>>, Settled)
<1>1. y.status = "awaiting_death_test"
  BY DEF Kept, Checks
<1>2. Fits(y, AidApplied) /\ Step(y, AidApplied) \in Settled
  BY <1>1, AidFits
<1>3. Leads(g, <<e>>, y) /\ Leads(y, <<AidApplied>>, Step(y, AidApplied))
  BY <1>2, LeadsOne
<1>4. Leads(g, <<e>> \o <<AidApplied>>, Step(y, AidApplied))
  BY <1>3, LeadsJoined
<1>5. Lasting(<<e>> \o <<AidApplied>>)
  <2>1. Final(AidApplied)
    BY DEF AidApplied, Final, Skipped, NotStateChanging, InverseKinds
  <2>2. Lasting(<<AidApplied>>)
    BY <2>1, LastingOne
  <2>3. <<e>> \in Seq({e}) /\ <<AidApplied>> \in Seq({AidApplied})
    OBVIOUS
  <2>4. QED
    BY <2>2, <2>3, LastingJoined
<1>6. Ends(g, <<e>> \o <<AidApplied>>, Settled)
  BY <1>2, <1>4 DEF Ends
<1>7. QED
  BY <1>5, <1>6, EndsFares, TwoJoined

\* The die on the table answers an action.
LEMMA AnsweredFits ==
  ASSUME NEW g \in Settled, g.status = "awaiting_physical_action"
  PROVE  LET e == [kind |-> "check_resolved", check |-> "action"]
         IN  /\ Fits(g, e) /\ Final(e) /\ Step(g, e) \in Settled /\ ActiveIn(Step(g, e))
             /\ Body(Step(g, e), g) /\ Turns(Step(g, e), g)
<1> DEFINE e == [kind |-> "check_resolved", check |-> "action"]
           y == Step(g, e)
<1>1. g \in Games /\ ValidCombat(g) /\ Normal(g) /\ Guarded(g) /\ Sound(g)
  BY SettledIs
<1>2. g.actionCheck = "action" /\ g.deathCheck = None /\ g.tested = None
  <2>1. g.actionCheck # None /\ (g.deathCheck = None \/ g.actionCheck = None)
    BY <1>1 DEF ValidCombat
  <2>2. QED
    BY <1>1, <2>1 DEF Games, Normal
<1>3. /\ Fits(g, e) /\ Final(e) /\ y \in Fights /\ Body(y, g) /\ Turns(y, g)
      /\ y.status = "active" /\ y.checks = g.checks \ {"action"} /\ y.deathCheck = None
      /\ y.actionCheck = None /\ y.tested = None /\ y.outcome = None
      /\ "death" \notin y.checks /\ "action" \notin y.checks
  BY <1>2, ReleaseIs
<1> HIDE DEF e, y
<1>4. g.outcome = None /\ g.dead # Heroes /\ ~Down(g)
  <2>1. g.outcome = None
    BY <1>1 DEF Sound, Decided
  <2>2. None # "heroes_defeated"
    BY NamesApart DEF Outcomes
  <2>3. QED
    BY <1>1, <2>1, <2>2 DEF Sound, Decided
<1>5. Checked(y)
  BY <1>3 DEF Checked
<1>6. Wounded(y)
  BY <1>1, <1>2, <1>3 DEF Sound, Wounded, Body
<1>7. Decided(y)
  <2>1. None # "heroes_defeated" /\ None # "heroes_prevailed"
    BY NamesApart DEF Outcomes
  <2>2. y.dead # Heroes /\ ~Down(y)
    BY <1>3, <1>4 DEF Body, Down
  <2>3. QED
    BY <1>3, <2>1, <2>2 DEF Decided
<1>8. Waiting(y) /\ Busy(y)
  BY <1>1, <1>3, TurnsKeep DEF Waiting, Sound
<1>9. Lively(g) => Lively(y)
  <2>1. \A a : Alive(y, a) = Alive(g, a)
    BY <1>3, AliveKept
  <2>2. QED
    BY <1>3, <2>1 DEF Lively, Turns, Body, Idle
<1>10. y \in Settled
  BY <1>1, <1>3, <1>5, <1>6, <1>7, <1>8, <1>9 DEF Settled, Sound
<1>11. QED
  BY <1>3, <1>10 DEF ActiveIn, y, e

LEMMA ActionRollFares ==
  ASSUME NEW g \in Settled, g.status = "awaiting_physical_action", NEW d
  PROVE  Fares(g, <<[kind |-> "check_resolved", check |-> "action"]>>
                  \o EffectEvents(g, g.candidate, d), Settled)
<1> DEFINE e == [kind |-> "check_resolved", check |-> "action"]
           y == Step(g, e)
           c == g.candidate
<1>1. /\ Fits(g, e) /\ Final(e) /\ y \in Settled /\ ActiveIn(y) /\ Body(y, g) /\ Turns(y, g)
      /\ Step(g, e) \in {y}
  BY AnsweredFits
<1> HIDE DEF e, y
<1>2. g.actionCheck # None
  BY SettledIs DEF ValidCombat
<1>3. c \in Awaitable /\ c.ability \in Abilities[c.actor]
      /\ c.target \in AbilityTargets(g, c.actor, c.ability)
  BY <1>2, SettledIs DEF Sound, Waiting
<1>4. c.actor \in Actors /\ c.kind = "ability"
  BY <1>3 DEF Awaitable
<1>5. c.target \in AbilityTargets(y, c.actor, c.ability)
  BY <1>1, <1>3, TargetsKept
<1>6. Quiet => y.actor = None \/ SideOf(y.actor) = SideOf(c.actor)
  BY <1>1, <1>2, SettledIs DEF Sound, Lively, Turns
<1> HIDE DEF c
<1>7. Fares(y, EffectEvents(y, c, d), Settled)
  BY <1>1, <1>3, <1>4, <1>5, <1>6, EffectFares
<1>8. EffectEvents(y, c, d) = EffectEvents(g, c, d)
  BY <1>1, EffectsAlike
<1>9. Fares(g, <<e>>, {y})
  BY <1>1, FinalFares
<1>10. \A x \in {y} : Fares(x, EffectEvents(g, c, d), Settled)
  BY <1>7, <1>8
<1>11. PICK F : EffectEvents(g, c, d) \in Seq(F)
  BY <1>10, FaresSeq
<1>12. Fares(g, <<e>> \o EffectEvents(g, c, d), Settled)
  BY <1>9, <1>10, <1>11, FaresJoined
<1>13. QED
  BY <1>12 DEF e, c

\* The die on the table answers a test of death.
LEMMA TestAnswered ==
  ASSUME NEW g \in Settled, g.status = "awaiting_death_test"
  PROVE  LET e == [kind |-> "check_resolved", check |-> "death"]
             y == Step(g, e)
         IN  /\ Fits(g, e) /\ Final(e) /\ y \in Fights /\ Body(y, g) /\ Turns(y, g)
             /\ y.status = "active" /\ y.deathCheck = None /\ y.actionCheck = None
             /\ y.tested = None /\ y.outcome = None /\ Checked(y) /\ Busy(y)
             /\ g.tested \in Heroes \ g.dead /\ g.outcome = None /\ g.dead # Heroes /\ ~Down(g)
             /\ \A h \in Heroes : (g.wounds[h] = WoundSlots) <=> (h \in g.dead \/ g.tested = h)
             /\ Quiet => Lively(y) /\ y.actor # g.tested
<1> DEFINE e == [kind |-> "check_resolved", check |-> "death"]
           y == Step(g, e)
<1>1. g \in Games /\ ValidCombat(g) /\ Normal(g) /\ Guarded(g) /\ Sound(g)
  BY SettledIs
<1>2. g.deathCheck = "death"
  BY <1>1 DEF ValidCombat, Games
<1>3. /\ Fits(g, e) /\ Final(e) /\ y \in Fights /\ Body(y, g) /\ Turns(y, g)
      /\ y.status = "active" /\ y.checks = g.checks \ {"death"} /\ y.deathCheck = None
      /\ y.actionCheck = None /\ y.tested = None /\ y.outcome = None
      /\ "death" \notin y.checks /\ "action" \notin y.checks
  BY <1>2, ReleaseIs
<1> HIDE DEF e, y
<1>4. g.tested \in Heroes \ g.dead
  BY <1>1, <1>2, NamesApart DEF Sound, Checked, Wounded, Games
<1>5. g.outcome = None /\ g.dead # Heroes /\ ~Down(g)
  <2>1. g.outcome = None
    BY <1>1 DEF Sound, Decided
  <2>2. None # "heroes_defeated"
    BY NamesApart DEF Outcomes
  <2>3. QED
    BY <1>1, <2>1, <2>2 DEF Sound, Decided
<1>6. Checked(y) /\ Busy(y)
  BY <1>1, <1>3, TurnsKeep DEF Checked, Sound
<1>7. Lively(g) => Lively(y) /\ y.actor # g.tested
  <2>1. \A a : Alive(y, a) = Alive(g, a)
    BY <1>3, AliveKept
  <2>2. QED
    BY <1>3, <1>4, <2>1, NamesApart DEF Lively, Turns, Body, Idle
<1>8. QED
  BY <1>1, <1>3, <1>4, <1>5, <1>6, <1>7 DEF Sound, Wounded, y, e

StabilizedOf(h) == [kind |-> "hero_stabilized", hero |-> h]
DiedOf(h) == [kind |-> "character_died", hero |-> h]

\* A test that the hero survives, or not.
LEMMA StabilizedFits ==
  ASSUME NEW g \in Fights, g.status = "active", g.deathCheck = None, g.actionCheck = None,
         g.tested = None, g.outcome = None, Checked(g), Busy(g), NEW h \in Heroes \ g.dead,
         \A k \in Heroes : (g.wounds[k] = WoundSlots) <=> (k \in g.dead \/ h = k),
         Quiet => Lively(g), ~Down(g), g.dead # Heroes
  PROVE  Fits(g, StabilizedOf(h)) /\ Step(g, StabilizedOf(h)) \in Settled
<1> DEFINE e == StabilizedOf(h)
           wounds == [g.wounds EXCEPT ![h] = WoundSlots - 1]
           y == [g EXCEPT !.wounds = wounds]
<1>1. g \in Games /\ ValidCombat(g) /\ Normal(g) /\ Guarded(g)
  BY DEF Fights
<1>2. g.wounds \in [Heroes -> 0 .. WoundSlots] /\ WoundSlots \in Nat \ {0}
  BY <1>1, BoundsAssumption DEF Games
<1>3. wounds \in [Heroes -> 0 .. WoundSlots]
  BY <1>2
<1>4. y \in Games
  <2> HIDE DEF wounds
  <2>1. g \in Games
    BY <1>1
  <2>2. QED
    BY <1>3, <2>1, ZenonT(60) DEF Games
<1>5. /\ Turns(y, g) /\ Checks(y, g) /\ y.trigger = g.trigger /\ y.round = g.round
      /\ y.zone = g.zone /\ y.guard = g.guard /\ y.dead = g.dead /\ y.progress = g.progress
      /\ y.wounds = wounds
  BY <1>1 DEF Games, Turns, Checks
<1>6. e.kind \in Kinds
  BY DEF Kinds, StabilizedOf
<1>7. Applies(g, e) /\ Effect(g, e) = y
  BY <1>1 DEF Applies, HarmApplies, RecordApplies, Effect, HarmEffect, StabilizedOf
<1>8. \A k \in Heroes : wounds[k] = IF k = h THEN WoundSlots - 1 ELSE g.wounds[k]
  BY <1>2
<1> HIDE DEF e, y, wounds
<1>9. Wounded(y)
  <2>1. y.tested = None /\ None \notin Heroes /\ g.dead \subseteq Heroes
    BY <1>1, <1>5, NamesApart DEF Checks, Games
  <2>2. \A k \in Heroes : (y.wounds[k] = WoundSlots) <=> (k \in g.dead)
    BY <1>2, <1>5, <1>8
  <2>3. QED
    BY <1>5, <2>1, <2>2 DEF Wounded
<1>10. ValidCombat(y)
  <2>1. \A u : Occupancy(y, u) = Occupancy(g, u)
    BY <1>5 DEF Occupancy
  <2>2. QED
    BY <1>1, <1>5, <2>1 DEF Turns, Checks, ValidCombat
<1>11. Normal(y) /\ Guarded(y) /\ Checked(y) /\ Busy(y) /\ Forget(y) = y
  BY <1>1, <1>4, <1>5, ChecksKeep, TurnsKeep, ForgetsNothing DEF Guarded
<1>12. Quiet => Lively(y)
  <2>1. \A a : Alive(y, a) = Alive(g, a)
    BY <1>5 DEF Alive, Arrived
  <2>2. QED
    BY <1>5, <2>1 DEF Lively, Turns, Checks, Idle
<1>13. y \in Open
  BY <1>4, <1>5, <1>9, <1>10, <1>11, <1>12 DEF Open, Fights, Checks
<1>14. ~Down(y)
  BY <1>5 DEF Down
<1>15. y \in Settled
  BY <1>5, <1>13, <1>14, OpenSettled
<1>16. QED
  BY <1>6, <1>7, <1>10, <1>11, <1>15 DEF Fits, Step, e

LEMMA DiedFits ==
  ASSUME NEW g \in Fights, g.status = "active", g.deathCheck = None, g.actionCheck = None,
         g.tested = None, g.outcome = None, Checked(g), Busy(g), NEW h \in Heroes,
         \A k \in Heroes : (g.wounds[k] = WoundSlots) <=> (k \in g.dead \/ h = k),
         Quiet => Lively(g) /\ g.actor # h, ~Down(g)
  PROVE  /\ Fits(g, DiedOf(h)) /\ Step(g, DiedOf(h)) \in Open /\ ~Down(Step(g, DiedOf(h)))
         /\ Step(g, DiedOf(h)).dead = g.dead \cup {h}
<1> DEFINE e == DiedOf(h)
           dead == g.dead \cup {h}
           y == [g EXCEPT !.dead = dead]
<1>1. g \in Games /\ ValidCombat(g) /\ Normal(g) /\ Guarded(g)
  BY DEF Fights
<1>2. dead \in SUBSET Heroes /\ g.dead \in SUBSET Heroes
  BY <1>1 DEF Games
<1>3. y \in Games
  <2> HIDE DEF dead
  <2>1. g \in Games
    BY <1>1
  <2>2. QED
    BY <1>2, <2>1, ZenonT(60) DEF Games
<1>4. /\ Turns(y, g) /\ Checks(y, g) /\ y.trigger = g.trigger /\ y.round = g.round
      /\ y.zone = g.zone /\ y.guard = g.guard /\ y.wounds = g.wounds /\ y.progress = g.progress
      /\ y.dead = dead
  BY <1>1 DEF Games, Turns, Checks
<1>5. e.kind \in Kinds
  BY DEF Kinds, DiedOf
<1>6. Applies(g, e) /\ Effect(g, e) = y
  BY <1>1 DEF Applies, HarmApplies, RecordApplies, Effect, HarmEffect, DiedOf
<1> HIDE DEF e, y
<1>7. Wounded(y)
  <2>1. y.tested = None /\ None \notin Heroes
    BY <1>4, NamesApart DEF Checks
  <2>2. QED
    BY <1>2, <1>4, <2>1 DEF Wounded
<1>8. ValidCombat(y)
  <2>1. \A u : Occupancy(y, u) = Occupancy(g, u)
    BY <1>4 DEF Occupancy
  <2>2. QED
    BY <1>1, <1>4, <2>1 DEF Turns, Checks, ValidCombat
<1>9. Normal(y) /\ Guarded(y) /\ Checked(y) /\ Busy(y) /\ Forget(y) = y
  BY <1>1, <1>3, <1>4, ChecksKeep, TurnsKeep, ForgetsNothing DEF Guarded
<1>10. Quiet => Lively(y)
  <2>1. \A a : a # h => Alive(y, a) = Alive(g, a)
    BY <1>4 DEF Alive, Arrived
  <2>2. QED
    BY <1>4, <2>1 DEF Lively, Turns, Checks, Idle
<1>11. y \in Open
  BY <1>3, <1>4, <1>7, <1>8, <1>9, <1>10 DEF Open, Fights, Checks
<1>12. ~Down(y)
  BY <1>4 DEF Down
<1>13. QED
  BY <1>4, <1>5, <1>6, <1>8, <1>9, <1>11, <1>12 DEF Fits, Step, e

LEMMA DeathRollFares ==
  ASSUME NEW g \in Settled, g.status = "awaiting_death_test", NEW d
  PROVE  Fares(g, <<[kind |-> "check_resolved", check |-> "death"]>>
                  \o IF d \in Good
                     THEN <<[kind |-> "hero_stabilized", hero |-> g.tested]>>
                     ELSE <<[kind |-> "character_died", hero |-> g.tested]>>
                          \o Resolution(g, {}, {g.tested}), Settled)
<1> DEFINE e == [kind |-> "check_resolved", check |-> "death"]
           y == Step(g, e)
           h == g.tested
           rest == IF d \in Good THEN <<StabilizedOf(h)>>
                   ELSE <<DiedOf(h)>> \o Resolution(g, {}, {h})
<1>1. /\ Fits(g, e) /\ Final(e) /\ y \in Fights /\ Body(y, g) /\ Turns(y, g)
      /\ y.status = "active" /\ y.deathCheck = None /\ y.actionCheck = None
      /\ y.tested = None /\ y.outcome = None /\ Checked(y) /\ Busy(y)
      /\ h \in Heroes \ g.dead /\ g.outcome = None /\ g.dead # Heroes /\ ~Down(g)
      /\ \A k \in Heroes : (g.wounds[k] = WoundSlots) <=> (k \in g.dead \/ h = k)
      /\ Quiet => Lively(y) /\ y.actor # h
      /\ y = Step(g, e)
  BY TestAnswered
<1>2. g.dead \subseteq Heroes
  BY SettledIs DEF Games
<1> HIDE DEF e, y, h
<1>3. y.dead = g.dead /\ y.wounds = g.wounds /\ ~Down(y)
  BY <1>1 DEF Body, Down
<1>4. \E z \in Settled : Leads(y, rest, z)
  <2>1. CASE d \in Good
    <3>1. Fits(y, StabilizedOf(h)) /\ Step(y, StabilizedOf(h)) \in Settled
      BY <1>1, <1>3, StabilizedFits
    <3>2. Leads(y, <<StabilizedOf(h)>>, Step(y, StabilizedOf(h)))
      BY <3>1, LeadsOne
    <3>3. QED
      BY <2>1, <3>1, <3>2
  <2>2. CASE d \notin Good
    <3> DEFINE z == Step(y, DiedOf(h))
               o == [kind |-> "combat_resolved", outcome |-> "heroes_defeated"]
    <3>1. Fits(y, DiedOf(h)) /\ z \in Open /\ ~Down(z) /\ z.dead = y.dead \cup {h}
      BY <1>1, <1>3, DiedFits
    <3>2. Leads(y, <<DiedOf(h)>>, z)
      BY <3>1, LeadsOne
    <3> HIDE DEF z
    <3>3. \E x \in Settled : Leads(z, Resolution(g, {}, {h}), x)
      <4>1. CASE z.dead = Heroes
        <5>1. Resolution(g, {}, {h}) = <<o>>
          BY <1>1, <1>3, <3>1, <4>1 DEF Resolution, Down
        <5>2. "heroes_defeated" \in Outcomes
          BY DEF Outcomes
        <5>3. Fits(z, o) /\ Step(z, o) \in Settled
          BY <3>1, <4>1, <5>2, ResolvedFits
        <5>4. Leads(z, <<o>>, Step(z, o))
          BY <5>3, LeadsOne
        <5>5. QED
          BY <5>1, <5>3, <5>4
      <4>2. CASE z.dead # Heroes
        <5>1. Resolution(g, {}, {h}) = <<>>
          BY <1>1, <1>2, <1>3, <3>1, <4>2 DEF Resolution, Down
        <5>2. Leads(z, <<>>, z)
          BY GoesNone DEF Goes
        <5>3. z \in Settled
          BY <3>1, <4>2, OpenSettled
        <5>4. QED
          BY <5>1, <5>2, <5>3
      <4>3. QED
        BY <4>1, <4>2
    <3>4. PICK x \in Settled : Leads(z, Resolution(g, {}, {h}), x)
      BY <3>3
    <3>5. Leads(y, <<DiedOf(h)>> \o Resolution(g, {}, {h}), x)
      BY <3>2, <3>4, LeadsJoined
    <3>6. QED
      BY <2>2, <3>5
  <2>3. QED
    BY <2>1, <2>2
<1>5. PICK z \in Settled : Leads(y, rest, z)
  BY <1>4
<1> HIDE DEF rest
<1>6. Goes(g, <<e>> \o rest, z)
  BY <1>1, <1>5, FinalThen
<1>7. QED
  BY <1>6 DEF Fares, e, h, rest, StabilizedOf, DiedOf

-----------------------------------------------------------------------------
(* Turns *)

Began(a) == [kind |-> "activation_started", actor |-> a]

\* Somebody who has not acted yet begins its activation.
LEMMA BeganFares ==
  ASSUME NEW g \in Settled, ActiveIn(g), g.actor = None, NEW a \in Actors, ~g.spent[a],
         Alive(g, a), ~Idle(g, a)
  PROVE  Fares(g, <<Began(a)>>, Settled)
<1> DEFINE e == Began(a)
           side == SideOf(a)
           y == [g EXCEPT !.actor = a, !.side = side]
<1>1. g \in Games /\ ValidCombat(g) /\ Normal(g) /\ Guarded(g) /\ Sound(g)
  BY SettledIs
<1>2. a \in Actors \cup {None} /\ side \in {"hero", "enemy"}
  BY DEF SideOf
<1>3. y \in Games
  <2> HIDE DEF side
  <2>1. g \in Games
    BY <1>1
  <2>2. QED
    BY <1>2, <2>1, ZenonT(60) DEF Games
<1>4. /\ Body(y, g) /\ Checks(y, g) /\ y.actor = a /\ y.side = side /\ y.slots = g.slots
      /\ y.spent = g.spent
  BY <1>1 DEF Games, Body, Checks
<1>5. e.kind \in Kinds
  BY DEF Kinds, Began
<1>6. Applies(g, e) /\ Effect(g, e) = y
  BY DEF Applies, Effect, Began
<1> HIDE DEF y, e
<1>7. ValidCombat(y)
  BY <1>1, <1>4, TurnValid
<1>8. Busy(y)
  BY <1>1, <1>4 DEF Sound, Busy, Idle
<1>9. Lively(g) => Lively(y)
  <2>1. Alive(y, a)
    BY <1>4, AliveKept
  <2>2. y.tested = None /\ y.actionCheck = None /\ a # None
    <3>1. g.tested = None /\ g.actionCheck = None
      BY <1>1 DEF ActiveIn, ValidCombat, Normal
    <3>2. QED
      BY <1>4, <3>1, NamesApart DEF Checks
  <2>3. QED
    BY <1>4, <2>1, <2>2 DEF Lively, Body, Idle
<1>10. y \in Settled /\ Forget(y) = y
  BY <1>3, <1>4, <1>7, <1>8, <1>9, TurnSettled
<1>11. Final(e)
  BY DEF e, Began, Final, Skipped, NotStateChanging, InverseKinds
<1>12. Fits(g, e) /\ Step(g, e) \in Settled
  BY <1>5, <1>6, <1>7, <1>10 DEF Fits, Step
<1>13. QED
  BY <1>11, <1>12, FinalFares DEF e

\* Everybody has acted: a new round.
LEMMA RoundFits ==
  ASSUME NEW g \in Settled, ActiveIn(g), g.actor = None, RoundOver(g), g.round < MaxRound
  PROVE  LET e == [kind |-> "round_advanced", previous |-> g.round]
             y == Step(g, e)
         IN  /\ Fits(g, e) /\ Final(e) /\ y \in Settled /\ ActiveIn(y) /\ y.actor = None
             /\ y.dead = g.dead /\ \A h \in Heroes : ~y.spent[h] /\ ~Idle(y, h)
<1> DEFINE e == [kind |-> "round_advanced", previous |-> g.round]
           round == g.round + 1
           slots == [a \in Actors |-> Fresh]
           spent == [a \in Actors |-> /\ a \in Reinforcements
                                      /\ g.trigger = "objective_progress_2"
                                      /\ g.progress < 2]
           y == [g EXCEPT !.round = round, !.side = "hero", !.actor = None, !.window = <<>>,
                          !.slots = slots, !.spent = spent]
<1>1. g \in Games /\ ValidCombat(g) /\ Normal(g) /\ Guarded(g) /\ Sound(g)
  BY SettledIs
<1>2. g.round \in 1 .. MaxRound /\ MaxRound \in Nat \ {0}
  BY <1>1, EncounterAssumption DEF Games
<1>3. /\ round \in 1 .. MaxRound /\ round # 1 /\ None \in Actors \cup {None} /\ <<>> \in Seq(Actors)
      /\ slots \in [Actors -> SUBSET SlotNames] /\ spent \in [Actors -> BOOLEAN]
      /\ "hero" \in {"hero", "enemy"}
  BY <1>2 DEF Fresh
<1>4. y \in Games
  <2> HIDE DEF slots, spent, round
  <2>1. g \in Games
    BY <1>1
  <2>2. QED
    BY <1>3, <2>1, ZenonT(120) DEF Games
<1>5. /\ Checks(y, g) /\ y.trigger = g.trigger /\ y.zone = g.zone /\ y.guard = g.guard
      /\ y.wounds = g.wounds /\ y.dead = g.dead /\ y.progress = g.progress /\ y.round = round
      /\ y.actor = None /\ y.slots = slots /\ y.spent = spent
  BY <1>1 DEF Games, Checks
<1>6. e.kind \in Kinds /\ Final(e)
  BY DEF Kinds, Final, Skipped, NotStateChanging, InverseKinds
<1>7. \A a \in Actors : Alive(g, a) => g.spent[a]
  BY DEF RoundOver, Unspent, SideOf
<1>8. Applies(g, e) /\ Effect(g, e) = y
  BY <1>7 DEF Applies, Effect, AdvanceRound
<1>9. \A a \in Actors : ~Idle(y, a)
  BY <1>5 DEF Idle, Fresh, SlotNames
<1>10. \A h \in Heroes : ~y.spent[h]
  <2>1. \A h \in Heroes : h \notin Reinforcements /\ h \in Actors
    BY ActorsAssumption, NamesApart
  <2>2. QED
    BY <1>5, <2>1
<1> HIDE DEF y, e, slots, spent, round
<1>11. ValidCombat(y)
  <2>1. \A u : Occupancy(y, u) = Occupancy(g, u)
    BY <1>5 DEF Occupancy
  <2>2. QED
    BY <1>1, <1>3, <1>5, <2>1 DEF Checks, ValidCombat
<1>12. Normal(y) /\ Guarded(y) /\ Checked(y) /\ Forget(y) = y
  BY <1>1, <1>4, <1>5, ChecksKeep, ForgetsNothing DEF Guarded, Sound
<1>13. Wounded(y) /\ Decided(y)
  BY <1>1, <1>5 DEF Sound, Wounded, Decided, Down, Checks
<1>14. Waiting(y)
  BY <1>1, <1>5 DEF ActiveIn, ValidCombat, Waiting, Checks
<1>15. Busy(y)
  BY <1>5, <1>9, NamesApart DEF Busy
<1>16. Lively(g) => Lively(y)
  BY <1>5, <1>9 DEF Lively
<1>17. y \in Settled
  BY <1>1, <1>4, <1>11, <1>12, <1>13, <1>14, <1>15, <1>16 DEF Settled, Fights, Sound
<1>18. Fits(g, e) /\ Step(g, e) = y
  BY <1>6, <1>8, <1>11, <1>12 DEF Fits, Step
<1>19. ActiveIn(y)
  BY <1>5 DEF ActiveIn, Checks
<1>20. \A h \in Heroes : ~Idle(y, h)
  BY <1>9, NamesApart
<1> HIDE DEF Idle
<1>21. QED
  BY <1>5, <1>6, <1>10, <1>17, <1>18, <1>19, <1>20 DEF e

LEMMA ActivationFares ==
  ASSUME NEW g \in Settled, ActiveIn(g), NEW a \in Actors, g.actor # a, MayActivate(g, a),
         RoundOver(g) /\ g.actor = None => g.round < MaxRound,
         a \in Enemies => ~Idle(g, a)
  PROVE  Fares(g, ActivationEvents(g, a), Settled)
<1>1. g.actor = None /\ Alive(g, a)
  BY DEF MayActivate
<1>2. CASE RoundOver(g)
  <2> DEFINE e == [kind |-> "round_advanced", previous |-> g.round]
             y == Step(g, e)
  <2>1. a \in Heroes
    BY <1>1, <1>2 DEF MayActivate
  <2>2. /\ Fits(g, e) /\ Final(e) /\ y \in Settled /\ ActiveIn(y) /\ y.actor = None
        /\ y.dead = g.dead /\ \A h \in Heroes : ~y.spent[h] /\ ~Idle(y, h)
        /\ Step(g, e) \in {y}
    BY <1>1, <1>2, RoundFits
  <2>3. ActivationEvents(g, a) = <<e>> \o <<Began(a)>>
    BY <1>1, <1>2 DEF ActivationEvents, Began
  <2> HIDE DEF e, y
  <2>4. Alive(y, a)
    BY <1>1, <2>1, <2>2 DEF Alive
  <2>5. Fares(y, <<Began(a)>>, Settled)
    BY <2>1, <2>2, <2>4, BeganFares
  <2>6. Fares(g, <<e>>, {y})
    BY <2>2, FinalFares
  <2>7. PICK F : <<Began(a)>> \in Seq(F)
    BY OneIsSeq
  <2>8. \A x \in {y} : Fares(x, <<Began(a)>>, Settled)
    BY <2>5
  <2>9. QED
    BY <2>3, <2>6, <2>7, <2>8, FaresJoined
<1>3. CASE ~RoundOver(g)
  <2>1. ActivationEvents(g, a) = <<Began(a)>>
    BY <1>1, <1>3 DEF ActivationEvents, Began
  <2>2. ~g.spent[a]
    BY <1>1, <1>3 DEF MayActivate
  <2>3. ~Idle(g, a)
    BY <2>2, SettledIs, NamesApart DEF Sound, Busy
  <2>4. QED
    BY <1>1, <2>1, <2>2, <2>3, BeganFares
<1>4. QED
  BY <1>2, <1>3

\* An enemy that can do something has a slot left for it.
LEMMA CandidateNotIdle ==
  ASSUME NEW g, NEW a \in Actors, Candidates(g, a) # {}
  PROVE  ~Idle(g, a)
<1>1. PICK c \in Candidates(g, a) : TRUE
  OBVIOUS
<1>2. c.slot \in g.slots[a] /\ c.slot # "reaction"
  BY CandidateIs
<1>3. QED
  BY <1>2 DEF Idle

-----------------------------------------------------------------------------
(* Reaction windows *)

LEMMA SetToSeqIs ==
  ASSUME NEW S, IsFiniteSet(S)
  PROVE  SetToSeq(S) \in Seq(S)
<1>1. Cardinality(S) \in Nat /\ ExistsBijection(1 .. Cardinality(S), S)
  BY FS_CardinalityType
<1>2. \E f \in [1 .. Cardinality(S) -> S] : IsInjective(f)
  BY <1>1 DEF ExistsBijection, Bijection, Injection
<1>3. SetToSeq(S) \in [1 .. Cardinality(S) -> S]
  BY <1>2 DEF SetToSeq
<1>4. QED
  BY <1>1, <1>3, SeqDef

LEMMA EligibleIs ==
  ASSUME NEW g, NEW a \in Actors
  PROVE  Eligible(g, a) \in Seq(Actors)
<1> DEFINE R(S) == {b \in S \ {a} : "reaction" \in g.slots[b] /\ Alive(g, b)}
           first == IF "reaction" \in g.slots[a] /\ Alive(g, a) THEN <<a>> ELSE <<>>
<1>1. R(Heroes) \subseteq Actors /\ R(Enemies) \subseteq Actors
  BY NamesApart
<1>2. IsFiniteSet(R(Heroes)) /\ IsFiniteSet(R(Enemies))
  BY <1>1, ActorsAssumption, FS_Subset
<1>3. SetToSeq(R(Heroes)) \in Seq(R(Heroes)) /\ SetToSeq(R(Enemies)) \in Seq(R(Enemies))
  BY <1>2, SetToSeqIs
<1>4. SetToSeq(R(Heroes)) \in Seq(Actors) /\ SetToSeq(R(Enemies)) \in Seq(Actors)
  <2> HIDE DEF R
  <2>1. QED
    BY <1>1, <1>3
<1>5. first \in Seq(Actors)
  OBVIOUS
<1>6. Eligible(g, a) = first \o SetToSeq(R(Heroes)) \o SetToSeq(R(Enemies))
  BY DEF Eligible
<1> HIDE DEF R, first
<1>7. QED
  BY <1>4, <1>5, <1>6

-----------------------------------------------------------------------------
(* The invariant *)

LEMMA VerdictsApart ==
  /\ None \notin Tolerated /\ "applied" # "irreversible"
  /\ Tolerated \subseteq {"reaction_restored", "spark_spent"}
BY ToleratedIs, NamesApart DEF Tolerated

\* A decision whose events lead to a settled fight, or stop at one of the two
\* that are accepted although they do not fit.
LEMMA CommitKeeps ==
  ASSUME game \in Settled, NEW es, Fares(game, es, Settled), Commit(es)
  PROVE  IInv'
<1> DEFINE r == ApplyAll(game, es)
<1>1. CASE Stops(game, es)
  <2> DEFINE at(x, k) == r = [game |-> x, refused |-> k]
  <2>0. PICK x : \E k \in Tolerated : at(x, k)
    BY <1>1 DEF Stops
  <2>1. PICK k \in Tolerated : at(x, k)
    BY <2>0
  <2>2. r.refused = k /\ k # None
    BY <2>1, VerdictsApart
  <2>3. verdict' = k /\ game' = game
    BY <2>2 DEF Commit
  <2>4. AcceptedApplies' /\ UndoRestores'
    BY <2>3 DEF AcceptedApplies, UndoRestores, Tolerated
  <2>5. QED
    BY <2>3, <2>4 DEF IInv
<1>2. CASE \E y \in Settled : Goes(game, es, y)
  <2>1. PICK y \in Settled : Goes(game, es, y)
    BY <1>2
  <2>2. r = [game |-> y, refused |-> None] /\ Reverts(game, es, y)
    BY <2>1 DEF Goes, Leads, Begin
  <2>3. r.refused = None /\ r.game = y
    BY <2>2
  <2>4. ~(Compensable(es) /\ Undone(game, es) # [game |-> game, refused |-> None])
    <3>1. CASE Lasting(es)
      <4>1. ~Compensable(es)
        BY <3>1, FinalStays DEF Lasting
      <4>2. QED
        BY <4>1
    <3>2. CASE ApplyAll(y, Compensation(es)) = Begin(game)
      BY <2>3, <3>2 DEF Undone, Begin
    <3>3. QED
      BY <2>2, <3>1, <3>2 DEF Reverts
  <2>5. game' = y /\ verdict' = "applied"
    BY <2>3, <2>4 DEF Commit
  <2>6. AcceptedApplies' /\ UndoRestores'
    BY <2>5 DEF AcceptedApplies, UndoRestores
  <2>7. QED
    BY <2>5, <2>6 DEF IInv
<1>3. QED
  BY <1>1, <1>2 DEF Fares

LEMMA NoGameActive == NoGame.status = "none"
BY DEF NoGame

\* Only a settled fight is under way.
LEMMA UnderWay ==
  ASSUME IInv, game.status # "none"
  PROVE  game \in Settled
BY NoGameActive DEF IInv

LEMMA InitHolds ==
  ASSUME Init
  PROVE  IInv
BY DEF Init, IInv, AcceptedApplies, UndoRestores

LEMMA StartKeeps ==
  ASSUME IInv, NEW t \in Triggers, StartCombat(t)
  PROVE  IInv'
<1> DEFINE spent == [a \in Actors |-> a \in Reinforcements /\ t # "none"]
           slots == [a \in Actors |-> Fresh]
           wounds == [h \in Heroes |-> 0]
           exertion == [h \in Heroes |-> ExertionMax]
           y == [game EXCEPT !.status = "active", !.trigger = t, !.spent = spent]
<1>1. game.status = "none" /\ ValidCombat(y) /\ game' = y /\ verdict' = "applied"
  BY DEF StartCombat
<1>2. game = NoGame
  <2>1. game \notin Settled
    BY <1>1, SettledIs DEF Games
  <2>2. QED
    BY <2>1 DEF IInv
<1>3. /\ y.status = "active" /\ y.trigger = t /\ y.spent = spent /\ y.slots = slots
      /\ y.actor = None /\ y.guard = GuardMax /\ y.wounds = wounds /\ y.dead = {}
      /\ y.checks = {} /\ y.deathCheck = None /\ y.actionCheck = None /\ y.candidate = None
      /\ y.tested = None /\ y.aided = FALSE /\ y.outcome = None
  BY <1>2 DEF NoGame
<1>4. /\ t \in {"none", "round_2", "objective_progress_2"} /\ 1 \in 1 .. MaxRound
      /\ 0 \in 0 .. Threshold /\ SupplyMax \in 0 .. SupplyMax /\ <<>> \in Seq(Actors)
      /\ Start \in [Actors -> Zones]
  BY EncounterAssumption, BoundsAssumption
<1>5. /\ slots \in [Actors -> SUBSET SlotNames] /\ spent \in [Actors -> BOOLEAN]
      /\ wounds \in [Heroes -> 0 .. WoundSlots] /\ exertion \in [Heroes -> 0 .. ExertionMax]
      /\ GuardMax \in [Actors -> Nat]
  BY BoundsAssumption DEF Fresh
<1>6. \A h \in Heroes : wounds[h] = 0
  OBVIOUS
<1>7. \A a \in Actors : ~(slots[a] \subseteq {"reaction"})
  BY DEF Fresh, SlotNames
<1> HIDE DEF slots, spent, wounds, exertion
<1>8. y \in Games
  <2> DEFINE Before ==
        [status : {"none"}, trigger : {"none"}, round : 1 .. MaxRound, side : {"hero", "enemy"},
         actor : Actors \cup {None}, slots : [Actors -> SUBSET SlotNames],
         spent : [Actors -> BOOLEAN], zone : [Actors -> Zones], guard : [Actors -> Nat],
         wounds : [Heroes -> 0 .. WoundSlots], dead : SUBSET Heroes,
         progress : 0 .. Threshold, overlays : SUBSET Bosses, window : Seq(Actors),
         checks : SUBSET {"action", "death"}, deathCheck : {None, "death"},
         actionCheck : {None, "action"}, candidate : Awaitable \cup {None},
         tested : Heroes \cup {None}, aided : BOOLEAN, spark : SUBSET Heroes,
         exertion : [Heroes -> 0 .. ExertionMax], supply : 0 .. SupplyMax,
         used : SUBSET Actors, outcome : Outcomes \cup {None}]
  <2>1. game \in Before
    BY <1>2, <1>4, <1>5 DEF NoGame, slots, wounds, exertion
  <2>2. t \in {"none", "round_2", "objective_progress_2"} /\ spent \in [Actors -> BOOLEAN]
    BY <1>4, <1>5
  <2>3. QED
    BY <2>1, <2>2, ZenonT(60) DEF Games
<1> HIDE DEF y
<1>9. Normal(y)
  BY <1>3 DEF Normal
<1>10. Guarded(y)
  BY <1>3, <1>5 DEF Guarded
<1>11. Checked(y) /\ Waiting(y)
  BY <1>3 DEF Checked, Waiting
<1>12. Wounded(y)
  <2>1. 0 # WoundSlots /\ None \notin Heroes
    BY BoundsAssumption, NamesApart
  <2>2. y.wounds = wounds /\ y.dead = {} /\ y.tested = None
    BY <1>3
  <2>3. QED
    BY <1>6, <2>1, <2>2 DEF Wounded
<1>13. Decided(y)
  <2>1. PICK e \in Enemies : TRUE
    BY ActorsAssumption
  <2>2. GuardMax[e] # 0
    BY <2>1, NamesApart, BoundsAssumption
  <2>3. y.guard = GuardMax /\ y.dead = {} /\ y.outcome = None /\ y.status = "active"
    BY <1>3
  <2>4. ~Down(y)
    BY <2>1, <2>2, <2>3 DEF Down
  <2>5. {} # Heroes /\ None # "heroes_prevailed" /\ None # "heroes_defeated"
    BY ActorsAssumption, NamesApart DEF Outcomes
  <2>6. QED
    BY <2>3, <2>4, <2>5 DEF Decided
<1>14. \A a \in Actors : ~Idle(y, a)
  BY <1>3, <1>7 DEF Idle
<1>15. Busy(y) /\ Lively(y)
  BY <1>3, <1>14, NamesApart DEF Busy, Lively
<1>16. y \in Settled
  BY <1>1, <1>8, <1>9, <1>10, <1>11, <1>12, <1>13, <1>15 DEF Settled, Fights, Sound
<1>17. QED
  BY <1>1, <1>16 DEF IInv, AcceptedApplies, UndoRestores

LEMMA ActivateKeeps ==
  ASSUME IInv, NEW a \in Actors, game.actor # a, Activate(a), a \in Enemies => ~Idle(game, a)
  PROVE  IInv'
<1>1. game \in Settled /\ ActiveIn(game)
  BY UnderWay DEF Activate, Active, ActiveIn
<1>2. Fares(game, ActivationEvents(game, a), Settled)
  BY <1>1, ActivationFares DEF Activate
<1>3. QED
  BY <1>1, <1>2, CommitKeeps DEF Activate

LEMMA HeroActivationKeeps ==
  ASSUME IInv, NEW h \in Heroes, ChooseHeroActivation(h)
  PROVE  IInv'
BY ActivateKeeps, NamesApart DEF ChooseHeroActivation

LEMMA EnemyActivationKeeps ==
  ASSUME IInv, NEW e \in Enemies, SelectEnemyFallback(e)
  PROVE  IInv'
<1>1. Candidates(game, e) # {} /\ e \in Actors
  BY NamesApart DEF SelectEnemyFallback, Fallback
<1>2. ~Idle(game, e)
  BY <1>1, CandidateNotIdle
<1>3. QED
  BY <1>1, <1>2, ActivateKeeps DEF SelectEnemyFallback

LEMMA ActionKeeps ==
  ASSUME IInv, game.actor # None, NEW c \in Candidates(game, game.actor), NEW spark \in BOOLEAN,
         NEW d, ExecuteCombatAction(c, spark, d)
  PROVE  IInv'
<1>1. game \in Settled /\ ActiveIn(game)
  BY UnderWay DEF ExecuteCombatAction, Active, ActiveIn
<1>2. game.actor \in Actors
  BY <1>1, SettledIs DEF Games
<1>3. Payable(game, c) /\ (spark => game.actor \in Heroes)
  BY DEF ExecuteCombatAction
<1>4. Fares(game, ActionEvents(game, c, spark, d), Settled)
  BY <1>1, <1>2, <1>3, ActionFares
<1>5. QED
  BY <1>1, <1>4, CommitKeeps DEF ExecuteCombatAction

LEMMA WithdrawKeeps ==
  ASSUME IInv, WithdrawFromCombat
  PROVE  IInv'
<1> DEFINE e == [kind |-> "combat_resolved", outcome |-> "heroes_withdrew"]
<1>1. game \in Settled /\ ActiveIn(game) /\ Commit(<<e>>)
  BY UnderWay DEF WithdrawFromCombat, Active, ActiveIn
<1>2. game \in Open /\ ~Down(game) /\ game.dead # Heroes
  BY <1>1, SettledOpen
<1>3. "heroes_withdrew" \in Outcomes
  BY DEF Outcomes
<1>4. Fits(game, e) /\ Step(game, e) \in Settled
  BY <1>2, <1>3, ResolvedFits
<1>5. Final(e)
  BY DEF Final, Skipped, NotStateChanging, InverseKinds
<1> HIDE DEF e
<1>6. Fares(game, <<e>>, Settled)
  BY <1>4, <1>5, FinalFares
<1>7. QED
  BY <1>1, <1>6, CommitKeeps

LEMMA OpenWindowKeeps ==
  ASSUME IInv, NEW h \in Heroes, OpenReactionWindow(h)
  PROVE  IInv'
<1> DEFINE e == [kind |-> "reaction_window_opened", eligible |-> Eligible(game, h)]
<1>1. game \in Settled /\ Commit(<<e>>)
  BY UnderWay DEF OpenReactionWindow, Active
<1>2. Eligible(game, h) \in Seq(Actors)
  BY EligibleIs, NamesApart
<1>3. Fares(game, <<e>>, Settled)
  BY <1>1, <1>2, WindowFares
<1>4. QED
  BY <1>1, <1>3, CommitKeeps

LEMMA PassReactionKeeps ==
  ASSUME IInv, PassReaction
  PROVE  IInv'
<1> DEFINE e == [kind |-> "reaction_window_opened", eligible |-> Tail(game.window)]
           f == [kind |-> "reaction_window_closed"]
<1>1. game \in Settled /\ game.window # <<>>
  BY UnderWay DEF PassReaction, Active
<1>2. game.window \in Seq(Actors)
  BY <1>1, SettledIs DEF Games
<1>3. Tail(game.window) \in Seq(Actors) /\ <<>> \in Seq(Actors)
  BY <1>1, <1>2
<1>4. Fares(game, <<e>>, Settled) /\ Fares(game, <<f>>, Settled)
  BY <1>1, <1>3, WindowFares
<1>5. Commit(<<f>>) \/ Commit(<<e>>)
  BY DEF PassReaction, Closed
<1>6. QED
  BY <1>1, <1>4, <1>5, CommitKeeps

LEMMA UseReactionKeeps ==
  ASSUME IInv, NEW c, UseReaction(c)
  PROVE  IInv'
<1>1. game \in Settled /\ ActiveIn(game) /\ game.window # <<>>
  BY UnderWay DEF UseReaction, Active, ActiveIn
<1>2. Head(game.window) \in Actors
  BY <1>1, SettledIs DEF Games
<1>3. c \in Reactions(game, Head(game.window)) /\ Payable(game, c)
  BY DEF UseReaction
<1> DEFINE es == CostEvents(game, c.actor, c.ability)
                  \o <<[kind |-> "action_slot_spent", actor |-> c.actor, slot |-> "reaction"]>>
                  \o EffectEvents(game, c, "Success") \o Closed
<1>4. Fares(game, es, Settled)
  BY <1>1, <1>2, <1>3, ReactionEnds
<1>5. Commit(es)
  BY DEF UseReaction
<1> HIDE DEF es
<1>6. QED
  BY <1>1, <1>4, <1>5, CommitKeeps

LEMMA AidKeeps ==
  ASSUME IInv, NEW h \in Heroes, NEW owner \in Heroes \cup {None}, AidDeathTest(h, owner)
  PROVE  IInv'
<1> DEFINE stock == IF owner = None THEN game.supply ELSE game.exertion[owner]
           e == Paid(owner, stock, stock - 1)
<1>1. game \in Settled /\ game.status = "awaiting_death_test" /\ stock > 0
  BY UnderWay DEF AidDeathTest
<1>2. /\ game.exertion \in [Heroes -> 0 .. ExertionMax] /\ game.supply \in 0 .. SupplyMax
      /\ ExertionMax \in Nat /\ SupplyMax \in Nat
  BY <1>1, SettledIs, BoundsAssumption DEF Games
<1>3. Commit(<<e, AidApplied>>)
  BY DEF AidDeathTest, Paid, AidApplied
<1>4. \E y \in Settled : Fits(game, e) /\ Step(game, e) = y /\ Kept(y, game)
  <2>1. CASE owner = None
    <3>1. game.supply - 1 \in 0 .. SupplyMax
      BY <1>1, <1>2, <2>1
    <3>2. e = Paid(None, game.supply, game.supply - 1)
      BY <2>1
    <3> HIDE DEF e, stock
    <3>3. QED
      BY <1>1, <3>1, <3>2, SupplyFits
  <2>2. CASE owner # None
    <3>1. owner \in Heroes /\ game.exertion[owner] - 1 \in 0 .. ExertionMax
      BY <1>1, <1>2, <2>2
    <3>2. e = Paid(owner, game.exertion[owner], game.exertion[owner] - 1)
      BY <2>2
    <3> HIDE DEF e, stock
    <3>3. QED
      BY <1>1, <3>1, <3>2, StockFits
  <2>3. QED
    BY <2>1, <2>2
<1> HIDE DEF e, stock
<1>5. Fares(game, <<e, AidApplied>>, Settled)
  BY <1>1, <1>4, AidFares
<1>6. QED
  BY <1>1, <1>3, <1>5, CommitKeeps

LEMMA ActionRollKeeps ==
  ASSUME IInv, NEW d, SubmitActionRoll(d)
  PROVE  IInv'
<1> DEFINE es == <<[kind |-> "check_resolved", check |-> "action"]>>
                  \o EffectEvents(game, game.candidate, d)
<1>1. game \in Settled /\ game.status = "awaiting_physical_action" /\ Commit(es)
  BY UnderWay DEF SubmitActionRoll
<1>2. Fares(game, es, Settled)
  BY <1>1, ActionRollFares
<1> HIDE DEF es
<1>3. QED
  BY <1>1, <1>2, CommitKeeps

LEMMA DeathRollKeeps ==
  ASSUME IInv, NEW d, SubmitDeathRoll(d)
  PROVE  IInv'
<1> DEFINE es == <<[kind |-> "check_resolved", check |-> "death"]>>
                  \o IF d \in Good
                     THEN <<[kind |-> "hero_stabilized", hero |-> game.tested]>>
                     ELSE <<[kind |-> "character_died", hero |-> game.tested]>>
                          \o Resolution(game, {}, {game.tested})
<1>1. game \in Settled /\ game.status = "awaiting_death_test" /\ Commit(es)
  BY UnderWay DEF SubmitDeathRoll
<1>2. Fares(game, es, Settled)
  BY <1>1, DeathRollFares
<1> HIDE DEF es
<1>3. QED
  BY <1>1, <1>2, CommitKeeps

-----------------------------------------------------------------------------
(* The theorems *)

LEMMA NextKeeps ==
  ASSUME IInv, [Next]_vars
  PROVE  IInv'
<1>1. ASSUME NEW t \in Triggers, StartCombat(t) PROVE IInv'
  BY <1>1, StartKeeps
<1>2. ASSUME NEW h \in Heroes, ChooseHeroActivation(h) \/ OpenReactionWindow(h) PROVE IInv'
  BY <1>2, HeroActivationKeeps, OpenWindowKeeps
<1>3. ASSUME NEW e \in Enemies, SelectEnemyFallback(e) PROVE IInv'
  BY <1>3, EnemyActivationKeeps
<1>4. ASSUME game.actor # None,
             NEW c \in Candidates(game, game.actor), NEW spark \in BOOLEAN, NEW d \in Degrees,
             ExecuteCombatAction(c, spark, d)
      PROVE  IInv'
  BY <1>4, ActionKeeps
<1>5. CASE WithdrawFromCombat
  BY <1>5, WithdrawKeeps
<1>6. CASE PassReaction
  BY <1>6, PassReactionKeeps
<1>7. ASSUME NEW c, UseReaction(c) PROVE IInv'
  BY <1>7, UseReactionKeeps
<1>8. ASSUME NEW h \in Heroes, NEW o \in Heroes \cup {None}, AidDeathTest(h, o) PROVE IInv'
  BY <1>8, AidKeeps
<1>9. ASSUME NEW d \in Degrees, SubmitActionRoll(d) \/ SubmitDeathRoll(d) PROVE IInv'
  BY <1>9, ActionRollKeeps, DeathRollKeeps
<1>10. CASE UNCHANGED vars
  BY <1>10 DEF vars, IInv, AcceptedApplies, UndoRestores
<1>11. QED
  BY <1>1, <1>2, <1>3, <1>4, <1>5, <1>6, <1>7, <1>8, <1>9, <1>10 DEF Next

\* The inductive invariant: between any two commands the fight is settled, and
\* what the last command recorded was applied and can be undone (decideCommand
\* followed by applyGameEvent).
THEOREM FightSettled == Spec => []IInv
<1>1. Init => IInv
  BY InitHolds
<1>2. IInv /\ [Next]_vars => IInv'
  BY NextKeeps
<1>3. QED
  BY <1>1, <1>2, PTL DEF Spec

\* What the invariant says before and during a fight.
LEMMA BeforeFight ==
  ASSUME game = NoGame
  PROVE  TypeOK /\ LastWoundIsTested /\ FinishedIsResolved /\ SomeoneMayAct
<1>1. /\ game.status = "none" /\ game.actor = None /\ game.guard = GuardMax /\ game.dead = {}
      /\ game.outcome = None /\ game.tested = None /\ game.wounds = [h \in Heroes |-> 0]
  BY DEF NoGame
<1>2. /\ GuardMax \in [Actors -> Nat \ {0}] /\ WoundSlots \in Nat \ {0} /\ Threshold \in Nat
      /\ ExertionMax \in Nat /\ SupplyMax \in Nat /\ MaxRound \in Nat \ {0}
      /\ Start \in [Actors -> Zones]
  BY BoundsAssumption, EncounterAssumption
<1>3. TypeOK
  <2>1. /\ game.side = "hero" /\ game.round = 1 /\ game.progress = 0
        /\ game.slots = [a \in Actors |-> Fresh] /\ game.spent = [a \in Actors |-> FALSE]
        /\ game.zone = Start /\ game.spark = Heroes
        /\ game.exertion = [h \in Heroes |-> ExertionMax] /\ game.supply = SupplyMax
        /\ game.checks = {}
    BY DEF NoGame
  <2>2. game.slots \in [Actors -> SUBSET SlotNames] /\ game.spent \in [Actors -> BOOLEAN]
    BY <2>1 DEF Fresh
  <2>3. /\ game.wounds \in [Heroes -> 0 .. WoundSlots]
        /\ game.exertion \in [Heroes -> 0 .. ExertionMax]
        /\ \A a \in Actors : game.guard[a] \in 0 .. GuardMax[a]
    BY <1>1, <1>2, <2>1
  <2>4. game.round \in 1 .. MaxRound /\ game.progress \in 0 .. Threshold /\ game.supply \in 0 .. SupplyMax
    BY <1>2, <2>1
  <2>5. QED
    BY <1>1, <1>2, <2>1, <2>2, <2>3, <2>4 DEF TypeOK
<1>4. LastWoundIsTested
  BY <1>1, <1>2, NamesApart DEF LastWoundIsTested
<1>5. FinishedIsResolved
  <2>1. PICK e \in Enemies : TRUE
    BY ActorsAssumption
  <2>2. game.guard[e] # 0
    BY <1>1, <1>2, <2>1, NamesApart
  <2>3. {} # Heroes /\ None # "heroes_prevailed" /\ None # "heroes_defeated"
    BY ActorsAssumption, NamesApart DEF Outcomes
  <2>4. QED
    BY <1>1, <2>1, <2>2, <2>3 DEF FinishedIsResolved
<1>6. SomeoneMayAct
  BY <1>1 DEF SomeoneMayAct, Active
<1>7. QED
  BY <1>3, <1>4, <1>5, <1>6

LEMMA PassLeft ==
  ASSUME NEW g, g.status = "active", NEW a \in Actors, Alive(g, a),
         g.slots[a] \subseteq SlotNames, ~Idle(g, a)
  PROVE  Candidates(g, a) # {}
<1>1. PICK s \in g.slots[a] : s # "reaction"
  BY DEF Idle
<1>2. Plain(a, s, "pass", Self(a)) \in Candidates(g, a)
  BY <1>1 DEF Candidates
<1>3. QED
  BY <1>2

LEMMA DuringFight ==
  ASSUME game \in Settled
  PROVE  TypeOK /\ LastWoundIsTested /\ FinishedIsResolved /\ (Quiet => SomeoneMayAct)
<1>1. game \in Games /\ Guarded(game) /\ ValidCombat(game) /\ Normal(game) /\ Sound(game)
  BY SettledIs
<1>2. TypeOK
  <2>1. \A a \in Actors : game.guard[a] \in 0 .. GuardMax[a]
    <3>1. game.guard \in [Actors -> Nat] /\ GuardMax \in [Actors -> Nat \ {0}]
      BY <1>1, BoundsAssumption DEF Games
    <3>2. QED
      BY <1>1, <3>1 DEF Guarded
  <2>2. QED
    BY <1>1, <2>1 DEF Games, TypeOK
<1>3. LastWoundIsTested
  BY <1>1 DEF Sound, Wounded, LastWoundIsTested
<1>4. FinishedIsResolved
  BY <1>1 DEF Sound, Decided, Down, FinishedIsResolved
<1>5. ASSUME Quiet, Active PROVE SomeoneMayAct
  <2>1. game.tested = None /\ Lively(game) /\ game.dead # Heroes
    BY <1>1, <1>5, SettledOpen, OpenIs DEF Active, ActiveIn, Sound
  <2>2. ASSUME NEW a \in Actors, Alive(game, a), ~Idle(game, a) PROVE Candidates(game, a) # {}
    <3>1. game.slots[a] \subseteq SlotNames
      BY <1>1 DEF Games
    <3>2. QED
      BY <1>5, <2>2, <3>1, PassLeft DEF Active
  <2>3. CASE game.actor # None
    <3>1. game.actor \in Actors /\ Alive(game, game.actor) /\ ~Idle(game, game.actor)
      BY <1>1, <2>1, <2>3 DEF Games, Sound, Busy, Lively
    <3>2. QED
      BY <2>2, <2>3, <3>1 DEF SomeoneMayAct
  <2>4. CASE game.actor = None /\ RoundOver(game)
    <3>1. PICK h \in Heroes : h \notin game.dead
      BY <1>1, <2>1 DEF Games
    <3>2. MayActivate(game, h) /\ h \in Actors
      BY <2>4, <3>1, NamesApart DEF MayActivate, Alive
    <3>3. QED
      BY <2>4, <3>1, <3>2 DEF SomeoneMayAct, MayAct
  <2>5. CASE game.actor = None /\ ~RoundOver(game)
    <3>1. Unspent(game, Turn(game)) # {}
      <4>1. game.side \in {"hero", "enemy"}
        BY <1>1 DEF Games
      <4>2. QED
        BY <2>5, <4>1 DEF RoundOver, Turn, Opposite
    <3>2. PICK a \in Unspent(game, Turn(game)) : TRUE
      BY <3>1
    <3>3. a \in Actors /\ SideOf(a) = Turn(game) /\ Alive(game, a) /\ ~game.spent[a]
      BY <3>2 DEF Unspent
    <3>4. ~Idle(game, a)
      BY <2>1, <3>3 DEF Lively
    <3>5. MayActivate(game, a) /\ Candidates(game, a) # {}
      BY <2>2, <2>5, <3>3, <3>4 DEF MayActivate
    <3>6. QED
      BY <2>5, <3>3, <3>5 DEF SomeoneMayAct, MayAct
  <2>6. QED
    BY <2>3, <2>4, <2>5
<1>6. QED
  BY <1>2, <1>3, <1>4, <1>5 DEF SomeoneMayAct

LEMMA InvariantSays ==
  ASSUME IInv
  PROVE  /\ TypeOK /\ AcceptedApplies /\ UndoRestores /\ LastWoundIsTested /\ FinishedIsResolved
         /\ Quiet => SomeoneMayAct
BY BeforeFight, DuringFight DEF IInv

\* Every fight has its type (CombatStateSchema), whatever the encounter and the
\* abilities are.
THEOREM Typed == Spec => []TypeOK
BY FightSettled, InvariantSays, PTL

\* Whatever a decision of combat accepts can be applied, event by event, with
\* the two exceptions that AcceptedApplies names (decideCommand,
\* applyGameEvent).
THEOREM AcceptedApplied == Spec => []AcceptedApplies
BY FightSettled, InvariantSays, PTL

\* What the planner takes for reversible is: the inverse events, last first,
\* give back the fight before the decision (planTransactionCompensation).
THEOREM UndoneRestores == Spec => []UndoRestores
BY FightSettled, InvariantSays, PTL

\* A hero with its last wound is being tested or is dead, and nobody else is,
\* for every number of wound slots (eventsForResolvedCombatAction,
\* eventsForDeathTestResult).
THEOREM LastWoundTested == Spec => []LastWoundIsTested
BY FightSettled, InvariantSays, PTL

\* A fight that is over is resolved, with the outcome that happened
\* (combatResolutionIfFinished), also when a reaction or a die ended it.
THEOREM FinishedResolved == Spec => []FinishedIsResolved
BY FightSettled, InvariantSays, PTL

\* In an active fight somebody may act (activationEvents,
\* enumerateCombatActions), if no reinforcement waits for the objective (the run
\* early shows that fight stuck) and no reaction does harm.
THEOREM FightGoesOn ==
  ASSUME Quiet
  PROVE  Spec => []SomeoneMayAct
BY FightSettled, InvariantSays, PTL

=============================================================================
