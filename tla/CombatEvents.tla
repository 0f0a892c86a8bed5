---------------------------- MODULE CombatEvents ----------------------------
(***************************************************************************)
(* What the rules engine records about a fight and what a recorded event   *)
(* does to the fight: applyGameEvent (packages/engine/src/apply-event.ts)  *)
(* for the events of combat, the validation every applied event must pass  *)
(* (validateCombatState), and the inverse events a compensation applies    *)
(* (compensation.ts).                                                      *)
(*                                                                         *)
(* The engine never changes a state in place: a decision is a sequence of  *)
(* events, applied one after the other to the next state.  An event that   *)
(* does not fit the state refuses the whole sequence.                      *)
(***************************************************************************)
EXTENDS Integers, Sequences, FiniteSets, SequencesExt

CONSTANTS Heroes, Enemies,      \* the actors of the fight
          Bosses,               \* the enemies with an overlay
          Reinforcements,       \* the enemies that arrive later
          Zones, Links,         \* the battlefield: zones, and pairs of zones
          Capacity,             \* actors a zone can hold
          Threshold,            \* progress that completes the objective
          GuardMax,             \* the Guard an actor starts with
          ExertionMax, SupplyMax,
          WoundSlots,           \* wounds a hero can take; the last is tested
          None                  \* null

Actors == Heroes \cup Enemies

\* An encounter has two sides.
ASSUME ActorsAssumption ==
  /\ IsFiniteSet(Actors) /\ Heroes # {} /\ Enemies # {}
  /\ Heroes \cap Enemies = {}
  /\ Bosses \subseteq Enemies
  /\ Reinforcements \subseteq Enemies
  /\ None \notin Actors \cup Zones

ASSUME BoundsAssumption ==
  /\ Threshold \in Nat \ {0}
  /\ Capacity \in Nat \ {0}
  /\ WoundSlots \in Nat \ {0}
  /\ ExertionMax \in Nat /\ SupplyMax \in Nat
  /\ GuardMax \in [Actors -> Nat \ {0}]

SideOf(a) == IF a \in Heroes THEN "hero" ELSE "enemy"
Opposite(s) == IF s = "hero" THEN "enemy" ELSE "hero"
SlotNames == {"action", "maneuver", "reaction"}
Fresh == SlotNames

-----------------------------------------------------------------------------
(* The state of a fight *)

\* A reinforcement is in the fight once its trigger has come about; without
\* a trigger every enemy is there from the start.
Arrived(g, e) ==
  \/ e \notin Reinforcements \/ g.trigger = "none"
  \/ g.trigger = "round_2" /\ g.round >= 2
  \/ g.trigger = "objective_progress_2" /\ g.progress >= 2

Alive(g, a) ==
  IF a \in Heroes THEN a \notin g.dead
                  ELSE Arrived(g, a) /\ g.guard[a] > 0

Occupancy(g, z) == Cardinality({a \in Actors : g.zone[a] = z})

\* The validation every event must leave true.
ValidCombat(g) ==
  /\ g.actor # None => SideOf(g.actor) = g.side /\ ~g.spent[g.actor]
  /\ \A z \in Zones : Occupancy(g, z) <= Capacity
  /\ \A e \in Enemies : g.guard[e] <= GuardMax[e]
  /\ g.progress <= Threshold
  /\ g.trigger # "none" /\ g.round = 1 /\ g.progress < 2
       => \A e \in Reinforcements : g.spent[e]
  /\ (g.status = "awaiting_death_test") = (g.deathCheck # None)
  /\ (g.status = "awaiting_physical_action") = (g.actionCheck # None)
  /\ g.deathCheck = None \/ g.actionCheck = None

-----------------------------------------------------------------------------
(* The guard of each event *)

\* Checks, resources and Spark
RecordApplies(g, e) ==
  CASE e.kind = "resource_changed" ->
         e.previous = IF e.owner = None THEN g.supply ELSE g.exertion[e.owner]
    [] e.kind = "scene_ability_used" -> e.actor \notin g.used
    [] e.kind = "spark_spent" -> e.actor \in g.spark
    [] e.kind = "spark_restored" -> e.actor \notin g.spark
    [] e.kind = "physical_roll_requested" -> e.check \notin g.checks
    [] e.kind = "check_resolved" -> e.check = None \/ e.check \in g.checks
    [] e.kind = "physical_roll_cancelled" -> e.check \in g.checks
    [] OTHER -> TRUE

\* Harm, the objective and death
HarmApplies(g, e) ==
  CASE e.kind = "impact_applied" -> g.guard[e.target] = e.before
    [] e.kind = "wound_marked" -> g.wounds[e.hero] < WoundSlots
    [] e.kind = "objective_advanced" ->
         g.progress = e.previous /\ e.current \in e.previous .. Threshold
    [] e.kind = "boss_overlay_activated" ->
         g.guard[e.boss] = e.before /\ e.after <= GuardMax[e.boss]
    [] e.kind \in {"combat_action_pending", "death_test_pending", "death_test_aid_applied"} ->
         e.check \in g.checks
    [] OTHER -> RecordApplies(g, e)

\* Turns, slots and positions, and the rest
Applies(g, e) ==
  CASE e.kind = "activation_started" ->
         g.actor = None /\ ~g.spent[e.actor]
    [] e.kind = "round_advanced" ->
         g.round = e.previous /\ \A a \in Actors : Alive(g, a) => g.spent[a]
    [] e.kind = "action_slot_spent" ->
         e.slot \in g.slots[e.actor] /\ (e.slot # "reaction" => g.actor = e.actor)
    [] e.kind = "actor_moved" ->
         g.zone[e.actor] = e.from /\ Occupancy(g, e.to) < Capacity
    [] e.kind = "reaction_restored" -> "reaction" \notin g.slots[e.actor]
    [] OTHER -> HarmApplies(g, e)

-----------------------------------------------------------------------------
(* The effect of each event *)

\* Spending the second of action and maneuver ends the activation and hands
\* the turn to the other side.
SpendSlot(g, a, s) ==
  LET left == g.slots[a] \ {s}
      done == left \subseteq {"reaction"}
      ends == s # "reaction" /\ done /\ ~g.spent[a]
  IN [g EXCEPT !.slots[a] = left,
               !.spent[a] = done,
               !.actor = IF ends THEN None ELSE @,
               !.side = IF ends THEN Opposite(SideOf(a)) ELSE @]

\* Mutant: the turn stays with the other side.
RestoreSlotOnly(g, a, s) ==
  [g EXCEPT !.slots[a] = @ \cup {s}, !.spent[a] = FALSE, !.actor = a]

RestoreSlot(g, a, s) ==
  [g EXCEPT !.slots[a] = @ \cup {s}, !.spent[a] = FALSE,
            !.actor = a, !.side = SideOf(a)]

\* A new round gives every participant its slots back.
AdvanceRound(g) ==
  [g EXCEPT !.round = @ + 1, !.side = "hero", !.actor = None, !.window = <<>>,
            !.slots = [a \in Actors |-> Fresh],
            !.spent = [a \in Actors |-> /\ a \in Reinforcements
                                        /\ g.trigger = "objective_progress_2"
                                        /\ g.progress < 2]]

\* Progress of two or more makes the waiting reinforcements ready.
AdvanceObjective(g, n) ==
  [g EXCEPT !.progress = n,
            !.spent = [a \in Actors |-> @[a] /\ ~(/\ n >= 2
                                                  /\ a \in Reinforcements
                                                  /\ g.trigger = "objective_progress_2")]]

\* A check that is answered or cancelled releases the combat that waits for it.
Release(g, c) ==
  LET waits == c \in {g.deathCheck, g.actionCheck}
  IN [g EXCEPT !.checks = @ \ {c},
               !.deathCheck = IF @ = c THEN None ELSE @,
               !.actionCheck = IF @ = c THEN None ELSE @,
               !.status = IF waits THEN "active" ELSE @]

RequestRoll(g, e) ==
  IF e.reason = "permanent_death"
  THEN [g EXCEPT !.checks = @ \cup {e.check}, !.status = "awaiting_death_test",
                 !.deathCheck = e.check]
  ELSE [g EXCEPT !.checks = @ \cup {e.check}]

RecordEffect(g, e) ==
  CASE e.kind = "resource_changed" ->
         IF e.owner = None THEN [g EXCEPT !.supply = e.current]
                           ELSE [g EXCEPT !.exertion[e.owner] = e.current]
    [] e.kind = "scene_ability_used" -> [g EXCEPT !.used = @ \cup {e.actor}]
    [] e.kind = "spark_spent" -> [g EXCEPT !.spark = @ \ {e.actor}]
    [] e.kind = "spark_restored" -> [g EXCEPT !.spark = @ \cup {e.actor}]
    [] e.kind = "physical_roll_requested" -> RequestRoll(g, e)
    [] e.kind = "check_resolved" -> IF e.check = None THEN g ELSE Release(g, e.check)
    [] e.kind = "physical_roll_cancelled" -> Release(g, e.check)
    [] OTHER -> g

HarmEffect(g, e) ==
  CASE e.kind = "impact_applied" -> [g EXCEPT !.guard[e.target] = e.after]
    [] e.kind = "wound_marked" -> [g EXCEPT !.wounds[e.hero] = @ + 1]
    [] e.kind = "objective_advanced" -> AdvanceObjective(g, e.current)
    [] e.kind = "boss_overlay_activated" ->
         [g EXCEPT !.guard[e.boss] = e.after, !.overlays = @ \cup {e.boss}]
    [] e.kind = "combat_action_pending" ->
         [g EXCEPT !.status = "awaiting_physical_action", !.actionCheck = e.check,
                   !.candidate = e.candidate]
    [] e.kind = "death_test_pending" -> [g EXCEPT !.tested = e.hero, !.aided = FALSE]
    [] e.kind = "death_test_aid_applied" -> [g EXCEPT !.aided = TRUE]
    [] e.kind = "hero_stabilized" -> [g EXCEPT !.wounds[e.hero] = WoundSlots - 1]
    [] e.kind = "character_died" -> [g EXCEPT !.dead = @ \cup {e.hero}]
    [] e.kind = "combat_resolved" -> [g EXCEPT !.status = "resolved", !.outcome = e.outcome]
    [] OTHER -> RecordEffect(g, e)

Effect(g, e) ==
  CASE e.kind = "activation_started" ->
         [g EXCEPT !.actor = e.actor, !.side = SideOf(e.actor)]
    [] e.kind = "round_advanced" -> AdvanceRound(g)
    [] e.kind = "action_slot_spent" -> SpendSlot(g, e.actor, e.slot)
    [] e.kind = "action_slot_restored" -> RestoreSlot(g, e.actor, e.slot)
    [] e.kind = "actor_moved" -> [g EXCEPT !.zone[e.actor] = e.to]
    [] e.kind = "reaction_window_opened" -> [g EXCEPT !.window = e.eligible]
    [] e.kind = "reaction_window_closed" -> [g EXCEPT !.window = <<>>]
    [] e.kind = "reaction_restored" -> [g EXCEPT !.slots[e.actor] = @ \cup {"reaction"}]
    [] OTHER -> HarmEffect(g, e)

\* An event applies when it fits the state and leaves a valid state; the
\* continuation of a check that is gone is forgotten with it.
Forget(g) ==
  [g EXCEPT !.candidate = IF g.actionCheck = None THEN None ELSE @,
            !.tested = IF g.deathCheck = None THEN None ELSE @,
            !.aided = @ /\ g.deathCheck # None]

Kinds ==
  {"activation_started", "round_advanced", "action_slot_spent", "action_slot_restored",
   "actor_moved", "reaction_window_opened", "reaction_window_closed", "reaction_restored",
   "impact_applied", "wound_marked", "objective_advanced", "boss_overlay_activated",
   "combat_action_pending", "death_test_pending", "death_test_aid_applied",
   "hero_stabilized", "character_died", "combat_resolved", "resource_changed",
   "scene_ability_used", "spark_spent", "spark_restored", "physical_roll_requested",
   "check_resolved", "physical_roll_cancelled"}

ASSUME KindsAssumption == None \notin Kinds \cup {"action", "death"}

Apply(r, e) ==
  IF r.refused = None /\ Applies(r.game, e) /\ ValidCombat(Effect(r.game, e))
  THEN [game |-> Forget(Effect(r.game, e)), refused |-> None]
  ELSE [r EXCEPT !.refused = IF @ = None THEN e.kind ELSE @]

\* The events one after the other; refused names the one that did not fit.
ApplyAll(g, es) ==
  LET after[n \in 0 .. Len(es)] ==
        IF n = 0 THEN [game |-> g, refused |-> None] ELSE Apply(after[n - 1], es[n])
  IN after[Len(es)]

-----------------------------------------------------------------------------
(* Compensation *)

\* Events that leave no mark, so that a compensation passes over them.
NotStateChanging == {"combat_action_pending", "death_test_pending",
                     "enemy_action_selected"}

InverseKinds == {"resource_changed", "actor_moved", "physical_roll_requested",
                 "spark_spent", "action_slot_spent"}

\* A simulated check changes nothing; a submitted physical one is final.
Skipped(e) ==
  e.kind \in NotStateChanging \/ (e.kind = "check_resolved" /\ e.check = None)

InverseOf(e) ==
  CASE e.kind = "resource_changed" ->
         [e EXCEPT !.previous = e.current, !.current = e.previous]
    [] e.kind = "actor_moved" -> [e EXCEPT !.from = e.to, !.to = e.from]
    [] e.kind = "physical_roll_requested" ->
         [kind |-> "physical_roll_cancelled", check |-> e.check]
    [] e.kind = "spark_spent" -> [e EXCEPT !.kind = "spark_restored"]
    [] e.kind = "action_slot_spent" -> [e EXCEPT !.kind = "action_slot_restored"]

\* The events that a compensation has to invert.
Marks(es) ==
  LET kept[n \in 0 .. Len(es)] ==
        IF n = 0 THEN <<>>
        ELSE IF Skipped(es[n]) THEN kept[n - 1] ELSE Append(kept[n - 1], es[n])
  IN kept[Len(es)]

\* A transaction can be compensated when it changed something and everything
\* it changed has an inverse.
Compensable(es) ==
  /\ Marks(es) # <<>>
  /\ \A i \in DOMAIN Marks(es) : Marks(es)[i].kind \in InverseKinds

\* The inverses, last event first.
Compensation(es) ==
  LET m == Reverse(Marks(es)) IN [i \in DOMAIN m |-> InverseOf(m[i])]

=============================================================================
