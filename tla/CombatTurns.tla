---------------------------- MODULE CombatTurns -----------------------------
(***************************************************************************)
(* The decisions of combat (packages/engine/src/combat-decisions.ts): who  *)
(* may act, what an actor may do, what an action records, and the physical *)
(* rolls and reactions an action may wait for.                             *)
(*                                                                         *)
(* Every action of this module is one accepted command: it computes the    *)
(* events of the decision and applies them with ApplyAll.  The degree of a *)
(* roll is any of the three that combat tells apart (a Crisis does what a  *)
(* Setback does).  Enemies are played as the host plays them: they execute *)
(* the candidate that the fallback selects.                                *)
(***************************************************************************)
EXTENDS CombatEvents

CONSTANTS Abilities,     \* [Actors -> SUBSET Ability records]
          Start,         \* [Actors -> Zones], the authored positions
          Site,          \* the zone of the objective
          Armor,         \* [Enemies -> Nat]
          OverlayGuard,  \* the Guard an overlay restores
          Triggers,      \* the reinforcement triggers of the encounters
          MaxRound       \* bound of the model: no round after this one

VARIABLES game,          \* the mechanical state
          verdict        \* how the last accepted decision fared (history)

vars == <<game, verdict>>

Degrees == {"Setback", "Success", "Triumph"}
Good == {"Success", "Triumph"}
Outcomes == {"heroes_prevailed", "heroes_defeated", "heroes_withdrew"}

\* What the schema of an ability allows.  Harm and a restored reaction need an
\* actor as the target, and progress the objective: a decision refuses others.
AbilityRecords ==
  [slot : SlotNames, mode : {"actor", "move", "objective"}, range : 0 .. 3, check : BOOLEAN,
   impact : Nat, moves : {"none", "self", "ally", "enemy"}, track : Nat, restores : BOOLEAN,
   cost : Nat, scene : BOOLEAN]

ASSUME AbilitiesAssumption ==
  \A a \in Actors : \A b \in Abilities[a] :
    /\ b \in AbilityRecords /\ b # None
    /\ b.impact > 0 \/ b.restores => b.mode = "actor"
    /\ b.track > 0 => b.mode = "objective"

\* An overlay gives Guard back, within what its boss can have.
ASSUME EncounterAssumption ==
  /\ Start \in [Actors -> Zones] /\ Armor \in [Enemies -> Nat]
  /\ OverlayGuard \in Nat \ {0} /\ \A b \in Bosses : OverlayGuard <= GuardMax[b]
  /\ Triggers \subseteq {"none", "round_2", "objective_progress_2"}
  /\ MaxRound \in Nat \ {0} /\ None \notin Outcomes

-----------------------------------------------------------------------------
(* Positions *)

\* self 0, same zone 1, adjacent 2, distant 3
Distance(y, z) == IF y = z THEN 0 ELSE IF {y, z} \in Links THEN 1 ELSE 2
Reach(g, a, t) == IF a = t THEN 0 ELSE 1 + Distance(g.zone[a], g.zone[t])

-----------------------------------------------------------------------------
(* Whose turn it is *)

Unspent(g, s) == {a \in Actors : SideOf(a) = s /\ Alive(g, a) /\ ~g.spent[a]}

RoundOver(g) == Unspent(g, "hero") \cup Unspent(g, "enemy") = {}

\* Mutant: an exhausted side does not yield.
TurnStrict(g) == g.side

\* The side to act: an exhausted side yields to the other one.
Turn(g) == IF Unspent(g, g.side) # {} THEN g.side ELSE Opposite(g.side)

MayActivate(g, a) ==
  /\ Alive(g, a)
  /\ \/ g.actor = a
     \/ g.actor = None /\ RoundOver(g) /\ a \in Heroes
     \/ g.actor = None /\ ~RoundOver(g) /\ ~g.spent[a] /\ SideOf(a) = Turn(g)

\* Mutant: a new round is not announced.
ActivationEventsOnly(g, a) ==
  IF g.actor = a THEN <<>> ELSE <<[kind |-> "activation_started", actor |-> a]>>

ActivationEvents(g, a) ==
  LET begins == <<[kind |-> "activation_started", actor |-> a]>>
  IN IF g.actor = a THEN <<>>
     ELSE IF RoundOver(g)
          THEN <<[kind |-> "round_advanced", previous |-> g.round]>> \o begins
          ELSE begins

-----------------------------------------------------------------------------
(* What an actor may do *)

Self(a) == [kind |-> "self", actor |-> a]
Objective == [kind |-> "objective"]

Movable(g, a, t, who) ==
  /\ Alive(g, t)
  /\ CASE who = "self" -> t = a
       [] who = "ally" -> SideOf(t) = SideOf(a)
       [] OTHER -> SideOf(t) # SideOf(a)

\* The range of an ability that moves somebody is not looked at.
AbilityTargets(g, a, b) ==
  CASE b.mode = "objective" ->
         IF g.progress < Threshold /\ 1 + Distance(g.zone[a], Site) <= b.range
         THEN {Objective} ELSE {}
    [] b.mode = "move" ->
         {[kind |-> "actor_to_zone", actor |-> m[1], zone |-> m[2]] :
            m \in {n \in Actors \X Zones :
                     /\ Movable(g, a, n[1], b.moves)
                     /\ {g.zone[n[1]], n[2]} \in Links /\ g.zone[n[1]] # n[2]
                     /\ Occupancy(g, n[2]) < Capacity}}
    [] OTHER ->
         {[kind |-> "actor", actor |-> t] :
            t \in {u \in Actors : /\ Alive(g, u)
                                  /\ (SideOf(u) # SideOf(a)) = (b.impact > 0)
                                  /\ Reach(g, a, u) <= b.range}}

AbilityUses(g, a, slots) ==
  UNION {{[actor |-> a, slot |-> b.slot, kind |-> "ability", ability |-> b, target |-> t] :
            t \in AbilityTargets(g, a, b)} :
         b \in {c \in Abilities[a] : /\ c.slot \in slots \cap g.slots[a]
                                     /\ ~(c.scene /\ a \in g.used)}}

Plain(a, s, k, t) == [actor |-> a, slot |-> s, kind |-> k, ability |-> None, target |-> t]

Moves(g, a) ==
  {z \in Zones : {g.zone[a], z} \in Links /\ z # g.zone[a] /\ Occupancy(g, z) < Capacity}

Candidates(g, a) ==
  IF g.status # "active" \/ ~Alive(g, a) THEN {}
  ELSE {Plain(a, s, "pass", Self(a)) : s \in g.slots[a] \ {"reaction"}}
       \cup {Plain(a, "maneuver", "move", [kind |-> "zone", zone |-> z]) :
               z \in IF "maneuver" \in g.slots[a] THEN Moves(g, a) ELSE {}}
       \cup AbilityUses(g, a, {"action", "maneuver"})
       \cup IF "action" \in g.slots[a] /\ g.zone[a] = Site /\ g.progress < Threshold
            THEN {Plain(a, "action", "advance_objective", Objective)} ELSE {}

Reactions(g, a) ==
  IF g.status # "active" \/ ~Alive(g, a) THEN {} ELSE AbilityUses(g, a, {"reaction"})

\* The fallback prefers an attack to the objective, that to a power, that to
\* a move and a move to a pass.
Score(c) ==
  CASE c.kind = "pass" -> -100
    [] c.kind = "move" -> 25
    [] c.kind = "advance_objective" -> 80
    [] c.kind = "ability" -> IF c.ability.impact > 0 THEN 130 ELSE 70

Fallback(g, e) ==
  {c \in Candidates(g, e) : \A d \in Candidates(g, e) : Score(d) <= Score(c)}

-----------------------------------------------------------------------------
(* What an action records *)

\* Mutant: the enemy that just fell still counts.
ResolutionBefore(g, felled, died) ==
  IF \A e \in Enemies : g.guard[e] = 0
  THEN <<[kind |-> "combat_resolved", outcome |-> "heroes_prevailed"]>>
  ELSE IF Heroes \subseteq g.dead \cup died
       THEN <<[kind |-> "combat_resolved", outcome |-> "heroes_defeated"]>> ELSE <<>>

\* The fight is over when no enemy has Guard left (one that has not arrived
\* yet counts) or no hero lives.
Resolution(g, felled, died) ==
  LET over(o) == <<[kind |-> "combat_resolved", outcome |-> o]>>
  IN IF \A e \in Enemies : e \in felled \/ g.guard[e] = 0
     THEN over("heroes_prevailed")
     ELSE IF Heroes \subseteq g.dead \cup died THEN over("heroes_defeated") ELSE <<>>

Overlay(g, e) ==
  IF e \in Bosses \ g.overlays
  THEN <<[kind |-> "boss_overlay_activated", boss |-> e, before |-> 0,
          after |-> OverlayGuard]>>
  ELSE <<>>

\* Mutant: the last wound is not tested.
WoundEventsUntested(g, h, hit) ==
  IF g.guard[h] > 0 /\ hit <= g.guard[h] THEN <<>>
  ELSE <<[kind |-> "wound_marked", hero |-> h]>>

\* A hit that the Guard does not absorb costs a hero a wound; the last wound
\* asks for a physical test of death.
WoundEvents(g, h, hit) ==
  IF g.guard[h] > 0 /\ hit <= g.guard[h] THEN <<>>
  ELSE <<[kind |-> "wound_marked", hero |-> h]>>
       \o IF g.wounds[h] # WoundSlots - 1 THEN <<>>
          ELSE <<[kind |-> "physical_roll_requested", check |-> "death",
                  reason |-> "permanent_death"],
                 [kind |-> "death_test_pending", check |-> "death", hero |-> h]>>

ImpactEvents(g, t, impact, degree) ==
  LET armor == IF t \in Enemies THEN Armor[t] ELSE 0
      bonus == IF degree = "Triumph" THEN 2 ELSE 0
      dealt == IF impact + bonus > armor THEN impact + bonus - armor ELSE 1
      after == IF dealt < g.guard[t] THEN g.guard[t] - dealt ELSE 0
      impacted == [kind |-> "impact_applied", target |-> t,
                   before |-> g.guard[t], after |-> after]
  IN <<impacted>> \o
     IF t \in Heroes THEN WoundEvents(g, t, dealt)
     ELSE IF after > 0 THEN <<>>
     ELSE Overlay(g, t) \o Resolution(g, IF Overlay(g, t) = <<>> THEN {t} ELSE {}, {})

ObjectiveEvents(g, n) ==
  <<[kind |-> "objective_advanced", previous |-> g.progress,
     current |-> IF g.progress + n < Threshold THEN g.progress + n ELSE Threshold]>>

\* The effects of a candidate whose check, if any, came out with this degree.
EffectEvents(g, c, degree) ==
  CASE degree \notin Good -> <<>>
    [] degree \in Good /\ c.kind = "advance_objective" -> ObjectiveEvents(g, 1)
    [] degree \in Good /\ c.kind # "advance_objective" ->
         (IF c.ability.impact > 0
          THEN ImpactEvents(g, c.target.actor, c.ability.impact, degree) ELSE <<>>)
         \o (IF c.ability.mode = "move"
             THEN <<[kind |-> "actor_moved", actor |-> c.target.actor,
                     from |-> g.zone[c.target.actor], to |-> c.target.zone]>> ELSE <<>>)
         \o (IF c.ability.track > 0 THEN ObjectiveEvents(g, c.ability.track) ELSE <<>>)
         \o (IF c.ability.restores
             THEN <<[kind |-> "reaction_restored", actor |-> c.target.actor]>> ELSE <<>>)

CostEvents(g, a, b) ==
  IF b.cost = 0 THEN <<>>
  ELSE <<[kind |-> "resource_changed", owner |-> a, previous |-> g.exertion[a],
          current |-> g.exertion[a] - b.cost]>>

SceneEvents(a, b) ==
  IF b.scene THEN <<[kind |-> "scene_ability_used", actor |-> a]>> ELSE <<>>

\* Mutant: costs are not compared with the stock.
PayableOnTrust(g, c) == TRUE
\* Only a hero can pay, and only what it has.
Cost(c) == IF c.ability = None THEN 0 ELSE c.ability.cost
Payable(g, c) == Cost(c) > 0 => c.actor \in Heroes /\ Cost(c) <= g.exertion[c.actor]

\* A strike that may fell a boss whose overlay waits is rolled at the table.
BossTransition(g, c) ==
  /\ c.ability.impact > 0
  /\ c.target.actor \in Bosses \ g.overlays
  /\ g.guard[c.target.actor] <= c.ability.impact + 2

Simulated == <<[kind |-> "check_resolved", check |-> None]>>

SpentEvents(g, c) ==
  (IF c.ability = None THEN <<>>
   ELSE CostEvents(g, c.actor, c.ability) \o SceneEvents(c.actor, c.ability))
  \o <<[kind |-> "action_slot_spent", actor |-> c.actor, slot |-> c.slot]>>

PendingEvents(c, spark) ==
  (IF spark THEN <<[kind |-> "spark_spent", actor |-> c.actor]>> ELSE <<>>)
  \o <<[kind |-> "physical_roll_requested", check |-> "action", reason |-> "selected"],
       [kind |-> "combat_action_pending", check |-> "action", candidate |-> c]>>

\* A use whose check is not simulated waits for the die on the table; spark
\* says that the command invokes Spark, degree is what a simulated die gives.
UseEvents(g, c, spark, degree) ==
  IF ~c.ability.check THEN EffectEvents(g, c, "Success")
  ELSE IF spark \/ BossTransition(g, c) THEN PendingEvents(c, spark)
  ELSE Simulated \o EffectEvents(g, c, degree)

\* The events of an action.
ActionEvents(g, c, spark, degree) ==
  SpentEvents(g, c) \o
  CASE c.kind = "pass" -> <<>>
    [] c.kind = "move" -> <<[kind |-> "actor_moved", actor |-> c.actor,
                             from |-> g.zone[c.actor], to |-> c.target.zone]>>
    [] c.kind = "advance_objective" -> EffectEvents(g, c, "Success")
    [] c.kind = "ability" -> UseEvents(g, c, spark, degree)

-----------------------------------------------------------------------------
(* Committing a decision *)

\* A transaction that can be undone must give back the state before it.
Undone(g, es) == ApplyAll(ApplyAll(g, es).game, Compensation(es))

Commit(es) ==
  LET r == ApplyAll(game, es)
  IN IF r.refused # None
     THEN verdict' = r.refused /\ UNCHANGED game
     ELSE /\ game' = r.game
          /\ verdict' = IF Compensable(es) /\ Undone(game, es) # [game |-> game, refused |-> None]
                        THEN "irreversible" ELSE "applied"

NoGame ==
  [status |-> "none", trigger |-> "none", round |-> 1, side |-> "hero", actor |-> None,
   slots |-> [a \in Actors |-> Fresh], spent |-> [a \in Actors |-> FALSE],
   zone |-> Start, guard |-> GuardMax, wounds |-> [h \in Heroes |-> 0], dead |-> {},
   progress |-> 0, overlays |-> {}, window |-> <<>>, checks |-> {},
   deathCheck |-> None, actionCheck |-> None, candidate |-> None, tested |-> None,
   aided |-> FALSE, spark |-> Heroes, exertion |-> [h \in Heroes |-> ExertionMax],
   supply |-> SupplyMax, used |-> {}, outcome |-> None]

Init == game = NoGame /\ verdict = "applied"

StartCombat(trigger) ==
  LET g == [game EXCEPT !.status = "active", !.trigger = trigger,
                        !.spent = [a \in Actors |-> a \in Reinforcements /\ trigger # "none"]]
  IN /\ game.status = "none"
     /\ ValidCombat(g)
     /\ game' = g /\ verdict' = "applied"

Active == game.status = "active"

Activate(a) ==
  /\ Active /\ MayActivate(game, a)
  /\ RoundOver(game) /\ game.actor = None => game.round < MaxRound
  /\ Commit(ActivationEvents(game, a))

ChooseHeroActivation(h) == game.actor # h /\ Activate(h)

\* A fallback is selected only when the enemy can do something; the selection
\* itself changes nothing.
SelectEnemyFallback(e) ==
  game.actor # e /\ Fallback(game, e) # {} /\ Activate(e)

ExecuteCombatAction(c, spark, degree) ==
  /\ Active /\ game.actor = c.actor
  /\ c \in IF c.actor \in Heroes THEN Candidates(game, c.actor) ELSE Fallback(game, c.actor)
  /\ Payable(game, c)
  /\ spark => c.kind = "ability" /\ c.ability.check /\ c.actor \in Heroes
  /\ Commit(ActionEvents(game, c, spark, degree))

WithdrawFromCombat ==
  /\ Active /\ game.window = <<>>
  /\ Commit(<<[kind |-> "combat_resolved", outcome |-> "heroes_withdrew"]>>)

\* The affected actor answers first, then the heroes, then the enemies.
Eligible(g, a) ==
  LET ready(S) == SetToSeq({b \in S \ {a} : "reaction" \in g.slots[b] /\ Alive(g, b)})
  IN (IF "reaction" \in g.slots[a] /\ Alive(g, a) THEN <<a>> ELSE <<>>)
     \o ready(Heroes) \o ready(Enemies)

\* The host opens a window for a hero that an enemy has acted against; a
\* window in which nobody has a reaction is left out.
OpenReactionWindow(h) ==
  /\ Active /\ game.window = <<>>
  /\ \E e \in Enemies : "action" \notin game.slots[e]
  /\ \E a \in Actors : Reactions(game, a) # {}
  /\ Eligible(game, h) # <<>>
  /\ Commit(<<[kind |-> "reaction_window_opened", eligible |-> Eligible(game, h)]>>)

Closed == <<[kind |-> "reaction_window_closed"]>>

PassReaction ==
  /\ Active /\ game.window # <<>>
  /\ Commit(IF Len(game.window) = 1 THEN Closed
            ELSE <<[kind |-> "reaction_window_opened", eligible |-> Tail(game.window)]>>)

UseReaction(c) ==
  /\ Active /\ game.window # <<>>
  /\ c \in Reactions(game, Head(game.window))
  /\ Payable(game, c)
  /\ Commit(CostEvents(game, c.actor, c.ability)
            \o <<[kind |-> "action_slot_spent", actor |-> c.actor, slot |-> "reaction"]>>
            \o EffectEvents(game, c, "Success") \o Closed)

\* Another hero nearby, even a dead one, pays once to give the test an edge.
AidDeathTest(h, owner) ==
  LET stock == IF owner = None THEN game.supply ELSE game.exertion[owner]
  IN /\ game.status = "awaiting_death_test" /\ ~game.aided
     /\ owner \in {None, h} /\ h # game.tested
     /\ Reach(game, h, game.tested) <= 2
     /\ stock > 0
     /\ Commit(<<[kind |-> "resource_changed", owner |-> owner,
                  previous |-> stock, current |-> stock - 1],
                 [kind |-> "death_test_aid_applied", check |-> "death"]>>)

\* A submitted die resolves the check first; its effects follow in the state
\* that still waits.
SubmitActionRoll(degree) ==
  /\ game.status = "awaiting_physical_action"
  /\ Commit(<<[kind |-> "check_resolved", check |-> "action"]>>
            \o EffectEvents(game, game.candidate, degree))

SubmitDeathRoll(degree) ==
  /\ game.status = "awaiting_death_test"
  /\ Commit(<<[kind |-> "check_resolved", check |-> "death"]>>
            \o IF degree \in Good
               THEN <<[kind |-> "hero_stabilized", hero |-> game.tested]>>
               ELSE <<[kind |-> "character_died", hero |-> game.tested]>>
                    \o Resolution(game, {}, {game.tested}))

Next ==
  \/ \E t \in Triggers : StartCombat(t)
  \/ \E h \in Heroes : ChooseHeroActivation(h) \/ OpenReactionWindow(h)
  \/ \E e \in Enemies : SelectEnemyFallback(e)
  \/ /\ game.actor # None
     /\ \E c \in Candidates(game, game.actor), spark \in BOOLEAN, degree \in Degrees :
          ExecuteCombatAction(c, spark, degree)
  \/ WithdrawFromCombat
  \/ PassReaction
  \/ game.window # <<>> /\ \E c \in Reactions(game, Head(game.window)) : UseReaction(c)
  \/ \E h \in Heroes, owner \in Heroes \cup {None} : AidDeathTest(h, owner)
  \/ \E degree \in Degrees : SubmitActionRoll(degree) \/ SubmitDeathRoll(degree)

Spec == Init /\ [][Next]_vars
-----------------------------------------------------------------------------
(* Properties *)

TypeOK ==
  /\ game.status \in {"none", "active", "awaiting_death_test",
                      "awaiting_physical_action", "resolved"}
  /\ game.side \in {"hero", "enemy"} /\ game.actor \in Actors \cup {None}
  /\ game.round \in 1 .. MaxRound /\ game.progress \in 0 .. Threshold
  /\ game.slots \in [Actors -> SUBSET SlotNames]
  /\ game.spent \in [Actors -> BOOLEAN]
  /\ game.zone \in [Actors -> Zones]
  /\ \A a \in Actors : game.guard[a] \in 0 .. GuardMax[a]
  /\ game.wounds \in [Heroes -> 0 .. WoundSlots]
  /\ game.dead \subseteq Heroes /\ game.spark \subseteq Heroes
  /\ game.exertion \in [Heroes -> 0 .. ExertionMax] /\ game.supply \in 0 .. SupplyMax
  /\ game.checks \subseteq {"action", "death"}
  /\ game.tested \in Heroes \cup {None}
  /\ game.outcome \in Outcomes \cup {None}

\* Every sequence of events that a decision accepts can be applied: each event
\* fits the state that the events before it leave, and the combat stays valid
\* (decideCommand against applyGameEvent).  Two decisions accept what cannot
\* be applied: a reaction given back to an actor that still holds it, and a
\* Spark invoked by a hero that has none.
AcceptedApplies == verdict \in {"applied", "irreversible", "reaction_restored", "spark_spent"}

\* A transaction that the compensation planner takes for reversible is:
\* applying the inverses, last event first, gives back the state before it
\* (planTransactionCompensation).
UndoRestores == verdict # "irreversible"

\* A hero whose last wound is filled is dead or is just being tested, and
\* nobody else is tested; only the dead and the tested have no slot left.
LastWoundIsTested ==
  \A h \in Heroes :
    (game.wounds[h] = WoundSlots) <=> (h \in game.dead \/ game.tested = h)

\* A fight whose enemies are all down, or whose heroes are all dead, is
\* resolved with the outcome that says so.
FinishedIsResolved ==
  /\ game.outcome = "heroes_prevailed" => \A e \in Enemies : game.guard[e] = 0
  /\ (game.outcome = "heroes_defeated") <=> (game.dead = Heroes)
  /\ (\A e \in Enemies : game.guard[e] = 0) => game.status = "resolved"

\* Somebody may act in an active fight: the active actor has something to do,
\* or some actor may begin an activation in which it has.
MayAct(a) ==
  /\ MayActivate(game, a)
  /\ a \in Heroes \/ Candidates(game, a) # {}

SomeoneMayAct ==
  Active => IF game.actor # None THEN Candidates(game, game.actor) # {}
            ELSE \E a \in Actors : MayAct(a)
=============================================================================
