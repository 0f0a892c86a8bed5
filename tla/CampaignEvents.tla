--------------------------- MODULE CampaignEvents ---------------------------
(***************************************************************************)
(* What the rules engine records about a campaign outside a fight, and     *)
(* what a recorded event does to it: the events of the party, of physical  *)
(* checks, challenges, social states and rituals (applyGameEvent in        *)
(* packages/engine/src/apply-event.ts), the validation that every event    *)
(* must pass (validateGameState), and the inverses that a compensation     *)
(* applies (compensation.ts).                                              *)
(***************************************************************************)
EXTENDS Integers, Sequences, FiniteSets, SequencesExt, CheckResolution

CONSTANTS Heroes, Scenes,
          Challenges, Npcs, Leverage, Rituals,
          CheckIds,               \* identities of pending checks
          CheckLimit,             \* pending checks that a state can hold
          GuardMax, ExertionMax,
          ProgressMax, DangerMax, TieRule,
          LeverageCapacity,
          Costs,                  \* the costs of a ritual, in order
          None                    \* null

ASSUME HeroesAssumption == IsFiniteSet(Heroes) /\ None \notin Heroes
ASSUME BoundsAssumption ==
  /\ {CheckLimit, ProgressMax, DangerMax} \subseteq Nat \ {0}
  /\ {GuardMax, ExertionMax, LeverageCapacity} \subseteq Nat
ASSUME TieAssumption == TieRule \in {"progress_wins", "danger_wins", "resolved_with_cost"}
\* The code makes a new identity for every check.
ASSUME IdentitiesAssumption == IsFiniteSet(CheckIds) => Cardinality(CheckIds) > CheckLimit

Resources == {"guard", "exertion"}
Maximum(resource) == IF resource = "guard" THEN GuardMax ELSE ExertionMax
Full == [r \in Resources |-> Maximum(r)]
SupplyMaximum(g) == Cardinality(g.heroes) + 2
Stances == 1 .. 4                 \* closed, guarded, receptive, aligned
ClosedRitual == {"completed", "failed", "interrupted"}

\* Supply belongs to the party (owner None), the rest to a hero.
Stock(g, owner, resource) == IF owner = None THEN g.supply ELSE g.stock[owner][resource]
Cap(g, owner, resource) == IF owner = None THEN SupplyMaximum(g) ELSE Maximum(resource)

Pending(g, id) == {c \in g.checks : c.id = id}
WaitsFor(g, kind, on) == {c \in g.checks : c.then.kind = kind /\ c.then.on = on}

\* The status that the tracks of a challenge call for.
TrackStatus(progress, danger) ==
  CASE progress = ProgressMax /\ danger = DangerMax ->
         CASE TieRule = "progress_wins" -> "completed"
           [] TieRule = "danger_wins" -> "failed"
           [] OTHER -> "resolved_with_cost"
    [] progress = ProgressMax /\ danger # DangerMax -> "completed"
    [] progress # ProgressMax /\ danger = DangerMax -> "failed"
    [] OTHER -> "active"

ValidHeroes(g) == \A h \in g.heroes, r \in Resources : g.stock[h][r] \in 0 .. Maximum(r)

ValidChallenges(g) ==
  \A c \in Challenges : LET t == g.challenges[c] IN
    t # None => /\ t.progress <= ProgressMax /\ t.danger <= DangerMax
                /\ t.status = TrackStatus(t.progress, t.danger)

ValidSocial(g) ==
  \A n \in Npcs : g.social[n] # None => Cardinality(g.social[n].leverage) <= LeverageCapacity

ValidRituals(g) ==
  \A r \in Rituals : LET t == g.rituals[r] IN
    t # None => /\ t.paid <= Len(Costs)
                /\ t.status \in {"ready", "awaiting_resolution", "completed"}
                     => t.paid = Len(Costs)

\* The validation every event must leave true.
ValidCampaign(g) ==
  /\ g.supply \in 0 .. SupplyMaximum(g) /\ Cardinality(g.checks) <= CheckLimit
  /\ ValidHeroes(g) /\ ValidChallenges(g) /\ ValidSocial(g) /\ ValidRituals(g)

-----------------------------------------------------------------------------
(* The guard of each event *)

\* The party and its resources
PartyApplies(g, e) ==
  CASE e.kind = "character_materialized" -> e.hero \notin g.heroes
    [] e.kind = "resource_changed" -> Stock(g, e.owner, e.resource) = e.previous
    [] e.kind = "significant_gear_spent" ->
         /\ e.gear \in g.ready[e.hero]
         /\ g.rituals[e.ritual] # None /\ g.rituals[e.ritual].status = "preparing"
         /\ g.rituals[e.ritual].paid < Len(Costs)
         /\ Costs[g.rituals[e.ritual].paid + 1] = [kind |-> "significant_gear", gear |-> e.gear]
    [] e.kind = "spark_recovered" -> e.hero \notin g.spark \cup g.recovered
    [] e.kind = "costly_rest_completed" -> g.supply >= 1
    [] e.kind = "scene_resources_reset" -> g.scene = e.from /\ e.heroes = g.heroes
    [] e.kind = "rank_advanced" -> g.rank[e.hero] = e.rank - 1
    [] OTHER -> TRUE

\* Checks and the Spark spent on them
CheckApplies(g, e) ==
  CASE e.kind = "physical_roll_requested" -> Pending(g, e.check) = {}
    [] e.kind = "check_resolved" -> e.check = None \/ Pending(g, e.check) # {}
    [] e.kind = "physical_roll_cancelled" -> Pending(g, e.check) # {}
    [] e.kind = "spark_spent" -> e.hero \in g.spark
    [] e.kind = "spark_restored" -> e.hero \notin g.spark
    [] OTHER -> PartyApplies(g, e)

\* The first event after a request says what the check is for.
Unbound(g, id) == \E c \in Pending(g, id) : c.then = [kind |-> "none"]

ChallengeApplies(g, e) ==
  CASE e.kind = "challenge_started" -> g.challenges[e.on] = None
    [] e.kind = "challenge_check_pending" ->
         /\ Unbound(g, e.check)
         /\ g.challenges[e.on] # None /\ g.challenges[e.on].status = "active"
    [] e.kind = "challenge_tracks_changed" -> LET t == g.challenges[e.on] IN
         /\ t # None /\ t.status = "active"
         /\ t.progress = e.before.progress /\ t.danger = e.before.danger
         /\ e.after.progress >= t.progress /\ e.after.danger >= t.danger
    [] e.kind = "challenge_resolved" -> g.challenges[e.on].status = e.outcome
    [] OTHER -> CheckApplies(g, e)

SocialApplies(g, e) ==
  CASE e.kind = "social_state_established" -> g.social[e.on] = None
    [] e.kind = "social_check_pending" -> Unbound(g, e.check) /\ g.social[e.on] # None
    [] e.kind = "social_stance_changed" ->
         LET distance == IF e.current > e.previous THEN e.current - e.previous
                                                   ELSE e.previous - e.current
         IN /\ g.social[e.on] # None /\ g.social[e.on].stance = e.previous
            /\ distance \in 1 .. (IF e.degree = Triumph THEN 2 ELSE IF e.degree = Success THEN 1 ELSE 0)
    [] e.kind = "leverage_created" ->
         g.social[e.on] # None /\ e.leverage \notin g.social[e.on].leverage
    [] e.kind = "leverage_spent" ->
         g.social[e.on] # None /\ e.leverage \in g.social[e.on].leverage
    [] OTHER -> ChallengeApplies(g, e)

\* Rituals, and the rest
Applies(g, e) ==
  CASE e.kind = "ritual_started" -> g.rituals[e.on] = None
    [] e.kind = "ritual_contribution" -> LET t == g.rituals[e.on] IN
         /\ t # None /\ t.status = "preparing"
         /\ e.index = t.paid /\ e.index < Len(Costs) /\ e.hero \in g.heroes
    [] e.kind = "ritual_ready" -> LET t == g.rituals[e.on] IN
         t # None /\ t.status = "preparing" /\ t.paid = Len(Costs)
    [] e.kind = "ritual_check_pending" ->
         /\ Unbound(g, e.check)
         /\ g.rituals[e.on] # None /\ g.rituals[e.on].status = "ready"
    [] e.kind = "ritual_resolved" -> LET t == g.rituals[e.on] IN
         t # None /\ t.status \in {"ready", "awaiting_resolution"}
    [] e.kind = "ritual_interrupted" -> LET t == g.rituals[e.on] IN
         t # None /\ t.status \notin ClosedRitual
    [] OTHER -> SocialApplies(g, e)

-----------------------------------------------------------------------------
(* The effect of each event *)

ResetHeroes(g, hs) == [g EXCEPT !.stock = [h \in Heroes |-> IF h \in hs THEN Full ELSE @[h]]]

\* A session start also gives everybody Spark, and the chance to recover it.
SceneReset(g, e) ==
  LET rested == [ResetHeroes(g, e.heroes) EXCEPT !.scene = e.to]
  IN IF e.boundary # "session_start" THEN rested
     ELSE [rested EXCEPT !.spark = e.heroes, !.recovered = @ \ e.heroes, !.session = @ + 1]

\* Mutant: the ritual of a cancelled check keeps waiting.
ReleaseOnly(g, id) == [g EXCEPT !.checks = @ \ Pending(g, id)]

\* A ritual whose check is cancelled is ready again.
Cancel(g, id) ==
  LET waiting == {r \in Rituals : \E c \in Pending(g, id) : c.then = [kind |-> "ritual", on |-> r]}
  IN [g EXCEPT !.checks = @ \ Pending(g, id),
               !.rituals = [r \in Rituals |->
                  IF r \in waiting /\ @[r].status = "awaiting_resolution"
                  THEN [@[r] EXCEPT !.status = "ready"] ELSE @[r]]]

\* Binds the continuation of a check that was just requested.
Bind(g, id, then) ==
  [g EXCEPT !.checks = {IF c.id = id THEN [c EXCEPT !.then = then] ELSE c : c \in @}]

PartyEffect(g, e) ==
  CASE e.kind = "character_materialized" ->
         [g EXCEPT !.heroes = @ \cup {e.hero}, !.spark = @ \cup {e.hero},
                   !.stock[e.hero] = Full, !.ready[e.hero] = e.gear]
    [] e.kind = "resource_changed" ->
         IF e.owner = None THEN [g EXCEPT !.supply = e.current]
                           ELSE [g EXCEPT !.stock[e.owner][e.resource] = e.current]
    [] e.kind = "significant_gear_spent" ->
         [g EXCEPT !.ready[e.hero] = @ \ {e.gear}, !.spent[e.hero] = @ \cup {e.gear}]
    [] e.kind = "spark_recovered" ->
         [g EXCEPT !.spark = @ \cup {e.hero}, !.recovered = @ \cup {e.hero}]
    [] e.kind = "costly_rest_completed" -> [ResetHeroes(g, e.heroes) EXCEPT !.supply = @ - 1]
    [] e.kind = "scene_resources_reset" -> SceneReset(g, e)
    [] e.kind = "rank_advanced" ->
         [g EXCEPT !.rank[e.hero] = e.rank, !.features[e.hero] = @ \cup {e.feature}]
    [] OTHER -> g

CheckEffect(g, e) ==
  CASE e.kind = "physical_roll_requested" ->
         [g EXCEPT !.checks = @ \cup {[id |-> e.check, roller |-> e.hero,
                                       disclosure |-> e.disclosure, then |-> [kind |-> "none"]]}]
    [] e.kind = "check_resolved" -> [g EXCEPT !.checks = @ \ Pending(g, e.check)]
    [] e.kind = "physical_roll_cancelled" -> Cancel(g, e.check)
    [] e.kind = "spark_spent" -> [g EXCEPT !.spark = @ \ {e.hero}]
    [] e.kind = "spark_restored" -> [g EXCEPT !.spark = @ \cup {e.hero}]
    [] OTHER -> PartyEffect(g, e)

ChallengeEffect(g, e) ==
  CASE e.kind = "challenge_started" ->
         [g EXCEPT !.challenges[e.on] = [status |-> "active", progress |-> 0, danger |-> 0]]
    [] e.kind = "challenge_check_pending" ->
         Bind(g, e.check, [kind |-> "challenge", on |-> e.on])
    [] e.kind = "challenge_tracks_changed" -> [g EXCEPT !.challenges[e.on] = e.after]
    [] OTHER -> CheckEffect(g, e)

SocialEffect(g, e) ==
  CASE e.kind = "social_state_established" ->
         [g EXCEPT !.social[e.on] = [stance |-> e.stance, leverage |-> {}]]
    [] e.kind = "social_check_pending" ->
         Bind(g, e.check, [kind |-> "social", on |-> e.on, stance |-> e.stance, limit |-> e.limit])
    [] e.kind = "social_stance_changed" -> [g EXCEPT !.social[e.on].stance = e.current]
    [] e.kind = "leverage_created" -> [g EXCEPT !.social[e.on].leverage = @ \cup {e.leverage}]
    [] e.kind = "leverage_spent" -> [g EXCEPT !.social[e.on].leverage = @ \ {e.leverage}]
    [] OTHER -> ChallengeEffect(g, e)

Effect(g, e) ==
  CASE e.kind = "ritual_started" ->
         [g EXCEPT !.rituals[e.on] = [status |-> "preparing", paid |-> 0]]
    [] e.kind = "ritual_contribution" -> [g EXCEPT !.rituals[e.on].paid = e.index + 1]
    [] e.kind = "ritual_ready" -> [g EXCEPT !.rituals[e.on].status = "ready"]
    [] e.kind = "ritual_check_pending" ->
         Bind([g EXCEPT !.rituals[e.on].status = "awaiting_resolution"],
              e.check, [kind |-> "ritual", on |-> e.on])
    [] e.kind = "ritual_resolved" -> [g EXCEPT !.rituals[e.on].status = e.outcome]
    [] e.kind = "ritual_interrupted" -> [g EXCEPT !.rituals[e.on].status = "interrupted"]
    [] OTHER -> SocialEffect(g, e)

Kinds ==
  {"character_materialized", "resource_changed", "significant_gear_spent", "spark_recovered",
   "costly_rest_completed", "scene_resources_reset", "rank_advanced",
   "physical_roll_requested", "check_resolved", "physical_roll_cancelled", "spark_spent",
   "spark_restored", "challenge_started", "challenge_check_pending",
   "challenge_tracks_changed", "challenge_resolved", "social_state_established",
   "social_check_pending", "social_stance_changed", "leverage_created", "leverage_spent",
   "ritual_started", "ritual_contribution", "ritual_ready", "ritual_check_pending",
   "ritual_resolved", "ritual_interrupted"}

ASSUME KindsAssumption == None \notin Kinds

Apply(r, e) ==
  IF r.refused = None /\ Applies(r.game, e) /\ ValidCampaign(Effect(r.game, e))
  THEN [r EXCEPT !.game = Effect(@, e)]
  ELSE [r EXCEPT !.refused = IF @ = None THEN e.kind ELSE @]

\* The events one after the other; refused names the one that did not fit.
ApplyAll(g, es) ==
  LET after[n \in 0 .. Len(es)] ==
        IF n = 0 THEN [game |-> g, refused |-> None] ELSE Apply(after[n - 1], es[n])
  IN after[Len(es)]

-----------------------------------------------------------------------------
(* Compensation *)

NotStateChanging == {"challenge_check_pending", "social_check_pending", "ritual_check_pending"}

InverseKinds == {"resource_changed", "social_stance_changed", "leverage_created",
                 "physical_roll_requested", "spark_spent"}

\* A simulated check changes nothing; a submitted physical one is final.
Skipped(e) == e.kind \in NotStateChanging \/ (e.kind = "check_resolved" /\ e.check = None)

InverseOf(e) ==
  CASE e.kind \in {"resource_changed", "social_stance_changed"} ->
         [e EXCEPT !.previous = e.current, !.current = e.previous]
    [] e.kind = "leverage_created" -> [e EXCEPT !.kind = "leverage_spent"]
    [] e.kind = "physical_roll_requested" ->
         [kind |-> "physical_roll_cancelled", check |-> e.check]
    [] e.kind = "spark_spent" -> [e EXCEPT !.kind = "spark_restored"]

\* The events that a compensation has to invert.
Marks(es) ==
  LET kept[n \in 0 .. Len(es)] ==
        IF n = 0 THEN <<>>
        ELSE IF Skipped(es[n]) THEN kept[n - 1] ELSE Append(kept[n - 1], es[n])
  IN kept[Len(es)]

Compensable(es) ==
  /\ Marks(es) # <<>>
  /\ \A i \in DOMAIN Marks(es) : Marks(es)[i].kind \in InverseKinds

\* The inverses, last event first.
Compensation(es) ==
  LET m == Reverse(Marks(es)) IN [i \in DOMAIN m |-> InverseOf(m[i])]
=============================================================================
