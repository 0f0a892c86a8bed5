------------------------------ MODULE Campaign ------------------------------
(***************************************************************************)
(* The decisions of a campaign outside a fight: the party and its          *)
(* resources, scenes and ranks, checks (packages/engine/src/               *)
(* decide-command.ts), challenges, social states and rituals               *)
(* (subsystem-decisions.ts).                                               *)
(*                                                                         *)
(* Every action is one accepted command: it computes the events of the     *)
(* decision and applies them.  A campaign pins one content catalog for     *)
(* ever; Init picks it.                                                    *)
(***************************************************************************)
EXTENDS CampaignEvents

CONSTANTS Catalogs,        \* the content a campaign may pin, and (to bound the model)
                           \* its heroes and the party commands that are tried with it
          PartySizes,      \* the party sizes that are given Supply
          OutcomeEffects,  \* [Degrees -> what a challenge check adds to its tracks]
          InitialStance, HardLimits, Limits,
          Consequences,    \* [Degrees -> Seq of resource adjustments]
          CheckRequest,    \* the request of every check of the model
          Dice,            \* bound of the model: the faces that are rolled
          MaxSession       \* bound of the model: session starts

VARIABLES game,            \* the mechanical state
          verdict          \* how the last accepted decision fared (history)

vars == <<game, verdict>>

How == {"simulated", "physical", "spark"}

ASSUME LimitsAssumption == HardLimits \subseteq Limits /\ None \notin Limits
ASSUME RequestAssumption == CheckRequest \in Requests
ASSUME DiceAssumption == Dice \subseteq Faces /\ MaxSession \in Nat
ASSUME StanceAssumption == InitialStance \in Stances

Gear == UNION {UNION {c.gear[h] : h \in Heroes} : c \in Catalogs}
Names == {f.name : f \in UNION {c.features : c \in Catalogs}}

\* What the schemas of the content ask for: features above the first rank, with
\* identities of their own, that are no gear.
ASSUME CatalogAssumption ==
  \A c \in Catalogs :
    /\ c.roster \subseteq Heroes /\ DOMAIN c.gear = Heroes
    /\ c.scenes \subseteq Scenes /\ c.spends \subseteq Nat
    /\ \A f \in c.features :
         /\ f.rank \in 2 .. 4
         /\ \A h \in Heroes : f.name \notin c.gear[h]
         /\ \A other \in c.features : other.name = f.name => other.rank = f.rank

ASSUME OutcomesAssumption == OutcomeEffects \in [Degrees -> [progress : Nat, danger : Nat]]

ASSUME RitualAssumption ==
  /\ Costs \in Seq([kind : {"significant_gear"}, gear : Gear]
                    \cup [kind : {"supply", "exertion"}, amount : Nat])
  /\ Consequences \in
       [Degrees -> Seq([resource : Resources \cup {"supply"}, amount : Int])]

-----------------------------------------------------------------------------
(* Committing a decision *)

\* A transaction that can be undone must give back the state before it.
Undone(g, es) == ApplyAll(ApplyAll(g, es).game, Compensation(es))

Commit(es) ==
  LET r == ApplyAll(game, es)
  IN IF r.refused # None
     THEN verdict' = r.refused /\ UNCHANGED game
     ELSE /\ game' = r.game
          /\ verdict' = IF Compensable(es) /\ Undone(game, es) # [game |-> game, refused |-> None]
                        THEN "irreversible" ELSE "applied"

NoCampaign(catalog) ==
  [catalog |-> catalog, session |-> 0, scene |-> None, heroes |-> {}, supply |-> 0,
   stock |-> [h \in Heroes |-> [r \in Resources |-> 0]],
   spark |-> {}, recovered |-> {}, rank |-> [h \in Heroes |-> 1],
   features |-> [h \in Heroes |-> {}],
   ready |-> [h \in Heroes |-> {}], spent |-> [h \in Heroes |-> {}], checks |-> {},
   challenges |-> [c \in Challenges |-> None], social |-> [n \in Npcs |-> None],
   rituals |-> [r \in Rituals |-> None]]

Init == \E catalog \in Catalogs : game = NoCampaign(catalog) /\ verdict = "applied"

Changed(owner, resource, previous, current) ==
  [kind |-> "resource_changed", owner |-> owner, resource |-> resource,
   previous |-> previous, current |-> current]

-----------------------------------------------------------------------------
(* The party *)

MaterializeCharacter(h) ==
  /\ h \notin game.heroes
  /\ Commit(<<[kind |-> "character_materialized", hero |-> h, gear |-> game.catalog.gear[h]]>>)

\* Whenever the party has no Supply, not only the first time.
ProvisionStartingSupply ==
  /\ Cardinality(game.heroes) \in PartySizes /\ game.supply = 0
  /\ Commit(<<Changed(None, "supply", 0, Cardinality(game.heroes))>>)

\* owner is the hero, or None for the Supply of the party.
MaySpend(g, owner, resource, n) == n \in 1 .. Stock(g, owner, resource)

SpendResource(owner, resource, n) ==
  LET have == Stock(game, owner, resource)
  IN /\ MaySpend(game, owner, resource, n)
     /\ Commit(<<Changed(owner, resource, have, have - n)>>)

\* Any content of the catalog that grants this amount is a source.
RecoverResource(owner, resource, n) ==
  LET have == Stock(game, owner, resource)
  IN /\ [resource |-> resource, amount |-> n] \in game.catalog.recoveries
     /\ have + n <= Cap(game, owner, resource)
     /\ Commit(<<Changed(owner, resource, have, have + n)>>)

MayRecoverSpark(g, h) == h \notin g.recovered /\ h \notin g.spark

RecoverSpark(h) ==
  MayRecoverSpark(game, h) /\ Commit(<<[kind |-> "spark_recovered", hero |-> h]>>)

MayRest(g) == g.supply >= 1

CostlyRest(hs) ==
  MayRest(game) /\ Commit(<<[kind |-> "costly_rest_completed", heroes |-> hs]>>)

AdvanceScene(to, boundary) ==
  /\ game.scene = None => boundary = "session_start"
  /\ to # game.scene
  /\ boundary = "session_start" => game.session < MaxSession
  /\ Commit(<<[kind |-> "scene_resources_reset", from |-> game.scene, to |-> to,
               boundary |-> boundary, heroes |-> game.heroes]>>)

\* What a hero owns: its features and its gear that is not spent.
Owned(g, h) == g.features[h] \cup g.ready[h]

FeaturesFor(g, h) ==
  {f \in g.catalog.features : f.rank = g.rank[h] + 1 /\ f.needs \subseteq Owned(g, h)}

MayAdvance(g, h, f) ==
  /\ f \in g.catalog.features /\ f.rank = g.rank[h] + 1
  /\ f.name \notin Owned(g, h)
  /\ f.needs \subseteq Owned(g, h)

AdvanceRank(h, f) ==
  /\ MayAdvance(game, h, f)
  /\ Commit(<<[kind |-> "rank_advanced", hero |-> h, rank |-> f.rank, feature |-> f.name]>>)

\* Mutant: prerequisites are left to the decision.
OfferedFeatures(g, h) ==
  [exertion |-> g.stock[h]["exertion"], supply |-> g.supply,
   spark |-> h \notin g.spark \cup g.recovered, rest |-> g.supply > 0,
   features |-> {f \in g.catalog.features : f.rank = g.rank[h] + 1}]

\* What the list of legal character actions offers a hero.
Offered(g, h) ==
  [exertion |-> g.stock[h]["exertion"], supply |-> g.supply,
   spark |-> h \notin g.spark \cup g.recovered, rest |-> g.supply > 0,
   features |-> FeaturesFor(g, h)]

-----------------------------------------------------------------------------
(* Checks *)

MayAttempt(h, how) == h \in game.heroes /\ (how = "spark" => h \in game.spark)

FreshCheck == CHOOSE id \in CheckIds : Pending(game, id) = {}

Simulated == <<[kind |-> "check_resolved", check |-> None]>>

\* A check that is rolled at the table: its outcomes are disclosed, and then
\* tells what it is for.
Requested(h, how, then) ==
  (IF how = "spark" THEN <<[kind |-> "spark_spent", hero |-> h]>> ELSE <<>>)
  \o <<[kind |-> "physical_roll_requested", check |-> FreshCheck, hero |-> h,
        disclosure |-> Disclosure(CheckRequest, how = "spark")]>>
  \o then

\* A plain check has no consequence for the state.
ResolvePlainCheck(h, how) ==
  /\ MayAttempt(h, how)
  /\ Commit(IF how = "simulated" THEN Simulated ELSE Requested(h, how, <<>>))

-----------------------------------------------------------------------------
(* Challenges *)

MinOf(a, b) == IF a < b THEN a ELSE b

ChallengeEvents(c, degree) ==
  LET t == game.challenges[c]
      progress == MinOf(ProgressMax, t.progress + OutcomeEffects[degree].progress)
      danger == MinOf(DangerMax, t.danger + OutcomeEffects[degree].danger)
      status == TrackStatus(progress, danger)
      tracks(p, d, s) == [status |-> s, progress |-> p, danger |-> d]
  IN <<[kind |-> "challenge_tracks_changed", on |-> c,
        before |-> t, after |-> tracks(progress, danger, status)]>>
     \o IF status = "active" THEN <<>>
        ELSE <<[kind |-> "challenge_resolved", on |-> c, outcome |-> status]>>

OpenChallenge(g, c) == g.challenges[c] # None /\ g.challenges[c].status = "active"

StartChallenge(c) ==
  /\ c \in game.catalog.challenges /\ game.challenges[c] = None
  /\ Commit(<<[kind |-> "challenge_started", on |-> c]>>)

\* Mutant: a challenge may wait for two checks.
OpenForCheck(c) == OpenChallenge(game, c)

\* A challenge waits for one check at a time.
MayAdvanceChallenge(c) ==
  OpenChallenge(game, c) /\ WaitsFor(game, "challenge", c) = {}

AdvanceChallenge(c, h, how, face) ==
  /\ MayAdvanceChallenge(c) /\ MayAttempt(h, how)
  /\ Commit(IF how = "simulated"
            THEN Simulated \o ChallengeEvents(c, ResolveCheck(CheckRequest, face))
            ELSE Requested(h, how, <<[kind |-> "challenge_check_pending", on |-> c,
                                      check |-> FreshCheck]>>))

-----------------------------------------------------------------------------
(* Social states *)

EstablishSocialState(n) ==
  /\ n \in game.catalog.npcs /\ game.social[n] = None
  /\ Commit(<<[kind |-> "social_state_established", on |-> n, stance |-> InitialStance]>>)

\* Mutant: a triumph moves the stance beyond the requested one.
SocialOvershoot(n, requested, degree) ==
  LET stance == game.social[n].stance
      steps == IF degree = Triumph THEN 2 ELSE IF degree = Success THEN 1 ELSE 0
  IN IF steps = 0 \/ requested = stance THEN <<>>
     ELSE <<[kind |-> "social_stance_changed", on |-> n, previous |-> stance, degree |-> degree,
             current |-> IF requested > stance THEN stance + steps ELSE stance - steps]>>

\* A success moves the stance one step towards the requested one, a triumph
\* up to two.
SocialEvents(n, requested, degree) ==
  LET stance == game.social[n].stance
      steps == IF degree = Triumph THEN 2 ELSE IF degree = Success THEN 1 ELSE 0
      next == IF requested > stance THEN MinOf(requested, stance + steps)
              ELSE IF requested < stance - steps THEN stance - steps ELSE requested
  IN IF steps = 0 \/ requested = stance THEN <<>>
     ELSE <<[kind |-> "social_stance_changed", on |-> n, previous |-> stance,
             current |-> next, degree |-> degree]>>

AttemptSocialShift(n, requested, limit, h, how, face) ==
  /\ game.social[n] # None /\ WaitsFor(game, "social", n) = {}
  /\ limit \notin HardLimits
  /\ MayAttempt(h, how)
  /\ Commit(IF how = "simulated"
            THEN Simulated \o SocialEvents(n, requested, ResolveCheck(CheckRequest, face))
            ELSE Requested(h, how, <<[kind |-> "social_check_pending", on |-> n, check |-> FreshCheck,
                                      stance |-> requested, limit |-> limit]>>))

CreateLeverage(n, l) ==
  /\ game.social[n] # None
  /\ Cardinality(game.social[n].leverage) < LeverageCapacity
  /\ l \notin game.social[n].leverage
  /\ Commit(<<[kind |-> "leverage_created", on |-> n, leverage |-> l]>>)

SpendLeverage(n, l) ==
  /\ game.social[n] # None /\ l \in game.social[n].leverage
  /\ Commit(<<[kind |-> "leverage_spent", on |-> n, leverage |-> l]>>)

-----------------------------------------------------------------------------
(* Rituals *)

TotalCost(kind) ==
  FoldLeft(LAMBDA sum, c : IF c.kind = kind THEN sum + c.amount ELSE sum, 0, Costs)
GearCosts == SelectSeq(Costs, LAMBDA c : c.kind = "significant_gear")

\* Somebody has each piece of gear, and the party the rest.
CostsPayable ==
  /\ \A i \in DOMAIN GearCosts :
       Cardinality({j \in DOMAIN GearCosts : GearCosts[j] = GearCosts[i]})
         <= Cardinality({h \in game.heroes : GearCosts[i].gear \in game.ready[h]})
  /\ game.supply >= TotalCost("supply")
  /\ SumFunction([h \in game.heroes |-> game.stock[h]["exertion"]]) >= TotalCost("exertion")

StartRitual(r) ==
  /\ r \in game.catalog.rituals /\ game.rituals[r] = None
  /\ Cardinality(game.heroes) >= game.catalog.participants
  /\ CostsPayable
  /\ Commit(<<[kind |-> "ritual_started", on |-> r]>>)

\* Mutant: a contribution takes the gear for granted.
OnTrust(h, cost, r) == <<>>

PaymentEvents(h, cost, r) ==
  LET owner == IF cost.kind = "supply" THEN None ELSE h
      have == Stock(game, owner, cost.kind)
  IN IF cost.kind = "significant_gear"
     THEN <<[kind |-> "significant_gear_spent", hero |-> h, gear |-> cost.gear, ritual |-> r]>>
     ELSE <<Changed(owner, cost.kind, have, have - cost.amount)>>

Payable(h, cost) ==
  CASE cost.kind = "significant_gear" -> cost.gear \in game.ready[h]
    [] cost.kind = "supply" -> cost.amount <= game.supply
    [] OTHER -> cost.amount <= game.stock[h][cost.kind]

ContributeRitual(r, h) ==
  LET paid == game.rituals[r].paid
  IN /\ game.rituals[r] # None /\ game.rituals[r].status = "preparing"
     /\ h \in game.heroes /\ paid < Len(Costs)
     /\ Payable(h, Costs[paid + 1])
     /\ Commit(PaymentEvents(h, Costs[paid + 1], r)
               \o <<[kind |-> "ritual_contribution", on |-> r, hero |-> h, index |-> paid]>>
               \o IF paid + 1 = Len(Costs) THEN <<[kind |-> "ritual_ready", on |-> r]>> ELSE <<>>)

Adjustment(g, h, f) ==
  LET owner == IF f.resource = "supply" THEN None ELSE h
      have == Stock(g, owner, f.resource)
  IN Changed(owner, f.resource, have,
             IF have + f.amount < 0 THEN 0
             ELSE MinOf(Cap(g, owner, f.resource), have + f.amount))

\* Mutant: every adjustment starts from the recorded state.
EventsFromRecord(h, degree) ==
  [n \in DOMAIN Consequences[degree] |-> Adjustment(game, h, Consequences[degree][n])]

\* Each adjustment starts from what the ones before it leave.
ConsequenceEvents(h, degree) ==
  LET fs == Consequences[degree]
      left[n \in 0 .. Len(fs)] ==
        IF n = 0 THEN game ELSE Effect(left[n - 1], Adjustment(left[n - 1], h, fs[n]))
  IN [n \in 1 .. Len(fs) |-> Adjustment(left[n - 1], h, fs[n])]

RitualEvents(r, h, degree) ==
  ConsequenceEvents(h, degree)
  \o <<[kind |-> "ritual_resolved", on |-> r,
        outcome |-> IF degree \in {Success, Triumph} THEN "completed" ELSE "failed"]>>

ResolveRitual(r, h, how, face) ==
  /\ game.rituals[r] # None /\ game.rituals[r].status = "ready" /\ MayAttempt(h, how)
  /\ Commit(IF how = "simulated"
            THEN Simulated \o RitualEvents(r, h, ResolveCheck(CheckRequest, face))
            ELSE Requested(h, how, <<[kind |-> "ritual_check_pending", on |-> r,
                                      check |-> FreshCheck]>>))

\* Also a ritual that waits for its check.
InterruptRitual(r) ==
  /\ game.rituals[r] # None /\ game.rituals[r].status \notin ClosedRitual
  /\ Commit(<<[kind |-> "ritual_interrupted", on |-> r]>>)

-----------------------------------------------------------------------------
(* Submitting a die *)

\* Whether the continuation of a check takes a result.
TakesResult(g, c) ==
  CASE c.then.kind = "challenge" -> OpenChallenge(g, c.then.on)
    [] c.then.kind = "social" -> c.then.limit \notin HardLimits
    [] c.then.kind = "ritual" ->
         g.rituals[c.then.on].status \in {"ready", "awaiting_resolution"}
    [] OTHER -> TRUE

Continued(c, degree) ==
  CASE c.then.kind = "challenge" -> ChallengeEvents(c.then.on, degree)
    [] c.then.kind = "social" -> SocialEvents(c.then.on, c.then.stance, degree)
    [] c.then.kind = "ritual" -> RitualEvents(c.then.on, c.roller, degree)
    [] OTHER -> <<>>

SubmitDieResult(c, face) ==
  /\ AsDisclosed(c.disclosure, face) /\ TakesResult(game, c)
  /\ Commit(<<[kind |-> "check_resolved", check |-> c.id]>>
            \o Continued(c, SubmittedDegree(c.disclosure, face)))

-----------------------------------------------------------------------------
Owners == game.heroes \X {"exertion"} \cup {<<None, "supply">>}

PartyNext ==
  \/ \E h \in game.catalog.roster : MaterializeCharacter(h)
  \/ ProvisionStartingSupply
  \/ \E o \in Owners, n \in game.catalog.spends : SpendResource(o[1], o[2], n)
  \/ \E o \in Owners \cup game.heroes \X {"guard"}, n \in 1 .. 2 : RecoverResource(o[1], o[2], n)
  \/ \E h \in game.heroes : RecoverSpark(h)
  \/ \E hs \in (SUBSET game.heroes) \ {{}} : game.catalog.rests /\ CostlyRest(hs)
  \/ \E s \in game.catalog.scenes, b \in {"scene", "session_start", "session_end"} : AdvanceScene(s, b)
  \/ \E h \in game.heroes, f \in game.catalog.features : AdvanceRank(h, f)

StoryNext ==
  \/ \E h \in game.heroes, how \in game.catalog.plain : ResolvePlainCheck(h, how)
  \/ \E c \in Challenges : StartChallenge(c)
  \/ \E c \in Challenges, h \in game.heroes, how \in How, face \in Dice :
       AdvanceChallenge(c, h, how, face)
  \/ \E n \in Npcs : EstablishSocialState(n)
  \/ \E n \in Npcs, s \in Stances, l \in Limits \cup {None}, h \in game.heroes, how \in How, face \in Dice :
       AttemptSocialShift(n, s, l, h, how, face)
  \/ \E n \in Npcs, l \in Leverage : CreateLeverage(n, l) \/ SpendLeverage(n, l)
  \/ \E r \in Rituals : StartRitual(r) \/ InterruptRitual(r)
  \/ \E r \in Rituals, h \in game.heroes : ContributeRitual(r, h)
  \/ \E r \in Rituals, h \in game.heroes, how \in How, face \in Dice : ResolveRitual(r, h, how, face)
  \/ \E c \in game.checks, face \in Dice : SubmitDieResult(c, face)

Next == PartyNext \/ StoryNext

Spec == Init /\ [][Next]_vars

-----------------------------------------------------------------------------
(* Properties *)

Tracks ==
  [status : {"active", "completed", "failed", "resolved_with_cost"}, progress : Nat, danger : Nat]
Bonds == [stance : Stances, leverage : SUBSET Leverage]
Rites ==
  [status : {"preparing", "ready", "awaiting_resolution"} \cup ClosedRitual, paid : Nat]
Continuations ==
  [kind : {"none"}] \cup [kind : {"challenge"}, on : Challenges]
  \cup [kind : {"social"}, on : Npcs, stance : Stances, limit : Limits \cup {None}]
  \cup [kind : {"ritual"}, on : Rituals]
Disclosures == {Disclosure(CheckRequest, spark) : spark \in BOOLEAN}
Checks == [id : CheckIds, roller : Heroes, disclosure : Disclosures, then : Continuations]

Games ==
  [catalog : Catalogs, session : 0 .. MaxSession, scene : Scenes \cup {None},
   heroes : SUBSET Heroes, supply : Int, stock : [Heroes -> [Resources -> Int]],
   spark : SUBSET Heroes, recovered : SUBSET Heroes, rank : [Heroes -> 1 .. 4],
   features : [Heroes -> SUBSET Names],
   ready : [Heroes -> SUBSET Gear], spent : [Heroes -> SUBSET Gear],
   checks : SUBSET Checks,
   challenges : [Challenges -> Tracks \cup {None}], social : [Npcs -> Bonds \cup {None}],
   rituals : [Rituals -> Rites \cup {None}]]

ASSUME NoneAssumption == None \notin Tracks \cup Bonds \cup Rites \cup Scenes \cup CheckIds

\* The state keeps its shape and passes the validation; what concerns a hero
\* concerns one of the party.
TypeOK ==
  /\ game \in Games /\ ValidCampaign(game)
  /\ game.spark \cup game.recovered \subseteq game.heroes
  /\ \A c \in game.checks : c.roller \in game.heroes
  /\ verdict \in {"applied", "irreversible"} \cup Kinds

\* Every sequence of events that a decision accepts can be applied, each one
\* to the state that the events before it leave (decideCommand against
\* applyGameEvent).  One kind of decision accepts too much: a check that
\* would be one more than a state can hold is refused only when its event is
\* applied.
AcceptedApplies == verdict \in {"applied", "irreversible", "physical_roll_requested"}

\* A transaction that the compensation planner takes for reversible is:
\* applying the inverses, last event first, gives back the state before it
\* (planTransactionCompensation).
UndoRestores == verdict # "irreversible"

\* Whatever happened since a check was disclosed, the die can be submitted:
\* each face comes out as disclosed and the continuation still takes the
\* result.  Only the check of a ritual that was interrupted while it waited
\* can never be answered (decideInterruptRitual does not look at the check).
ChecksAnswerable ==
  \A c \in game.checks :
    /\ \A face \in Faces : AsDisclosed(c.disclosure, face)
    /\ \/ TakesResult(game, c)
       \/ c.then.kind = "ritual" /\ game.rituals[c.then.on].status = "interrupted"

PaidSoFar(g, r) == IF g.rituals[r] = None THEN 0 ELSE g.rituals[r].paid
GearPaid(g) ==
  {p \in Rituals \X (1 .. Len(Costs)) :
     p[2] <= PaidSoFar(g, p[1]) /\ Costs[p[2]].kind = "significant_gear"}
GearSpent(g) == {p \in g.heroes \X Gear : p[2] \in g.spent[p[1]]}

\* Gear is spent for rituals only, once, and stays spent whatever becomes of
\* the ritual: there is one spent piece for each gear cost paid so far.
GearSpentForRituals == Cardinality(GearPaid(game)) = Cardinality(GearSpent(game))

\* Every action that a hero is offered is accepted by the decision of that
\* action (enumerateLegalCharacterActions against the decisions).
OfferedIsAccepted ==
  \A h \in game.heroes : LET o == Offered(game, h) IN
    /\ o.exertion > 0 => MaySpend(game, h, "exertion", o.exertion)
    /\ o.supply > 0 => MaySpend(game, None, "supply", o.supply)
    /\ o.spark => MayRecoverSpark(game, h)
    /\ o.rest => MayRest(game)
    /\ \A f \in o.features : MayAdvance(game, h, f)
=============================================================================
