----------------------------- MODULE MCCampaign -----------------------------
(* Small campaigns for TLC: one for the party, one for challenges and       *)
(* social states, one for rituals.                                          *)
EXTENDS Campaign
CONSTANTS h1, h2, s1, s2, c1, n1, l1, r1, r2, wick, path, talent

NoGear == [h \in Heroes |-> {}]
Plain ==
  [roster |-> {h1, h2}, gear |-> NoGear, challenges |-> {}, npcs |-> {}, rituals |-> {},
   participants |-> 1, features |-> {}, recoveries |-> {}, spends |-> {}, rests |-> FALSE,
   scenes |-> {}, plain |-> {}]

PartyCampaign ==
  [Plain EXCEPT !.gear = [NoGear EXCEPT ![h1] = {wick}],
     !.features = {[name |-> path, rank |-> 2, needs |-> {wick}],
                   [name |-> talent, rank |-> 3, needs |-> {path}]},
     !.recoveries = {[resource |-> "supply", amount |-> 2], [resource |-> "exertion", amount |-> 1]},
     !.spends = {1}, !.rests = TRUE, !.scenes = {s1, s2}, !.plain = {"spark"}]

TalkCampaign == [Plain EXCEPT !.roster = {h1}, !.challenges = {c1}, !.npcs = {n1},
                   !.plain = {"simulated", "physical"}]

RitualCampaign ==
  [Plain EXCEPT !.rituals = {r1, r2}, !.participants = 2,
     !.gear = [NoGear EXCEPT ![h1] = {wick}, ![h2] = {wick}],
     !.recoveries = {[resource |-> "supply", amount |-> 1]}]

MCCatalogs == {PartyCampaign, TalkCampaign, RitualCampaign}

\* The Floodgate Sequence with two seals instead of four
MCOutcomeEffects ==
  [d \in Degrees |-> [progress |-> IF d = Triumph THEN 2 ELSE IF d = Success THEN 1 ELSE 0,
                      danger |-> IF d = Crisis THEN 2 ELSE IF d = Setback THEN 1 ELSE 0]]

\* The Echo Lantern, its setback in two adjustments
MCCosts == <<[kind |-> "significant_gear", gear |-> wick], [kind |-> "supply", amount |-> 1]>>
MCConsequences ==
  [d \in Degrees |->
     CASE d = Crisis -> <<[resource |-> "guard", amount |-> -2]>>
       [] d = Setback -> <<[resource |-> "exertion", amount |-> -1],
                       [resource |-> "exertion", amount |-> -1]>>
       [] d = Success -> <<[resource |-> "supply", amount |-> 1]>>
       [] OTHER -> <<[resource |-> "supply", amount |-> 2]>>]

MCRequest ==
  [attribute |-> 1, discipline |-> 1, target |-> 13, edge |-> FALSE, hindrance |-> FALSE]
=============================================================================
