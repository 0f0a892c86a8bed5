--------------------------- MODULE CampaignProofs ---------------------------
(***************************************************************************)
(* What Campaign guarantees for every party, content and bound.            *)
(***************************************************************************)
EXTENDS Campaign, SequenceTheorems, FiniteSetTheorems, WellFoundedInduction, TLAPS

-----------------------------------------------------------------------------
(* Applying events one after the other *)

\* Induction over the natural numbers, for a set instead of a predicate.
LEMMA UpFromZero ==
  ASSUME NEW S \in SUBSET Nat, 0 \in S, \A n \in S : n + 1 \in S
  PROVE  Nat \subseteq S
<1> DEFINE R == {ss \in Nat \X Nat : ss[1] < ss[2]}
           T == Nat \ S
<1>1. IsWellFoundedOn(R, Nat)
  BY NatLessThanWellFounded DEF OpToRel
<1>2. SUFFICES ASSUME T # {} PROVE FALSE
  OBVIOUS
<1>3. PICK x \in T : \A y \in T : ~ (<<y, x>> \in R)
  <2>1. T \subseteq Nat
    OBVIOUS
  <2> HIDE DEF T, R
  <2>2. QED
    BY <1>1, <1>2, <2>1, WFMin
<1>4. x \in Nat /\ x # 0 /\ x - 1 \in Nat /\ x - 1 < x /\ (x - 1) + 1 = x
  BY <1>3
<1>5. x - 1 \in S
  BY <1>3, <1>4
<1>6. QED
  BY <1>3, <1>4, <1>5

Start(g) == [game |-> g, refused |-> None]

\* f is the course of the first n events of es.
Course(f, g, es, n) ==
  f = [i \in 0 .. n |-> IF i = 0 THEN Start(g) ELSE Apply(f[i - 1], es[i])]

LEMMA CourseExists ==
  ASSUME NEW g, NEW es
  PROVE  \A n \in Nat : \E f : Course(f, g, es, n)
<1> DEFINE S == {n \in Nat : \E f : Course(f, g, es, n)}
<1>1. 0 \in S
  <2>1. Course([i \in 0 .. 0 |-> Start(g)], g, es, 0)
    BY DEF Course
  <2>2. QED
    BY <2>1
<1>2. ASSUME NEW n \in S PROVE n + 1 \in S
  <2>1. PICK f : Course(f, g, es, n)
    OBVIOUS
  <2> DEFINE next == [i \in 0 .. n + 1 |-> IF i = n + 1 THEN Apply(f[n], es[n + 1]) ELSE f[i]]
  <2>2. Course(next, g, es, n + 1)
    BY <2>1 DEF Course
  <2>3. QED
    BY <2>2
<1>3. S \in SUBSET Nat
  OBVIOUS
<1> HIDE DEF S
<1>4. Nat \subseteq S
  BY <1>1, <1>2, <1>3, UpFromZero
<1>5. QED
  BY <1>4 DEF S

\* ApplyAll ends where the course of all events ends.
LEMMA ApplyAllIs ==
  ASSUME NEW g, NEW E, NEW es \in Seq(E)
  PROVE  \E f : Course(f, g, es, Len(es)) /\ ApplyAll(g, es) = f[Len(es)]
<1> DEFINE after == CHOOSE f : Course(f, g, es, Len(es))
<1>1. Len(es) \in Nat
  OBVIOUS
<1>2. Course(after, g, es, Len(es))
  BY <1>1, CourseExists
<1>3. ApplyAll(g, es) = after[Len(es)]
  BY DEF ApplyAll, Course, Start
<1>4. QED
  BY <1>2, <1>3

LEMMA CourseSteps ==
  ASSUME NEW g, NEW es, NEW n \in Nat, NEW f, Course(f, g, es, n)
  PROVE  /\ f[0] = Start(g)
         /\ \A i \in 1 .. n : f[i] = Apply(f[i - 1], es[i])
<1>1. f[0] = Start(g)
  BY DEF Course
<1>2. ASSUME NEW i \in 1 .. n PROVE f[i] = Apply(f[i - 1], es[i])
  BY DEF Course
<1>3. QED
  BY <1>1, <1>2

\* Two courses agree where their events do.
LEMMA CoursesAgree ==
  ASSUME NEW g, NEW es, NEW fs, NEW n \in Nat, NEW f, NEW h,
         f[0] = h[0],
         \A i \in 1 .. n : f[i] = Apply(f[i - 1], es[i]) /\ h[i] = Apply(h[i - 1], fs[i]),
         \A i \in 1 .. n : es[i] = fs[i]
  PROVE  f[n] = h[n]
<1> DEFINE S == {m \in Nat : m <= n => f[m] = h[m]}
<1>1. 0 \in S
  OBVIOUS
<1>2. ASSUME NEW m \in S PROVE m + 1 \in S
  <2>1. SUFFICES ASSUME m + 1 <= n PROVE f[m + 1] = h[m + 1]
    OBVIOUS
  <2>2. m + 1 \in 1 .. n /\ (m + 1) - 1 = m
    BY <2>1
  <2>3. QED
    BY <2>1, <2>2
<1>3. S \in SUBSET Nat
  OBVIOUS
<1> HIDE DEF S
<1>4. Nat \subseteq S
  BY <1>1, <1>2, <1>3, UpFromZero
<1>5. QED
  BY <1>4 DEF S

LEMMA AppliedNone ==
  ASSUME NEW g
  PROVE  ApplyAll(g, <<>>) = Start(g)
<1>1. <<>> \in Seq({}) /\ Len(<<>>) = 0
  OBVIOUS
<1>2. PICK f : Course(f, g, <<>>, 0) /\ ApplyAll(g, <<>>) = f[0]
  BY <1>1, ApplyAllIs
<1>3. QED
  BY <1>2, CourseSteps

LEMMA AppliedMore ==
  ASSUME NEW g, NEW E, NEW es \in Seq(E), NEW e \in E
  PROVE  ApplyAll(g, Append(es, e)) = Apply(ApplyAll(g, es), e)
<1> DEFINE fs == Append(es, e)
           n == Len(es)
           m == n + 1
<1>1. /\ fs \in Seq(E) /\ Len(fs) = m /\ fs[m] = e
      /\ n \in Nat /\ m \in Nat /\ m \in 1 .. m /\ m - 1 = n /\ 1 .. n \subseteq 1 .. m
      /\ \A i \in 1 .. n : fs[i] = es[i]
  OBVIOUS
<1>2. PICK f : Course(f, g, es, n) /\ ApplyAll(g, es) = f[n]
  BY ApplyAllIs
<1>3. PICK h : Course(h, g, fs, m) /\ ApplyAll(g, fs) = h[m]
  BY <1>1, ApplyAllIs
<1> HIDE DEF fs, n, m
<1>4. f[0] = Start(g) /\ \A i \in 1 .. n : f[i] = Apply(f[i - 1], es[i])
  BY <1>1, <1>2, CourseSteps
<1>5. h[0] = Start(g) /\ \A i \in 1 .. m : h[i] = Apply(h[i - 1], fs[i])
  <2>1. m \in Nat /\ Course(h, g, fs, m)
    BY <1>1, <1>3
  <2>2. QED
    BY <2>1, CourseSteps
<1>6. \A i \in 1 .. n : h[i] = Apply(h[i - 1], fs[i])
  BY <1>1, <1>5
<1>7. f[n] = h[n]
  <2>1. \A i \in 1 .. n : es[i] = fs[i]
    BY <1>1
  <2>2. QED
    BY <1>1, <1>4, <1>5, <1>6, <2>1, CoursesAgree
<1>8. h[m] = Apply(h[n], e)
  BY <1>1, <1>5
<1>9. QED
  BY <1>2, <1>3, <1>7, <1>8 DEF fs

\* What one event does.
LEMMA ApplyIs ==
  ASSUME NEW g, NEW e, e.kind \in Kinds
  PROVE  /\ Applies(g, e) /\ ValidCampaign(Effect(g, e)) => Apply(Start(g), e) = Start(Effect(g, e))
         /\ ~(Applies(g, e) /\ ValidCampaign(Effect(g, e))) =>
              Apply(Start(g), e) = [game |-> g, refused |-> e.kind]
BY DEF Apply, Start

LEMMA RefusedStays ==
  ASSUME NEW g, NEW k \in Kinds, NEW e
  PROVE  Apply([game |-> g, refused |-> k], e) = [game |-> g, refused |-> k]
BY KindsAssumption DEF Apply

LEMMA LastApart ==
  ASSUME NEW E, NEW n \in Nat, NEW t \in Seq(E), Len(t) = n + 1
  PROVE  \E s \in Seq(E), e \in E : t = Append(s, e) /\ Len(s) = n
<1>1. SubSeq(t, 1, n) \in Seq(E) /\ t[n + 1] \in E
  OBVIOUS
<1>2. t = Append(SubSeq(t, 1, n), t[n + 1]) /\ Len(SubSeq(t, 1, n)) = n
  OBVIOUS
<1>3. QED
  BY <1>1, <1>2

\* The events of a first sequence, then those of a second.
LEMMA AppliedJoined ==
  ASSUME NEW g, NEW E, NEW es \in Seq(E), NEW fs \in Seq(E), NEW x, NEW k \in Kinds
  PROVE  /\ ApplyAll(g, es) = Start(x) => ApplyAll(g, es \o fs) = ApplyAll(x, fs)
         /\ ApplyAll(g, es) = [game |-> x, refused |-> k] =>
              ApplyAll(g, es \o fs) = [game |-> x, refused |-> k]
<1> DEFINE Joins(t) ==
             /\ ApplyAll(g, es) = Start(x) => ApplyAll(g, es \o t) = ApplyAll(x, t)
             /\ ApplyAll(g, es) = [game |-> x, refused |-> k] =>
                  ApplyAll(g, es \o t) = [game |-> x, refused |-> k]
           S == {n \in Nat : \A t \in Seq(E) : Len(t) = n => Joins(t)}
<1>1. 0 \in S
  <2>1. SUFFICES ASSUME NEW t \in Seq(E), Len(t) = 0 PROVE Joins(t)
    OBVIOUS
  <2>2. t = <<>> /\ es \o t = es
    BY <2>1
  <2>3. QED
    BY <2>2, AppliedNone
<1>2. ASSUME NEW n \in S PROVE n + 1 \in S
  <2>1. SUFFICES ASSUME NEW t \in Seq(E), Len(t) = n + 1 PROVE Joins(t)
    OBVIOUS
  <2>2. PICK s \in Seq(E), e \in E : t = Append(s, e) /\ Len(s) = n
    BY <2>1, LastApart
  <2>3. es \o t = Append(es \o s, e) /\ es \o s \in Seq(E)
    BY <2>2
  <2>4. Joins(s)
    BY <2>2
  <2>5. ApplyAll(g, es \o t) = Apply(ApplyAll(g, es \o s), e)
    <3>1. \A u \in Seq(E) : ApplyAll(g, Append(u, e)) = Apply(ApplyAll(g, u), e)
      BY AppliedMore
    <3>2. QED
      BY <2>3, <3>1
  <2>6. ApplyAll(x, t) = Apply(ApplyAll(x, s), e)
    BY <2>2, AppliedMore
  <2>7. QED
    BY <2>4, <2>5, <2>6, RefusedStays
<1>3. S \in SUBSET Nat
  OBVIOUS
<1>4. Len(fs) \in Nat
  OBVIOUS
<1> HIDE DEF S
<1>5. Len(fs) \in S
  BY <1>1, <1>2, <1>3, <1>4, UpFromZero
<1>6. QED
  BY <1>5 DEF S

\* The first event, then the others.
LEMMA AppliedFirst ==
  ASSUME NEW g, NEW E, NEW e \in E, NEW fs \in Seq(E), e.kind \in Kinds
  PROVE  IF Applies(g, e) /\ ValidCampaign(Effect(g, e))
         THEN ApplyAll(g, <<e>> \o fs) = ApplyAll(Effect(g, e), fs)
         ELSE ApplyAll(g, <<e>> \o fs) = [game |-> g, refused |-> e.kind]
<1>1. <<e>> \in Seq(E) /\ <<>> \in Seq(E) /\ <<e>> = Append(<<>>, e)
  OBVIOUS
<1>2. ApplyAll(g, Append(<<>>, e)) = Apply(ApplyAll(g, <<>>), e)
  BY <1>1, AppliedMore, ZenonT(20)
<1>3. ApplyAll(g, <<e>>) = Apply(Start(g), e)
  BY <1>1, <1>2, AppliedNone
<1>4. \A es \in Seq(E) : \A x : \A k \in Kinds :
        /\ ApplyAll(g, es) = Start(x) => ApplyAll(g, es \o fs) = ApplyAll(x, fs)
        /\ ApplyAll(g, es) = [game |-> x, refused |-> k] =>
             ApplyAll(g, es \o fs) = [game |-> x, refused |-> k]
  BY AppliedJoined
<1>5. e.kind \in Kinds /\ <<e>> \in Seq(E)
  BY <1>1
<1>6. CASE Applies(g, e) /\ ValidCampaign(Effect(g, e))
  <2>1. ApplyAll(g, <<e>>) = Start(Effect(g, e))
    BY <1>3, <1>5, <1>6, ApplyIs
  <2>2. QED
    BY <1>4, <1>5, <1>6, <2>1
<1>7. CASE ~(Applies(g, e) /\ ValidCampaign(Effect(g, e)))
  <2>1. ApplyAll(g, <<e>>) = [game |-> g, refused |-> e.kind]
    BY <1>3, <1>5, <1>7, ApplyIs
  <2>2. QED
    BY <1>4, <1>5, <1>7, <2>1
<1>8. QED
  BY <1>6, <1>7

LEMMA AppliedOne ==
  ASSUME NEW g, NEW e, e.kind \in Kinds
  PROVE  IF Applies(g, e) /\ ValidCampaign(Effect(g, e))
         THEN ApplyAll(g, <<e>>) = Start(Effect(g, e))
         ELSE ApplyAll(g, <<e>>) = [game |-> g, refused |-> e.kind]
<1>1. <<e>> \in Seq({e}) /\ <<>> \in Seq({e}) /\ <<e>> = Append(<<>>, e)
  OBVIOUS
<1>2. ApplyAll(g, Append(<<>>, e)) = Apply(ApplyAll(g, <<>>), e)
  BY <1>1, AppliedMore, ZenonT(20)
<1>3. ApplyAll(g, <<e>>) = Apply(Start(g), e)
  BY <1>1, <1>2, AppliedNone
<1>4. QED
  BY <1>3, ApplyIs

-----------------------------------------------------------------------------
(* The inductive invariant *)

\* What a pending check waits for still takes its result, unless it is a
\* ritual that was interrupted.
Awaited(g, c) ==
  CASE c.then.kind = "challenge" -> OpenChallenge(g, c.then.on)
    [] c.then.kind = "social" -> g.social[c.then.on] # None /\ c.then.limit \notin HardLimits
    [] c.then.kind = "ritual" ->
         /\ g.rituals[c.then.on] # None
         /\ g.rituals[c.then.on].status \in {"awaiting_resolution", "interrupted"}
    [] OTHER -> TRUE

\* A challenge or a ritual waits for one check at a time.
Apart(g) ==
  \A c, d \in g.checks :
    c.id = d.id \/ (c.then.kind \in {"challenge", "ritual"} /\ c.then = d.then) => c = d

\* Features are learned at their rank, and gear is that of the content.
Learned(g) ==
  \A h \in Heroes :
    /\ g.ready[h] \subseteq g.catalog.gear[h]
    /\ \A name \in g.features[h] : \E f \in g.catalog.features : f.name = name /\ f.rank <= g.rank[h]

Finite(g) ==
  IsFiniteSet(g.checks) /\ \A n \in Npcs : g.social[n] # None => IsFiniteSet(g.social[n].leverage)

InParty(g) ==
  g.spark \cup g.recovered \subseteq g.heroes /\ \A c \in g.checks : c.roller \in g.heroes

Campaigns ==
  {g \in Games : /\ ValidCampaign(g) /\ InParty(g) /\ Finite(g) /\ Learned(g) /\ Apart(g)
                 /\ \A c \in g.checks : Awaited(g, c)}

IInv == game \in Campaigns /\ AcceptedApplies /\ UndoRestores

\* An event that fits a state.
Fits(g, e) == e.kind \in Kinds /\ Applies(g, e) /\ Effect(g, e) \in Campaigns

-----------------------------------------------------------------------------
(* What each event does to a campaign *)

LEMMA Continues ==
  ASSUME NEW c \in Checks
  PROVE  /\ c.then \in Continuations
         /\ c.then.kind = "challenge" => c.then.on \in Challenges
         /\ c.then.kind = "social" => c.then.on \in Npcs
         /\ c.then.kind = "ritual" => c.then.on \in Rituals
BY DEF Checks, Continuations

\* A social state may become any valid one.
LEMMA SocialKept ==
  ASSUME NEW g \in Campaigns, NEW n \in Npcs, NEW b \in Bonds,
         IsFiniteSet(b.leverage), Cardinality(b.leverage) <= LeverageCapacity
  PROVE  [g EXCEPT !.social[n] = b] \in Campaigns
<1> DEFINE social == [g.social EXCEPT ![n] = b]
           y == [g EXCEPT !.social = social]
<1>1. /\ g \in Games /\ ValidCampaign(g) /\ InParty(g) /\ Finite(g) /\ Learned(g) /\ Apart(g)
      /\ \A c \in g.checks : Awaited(g, c)
  BY DEF Campaigns
<1>2. [g EXCEPT !.social[n] = b] = y /\ y.social = social
  BY <1>1 DEF Games
<1>3. /\ b # None /\ social \in [Npcs -> Bonds \cup {None}]
      /\ \A m \in Npcs : social[m] = IF m = n THEN b ELSE g.social[m]
  BY <1>1, NoneAssumption DEF Games
<1> HIDE DEF social
<1>4. y \in Games
  BY <1>1, <1>3 DEF Games
<1>5. ValidCampaign(y)
  BY <1>1, <1>3 DEF Games, ValidCampaign, ValidHeroes, ValidChallenges, ValidSocial, ValidRituals, SupplyMaximum
<1>6. InParty(y) /\ Learned(y) /\ Apart(y)
  BY <1>1, <1>3 DEF Games, InParty, Learned, Apart
<1>7. Finite(y)
  BY <1>1, <1>3 DEF Games, Finite
<1>8. \A c \in y.checks : Awaited(y, c)
  <2>1. SUFFICES ASSUME NEW c \in g.checks PROVE Awaited(y, c)
    BY <1>1 DEF Games
  <2>2. Awaited(g, c) /\ (c.then.kind = "social" => c.then.on \in Npcs)
    BY <1>1, Continues DEF Games
  <2>3. y.challenges = g.challenges /\ y.rituals = g.rituals /\ y.social = social
    BY <1>1 DEF Games
  <2>4. QED
    BY <1>3, <2>2, <2>3 DEF Awaited, OpenChallenge
<1>9. QED
  BY <1>2, <1>4, <1>5, <1>6, <1>7, <1>8 DEF Campaigns

\* So may the tracks of a challenge, which stays active while a check waits.
LEMMA TracksKept ==
  ASSUME NEW g \in Campaigns, NEW ch \in Challenges, NEW t \in Tracks,
         t.progress <= ProgressMax, t.danger <= DangerMax,
         t.status = TrackStatus(t.progress, t.danger),
         t.status = "active" \/ WaitsFor(g, "challenge", ch) = {}
  PROVE  [g EXCEPT !.challenges[ch] = t] \in Campaigns
<1> DEFINE challenges == [g.challenges EXCEPT ![ch] = t]
           y == [g EXCEPT !.challenges = challenges]
<1>1. /\ g \in Games /\ ValidCampaign(g) /\ InParty(g) /\ Finite(g) /\ Learned(g) /\ Apart(g)
      /\ \A c \in g.checks : Awaited(g, c)
  BY DEF Campaigns
<1>2. [g EXCEPT !.challenges[ch] = t] = y /\ y.challenges = challenges
  BY <1>1 DEF Games
<1>3. /\ t # None /\ challenges \in [Challenges -> Tracks \cup {None}]
      /\ \A m \in Challenges : challenges[m] = IF m = ch THEN t ELSE g.challenges[m]
  BY <1>1, NoneAssumption DEF Games
<1> HIDE DEF challenges
<1>4. y \in Games
  BY <1>1, <1>3 DEF Games
<1>5. ValidCampaign(y)
  BY <1>1, <1>3 DEF Games, ValidCampaign, ValidHeroes, ValidChallenges, ValidSocial, ValidRituals, SupplyMaximum
<1>6. InParty(y) /\ Learned(y) /\ Apart(y) /\ Finite(y)
  BY <1>1, <1>3 DEF Games, InParty, Learned, Apart, Finite
<1>7. \A c \in y.checks : Awaited(y, c)
  <2>1. SUFFICES ASSUME NEW c \in g.checks PROVE Awaited(y, c)
    BY <1>1 DEF Games
  <2>2. Awaited(g, c) /\ (c.then.kind = "challenge" => c.then.on \in Challenges)
    BY <1>1, Continues DEF Games
  <2>3. y.challenges = challenges /\ y.rituals = g.rituals /\ y.social = g.social
    BY <1>1 DEF Games
  <2>4. c.then.kind = "challenge" /\ c.then.on = ch => t.status = "active"
    BY <2>1 DEF WaitsFor
  <2>5. QED
    BY <1>3, <2>2, <2>3, <2>4 DEF Awaited, OpenChallenge
<1>8. QED
  BY <1>2, <1>4, <1>5, <1>6, <1>7 DEF Campaigns

\* And a ritual, which awaits its resolution while a check waits.
LEMMA RiteKept ==
  ASSUME NEW g \in Campaigns, NEW r \in Rituals, NEW t \in Rites, t.paid <= Len(Costs),
         t.status \in {"ready", "awaiting_resolution", "completed"} => t.paid = Len(Costs),
         t.status \in {"awaiting_resolution", "interrupted"} \/ WaitsFor(g, "ritual", r) = {}
  PROVE  [g EXCEPT !.rituals[r] = t] \in Campaigns
<1> DEFINE rituals == [g.rituals EXCEPT ![r] = t]
           y == [g EXCEPT !.rituals = rituals]
<1>1. /\ g \in Games /\ ValidCampaign(g) /\ InParty(g) /\ Finite(g) /\ Learned(g) /\ Apart(g)
      /\ \A c \in g.checks : Awaited(g, c)
  BY DEF Campaigns
<1>2. [g EXCEPT !.rituals[r] = t] = y /\ y.rituals = rituals
  BY <1>1 DEF Games
<1>3. /\ t # None /\ rituals \in [Rituals -> Rites \cup {None}]
      /\ \A m \in Rituals : rituals[m] = IF m = r THEN t ELSE g.rituals[m]
  BY <1>1, NoneAssumption DEF Games
<1> HIDE DEF rituals
<1>4. y \in Games
  BY <1>1, <1>3 DEF Games
<1>5. ValidCampaign(y)
  BY <1>1, <1>3 DEF Games, ValidCampaign, ValidHeroes, ValidChallenges, ValidSocial, ValidRituals, SupplyMaximum
<1>6. InParty(y) /\ Learned(y) /\ Apart(y) /\ Finite(y)
  BY <1>1, <1>3 DEF Games, InParty, Learned, Apart, Finite
<1>7. \A c \in y.checks : Awaited(y, c)
  <2>1. SUFFICES ASSUME NEW c \in g.checks PROVE Awaited(y, c)
    BY <1>1 DEF Games
  <2>2. Awaited(g, c) /\ (c.then.kind = "ritual" => c.then.on \in Rituals)
    BY <1>1, Continues DEF Games
  <2>3. y.challenges = g.challenges /\ y.rituals = rituals /\ y.social = g.social
    BY <1>1 DEF Games
  <2>4. c.then.kind = "ritual" /\ c.then.on = r => t.status \in {"awaiting_resolution", "interrupted"}
    BY <2>1 DEF WaitsFor
  <2>5. QED
    BY <1>3, <2>2, <2>3, <2>4 DEF Awaited, OpenChallenge
<1>8. QED
  BY <1>2, <1>4, <1>5, <1>6, <1>7 DEF Campaigns

\* Pending checks may be removed, and added while they wait for nothing.
LEMMA ChecksKept ==
  ASSUME NEW g \in Campaigns, NEW S \in SUBSET Checks, IsFiniteSet(S), Cardinality(S) <= CheckLimit,
         \A c \in S : c.roller \in g.heroes,
         \A c, d \in S :
           c.id = d.id \/ (c.then.kind \in {"challenge", "ritual"} /\ c.then = d.then) => c = d,
         \A c \in S : Awaited(g, c)
  PROVE  [g EXCEPT !.checks = S] \in Campaigns
<1> DEFINE y == [g EXCEPT !.checks = S]
<1>1. /\ g \in Games /\ ValidCampaign(g) /\ InParty(g) /\ Finite(g) /\ Learned(g) /\ Apart(g)
  BY DEF Campaigns
<1>2. y \in Games /\ y.checks = S
  BY <1>1 DEF Games
<1>3. /\ y.challenges = g.challenges /\ y.social = g.social /\ y.rituals = g.rituals
      /\ y.heroes = g.heroes /\ y.supply = g.supply /\ y.stock = g.stock /\ y.spark = g.spark
      /\ y.recovered = g.recovered /\ y.features = g.features /\ y.ready = g.ready
      /\ y.rank = g.rank /\ y.catalog = g.catalog
  BY <1>1 DEF Games
<1> HIDE DEF y
<1>4. ValidCampaign(y)
  BY <1>1, <1>2, <1>3 DEF ValidCampaign, ValidHeroes, ValidChallenges, ValidSocial, ValidRituals, SupplyMaximum
<1>5. InParty(y) /\ Learned(y) /\ Apart(y) /\ Finite(y)
  BY <1>1, <1>2, <1>3 DEF InParty, Learned, Apart, Finite
<1>6. \A c \in y.checks : Awaited(y, c)
  BY <1>2, <1>3 DEF Awaited, OpenChallenge
<1>7. QED
  BY <1>2, <1>4, <1>5, <1>6 DEF Campaigns, y

\* What a change of the party has to keep.
LEMMA PartyKept ==
  ASSUME NEW g \in Campaigns, NEW y \in Games,
         y.catalog = g.catalog, y.checks = g.checks, y.challenges = g.challenges,
         y.social = g.social, y.rituals = g.rituals,
         g.heroes \subseteq y.heroes, y.spark \cup y.recovered \subseteq y.heroes,
         y.supply \in 0 .. SupplyMaximum(y), ValidHeroes(y), Learned(y)
  PROVE  y \in Campaigns
<1>1. /\ g \in Games /\ ValidCampaign(g) /\ InParty(g) /\ Finite(g) /\ Apart(g)
      /\ \A c \in g.checks : Awaited(g, c)
  BY DEF Campaigns
<1>2. ValidCampaign(y)
  BY <1>1 DEF ValidCampaign, ValidChallenges, ValidSocial, ValidRituals
<1>3. InParty(y) /\ Apart(y) /\ Finite(y)
  BY <1>1 DEF InParty, Apart, Finite
<1>4. \A c \in y.checks : Awaited(y, c)
  BY <1>1 DEF Awaited, OpenChallenge
<1>5. QED
  BY <1>2, <1>3, <1>4 DEF Campaigns

\* The shape of a campaign, and what the catalog says of its heroes.
LEMMA Shape ==
  ASSUME NEW g \in Campaigns
  PROVE  /\ g \in Games /\ g.catalog \in Catalogs /\ g.session \in 0 .. MaxSession
         /\ g.scene \in Scenes \cup {None} /\ g.heroes \in SUBSET Heroes /\ IsFiniteSet(g.heroes)
         /\ Cardinality(g.heroes) \in Nat /\ g.supply \in 0 .. SupplyMaximum(g)
         /\ g.stock \in [Heroes -> [Resources -> Int]] /\ g.spark \subseteq g.heroes
         /\ g.recovered \subseteq g.heroes /\ g.rank \in [Heroes -> 1 .. 4]
         /\ g.features \in [Heroes -> SUBSET Names] /\ g.ready \in [Heroes -> SUBSET Gear]
         /\ g.spent \in [Heroes -> SUBSET Gear] /\ ValidHeroes(g) /\ Learned(g)
         /\ g.checks \in SUBSET Checks /\ IsFiniteSet(g.checks) /\ Cardinality(g.checks) <= CheckLimit
         /\ g.challenges \in [Challenges -> Tracks \cup {None}]
         /\ g.social \in [Npcs -> Bonds \cup {None}] /\ g.rituals \in [Rituals -> Rites \cup {None}]
<1>1. g \in Games /\ ValidCampaign(g) /\ InParty(g) /\ Finite(g) /\ Learned(g)
  BY DEF Campaigns
<1>2. g.heroes \in SUBSET Heroes
  BY <1>1 DEF Games
<1>3. IsFiniteSet(g.heroes) /\ Cardinality(g.heroes) \in Nat
  BY <1>2, HeroesAssumption, FS_Subset, FS_CardinalityType
<1>4. QED
  BY <1>1, <1>2, <1>3 DEF Games, ValidCampaign, InParty, Finite

LEMMA MaterializedFits ==
  ASSUME NEW g \in Campaigns, NEW h \in Heroes \ g.heroes
  PROVE  Fits(g, [kind |-> "character_materialized", hero |-> h, gear |-> g.catalog.gear[h]])
<1> DEFINE e == [kind |-> "character_materialized", hero |-> h, gear |-> g.catalog.gear[h]]
           y == [g EXCEPT !.heroes = @ \cup {h}, !.spark = @ \cup {h}, !.stock[h] = Full,
                          !.ready[h] = g.catalog.gear[h]]
<1>1. e.kind \in Kinds /\ Applies(g, e) /\ Effect(g, e) = y
  BY DEF Kinds, Effect, SocialEffect, ChallengeEffect, CheckEffect, PartyEffect,
         Applies, SocialApplies, ChallengeApplies, CheckApplies, PartyApplies
<1>2. g.catalog.gear[h] \in SUBSET Gear
  <2>1. h \in Heroes /\ g.catalog \in Catalogs
    BY Shape
  <2>2. QED
    BY <2>1 DEF Gear
<1>3. Full \in [Resources -> Int] /\ \A r \in Resources : Full[r] \in 0 .. Maximum(r)
  BY BoundsAssumption DEF Full, Resources, Maximum
<1>4. /\ y \in Games /\ y.heroes = g.heroes \cup {h} /\ y.spark = g.spark \cup {h}
      /\ y.recovered = g.recovered /\ y.supply = g.supply /\ y.catalog = g.catalog
      /\ y.checks = g.checks /\ y.challenges = g.challenges /\ y.social = g.social
      /\ y.rituals = g.rituals /\ y.features = g.features /\ y.rank = g.rank
      /\ y.stock = [g.stock EXCEPT ![h] = Full]
      /\ y.ready = [g.ready EXCEPT ![h] = g.catalog.gear[h]]
  <2>1. g \in Games /\ h \in Heroes
    BY Shape
  <2>2. /\ y.heroes = g.heroes \cup {h} /\ y.spark = g.spark \cup {h}
        /\ y.stock = [g.stock EXCEPT ![h] = Full]
        /\ y.ready = [g.ready EXCEPT ![h] = g.catalog.gear[h]]
    BY <2>1 DEF Games
  <2>3. /\ y.recovered = g.recovered /\ y.supply = g.supply /\ y.catalog = g.catalog
        /\ y.checks = g.checks /\ y.challenges = g.challenges /\ y.social = g.social
        /\ y.rituals = g.rituals /\ y.features = g.features /\ y.rank = g.rank
    BY <2>1 DEF Games
  <2>4. /\ g.heroes \cup {h} \in SUBSET Heroes /\ g.spark \cup {h} \in SUBSET Heroes
        /\ [g.stock EXCEPT ![h] = Full] \in [Heroes -> [Resources -> Int]]
        /\ [g.ready EXCEPT ![h] = g.catalog.gear[h]] \in [Heroes -> SUBSET Gear]
    BY <1>2, <1>3, <2>1, Shape
  <2>5. y \in Games
    BY <2>1, <2>4 DEF Games
  <2>6. QED
    BY <2>2, <2>3, <2>5
<1> HIDE DEF y
<1>5. y.spark \cup y.recovered \subseteq y.heroes
  BY <1>4, Shape
<1>6. y.supply \in 0 .. SupplyMaximum(y)
  <2>1. Cardinality(g.heroes \cup {h}) = Cardinality(g.heroes) + 1
    BY Shape, FS_AddElement
  <2>2. QED
    BY <1>4, <2>1, Shape DEF SupplyMaximum
<1>7. ValidHeroes(y)
  BY <1>3, <1>4, Shape DEF ValidHeroes
<1>8. Learned(y)
  BY <1>4, Shape DEF Learned
<1>9. y \in Campaigns
  BY <1>4, <1>5, <1>6, <1>7, <1>8, PartyKept
<1>10. QED
  BY <1>1, <1>9 DEF Fits

\* Supply and the stock of a hero, in their bounds.
LEMMA SupplyFits ==
  ASSUME NEW g \in Campaigns, NEW n \in 0 .. SupplyMaximum(g)
  PROVE  /\ Fits(g, Changed(None, "supply", g.supply, n))
         /\ Effect(g, Changed(None, "supply", g.supply, n)) = [g EXCEPT !.supply = n]
<1> DEFINE e == Changed(None, "supply", g.supply, n)
           y == [g EXCEPT !.supply = n]
<1>1. e.kind \in Kinds /\ Applies(g, e) /\ Effect(g, e) = y
  BY DEF Changed, Stock, Kinds, Effect, SocialEffect, ChallengeEffect, CheckEffect, PartyEffect,
         Applies, SocialApplies, ChallengeApplies, CheckApplies, PartyApplies
<1>2. /\ y \in Games /\ y.heroes = g.heroes /\ y.spark = g.spark
      /\ y.recovered = g.recovered /\ y.supply = n /\ y.catalog = g.catalog
      /\ y.checks = g.checks /\ y.challenges = g.challenges /\ y.social = g.social
      /\ y.rituals = g.rituals /\ y.features = g.features /\ y.rank = g.rank
      /\ y.stock = g.stock /\ y.ready = g.ready
  <2>1. n \in Int
    BY Shape DEF SupplyMaximum
  <2>2. QED
    BY <2>1, Shape DEF Games
<1> HIDE DEF y
<1>3. y.supply \in 0 .. SupplyMaximum(y)
  BY <1>2 DEF SupplyMaximum
<1>4. ValidHeroes(y) /\ Learned(y) /\ y.spark \cup y.recovered \subseteq y.heroes
  BY <1>2, Shape DEF ValidHeroes, Learned
<1>5. y \in Campaigns
  BY <1>2, <1>3, <1>4, PartyKept
<1>6. QED
  BY <1>1, <1>5 DEF Fits, y

LEMMA StockFits ==
  ASSUME NEW g \in Campaigns, NEW h \in g.heroes, NEW r \in Resources, NEW n \in 0 .. Maximum(r)
  PROVE  /\ Fits(g, Changed(h, r, g.stock[h][r], n))
         /\ Effect(g, Changed(h, r, g.stock[h][r], n)) = [g EXCEPT !.stock[h][r] = n]
<1> DEFINE e == Changed(h, r, g.stock[h][r], n)
           y == [g EXCEPT !.stock[h][r] = n]
<1>1. e.kind \in Kinds /\ Applies(g, e) /\ Effect(g, e) = y
  <2>1. h # None
    BY HeroesAssumption, Shape
  <2>2. QED
    BY <2>1 DEF Changed, Stock, Kinds, Effect, SocialEffect, ChallengeEffect, CheckEffect, PartyEffect,
         Applies, SocialApplies, ChallengeApplies, CheckApplies, PartyApplies
<1>2. h \in Heroes /\ n \in Int
  BY Shape, BoundsAssumption DEF Maximum
<1>3. /\ y \in Games /\ y.heroes = g.heroes /\ y.spark = g.spark
      /\ y.recovered = g.recovered /\ y.supply = g.supply /\ y.catalog = g.catalog
      /\ y.checks = g.checks /\ y.challenges = g.challenges /\ y.social = g.social
      /\ y.rituals = g.rituals /\ y.features = g.features /\ y.rank = g.rank
      /\ y.stock = [g.stock EXCEPT ![h][r] = n] /\ y.ready = g.ready
  BY <1>2, Shape DEF Games
<1> HIDE DEF y
<1>4. y.supply \in 0 .. SupplyMaximum(y)
  BY <1>3, Shape DEF SupplyMaximum
<1>5. Learned(y) /\ y.spark \cup y.recovered \subseteq y.heroes
  BY <1>3, Shape DEF Learned
<1>6. ValidHeroes(y)
  BY <1>2, <1>3, Shape DEF ValidHeroes
<1>7. y \in Campaigns
  BY <1>3, <1>4, <1>5, <1>6, PartyKept
<1>8. QED
  BY <1>1, <1>7 DEF Fits, y

LEMMA FullIs == Full \in [Resources -> Int] /\ \A r \in Resources : Full[r] \in 0 .. Maximum(r)
BY BoundsAssumption DEF Full, Resources, Maximum

\* A piece of gear is paid for the next cost of a ritual.
LEMMA GearSpentFits ==
  ASSUME NEW g \in Campaigns, NEW h \in g.heroes, NEW r \in Rituals, NEW gear \in g.ready[h],
         g.rituals[r] # None, g.rituals[r].status = "preparing", g.rituals[r].paid < Len(Costs),
         Costs[g.rituals[r].paid + 1] = [kind |-> "significant_gear", gear |-> gear]
  PROVE  LET e == [kind |-> "significant_gear_spent", hero |-> h, gear |-> gear, ritual |-> r]
         IN /\ Fits(g, e) /\ Effect(g, e).rituals = g.rituals /\ Effect(g, e).heroes = g.heroes
<1> DEFINE e == [kind |-> "significant_gear_spent", hero |-> h, gear |-> gear, ritual |-> r]
           y == [g EXCEPT !.ready[h] = @ \ {gear}, !.spent[h] = @ \cup {gear}]
<1>1. e.kind \in Kinds /\ Applies(g, e) /\ Effect(g, e) = y
  BY DEF Kinds, Effect, SocialEffect, ChallengeEffect, CheckEffect, PartyEffect,
         Applies, SocialApplies, ChallengeApplies, CheckApplies, PartyApplies
<1>2. h \in Heroes /\ gear \in Gear /\ g \in Games
  BY Shape
<1>3. /\ y.ready = [g.ready EXCEPT ![h] = g.ready[h] \ {gear}]
      /\ y.spent = [g.spent EXCEPT ![h] = g.spent[h] \cup {gear}]
      /\ y.heroes = g.heroes /\ y.spark = g.spark
      /\ y.recovered = g.recovered /\ y.supply = g.supply /\ y.catalog = g.catalog
      /\ y.checks = g.checks /\ y.challenges = g.challenges /\ y.social = g.social
      /\ y.rituals = g.rituals /\ y.features = g.features /\ y.rank = g.rank /\ y.stock = g.stock
  BY <1>2 DEF Games
<1>4. y \in Games
  <2>1. /\ [g.ready EXCEPT ![h] = g.ready[h] \ {gear}] \in [Heroes -> SUBSET Gear]
        /\ [g.spent EXCEPT ![h] = g.spent[h] \cup {gear}] \in [Heroes -> SUBSET Gear]
    BY <1>2, Shape
  <2>2. QED
    BY <1>2, <2>1 DEF Games
<1> HIDE DEF y
<1>5. y.supply \in 0 .. SupplyMaximum(y) /\ y.spark \cup y.recovered \subseteq y.heroes /\ ValidHeroes(y)
  BY <1>3, Shape DEF SupplyMaximum, ValidHeroes
<1>6. Learned(y)
  BY <1>2, <1>3, Shape DEF Learned
<1>7. y \in Campaigns
  BY <1>3, <1>4, <1>5, <1>6, PartyKept
<1>8. QED
  BY <1>1, <1>3, <1>7 DEF Fits

LEMMA SparkRecoveredFits ==
  ASSUME NEW g \in Campaigns, NEW h \in g.heroes, MayRecoverSpark(g, h)
  PROVE  Fits(g, [kind |-> "spark_recovered", hero |-> h])
<1> DEFINE e == [kind |-> "spark_recovered", hero |-> h]
           y == [g EXCEPT !.spark = @ \cup {h}, !.recovered = @ \cup {h}]
<1>1. e.kind \in Kinds /\ Applies(g, e) /\ Effect(g, e) = y
  BY DEF MayRecoverSpark, Kinds, Effect, SocialEffect, ChallengeEffect, CheckEffect, PartyEffect,
         Applies, SocialApplies, ChallengeApplies, CheckApplies, PartyApplies
<1>2. /\ y \in Games /\ y.spark = g.spark \cup {h} /\ y.recovered = g.recovered \cup {h}
      /\ y.heroes = g.heroes /\ y.supply = g.supply /\ y.catalog = g.catalog
      /\ y.checks = g.checks /\ y.challenges = g.challenges /\ y.social = g.social
      /\ y.rituals = g.rituals /\ y.features = g.features /\ y.rank = g.rank /\ y.stock = g.stock
      /\ y.ready = g.ready
  <2>1. g \in Games /\ g.spark \cup {h} \in SUBSET Heroes /\ g.recovered \cup {h} \in SUBSET Heroes
    BY Shape
  <2>2. QED
    BY <2>1 DEF Games
<1> HIDE DEF y
<1>3. y.supply \in 0 .. SupplyMaximum(y) /\ y.spark \cup y.recovered \subseteq y.heroes
  BY <1>2, Shape DEF SupplyMaximum
<1>4. ValidHeroes(y) /\ Learned(y)
  BY <1>2, Shape DEF ValidHeroes, Learned
<1>5. y \in Campaigns
  BY <1>2, <1>3, <1>4, PartyKept
<1>6. QED
  BY <1>1, <1>5 DEF Fits

LEMMA SparkSpentFits ==
  ASSUME NEW g \in Campaigns, NEW h \in g.spark
  PROVE  /\ Fits(g, [kind |-> "spark_spent", hero |-> h])
         /\ Effect(g, [kind |-> "spark_spent", hero |-> h]) = [g EXCEPT !.spark = @ \ {h}]
<1> DEFINE e == [kind |-> "spark_spent", hero |-> h]
           y == [g EXCEPT !.spark = @ \ {h}]
<1>1. e.kind \in Kinds /\ Applies(g, e) /\ Effect(g, e) = y
  BY DEF Kinds, Effect, SocialEffect, ChallengeEffect, CheckEffect,
         Applies, SocialApplies, ChallengeApplies, CheckApplies
<1>2. /\ y \in Games /\ y.spark = g.spark \ {h} /\ y.recovered = g.recovered
      /\ y.heroes = g.heroes /\ y.supply = g.supply /\ y.catalog = g.catalog
      /\ y.checks = g.checks /\ y.challenges = g.challenges /\ y.social = g.social
      /\ y.rituals = g.rituals /\ y.features = g.features /\ y.rank = g.rank /\ y.stock = g.stock
      /\ y.ready = g.ready
  BY Shape DEF Games
<1> HIDE DEF y
<1>3. y.supply \in 0 .. SupplyMaximum(y) /\ y.spark \cup y.recovered \subseteq y.heroes
  BY <1>2, Shape DEF SupplyMaximum
<1>4. ValidHeroes(y) /\ Learned(y)
  BY <1>2, Shape DEF ValidHeroes, Learned
<1>5. y \in Campaigns
  BY <1>2, <1>3, <1>4, PartyKept
<1>6. QED
  BY <1>1, <1>5 DEF Fits, y

\* The stock of some heroes filled up.
LEMMA ResetIs ==
  ASSUME NEW g \in Campaigns, NEW hs \in SUBSET g.heroes
  PROVE  LET y == ResetHeroes(g, hs)
             stock == [h \in Heroes |-> IF h \in hs THEN Full ELSE g.stock[h]]
         IN /\ y = [g EXCEPT !.stock = stock] /\ stock \in [Heroes -> [Resources -> Int]]
            /\ \A h \in g.heroes, r \in Resources : stock[h][r] \in 0 .. Maximum(r)
<1> DEFINE stock == [h \in Heroes |-> IF h \in hs THEN Full ELSE g.stock[h]]
<1>1. stock \in [Heroes -> [Resources -> Int]]
  BY FullIs, Shape
<1>2. \A h \in g.heroes, r \in Resources : stock[h][r] \in 0 .. Maximum(r)
  BY FullIs, Shape DEF ValidHeroes
<1>3. ResetHeroes(g, hs) = [g EXCEPT !.stock = stock]
  BY DEF ResetHeroes
<1>4. QED
  BY <1>1, <1>2, <1>3

LEMMA RestFits ==
  ASSUME NEW g \in Campaigns, NEW hs \in SUBSET g.heroes, g.supply >= 1
  PROVE  Fits(g, [kind |-> "costly_rest_completed", heroes |-> hs])
<1> DEFINE e == [kind |-> "costly_rest_completed", heroes |-> hs]
           stock == [h \in Heroes |-> IF h \in hs THEN Full ELSE g.stock[h]]
           y == [g EXCEPT !.stock = stock, !.supply = @ - 1]
<1>1. /\ ResetHeroes(g, hs) = [g EXCEPT !.stock = stock] /\ stock \in [Heroes -> [Resources -> Int]]
      /\ \A h \in g.heroes, r \in Resources : stock[h][r] \in 0 .. Maximum(r)
  BY ResetIs
<1> HIDE DEF stock
<1>2. e.kind \in Kinds /\ Applies(g, e) /\ Effect(g, e) = [ResetHeroes(g, hs) EXCEPT !.supply = @ - 1]
  BY DEF Kinds, Effect, SocialEffect, ChallengeEffect, CheckEffect, PartyEffect,
         Applies, SocialApplies, ChallengeApplies, CheckApplies, PartyApplies
<1>3. Effect(g, e) = y
  BY <1>1, <1>2, Shape DEF Games
<1>4. /\ y.spark = g.spark /\ y.recovered = g.recovered
      /\ y.heroes = g.heroes /\ y.supply = g.supply - 1 /\ y.catalog = g.catalog
      /\ y.checks = g.checks /\ y.challenges = g.challenges /\ y.social = g.social
      /\ y.rituals = g.rituals /\ y.features = g.features /\ y.rank = g.rank /\ y.stock = stock
      /\ y.ready = g.ready
  BY Shape DEF Games
<1>5. y \in Games
  <2>1. g.supply - 1 \in Int
    BY Shape DEF SupplyMaximum
  <2>2. QED
    BY <1>1, <2>1, Shape DEF Games
<1> HIDE DEF y
<1>6. y.supply \in 0 .. SupplyMaximum(y)
  BY <1>4, Shape DEF SupplyMaximum
<1>7. y.spark \cup y.recovered \subseteq y.heroes /\ ValidHeroes(y) /\ Learned(y)
  BY <1>1, <1>4, Shape DEF ValidHeroes, Learned
<1>8. y \in Campaigns
  BY <1>4, <1>5, <1>6, <1>7, PartyKept
<1>9. QED
  BY <1>2, <1>3, <1>8 DEF Fits

LEMMA SceneFits ==
  ASSUME NEW g \in Campaigns, NEW to \in Scenes, NEW boundary,
         boundary = "session_start" => g.session < MaxSession
  PROVE  Fits(g, [kind |-> "scene_resources_reset", from |-> g.scene, to |-> to,
                  boundary |-> boundary, heroes |-> g.heroes])
<1> DEFINE e == [kind |-> "scene_resources_reset", from |-> g.scene, to |-> to,
                 boundary |-> boundary, heroes |-> g.heroes]
           stock == [h \in Heroes |-> IF h \in g.heroes THEN Full ELSE g.stock[h]]
           rested == [g EXCEPT !.stock = stock, !.scene = to]
           y == IF boundary # "session_start" THEN rested
                ELSE [rested EXCEPT !.spark = g.heroes, !.recovered = g.recovered \ g.heroes, !.session = g.session + 1]
<1>1. /\ ResetHeroes(g, g.heroes) = [g EXCEPT !.stock = stock] /\ stock \in [Heroes -> [Resources -> Int]]
      /\ \A h \in g.heroes, r \in Resources : stock[h][r] \in 0 .. Maximum(r)
  BY ResetIs
<1> HIDE DEF stock
<1>2. e.kind \in Kinds /\ Applies(g, e) /\ Effect(g, e) = SceneReset(g, e)
  BY DEF Kinds, Effect, SocialEffect, ChallengeEffect, CheckEffect, PartyEffect,
         Applies, SocialApplies, ChallengeApplies, CheckApplies, PartyApplies
<1>3. Effect(g, e) = y
  <2>1. [ResetHeroes(g, g.heroes) EXCEPT !.scene = to] = rested
    BY <1>1, Shape DEF Games
  <2>2. rested.recovered = g.recovered /\ rested.session = g.session
    BY Shape DEF Games
  <2>3. QED
    BY <1>2, <2>1, <2>2, Shape DEF SceneReset, Games
<1>4. y \in Games
  <2>1. rested \in Games
    BY <1>1, Shape DEF Games
  <2>2. boundary = "session_start" => g.session + 1 \in 0 .. MaxSession
    BY Shape, DiceAssumption
  <2>3. g.heroes \in SUBSET Heroes /\ g.recovered \ g.heroes \in SUBSET Heroes
    BY Shape
  <2> HIDE DEF rested
  <2>4. QED
    BY <2>1, <2>2, <2>3 DEF Games
<1>5. /\ y.spark \cup y.recovered \subseteq g.heroes
      /\ y.heroes = g.heroes /\ y.supply = g.supply /\ y.catalog = g.catalog
      /\ y.checks = g.checks /\ y.challenges = g.challenges /\ y.social = g.social
      /\ y.rituals = g.rituals /\ y.features = g.features /\ y.rank = g.rank /\ y.stock = stock
      /\ y.ready = g.ready
  BY Shape DEF Games
<1> HIDE DEF y
<1>6. y.supply \in 0 .. SupplyMaximum(y)
  BY <1>5, Shape DEF SupplyMaximum
<1>7. ValidHeroes(y) /\ Learned(y)
  BY <1>1, <1>5, Shape DEF ValidHeroes, Learned
<1>8. y \in Campaigns
  BY <1>4, <1>5, <1>6, <1>7, PartyKept
<1>9. QED
  BY <1>2, <1>3, <1>8 DEF Fits

LEMMA RankFits ==
  ASSUME NEW g \in Campaigns, NEW h \in g.heroes, NEW f \in g.catalog.features, f.rank = g.rank[h] + 1
  PROVE  Fits(g, [kind |-> "rank_advanced", hero |-> h, rank |-> f.rank, feature |-> f.name])
<1> DEFINE e == [kind |-> "rank_advanced", hero |-> h, rank |-> f.rank, feature |-> f.name]
           y == [g EXCEPT !.rank[h] = f.rank, !.features[h] = @ \cup {f.name}]
<1>1. /\ h \in Heroes /\ f.name \in Names /\ f.rank \in 1 .. 4
      /\ g.rank[h] = f.rank - 1 /\ g.rank[h] < f.rank
  <2>1. g.catalog \in Catalogs /\ h \in Heroes /\ g.rank[h] \in 1 .. 4
    BY Shape
  <2>2. f.rank \in 2 .. 4
    BY <2>1, CatalogAssumption
  <2>3. QED
    BY <2>1, <2>2 DEF Names
<1>2. e.kind \in Kinds /\ Applies(g, e) /\ Effect(g, e) = y
  BY <1>1 DEF Kinds, Effect, SocialEffect, ChallengeEffect, CheckEffect, PartyEffect,
         Applies, SocialApplies, ChallengeApplies, CheckApplies, PartyApplies
<1>3. /\ y.rank = [g.rank EXCEPT ![h] = f.rank]
      /\ y.features = [g.features EXCEPT ![h] = g.features[h] \cup {f.name}]
      /\ y.spark = g.spark /\ y.recovered = g.recovered
      /\ y.heroes = g.heroes /\ y.supply = g.supply /\ y.catalog = g.catalog
      /\ y.checks = g.checks /\ y.challenges = g.challenges /\ y.social = g.social
      /\ y.rituals = g.rituals /\ y.stock = g.stock /\ y.ready = g.ready
  BY <1>1, Shape DEF Games
<1>4. y \in Games
  <2>1. /\ [g.rank EXCEPT ![h] = f.rank] \in [Heroes -> 1 .. 4]
        /\ [g.features EXCEPT ![h] = g.features[h] \cup {f.name}] \in [Heroes -> SUBSET Names]
    BY <1>1, Shape
  <2>2. /\ g \in Games
        /\ y = [g EXCEPT !.rank = [g.rank EXCEPT ![h] = f.rank],
                         !.features = [g.features EXCEPT ![h] = g.features[h] \cup {f.name}]]
    BY Shape DEF Games
  <2> HIDE DEF y
  <2>3. QED
    BY <2>1, <2>2 DEF Games
<1> HIDE DEF y
<1>5. y.supply \in 0 .. SupplyMaximum(y) /\ y.spark \cup y.recovered \subseteq y.heroes /\ ValidHeroes(y)
  BY <1>3, Shape DEF SupplyMaximum, ValidHeroes
<1>6. Learned(y)
  <2>1. SUFFICES ASSUME NEW k \in Heroes, NEW name \in y.features[k]
                 PROVE  \E d \in g.catalog.features : d.name = name /\ d.rank <= y.rank[k]
    BY <1>3, Shape DEF Learned
  <2>2. CASE name \in g.features[k]
    <3>1. PICK d \in g.catalog.features : d.name = name /\ d.rank <= g.rank[k]
      BY <2>2, Shape DEF Learned
    <3>2. d.rank \in Int /\ g.rank[k] \in Int /\ g.rank[k] <= y.rank[k] /\ y.rank[k] \in Int
      <4>1. g.catalog \in Catalogs /\ g.rank \in [Heroes -> 1 .. 4]
        BY Shape
      <4>2. d.rank \in 2 .. 4
        BY <4>1, CatalogAssumption
      <4>3. y.rank[k] = IF k = h THEN f.rank ELSE g.rank[k]
        BY <1>3, <4>1
      <4>4. QED
        BY <1>1, <4>1, <4>2, <4>3
    <3>3. QED
      BY <3>1, <3>2
  <2>3. CASE k = h /\ name = f.name
    <3>1. y.rank[k] = f.rank
      BY <1>1, <1>3, <2>3, Shape
    <3>2. f.rank <= y.rank[k]
      <4>1. \A i \in 1 .. 4 : i <= i
        OBVIOUS
      <4>2. f.rank <= f.rank
        BY <1>1, <4>1, Zenon
      <4>3. QED
        BY <3>1, <4>2, Zenon
    <3>3. QED
      BY <2>3, <3>2
  <2>4. QED
    BY <1>1, <1>3, <2>2, <2>3, Shape
<1>7. y \in Campaigns
  BY <1>3, <1>4, <1>5, <1>6, PartyKept
<1>8. QED
  BY <1>2, <1>7 DEF Fits

LEMMA EstablishedFits ==
  ASSUME NEW g \in Campaigns, NEW n \in Npcs, g.social[n] = None, NEW stance \in Stances
  PROVE  Fits(g, [kind |-> "social_state_established", on |-> n, stance |-> stance])
<1> DEFINE e == [kind |-> "social_state_established", on |-> n, stance |-> stance]
           b == [stance |-> stance, leverage |-> {}]
<1>1. e.kind \in Kinds /\ Applies(g, e) /\ Effect(g, e) = [g EXCEPT !.social[n] = b]
  BY DEF Kinds, Effect, SocialEffect, Applies, SocialApplies
<1>2. b \in Bonds /\ b.leverage = {}
  BY DEF Bonds
<1>3. IsFiniteSet(b.leverage) /\ Cardinality(b.leverage) <= LeverageCapacity
  BY <1>2, FS_EmptySet, BoundsAssumption
<1> HIDE DEF b
<1>4. [g EXCEPT !.social[n] = b] \in Campaigns
  BY <1>2, <1>3, SocialKept
<1>5. QED
  BY <1>1, <1>4 DEF Fits

LEMMA BondOf ==
  ASSUME NEW g \in Campaigns, NEW n \in Npcs, g.social[n] # None
  PROVE  /\ g \in Games /\ g.social[n] \in Bonds /\ IsFiniteSet(g.social[n].leverage)
         /\ Cardinality(g.social[n].leverage) \in Nat
         /\ Cardinality(g.social[n].leverage) <= LeverageCapacity
<1>1. g.social[n] \in Bonds /\ g \in Games
  BY Shape
<1>2. /\ IsFiniteSet(g.social[n].leverage)
      /\ Cardinality(g.social[n].leverage) <= LeverageCapacity
  BY DEF Campaigns, Finite, ValidCampaign, ValidSocial
<1>3. QED
  BY <1>1, <1>2, FS_CardinalityType

\* The stance moves by what the degree allows.
Steps(degree) == IF degree = Triumph THEN 2 ELSE IF degree = Success THEN 1 ELSE 0

LEMMA StanceFits ==
  ASSUME NEW g \in Campaigns, NEW n \in Npcs, g.social[n] # None, NEW to \in Stances, NEW degree \in Degrees,
         (IF to > g.social[n].stance THEN to - g.social[n].stance ELSE g.social[n].stance - to)
           \in 1 .. Steps(degree)
  PROVE  LET e == [kind |-> "social_stance_changed", on |-> n, previous |-> g.social[n].stance,
                   current |-> to, degree |-> degree]
         IN  Fits(g, e) /\ Effect(g, e) = [g EXCEPT !.social[n].stance = to]
<1> DEFINE e == [kind |-> "social_stance_changed", on |-> n, previous |-> g.social[n].stance,
                 current |-> to, degree |-> degree]
           b == [g.social[n] EXCEPT !.stance = to]
<1>1. e.kind \in Kinds /\ Applies(g, e) /\ Effect(g, e) = [g EXCEPT !.social[n].stance = to]
  BY DEF Kinds, Effect, SocialEffect, Applies, SocialApplies, Steps
<1>2. [g EXCEPT !.social[n].stance = to] = [g EXCEPT !.social[n] = b]
  BY BondOf DEF Games
<1>3. b \in Bonds /\ b.leverage = g.social[n].leverage
  BY BondOf DEF Bonds
<1>4. IsFiniteSet(b.leverage) /\ Cardinality(b.leverage) <= LeverageCapacity
  BY <1>3, BondOf
<1> HIDE DEF b
<1>5. [g EXCEPT !.social[n] = b] \in Campaigns
  BY <1>3, <1>4, SocialKept
<1>6. QED
  BY <1>1, <1>2, <1>5 DEF Fits

LEMMA LeverageCreatedFits ==
  ASSUME NEW g \in Campaigns, NEW n \in Npcs, NEW l \in Leverage,
         g.social[n] # None, l \notin g.social[n].leverage,
         Cardinality(g.social[n].leverage) < LeverageCapacity
  PROVE  LET e == [kind |-> "leverage_created", on |-> n, leverage |-> l]
         IN  Fits(g, e) /\ Effect(g, e) = [g EXCEPT !.social[n].leverage = @ \cup {l}]
<1> DEFINE e == [kind |-> "leverage_created", on |-> n, leverage |-> l]
           b == [g.social[n] EXCEPT !.leverage = @ \cup {l}]
<1>1. /\ e.kind \in Kinds /\ Applies(g, e)
      /\ Effect(g, e) = [g EXCEPT !.social[n].leverage = @ \cup {l}]
  BY DEF Kinds, Effect, SocialEffect, Applies, SocialApplies
<1>2. [g EXCEPT !.social[n].leverage = @ \cup {l}] = [g EXCEPT !.social[n] = b]
  BY BondOf DEF Games
<1>3. b \in Bonds /\ b.leverage = g.social[n].leverage \cup {l}
  BY BondOf DEF Bonds
<1>4. IsFiniteSet(b.leverage) /\ Cardinality(b.leverage) <= LeverageCapacity
  <2>1. /\ IsFiniteSet(g.social[n].leverage \cup {l})
        /\ Cardinality(g.social[n].leverage \cup {l}) = Cardinality(g.social[n].leverage) + 1
    BY BondOf, FS_AddElement
  <2>2. QED
    BY <1>3, <2>1, BondOf, BoundsAssumption
<1> HIDE DEF b
<1>5. [g EXCEPT !.social[n] = b] \in Campaigns
  BY <1>3, <1>4, SocialKept
<1>6. QED
  BY <1>1, <1>2, <1>5 DEF Fits

LEMMA LeverageSpentFits ==
  ASSUME NEW g \in Campaigns, NEW n \in Npcs, g.social[n] # None, NEW l \in g.social[n].leverage
  PROVE  Fits(g, [kind |-> "leverage_spent", on |-> n, leverage |-> l])
<1> DEFINE e == [kind |-> "leverage_spent", on |-> n, leverage |-> l]
           b == [g.social[n] EXCEPT !.leverage = @ \ {l}]
<1>1. /\ e.kind \in Kinds /\ Applies(g, e)
      /\ Effect(g, e) = [g EXCEPT !.social[n].leverage = @ \ {l}]
  BY DEF Kinds, Effect, SocialEffect, Applies, SocialApplies
<1>2. [g EXCEPT !.social[n].leverage = @ \ {l}] = [g EXCEPT !.social[n] = b]
  BY BondOf DEF Games
<1>3. b \in Bonds /\ b.leverage = g.social[n].leverage \ {l}
  BY BondOf DEF Bonds
<1>4. IsFiniteSet(b.leverage) /\ Cardinality(b.leverage) <= LeverageCapacity
  <2>1. /\ IsFiniteSet(g.social[n].leverage \ {l})
        /\ Cardinality(g.social[n].leverage \ {l}) = Cardinality(g.social[n].leverage) - 1
    BY BondOf, FS_RemoveElement
  <2>2. QED
    BY <1>3, <2>1, BondOf, BoundsAssumption
<1> HIDE DEF b
<1>5. [g EXCEPT !.social[n] = b] \in Campaigns
  BY <1>3, <1>4, SocialKept
<1>6. QED
  BY <1>1, <1>2, <1>5 DEF Fits

LEMMA ChallengeStartedFits ==
  ASSUME NEW g \in Campaigns, NEW ch \in Challenges, g.challenges[ch] = None
  PROVE  Fits(g, [kind |-> "challenge_started", on |-> ch])
<1> DEFINE e == [kind |-> "challenge_started", on |-> ch]
           t == [status |-> "active", progress |-> 0, danger |-> 0]
<1>1. e.kind \in Kinds /\ Applies(g, e) /\ Effect(g, e) = [g EXCEPT !.challenges[ch] = t]
  BY DEF Kinds, Effect, SocialEffect, ChallengeEffect, Applies, SocialApplies, ChallengeApplies
<1>2. /\ t \in Tracks /\ t.progress <= ProgressMax /\ t.danger <= DangerMax
      /\ t.status = TrackStatus(t.progress, t.danger) /\ t.status = "active"
  BY BoundsAssumption DEF Tracks, TrackStatus
<1> HIDE DEF t
<1>3. [g EXCEPT !.challenges[ch] = t] \in Campaigns
  BY <1>2, TracksKept
<1>4. QED
  BY <1>1, <1>3 DEF Fits

LEMMA TracksChangedFits ==
  ASSUME NEW g \in Campaigns, NEW ch \in Challenges, OpenChallenge(g, ch),
         WaitsFor(g, "challenge", ch) = {}, NEW t \in Tracks,
         t.progress \in g.challenges[ch].progress .. ProgressMax,
         t.danger \in g.challenges[ch].danger .. DangerMax,
         t.status = TrackStatus(t.progress, t.danger)
  PROVE  LET e == [kind |-> "challenge_tracks_changed", on |-> ch,
                   before |-> g.challenges[ch], after |-> t]
         IN Fits(g, e) /\ Effect(g, e) = [g EXCEPT !.challenges[ch] = t]
<1> DEFINE e == [kind |-> "challenge_tracks_changed", on |-> ch,
                 before |-> g.challenges[ch], after |-> t]
<1>1. e.kind \in Kinds /\ Applies(g, e) /\ Effect(g, e) = [g EXCEPT !.challenges[ch] = t]
  BY DEF OpenChallenge, Kinds, Effect, SocialEffect, ChallengeEffect, Applies, SocialApplies, ChallengeApplies
<1>2. t.progress <= ProgressMax /\ t.danger <= DangerMax
  OBVIOUS
<1>3. [g EXCEPT !.challenges[ch] = t] \in Campaigns
  BY <1>2, TracksKept
<1>4. QED
  BY <1>1, <1>3 DEF Fits

LEMMA ChallengeResolvedFits ==
  ASSUME NEW g \in Campaigns, NEW ch \in Challenges
  PROVE  LET e == [kind |-> "challenge_resolved", on |-> ch, outcome |-> g.challenges[ch].status]
         IN  Fits(g, e) /\ Effect(g, e) = g
<1> DEFINE e == [kind |-> "challenge_resolved", on |-> ch, outcome |-> g.challenges[ch].status]
<1>1. e.kind \in Kinds /\ Applies(g, e) /\ Effect(g, e) = g
  BY DEF Kinds, Effect, SocialEffect, ChallengeEffect, CheckEffect, PartyEffect,
         Applies, SocialApplies, ChallengeApplies
<1>2. QED
  BY <1>1 DEF Fits

LEMMA CostsAre == Len(Costs) \in Nat
BY RitualAssumption

LEMMA RiteOf ==
  ASSUME NEW g \in Campaigns, NEW r \in Rituals, g.rituals[r] # None
  PROVE  /\ g \in Games /\ g.rituals[r] \in Rites /\ g.rituals[r].paid \in Nat
         /\ g.rituals[r].paid <= Len(Costs)
         /\ g.rituals[r].status \in {"ready", "awaiting_resolution", "completed"}
              => g.rituals[r].paid = Len(Costs)
         /\ g.rituals[r].status \notin {"awaiting_resolution", "interrupted"} => WaitsFor(g, "ritual", r) = {}
<1>1. g.rituals[r] \in Rites /\ g \in Games
  BY Shape
<1>2. /\ g.rituals[r].paid <= Len(Costs)
      /\ g.rituals[r].status \in {"ready", "awaiting_resolution", "completed"}
           => g.rituals[r].paid = Len(Costs)
  BY DEF Campaigns, ValidCampaign, ValidRituals
<1>3. \A c \in g.checks : Awaited(g, c)
  BY DEF Campaigns
<1>4. g.rituals[r].status \notin {"awaiting_resolution", "interrupted"} => WaitsFor(g, "ritual", r) = {}
  BY <1>3 DEF Awaited, WaitsFor
<1>5. QED
  BY <1>1, <1>2, <1>4 DEF Rites

LEMMA RitualStartedFits ==
  ASSUME NEW g \in Campaigns, NEW r \in Rituals, g.rituals[r] = None
  PROVE  Fits(g, [kind |-> "ritual_started", on |-> r])
<1> DEFINE e == [kind |-> "ritual_started", on |-> r]
           t == [status |-> "preparing", paid |-> 0]
<1>1. e.kind \in Kinds /\ Applies(g, e) /\ Effect(g, e) = [g EXCEPT !.rituals[r] = t]
  BY DEF Kinds, Effect, Applies
<1>2. t \in Rites /\ t.paid <= Len(Costs) /\ t.status = "preparing"
  BY CostsAre DEF Rites
<1>3. WaitsFor(g, "ritual", r) = {}
  <2>1. \A c \in g.checks : Awaited(g, c)
    BY DEF Campaigns
  <2>2. QED
    BY <2>1 DEF Awaited, WaitsFor
<1> HIDE DEF t
<1>4. [g EXCEPT !.rituals[r] = t] \in Campaigns
  BY <1>2, <1>3, RiteKept
<1>5. QED
  BY <1>1, <1>4 DEF Fits

LEMMA ContributionFits ==
  ASSUME NEW g \in Campaigns, NEW r \in Rituals, g.rituals[r] # None, NEW h \in g.heroes,
         g.rituals[r].status = "preparing", g.rituals[r].paid < Len(Costs)
  PROVE  LET e == [kind |-> "ritual_contribution", on |-> r, hero |-> h, index |-> g.rituals[r].paid]
         IN  /\ Fits(g, e)
             /\ Effect(g, e).rituals[r].status = "preparing"
             /\ Effect(g, e).rituals[r] # None
             /\ Effect(g, e).rituals[r].paid = g.rituals[r].paid + 1
<1> DEFINE e == [kind |-> "ritual_contribution", on |-> r, hero |-> h, index |-> g.rituals[r].paid]
           t == [g.rituals[r] EXCEPT !.paid = g.rituals[r].paid + 1]
<1>1. /\ e.kind \in Kinds /\ Applies(g, e)
      /\ Effect(g, e) = [g EXCEPT !.rituals[r].paid = g.rituals[r].paid + 1]
  BY DEF Kinds, Effect, Applies
<1>2. [g EXCEPT !.rituals[r].paid = g.rituals[r].paid + 1] = [g EXCEPT !.rituals[r] = t]
  BY RiteOf DEF Games
<1>3. t \in Rites /\ t.paid = g.rituals[r].paid + 1 /\ t.status = "preparing"
  BY RiteOf DEF Rites
<1>4. t.paid <= Len(Costs)
  BY <1>3, CostsAre, RiteOf
<1> HIDE DEF t
<1>5. [g EXCEPT !.rituals[r] = t] \in Campaigns
  BY <1>3, <1>4, RiteKept, RiteOf
<1>6. Effect(g, e).rituals[r] = t /\ t # None
  BY <1>1, <1>2, <1>3, Shape, NoneAssumption DEF Games
<1>7. QED
  BY <1>1, <1>2, <1>3, <1>5, <1>6 DEF Fits

\* The events that only set the status of a ritual.
LEMMA StatusKept ==
  ASSUME NEW g \in Campaigns, NEW r \in Rituals, g.rituals[r] # None,
         NEW status \in {"ready", "awaiting_resolution"} \cup ClosedRitual,
         status \in {"ready", "awaiting_resolution", "completed"} => g.rituals[r].paid = Len(Costs),
         status \in {"awaiting_resolution", "interrupted"} \/ WaitsFor(g, "ritual", r) = {}
  PROVE  /\ [g EXCEPT !.rituals[r].status = status] \in Campaigns
         /\ [g EXCEPT !.rituals[r].status = status].rituals[r] # None
         /\ [g EXCEPT !.rituals[r].status = status].rituals[r].status = status
<1> DEFINE t == [g.rituals[r] EXCEPT !.status = status]
<1>1. [g EXCEPT !.rituals[r].status = status] = [g EXCEPT !.rituals[r] = t]
  BY RiteOf DEF Games
<1>2. t \in Rites /\ t.paid = g.rituals[r].paid /\ t.status = status
  BY RiteOf DEF Rites
<1>3. t.paid <= Len(Costs)
  BY <1>2, RiteOf
<1> HIDE DEF t
<1>4. [g EXCEPT !.rituals[r] = t] \in Campaigns
  BY <1>2, <1>3, RiteKept
<1>5. [g EXCEPT !.rituals[r] = t].rituals[r] = t /\ t # None
  BY <1>2, Shape, NoneAssumption DEF Games
<1>6. QED
  BY <1>1, <1>2, <1>4, <1>5

LEMMA RitualReadyFits ==
  ASSUME NEW g \in Campaigns, NEW r \in Rituals, g.rituals[r] # None,
         g.rituals[r].status = "preparing", g.rituals[r].paid = Len(Costs)
  PROVE  Fits(g, [kind |-> "ritual_ready", on |-> r])
<1> DEFINE e == [kind |-> "ritual_ready", on |-> r]
<1>1. e.kind \in Kinds /\ Applies(g, e) /\ Effect(g, e) = [g EXCEPT !.rituals[r].status = "ready"]
  BY DEF Kinds, Effect, Applies
<1>2. WaitsFor(g, "ritual", r) = {}
  BY RiteOf
<1>3. [g EXCEPT !.rituals[r].status = "ready"] \in Campaigns
  BY <1>2, StatusKept
<1>4. QED
  BY <1>1, <1>3 DEF Fits

LEMMA RitualResolvedFits ==
  ASSUME NEW g \in Campaigns, NEW r \in Rituals, g.rituals[r] # None,
         g.rituals[r].status \in {"ready", "awaiting_resolution"}, WaitsFor(g, "ritual", r) = {},
         NEW outcome \in {"completed", "failed"}
  PROVE  Fits(g, [kind |-> "ritual_resolved", on |-> r, outcome |-> outcome])
<1> DEFINE e == [kind |-> "ritual_resolved", on |-> r, outcome |-> outcome]
<1>1. e.kind \in Kinds /\ Applies(g, e) /\ Effect(g, e) = [g EXCEPT !.rituals[r].status = outcome]
  BY DEF Kinds, Effect, Applies
<1>2. outcome \in ClosedRitual /\ g.rituals[r].paid = Len(Costs)
  BY RiteOf DEF ClosedRitual
<1>3. [g EXCEPT !.rituals[r].status = outcome] \in Campaigns
  BY <1>2, StatusKept
<1>4. QED
  BY <1>1, <1>3 DEF Fits

LEMMA RitualInterruptedFits ==
  ASSUME NEW g \in Campaigns, NEW r \in Rituals, g.rituals[r] # None, g.rituals[r].status \notin ClosedRitual
  PROVE  Fits(g, [kind |-> "ritual_interrupted", on |-> r])
<1> DEFINE e == [kind |-> "ritual_interrupted", on |-> r]
<1>1. e.kind \in Kinds /\ Applies(g, e) /\ Effect(g, e) = [g EXCEPT !.rituals[r].status = "interrupted"]
  BY DEF Kinds, Effect, Applies
<1>2. "interrupted" \in ClosedRitual
  BY DEF ClosedRitual
<1>3. [g EXCEPT !.rituals[r].status = "interrupted"] \in Campaigns
  BY <1>2, StatusKept
<1>4. QED
  BY <1>1, <1>3 DEF Fits

-----------------------------------------------------------------------------
(* Pending checks *)

\* A fresh identity exists.
LEMMA FreshExists ==
  ASSUME NEW g \in Campaigns
  PROVE  \E id \in CheckIds : Pending(g, id) = {}
<1> DEFINE T == {c.id : c \in g.checks}
           f == [c \in g.checks |-> c.id]
<1>1. SUFFICES ASSUME \A id \in CheckIds : Pending(g, id) # {} PROVE FALSE
  OBVIOUS
<1>2. CheckIds \subseteq T
  BY <1>1 DEF Pending
<1>3. f \in Surjection(g.checks, T)
  BY DEF Surjection
<1>4. IsFiniteSet(T) /\ Cardinality(T) <= Cardinality(g.checks)
  <2> HIDE DEF f, T
  <2>1. QED
    BY <1>3, Shape, FS_Surjection
<1> HIDE DEF T
<1>5. IsFiniteSet(CheckIds) /\ Cardinality(CheckIds) <= Cardinality(T)
  BY <1>2, <1>4, FS_Subset
<1>6. /\ Cardinality(CheckIds) \in Nat /\ Cardinality(T) \in Nat /\ Cardinality(g.checks) \in Nat
      /\ CheckLimit \in Nat /\ Cardinality(g.checks) <= CheckLimit /\ Cardinality(CheckIds) > CheckLimit
  BY <1>4, <1>5, FS_CardinalityType, Shape, BoundsAssumption, IdentitiesAssumption
<1>7. QED
  BY <1>4, <1>5, <1>6

\* Removing pending checks disturbs nothing.
LEMMA ChecksRemoved ==
  ASSUME NEW g \in Campaigns, NEW id
  PROVE  [g EXCEPT !.checks = @ \ Pending(g, id)] \in Campaigns
<1> DEFINE S == g.checks \ Pending(g, id)
<1>1. S \in SUBSET g.checks /\ S \in SUBSET Checks
  BY Shape
<1> HIDE DEF S
<1>2. IsFiniteSet(S) /\ Cardinality(S) <= CheckLimit
  <2>1. /\ IsFiniteSet(S) /\ Cardinality(S) <= Cardinality(g.checks)
        /\ Cardinality(S) \in Nat /\ Cardinality(g.checks) \in Nat
    BY <1>1, Shape, FS_Subset, FS_CardinalityType
  <2>2. Cardinality(g.checks) <= CheckLimit /\ CheckLimit \in Nat
    BY Shape, BoundsAssumption
  <2>3. QED
    BY <2>1, <2>2
<1>3. \A c \in g.checks : c.roller \in g.heroes /\ Awaited(g, c)
  BY DEF Campaigns, InParty
<1>4. Apart(g)
  BY DEF Campaigns
<1>5. [g EXCEPT !.checks = S] \in Campaigns
  <2>1. \A c \in S : c.roller \in g.heroes /\ Awaited(g, c)
    BY <1>1, <1>3
  <2>2. \A c, d \in S :
          c.id = d.id \/ (c.then.kind \in {"challenge", "ritual"} /\ c.then = d.then) => c = d
    BY <1>1, <1>4 DEF Apart
  <2>3. QED
    BY <1>1, <1>2, <2>1, <2>2, ChecksKept
<1>6. QED
  BY <1>5 DEF S

LEMMA ResolvedFits ==
  ASSUME NEW g \in Campaigns, NEW c \in g.checks
  PROVE  LET e == [kind |-> "check_resolved", check |-> c.id]
         IN  Fits(g, e) /\ Effect(g, e) = [g EXCEPT !.checks = @ \ Pending(g, c.id)]
<1> DEFINE e == [kind |-> "check_resolved", check |-> c.id]
<1>1. Pending(g, c.id) # {}
  BY DEF Pending
<1>2. e.kind \in Kinds /\ Applies(g, e) /\ Effect(g, e) = [g EXCEPT !.checks = @ \ Pending(g, c.id)]
  BY <1>1 DEF Kinds, Effect, SocialEffect, ChallengeEffect, CheckEffect,
         Applies, SocialApplies, ChallengeApplies, CheckApplies
<1>3. QED
  BY <1>2, ChecksRemoved DEF Fits

\* The result of a simulated check changes nothing.
LEMMA SimulatedFits ==
  ASSUME NEW g \in Campaigns
  PROVE  LET e == [kind |-> "check_resolved", check |-> None]
         IN  Fits(g, e) /\ Effect(g, e) = g
<1> DEFINE e == [kind |-> "check_resolved", check |-> None]
<1>1. Pending(g, None) = {}
  BY Shape, NoneAssumption DEF Pending, Checks
<1>2. e.kind \in Kinds /\ Applies(g, e) /\ Effect(g, e) = [g EXCEPT !.checks = @ \ Pending(g, None)]
  BY <1>1 DEF Kinds, Effect, SocialEffect, ChallengeEffect, CheckEffect,
         Applies, SocialApplies, ChallengeApplies, CheckApplies
<1>3. [g EXCEPT !.checks = @ \ Pending(g, None)] = g
  BY <1>1, Shape DEF Games
<1>4. QED
  BY <1>2, <1>3 DEF Fits

NewCheck(id, h, d) == [id |-> id, roller |-> h, disclosure |-> d, then |-> [kind |-> "none"]]
RollRequest(id, h, d) ==
  [kind |-> "physical_roll_requested", check |-> id, hero |-> h, disclosure |-> d]

\* A requested check fits as long as the state can hold it.
LEMMA RequestFits ==
  ASSUME NEW g \in Campaigns, NEW id \in CheckIds, Pending(g, id) = {}, NEW h \in g.heroes,
         NEW d \in Disclosures
  PROVE  LET e == RollRequest(id, h, d)
             y == [g EXCEPT !.checks = @ \cup {NewCheck(id, h, d)}]
         IN /\ e.kind = "physical_roll_requested" /\ e.kind \in Kinds /\ Applies(g, e)
            /\ Effect(g, e) = y
            /\ ValidCampaign(y) => y \in Campaigns
<1> DEFINE e == RollRequest(id, h, d)
           n == NewCheck(id, h, d)
           S == g.checks \cup {n}
           y == [g EXCEPT !.checks = S]
<1>1. e.kind = "physical_roll_requested" /\ e.kind \in Kinds /\ Applies(g, e) /\ Effect(g, e) = y
  BY DEF RollRequest, NewCheck, Kinds, Effect, SocialEffect, ChallengeEffect, CheckEffect,
         Applies, SocialApplies, ChallengeApplies, CheckApplies
<1>2. /\ n \in Checks /\ n.id = id /\ n.roller = h /\ n.then.kind = "none"
  BY Shape DEF NewCheck, Checks, Continuations
<1>3. IsFiniteSet(S)
  BY Shape, FS_AddElement
<1>4. \A c \in g.checks : c.roller \in g.heroes /\ Awaited(g, c) /\ c.id # id
  BY DEF Campaigns, InParty, Pending
<1>5. Apart(g)
  BY DEF Campaigns
<1>6. SUFFICES ASSUME ValidCampaign(y) PROVE y \in Campaigns
  BY <1>1
<1>7. Cardinality(S) <= CheckLimit
  BY <1>6, Shape DEF ValidCampaign, Games
<1>8. \A c \in S : c.roller \in g.heroes /\ Awaited(g, c)
  BY <1>2, <1>4 DEF Awaited
<1>9. \A c, b \in S :
        c.id = b.id \/ (c.then.kind \in {"challenge", "ritual"} /\ c.then = b.then) => c = b
  BY <1>2, <1>4, <1>5 DEF Apart
<1>10. S \in SUBSET Checks
  BY <1>2, Shape
<1> HIDE DEF S
<1>11. QED
  BY <1>3, <1>7, <1>8, <1>9, <1>10, ChecksKept

\* A check that waits for nothing may be bound to what nothing else waits for.
LEMMA BindKept ==
  ASSUME NEW g \in Campaigns, NEW c \in g.checks, c.then = [kind |-> "none"],
         NEW then \in Continuations, Awaited(g, [c EXCEPT !.then = then]),
         then.kind \in {"challenge", "ritual"} => \A b \in g.checks : b.then # then
  PROVE  Bind(g, c.id, then) \in Campaigns
<1> DEFINE n == [c EXCEPT !.then = then]
           S == (g.checks \ {c}) \cup {n}
<1>1. \A b \in g.checks : b.roller \in g.heroes /\ Awaited(g, b) /\ b \in Checks
  BY Shape DEF Campaigns, InParty
<1>2. Apart(g)
  BY DEF Campaigns
<1>3. n \in Checks /\ n.id = c.id /\ n.roller = c.roller /\ n.then = then
  BY <1>1 DEF Checks
<1>4. \A b \in g.checks : b.id = c.id => b = c
  BY <1>2 DEF Apart
<1>5. {IF b.id = c.id THEN [b EXCEPT !.then = then] ELSE b : b \in g.checks} = S
  <2> DEFINE bound(b) == IF b.id = c.id THEN [b EXCEPT !.then = then] ELSE b
             image == {bound(b) : b \in g.checks}
  <2>1. \A b \in g.checks : bound(b) = IF b = c THEN n ELSE b
    BY <1>4
  <2>2. \A x : x \in image <=> \E b \in g.checks : x = bound(b)
    OBVIOUS
  <2> HIDE DEF n, image, bound
  <2>3. \A x : x \in image <=> \E b \in g.checks : x = IF b = c THEN n ELSE b
    BY <2>1, <2>2
  <2>4. \A x : x \in image <=> x \in S
    BY <2>3
  <2>5. image = S
    BY <2>4
  <2>6. QED
    BY <2>5 DEF image, bound
<1>6. Bind(g, c.id, then) = [g EXCEPT !.checks = S]
  BY <1>5, Shape DEF Bind, Games
<1>7. IsFiniteSet(S) /\ Cardinality(S) <= CheckLimit
  <2> HIDE DEF n
  <2>1. /\ IsFiniteSet(g.checks \ {c}) /\ Cardinality(g.checks \ {c}) = Cardinality(g.checks) - 1
        /\ Cardinality(g.checks \ {c}) \in Nat /\ Cardinality(g.checks) \in Nat
    BY Shape, FS_RemoveElement, FS_CardinalityType
  <2>2. /\ IsFiniteSet(S)
        /\ Cardinality(S) = IF n \in g.checks \ {c} THEN Cardinality(g.checks \ {c})
                            ELSE Cardinality(g.checks \ {c}) + 1
    BY <2>1, FS_AddElement
  <2>3. Cardinality(g.checks) <= CheckLimit /\ CheckLimit \in Nat
    BY Shape, BoundsAssumption
  <2>4. QED
    BY <2>1, <2>2, <2>3
<1>8. \A b \in S : b.roller \in g.heroes /\ Awaited(g, b)
  BY <1>1, <1>3
<1>9. \A a, b \in S :
        a.id = b.id \/ (a.then.kind \in {"challenge", "ritual"} /\ a.then = b.then) => a = b
  <2> HIDE DEF n
  <2>1. \A a, b \in g.checks :
        a.id = b.id \/ (a.then.kind \in {"challenge", "ritual"} /\ a.then = b.then) => a = b
    BY <1>2 DEF Apart
  <2>2. \A b \in g.checks \ {c} : b.id # n.id
    BY <1>3, <1>4
  <2>3. n.then.kind \in {"challenge", "ritual"} => \A b \in g.checks : b.then # n.then
    BY <1>3
  <2>4. QED
    BY <2>1, <2>2, <2>3
<1>10. S \in SUBSET Checks
  BY <1>1, <1>3
<1> HIDE DEF S
<1>11. QED
  BY <1>6, <1>7, <1>8, <1>9, <1>10, ChecksKept

\* The continuation of a check that was just requested.
LEMMA ChallengeCheckFits ==
  ASSUME NEW g \in Campaigns, NEW c \in g.checks, c.then = [kind |-> "none"], NEW ch \in Challenges,
         OpenChallenge(g, ch), WaitsFor(g, "challenge", ch) = {}
  PROVE  LET e == [kind |-> "challenge_check_pending", on |-> ch, check |-> c.id]
         IN /\ Fits(g, e) /\ Effect(g, e) = Bind(g, c.id, [kind |-> "challenge", on |-> ch])
<1> DEFINE e == [kind |-> "challenge_check_pending", on |-> ch, check |-> c.id]
           then == [kind |-> "challenge", on |-> ch]
<1>1. Unbound(g, c.id)
  BY DEF Unbound, Pending
<1>2. e.kind \in Kinds /\ Applies(g, e) /\ Effect(g, e) = Bind(g, c.id, then)
  BY <1>1 DEF OpenChallenge, Kinds, Effect, SocialEffect, ChallengeEffect, Applies, SocialApplies, ChallengeApplies
<1>3. then \in Continuations
  BY DEF Continuations
<1>4. [c EXCEPT !.then = then].then = then
  BY Shape DEF Checks
<1>5. Awaited(g, [c EXCEPT !.then = then])
  BY <1>4 DEF Awaited
<1>6. \A b \in g.checks : b.then # then
  BY DEF WaitsFor
<1> HIDE DEF then
<1>7. Bind(g, c.id, then) \in Campaigns
  BY <1>3, <1>5, <1>6, BindKept
<1>8. QED
  BY <1>2, <1>7 DEF Fits, then

LEMMA SocialCheckFits ==
  ASSUME NEW g \in Campaigns, NEW c \in g.checks, c.then = [kind |-> "none"], NEW n \in Npcs,
         g.social[n] # None, NEW stance \in Stances, NEW limit \in Limits \cup {None}, limit \notin HardLimits
  PROVE  LET e == [kind |-> "social_check_pending", on |-> n, check |-> c.id, stance |-> stance, limit |-> limit]
         IN /\ Fits(g, e)
            /\ Effect(g, e) = Bind(g, c.id, [kind |-> "social", on |-> n, stance |-> stance, limit |-> limit])
<1> DEFINE e == [kind |-> "social_check_pending", on |-> n, check |-> c.id, stance |-> stance, limit |-> limit]
           then == [kind |-> "social", on |-> n, stance |-> stance, limit |-> limit]
<1>1. Unbound(g, c.id)
  BY DEF Unbound, Pending
<1>2. e.kind \in Kinds /\ Applies(g, e) /\ Effect(g, e) = Bind(g, c.id, then)
  BY <1>1 DEF Kinds, Effect, SocialEffect, Applies, SocialApplies
<1>3. then \in Continuations /\ then.kind = "social"
  BY DEF Continuations
<1>4. [c EXCEPT !.then = then].then = then
  BY Shape DEF Checks
<1>5. Awaited(g, [c EXCEPT !.then = then])
  BY <1>4 DEF Awaited
<1> HIDE DEF then
<1>6. Bind(g, c.id, then) \in Campaigns
  BY <1>3, <1>5, BindKept
<1>7. QED
  BY <1>2, <1>6 DEF Fits, then

LEMMA RitualCheckFits ==
  ASSUME NEW g \in Campaigns, NEW c \in g.checks, c.then = [kind |-> "none"], NEW r \in Rituals,
         g.rituals[r] # None, g.rituals[r].status = "ready"
  PROVE  LET e == [kind |-> "ritual_check_pending", on |-> r, check |-> c.id]
         IN /\ Fits(g, e)
            /\ Effect(g, e) = Bind([g EXCEPT !.rituals[r].status = "awaiting_resolution"],
                                   c.id, [kind |-> "ritual", on |-> r])
<1> DEFINE e == [kind |-> "ritual_check_pending", on |-> r, check |-> c.id]
           then == [kind |-> "ritual", on |-> r]
           w == [g EXCEPT !.rituals[r].status = "awaiting_resolution"]
<1>1. Unbound(g, c.id)
  BY DEF Unbound, Pending
<1>2. e.kind \in Kinds /\ Applies(g, e) /\ Effect(g, e) = Bind(w, c.id, then)
  BY <1>1 DEF Kinds, Effect, Applies
<1>3. then \in Continuations
  BY DEF Continuations
<1>4. [c EXCEPT !.then = then].then = then
  BY Shape DEF Checks
<1>5. /\ w \in Campaigns /\ w.rituals[r] # None /\ w.rituals[r].status = "awaiting_resolution"
      /\ w.checks = g.checks
  <2>1. g.rituals[r].paid = Len(Costs) /\ g \in Games
    BY RiteOf
  <2>2. w.checks = g.checks
    BY <2>1 DEF Games
  <2>3. "awaiting_resolution" \in {"ready", "awaiting_resolution"} \cup ClosedRitual
    OBVIOUS
  <2>4. QED
    BY <2>1, <2>2, <2>3, StatusKept
<1> HIDE DEF w
<1>6. Awaited(w, [c EXCEPT !.then = then])
  BY <1>4, <1>5 DEF Awaited
<1>7. \A b \in w.checks : b.then # then
  BY <1>5, RiteOf DEF WaitsFor
<1> HIDE DEF then
<1>8. Bind(w, c.id, then) \in Campaigns
  BY <1>3, <1>5, <1>6, <1>7, BindKept
<1>9. QED
  BY <1>2, <1>8 DEF Fits, then, w

-----------------------------------------------------------------------------
(* Compensations *)

Keep(es, f, n) == IF Skipped(es[n]) THEN f ELSE Append(f, es[n])

Keeping(f, es, n) == f = [i \in 0 .. n |-> IF i = 0 THEN <<>> ELSE Keep(es, f[i - 1], i)]

LEMMA KeepingExists ==
  ASSUME NEW es
  PROVE  \A n \in Nat : \E f : Keeping(f, es, n)
<1> DEFINE S == {n \in Nat : \E f : Keeping(f, es, n)}
<1>1. 0 \in S
  <2>1. Keeping([i \in 0 .. 0 |-> <<>>], es, 0)
    BY DEF Keeping
  <2>2. QED
    BY <2>1
<1>2. ASSUME NEW n \in S PROVE n + 1 \in S
  <2>1. PICK f : Keeping(f, es, n)
    OBVIOUS
  <2> DEFINE next == [i \in 0 .. n + 1 |-> IF i = n + 1 THEN Keep(es, f[n], n + 1) ELSE f[i]]
  <2>2. Keeping(next, es, n + 1)
    BY <2>1 DEF Keeping
  <2>3. QED
    BY <2>2
<1>3. S \in SUBSET Nat
  OBVIOUS
<1> HIDE DEF S
<1>4. Nat \subseteq S
  BY <1>1, <1>2, <1>3, UpFromZero
<1>5. QED
  BY <1>4 DEF S

\* Marks are what the last step keeps.
LEMMA MarksAre ==
  ASSUME NEW E, NEW es \in Seq(E)
  PROVE  \E f : /\ Marks(es) = f[Len(es)] /\ f[0] = <<>>
                /\ \A i \in 1 .. Len(es) : f[i] = Keep(es, f[i - 1], i)
<1> DEFINE f == CHOOSE f : Keeping(f, es, Len(es))
<1>1. Len(es) \in Nat
  OBVIOUS
<1>2. Keeping(f, es, Len(es))
  BY <1>1, KeepingExists
<1>3. Marks(es) = f[Len(es)]
  BY DEF Marks, Keeping, Keep
<1> HIDE DEF f
<1>4. f[0] = <<>>
  BY <1>1, <1>2 DEF Keeping
<1>5. ASSUME NEW i \in 1 .. Len(es) PROVE f[i] = Keep(es, f[i - 1], i)
  BY <1>1, <1>2 DEF Keeping
<1>6. QED
  BY <1>3, <1>4, <1>5

LEMMA MarksOfNone == Marks(<<>>) = <<>>
<1>1. <<>> \in Seq({}) /\ Len(<<>>) = 0
  OBVIOUS
<1>2. QED
  BY <1>1, MarksAre

\* Steps that start alike and keep alike end alike.
KeepsAlong(f, es, n) == \A i \in 1 .. n : f[i] = Keep(es, f[i - 1], i)
SameTo(es, fs, n) == \A i \in 1 .. n : es[i] = fs[i]

LEMMA KeptAlike ==
  ASSUME NEW es, NEW fs, NEW n \in Nat, NEW f, NEW h, f[0] = h[0],
         KeepsAlong(f, es, n), KeepsAlong(h, fs, n), SameTo(es, fs, n)
  PROVE  f[n] = h[n]
<1> DEFINE S == {m \in Nat : m <= n => f[m] = h[m]}
<1>1. 0 \in S
  OBVIOUS
<1>2. ASSUME NEW m \in S PROVE m + 1 \in S
  <2>1. SUFFICES ASSUME m + 1 <= n PROVE f[m + 1] = h[m + 1]
    OBVIOUS
  <2>2. m + 1 \in 1 .. n /\ (m + 1) - 1 = m
    BY <2>1
  <2>3. QED
    BY <2>1, <2>2 DEF Keep, KeepsAlong, SameTo
<1>3. S \in SUBSET Nat
  OBVIOUS
<1> HIDE DEF S
<1>4. Nat \subseteq S
  BY <1>1, <1>2, <1>3, UpFromZero
<1>5. QED
  BY <1>4 DEF S

LEMMA MarksMore ==
  ASSUME NEW E, NEW es \in Seq(E), NEW e \in E
  PROVE  Marks(Append(es, e)) = IF Skipped(e) THEN Marks(es) ELSE Append(Marks(es), e)
<1> DEFINE fs == Append(es, e)
           n == Len(es)
           m == n + 1
<1>1. /\ fs \in Seq(E) /\ Len(fs) = m /\ fs[m] = e
      /\ n \in Nat /\ m \in Nat /\ m \in 1 .. m /\ m - 1 = n /\ 1 .. n \subseteq 1 .. m
      /\ \A i \in 1 .. n : fs[i] = es[i]
  OBVIOUS
<1>2. PICK f : /\ Marks(es) = f[n] /\ f[0] = <<>>
               /\ \A i \in 1 .. n : f[i] = Keep(es, f[i - 1], i)
  BY MarksAre
<1> HIDE DEF fs
<1>3. PICK h : /\ Marks(fs) = h[m] /\ h[0] = <<>>
               /\ \A i \in 1 .. m : h[i] = Keep(fs, h[i - 1], i)
  <2>1. fs \in Seq(E)
    BY <1>1
  <2>2. PICK h : /\ Marks(fs) = h[Len(fs)] /\ h[0] = <<>>
                 /\ \A i \in 1 .. Len(fs) : h[i] = Keep(fs, h[i - 1], i)
    BY <2>1, MarksAre
  <2>3. Len(fs) = m
    BY <1>1
  <2> HIDE DEF m
  <2>4. QED
    BY <2>2, <2>3
<1> HIDE DEF n, m
<1>4. f[n] = h[n]
  <2>1. n \in Nat /\ f[0] = h[0]
    BY <1>1, <1>2, <1>3
  <2>2. KeepsAlong(f, es, n) /\ KeepsAlong(h, fs, n)
    BY <1>1, <1>2, <1>3 DEF KeepsAlong
  <2>3. SameTo(es, fs, n)
    BY <1>1 DEF SameTo
  <2>4. QED
    BY <2>1, <2>2, <2>3, KeptAlike
<1>5. h[m] = Keep(fs, h[n], m)
  BY <1>1, <1>3
<1>6. QED
  BY <1>1, <1>2, <1>3, <1>4, <1>5 DEF Keep, fs

\* An event that no compensation undoes.
Final(e) == ~Skipped(e) /\ e.kind \notin InverseKinds
HasFinal(es) == \E i \in 1 .. Len(es) : Final(es[i])

LEMMA FinalStays ==
  ASSUME NEW E, NEW es \in Seq(E), HasFinal(es)
  PROVE  ~Compensable(es)
<1> DEFINE Stuck(m) == m \in Seq(E) /\ \E j \in 1 .. Len(m) : m[j].kind \notin InverseKinds
           S == {n \in Nat : \A t \in Seq(E) : Len(t) = n =>
                   Marks(t) \in Seq(E) /\ (HasFinal(t) => Stuck(Marks(t)))}
<1>1. 0 \in S
  <2>1. ASSUME NEW t \in Seq(E), Len(t) = 0 PROVE Marks(t) \in Seq(E) /\ ~HasFinal(t)
    <3>1. t = <<>>
      BY <2>1
    <3>2. Marks(t) = <<>> /\ 1 .. Len(t) = {}
      BY <2>1, <3>1, MarksOfNone
    <3>3. QED
      BY <3>2 DEF HasFinal
  <2>2. QED
    BY <2>1
<1>2. ASSUME NEW n \in S PROVE n + 1 \in S
  <2>1. SUFFICES ASSUME NEW t \in Seq(E), Len(t) = n + 1
                 PROVE  Marks(t) \in Seq(E) /\ (HasFinal(t) => Stuck(Marks(t)))
    OBVIOUS
  <2>2. PICK s \in Seq(E), e \in E : t = Append(s, e) /\ Len(s) = n
    BY <2>1, LastApart
  <2>3. Marks(s) \in Seq(E) /\ (HasFinal(s) => Stuck(Marks(s)))
    BY <2>2
  <2>4. Marks(t) = IF Skipped(e) THEN Marks(s) ELSE Append(Marks(s), e)
    BY <2>2, MarksMore
  <2>5. Marks(t) \in Seq(E)
    BY <2>3, <2>4
  <2>6. ASSUME HasFinal(s) PROVE Stuck(Marks(t))
    <3>1. PICK j \in 1 .. Len(Marks(s)) : Marks(s)[j].kind \notin InverseKinds
      BY <2>3, <2>6
    <3>2. j \in 1 .. Len(Marks(t)) /\ Marks(t)[j] = Marks(s)[j]
      BY <2>3, <2>4
    <3>3. QED
      BY <2>5, <3>1, <3>2
  <2>7. ASSUME Final(e) PROVE Stuck(Marks(t))
    <3>1. Marks(t) = Append(Marks(s), e) /\ e.kind \notin InverseKinds
      BY <2>4, <2>7 DEF Final
    <3>2. Len(Marks(t)) \in 1 .. Len(Marks(t)) /\ Marks(t)[Len(Marks(t))] = e
      BY <2>3, <3>1
    <3>3. QED
      BY <2>5, <3>1, <3>2
  <2>8. HasFinal(t) => HasFinal(s) \/ Final(e)
    <3>1. SUFFICES ASSUME NEW i \in 1 .. Len(t), Final(t[i]) PROVE HasFinal(s) \/ Final(e)
      BY DEF HasFinal
    <3>2. CASE i = Len(t)
      BY <2>2, <3>1, <3>2
    <3>3. CASE i # Len(t)
      <4>1. i \in 1 .. Len(s) /\ t[i] = s[i]
        BY <2>2, <3>3
      <4>2. QED
        BY <3>1, <4>1 DEF HasFinal
    <3>4. QED
      BY <3>2, <3>3
  <2>9. QED
    BY <2>5, <2>6, <2>7, <2>8
<1>3. S \in SUBSET Nat /\ Len(es) \in Nat
  OBVIOUS
<1> HIDE DEF S
<1>4. Len(es) \in S
  BY <1>1, <1>2, <1>3, UpFromZero
<1>5. Stuck(Marks(es))
  BY <1>4 DEF S
<1>6. QED
  BY <1>5 DEF Compensable

LEMMA FinalJoined ==
  ASSUME NEW E, NEW es \in Seq(E), NEW F, NEW fs \in Seq(F), HasFinal(es) \/ HasFinal(fs)
  PROVE  HasFinal(es \o fs) /\ es \o fs \in Seq(E \cup F)
<1>1. /\ Len(es \o fs) = Len(es) + Len(fs) /\ Len(es) \in Nat /\ Len(fs) \in Nat
      /\ es \o fs \in Seq(E \cup F)
  OBVIOUS
<1>2. CASE HasFinal(es)
  <2>1. PICK i \in 1 .. Len(es) : Final(es[i])
    BY <1>2 DEF HasFinal
  <2>2. i \in 1 .. Len(es \o fs) /\ (es \o fs)[i] = es[i]
    BY <1>1
  <2>3. QED
    BY <1>1, <2>1, <2>2 DEF HasFinal
<1>3. CASE HasFinal(fs)
  <2>1. PICK i \in 1 .. Len(fs) : Final(fs[i])
    BY <1>3 DEF HasFinal
  <2>2. Len(es) + i \in 1 .. Len(es \o fs) /\ (es \o fs)[Len(es) + i] = fs[i]
    BY <1>1
  <2>3. QED
    BY <1>1, <2>1, <2>2 DEF HasFinal
<1>4. QED
  BY <1>2, <1>3

LEMMA FinalOne ==
  ASSUME NEW e, Final(e)
  PROVE  HasFinal(<<e>>) /\ <<e>> \in Seq({e})
BY DEF HasFinal

LEMMA MarksAfter ==
  ASSUME NEW E, NEW es \in Seq(E), NEW e
  PROVE  Marks(es \o <<e>>) = IF Skipped(e) THEN Marks(es) ELSE Append(Marks(es), e)
<1>1. es \in Seq(E \cup {e}) /\ e \in E \cup {e} /\ es \o <<e>> = Append(es, e)
  OBVIOUS
<1>2. \A us \in Seq(E \cup {e}) : \A u \in E \cup {e} :
        Marks(Append(us, u)) = IF Skipped(u) THEN Marks(us) ELSE Append(Marks(us), u)
  BY MarksMore
<1>3. QED
  BY <1>1, <1>2

LEMMA MarksOfOne ==
  ASSUME NEW e
  PROVE  Marks(<<e>>) = IF Skipped(e) THEN <<>> ELSE <<e>>
<1>1. <<>> \in Seq({e}) /\ <<>> \o <<e>> = <<e>> /\ Append(<<>>, e) = <<e>>
  OBVIOUS
<1>2. Marks(<<>> \o <<e>>) = IF Skipped(e) THEN Marks(<<>>) ELSE Append(Marks(<<>>), e)
  BY <1>1, MarksAfter
<1>3. QED
  BY <1>1, <1>2, MarksOfNone

\* The last mark is inverted first.
LEMMA CompensationIs ==
  ASSUME NEW es, NEW E, Marks(es) \in Seq(E)
  PROVE  /\ \E F : Compensation(es) \in Seq(F)
         /\ Len(Compensation(es)) = Len(Marks(es))
         /\ \A i \in 1 .. Len(Marks(es)) :
              Compensation(es)[i] = InverseOf(Marks(es)[Len(Marks(es)) - i + 1])
<1> DEFINE ms == Marks(es)
           n == Len(ms)
           F == {InverseOf(ms[i]) : i \in 1 .. n}
<1>1. n \in Nat
  OBVIOUS
<1>2. Compensation(es) = [i \in 1 .. n |-> InverseOf(ms[n - i + 1])]
  BY <1>1 DEF Compensation, Reverse
<1> HIDE DEF n, ms
<1>3. \A i \in 1 .. n : n - i + 1 \in 1 .. n
  BY <1>1
<1>4. Compensation(es) \in [1 .. n -> F]
  BY <1>2, <1>3
<1> HIDE DEF F
<1>5. Compensation(es) \in Seq(F) /\ Len(Compensation(es)) = n
  BY <1>1, <1>4, SeqDef
<1>6. QED
  BY <1>2, <1>5 DEF n, ms

\* The event i leads from y back to g.
Undoes(y, i, g) == i.kind \in Kinds /\ Applies(y, i) /\ Effect(y, i) = g

LEMMA UndoesIs ==
  ASSUME NEW y, NEW i, NEW g, Undoes(y, i, g), ValidCampaign(g)
  PROVE  Apply(Start(y), i) = Start(g)
BY ApplyIs DEF Undoes

LEMMA OneTakenBack ==
  ASSUME NEW g, ValidCampaign(g), NEW es, NEW e, Marks(es) = <<e>>,
         NEW y, ApplyAll(g, es) = Start(y), Undoes(y, InverseOf(e), g)
  PROVE  Undone(g, es) = Start(g)
<1> DEFINE cs == Compensation(es)
<1>1. Marks(es) \in Seq({e}) /\ Len(Marks(es)) = 1 /\ Marks(es)[1] = e
  OBVIOUS
<1>2. PICK F : cs \in Seq(F)
  BY <1>1, CompensationIs
<1>3. Len(cs) = 1 /\ cs[1] = InverseOf(e)
  <2>1. /\ Len(cs) = Len(Marks(es))
        /\ \A i \in 1 .. Len(Marks(es)) : cs[i] = InverseOf(Marks(es)[Len(Marks(es)) - i + 1])
    BY <1>1, CompensationIs
  <2>2. 1 \in 1 .. 1 /\ 1 - 1 + 1 = 1
    OBVIOUS
  <2> HIDE DEF cs
  <2>3. QED
    BY <1>1, <2>1, <2>2
<1>4. ApplyAll(g, es).game = y
  BY DEF Start
<1> HIDE DEF cs
<1>5. PICK f : Course(f, y, cs, 1) /\ ApplyAll(y, cs) = f[1]
  BY <1>2, <1>3, ApplyAllIs
<1>6. f[0] = Start(y) /\ f[1] = Apply(f[0], cs[1])
  BY <1>5, CourseSteps
<1>7. Apply(Start(y), InverseOf(e)) = Start(g)
  BY UndoesIs
<1>8. QED
  BY <1>3, <1>4, <1>5, <1>6, <1>7 DEF Undone, cs

LEMMA TwoTakenBack ==
  ASSUME NEW g, ValidCampaign(g), NEW es, NEW e, NEW f, Marks(es) = Append(<<e>>, f),
         NEW y, ApplyAll(g, es) = Start(y),
         NEW w, ValidCampaign(w), Undoes(y, InverseOf(f), w), Undoes(w, InverseOf(e), g)
  PROVE  Undone(g, es) = Start(g)
<1> DEFINE cs == Compensation(es)
<1>1. <<e>> \in Seq({e, f}) /\ f \in {e, f} /\ <<e>>[1] = e /\ Len(<<e>>) = 1
  OBVIOUS
<1>2. Marks(es) \in Seq({e, f}) /\ Len(Marks(es)) = 2 /\ Marks(es)[1] = e /\ Marks(es)[2] = f
  BY <1>1
<1>3. PICK F : cs \in Seq(F)
  BY <1>2, CompensationIs
<1>4. Len(cs) = 2 /\ cs[1] = InverseOf(f) /\ cs[2] = InverseOf(e)
  <2>1. 1 \in 1 .. 2 /\ 2 \in 1 .. 2 /\ 2 - 1 + 1 = 2 /\ 2 - 2 + 1 = 1
    OBVIOUS
  <2>2. /\ Len(cs) = Len(Marks(es))
        /\ \A i \in 1 .. Len(Marks(es)) : cs[i] = InverseOf(Marks(es)[Len(Marks(es)) - i + 1])
    BY <1>2, CompensationIs
  <2> HIDE DEF cs
  <2>3. QED
    BY <1>2, <2>1, <2>2
<1>5. ApplyAll(g, es).game = y
  BY DEF Start
<1> HIDE DEF cs
<1>6. PICK h : Course(h, y, cs, 2) /\ ApplyAll(y, cs) = h[2]
  BY <1>3, <1>4, ApplyAllIs
<1>7. h[0] = Start(y) /\ h[1] = Apply(h[0], cs[1]) /\ h[2] = Apply(h[1], cs[2])
  <2>1. 1 \in 1 .. 2 /\ 2 \in 1 .. 2 /\ 1 - 1 = 0 /\ 2 - 1 = 1 /\ 2 \in Nat
    OBVIOUS
  <2>2. \A i \in 1 .. 2 : h[i] = Apply(h[i - 1], cs[i])
    BY <1>6, <2>1, CourseSteps
  <2>3. h[0] = Start(y)
    BY <1>6, <2>1, CourseSteps
  <2>4. QED
    BY <2>1, <2>2, <2>3
<1>8. Apply(Start(y), InverseOf(f)) = Start(w) /\ Apply(Start(w), InverseOf(e)) = Start(g)
  BY UndoesIs
<1>9. QED
  BY <1>4, <1>5, <1>6, <1>7, <1>8 DEF Undone, cs

\* If the planner takes the events for reversible, taking them back restores
\* the state before them.
Reversible(g, es) ==
  ApplyAll(g, es).refused = None /\ Compensable(es) => Undone(g, es) = Start(g)

LEMMA FinalReversible ==
  ASSUME NEW g, NEW E, NEW es \in Seq(E), HasFinal(es)
  PROVE  Reversible(g, es)
BY FinalStays DEF Reversible

\* Something in the sequence cannot be undone.
Lasting(es) == \E T : es \in Seq(T) /\ HasFinal(es)

LEMMA LastingReversible ==
  ASSUME NEW g, NEW es, Lasting(es)
  PROVE  Reversible(g, es)
BY FinalReversible DEF Lasting

LEMMA LastingOne ==
  ASSUME NEW e, Final(e)
  PROVE  Lasting(<<e>>)
BY FinalOne DEF Lasting

LEMMA LastingJoined ==
  ASSUME NEW es, NEW fs, NEW E, es \in Seq(E), NEW F, fs \in Seq(F), Lasting(es) \/ Lasting(fs)
  PROVE  Lasting(es \o fs)
<1>1. HasFinal(es) \/ HasFinal(fs)
  BY DEF Lasting
<1>2. HasFinal(es \o fs) /\ es \o fs \in Seq(E \cup F)
  BY <1>1, FinalJoined
<1>3. QED
  BY <1>2 DEF Lasting

LEMMA NoneReversible ==
  ASSUME NEW g, NEW es, Marks(es) = <<>>
  PROVE  Reversible(g, es)
BY DEF Reversible, Compensable

LEMMA OneReversible ==
  ASSUME NEW g \in Campaigns, NEW es, NEW e, Marks(es) = <<e>>,
         NEW y, ApplyAll(g, es) = Start(y), Undoes(y, InverseOf(e), g)
  PROVE  Reversible(g, es)
<1>1. ValidCampaign(g)
  BY DEF Campaigns
<1>2. Undone(g, es) = Start(g)
  BY <1>1, OneTakenBack
<1>3. QED
  BY <1>2 DEF Reversible

\* The event e is inverted where it was applied.
TakenBack(g, e) == ~Skipped(e) /\ Undoes(Effect(g, e), InverseOf(e), g)

LEMMA SupplyTakenBack ==
  ASSUME NEW g \in Campaigns, NEW n \in 0 .. SupplyMaximum(g)
  PROVE  TakenBack(g, Changed(None, "supply", g.supply, n))
<1> DEFINE e == Changed(None, "supply", g.supply, n)
           i == Changed(None, "supply", n, g.supply)
           y == [g EXCEPT !.supply = n]
<1>1. InverseOf(e) = i /\ ~Skipped(e) /\ i.kind \in Kinds
  BY DEF InverseOf, Skipped, NotStateChanging, Changed, Kinds
<1>2. Effect(g, e) = y
  BY SupplyFits
<1>3. Applies(y, i) /\ Effect(y, i) = [y EXCEPT !.supply = g.supply]
  BY Shape DEF Games, Changed, Stock, Effect, SocialEffect, ChallengeEffect, CheckEffect, PartyEffect,
     Applies, SocialApplies, ChallengeApplies, CheckApplies, PartyApplies
<1>4. [y EXCEPT !.supply = g.supply] = g
  BY Shape DEF Games
<1> HIDE DEF e, i, y
<1>5. QED
  BY <1>1, <1>2, <1>3, <1>4 DEF TakenBack, Undoes, e

LEMMA StockTakenBack ==
  ASSUME NEW g \in Campaigns, NEW h \in g.heroes, NEW r \in Resources, NEW n \in 0 .. Maximum(r)
  PROVE  TakenBack(g, Changed(h, r, g.stock[h][r], n))
<1> DEFINE e == Changed(h, r, g.stock[h][r], n)
           i == Changed(h, r, n, g.stock[h][r])
           y == [g EXCEPT !.stock[h][r] = n]
<1>1. InverseOf(e) = i /\ ~Skipped(e) /\ i.kind \in Kinds
  BY DEF InverseOf, Skipped, NotStateChanging, Changed, Kinds
<1>2. Effect(g, e) = y
  BY StockFits
<1>3. h \in Heroes /\ h # None /\ g \in Games
  BY Shape, HeroesAssumption
<1>4. y.stock[h][r] = n
  BY <1>3 DEF Games
<1>5. Applies(y, i) /\ Effect(y, i) = [y EXCEPT !.stock[h][r] = g.stock[h][r]]
  BY <1>3, <1>4 DEF Changed, Stock, Effect, SocialEffect, ChallengeEffect, CheckEffect, PartyEffect,
     Applies, SocialApplies, ChallengeApplies, CheckApplies, PartyApplies
<1>6. [y EXCEPT !.stock[h][r] = g.stock[h][r]] = g
  BY <1>3 DEF Games
<1> HIDE DEF e, i, y
<1>7. QED
  BY <1>1, <1>2, <1>5, <1>6 DEF TakenBack, Undoes, e

LEMMA StanceTakenBack ==
  ASSUME NEW g \in Campaigns, NEW n \in Npcs, g.social[n] # None, NEW to \in Stances, NEW degree \in Degrees,
         (IF to > g.social[n].stance THEN to - g.social[n].stance ELSE g.social[n].stance - to)
           \in 1 .. Steps(degree)
  PROVE  TakenBack(g, [kind |-> "social_stance_changed", on |-> n, previous |-> g.social[n].stance,
                       current |-> to, degree |-> degree])
<1> DEFINE was == g.social[n].stance
           e == [kind |-> "social_stance_changed", on |-> n, previous |-> was, current |-> to,
                 degree |-> degree]
           i == [kind |-> "social_stance_changed", on |-> n, previous |-> to, current |-> was,
                 degree |-> degree]
           y == [g EXCEPT !.social[n].stance = to]
<1>1. InverseOf(e) = i /\ ~Skipped(e) /\ i.kind \in Kinds
  BY DEF InverseOf, Skipped, NotStateChanging, Kinds
<1>2. Effect(g, e) = y
  BY StanceFits
<1>3. /\ g \in Games /\ g.social \in [Npcs -> Bonds \cup {None}] /\ g.social[n] \in Bonds
      /\ was \in 1 .. 4 /\ to \in 1 .. 4
  BY Shape, BondOf DEF Bonds, Stances
<1>4. y.social[n] = [g.social[n] EXCEPT !.stance = to] /\ y.social[n] \in Bonds /\ y.social[n].stance = to
  BY <1>3 DEF Games, Bonds
<1>5. y.social[n] # None
  BY <1>4, NoneAssumption
<1>6. (IF was > to THEN was - to ELSE to - was) \in 1 .. Steps(degree)
  <2> HIDE DEF was
  <2>1. Steps(degree) \in Nat
    BY DEF Steps
  <2>2. (IF to > was THEN to - was ELSE was - to) \in 1 .. Steps(degree)
    BY DEF was
  <2>3. QED
    BY <1>3, <2>1, <2>2
<1> HIDE DEF was, y
<1>7. Applies(y, i) /\ Effect(y, i) = [y EXCEPT !.social[n].stance = was]
  BY <1>4, <1>5, <1>6 DEF Effect, SocialEffect, Applies, SocialApplies, Steps
<1>8. [y EXCEPT !.social[n].stance = was] = g
  BY <1>3 DEF Games, Bonds, y, was
<1> HIDE DEF e, i
<1>9. QED
  BY <1>1, <1>2, <1>7, <1>8 DEF TakenBack, Undoes, e, was

LEMMA LeverageTakenBack ==
  ASSUME NEW g \in Campaigns, NEW n \in Npcs, NEW l \in Leverage,
         g.social[n] # None, l \notin g.social[n].leverage,
         Cardinality(g.social[n].leverage) < LeverageCapacity
  PROVE  TakenBack(g, [kind |-> "leverage_created", on |-> n, leverage |-> l])
<1> DEFINE e == [kind |-> "leverage_created", on |-> n, leverage |-> l]
           i == [kind |-> "leverage_spent", on |-> n, leverage |-> l]
           y == [g EXCEPT !.social[n].leverage = @ \cup {l}]
<1>1. InverseOf(e) = i /\ ~Skipped(e) /\ i.kind \in Kinds
  BY DEF InverseOf, Skipped, NotStateChanging, Kinds
<1>2. Effect(g, e) = y
  BY LeverageCreatedFits
<1>3. g \in Games /\ g.social \in [Npcs -> Bonds \cup {None}] /\ g.social[n] \in Bonds
  BY Shape, BondOf
<1>4. y.social[n] \in Bonds /\ y.social[n].leverage = g.social[n].leverage \cup {l}
  BY <1>3 DEF Games, Bonds
<1>5. y.social[n] # None
  BY <1>4, NoneAssumption
<1> HIDE DEF y
<1>6. Applies(y, i) /\ Effect(y, i) = [y EXCEPT !.social[n].leverage = @ \ {l}]
  BY <1>4, <1>5 DEF Effect, SocialEffect, Applies, SocialApplies
<1>7. [y EXCEPT !.social[n].leverage = @ \ {l}] = g
  <2>1. (g.social[n].leverage \cup {l}) \ {l} = g.social[n].leverage
    OBVIOUS
  <2>2. [y EXCEPT !.social[n].leverage = @ \ {l}] = [y EXCEPT !.social[n].leverage = g.social[n].leverage]
    BY <1>4, <2>1
  <2> DEFINE b == g.social[n]
             c == [b EXCEPT !.leverage = @ \cup {l}]
  <2>3. y = [g EXCEPT !.social[n] = c] /\ [c EXCEPT !.leverage = b.leverage] = b
    BY <1>3 DEF Games, Bonds, y
  <2>4. [y EXCEPT !.social[n].leverage = b.leverage] = [y EXCEPT !.social[n] = [y.social[n] EXCEPT !.leverage = b.leverage]]
    OBVIOUS
  <2>5. y.social[n] = c
    BY <1>3, <2>3 DEF Games
  <2> HIDE DEF c
  <2>6. [y EXCEPT !.social[n] = b] = g
    BY <1>3, <2>3 DEF Games
  <2>7. [y.social[n] EXCEPT !.leverage = b.leverage] = b
    BY <2>3, <2>5
  <2>8. [y EXCEPT !.social[n].leverage = b.leverage] = g
    BY <2>4, <2>6, <2>7
  <2>9. QED
    BY <2>2, <2>8
<1> HIDE DEF e, i
<1>8. QED
  BY <1>1, <1>2, <1>6, <1>7 DEF TakenBack, Undoes, e

-----------------------------------------------------------------------------
(* Decisions *)

\* The events of a decision fit, up to a check that the state cannot hold.
Accepted(g, es) ==
  \/ \E y \in Campaigns : ApplyAll(g, es) = Start(y)
  \/ ApplyAll(g, es).refused = "physical_roll_requested"

\* ... and can be taken back if the planner says so.
Settles(g, es) == Accepted(g, es) /\ Reversible(g, es)

LEMMA Committed ==
  ASSUME IInv, NEW es, Settles(game, es), Commit(es)
  PROVE  IInv'
<1>1. CASE \E y \in Campaigns : ApplyAll(game, es) = Start(y)
  <2>1. PICK y \in Campaigns : ApplyAll(game, es) = Start(y)
    BY <1>1
  <2>2. ApplyAll(game, es).refused = None /\ ApplyAll(game, es).game = y
    BY <2>1 DEF Start
  <2>3. Compensable(es) => Undone(game, es) = [game |-> game, refused |-> None]
    BY <2>2 DEF Settles, Reversible, Start
  <2>4. game' = y /\ verdict' = "applied"
    BY <2>2, <2>3 DEF Commit
  <2>5. QED
    BY <2>4 DEF IInv, AcceptedApplies, UndoRestores
<1>2. CASE ApplyAll(game, es).refused = "physical_roll_requested"
  <2>1. "physical_roll_requested" # None
    BY KindsAssumption DEF Kinds
  <2>2. verdict' = "physical_roll_requested" /\ game' = game
    BY <1>2, <2>1 DEF Commit
  <2>3. QED
    BY <2>2 DEF IInv, AcceptedApplies, UndoRestores
<1>3. QED
  BY <1>1, <1>2 DEF Accepted, Settles

LEMMA FitsIs ==
  ASSUME NEW g, NEW e, Fits(g, e)
  PROVE  e.kind \in Kinds /\ Applies(g, e) /\ ValidCampaign(Effect(g, e)) /\ Effect(g, e) \in Campaigns
BY DEF Fits, Campaigns

LEMMA AcceptedNone ==
  ASSUME NEW g \in Campaigns
  PROVE  Accepted(g, <<>>)
BY AppliedNone DEF Accepted

LEMMA AcceptedOne ==
  ASSUME NEW g, NEW e, Fits(g, e)
  PROVE  Accepted(g, <<e>>)
<1>1. e.kind \in Kinds /\ Applies(g, e) /\ ValidCampaign(Effect(g, e)) /\ Effect(g, e) \in Campaigns
  BY FitsIs
<1>2. ApplyAll(g, <<e>>) = Start(Effect(g, e))
  BY <1>1, AppliedOne
<1>3. QED
  BY <1>1, <1>2 DEF Accepted

LEMMA SettlesFinal ==
  ASSUME NEW g, NEW e, Fits(g, e), Final(e)
  PROVE  Settles(g, <<e>>)
<1>1. HasFinal(<<e>>) /\ <<e>> \in Seq({e})
  BY FinalOne
<1>2. Accepted(g, <<e>>) /\ Reversible(g, <<e>>)
  BY <1>1, AcceptedOne, FinalReversible
<1>3. QED
  BY <1>2 DEF Settles

LEMMA SettlesBack ==
  ASSUME NEW g \in Campaigns, NEW e, Fits(g, e), TakenBack(g, e)
  PROVE  Settles(g, <<e>>)
<1>1. Marks(<<e>>) = <<e>> /\ Undoes(Effect(g, e), InverseOf(e), g)
  BY MarksOfOne DEF TakenBack
<1>2. ApplyAll(g, <<e>>) = Start(Effect(g, e))
  BY AppliedOne, FitsIs
<1>3. Accepted(g, <<e>>) /\ Reversible(g, <<e>>)
  BY <1>1, <1>2, AcceptedOne, OneReversible
<1>4. QED
  BY <1>3 DEF Settles

LEMMA AcceptedFirst ==
  ASSUME NEW g, NEW e, Fits(g, e), NEW T, NEW fs \in Seq(T), Accepted(Effect(g, e), fs)
  PROVE  Accepted(g, <<e>> \o fs)
<1>1. e.kind \in Kinds /\ Applies(g, e) /\ ValidCampaign(Effect(g, e))
  BY FitsIs
<1>2. e \in T \cup {e} /\ fs \in Seq(T \cup {e})
  OBVIOUS
<1>3. ApplyAll(g, <<e>> \o fs) = ApplyAll(Effect(g, e), fs)
  BY <1>1, <1>2, AppliedFirst
<1>4. QED
  BY <1>3 DEF Accepted

LEMMA AcceptedTwo ==
  ASSUME NEW g, NEW e, NEW f, Fits(g, e), Fits(Effect(g, e), f)
  PROVE  Accepted(g, <<e>> \o <<f>>)
<1>1. <<f>> \in Seq({f})
  OBVIOUS
<1>2. Accepted(Effect(g, e), <<f>>)
  BY AcceptedOne
<1>3. QED
  BY <1>1, <1>2, AcceptedFirst

\* What is done to a fresh check does not depend on Spark.
LEMMA RequestedAccepted ==
  ASSUME NEW g \in Campaigns, g = game, NEW h \in g.heroes, NEW how, how = "spark" => h \in g.spark,
         NEW T, NEW then \in Seq(T),
         \A x \in Campaigns :
           /\ x.challenges = g.challenges /\ x.social = g.social /\ x.rituals = g.rituals
           /\ x.checks = g.checks \cup {NewCheck(FreshCheck, h, Disclosure(CheckRequest, how = "spark"))}
           => Accepted(x, then)
  PROVE  Accepted(g, Requested(h, how, then))
<1> DEFINE d == Disclosure(CheckRequest, how = "spark")
           roll == RollRequest(FreshCheck, h, d)
           spend == [kind |-> "spark_spent", hero |-> h]
<1>1. d \in Disclosures
  <2>1. (how = "spark") \in BOOLEAN
    OBVIOUS
  <2>2. QED
    BY <2>1 DEF Disclosures
<1>2. FreshCheck \in CheckIds /\ Pending(g, FreshCheck) = {}
  BY FreshExists DEF FreshCheck
<1>3. Requested(h, how, then) = (IF how = "spark" THEN <<spend>> ELSE <<>>) \o <<roll>> \o then
  BY DEF Requested, RollRequest
<1> HIDE DEF d
<1>4. ASSUME NEW x \in Campaigns, x.heroes = g.heroes, x.challenges = g.challenges,
             x.social = g.social, x.rituals = g.rituals, x.checks = g.checks
      PROVE  Accepted(x, <<roll>> \o then)
  <2> DEFINE y == [x EXCEPT !.checks = @ \cup {NewCheck(FreshCheck, h, d)}]
  <2>1. h \in x.heroes /\ Pending(x, FreshCheck) = {}
    BY <1>2, <1>4 DEF Pending
  <2>2. /\ roll.kind = "physical_roll_requested" /\ roll.kind \in Kinds /\ Applies(x, roll)
        /\ Effect(x, roll) = y
        /\ ValidCampaign(y) => y \in Campaigns
    BY <1>1, <1>2, <2>1, RequestFits
  <2>3. CASE ValidCampaign(y)
    <3>1. /\ y.challenges = g.challenges /\ y.social = g.social /\ y.rituals = g.rituals
          /\ y.checks = g.checks \cup {NewCheck(FreshCheck, h, d)}
      BY <1>4, Shape DEF Games
    <3>2. Effect(x, roll) = y /\ y \in Campaigns
      BY <2>2, <2>3
    <3> HIDE DEF y, roll
    <3>3. Accepted(y, then)
      BY <3>1, <3>2 DEF d
    <3>4. Fits(x, roll)
      BY <2>2, <2>3, <3>2 DEF Fits
    <3>5. QED
      BY <3>2, <3>3, <3>4, AcceptedFirst
  <2>4. CASE ~ValidCampaign(y)
    <3> HIDE DEF y, roll
    <3>1. Effect(x, roll) = y
      BY <2>2, <2>4
    <3>2. roll \in T \cup {roll} /\ then \in Seq(T \cup {roll})
      OBVIOUS
    <3>3. ApplyAll(x, <<roll>> \o then) = [game |-> x, refused |-> roll.kind]
      BY <2>2, <2>4, <3>1, <3>2, AppliedFirst
    <3>4. QED
      BY <2>2, <3>3 DEF Accepted
  <2>5. QED
    BY <2>3, <2>4
<1>5. CASE how # "spark"
  <2>1. Requested(h, how, then) = <<roll>> \o then
    BY <1>3, <1>5
  <2>2. QED
    BY <1>4, <2>1
<1>6. CASE how = "spark"
  <2>1. Requested(h, how, then) = <<spend>> \o (<<roll>> \o then)
    BY <1>3, <1>6
  <2>2. Fits(g, spend) /\ Effect(g, spend) = [g EXCEPT !.spark = @ \ {h}]
    BY <1>6, SparkSpentFits
  <2>3. Accepted(Effect(g, spend), <<roll>> \o then)
    BY <1>4, <2>2, Shape DEF Fits, Games
  <2>4. <<roll>> \o then \in Seq(T \cup {roll})
    OBVIOUS
  <2> HIDE DEF roll, spend
  <2> DEFINE rest == <<roll>> \o then
  <2>5. rest \in Seq(T \cup {roll}) /\ Accepted(Effect(g, spend), rest) /\ Fits(g, spend)
    BY <2>2, <2>3, <2>4
  <2> HIDE DEF rest
  <2>6. Accepted(g, <<spend>> \o rest)
    BY <2>5, AcceptedFirst
  <2>7. QED
    BY <2>1, <2>6 DEF rest
<1>7. QED
  BY <1>5, <1>6

LEMMA NewCheckIs ==
  ASSUME NEW id, NEW h, NEW d
  PROVE  NewCheck(id, h, d).id = id /\ NewCheck(id, h, d).then = [kind |-> "none"]
BY DEF NewCheck

\* The check that was just requested is called off, whatever it was bound to.
CalledOff(x, then) ==
  \E y : /\ ApplyAll(x, then) = Start(y) /\ Pending(y, FreshCheck) # {}
         /\ Cancel(y, FreshCheck) = [x EXCEPT !.checks = @ \ Pending(x, FreshCheck)]

LEMMA CancelIs ==
  ASSUME NEW y \in Games, NEW id, \A c \in Pending(y, id) : c.then.kind # "ritual"
  PROVE  Cancel(y, id) = [y EXCEPT !.checks = @ \ Pending(y, id)]
<1> DEFINE waiting == {r \in Rituals : \E c \in Pending(y, id) : c.then = [kind |-> "ritual", on |-> r]}
           back == [r \in Rituals |-> IF r \in waiting /\ y.rituals[r].status = "awaiting_resolution"
                                      THEN [y.rituals[r] EXCEPT !.status = "ready"] ELSE y.rituals[r]]
<1>1. Cancel(y, id) = [y EXCEPT !.checks = @ \ Pending(y, id), !.rituals = back]
  BY DEF Cancel
<1>2. waiting = {}
  OBVIOUS
<1>3. y.rituals \in [Rituals -> Rites \cup {None}]
  BY DEF Games
<1>4. back = y.rituals
  BY <1>2, <1>3
<1> HIDE DEF back
<1>5. QED
  BY <1>1, <1>4 DEF Games

\* Cancelling takes away just the check, bound or not.
Released(x, z, y, id, then) ==
  /\ Pending(y, id) # {} /\ y.checks \ Pending(y, id) = x.checks \ Pending(x, id)
  /\ \A d \in Pending(y, id) : d.then = then
  /\ \A cs : [y EXCEPT !.checks = cs] = [z EXCEPT !.checks = cs]

LEMMA Unbinding ==
  ASSUME NEW x \in Campaigns, NEW c \in x.checks, NEW z \in Games, z.checks = x.checks, NEW then
  PROVE  Released(x, z, Bind(z, c.id, then), c.id, then)
<1> DEFINE B(d) == IF d.id = c.id THEN [d EXCEPT !.then = then] ELSE d
           y == Bind(z, c.id, then)
<1>1. y = [z EXCEPT !.checks = {B(d) : d \in x.checks}]
  BY DEF Bind
<1>2. y.checks = {B(d) : d \in x.checks}
  BY <1>1 DEF Games
<1>3. \A d \in x.checks : B(d).id = d.id /\ (d.id = c.id => B(d).then = then) /\ (d.id # c.id => B(d) = d)
  <2>1. \A d \in x.checks : d \in Checks
    BY Shape
  <2>2. QED
    BY <2>1 DEF Checks
<1>4. \A cs : [y EXCEPT !.checks = cs] = [z EXCEPT !.checks = cs]
  BY <1>1 DEF Games
<1> HIDE DEF B, y
<1>5. B(c) \in Pending(y, c.id)
  BY <1>2, <1>3 DEF Pending
<1>6. y.checks \ Pending(y, c.id) = x.checks \ Pending(x, c.id)
  BY <1>2, <1>3 DEF Pending
<1>7. \A d \in Pending(y, c.id) : d.then = then
  BY <1>2, <1>3 DEF Pending
<1>8. QED
  BY <1>4, <1>5, <1>6, <1>7 DEF y, Released

LEMMA NoneCalledOff ==
  ASSUME NEW x \in Campaigns, NEW c \in x.checks, c.id = FreshCheck, c.then = [kind |-> "none"]
  PROVE  CalledOff(x, <<>>)
<1>1. c \in Pending(x, FreshCheck) /\ x \in Games
  BY Shape DEF Pending
<1>2. \A d \in Pending(x, FreshCheck) : d = c
  BY DEF Pending, Campaigns, Apart
<1>3. Cancel(x, FreshCheck) = [x EXCEPT !.checks = @ \ Pending(x, FreshCheck)]
  BY <1>1, <1>2, CancelIs
<1>4. ApplyAll(x, <<>>) = Start(x)
  BY AppliedNone
<1>5. QED
  BY <1>1, <1>3, <1>4 DEF CalledOff

\* A check of a challenge or a social state.
LEMMA BoundCalledOff ==
  ASSUME NEW x \in Campaigns, NEW c \in x.checks, c.id = FreshCheck, NEW e, Fits(x, e),
         NEW then, then.kind # "ritual", Effect(x, e) = Bind(x, c.id, then)
  PROVE  CalledOff(x, <<e>>)
<1> DEFINE y == Bind(x, c.id, then)
<1>1. y \in Games /\ x \in Games
  BY Shape DEF Fits
<1>2. ApplyAll(x, <<e>>) = Start(y)
  BY AppliedOne, FitsIs
<1>3. /\ Pending(y, c.id) # {} /\ y.checks \ Pending(y, c.id) = x.checks \ Pending(x, c.id)
      /\ \A d \in Pending(y, c.id) : d.then = then
      /\ \A cs : [y EXCEPT !.checks = cs] = [x EXCEPT !.checks = cs]
  <2>1. Released(x, x, y, c.id, then)
    BY <1>1, Unbinding
  <2> HIDE DEF y
  <2>2. QED
    BY <2>1 DEF Released
<1> HIDE DEF y
<1>4. Cancel(y, FreshCheck) = [y EXCEPT !.checks = @ \ Pending(y, FreshCheck)]
  BY <1>1, <1>3, CancelIs
<1>5. Cancel(y, FreshCheck) = [x EXCEPT !.checks = @ \ Pending(x, FreshCheck)]
  BY <1>3, <1>4
<1>6. QED
  BY <1>2, <1>3, <1>5 DEF CalledOff

\* The ritual of a check that is called off is ready, as before.
LEMMA RitualCalledOff ==
  ASSUME NEW x \in Campaigns, NEW c \in x.checks, c.id = FreshCheck, c.then = [kind |-> "none"],
         NEW r \in Rituals, x.rituals[r] # None, x.rituals[r].status = "ready"
  PROVE  CalledOff(x, <<[kind |-> "ritual_check_pending", on |-> r, check |-> c.id]>>)
<1> DEFINE e == [kind |-> "ritual_check_pending", on |-> r, check |-> c.id]
           then == [kind |-> "ritual", on |-> r]
           z == [x EXCEPT !.rituals[r].status = "awaiting_resolution"]
           y == Bind(z, c.id, then)
           waiting == {s \in Rituals : \E d \in Pending(y, c.id) : d.then = [kind |-> "ritual", on |-> s]}
           back == [s \in Rituals |-> IF s \in waiting /\ y.rituals[s].status = "awaiting_resolution"
                                      THEN [y.rituals[s] EXCEPT !.status = "ready"] ELSE y.rituals[s]]
<1>1. Fits(x, e) /\ Effect(x, e) = y
  BY RitualCheckFits
<1>2. ApplyAll(x, <<e>>) = Start(y) /\ y \in Games /\ x \in Games
  BY <1>1, AppliedOne, FitsIs, Shape
<1>3. x.rituals \in [Rituals -> Rites \cup {None}] /\ x.rituals[r] \in Rites
  BY Shape
<1>4. z.checks = x.checks /\ z.rituals = [x.rituals EXCEPT ![r] = [@ EXCEPT !.status = "awaiting_resolution"]]
  BY <1>2 DEF Games
<1>5. z \in Games
  <2>1. [x.rituals[r] EXCEPT !.status = "awaiting_resolution"] \in Rites
    BY <1>3 DEF Rites
  <2>2. z.rituals \in [Rituals -> Rites \cup {None}]
    BY <1>3, <1>4, <2>1
  <2>3. z = [x EXCEPT !.rituals = z.rituals]
    BY <1>2, <1>4 DEF Games
  <2> HIDE DEF z
  <2>4. QED
    BY <1>2, <2>2, <2>3 DEF Games
<1>6. y.rituals = z.rituals
  BY <1>5 DEF Bind, Games
<1>7. /\ Pending(y, c.id) # {} /\ y.checks \ Pending(y, c.id) = x.checks \ Pending(x, c.id)
      /\ \A d \in Pending(y, c.id) : d.then = then
      /\ \A cs : [y EXCEPT !.checks = cs] = [z EXCEPT !.checks = cs]
  <2>1. z \in Games /\ z.checks = x.checks
    BY <1>4, <1>5
  <2> HIDE DEF z, then
  <2>2. Released(x, z, y, c.id, then)
    BY <2>1, Unbinding
  <2> HIDE DEF y
  <2>3. QED
    BY <2>2 DEF Released
<1>8. Cancel(y, c.id) = [y EXCEPT !.checks = @ \ Pending(y, c.id), !.rituals = back]
  BY DEF Cancel
<1> HIDE DEF y
<1>9. waiting = {r}
  <2>1. \A s \in Rituals : (then = [kind |-> "ritual", on |-> s]) <=> s = r
    OBVIOUS
  <2> HIDE DEF then
  <2>2. QED
    BY <1>7, <2>1
<1> HIDE DEF waiting, z
<1>10. back = x.rituals
  <2>1. ASSUME NEW s \in Rituals PROVE back[s] = x.rituals[s]
    <3>1. CASE s = r
      <4>1. y.rituals[r] = [x.rituals[r] EXCEPT !.status = "awaiting_resolution"]
        BY <1>3, <1>4, <1>6
      <4>2. back[r] = [y.rituals[r] EXCEPT !.status = "ready"]
        BY <1>3, <1>9, <4>1 DEF Rites
      <4>3. [y.rituals[r] EXCEPT !.status = "ready"] = x.rituals[r]
        BY <1>3, <4>1 DEF Rites
      <4>4. QED
        BY <3>1, <4>2, <4>3
    <3>2. CASE s # r
      BY <1>3, <1>4, <1>6, <1>9, <3>2
    <3>3. QED
      BY <3>1, <3>2
  <2>2. QED
    BY <1>3, <2>1
<1> HIDE DEF back
<1> DEFINE cs == x.checks \ Pending(x, c.id)
<1>11. [y EXCEPT !.checks = cs, !.rituals = x.rituals] = [x EXCEPT !.checks = cs]
  <2>1. [y EXCEPT !.checks = cs, !.rituals = x.rituals] = [[y EXCEPT !.checks = cs] EXCEPT !.rituals = x.rituals]
    OBVIOUS
  <2>2. [y EXCEPT !.checks = cs] = [z EXCEPT !.checks = cs]
    BY <1>7
  <2>3. [[z EXCEPT !.checks = cs] EXCEPT !.rituals = x.rituals] = [x EXCEPT !.checks = cs]
    BY <1>2, <1>3 DEF Games, z
  <2>4. QED
    BY <2>1, <2>2, <2>3
<1>12. Cancel(y, FreshCheck) = [x EXCEPT !.checks = @ \ Pending(x, FreshCheck)]
  BY <1>7, <1>8, <1>10, <1>11
<1> HIDE DEF e
<1>13. QED
  BY <1>2, <1>7, <1>12 DEF CalledOff, e

\* A requested check can be taken back, and the Spark with it.
LEMMA RequestedReversible ==
  ASSUME NEW g \in Campaigns, g = game, NEW h \in g.heroes, NEW how, how = "spark" => h \in g.spark,
         NEW then, then = <<>> \/ \E p : then = <<p>> /\ Skipped(p),
         \A x \in Campaigns :
           /\ x.challenges = g.challenges /\ x.social = g.social /\ x.rituals = g.rituals
           /\ x.checks = g.checks \cup {NewCheck(FreshCheck, h, Disclosure(CheckRequest, how = "spark"))}
           => CalledOff(x, then)
  PROVE  Reversible(g, Requested(h, how, then))
<1> DEFINE d == Disclosure(CheckRequest, how = "spark")
           n == NewCheck(FreshCheck, h, d)
           roll == RollRequest(FreshCheck, h, d)
           spend == [kind |-> "spark_spent", hero |-> h]
           restore == [kind |-> "spark_restored", hero |-> h]
           cancel == [kind |-> "physical_roll_cancelled", check |-> FreshCheck]
<1>1. d \in Disclosures
  <2>1. (how = "spark") \in BOOLEAN
    OBVIOUS
  <2>2. QED
    BY <2>1 DEF Disclosures
<1>2. FreshCheck \in CheckIds /\ Pending(g, FreshCheck) = {}
  BY FreshExists DEF FreshCheck
<1>3. Requested(h, how, then) = (IF how = "spark" THEN <<spend>> ELSE <<>>) \o <<roll>> \o then
  BY DEF Requested, RollRequest
<1>4. /\ ~Skipped(roll) /\ InverseOf(roll) = cancel /\ cancel.kind \in Kinds
      /\ ~Skipped(spend) /\ InverseOf(spend) = restore /\ restore.kind \in Kinds
  BY DEF RollRequest, Skipped, NotStateChanging, InverseOf, Kinds
<1>5. n.id = FreshCheck
  BY NewCheckIs
<1>6. \E P : then \in Seq(P)
  <2>1. CASE then = <<>>
    <3>1. <<>> \in Seq({})
      OBVIOUS
    <3>2. QED
      BY <2>1, <3>1
  <2>2. CASE \E p : then = <<p>>
    <3>1. PICK p : then = <<p>>
      BY <2>2
    <3>2. <<p>> \in Seq({p})
      OBVIOUS
    <3>3. QED
      BY <3>1, <3>2
  <2>3. QED
    BY <2>1, <2>2
<1> HIDE DEF d, n
\* The request and what follows it, undone up to the state of the request.
<1>7. ASSUME NEW w \in Campaigns, w.heroes = g.heroes, w.challenges = g.challenges,
             w.social = g.social, w.rituals = g.rituals, w.checks = g.checks,
             ApplyAll(w, <<roll>> \o then).refused = None
      PROVE  \E y : ApplyAll(w, <<roll>> \o then) = Start(y) /\ Undoes(y, cancel, w)
  <2> DEFINE x == [w EXCEPT !.checks = @ \cup {n}]
  <2>1. h \in w.heroes /\ Pending(w, FreshCheck) = {} /\ w \in Games
    BY <1>2, <1>7, Shape DEF Pending
  <2>2. /\ roll.kind = "physical_roll_requested" /\ roll.kind \in Kinds /\ Applies(w, roll)
        /\ Effect(w, roll) = x
        /\ ValidCampaign(x) => x \in Campaigns
    BY <1>1, <1>2, <2>1, RequestFits DEF n
  <2>3. /\ x.challenges = g.challenges /\ x.social = g.social /\ x.rituals = g.rituals
        /\ x.checks = g.checks \cup {n} /\ \A cs : [x EXCEPT !.checks = cs] = [w EXCEPT !.checks = cs]
        /\ w = [w EXCEPT !.checks = g.checks]
    BY <1>7, <2>1 DEF Games
  <2> HIDE DEF x, roll
  <2>4. PICK P : then \in Seq(P)
    BY <1>6
  <2>5. roll \in P \cup {roll} /\ then \in Seq(P \cup {roll})
    BY <2>4
  <2>6. ValidCampaign(x) /\ ApplyAll(w, <<roll>> \o then) = ApplyAll(x, then)
    <3>1. IF ValidCampaign(x)
          THEN ApplyAll(w, <<roll>> \o then) = ApplyAll(x, then)
          ELSE ApplyAll(w, <<roll>> \o then) = [game |-> w, refused |-> roll.kind]
      BY <2>2, <2>5, AppliedFirst
    <3>2. roll.kind # None
      BY <2>2, KindsAssumption
    <3>3. QED
      BY <1>7, <3>1, <3>2
  <2>7. CalledOff(x, then)
    BY <2>2, <2>3, <2>6 DEF n, d
  <2>8. PICK y : /\ ApplyAll(x, then) = Start(y) /\ Pending(y, FreshCheck) # {}
                 /\ Cancel(y, FreshCheck) = [x EXCEPT !.checks = @ \ Pending(x, FreshCheck)]
    BY <2>7 DEF CalledOff
  <2>9. x.checks \ Pending(x, FreshCheck) = g.checks
    BY <1>2, <1>5, <2>3 DEF Pending
  <2>10. Cancel(y, FreshCheck) = w
    BY <2>3, <2>8, <2>9
  <2>11. Applies(y, cancel) /\ Effect(y, cancel) = Cancel(y, FreshCheck)
    BY <2>8 DEF Effect, SocialEffect, ChallengeEffect, CheckEffect,
       Applies, SocialApplies, ChallengeApplies, CheckApplies
  <2>12. QED
    BY <1>4, <2>6, <2>8, <2>10, <2>11 DEF Undoes
\* What follows leaves no mark.
<1>8. ASSUME NEW E, NEW ms \in Seq(E)
      PROVE  Marks(ms \o then) = Marks(ms)
  <2>1. CASE then = <<>>
    <3>1. ms \o <<>> = ms
      OBVIOUS
    <3>2. QED
      BY <2>1, <3>1
  <2>2. CASE \E p : then = <<p>> /\ Skipped(p)
    BY <2>2, MarksAfter
  <2>3. QED
    BY <2>1, <2>2
<1>9. SUFFICES ASSUME ApplyAll(g, Requested(h, how, then)).refused = None
               PROVE  Undone(g, Requested(h, how, then)) = Start(g)
  BY DEF Reversible
<1>10. ValidCampaign(g)
  BY DEF Campaigns
<1>11. CASE how # "spark"
  <2>1. Requested(h, how, then) = <<roll>> \o then
    BY <1>3, <1>11
  <2> HIDE DEF roll, cancel
  <2>2. PICK y : ApplyAll(g, <<roll>> \o then) = Start(y) /\ Undoes(y, cancel, g)
    BY <1>7, <1>9, <2>1
  <2>3. <<roll>> \in Seq({roll})
    OBVIOUS
  <2>4. Marks(<<roll>> \o then) = <<roll>>
    BY <1>4, <1>8, <2>3, MarksOfOne
  <2>5. Undoes(y, InverseOf(roll), g)
    BY <1>4, <2>2
  <2>6. QED
    BY <1>10, <2>1, <2>2, <2>4, <2>5, OneTakenBack
<1>12. CASE how = "spark"
  <2> DEFINE w == [g EXCEPT !.spark = @ \ {h}]
  <2>1. Requested(h, how, then) = <<spend>> \o (<<roll>> \o then)
    <3> HIDE DEF roll, spend
    <3>1. PICK P : then \in Seq(P)
      BY <1>6
    <3>2. (<<spend>> \o <<roll>>) \o then = <<spend>> \o (<<roll>> \o then)
      BY <3>1
    <3>3. QED
      BY <1>3, <1>12, <3>2
  <2>2. Fits(g, spend) /\ Effect(g, spend) = w
    BY <1>12, SparkSpentFits
  <2>3. /\ w \in Campaigns /\ w.heroes = g.heroes /\ w.challenges = g.challenges
        /\ w.social = g.social /\ w.rituals = g.rituals /\ w.checks = g.checks
        /\ w.spark = g.spark \ {h} /\ ValidCampaign(w)
    BY <2>2, Shape DEF Fits, Games, Campaigns
  <2>4. Undoes(w, restore, g)
    <3>1. Applies(w, restore) /\ Effect(w, restore) = [w EXCEPT !.spark = @ \cup {h}]
      BY <2>3 DEF Effect, SocialEffect, ChallengeEffect, CheckEffect,
         Applies, SocialApplies, ChallengeApplies, CheckApplies
    <3>2. (g.spark \ {h}) \cup {h} = g.spark
      BY <1>12
    <3>3. [w EXCEPT !.spark = @ \cup {h}] = g
      BY <2>3, <3>2, Shape DEF Games
    <3>4. QED
      BY <1>4, <3>1, <3>3 DEF Undoes
  <2> HIDE DEF roll, spend, restore, cancel, w
  <2>5. PICK P : then \in Seq(P)
    BY <1>6
  <2> DEFINE rest == <<roll>> \o then
  <2>6. spend \in P \cup {roll, spend} /\ rest \in Seq(P \cup {roll, spend})
    BY <2>5
  <2>7. <<spend>> \in Seq({spend, roll}) /\ <<spend>> \o rest = (<<spend>> \o <<roll>>) \o then
        /\ <<spend>> \o <<roll>> \in Seq({spend, roll})
    BY <2>5
  <2>8. Marks(<<spend>> \o <<roll>>) = Append(<<spend>>, roll)
    BY <1>4, <2>7, MarksAfter, MarksOfOne
  <2>9. Marks(<<spend>> \o rest) = Append(<<spend>>, roll)
    BY <1>8, <2>7, <2>8
  <2> HIDE DEF rest
  <2>10. ApplyAll(g, <<spend>> \o rest) = ApplyAll(w, rest)
    BY <2>2, <2>6, AppliedFirst, FitsIs
  <2>11. PICK y : ApplyAll(w, rest) = Start(y) /\ Undoes(y, cancel, w)
    <3>1. ApplyAll(w, rest).refused = None
      BY <1>9, <2>1, <2>10 DEF rest
    <3>2. QED
      BY <1>7, <2>3, <3>1 DEF rest
  <2>12. Undoes(y, InverseOf(roll), w) /\ Undoes(w, InverseOf(spend), g)
    BY <1>4, <2>4, <2>11
  <2>13. Undone(g, <<spend>> \o rest) = Start(g)
    <3>1. ApplyAll(g, <<spend>> \o rest) = Start(y)
      BY <2>10, <2>11
    <3> DEFINE es == <<spend>> \o rest
    <3>2. ApplyAll(g, es) = Start(y) /\ Marks(es) = Append(<<spend>>, roll)
      BY <2>9, <3>1
    <3> HIDE DEF es
    <3>3. Undone(g, es) = Start(g)
      BY <1>10, <2>3, <2>12, <3>2, TwoTakenBack
    <3>4. QED
      BY <3>3 DEF es
  <2>14. QED
    BY <2>1, <2>13 DEF rest
<1>13. QED
  BY <1>11, <1>12

LEMMA RequestedSettles ==
  ASSUME NEW g \in Campaigns, g = game, NEW h \in g.heroes, NEW how, how = "spark" => h \in g.spark,
         NEW then, then = <<>> \/ \E p : then = <<p>> /\ Skipped(p),
         \A x \in Campaigns :
           /\ x.challenges = g.challenges /\ x.social = g.social /\ x.rituals = g.rituals
           /\ x.checks = g.checks \cup {NewCheck(FreshCheck, h, Disclosure(CheckRequest, how = "spark"))}
           => Accepted(x, then) /\ CalledOff(x, then)
  PROVE  Settles(g, Requested(h, how, then))
<1>1. \E T : then \in Seq(T)
  <2>1. <<>> \in Seq({}) /\ \A p : <<p>> \in Seq({p})
    OBVIOUS
  <2>2. QED
    BY <2>1
<1>2. Accepted(g, Requested(h, how, then))
  BY <1>1, RequestedAccepted
<1>3. Reversible(g, Requested(h, how, then))
  BY RequestedReversible
<1>4. QED
  BY <1>2, <1>3 DEF Settles

LEMMA ResolveIs ==
  ASSUME NEW r, NEW face
  PROVE  ResolveCheck(r, face) \in Degrees
<1>1. \A delta : DegreeForDelta(delta) \in Degrees
  BY DEF DegreeForDelta, Degrees, Crisis, Setback, Success, Triumph
<1>2. QED
  BY <1>1 DEF ResolveCheck, ResolveDegree, ShiftDegree

\* The tracks of an open challenge, moved by a check that no other waits with.
LEMMA ChallengeAccepted ==
  ASSUME NEW g \in Campaigns, g.challenges = game.challenges, NEW ch \in Challenges,
         OpenChallenge(g, ch), WaitsFor(g, "challenge", ch) = {}, NEW degree \in Degrees
  PROVE  /\ Accepted(g, ChallengeEvents(ch, degree))
         /\ \E T : ChallengeEvents(ch, degree) \in Seq(T)
         /\ Lasting(ChallengeEvents(ch, degree))
<1> DEFINE t == g.challenges[ch]
           progress == MinOf(ProgressMax, t.progress + OutcomeEffects[degree].progress)
           danger == MinOf(DangerMax, t.danger + OutcomeEffects[degree].danger)
           after == [status |-> TrackStatus(progress, danger), progress |-> progress, danger |-> danger]
           move == [kind |-> "challenge_tracks_changed", on |-> ch, before |-> t, after |-> after]
           settle == [kind |-> "challenge_resolved", on |-> ch, outcome |-> TrackStatus(progress, danger)]
<1>1. ChallengeEvents(ch, degree) = <<move>> \o IF TrackStatus(progress, danger) = "active" THEN <<>> ELSE <<settle>>
  BY DEF ChallengeEvents
<1>2. /\ t.progress \in 0 .. ProgressMax /\ t.danger \in 0 .. DangerMax
      /\ ProgressMax \in Nat /\ DangerMax \in Nat
  <2>1. t \in Tracks
    BY Shape DEF OpenChallenge
  <2>2. t.progress <= ProgressMax /\ t.danger <= DangerMax
    BY DEF OpenChallenge, Campaigns, ValidCampaign, ValidChallenges
  <2>3. QED
    BY <2>1, <2>2, BoundsAssumption DEF Tracks
<1>3. progress \in t.progress .. ProgressMax /\ danger \in t.danger .. DangerMax
  <2>1. OutcomeEffects[degree].progress \in Nat /\ OutcomeEffects[degree].danger \in Nat
    BY OutcomesAssumption
  <2> HIDE DEF t
  <2>2. QED
    BY <1>2, <2>1 DEF MinOf
<1>4. /\ after \in Tracks /\ after.progress = progress /\ after.danger = danger
      /\ after.status = TrackStatus(progress, danger)
  <2>1. TrackStatus(progress, danger) \in {"active", "completed", "failed", "resolved_with_cost"}
    BY DEF TrackStatus
  <2>2. progress \in Nat /\ danger \in Nat
    BY <1>2, <1>3
  <2> HIDE DEF progress, danger
  <2>3. QED
    BY <2>1, <2>2 DEF Tracks
<1> HIDE DEF progress, danger
<1>5. Fits(g, move) /\ Effect(g, move) = [g EXCEPT !.challenges[ch] = after] /\ Lasting(<<move>>)
  <2> HIDE DEF after
  <2>1. Fits(g, move) /\ Effect(g, move) = [g EXCEPT !.challenges[ch] = after]
    BY <1>3, <1>4, TracksChangedFits
  <2>2. Final(move)
    BY DEF Final, Skipped, NotStateChanging, InverseKinds
  <2> HIDE DEF move
  <2>3. QED
    BY <2>1, <2>2, LastingOne
<1> HIDE DEF move
<1>6. CASE TrackStatus(progress, danger) = "active"
  <2>1. ChallengeEvents(ch, degree) = <<move>>
    BY <1>1, <1>6
  <2>2. QED
    <3>1. <<move>> \in Seq({move})
      OBVIOUS
    <3>2. Accepted(g, <<move>>)
      BY <1>5, AcceptedOne
    <3>3. QED
      BY <1>5, <2>1, <3>1, <3>2
<1>7. CASE TrackStatus(progress, danger) # "active"
  <2>1. ChallengeEvents(ch, degree) = <<move>> \o <<settle>>
    BY <1>1, <1>7
  <2> DEFINE x == Effect(g, move)
  <2>2. x \in Campaigns /\ x.challenges[ch].status = TrackStatus(progress, danger)
    <3>1. x.challenges[ch] = after
      BY <1>5, Shape DEF Games
    <3>2. QED
      BY <1>4, <1>5, <3>1 DEF Fits
  <2> HIDE DEF x
  <2>3. Fits(x, settle)
    BY <2>2, ChallengeResolvedFits
  <2>4. Accepted(g, <<move>> \o <<settle>>)
    BY <1>5, <2>3, AcceptedTwo DEF x
  <2>5. <<move>> \in Seq({move}) /\ <<settle>> \in Seq({settle})
        /\ <<move>> \o <<settle>> \in Seq({move, settle})
    OBVIOUS
  <2> HIDE DEF settle
  <2>6. Lasting(<<move>> \o <<settle>>)
    BY <1>5, <2>5, LastingJoined
  <2>7. QED
    BY <2>1, <2>4, <2>5, <2>6 DEF settle
<1>8. QED
  BY <1>6, <1>7

\* A stance moves towards the requested one, as far as the degree allows.
LEMMA SocialAccepted ==
  ASSUME NEW g \in Campaigns, g.social = game.social, NEW n \in Npcs, g.social[n] # None,
         NEW requested \in Stances, NEW degree \in Degrees
  PROVE  /\ Accepted(g, SocialEvents(n, requested, degree))
         /\ \E T : SocialEvents(n, requested, degree) \in Seq(T)
         /\ \/ SocialEvents(n, requested, degree) = <<>>
            \/ \E e : SocialEvents(n, requested, degree) = <<e>> /\ Fits(g, e) /\ TakenBack(g, e)
<1> DEFINE stance == g.social[n].stance
           steps == Steps(degree)
           next == IF requested > stance THEN MinOf(requested, stance + steps)
                   ELSE IF requested < stance - steps THEN stance - steps ELSE requested
           turn == [kind |-> "social_stance_changed", on |-> n, previous |-> stance,
                    current |-> next, degree |-> degree]
<1>1. SocialEvents(n, requested, degree) = IF steps = 0 \/ requested = stance THEN <<>> ELSE <<turn>>
  BY DEF SocialEvents, Steps
<1>2. stance \in 1 .. 4 /\ requested \in 1 .. 4 /\ steps \in 0 .. 2
  BY BondOf DEF Bonds, Stances, Steps
<1>3. CASE steps = 0 \/ requested = stance
  <2>1. SocialEvents(n, requested, degree) = <<>> /\ <<>> \in Seq({})
    BY <1>1, <1>3
  <2>2. QED
    BY <2>1, AcceptedNone
<1>4. CASE ~(steps = 0 \/ requested = stance)
  <2>1. SocialEvents(n, requested, degree) = <<turn>> /\ <<turn>> \in Seq({turn})
    BY <1>1, <1>4
  <2>2. /\ next \in Stances
        /\ (IF next > stance THEN next - stance ELSE stance - next) \in 1 .. steps
    <3> HIDE DEF stance, steps
    <3>1. CASE requested > stance
      <4>1. next = MinOf(requested, stance + steps)
        BY <3>1
      <4> HIDE DEF next
      <4>2. QED
        BY <1>2, <1>4, <3>1, <4>1 DEF MinOf, Stances
    <3>2. CASE requested < stance
      <4>1. next = IF requested < stance - steps THEN stance - steps ELSE requested
        BY <1>2, <3>2
      <4> HIDE DEF next
      <4>2. QED
        BY <1>2, <1>4, <3>2, <4>1 DEF Stances
    <3>3. QED
      BY <1>2, <1>4, <3>1, <3>2
  <2> HIDE DEF next
  <2>3. Fits(g, turn) /\ TakenBack(g, turn)
    BY <2>2, StanceFits, StanceTakenBack
  <2>4. QED
    BY <2>1, <2>3, AcceptedOne
<1>5. QED
  BY <1>3, <1>4

-----------------------------------------------------------------------------
(* The consequences of a ritual *)

\* Two states with the same resources.
Alike(g, l) == g.heroes = l.heroes /\ g.supply = l.supply /\ g.stock = l.stock

Adjustments == [resource : Resources \cup {"supply"}, amount : Int]

LEMMA ConsequencesAre ==
  ASSUME NEW degree \in Degrees
  PROVE  Consequences[degree] \in Seq(Adjustments)
BY RitualAssumption DEF Adjustments

\* An adjustment stays in the bounds of the resource, and depends on nothing else.
LEMMA AdjustmentFits ==
  ASSUME NEW g \in Campaigns, NEW l \in Campaigns, Alike(g, l), NEW h \in g.heroes, NEW f \in Adjustments
  PROVE  LET e == Adjustment(l, h, f)
         IN /\ Fits(g, e) /\ Fits(l, e) /\ Alike(Effect(g, e), Effect(l, e))
            /\ Effect(g, e).rituals = g.rituals /\ Effect(g, e).checks = g.checks
            /\ Effect(g, e).heroes = g.heroes
<1> DEFINE owner == IF f.resource = "supply" THEN None ELSE h
           have == Stock(l, owner, f.resource)
           n == IF have + f.amount < 0 THEN 0 ELSE MinOf(Cap(l, owner, f.resource), have + f.amount)
           e == Changed(owner, f.resource, have, n)
<1>1. Adjustment(l, h, f) = e
  BY DEF Adjustment
<1>2. /\ f.amount \in Int /\ f.resource \in Resources \cup {"supply"} /\ h \in Heroes /\ h # None
      /\ "supply" \notin Resources /\ g.heroes = l.heroes /\ g.supply = l.supply /\ g.stock = l.stock
  BY Shape, HeroesAssumption DEF Adjustments, Resources, Alike
<1>3. \A cap \in Nat : \A s \in 0 .. cap :
        (IF s + f.amount < 0 THEN 0 ELSE MinOf(cap, s + f.amount)) \in 0 .. cap
  BY <1>2 DEF MinOf
<1>4. CASE f.resource = "supply"
  <2>1. /\ have = l.supply /\ n \in 0 .. SupplyMaximum(l) /\ SupplyMaximum(g) = SupplyMaximum(l)
        /\ e = Changed(None, "supply", l.supply, n)
    <3>1. owner = None /\ have = l.supply /\ Cap(l, owner, f.resource) = SupplyMaximum(l)
      BY <1>4 DEF Stock, Cap
    <3>2. SupplyMaximum(l) \in Nat /\ l.supply \in 0 .. SupplyMaximum(l)
      BY Shape DEF SupplyMaximum
    <3>3. SupplyMaximum(g) = SupplyMaximum(l)
      BY <1>2 DEF SupplyMaximum
    <3> HIDE DEF owner, have
    <3>4. n \in 0 .. SupplyMaximum(l)
      BY <1>3, <3>1, <3>2
    <3>5. QED
      BY <1>4, <3>1, <3>3, <3>4
  <2> HIDE DEF n, e, have
  <2>2. Fits(l, e) /\ Effect(l, e) = [l EXCEPT !.supply = n]
    BY <2>1, SupplyFits
  <2>3. Fits(g, e) /\ Effect(g, e) = [g EXCEPT !.supply = n]
    BY <1>2, <2>1, SupplyFits
  <2>4. QED
    BY <1>1, <1>2, <2>2, <2>3, Shape DEF Alike, Games
<1>5. CASE f.resource # "supply"
  <2> DEFINE r == f.resource
  <2>1. /\ r \in Resources /\ n \in 0 .. Maximum(r) /\ e = Changed(h, r, l.stock[h][r], n)
    <3>1. r \in Resources /\ owner = h /\ have = l.stock[h][r] /\ Cap(l, owner, r) = Maximum(r)
      BY <1>2, <1>5 DEF Stock, Cap
    <3>2. Maximum(r) \in Nat /\ l.stock[h][r] \in 0 .. Maximum(r)
      BY <1>2, <3>1, Shape, BoundsAssumption DEF ValidHeroes, Maximum
    <3> HIDE DEF owner, have
    <3>3. n \in 0 .. Maximum(r)
      BY <1>3, <3>1, <3>2
    <3>4. QED
      BY <3>1, <3>3
  <2> HIDE DEF n, e, have, r
  <2>2. Fits(l, e) /\ Effect(l, e) = [l EXCEPT !.stock[h][r] = n]
    BY <1>2, <2>1, StockFits
  <2>3. Fits(g, e) /\ Effect(g, e) = [g EXCEPT !.stock[h][r] = n]
    BY <1>2, <2>1, StockFits
  <2>4. QED
    BY <1>1, <1>2, <2>2, <2>3, Shape DEF Alike, Games
<1>6. QED
  BY <1>4, <1>5

\* What the first n adjustments leave.
Levy(f, h, fs, n) ==
  f = [i \in 0 .. n |-> IF i = 0 THEN game ELSE Effect(f[i - 1], Adjustment(f[i - 1], h, fs[i]))]

LEMMA LevyExists ==
  ASSUME NEW h, NEW fs
  PROVE  \A n \in Nat : \E f : Levy(f, h, fs, n)
<1> DEFINE S == {n \in Nat : \E f : Levy(f, h, fs, n)}
<1>1. 0 \in S
  <2>1. Levy([i \in 0 .. 0 |-> game], h, fs, 0)
    BY DEF Levy
  <2>2. QED
    BY <2>1
<1>2. ASSUME NEW n \in S PROVE n + 1 \in S
  <2>1. PICK f : Levy(f, h, fs, n)
    OBVIOUS
  <2> DEFINE next == [i \in 0 .. n + 1 |-> IF i = n + 1 THEN Effect(f[n], Adjustment(f[n], h, fs[n + 1])) ELSE f[i]]
  <2>2. Levy(next, h, fs, n + 1)
    BY <2>1 DEF Levy
  <2>3. QED
    BY <2>2
<1>3. S \in SUBSET Nat
  OBVIOUS
<1> HIDE DEF S
<1>4. Nat \subseteq S
  BY <1>1, <1>2, <1>3, UpFromZero
<1>5. QED
  BY <1>4 DEF S

\* Each adjustment fits the state that the ones before it leave.
LEMMA ConsequencesApplied ==
  ASSUME game \in Campaigns, NEW g \in Campaigns, Alike(g, game), NEW h \in g.heroes, NEW degree \in Degrees
  PROVE  /\ \E y \in Campaigns :
              /\ ApplyAll(g, ConsequenceEvents(h, degree)) = Start(y)
              /\ y.rituals = g.rituals /\ y.checks = g.checks
         /\ \E T : ConsequenceEvents(h, degree) \in Seq(T)
<1> DEFINE fs == Consequences[degree]
           N == Len(fs)
           left == CHOOSE f : Levy(f, h, fs, N)
           es == [n \in 1 .. N |-> Adjustment(left[n - 1], h, fs[n])]
           T == {Adjustment(left[n - 1], h, fs[n]) : n \in 1 .. N}
<1>1. fs \in Seq(Adjustments) /\ N \in Nat
  BY ConsequencesAre
<1>2. Levy(left, h, fs, N)
  BY <1>1, LevyExists
<1>3. ConsequenceEvents(h, degree) = es
  BY DEF ConsequenceEvents, Levy
<1>4. es \in Seq(T) /\ Len(es) = N
  <2>1. N \in Nat /\ es \in [1 .. N -> T]
    BY <1>1
  <2> HIDE DEF es, T, N
  <2>2. QED
    BY <2>1, SeqDef
<1> HIDE DEF left
<1>5. left[0] = game /\ \A i \in 1 .. N : left[i] = Effect(left[i - 1], Adjustment(left[i - 1], h, fs[i]))
  BY <1>1, <1>2 DEF Levy
<1>6. \A i \in 1 .. N : es[i] = Adjustment(left[i - 1], h, fs[i]) /\ fs[i] \in Adjustments
  <2>1. \A i \in 1 .. N : es[i] = Adjustment(left[i - 1], h, fs[i])
    OBVIOUS
  <2> HIDE DEF es, T, fs
  <2>2. \A i \in 1 .. N : fs[i] \in Adjustments
    BY <1>1
  <2>3. QED
    BY <2>1, <2>2
<1> HIDE DEF es, T, fs, N
<1> DEFINE Leaves(n) ==
             /\ left[n] \in Campaigns
             /\ \E y \in Campaigns :
                  /\ ApplyAll(g, SubSeq(es, 1, n)) = Start(y) /\ Alike(y, left[n])
                  /\ y.rituals = g.rituals /\ y.checks = g.checks /\ h \in y.heroes
           S == {n \in Nat : n <= N => Leaves(n)}
<1>7. 0 \in S
  <2>1. SubSeq(es, 1, 0) = <<>>
    BY <1>4
  <2>2. QED
    BY <1>5, <2>1, AppliedNone
<1>8. ASSUME NEW n \in S PROVE n + 1 \in S
  <2>1. SUFFICES ASSUME n + 1 <= N PROVE Leaves(n + 1)
    OBVIOUS
  <2>2. n \in Nat /\ n + 1 \in 1 .. N /\ (n + 1) - 1 = n /\ Leaves(n)
    BY <1>1, <2>1
  <2>3. PICK y \in Campaigns :
          /\ ApplyAll(g, SubSeq(es, 1, n)) = Start(y) /\ Alike(y, left[n])
          /\ y.rituals = g.rituals /\ y.checks = g.checks /\ h \in y.heroes
    BY <2>2
  <2> DEFINE e == es[n + 1]
  <2>4. /\ e = Adjustment(left[n], h, fs[n + 1]) /\ fs[n + 1] \in Adjustments
        /\ left[n + 1] = Effect(left[n], e)
    BY <1>5, <1>6, <2>2
  <2>5. SubSeq(es, 1, n + 1) = Append(SubSeq(es, 1, n), e) /\ SubSeq(es, 1, n) \in Seq(T) /\ e \in T
    BY <1>4, <2>2
  <2> HIDE DEF e
  <2>6. /\ Fits(y, e) /\ Fits(left[n], e) /\ Alike(Effect(y, e), Effect(left[n], e))
        /\ Effect(y, e).rituals = y.rituals /\ Effect(y, e).checks = y.checks
        /\ Effect(y, e).heroes = y.heroes
    BY <2>2, <2>3, <2>4, AdjustmentFits
  <2>7. ApplyAll(g, SubSeq(es, 1, n + 1)) = Apply(Start(y), e)
    <3>1. \A us \in Seq(T) : \A d \in T : ApplyAll(g, Append(us, d)) = Apply(ApplyAll(g, us), d)
      BY AppliedMore
    <3>2. QED
      BY <2>3, <2>5, <3>1
  <2>8. Apply(Start(y), e) = Start(Effect(y, e))
    BY <2>6, FitsIs, ApplyIs
  <2>9. QED
    BY <2>3, <2>4, <2>6, <2>7, <2>8 DEF Fits
<1>9. S \in SUBSET Nat
  OBVIOUS
<1>10. SubSeq(es, 1, N) = es
  BY <1>1, <1>4
<1> HIDE DEF S
<1>11. N \in S
  BY <1>1, <1>7, <1>8, <1>9, UpFromZero
<1>12. Leaves(N)
  BY <1>1, <1>11 DEF S
<1>13. QED
  BY <1>3, <1>4, <1>10, <1>12

\* The ritual is resolved after its consequences.
LEMMA RitualAccepted ==
  ASSUME game \in Campaigns, NEW g \in Campaigns, Alike(g, game), NEW h \in g.heroes, NEW degree \in Degrees,
         NEW r \in Rituals, g.rituals[r] # None, g.rituals[r].status \in {"ready", "awaiting_resolution"},
         WaitsFor(g, "ritual", r) = {}
  PROVE  /\ Accepted(g, RitualEvents(r, h, degree))
         /\ \E T : RitualEvents(r, h, degree) \in Seq(T)
         /\ Lasting(RitualEvents(r, h, degree))
<1> DEFINE es == ConsequenceEvents(h, degree)
           outcome == IF degree \in {Success, Triumph} THEN "completed" ELSE "failed"
           e == [kind |-> "ritual_resolved", on |-> r, outcome |-> outcome]
<1>1. RitualEvents(r, h, degree) = es \o <<e>>
  BY DEF RitualEvents
<1>2. PICK y \in Campaigns : ApplyAll(g, es) = Start(y) /\ y.rituals = g.rituals /\ y.checks = g.checks
  BY ConsequencesApplied
<1>3. PICK T : es \in Seq(T)
  BY ConsequencesApplied
<1>4. Fits(y, e)
  <2>1. WaitsFor(y, "ritual", r) = {}
    BY <1>2 DEF WaitsFor
  <2>2. outcome \in {"completed", "failed"}
    OBVIOUS
  <2> HIDE DEF outcome
  <2>3. QED
    BY <1>2, <2>1, <2>2, RitualResolvedFits
<1> HIDE DEF es
<1>5. Final(e)
  BY DEF Final, Skipped, NotStateChanging, InverseKinds
<1> HIDE DEF e
<1>6. es \in Seq(T \cup {e}) /\ <<e>> \in Seq(T \cup {e})
  BY <1>3
<1>7. e.kind \in Kinds /\ Applies(y, e) /\ ValidCampaign(Effect(y, e)) /\ Effect(y, e) \in Campaigns
  BY <1>4, FitsIs
<1>8. ApplyAll(g, es \o <<e>>) = ApplyAll(y, <<e>>)
  <2>1. \A us \in Seq(T \cup {e}) : \A ws \in Seq(T \cup {e}) : \A x : \A k \in Kinds :
          ApplyAll(g, us) = Start(x) => ApplyAll(g, us \o ws) = ApplyAll(x, ws)
    BY AppliedJoined
  <2>2. QED
    BY <1>2, <1>6, <1>7, <2>1
<1>9. ApplyAll(y, <<e>>) = Start(Effect(y, e))
  BY <1>7, AppliedOne
<1>10. es \o <<e>> \in Seq(T \cup {e})
  BY <1>6
<1>11. Lasting(es \o <<e>>)
  <2>1. <<e>> \in Seq({e})
    OBVIOUS
  <2>2. QED
    BY <1>3, <1>5, <2>1, LastingOne, LastingJoined
<1>12. QED
  BY <1>1, <1>7, <1>8, <1>9, <1>10, <1>11 DEF Accepted

-----------------------------------------------------------------------------
(* Each action keeps the invariant *)

\* A resource, of a hero or of the party, stays within its cap.
LEMMA WithinCap ==
  ASSUME NEW g \in Campaigns, NEW o \in g.heroes \X Resources \cup {<<None, "supply">>}
  PROVE  /\ Stock(g, o[1], o[2]) \in 0 .. Cap(g, o[1], o[2]) /\ Cap(g, o[1], o[2]) \in Nat
         /\ \A n \in 0 .. Cap(g, o[1], o[2]) : Settles(g, <<Changed(o[1], o[2], Stock(g, o[1], o[2]), n)>>)
<1>1. CASE o = <<None, "supply">>
  <2>1. o[1] = None /\ o[2] = "supply"
    BY <1>1
  <2>2. Stock(g, o[1], o[2]) = g.supply /\ Cap(g, o[1], o[2]) = SupplyMaximum(g)
    BY <2>1 DEF Stock, Cap
  <2>3. \A n \in 0 .. SupplyMaximum(g) : Settles(g, <<Changed(None, "supply", g.supply, n)>>)
    BY SupplyFits, SupplyTakenBack, SettlesBack
  <2>4. SupplyMaximum(g) \in Nat
    BY Shape DEF SupplyMaximum
  <2>5. QED
    BY <2>1, <2>2, <2>3, <2>4, Shape
<1>2. CASE o \in g.heroes \X Resources
  <2>1. o[1] \in g.heroes /\ o[2] \in Resources /\ o[1] # None
    BY <1>2, Shape, HeroesAssumption
  <2>2. Stock(g, o[1], o[2]) = g.stock[o[1]][o[2]] /\ Cap(g, o[1], o[2]) = Maximum(o[2])
    BY <2>1 DEF Stock, Cap
  <2>3. \A n \in 0 .. Maximum(o[2]) : Settles(g, <<Changed(o[1], o[2], g.stock[o[1]][o[2]], n)>>)
    BY <2>1, StockFits, StockTakenBack, SettlesBack
  <2>4. Maximum(o[2]) \in Nat /\ g.stock[o[1]][o[2]] \in 0 .. Maximum(o[2])
    BY <2>1, Shape, BoundsAssumption DEF Maximum, ValidHeroes
  <2>5. QED
    BY <2>2, <2>3, <2>4
<1>3. QED
  BY <1>1, <1>2

LEMMA MaterializeCharacterKeeps ==
  ASSUME IInv, NEW h \in game.catalog.roster, MaterializeCharacter(h)
  PROVE  IInv'
<1> DEFINE e == [kind |-> "character_materialized", hero |-> h, gear |-> game.catalog.gear[h]]
<1>1. game \in Campaigns /\ h \in Heroes \ game.heroes
  BY Shape, CatalogAssumption DEF IInv, MaterializeCharacter
<1>2. Fits(game, e)
  BY <1>1, MaterializedFits
<1>3. Commit(<<e>>) /\ Final(e)
  BY DEF MaterializeCharacter, Final, Skipped, NotStateChanging, InverseKinds
<1> HIDE DEF e
<1>4. QED
  BY <1>2, <1>3, SettlesFinal, Committed

LEMMA ProvisionStartingSupplyKeeps ==
  ASSUME IInv, ProvisionStartingSupply
  PROVE  IInv'
<1> DEFINE n == Cardinality(game.heroes)
           e == Changed(None, "supply", 0, n)
<1>1. game \in Campaigns /\ game.supply = 0
  BY DEF IInv, ProvisionStartingSupply
<1>2. n \in 0 .. SupplyMaximum(game)
  BY <1>1, Shape DEF SupplyMaximum
<1> HIDE DEF n
<1>3. Settles(game, <<e>>)
  BY <1>1, <1>2, SupplyFits, SupplyTakenBack, SettlesBack
<1>4. Commit(<<e>>)
  BY DEF ProvisionStartingSupply, n
<1> HIDE DEF e
<1>5. QED
  BY <1>3, <1>4, Committed

LEMMA SpendResourceKeeps ==
  ASSUME IInv, NEW o \in Owners, NEW n, SpendResource(o[1], o[2], n)
  PROVE  IInv'
<1> DEFINE have == Stock(game, o[1], o[2])
           e == Changed(o[1], o[2], have, have - n)
<1>1. game \in Campaigns /\ o \in game.heroes \X Resources \cup {<<None, "supply">>}
  BY DEF IInv, Owners, Resources
<1>2. /\ have \in 0 .. Cap(game, o[1], o[2]) /\ Cap(game, o[1], o[2]) \in Nat
      /\ \A m \in 0 .. Cap(game, o[1], o[2]) : Settles(game, <<Changed(o[1], o[2], have, m)>>)
  BY <1>1, WithinCap
<1>3. have - n \in 0 .. Cap(game, o[1], o[2])
  <2>1. n \in 1 .. have
    BY DEF SpendResource, MaySpend
  <2> HIDE DEF have
  <2>2. QED
    BY <1>2, <2>1
<1>4. Settles(game, <<e>>)
  BY <1>2, <1>3
<1>5. Commit(<<e>>)
  BY DEF SpendResource
<1> HIDE DEF e
<1>6. QED
  BY <1>4, <1>5, Committed

LEMMA RecoverResourceKeeps ==
  ASSUME IInv, NEW o \in Owners \cup game.heroes \X {"guard"}, NEW n \in 1 .. 2,
         RecoverResource(o[1], o[2], n)
  PROVE  IInv'
<1> DEFINE have == Stock(game, o[1], o[2])
           e == Changed(o[1], o[2], have, have + n)
<1>1. game \in Campaigns /\ o \in game.heroes \X Resources \cup {<<None, "supply">>}
  BY DEF IInv, Owners, Resources
<1>2. /\ have \in 0 .. Cap(game, o[1], o[2]) /\ Cap(game, o[1], o[2]) \in Nat
      /\ \A m \in 0 .. Cap(game, o[1], o[2]) : Settles(game, <<Changed(o[1], o[2], have, m)>>)
  BY <1>1, WithinCap
<1>3. have + n \in 0 .. Cap(game, o[1], o[2])
  <2>1. have + n <= Cap(game, o[1], o[2])
    BY DEF RecoverResource
  <2> HIDE DEF have
  <2>2. QED
    BY <1>2, <2>1
<1>4. Settles(game, <<e>>)
  BY <1>2, <1>3
<1>5. Commit(<<e>>)
  BY DEF RecoverResource
<1> HIDE DEF e
<1>6. QED
  BY <1>4, <1>5, Committed

LEMMA RecoverSparkKeeps ==
  ASSUME IInv, NEW h \in game.heroes, RecoverSpark(h)
  PROVE  IInv'
<1> DEFINE e == [kind |-> "spark_recovered", hero |-> h]
<1>1. Fits(game, e)
  BY SparkRecoveredFits DEF IInv, RecoverSpark
<1>2. Commit(<<e>>) /\ Final(e)
  BY DEF RecoverSpark, Final, Skipped, NotStateChanging, InverseKinds
<1> HIDE DEF e
<1>3. QED
  BY <1>1, <1>2, SettlesFinal, Committed

LEMMA CostlyRestKeeps ==
  ASSUME IInv, NEW hs \in SUBSET game.heroes, CostlyRest(hs)
  PROVE  IInv'
<1> DEFINE e == [kind |-> "costly_rest_completed", heroes |-> hs]
<1>1. Fits(game, e)
  BY RestFits DEF IInv, CostlyRest, MayRest
<1>2. Commit(<<e>>) /\ Final(e)
  BY DEF CostlyRest, Final, Skipped, NotStateChanging, InverseKinds
<1> HIDE DEF e
<1>3. QED
  BY <1>1, <1>2, SettlesFinal, Committed

LEMMA AdvanceSceneKeeps ==
  ASSUME IInv, NEW to \in game.catalog.scenes, NEW boundary, AdvanceScene(to, boundary)
  PROVE  IInv'
<1> DEFINE e == [kind |-> "scene_resources_reset", from |-> game.scene, to |-> to,
                 boundary |-> boundary, heroes |-> game.heroes]
<1>1. to \in Scenes /\ game \in Campaigns
  BY Shape, CatalogAssumption DEF IInv
<1>2. Fits(game, e)
  BY <1>1, SceneFits DEF AdvanceScene
<1>3. Commit(<<e>>) /\ Final(e)
  BY DEF AdvanceScene, Final, Skipped, NotStateChanging, InverseKinds
<1> HIDE DEF e
<1>4. QED
  BY <1>2, <1>3, SettlesFinal, Committed

LEMMA AdvanceRankKeeps ==
  ASSUME IInv, NEW h \in game.heroes, NEW f, AdvanceRank(h, f)
  PROVE  IInv'
<1> DEFINE e == [kind |-> "rank_advanced", hero |-> h, rank |-> f.rank, feature |-> f.name]
<1>1. Fits(game, e)
  BY RankFits DEF IInv, AdvanceRank, MayAdvance
<1>2. Commit(<<e>>) /\ Final(e)
  BY DEF AdvanceRank, Final, Skipped, NotStateChanging, InverseKinds
<1> HIDE DEF e
<1>3. QED
  BY <1>1, <1>2, SettlesFinal, Committed

LEMMA PartyKeeps ==
  ASSUME IInv, PartyNext
  PROVE  IInv'
<1>1. CASE \E h \in game.catalog.roster : MaterializeCharacter(h)
  BY <1>1, MaterializeCharacterKeeps
<1>2. CASE ProvisionStartingSupply
  BY <1>2, ProvisionStartingSupplyKeeps
<1>3. CASE \E o \in Owners, n \in game.catalog.spends : SpendResource(o[1], o[2], n)
  BY <1>3, SpendResourceKeeps
<1>4. CASE \E o \in Owners \cup game.heroes \X {"guard"}, n \in 1 .. 2 : RecoverResource(o[1], o[2], n)
  BY <1>4, RecoverResourceKeeps
<1>5. CASE \E h \in game.heroes : RecoverSpark(h)
  BY <1>5, RecoverSparkKeeps
<1>6. CASE \E hs \in (SUBSET game.heroes) \ {{}} : game.catalog.rests /\ CostlyRest(hs)
  BY <1>6, CostlyRestKeeps
<1>7. CASE \E s \in game.catalog.scenes, b \in {"scene", "session_start", "session_end"} : AdvanceScene(s, b)
  BY <1>7, AdvanceSceneKeeps
<1>8. CASE \E h \in game.heroes, f \in game.catalog.features : AdvanceRank(h, f)
  BY <1>8, AdvanceRankKeeps
<1>9. QED
  BY <1>1, <1>2, <1>3, <1>4, <1>5, <1>6, <1>7, <1>8 DEF PartyNext

\* The only event of a simulated check, and the state a bound check is bound in.
LEMMA SimulatedIs ==
  ASSUME NEW g \in Campaigns
  PROVE  /\ Accepted(g, Simulated)
         /\ \A T : \A fs \in Seq(T) : Accepted(g, fs) => Accepted(g, Simulated \o fs)
<1> DEFINE e == [kind |-> "check_resolved", check |-> None]
<1>1. Simulated = <<e>>
  BY DEF Simulated
<1>2. Fits(g, e) /\ Effect(g, e) = g
  BY SimulatedFits
<1> HIDE DEF e
<1>3. Accepted(g, <<e>>)
  BY <1>2, AcceptedOne
<1>4. ASSUME NEW T, NEW fs \in Seq(T), Accepted(g, fs) PROVE Accepted(g, <<e>> \o fs)
  BY <1>2, <1>4, AcceptedFirst
<1>5. QED
  BY <1>1, <1>3, <1>4

LEMMA SimulatedSettles ==
  ASSUME NEW g \in Campaigns
  PROVE  /\ Settles(g, Simulated)
         /\ \A es : Accepted(g, es) /\ Lasting(es) => Settles(g, Simulated \o es)
         /\ \A e : Fits(g, e) /\ TakenBack(g, e) => Settles(g, Simulated \o <<e>>)
<1> DEFINE s == [kind |-> "check_resolved", check |-> None]
<1>1. Simulated = <<s>> /\ <<s>> \in Seq({s}) /\ Skipped(s)
  BY DEF Simulated, Skipped
<1>2. Fits(g, s) /\ Effect(g, s) = g
  BY SimulatedFits
<1> HIDE DEF s
<1>3. Settles(g, Simulated)
  BY <1>1, SimulatedIs, MarksOfOne, NoneReversible DEF Settles
<1>4. ASSUME NEW es, Accepted(g, es), Lasting(es) PROVE Settles(g, Simulated \o es)
  <2>1. PICK T : es \in Seq(T)
    BY <1>4 DEF Lasting
  <2>2. Accepted(g, Simulated \o es)
    BY <1>4, <2>1, SimulatedIs
  <2>3. Lasting(Simulated \o es)
    BY <1>1, <1>4, <2>1, LastingJoined
  <2>4. QED
    BY <2>2, <2>3, LastingReversible DEF Settles
<1>5. ASSUME NEW e, Fits(g, e), TakenBack(g, e) PROVE Settles(g, Simulated \o <<e>>)
  <2>1. <<e>> \in Seq({e}) /\ <<e>> = Append(<<>>, e)
    OBVIOUS
  <2>2. Accepted(g, Simulated \o <<e>>)
    BY <1>5, <2>1, AcceptedOne, SimulatedIs
  <2>3. Marks(Simulated \o <<e>>) = <<e>>
    <3>1. Marks(<<s>>) = <<>> /\ ~Skipped(e)
      BY <1>1, <1>5, MarksOfOne DEF TakenBack
    <3>2. Marks(<<s>> \o <<e>>) = IF Skipped(e) THEN Marks(<<s>>) ELSE Append(Marks(<<s>>), e)
      BY <1>1, MarksAfter
    <3>3. QED
      BY <1>1, <2>1, <3>1, <3>2
  <2>4. ApplyAll(g, Simulated \o <<e>>) = Start(Effect(g, e))
    <3>1. s.kind \in Kinds /\ Applies(g, s) /\ ValidCampaign(Effect(g, s))
      BY <1>2, FitsIs
    <3>2. s \in {s, e} /\ <<e>> \in Seq({s, e})
      OBVIOUS
    <3>3. ApplyAll(g, <<s>> \o <<e>>) = ApplyAll(Effect(g, s), <<e>>)
      BY <3>1, <3>2, AppliedFirst
    <3>4. ApplyAll(g, <<e>>) = Start(Effect(g, e))
      BY <1>5, FitsIs, AppliedOne
    <3>5. QED
      BY <1>1, <1>2, <3>3, <3>4
  <2>5. Undoes(Effect(g, e), InverseOf(e), g)
    BY <1>5 DEF TakenBack
  <2>6. Reversible(g, Simulated \o <<e>>)
    <3> DEFINE es == Simulated \o <<e>>
    <3>1. Marks(es) = <<e>> /\ ApplyAll(g, es) = Start(Effect(g, e))
      BY <2>3, <2>4
    <3> HIDE DEF es
    <3>2. Reversible(g, es)
      BY <2>5, <3>1, OneReversible
    <3>3. QED
      BY <3>2 DEF es
  <2>7. QED
    BY <2>2, <2>6 DEF Settles
<1>6. QED
  BY <1>3, <1>4, <1>5

LEMMA ResolvePlainCheckKeeps ==
  ASSUME IInv, NEW h, NEW how, ResolvePlainCheck(h, how)
  PROVE  IInv'
<1>1. game \in Campaigns /\ h \in game.heroes /\ (how = "spark" => h \in game.spark)
  BY DEF IInv, ResolvePlainCheck, MayAttempt
<1>2. Settles(game, Requested(h, how, <<>>))
  <2> DEFINE n == NewCheck(FreshCheck, h, Disclosure(CheckRequest, how = "spark"))
  <2>1. ASSUME NEW x \in Campaigns, x.checks = game.checks \cup {n}
        PROVE  Accepted(x, <<>>) /\ CalledOff(x, <<>>)
    <3>1. n \in x.checks /\ n.id = FreshCheck /\ n.then = [kind |-> "none"]
      BY <2>1, NewCheckIs
    <3> HIDE DEF n
    <3>2. QED
      BY <3>1, AcceptedNone, NoneCalledOff
  <2>2. QED
    BY <1>1, <2>1, RequestedSettles
<1>3. Settles(game, Simulated)
  BY <1>1, SimulatedSettles
<1>4. Commit(IF how = "simulated" THEN Simulated ELSE Requested(h, how, <<>>))
  BY DEF ResolvePlainCheck
<1>5. QED
  BY <1>2, <1>3, <1>4, Committed

LEMMA StartChallengeKeeps ==
  ASSUME IInv, NEW ch \in Challenges, StartChallenge(ch)
  PROVE  IInv'
<1> DEFINE e == [kind |-> "challenge_started", on |-> ch]
<1>1. Fits(game, e)
  BY ChallengeStartedFits DEF IInv, StartChallenge
<1>2. Commit(<<e>>) /\ Final(e)
  BY DEF StartChallenge, Final, Skipped, NotStateChanging, InverseKinds
<1> HIDE DEF e
<1>3. QED
  BY <1>1, <1>2, SettlesFinal, Committed

LEMMA AdvanceChallengeKeeps ==
  ASSUME IInv, NEW ch \in Challenges, NEW h, NEW how, NEW face, AdvanceChallenge(ch, h, how, face)
  PROVE  IInv'
<1> DEFINE degree == ResolveCheck(CheckRequest, face)
           pending == [kind |-> "challenge_check_pending", on |-> ch, check |-> FreshCheck]
           n == NewCheck(FreshCheck, h, Disclosure(CheckRequest, how = "spark"))
<1>1. /\ game \in Campaigns /\ h \in game.heroes /\ (how = "spark" => h \in game.spark)
      /\ OpenChallenge(game, ch) /\ WaitsFor(game, "challenge", ch) = {}
  BY DEF IInv, AdvanceChallenge, MayAdvanceChallenge, MayAttempt
<1>2. Commit(IF how = "simulated" THEN Simulated \o ChallengeEvents(ch, degree)
             ELSE Requested(h, how, <<pending>>))
  BY DEF AdvanceChallenge
<1>3. Settles(game, Simulated \o ChallengeEvents(ch, degree))
  <2>1. degree \in Degrees
    BY ResolveIs
  <2> HIDE DEF degree
  <2>2. Accepted(game, ChallengeEvents(ch, degree)) /\ Lasting(ChallengeEvents(ch, degree))
    BY <1>1, <2>1, ChallengeAccepted
  <2>3. QED
    BY <1>1, <2>2, SimulatedSettles
<1>4. Settles(game, Requested(h, how, <<pending>>))
  <2>1. ASSUME NEW x \in Campaigns, x.challenges = game.challenges, x.checks = game.checks \cup {n}
        PROVE  Accepted(x, <<pending>>) /\ CalledOff(x, <<pending>>)
    <3>1. n \in x.checks /\ n.id = FreshCheck /\ n.then = [kind |-> "none"]
      BY <2>1, NewCheckIs
    <3> HIDE DEF n
    <3>2. OpenChallenge(x, ch)
      BY <1>1, <2>1 DEF OpenChallenge
    <3>3. WaitsFor(x, "challenge", ch) = {}
      BY <1>1, <2>1, <3>1 DEF WaitsFor
    <3> DEFINE bound == [kind |-> "challenge", on |-> ch]
    <3>4. Fits(x, pending) /\ Effect(x, pending) = Bind(x, n.id, bound)
      BY <3>1, <3>2, <3>3, ChallengeCheckFits
    <3>5. bound.kind # "ritual"
      OBVIOUS
    <3> HIDE DEF bound, pending
    <3>6. QED
      BY <3>1, <3>4, <3>5, AcceptedOne, BoundCalledOff
  <2>2. Skipped(pending)
    BY DEF Skipped, NotStateChanging
  <2> HIDE DEF pending
  <2>3. QED
    BY <1>1, <2>1, <2>2, RequestedSettles
<1>5. QED
  BY <1>2, <1>3, <1>4, Committed

LEMMA EstablishSocialStateKeeps ==
  ASSUME IInv, NEW n \in Npcs, EstablishSocialState(n)
  PROVE  IInv'
<1> DEFINE e == [kind |-> "social_state_established", on |-> n, stance |-> InitialStance]
<1>1. Fits(game, e)
  BY EstablishedFits, StanceAssumption DEF IInv, EstablishSocialState
<1>2. Commit(<<e>>) /\ Final(e)
  BY DEF EstablishSocialState, Final, Skipped, NotStateChanging, InverseKinds
<1> HIDE DEF e
<1>3. QED
  BY <1>1, <1>2, SettlesFinal, Committed

LEMMA AttemptSocialShiftKeeps ==
  ASSUME IInv, NEW on \in Npcs, NEW requested \in Stances, NEW limit \in Limits \cup {None},
         NEW h, NEW how, NEW face, AttemptSocialShift(on, requested, limit, h, how, face)
  PROVE  IInv'
<1> DEFINE degree == ResolveCheck(CheckRequest, face)
           pending == [kind |-> "social_check_pending", on |-> on, check |-> FreshCheck,
                       stance |-> requested, limit |-> limit]
           n == NewCheck(FreshCheck, h, Disclosure(CheckRequest, how = "spark"))
<1>1. /\ game \in Campaigns /\ h \in game.heroes /\ (how = "spark" => h \in game.spark)
      /\ game.social[on] # None /\ limit \notin HardLimits
  BY DEF IInv, AttemptSocialShift, MayAttempt
<1>2. Commit(IF how = "simulated" THEN Simulated \o SocialEvents(on, requested, degree)
             ELSE Requested(h, how, <<pending>>))
  BY DEF AttemptSocialShift
<1>3. Settles(game, Simulated \o SocialEvents(on, requested, degree))
  <2>1. degree \in Degrees
    BY ResolveIs
  <2> HIDE DEF degree
  <2>2. \/ SocialEvents(on, requested, degree) = <<>>
        \/ \E e : SocialEvents(on, requested, degree) = <<e>> /\ Fits(game, e) /\ TakenBack(game, e)
    BY <1>1, <2>1, SocialAccepted
  <2>3. Simulated \o <<>> = Simulated
    BY DEF Simulated
  <2>4. QED
    BY <1>1, <2>2, <2>3, SimulatedSettles
<1>4. Settles(game, Requested(h, how, <<pending>>))
  <2>1. ASSUME NEW x \in Campaigns, x.social = game.social, x.checks = game.checks \cup {n}
        PROVE  Accepted(x, <<pending>>) /\ CalledOff(x, <<pending>>)
    <3>1. n \in x.checks /\ n.id = FreshCheck /\ n.then = [kind |-> "none"]
      BY <2>1, NewCheckIs
    <3> HIDE DEF n
    <3> DEFINE bound == [kind |-> "social", on |-> on, stance |-> requested, limit |-> limit]
    <3>2. Fits(x, pending) /\ Effect(x, pending) = Bind(x, n.id, bound)
      BY <1>1, <2>1, <3>1, SocialCheckFits
    <3>3. bound.kind # "ritual"
      OBVIOUS
    <3> HIDE DEF bound, pending
    <3>4. QED
      BY <3>1, <3>2, <3>3, AcceptedOne, BoundCalledOff
  <2>2. Skipped(pending)
    BY DEF Skipped, NotStateChanging
  <2> HIDE DEF pending
  <2>3. QED
    BY <1>1, <2>1, <2>2, RequestedSettles
<1>5. QED
  BY <1>2, <1>3, <1>4, Committed

LEMMA LeverageKeeps ==
  ASSUME IInv, NEW n \in Npcs, NEW l \in Leverage, CreateLeverage(n, l) \/ SpendLeverage(n, l)
  PROVE  IInv'
<1> DEFINE c == [kind |-> "leverage_created", on |-> n, leverage |-> l]
           s == [kind |-> "leverage_spent", on |-> n, leverage |-> l]
<1>1. game \in Campaigns
  BY DEF IInv
<1>2. CASE CreateLeverage(n, l)
  <2>1. Fits(game, c) /\ Commit(<<c>>) /\ TakenBack(game, c)
    BY <1>1, <1>2, LeverageCreatedFits, LeverageTakenBack DEF CreateLeverage
  <2> HIDE DEF c
  <2>2. QED
    BY <2>1, <1>1, SettlesBack, Committed
<1>3. CASE SpendLeverage(n, l)
  <2>1. Fits(game, s) /\ Commit(<<s>>) /\ Final(s)
    BY <1>1, <1>3, LeverageSpentFits DEF SpendLeverage, Final, Skipped, NotStateChanging, InverseKinds
  <2> HIDE DEF s
  <2>2. QED
    BY <2>1, SettlesFinal, Committed
<1>4. QED
  BY <1>2, <1>3

LEMMA StartOrInterruptKeeps ==
  ASSUME IInv, NEW r \in Rituals, StartRitual(r) \/ InterruptRitual(r)
  PROVE  IInv'
<1> DEFINE s == [kind |-> "ritual_started", on |-> r]
           i == [kind |-> "ritual_interrupted", on |-> r]
<1>1. game \in Campaigns
  BY DEF IInv
<1>2. CASE StartRitual(r)
  <2>1. Fits(game, s) /\ Commit(<<s>>) /\ Final(s)
    BY <1>1, <1>2, RitualStartedFits DEF StartRitual, Final, Skipped, NotStateChanging, InverseKinds
  <2> HIDE DEF s
  <2>2. QED
    BY <2>1, SettlesFinal, Committed
<1>3. CASE InterruptRitual(r)
  <2>1. Fits(game, i) /\ Commit(<<i>>) /\ Final(i)
    BY <1>1, <1>3, RitualInterruptedFits DEF InterruptRitual, Final, Skipped, NotStateChanging, InverseKinds
  <2> HIDE DEF i
  <2>2. QED
    BY <2>1, SettlesFinal, Committed
<1>4. QED
  BY <1>2, <1>3

\* A payment takes what the contribution has.
LEMMA PaymentFits ==
  ASSUME NEW r \in Rituals, NEW h, game \in Campaigns, h \in game.heroes, game.rituals[r] # None,
         game.rituals[r].status = "preparing", game.rituals[r].paid < Len(Costs),
         Payable(h, Costs[game.rituals[r].paid + 1])
  PROVE  \E e : /\ PaymentEvents(h, Costs[game.rituals[r].paid + 1], r) = <<e>> /\ Fits(game, e)
                /\ Effect(game, e).rituals = game.rituals /\ Effect(game, e).heroes = game.heroes
<1> DEFINE cost == Costs[game.rituals[r].paid + 1]
<1>1. cost \in [kind : {"significant_gear"}, gear : Gear] \cup [kind : {"supply", "exertion"}, amount : Nat]
  <2>1. game.rituals[r].paid + 1 \in 1 .. Len(Costs)
    BY RiteOf, CostsAre
  <2>2. QED
    BY <2>1, RitualAssumption
<1>2. CASE cost.kind = "significant_gear"
  <2> DEFINE e == [kind |-> "significant_gear_spent", hero |-> h, gear |-> cost.gear, ritual |-> r]
  <2>1. cost = [kind |-> "significant_gear", gear |-> cost.gear]
    BY <1>1, <1>2
  <2>2. cost.gear \in game.ready[h]
    BY <1>2 DEF Payable
  <2>3. PaymentEvents(h, cost, r) = <<e>>
    BY <1>2 DEF PaymentEvents
  <2>4. Fits(game, e) /\ Effect(game, e).rituals = game.rituals /\ Effect(game, e).heroes = game.heroes
    BY <2>1, <2>2, GearSpentFits
  <2> HIDE DEF e, cost
  <2>5. QED
    BY <2>3, <2>4 DEF cost
<1>3. CASE cost.kind = "supply"
  <2> DEFINE e == Changed(None, "supply", game.supply, game.supply - cost.amount)
  <2>1. PaymentEvents(h, cost, r) = <<e>>
    BY <1>3 DEF PaymentEvents, Stock
  <2>2. cost.amount \in Nat /\ cost.amount <= game.supply
    BY <1>1, <1>3 DEF Payable
  <2> HIDE DEF cost
  <2>3. game.supply - cost.amount \in 0 .. SupplyMaximum(game)
    BY <2>2, Shape DEF SupplyMaximum
  <2>4. Fits(game, e) /\ Effect(game, e) = [game EXCEPT !.supply = game.supply - cost.amount]
    BY <2>3, SupplyFits
  <2>5. Effect(game, e).rituals = game.rituals /\ Effect(game, e).heroes = game.heroes
    BY <2>4, Shape DEF Games
  <2> HIDE DEF e
  <2>6. QED
    BY <2>1, <2>4, <2>5 DEF cost
<1>4. CASE cost.kind = "exertion"
  <2> DEFINE n == game.stock[h]["exertion"] - cost.amount
             e == Changed(h, "exertion", game.stock[h]["exertion"], n)
  <2>1. h # None /\ h \in Heroes
    BY Shape, HeroesAssumption
  <2>2. PaymentEvents(h, cost, r) = <<e>>
    BY <1>4, <2>1 DEF PaymentEvents, Stock
  <2>3. cost.amount \in Nat /\ cost.amount <= game.stock[h]["exertion"]
    BY <1>1, <1>4 DEF Payable
  <2>4. "exertion" \in Resources /\ game.stock[h]["exertion"] \in 0 .. Maximum("exertion")
    BY Shape DEF ValidHeroes, Resources
  <2> HIDE DEF cost
  <2>5. n \in 0 .. Maximum("exertion")
    <3>1. Maximum("exertion") \in Nat
      BY BoundsAssumption DEF Maximum
    <3>2. QED
      BY <2>3, <2>4, <3>1
  <2> HIDE DEF n
  <2>6. Fits(game, e) /\ Effect(game, e) = [game EXCEPT !.stock[h]["exertion"] = n]
    <3>1. \A s \in Resources : \A m \in 0 .. Maximum(s) :
            /\ Fits(game, Changed(h, s, game.stock[h][s], m))
            /\ Effect(game, Changed(h, s, game.stock[h][s], m)) = [game EXCEPT !.stock[h][s] = m]
      BY StockFits
    <3>2. QED
      BY <2>4, <2>5, <3>1
  <2>7. Effect(game, e).rituals = game.rituals /\ Effect(game, e).heroes = game.heroes
    BY <2>6, Shape DEF Games
  <2> HIDE DEF e
  <2>8. QED
    BY <2>2, <2>6, <2>7 DEF cost
<1>5. QED
  BY <1>1, <1>2, <1>3, <1>4

LEMMA ContributeRitualKeeps ==
  ASSUME IInv, NEW r \in Rituals, NEW h, ContributeRitual(r, h)
  PROVE  IInv'
<1> DEFINE paid == game.rituals[r].paid
           payment == PaymentEvents(h, Costs[paid + 1], r)
           give == [kind |-> "ritual_contribution", on |-> r, hero |-> h, index |-> paid]
           ready == [kind |-> "ritual_ready", on |-> r]
           tail == IF paid + 1 = Len(Costs) THEN <<ready>> ELSE <<>>
<1>1. /\ game \in Campaigns /\ h \in game.heroes /\ game.rituals[r] # None
      /\ game.rituals[r].status = "preparing" /\ paid < Len(Costs) /\ Payable(h, Costs[paid + 1])
  BY DEF IInv, ContributeRitual
<1>2. Commit(payment \o <<give>> \o tail)
  BY DEF ContributeRitual
<1>3. PICK e : /\ payment = <<e>> /\ Fits(game, e)
               /\ Effect(game, e).rituals = game.rituals /\ Effect(game, e).heroes = game.heroes
  BY <1>1, PaymentFits
<1> DEFINE x == Effect(game, e)
           y == Effect(x, give)
<1>4. x \in Campaigns /\ x.rituals = game.rituals /\ h \in x.heroes
  BY <1>1, <1>3 DEF Fits
<1> HIDE DEF x, payment
<1>5. /\ Fits(x, give) /\ y.rituals[r] # None
      /\ y.rituals[r].status = "preparing" /\ y.rituals[r].paid = paid + 1
  BY <1>1, <1>4, ContributionFits
<1>6. Accepted(y, tail) /\ tail \in Seq({ready})
  <2>1. CASE paid + 1 = Len(Costs)
    <3>1. y \in Campaigns
      BY <1>5 DEF Fits
    <3> HIDE DEF y
    <3>2. Fits(y, ready)
      BY <1>5, <2>1, <3>1, RitualReadyFits
    <3>3. tail = <<ready>>
      BY <2>1
    <3> HIDE DEF tail, ready
    <3>4. QED
      BY <3>2, <3>3, AcceptedOne
  <2>2. CASE paid + 1 # Len(Costs)
    <3>1. y \in Campaigns
      BY <1>5 DEF Fits
    <3> HIDE DEF y
    <3>2. QED
      BY <2>2, <3>1, AcceptedNone
  <2>3. QED
    BY <2>1, <2>2
<1>7. Final(give)
  BY DEF Final, Skipped, NotStateChanging, InverseKinds
<1> HIDE DEF tail, ready, give, y
<1>8. Accepted(x, <<give>> \o tail) /\ Lasting(<<give>> \o tail)
  <2>1. <<give>> \in Seq({give})
    OBVIOUS
  <2>2. QED
    BY <1>5, <1>6, <1>7, <2>1, AcceptedFirst, LastingOne, LastingJoined DEF y
<1> DEFINE rest == <<give>> \o tail
<1>9. rest \in Seq({give, ready}) /\ <<e>> \o <<give>> \o tail = <<e>> \o rest /\ <<e>> \in Seq({e})
  BY <1>6
<1>10. Accepted(x, rest) /\ Lasting(rest)
  BY <1>8
<1> HIDE DEF rest
<1>11. Accepted(game, <<e>> \o rest)
  BY <1>3, <1>9, <1>10, AcceptedFirst DEF x
<1>12. Reversible(game, <<e>> \o rest)
  BY <1>9, <1>10, LastingJoined, LastingReversible
<1>13. Settles(game, payment \o <<give>> \o tail)
  BY <1>3, <1>9, <1>11, <1>12 DEF Settles
<1>14. QED
  BY <1>2, <1>13, Committed

LEMMA ResolveRitualKeeps ==
  ASSUME IInv, NEW r \in Rituals, NEW h, NEW how, NEW face, ResolveRitual(r, h, how, face)
  PROVE  IInv'
<1> DEFINE degree == ResolveCheck(CheckRequest, face)
           pending == [kind |-> "ritual_check_pending", on |-> r, check |-> FreshCheck]
           n == NewCheck(FreshCheck, h, Disclosure(CheckRequest, how = "spark"))
<1>1. /\ game \in Campaigns /\ h \in game.heroes /\ (how = "spark" => h \in game.spark)
      /\ game.rituals[r] # None /\ game.rituals[r].status = "ready"
  BY DEF IInv, ResolveRitual, MayAttempt
<1>2. Commit(IF how = "simulated" THEN Simulated \o RitualEvents(r, h, degree)
             ELSE Requested(h, how, <<pending>>))
  BY DEF ResolveRitual
<1>3. Settles(game, Simulated \o RitualEvents(r, h, degree))
  <2>1. degree \in Degrees
    BY ResolveIs
  <2>2. WaitsFor(game, "ritual", r) = {}
    BY <1>1, RiteOf
  <2>3. Alike(game, game)
    BY DEF Alike
  <2> HIDE DEF degree
  <2>4. Accepted(game, RitualEvents(r, h, degree)) /\ Lasting(RitualEvents(r, h, degree))
    BY <1>1, <2>1, <2>2, <2>3, RitualAccepted
  <2>5. QED
    BY <1>1, <2>4, SimulatedSettles
<1>4. Settles(game, Requested(h, how, <<pending>>))
  <2>1. ASSUME NEW x \in Campaigns, x.rituals = game.rituals, x.checks = game.checks \cup {n}
        PROVE  Accepted(x, <<pending>>) /\ CalledOff(x, <<pending>>)
    <3>1. n \in x.checks /\ n.id = FreshCheck /\ n.then = [kind |-> "none"]
      BY <2>1, NewCheckIs
    <3> HIDE DEF n
    <3>2. Fits(x, pending)
      BY <1>1, <2>1, <3>1, RitualCheckFits
    <3>3. CalledOff(x, <<pending>>)
      BY <1>1, <2>1, <3>1, RitualCalledOff
    <3>4. QED
      BY <3>2, <3>3, AcceptedOne
  <2>2. Skipped(pending)
    BY DEF Skipped, NotStateChanging
  <2> HIDE DEF pending
  <2>3. QED
    BY <1>1, <2>1, <2>2, RequestedSettles
<1>5. QED
  BY <1>2, <1>3, <1>4, Committed

LEMMA SubmitDieResultKeeps ==
  ASSUME IInv, NEW c \in game.checks, NEW face, SubmitDieResult(c, face)
  PROVE  IInv'
<1> DEFINE degree == SubmittedDegree(c.disclosure, face)
           e == [kind |-> "check_resolved", check |-> c.id]
           x == [game EXCEPT !.checks = @ \ Pending(game, c.id)]
<1>1. game \in Campaigns /\ TakesResult(game, c) /\ Commit(<<e>> \o Continued(c, degree))
  BY DEF IInv, SubmitDieResult
<1>2. degree \in Degrees
  BY ResolveIs DEF SubmittedDegree
<1>3. Fits(game, e) /\ Effect(game, e) = x
  BY <1>1, ResolvedFits
<1>4. /\ x \in Campaigns /\ x.challenges = game.challenges /\ x.social = game.social
      /\ x.rituals = game.rituals /\ x.heroes = game.heroes /\ Alike(x, game)
      /\ x.checks = game.checks \ Pending(game, c.id)
  BY <1>1, <1>3, Shape DEF Fits, Games, Alike
<1>5. /\ c.then \in Continuations
      /\ c.then.kind = "challenge" => c.then.on \in Challenges
      /\ c.then.kind = "ritual" => c.then.on \in Rituals
      /\ c.then.kind = "social" => c.then.on \in Npcs
      /\ c.then.kind = "social" => c.then.stance \in Stances
      /\ Awaited(game, c) /\ c.roller \in game.heroes /\ Apart(game)
  <2>1. c \in Checks
    BY <1>1, Shape
  <2>2. c.then.kind = "social" => c.then.stance \in Stances
    BY <2>1, Continues DEF Continuations
  <2>3. QED
    BY <1>1, <2>1, <2>2, Continues DEF Campaigns, InParty
<1>6. Final(e)
  <2>1. c.id # None
    BY <1>1, Shape, NoneAssumption DEF Checks
  <2>2. QED
    BY <2>1 DEF Final, Skipped, NotStateChanging, InverseKinds
<1> HIDE DEF degree, e, x
<1>7. Accepted(x, Continued(c, degree)) /\ \E T : Continued(c, degree) \in Seq(T)
  <2>1. CASE c.then.kind = "challenge"
    <3>1. OpenChallenge(x, c.then.on)
      BY <1>1, <1>4, <2>1 DEF TakesResult, OpenChallenge
    <3>2. WaitsFor(x, "challenge", c.then.on) = {}
      <4>1. SUFFICES ASSUME NEW b \in x.checks, b.then.kind = "challenge", b.then.on = c.then.on PROVE FALSE
        BY DEF WaitsFor
      <4>2. b \in game.checks /\ b # c
        BY <1>4 DEF Pending
      <4>3. b.then = c.then
        <5>1. b \in Checks
          BY <1>1, <4>2, Shape
        <5>2. b.then \in Continuations
          BY <5>1, Continues
        <5>3. QED
          BY <1>5, <2>1, <4>1, <5>2 DEF Continuations
      <4>4. QED
        BY <1>5, <2>1, <4>2, <4>3 DEF Apart
    <3>3. Continued(c, degree) = ChallengeEvents(c.then.on, degree)
      BY <2>1 DEF Continued
    <3>4. QED
      BY <1>2, <1>4, <1>5, <2>1, <3>1, <3>2, <3>3, ChallengeAccepted
  <2>2. CASE c.then.kind = "social"
    <3>1. x.social[c.then.on] # None
      BY <1>4, <1>5, <2>2 DEF Awaited
    <3>2. Continued(c, degree) = SocialEvents(c.then.on, c.then.stance, degree)
      BY <2>2 DEF Continued
    <3>3. QED
      BY <1>2, <1>4, <1>5, <2>2, <3>1, <3>2, SocialAccepted
  <2>3. CASE c.then.kind = "ritual"
    <3>1. x.rituals[c.then.on] # None /\ x.rituals[c.then.on].status \in {"ready", "awaiting_resolution"}
      BY <1>1, <1>4, <1>5, <2>3 DEF TakesResult, Awaited
    <3>2. WaitsFor(x, "ritual", c.then.on) = {}
      <4>1. SUFFICES ASSUME NEW b \in x.checks, b.then.kind = "ritual", b.then.on = c.then.on PROVE FALSE
        BY DEF WaitsFor
      <4>2. b \in game.checks /\ b # c
        BY <1>4 DEF Pending
      <4>3. b.then = c.then
        <5>1. b \in Checks
          BY <1>1, <4>2, Shape
        <5>2. b.then \in Continuations
          BY <5>1, Continues
        <5>3. QED
          BY <1>5, <2>3, <4>1, <5>2 DEF Continuations
      <4>4. QED
        BY <1>5, <2>3, <4>2, <4>3 DEF Apart
    <3>3. Continued(c, degree) = RitualEvents(c.then.on, c.roller, degree)
      BY <2>3 DEF Continued
    <3>4. c.roller \in x.heroes
      BY <1>4, <1>5
    <3>5. QED
      BY <1>1, <1>2, <1>4, <1>5, <2>3, <3>1, <3>2, <3>3, <3>4, RitualAccepted
  <2>4. CASE c.then.kind \notin {"challenge", "social", "ritual"}
    <3>1. Continued(c, degree) = <<>> /\ <<>> \in Seq({})
      BY <2>4 DEF Continued
    <3>2. QED
      BY <1>4, <3>1, AcceptedNone
  <2>5. QED
    BY <2>1, <2>2, <2>3, <2>4
<1>8. Settles(game, <<e>> \o Continued(c, degree))
  <2>1. <<e>> \in Seq({e})
    OBVIOUS
  <2>2. Lasting(<<e>> \o Continued(c, degree))
    BY <1>6, <1>7, <2>1, LastingOne, LastingJoined
  <2>3. QED
    BY <1>3, <1>7, <2>2, AcceptedFirst, LastingReversible DEF Settles
<1>9. QED
  BY <1>1, <1>8, Committed

LEMMA StoryKeeps ==
  ASSUME IInv, StoryNext
  PROVE  IInv'
<1>1. CASE \E h \in game.heroes, how \in game.catalog.plain : ResolvePlainCheck(h, how)
  BY <1>1, ResolvePlainCheckKeeps
<1>2. CASE \E c \in Challenges : StartChallenge(c)
  BY <1>2, StartChallengeKeeps
<1>3. CASE \E c \in Challenges, h \in game.heroes, how \in How, face \in Dice :
             AdvanceChallenge(c, h, how, face)
  BY <1>3, AdvanceChallengeKeeps
<1>4. CASE \E n \in Npcs : EstablishSocialState(n)
  BY <1>4, EstablishSocialStateKeeps
<1>5. CASE \E n \in Npcs, s \in Stances, l \in Limits \cup {None}, h \in game.heroes, how \in How,
              face \in Dice : AttemptSocialShift(n, s, l, h, how, face)
  BY <1>5, AttemptSocialShiftKeeps
<1>6. CASE \E n \in Npcs, l \in Leverage : CreateLeverage(n, l) \/ SpendLeverage(n, l)
  BY <1>6, LeverageKeeps
<1>7. CASE \E r \in Rituals : StartRitual(r) \/ InterruptRitual(r)
  BY <1>7, StartOrInterruptKeeps
<1>8. CASE \E r \in Rituals, h \in game.heroes : ContributeRitual(r, h)
  BY <1>8, ContributeRitualKeeps
<1>9. CASE \E r \in Rituals, h \in game.heroes, how \in How, face \in Dice : ResolveRitual(r, h, how, face)
  BY <1>9, ResolveRitualKeeps
<1>10. CASE \E c \in game.checks, face \in Dice : SubmitDieResult(c, face)
  BY <1>10, SubmitDieResultKeeps
<1>11. QED
  BY <1>1, <1>2, <1>3, <1>4, <1>5, <1>6, <1>7, <1>8, <1>9, <1>10 DEF StoryNext

-----------------------------------------------------------------------------
(* Theorems *)

LEMMA Initially == Init => IInv
<1> SUFFICES ASSUME Init PROVE IInv
  OBVIOUS
<1>1. PICK catalog \in Catalogs : game = NoCampaign(catalog) /\ verdict = "applied"
  BY DEF Init
<1>2. game \in Games
  BY <1>1, DiceAssumption DEF NoCampaign, Games
<1>3. /\ game.heroes = {} /\ game.supply = 0 /\ game.checks = {} /\ game.spark = {} /\ game.recovered = {}
      /\ game.challenges = [c \in Challenges |-> None] /\ game.social = [n \in Npcs |-> None]
      /\ game.rituals = [r \in Rituals |-> None] /\ game.features = [h \in Heroes |-> {}]
      /\ game.ready = [h \in Heroes |-> {}]
  BY <1>1 DEF NoCampaign
<1>4. ValidCampaign(game)
  <2>1. Cardinality({}) = 0 /\ CheckLimit \in Nat
    BY FS_EmptySet, BoundsAssumption
  <2>2. QED
    BY <1>3, <2>1 DEF ValidCampaign, ValidHeroes, ValidChallenges, ValidSocial, ValidRituals, SupplyMaximum
<1>5. InParty(game) /\ Learned(game) /\ Apart(game) /\ Finite(game)
  BY <1>3, FS_EmptySet DEF InParty, Learned, Apart, Finite
<1>6. AcceptedApplies /\ UndoRestores
  BY <1>1 DEF AcceptedApplies, UndoRestores
<1>7. QED
  BY <1>2, <1>3, <1>4, <1>5, <1>6 DEF IInv, Campaigns

LEMMA Inductive == IInv /\ [Next]_vars => IInv'
<1> SUFFICES ASSUME IInv, [Next]_vars PROVE IInv'
  OBVIOUS
<1>1. CASE PartyNext
  BY <1>1, PartyKeeps
<1>2. CASE StoryNext
  BY <1>2, StoryKeeps
<1>3. CASE UNCHANGED vars
  BY <1>3 DEF vars, IInv, AcceptedApplies, UndoRestores
<1>4. QED
  BY <1>1, <1>2, <1>3 DEF Next

LEMMA Invariant == Spec => []IInv
BY Initially, Inductive, PTL DEF Spec

\* The state keeps its shape and passes the validation, whatever is decided.
THEOREM Typed == Spec => []TypeOK
<1>1. IInv => TypeOK
  BY DEF IInv, Campaigns, TypeOK, InParty, AcceptedApplies, Kinds
<1>2. QED
  BY <1>1, Invariant, PTL

\* A decision is refused by the application of its events only when the state
\* cannot hold another check.
THEOREM Accepts == Spec => []AcceptedApplies
<1>1. IInv => AcceptedApplies
  BY DEF IInv
<1>2. QED
  BY <1>1, Invariant, PTL

\* Whatever the compensation planner takes for reversible, taking it back gives
\* the state before it.
THEOREM Undoable == Spec => []UndoRestores
<1>1. IInv => UndoRestores
  BY DEF IInv
<1>2. QED
  BY <1>1, Invariant, PTL

\* A disclosed check can be answered with any face, unless its ritual was
\* interrupted.
THEOREM Answerable == Spec => []ChecksAnswerable
<1>1. IInv => ChecksAnswerable
  <2> SUFFICES ASSUME IInv, NEW c \in game.checks
               PROVE  /\ \A face \in Faces : AsDisclosed(c.disclosure, face)
                      /\ \/ TakesResult(game, c)
                         \/ c.then.kind = "ritual" /\ game.rituals[c.then.on].status = "interrupted"
    BY DEF ChecksAnswerable
  <2>1. c \in Checks /\ Awaited(game, c)
    BY Shape DEF IInv, Campaigns
  <2>2. ASSUME NEW face \in Faces PROVE AsDisclosed(c.disclosure, face)
    <3>1. PICK spark \in BOOLEAN : c.disclosure = Disclosure(CheckRequest, spark)
      BY <2>1 DEF Checks, Disclosures
    <3>2. QED
      BY <2>2, <3>1 DEF Disclosure, AsDisclosed, SubmittedDegree
  <2>3. QED
    BY <2>1, <2>2 DEF Awaited, TakesResult
<1>2. QED
  BY <1>1, Invariant, PTL

\* Whatever a hero is offered is accepted when it is chosen.
THEOREM Offers == Spec => []OfferedIsAccepted
<1>1. IInv => OfferedIsAccepted
  <2> SUFFICES ASSUME IInv, NEW h \in game.heroes
               PROVE  LET o == Offered(game, h) IN
                        /\ o.exertion > 0 => MaySpend(game, h, "exertion", o.exertion)
                        /\ o.supply > 0 => MaySpend(game, None, "supply", o.supply)
                        /\ o.spark => MayRecoverSpark(game, h)
                        /\ o.rest => MayRest(game)
                        /\ \A f \in o.features : MayAdvance(game, h, f)
    BY DEF OfferedIsAccepted
  <2>1. /\ game \in Campaigns /\ h \in Heroes /\ h # None /\ game.supply \in Int
        /\ game.stock[h]["exertion"] \in Int
    BY Shape, HeroesAssumption DEF IInv, Resources, SupplyMaximum
  <2>2. game.stock[h]["exertion"] > 0 => MaySpend(game, h, "exertion", game.stock[h]["exertion"])
    BY <2>1 DEF MaySpend, Stock
  <2>3. game.supply > 0 => MaySpend(game, None, "supply", game.supply) /\ MayRest(game)
    BY <2>1 DEF MaySpend, Stock, MayRest
  <2>4. ASSUME NEW f \in FeaturesFor(game, h) PROVE MayAdvance(game, h, f)
    <3>1. f \in game.catalog.features /\ f.rank = game.rank[h] + 1 /\ f.needs \subseteq Owned(game, h)
      BY DEF FeaturesFor
    <3>2. game.catalog \in Catalogs /\ game.rank[h] \in 1 .. 4 /\ Learned(game)
      BY <2>1, Shape
    <3>3. f.name \notin game.ready[h]
      BY <2>1, <3>1, <3>2, CatalogAssumption DEF Learned
    <3>4. f.name \notin game.features[h]
      <4>1. SUFFICES ASSUME f.name \in game.features[h] PROVE FALSE
        OBVIOUS
      <4>2. PICK d \in game.catalog.features : d.name = f.name /\ d.rank <= game.rank[h]
        BY <2>1, <3>2, <4>1 DEF Learned
      <4>3. d.rank = f.rank
        BY <3>1, <3>2, <4>2, CatalogAssumption
      <4>4. QED
        BY <3>1, <3>2, <4>2, <4>3
    <3>5. QED
      BY <3>1, <3>3, <3>4 DEF MayAdvance, Owned
  <2>5. QED
    BY <2>2, <2>3, <2>4 DEF Offered, MayRecoverSpark
<1>2. QED
  BY <1>1, Invariant, PTL
-----------------------------------------------------------------------------
(* What has been paid in gear *)

\* The parts of a state that say which gear was paid and which was spent.
Sheet(g) ==
  /\ {"rituals", "heroes", "ready", "spent"} \subseteq DOMAIN g
  /\ g.rituals \in [Rituals -> Rites \cup {None}]

SameBooks(g, x) ==
  /\ Sheet(x) /\ x.heroes = g.heroes /\ x.ready = g.ready /\ x.spent = g.spent
  /\ \A r \in Rituals : PaidSoFar(x, r) = PaidSoFar(g, r)

\* An event that leaves them alone.
Idle(e) ==
  /\ e.kind \in Kinds \ {"character_materialized", "significant_gear_spent",
                         "ritual_contribution", "physical_roll_cancelled"}
  /\ e.kind = "ritual_resolved" => e.outcome \in ClosedRitual

LEMMA RiteChanged ==
  ASSUME NEW g, Sheet(g), NEW r, r \in Rituals => g.rituals[r] # None,
         NEW status \in {"preparing", "ready", "awaiting_resolution"} \cup ClosedRitual
  PROVE  SameBooks(g, [g EXCEPT !.rituals[r].status = status])
<1> DEFINE y == [g EXCEPT !.rituals[r].status = status]
<1>1. /\ y.heroes = g.heroes /\ y.ready = g.ready /\ y.spent = g.spent /\ DOMAIN y = DOMAIN g
      /\ y.rituals = [g.rituals EXCEPT ![r].status = status]
  BY DEF Sheet
<1> HIDE DEF y
<1>2. CASE r \notin Rituals
  <2>1. y.rituals = g.rituals
    BY <1>1, <1>2 DEF Sheet
  <2>2. SameBooks(g, y)
    BY <1>1, <2>1 DEF Sheet, SameBooks, PaidSoFar
  <2>3. QED
    BY <2>2 DEF y
<1>3. CASE r \in Rituals
  <2> DEFINE t == [g.rituals[r] EXCEPT !.status = status]
  <2>1. g.rituals[r] \in Rites
    BY <1>3 DEF Sheet
  <2>2. t \in Rites /\ t.paid = g.rituals[r].paid /\ t # None
    BY <2>1, NoneAssumption DEF Rites
  <2> HIDE DEF t
  <2>3. y.rituals = [g.rituals EXCEPT ![r] = t]
    BY <1>1 DEF t
  <2>4. y.rituals \in [Rituals -> Rites \cup {None}]
    BY <2>2, <2>3 DEF Sheet
  <2>5. ASSUME NEW q \in Rituals PROVE PaidSoFar(y, q) = PaidSoFar(g, q)
    BY <1>3, <2>2, <2>3 DEF Sheet, PaidSoFar
  <2>6. QED
    BY <1>1, <2>4, <2>5 DEF Sheet, SameBooks, y
<1>4. QED
  BY <1>2, <1>3 DEF y

LEMMA RiteOpened ==
  ASSUME NEW g, Sheet(g), NEW r, r \in Rituals => g.rituals[r] = None
  PROVE  SameBooks(g, [g EXCEPT !.rituals[r] = [status |-> "preparing", paid |-> 0]])
<1> DEFINE t == [status |-> "preparing", paid |-> 0]
           y == [g EXCEPT !.rituals[r] = t]
<1>1. /\ y.heroes = g.heroes /\ y.ready = g.ready /\ y.spent = g.spent /\ DOMAIN y = DOMAIN g
      /\ y.rituals = [g.rituals EXCEPT ![r] = t]
  BY DEF Sheet
<1>2. t \in Rites /\ t.paid = 0 /\ t # None
  BY NoneAssumption DEF Rites
<1> HIDE DEF y, t
<1>3. y.rituals \in [Rituals -> Rites \cup {None}]
  BY <1>1, <1>2 DEF Sheet
<1>4. ASSUME NEW q \in Rituals PROVE PaidSoFar(y, q) = PaidSoFar(g, q)
  BY <1>1, <1>2 DEF Sheet, PaidSoFar
<1>5. QED
  BY <1>1, <1>3, <1>4 DEF Sheet, SameBooks, y, t

LEMMA BoundBooks ==
  ASSUME NEW g, Sheet(g), NEW id, NEW then
  PROVE  SameBooks(g, Bind(g, id, then))
<1>1. /\ DOMAIN Bind(g, id, then) = DOMAIN g /\ Bind(g, id, then).heroes = g.heroes
      /\ Bind(g, id, then).ready = g.ready /\ Bind(g, id, then).spent = g.spent
      /\ Bind(g, id, then).rituals = g.rituals
  BY DEF Bind, Sheet
<1>2. QED
  BY <1>1 DEF SameBooks, Sheet, PaidSoFar

\* Other parts of the state.
LEMMA AsideBooks ==
  ASSUME NEW g, Sheet(g), NEW y, DOMAIN y = DOMAIN g, y.heroes = g.heroes, y.ready = g.ready,
         y.spent = g.spent, y.rituals = g.rituals
  PROVE  SameBooks(g, y)
BY DEF SameBooks, Sheet, PaidSoFar

LEMMA IdleBooks ==
  ASSUME NEW g, Sheet(g), NEW e, Idle(e), Applies(g, e)
  PROVE  SameBooks(g, Effect(g, e))
<1>1. CASE e.kind = "ritual_started"
  BY <1>1, RiteOpened DEF Applies, Effect
<1>2. CASE e.kind = "ritual_ready"
  BY <1>2, RiteChanged DEF Applies, Effect
<1>3. CASE e.kind = "ritual_interrupted"
  BY <1>3, RiteChanged DEF Applies, Effect, ClosedRitual
<1>4. CASE e.kind = "ritual_resolved"
  BY <1>4, RiteChanged DEF Applies, Effect, Idle
<1>5. CASE e.kind = "ritual_check_pending"
  <2> DEFINE x == [g EXCEPT !.rituals[e.on].status = "awaiting_resolution"]
             y == Bind(x, e.check, [kind |-> "ritual", on |-> e.on])
  <2>1. SameBooks(g, x)
    BY <1>5, RiteChanged DEF Applies
  <2> HIDE DEF x
  <2>2. SameBooks(x, y)
    BY <2>1, BoundBooks DEF SameBooks
  <2>3. Effect(g, e) = y
    BY <1>5 DEF Effect, x
  <2> HIDE DEF y
  <2>4. QED
    BY <2>1, <2>2, <2>3 DEF SameBooks
<1>6. CASE e.kind \in {"challenge_check_pending", "social_check_pending"}
  BY <1>6, BoundBooks DEF Effect, SocialEffect, ChallengeEffect
<1>7. CASE e.kind \in {"challenge_started", "challenge_tracks_changed", "challenge_resolved",
                       "social_state_established", "social_stance_changed",
                       "leverage_created", "leverage_spent"}
  <2> DEFINE y == Effect(g, e)
  <2>1. DOMAIN y = DOMAIN g /\ y.heroes = g.heroes /\ y.ready = g.ready /\ y.spent = g.spent /\ y.rituals = g.rituals
    BY <1>7 DEF Effect, SocialEffect, ChallengeEffect, CheckEffect, PartyEffect, Sheet
  <2> HIDE DEF y
  <2>2. SameBooks(g, y)
    BY <2>1, AsideBooks
  <2>3. QED
    BY <2>2 DEF y
<1>8. CASE e.kind \in {"physical_roll_requested", "check_resolved", "spark_spent", "spark_restored",
                       "resource_changed", "spark_recovered", "costly_rest_completed",
                       "scene_resources_reset"}
  <2> DEFINE y == Effect(g, e)
  <2>1. DOMAIN y = DOMAIN g /\ y.heroes = g.heroes /\ y.ready = g.ready /\ y.spent = g.spent /\ y.rituals = g.rituals
    BY <1>8 DEF Effect, SocialEffect, ChallengeEffect, CheckEffect, PartyEffect, SceneReset, ResetHeroes, Sheet
  <2> HIDE DEF y
  <2>2. SameBooks(g, y)
    BY <2>1, AsideBooks
  <2>3. QED
    BY <2>2 DEF y
<1>9. CASE e.kind = "rank_advanced"
  <2> DEFINE y == Effect(g, e)
  <2>1. DOMAIN y = DOMAIN g /\ y.heroes = g.heroes /\ y.ready = g.ready /\ y.spent = g.spent /\ y.rituals = g.rituals
    BY <1>9 DEF Effect, SocialEffect, ChallengeEffect, CheckEffect, PartyEffect, Sheet
  <2> HIDE DEF y
  <2>2. SameBooks(g, y)
    BY <2>1, AsideBooks
  <2>3. QED
    BY <2>2 DEF y
<1>10. QED
  BY <1>1, <1>2, <1>3, <1>4, <1>5, <1>6, <1>7, <1>8, <1>9 DEF Idle, Kinds

LEMMA BooksFollow ==
  ASSUME NEW g, NEW x, NEW y, SameBooks(g, x), SameBooks(x, y)
  PROVE  SameBooks(g, y)
BY DEF SameBooks

\* A sequence of such events leaves them alone, also if one is refused.
LEMMA AppliedIdle ==
  ASSUME NEW g, Sheet(g), NEW E, NEW es \in Seq(E), \A e \in E : Idle(e)
  PROVE  SameBooks(g, ApplyAll(g, es).game)
<1> DEFINE Goes(t) ==
             \E x, k : ApplyAll(g, t) = [game |-> x, refused |-> k] /\ SameBooks(g, x)
           S == {n \in Nat : \A t \in Seq(E) : Len(t) = n => Goes(t)}
<1>1. 0 \in S
  <2>1. ASSUME NEW t \in Seq(E), Len(t) = 0 PROVE t = <<>>
    BY <2>1
  <2>2. SameBooks(g, g)
    BY DEF SameBooks
  <2>3. Goes(<<>>)
    BY <2>2, AppliedNone DEF Start
  <2>4. QED
    BY <2>1, <2>3
<1>2. ASSUME NEW n \in S PROVE n + 1 \in S
  <2>1. SUFFICES ASSUME NEW t \in Seq(E), Len(t) = n + 1 PROVE Goes(t)
    OBVIOUS
  <2>2. PICK s \in Seq(E), e \in E : t = Append(s, e) /\ Len(s) = n
    BY <2>1, LastApart
  <2>3. PICK x, k : ApplyAll(g, s) = [game |-> x, refused |-> k] /\ SameBooks(g, x)
    BY <2>2
  <2>4. ApplyAll(g, t) = Apply([game |-> x, refused |-> k], e)
    BY <2>2, <2>3, AppliedMore
  <2>5. Applies(x, e) => SameBooks(g, Effect(x, e))
    BY <2>3, IdleBooks, BooksFollow DEF SameBooks
  <2>6. QED
    BY <2>3, <2>4, <2>5 DEF Apply
<1>3. S \in SUBSET Nat /\ Len(es) \in Nat
  OBVIOUS
<1> HIDE DEF S
<1>4. Len(es) \in S
  BY <1>1, <1>2, <1>3, UpFromZero
<1>5. QED
  BY <1>4 DEF S

\* Each piece that was paid is a piece that was spent, and what is spent is
\* ready no more.
Balanced(g) ==
  /\ IsFiniteSet(GearPaid(g)) /\ IsFiniteSet(GearSpent(g))
  /\ Cardinality(GearPaid(g)) = Cardinality(GearSpent(g))
  /\ \A h \in Heroes : g.ready[h] \cap g.spent[h] = {}
  /\ \A h \in Heroes \ g.heroes : g.spent[h] = {}

LEMMA SameBalance ==
  ASSUME NEW g, NEW x, SameBooks(g, x), Balanced(g)
  PROVE  Balanced(x)
<1>1. GearPaid(x) = GearPaid(g) /\ GearSpent(x) = GearSpent(g)
  BY DEF SameBooks, GearPaid, GearSpent
<1>2. QED
  BY <1>1 DEF SameBooks, Balanced

LEMMA CampaignSheet ==
  ASSUME NEW g \in Campaigns
  PROVE  Sheet(g)
BY Shape DEF Games, Sheet

AllIdle(es) == \E E : es \in Seq(E) /\ \A e \in E : Idle(e)

LEMMA IdleNone == AllIdle(<<>>)
<1> DEFINE E == {}
<1>1. <<>> \in Seq(E) /\ \A e \in E : Idle(e)
  OBVIOUS
<1> HIDE DEF E
<1>2. QED
  BY <1>1 DEF AllIdle

LEMMA IdleOne ==
  ASSUME NEW e, Idle(e)
  PROVE  AllIdle(<<e>>)
<1> DEFINE E == {e}
<1>1. <<e>> \in Seq(E) /\ \A d \in E : Idle(d)
  OBVIOUS
<1> HIDE DEF E
<1>2. QED
  BY <1>1 DEF AllIdle

LEMMA IdleJoined ==
  ASSUME NEW es, NEW fs, AllIdle(es), AllIdle(fs)
  PROVE  AllIdle(es \o fs)
<1>1. PICK E : es \in Seq(E) /\ \A e \in E : Idle(e)
  BY DEF AllIdle
<1>2. PICK F : fs \in Seq(F) /\ \A e \in F : Idle(e)
  BY DEF AllIdle
<1>3. es \o fs \in Seq(E \cup F) /\ \A e \in E \cup F : Idle(e)
  BY <1>1, <1>2
<1>4. QED
  BY <1>3 DEF AllIdle

LEMMA IdleCommitted ==
  ASSUME game \in Campaigns, Balanced(game), NEW es, AllIdle(es), Commit(es)
  PROVE  Balanced(game')
<1>1. game' = game \/ game' = ApplyAll(game, es).game
  BY DEF Commit
<1>2. SameBooks(game, ApplyAll(game, es).game)
  BY CampaignSheet, AppliedIdle DEF AllIdle
<1>3. QED
  BY <1>1, <1>2, SameBalance
-----------------------------------------------------------------------------
\* Each decision but the contribution to a ritual is of such events.
LEMMA RequestedIdle ==
  ASSUME NEW h, NEW how, NEW then, AllIdle(then)
  PROVE  AllIdle(Requested(h, how, then))
<1> DEFINE spark == [kind |-> "spark_spent", hero |-> h]
           request == [kind |-> "physical_roll_requested", check |-> FreshCheck, hero |-> h,
                       disclosure |-> Disclosure(CheckRequest, how = "spark")]
           first == IF how = "spark" THEN <<spark>> ELSE <<>>
<1>1. Idle(spark) /\ Idle(request)
  BY DEF Idle, Kinds
<1>2. Requested(h, how, then) = first \o <<request>> \o then
  BY DEF Requested
<1> HIDE DEF spark, request
<1>3. AllIdle(first)
  BY <1>1, IdleNone, IdleOne
<1> HIDE DEF first
<1>4. AllIdle(first \o <<request>>)
  BY <1>1, <1>3, IdleOne, IdleJoined
<1>5. QED
  BY <1>2, <1>4, IdleJoined

LEMMA SimulatedIdle == AllIdle(Simulated)
<1>1. Idle([kind |-> "check_resolved", check |-> None])
  BY DEF Idle, Kinds
<1>2. QED
  BY <1>1, IdleOne DEF Simulated

LEMMA ChallengeIdle ==
  ASSUME NEW c, NEW degree
  PROVE  AllIdle(ChallengeEvents(c, degree))
<1>1. ASSUME NEW before, NEW after
      PROVE  AllIdle(<<[kind |-> "challenge_tracks_changed", on |-> c, before |-> before, after |-> after]>>)
  <2> DEFINE e == [kind |-> "challenge_tracks_changed", on |-> c, before |-> before, after |-> after]
  <2>1. Idle(e)
    BY DEF Idle, Kinds
  <2> HIDE DEF e
  <2>2. AllIdle(<<e>>)
    BY <2>1, IdleOne
  <2>3. QED
    BY <2>2 DEF e
<1>2. ASSUME NEW status
      PROVE  AllIdle(IF status = "active" THEN <<>>
                     ELSE <<[kind |-> "challenge_resolved", on |-> c, outcome |-> status]>>)
  <2> DEFINE e == [kind |-> "challenge_resolved", on |-> c, outcome |-> status]
  <2>1. Idle(e)
    BY DEF Idle, Kinds
  <2> HIDE DEF e
  <2>2. AllIdle(<<e>>) /\ AllIdle(<<>>)
    BY <2>1, IdleOne, IdleNone
  <2>3. QED
    BY <2>2 DEF e
<1>3. QED
  BY <1>1, <1>2, IdleJoined, Zenon DEF ChallengeEvents

LEMMA SocialIdle ==
  ASSUME NEW n, NEW requested, NEW degree
  PROVE  AllIdle(SocialEvents(n, requested, degree))
<1>1. ASSUME NEW previous, NEW current
      PROVE  AllIdle(<<[kind |-> "social_stance_changed", on |-> n, previous |-> previous,
                        current |-> current, degree |-> degree]>>)
  <2> DEFINE e == [kind |-> "social_stance_changed", on |-> n, previous |-> previous,
                   current |-> current, degree |-> degree]
  <2>1. Idle(e)
    BY DEF Idle, Kinds
  <2> HIDE DEF e
  <2>2. AllIdle(<<e>>)
    BY <2>1, IdleOne
  <2>3. QED
    BY <2>2 DEF e
<1>2. QED
  BY <1>1, IdleNone, Zenon DEF SocialEvents

LEMMA ChangedIdle ==
  ASSUME NEW owner, NEW resource, NEW previous, NEW current
  PROVE  Idle(Changed(owner, resource, previous, current))
BY DEF Idle, Kinds, Changed

LEMMA RitualIdle ==
  ASSUME NEW r, NEW h, NEW degree \in Degrees
  PROVE  AllIdle(RitualEvents(r, h, degree))
<1> DEFINE es == ConsequenceEvents(h, degree)
           n == Len(Consequences[degree])
           last == [kind |-> "ritual_resolved", on |-> r,
                    outcome |-> IF degree \in {Success, Triumph} THEN "completed" ELSE "failed"]
<1>1. n \in Nat
  BY RitualAssumption
<1>2. \E f : es = [i \in 1 .. n |-> Adjustment(f[i - 1], h, Consequences[degree][i])]
  <2> DEFINE left == CHOOSE f : Levy(f, h, Consequences[degree], n)
  <2>1. es = [i \in 1 .. n |-> Adjustment(left[i - 1], h, Consequences[degree][i])]
    BY DEF ConsequenceEvents, Levy
  <2> HIDE DEF left, es, n
  <2>2. QED
    BY <2>1
<1>3. AllIdle(es)
  <2>1. PICK f : es = [i \in 1 .. n |-> Adjustment(f[i - 1], h, Consequences[degree][i])]
    BY <1>2
  <2> DEFINE E == {Adjustment(f[i - 1], h, Consequences[degree][i]) : i \in 1 .. n}
  <2>2. \A e \in E : Idle(e)
    BY ChangedIdle DEF Adjustment
  <2> HIDE DEF es
  <2>3. es \in Seq(E)
    <3>1. es \in [1 .. n -> E]
      BY <2>1
    <3> HIDE DEF E, n
    <3>2. QED
      BY <1>1, <3>1, SeqDef
  <2> HIDE DEF E
  <2>4. QED
    BY <2>2, <2>3 DEF AllIdle
<1>4. Idle(last)
  BY DEF Idle, Kinds, ClosedRitual
<1>5. RitualEvents(r, h, degree) = es \o <<last>>
  BY DEF RitualEvents
<1> HIDE DEF es, last
<1>6. QED
  BY <1>3, <1>4, <1>5, IdleOne, IdleJoined
LEMMA PartyBalances ==
  ASSUME game \in Campaigns, Balanced(game), PartyNext
  PROVE  Balanced(game')
<1>1. CASE \E h \in game.catalog.roster : MaterializeCharacter(h)
  <2>1. PICK h \in game.catalog.roster : MaterializeCharacter(h)
    BY <1>1
  <2> DEFINE gear == game.catalog.gear[h]
             e == [kind |-> "character_materialized", hero |-> h, gear |-> gear]
             y == [game EXCEPT !.heroes = @ \cup {h}, !.spark = @ \cup {h}, !.stock[h] = Full,
                               !.ready[h] = gear]
  <2>2. h \in Heroes /\ h \notin game.heroes /\ Commit(<<e>>)
    BY <2>1, Shape, CatalogAssumption DEF MaterializeCharacter
  <2>3. e.kind \in Kinds /\ Effect(game, e) = y
    BY DEF Kinds, Effect, SocialEffect, ChallengeEffect, CheckEffect, PartyEffect
  <2> HIDE DEF e
  <2>4. game' = game \/ game' = y
    <3>1. ApplyAll(game, <<e>>) \in {Start(Effect(game, e)), [game |-> game, refused |-> e.kind]}
      BY <2>3, AppliedOne
    <3>2. QED
      BY <2>2, <2>3, <3>1 DEF Commit, Start
  <2>5. /\ y.rituals = game.rituals /\ y.spent = game.spent /\ y.heroes = game.heroes \cup {h}
        /\ y.ready = [game.ready EXCEPT ![h] = gear]
    BY Shape DEF Games
  <2> HIDE DEF y, gear
  <2>6. game.spent[h] = {}
    BY <2>2 DEF Balanced
  <2>7. GearPaid(y) = GearPaid(game) /\ GearSpent(y) = GearSpent(game)
    BY <2>5, <2>6 DEF GearPaid, PaidSoFar, GearSpent
  <2>8. \A k \in Heroes : y.ready[k] \cap y.spent[k] = {}
    <3>1. game.ready \in [Heroes -> SUBSET Gear]
      BY Shape
    <3>2. QED
      BY <2>5, <2>6, <3>1 DEF Balanced
  <2>9. Balanced(y)
    BY <2>5, <2>7, <2>8 DEF Balanced
  <2>10. QED
    BY <2>4, <2>9
<1>2. ASSUME NEW owner, NEW resource, NEW previous, NEW current,
             Commit(<<Changed(owner, resource, previous, current)>>)
      PROVE  Balanced(game')
  BY <1>2, ChangedIdle, IdleOne, IdleCommitted
<1>3. CASE ProvisionStartingSupply
  BY <1>2, <1>3 DEF ProvisionStartingSupply
<1>4. ASSUME NEW o, NEW n, SpendResource(o[1], o[2], n) \/ RecoverResource(o[1], o[2], n)
      PROVE  Balanced(game')
  BY <1>2, <1>4 DEF SpendResource, RecoverResource
<1>5. CASE \E h \in game.heroes : RecoverSpark(h)
  <2>1. PICK h \in game.heroes : Commit(<<[kind |-> "spark_recovered", hero |-> h]>>)
    BY <1>5 DEF RecoverSpark
  <2>2. Idle([kind |-> "spark_recovered", hero |-> h])
    BY DEF Idle, Kinds
  <2>3. QED
    BY <2>1, <2>2, IdleOne, IdleCommitted
<1>6. CASE \E hs \in (SUBSET game.heroes) \ {{}} : CostlyRest(hs)
  <2>1. PICK hs \in SUBSET game.heroes : Commit(<<[kind |-> "costly_rest_completed", heroes |-> hs]>>)
    BY <1>6 DEF CostlyRest
  <2>2. Idle([kind |-> "costly_rest_completed", heroes |-> hs])
    BY DEF Idle, Kinds
  <2>3. QED
    BY <2>1, <2>2, IdleOne, IdleCommitted
<1>7. CASE \E s \in game.catalog.scenes, b \in {"scene", "session_start", "session_end"} : AdvanceScene(s, b)
  <2>1. PICK s \in game.catalog.scenes, b \in {"scene", "session_start", "session_end"} :
          Commit(<<[kind |-> "scene_resources_reset", from |-> game.scene, to |-> s,
                    boundary |-> b, heroes |-> game.heroes]>>)
    BY <1>7 DEF AdvanceScene
  <2>2. Idle([kind |-> "scene_resources_reset", from |-> game.scene, to |-> s,
              boundary |-> b, heroes |-> game.heroes])
    BY DEF Idle, Kinds
  <2>3. QED
    BY <2>1, <2>2, IdleOne, IdleCommitted
<1>8. CASE \E h \in game.heroes, f \in game.catalog.features : AdvanceRank(h, f)
  <2>1. PICK h \in game.heroes, f \in game.catalog.features :
          Commit(<<[kind |-> "rank_advanced", hero |-> h, rank |-> f.rank, feature |-> f.name]>>)
    BY <1>8 DEF AdvanceRank
  <2>2. Idle([kind |-> "rank_advanced", hero |-> h, rank |-> f.rank, feature |-> f.name])
    BY DEF Idle, Kinds
  <2>3. QED
    BY <2>1, <2>2, IdleOne, IdleCommitted
<1>9. QED
  BY <1>1, <1>3, <1>4, <1>5, <1>6, <1>7, <1>8 DEF PartyNext

\* A contribution of gear spends one piece and pays one cost; any other
\* contribution does neither.
LEMMA PaymentBalances ==
  ASSUME game \in Campaigns, Balanced(game), NEW r \in Rituals, NEW h \in game.heroes,
         game.rituals[r] # None, game.rituals[r].status = "preparing",
         game.rituals[r].paid < Len(Costs), Payable(h, Costs[game.rituals[r].paid + 1]),
         NEW e, PaymentEvents(h, Costs[game.rituals[r].paid + 1], r) = <<e>>, Applies(game, e)
  PROVE  LET give == [kind |-> "ritual_contribution", on |-> r, hero |-> h,
                      index |-> game.rituals[r].paid]
             y == Effect(Effect(game, e), give)
         IN  Balanced(y) /\ Sheet(y)
<1> DEFINE paid == game.rituals[r].paid
           cost == Costs[paid + 1]
           give == [kind |-> "ritual_contribution", on |-> r, hero |-> h, index |-> paid]
           x == Effect(game, e)
           y == Effect(x, give)
<1>1. /\ paid \in Nat /\ paid + 1 \in 1 .. Len(Costs) /\ game.rituals[r] \in Rites
      /\ game.rituals \in [Rituals -> Rites \cup {None}]
  BY RiteOf, CostsAre, Shape DEF Rites
<1>2. cost \in [kind : {"significant_gear"}, gear : Gear] \cup [kind : {"supply", "exertion"}, amount : Nat]
  BY <1>1, RitualAssumption
<1> HIDE DEF cost
<1>3. y = [x EXCEPT !.rituals[r].paid = paid + 1]
  BY DEF Effect
<1> HIDE DEF x, y, paid
<1>4. ASSUME Sheet(x), x.rituals = game.rituals
      PROVE  /\ Sheet(y) /\ y.heroes = x.heroes /\ y.ready = x.ready /\ y.spent = x.spent
             /\ \A q \in Rituals : PaidSoFar(y, q) = IF q = r THEN paid + 1 ELSE PaidSoFar(game, q)
  <2> DEFINE t == [game.rituals[r] EXCEPT !.paid = paid + 1]
  <2>1. t \in Rites /\ t # None /\ t.paid = paid + 1
    BY <1>1, NoneAssumption DEF Rites
  <2> HIDE DEF t
  <2>2. /\ y.heroes = x.heroes /\ y.ready = x.ready /\ y.spent = x.spent /\ DOMAIN y = DOMAIN x
        /\ y.rituals = [game.rituals EXCEPT ![r] = t]
    BY <1>3, <1>4 DEF Sheet, t
  <2>3. QED
    BY <1>1, <1>4, <2>1, <2>2 DEF Sheet, PaidSoFar
<1>5. CASE cost.kind = "significant_gear"
  <2> DEFINE gear == cost.gear
  <2>1. gear \in Gear /\ gear \in game.ready[h] /\ h \in Heroes
    BY <1>2, <1>5, Shape DEF Payable, cost, paid
  <2>2. e = [kind |-> "significant_gear_spent", hero |-> h, gear |-> gear, ritual |-> r]
    BY <1>5 DEF PaymentEvents, cost, paid
  <2>3. x = [game EXCEPT !.ready[h] = @ \ {gear}, !.spent[h] = @ \cup {gear}]
    BY <2>2 DEF x, Effect, SocialEffect, ChallengeEffect, CheckEffect, PartyEffect
  <2> HIDE DEF gear
  <2>4. /\ x.ready = [game.ready EXCEPT ![h] = @ \ {gear}]
        /\ x.spent = [game.spent EXCEPT ![h] = @ \cup {gear}]
        /\ x.heroes = game.heroes /\ x.rituals = game.rituals /\ DOMAIN x = DOMAIN game
    BY <2>3, Shape DEF Games
  <2>5. /\ Sheet(y) /\ y.heroes = game.heroes /\ y.ready = x.ready /\ y.spent = x.spent
        /\ \A q \in Rituals : PaidSoFar(y, q) = IF q = r THEN paid + 1 ELSE PaidSoFar(game, q)
    BY <1>1, <1>4, <2>4, CampaignSheet DEF Sheet
  <2>6. /\ game.spent \in [Heroes -> SUBSET Gear] /\ game.ready \in [Heroes -> SUBSET Gear]
        /\ gear \notin game.spent[h] /\ game.heroes \in SUBSET Heroes
    BY <2>1, Shape DEF Balanced
  <2>7. GearSpent(y) = GearSpent(game) \cup {<<h, gear>>} /\ <<h, gear>> \notin GearSpent(game)
    BY <2>1, <2>4, <2>5, <2>6 DEF GearSpent
  <2>8. GearPaid(y) = GearPaid(game) \cup {<<r, paid + 1>>} /\ <<r, paid + 1>> \notin GearPaid(game)
    <3>1. Costs[paid + 1].kind = "significant_gear" /\ PaidSoFar(game, r) = paid
      BY <1>5 DEF cost, paid, PaidSoFar
    <3>2. <<r, paid + 1>> \in GearPaid(y) /\ <<r, paid + 1>> \notin GearPaid(game)
      BY <1>1, <2>5, <3>1 DEF GearPaid
    <3>3. ASSUME NEW q \in Rituals, NEW i \in 1 .. Len(Costs), <<q, i>> # <<r, paid + 1>>
          PROVE  i <= PaidSoFar(y, q) <=> i <= PaidSoFar(game, q)
      <4>1. CASE q = r
        BY <1>1, <2>5, <3>1, <3>3, <4>1
      <4>2. CASE q # r
        BY <2>5, <4>2
      <4>3. QED
        BY <4>1, <4>2
    <3>4. QED
      BY <3>2, <3>3 DEF GearPaid
  <2>9. /\ IsFiniteSet(GearPaid(y)) /\ IsFiniteSet(GearSpent(y))
        /\ Cardinality(GearPaid(y)) = Cardinality(GearSpent(y))
    <3>1. ASSUME NEW A, NEW a, IsFiniteSet(A), a \notin A
          PROVE  IsFiniteSet(A \cup {a}) /\ Cardinality(A \cup {a}) = Cardinality(A) + 1
      BY <3>1, FS_AddElement
    <3>2. /\ IsFiniteSet(GearPaid(game)) /\ IsFiniteSet(GearSpent(game))
          /\ Cardinality(GearPaid(game)) = Cardinality(GearSpent(game))
      BY DEF Balanced
    <3>3. /\ IsFiniteSet(GearPaid(game) \cup {<<r, paid + 1>>})
          /\ Cardinality(GearPaid(game) \cup {<<r, paid + 1>>}) = Cardinality(GearPaid(game)) + 1
      BY <2>8, <3>1, <3>2
    <3>4. /\ IsFiniteSet(GearSpent(game) \cup {<<h, gear>>})
          /\ Cardinality(GearSpent(game) \cup {<<h, gear>>}) = Cardinality(GearSpent(game)) + 1
      BY <2>7, <3>1, <3>2
    <3>5. QED
      BY <2>7, <2>8, <3>2, <3>3, <3>4
  <2>10. \A k \in Heroes : y.ready[k] \cap y.spent[k] = {}
    BY <2>1, <2>4, <2>5, <2>6 DEF Balanced
  <2>11. \A k \in Heroes \ y.heroes : y.spent[k] = {}
    BY <2>1, <2>4, <2>5, <2>6 DEF Balanced
  <2>12. QED
    BY <2>5, <2>9, <2>10, <2>11 DEF Balanced, y, x, paid
<1>6. CASE cost.kind # "significant_gear"
  <2>1. Idle(e)
    <3>1. PICK owner, resource, previous, current : e = Changed(owner, resource, previous, current)
      BY <1>6 DEF PaymentEvents, cost, paid
    <3>2. QED
      BY <3>1, ChangedIdle
  <2>2. SameBooks(game, x)
    BY <2>1, IdleBooks, CampaignSheet DEF x
  <2>3. x.rituals = game.rituals
    <3>1. PICK owner, resource, previous, current : e = Changed(owner, resource, previous, current)
      BY <1>6 DEF PaymentEvents, cost, paid
    <3>2. QED
      BY <3>1, CampaignSheet DEF x, Changed, Effect, SocialEffect, ChallengeEffect, CheckEffect, PartyEffect, Sheet
  <2>4. /\ Sheet(y) /\ y.heroes = game.heroes /\ y.ready = game.ready /\ y.spent = game.spent
        /\ \A q \in Rituals : PaidSoFar(y, q) = IF q = r THEN paid + 1 ELSE PaidSoFar(game, q)
    BY <1>4, <2>2, <2>3 DEF SameBooks
  <2>5. GearSpent(y) = GearSpent(game)
    BY <2>4 DEF GearSpent
  <2>6. GearPaid(y) = GearPaid(game)
    <3>1. Costs[paid + 1].kind # "significant_gear" /\ PaidSoFar(game, r) = paid
      BY <1>6 DEF cost, paid, PaidSoFar
    <3>2. ASSUME NEW q \in Rituals, NEW i \in 1 .. Len(Costs), Costs[i].kind = "significant_gear"
          PROVE  i <= PaidSoFar(y, q) <=> i <= PaidSoFar(game, q)
      <4>1. CASE q = r
        BY <1>1, <2>4, <3>1, <3>2, <4>1
      <4>2. CASE q # r
        BY <2>4, <4>2
      <4>3. QED
        BY <4>1, <4>2
    <3>3. QED
      BY <3>2 DEF GearPaid
  <2>7. QED
    BY <2>4, <2>5, <2>6 DEF Balanced, y, x, paid
<1>7. QED
  BY <1>5, <1>6 DEF y, x, paid
LEMMA ContributeBalances ==
  ASSUME game \in Campaigns, Balanced(game), NEW r \in Rituals, NEW h \in game.heroes,
         ContributeRitual(r, h)
  PROVE  Balanced(game')
<1> DEFINE paid == game.rituals[r].paid
           give == [kind |-> "ritual_contribution", on |-> r, hero |-> h, index |-> paid]
           ready == [kind |-> "ritual_ready", on |-> r]
           tail == IF paid + 1 = Len(Costs) THEN <<ready>> ELSE <<>>
           payment == PaymentEvents(h, Costs[paid + 1], r)
<1>1. /\ game.rituals[r] # None /\ game.rituals[r].status = "preparing" /\ paid < Len(Costs)
      /\ Payable(h, Costs[paid + 1]) /\ Commit(payment \o <<give>> \o tail)
  BY DEF ContributeRitual
<1>2. PICK e : payment = <<e>> /\ Fits(game, e)
  BY <1>1, PaymentFits
<1> DEFINE x == Effect(game, e)
           y == Effect(x, give)
<1>3. Balanced(y) /\ Sheet(y)
  BY <1>1, <1>2, PaymentBalances DEF Fits
<1>4. e.kind \in Kinds /\ Applies(game, e) /\ ValidCampaign(x)
  BY <1>2 DEF Fits, Campaigns
<1>5. give.kind \in Kinds
  BY DEF Kinds
<1>6. AllIdle(tail)
  <2>1. Idle(ready)
    BY DEF Idle, Kinds
  <2> HIDE DEF ready
  <2>2. QED
    BY <2>1, IdleOne, IdleNone
<1> HIDE DEF x, y, give, tail
<1>7. PICK E : tail \in Seq(E) /\ \A d \in E : Idle(d)
  BY <1>6 DEF AllIdle
<1>8. SameBooks(y, ApplyAll(y, tail).game)
  BY <1>3, <1>7, AppliedIdle
<1>9. \/ ApplyAll(x, <<give>> \o tail) = ApplyAll(y, tail)
      \/ ApplyAll(x, <<give>> \o tail).refused \in Kinds
  <2> DEFINE F == E \cup {give}
  <2>1. give \in F /\ tail \in Seq(F)
    BY <1>7
  <2> HIDE DEF F
  <2>2. IF Applies(x, give) /\ ValidCampaign(Effect(x, give))
        THEN ApplyAll(x, <<give>> \o tail) = ApplyAll(Effect(x, give), tail)
        ELSE ApplyAll(x, <<give>> \o tail) = [game |-> x, refused |-> give.kind]
    BY <1>5, <2>1, AppliedFirst
  <2>3. QED
    BY <1>5, <2>2 DEF y
<1>10. /\ ApplyAll(game, payment \o <<give>> \o tail) = ApplyAll(x, <<give>> \o tail)
  <2> DEFINE F == E \cup {give, e}
             rest == <<give>> \o tail
  <2>1. e \in F /\ rest \in Seq(F) /\ <<e>> \o <<give>> \o tail = <<e>> \o rest
    BY <1>7
  <2> HIDE DEF F, rest, payment
  <2>2. ApplyAll(game, <<e>> \o rest) = ApplyAll(x, rest)
    BY <1>4, <2>1, AppliedFirst DEF x
  <2>3. QED
    BY <1>2, <2>1, <2>2 DEF rest
<1> HIDE DEF payment
<1>11. game' = game \/ game' = ApplyAll(y, tail).game
  BY <1>1, <1>9, <1>10, KindsAssumption DEF Commit
<1>12. QED
  BY <1>3, <1>8, <1>11, SameBalance

LEMMA StoryBalances ==
  ASSUME game \in Campaigns, Balanced(game), StoryNext
  PROVE  Balanced(game')
<1>1. CASE \E h \in game.heroes, how \in game.catalog.plain : ResolvePlainCheck(h, how)
  BY <1>1, SimulatedIdle, IdleNone, RequestedIdle, IdleCommitted DEF ResolvePlainCheck
<1>2. CASE \E c \in Challenges : StartChallenge(c)
  <2>1. PICK c \in Challenges : Commit(<<[kind |-> "challenge_started", on |-> c]>>)
    BY <1>2 DEF StartChallenge
  <2>2. Idle([kind |-> "challenge_started", on |-> c])
    BY DEF Idle, Kinds
  <2>3. QED
    BY <2>1, <2>2, IdleOne, IdleCommitted
<1>3. CASE \E c \in Challenges, h \in game.heroes, how \in How, face \in Dice :
             AdvanceChallenge(c, h, how, face)
  <2>1. PICK c \in Challenges, h \in game.heroes, how \in How, face \in Dice :
          AdvanceChallenge(c, h, how, face)
    BY <1>3
  <2> DEFINE e == [kind |-> "challenge_check_pending", on |-> c, check |-> FreshCheck]
             degree == ResolveCheck(CheckRequest, face)
  <2>2. Idle(e)
    BY DEF Idle, Kinds
  <2>3. Commit(IF how = "simulated" THEN Simulated \o ChallengeEvents(c, degree)
               ELSE Requested(h, how, <<e>>))
    BY <2>1 DEF AdvanceChallenge
  <2> HIDE DEF e, degree
  <2>4. AllIdle(Simulated \o ChallengeEvents(c, degree)) /\ AllIdle(Requested(h, how, <<e>>))
    BY <2>2, SimulatedIdle, ChallengeIdle, IdleJoined, IdleOne, RequestedIdle
  <2>5. QED
    BY <2>3, <2>4, IdleCommitted
<1>4. CASE \E n \in Npcs : EstablishSocialState(n)
  <2>1. PICK n \in Npcs :
          Commit(<<[kind |-> "social_state_established", on |-> n, stance |-> InitialStance]>>)
    BY <1>4 DEF EstablishSocialState
  <2>2. Idle([kind |-> "social_state_established", on |-> n, stance |-> InitialStance])
    BY DEF Idle, Kinds
  <2>3. QED
    BY <2>1, <2>2, IdleOne, IdleCommitted
<1>5. CASE \E n \in Npcs, s \in Stances, l \in Limits \cup {None}, h \in game.heroes, how \in How,
              face \in Dice : AttemptSocialShift(n, s, l, h, how, face)
  <2>1. PICK n \in Npcs, s \in Stances, l \in Limits \cup {None}, h \in game.heroes, how \in How,
             face \in Dice : AttemptSocialShift(n, s, l, h, how, face)
    BY <1>5
  <2> DEFINE e == [kind |-> "social_check_pending", on |-> n, check |-> FreshCheck,
                   stance |-> s, limit |-> l]
             degree == ResolveCheck(CheckRequest, face)
  <2>2. Idle(e)
    BY DEF Idle, Kinds
  <2>3. Commit(IF how = "simulated" THEN Simulated \o SocialEvents(n, s, degree)
               ELSE Requested(h, how, <<e>>))
    BY <2>1 DEF AttemptSocialShift
  <2> HIDE DEF e, degree
  <2>4. AllIdle(Simulated \o SocialEvents(n, s, degree)) /\ AllIdle(Requested(h, how, <<e>>))
    BY <2>2, SimulatedIdle, SocialIdle, IdleJoined, IdleOne, RequestedIdle
  <2>5. QED
    BY <2>3, <2>4, IdleCommitted
<1>6. CASE \E n \in Npcs, l \in Leverage : CreateLeverage(n, l) \/ SpendLeverage(n, l)
  <2>1. PICK n \in Npcs, l \in Leverage, kind \in {"leverage_created", "leverage_spent"} :
          Commit(<<[kind |-> kind, on |-> n, leverage |-> l]>>)
    BY <1>6 DEF CreateLeverage, SpendLeverage
  <2>2. Idle([kind |-> kind, on |-> n, leverage |-> l])
    BY DEF Idle, Kinds
  <2>3. QED
    BY <2>1, <2>2, IdleOne, IdleCommitted
<1>7. CASE \E r \in Rituals : StartRitual(r) \/ InterruptRitual(r)
  <2>1. PICK r \in Rituals, kind \in {"ritual_started", "ritual_interrupted"} :
          Commit(<<[kind |-> kind, on |-> r]>>)
    BY <1>7 DEF StartRitual, InterruptRitual
  <2>2. Idle([kind |-> kind, on |-> r])
    BY DEF Idle, Kinds
  <2>3. QED
    BY <2>1, <2>2, IdleOne, IdleCommitted
<1>8. CASE \E r \in Rituals, h \in game.heroes : ContributeRitual(r, h)
  BY <1>8, ContributeBalances
<1>9. CASE \E r \in Rituals, h \in game.heroes, how \in How, face \in Dice : ResolveRitual(r, h, how, face)
  <2>1. PICK r \in Rituals, h \in game.heroes, how \in How, face \in Dice : ResolveRitual(r, h, how, face)
    BY <1>9
  <2> DEFINE e == [kind |-> "ritual_check_pending", on |-> r, check |-> FreshCheck]
             degree == ResolveCheck(CheckRequest, face)
  <2>2. Idle(e)
    BY DEF Idle, Kinds
  <2>3. Commit(IF how = "simulated" THEN Simulated \o RitualEvents(r, h, degree)
               ELSE Requested(h, how, <<e>>))
    BY <2>1 DEF ResolveRitual
  <2>4. degree \in Degrees
    BY ResolveIs
  <2> HIDE DEF e, degree
  <2>5. AllIdle(Simulated \o RitualEvents(r, h, degree)) /\ AllIdle(Requested(h, how, <<e>>))
    BY <2>2, <2>4, SimulatedIdle, RitualIdle, IdleJoined, IdleOne, RequestedIdle
  <2>6. QED
    BY <2>3, <2>5, IdleCommitted
<1>10. CASE \E c \in game.checks, face \in Dice : SubmitDieResult(c, face)
  <2>1. PICK c \in game.checks, face \in Dice : SubmitDieResult(c, face)
    BY <1>10
  <2> DEFINE e == [kind |-> "check_resolved", check |-> c.id]
             degree == SubmittedDegree(c.disclosure, face)
  <2>2. Idle(e)
    BY DEF Idle, Kinds
  <2>3. Commit(<<e>> \o Continued(c, degree))
    BY <2>1 DEF SubmitDieResult
  <2>4. degree \in Degrees
    BY ResolveIs DEF SubmittedDegree
  <2> HIDE DEF e, degree
  <2>5. AllIdle(Continued(c, degree))
    BY <2>4, IdleNone, ChallengeIdle, SocialIdle, RitualIdle DEF Continued
  <2>6. QED
    BY <2>2, <2>3, <2>5, IdleOne, IdleJoined, IdleCommitted
<1>11. QED
  BY <1>1, <1>2, <1>3, <1>4, <1>5, <1>6, <1>7, <1>8, <1>9, <1>10 DEF StoryNext

LEMMA Balances == Spec => []Balanced(game)
<1>1. Init => Balanced(game)
  <2> SUFFICES ASSUME Init PROVE Balanced(game)
    OBVIOUS
  <2>1. /\ game.heroes = {} /\ game.rituals = [r \in Rituals |-> None]
        /\ game.ready = [h \in Heroes |-> {}] /\ game.spent = [h \in Heroes |-> {}]
    BY DEF Init, NoCampaign
  <2>2. GearPaid(game) = {} /\ GearSpent(game) = {}
    BY <2>1 DEF GearPaid, PaidSoFar, GearSpent
  <2>3. QED
    BY <2>1, <2>2, FS_EmptySet DEF Balanced
<1>2. IInv /\ Balanced(game) /\ [Next]_vars => Balanced(game)'
  <2> SUFFICES ASSUME IInv, Balanced(game), [Next]_vars PROVE Balanced(game)'
    OBVIOUS
  <2>1. game \in Campaigns
    BY DEF IInv
  <2>2. CASE PartyNext
    BY <2>1, <2>2, PartyBalances DEF Balanced, GearPaid, GearSpent, PaidSoFar
  <2>3. CASE StoryNext
    BY <2>1, <2>3, StoryBalances DEF Balanced, GearPaid, GearSpent, PaidSoFar
  <2>4. CASE UNCHANGED vars
    BY <2>4 DEF vars, Balanced, GearPaid, GearSpent, PaidSoFar
  <2>5. QED
    BY <2>2, <2>3, <2>4 DEF Next
<1>3. QED
  BY <1>1, <1>2, Invariant, PTL DEF Spec

\* Gear is spent once and for rituals only: one piece for each cost of gear
\* that was paid, whatever became of the ritual.
THEOREM GearAccounted == Spec => []GearSpentForRituals
<1>1. Balanced(game) => GearSpentForRituals
  BY DEF Balanced, GearSpentForRituals
<1>2. QED
  BY <1>1, Balances, PTL

-----------------------------------------------------------------------------
(* The outcome of a check *)

\* A higher face with a higher modifier comes out no worse, the shift of a
\* natural 1 or 20 included.
LEMMA HigherIsNoWorse ==
  ASSUME NEW t \in Int, NEW m \in Int, NEW n \in Int, m <= n,
         NEW f \in Faces, NEW h \in Faces, f <= h
  PROVE  ResolveDegree(f, t, m) <= ResolveDegree(h, t, n)
<1> DEFINE d == DegreeForDelta(f + m - t)
           e == DegreeForDelta(h + n - t)
           u == NaturalFaceAdjustment(f)
           v == NaturalFaceAdjustment(h)
<1>1. d \in 1 .. 4 /\ e \in 1 .. 4 /\ d <= e
  BY DEF DegreeForDelta, Faces, Crisis, Setback, Success, Triumph
<1>2. u \in -1 .. 1 /\ v \in -1 .. 1 /\ u <= v
  BY DEF NaturalFaceAdjustment, Faces
<1> HIDE DEF d, e, u, v
<1>3. ShiftDegree(d, u) <= ShiftDegree(e, v)
  BY <1>1, <1>2 DEF ShiftDegree, Degrees, Crisis, Triumph
<1>4. QED
  BY <1>3 DEF ResolveDegree, d, e, u, v

\* Every request has a degree for every face, and neither a higher face nor a
\* Spark taken before the roll makes it worse (resolveCheck and the disclosure
\* of createPhysicalRollDisclosure), whatever edge or hindrance the request has already.
THEOREM SparkNeverHurts ==
  ASSUME NEW r \in Requests, NEW f \in Faces, NEW h \in Faces, f <= h, NEW spark \in BOOLEAN
  PROVE  /\ ResolveCheck(r, f) \in Degrees
         /\ ResolveCheck(r, f) <= Disclosure(r, spark).outcome[h]
<1> DEFINE sparked == [r EXCEPT !.edge = @ \/ spark]
<1>1. sparked \in Requests /\ FinalModifier(r) <= FinalModifier(sparked)
      /\ FinalModifier(r) \in Int /\ FinalModifier(sparked) \in Int /\ r.target \in Int
      /\ sparked.target = r.target
  BY DEF Requests, FinalModifier, SituationalModifier
<1>2. ResolveCheck(r, f) \in Degrees
  BY <1>1 DEF ResolveCheck, ResolveDegree, ShiftDegree, DegreeForDelta, NaturalFaceAdjustment, Faces,
     Degrees, Crisis, Setback, Success, Triumph
<1>3. ResolveCheck(r, f) <= ResolveCheck(sparked, h)
  BY <1>1, HigherIsNoWorse DEF ResolveCheck
<1>4. QED
  BY <1>2, <1>3 DEF Disclosure
=============================================================================
