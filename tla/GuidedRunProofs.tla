-------------------------- MODULE GuidedRunProofs --------------------------
(***************************************************************************)
(* What GuidedRun guarantees for every party, every number of operators    *)
(* and every narration provider.                                           *)
(*                                                                         *)
(* The inductive invariant has four parts: what the room's beat says about *)
(* the campaign (Story), what a handler may rely on when it goes on        *)
(* (Sound), what an advance that is not stale leads to (Leads), and, while *)
(* no step was lost, why the run is playable (Undisturbed).                *)
(***************************************************************************)
EXTENDS GuidedRun, TLAPS

-----------------------------------------------------------------------------
(* The room and the campaign *)

\* What the rules must have decided before the story is at beat b.
Warranted(b) ==
  /\ b \notin {"opening", "spark"} => mech.party >= 1
  /\ b = "clean" => mech.die # None /\ mech.die \notin Poor
  /\ b = "costly" => mech.die \in Poor
  /\ b \in {"physical", "clean", "costly"} =>
       mech.fight # None /\ mech.fight.outcome = "combat_victory"
  /\ b = "retreat" => mech.fight # None /\ mech.fight.outcome = "withdrawal"
  /\ b = "lost" => mech.fight # None /\ mech.fight.outcome = "defeat"

\* What the host does on entry to a beat is not done before that beat.
OnceEntered ==
  /\ mech.challenge # None => room.beat \notin {"opening", "spark"}
  /\ mech.attempted => room.beat \notin {"opening", "spark", "challenge", "cost_merge"}
  /\ mech.ritual # None =>
       room.beat \notin {"opening", "spark", "challenge", "cost_merge", "social"}
  /\ mech.fight # None => room.beat \in {"combat", "physical"} \cup Endings
  /\ Fighting(mech) => room.beat = "combat"

\* A won fight leaves no Spark roll behind: the enemies wait for every die, and
\* no fight is won before they had their turn.  A slot is given back only while
\* the fight goes on.
DiceOfTheStory ==
  /\ mech.last = "spark_roll" => \E c \in mech.checks : ~c.final
  /\ room.beat = "combat" /\ mech.fight # None
       /\ (mech.fight.joined \/ mech.fight.outcome = "combat_victory") => mech.checks = {}
  /\ room.beat = "physical" => \A c \in mech.checks : c.final
  /\ mech.last \in Slots => Fighting(mech)

Story ==
  /\ room.status = "active" => mech.party = PartySize
  /\ Warranted(room.beat)
  /\ OnceEntered
  /\ DiceOfTheStory

-----------------------------------------------------------------------------
(* Handlers *)

\* A follow-up finds the story where its mechanic was played.
Sound(t) ==
  /\ t # None /\ t.at = "enter" =>
       /\ room.beat = "challenge" => mech.challenge = None
       /\ room.beat = "social" => ~mech.attempted
       /\ room.beat = "ritual" => mech.ritual # "closed" /\ mech.ritual # "ready"
       /\ room.beat = "combat" => mech.fight = None
       /\ room.beat = "physical" => mech.checks = {}
  /\ t # None /\ t.at = "after" =>
       /\ t.intent = "choose_spark" /\ t.degree # None => room.beat = "spark" /\ mech.party >= 1
       /\ t.intent = "choose_guided_option" /\ t.degree # None =>
            room.beat \in {"challenge", "social", "ritual"}
       /\ t.intent = "submit_die" =>
            /\ mech.party >= 1
            /\ room.beat = "physical" => mech.die = t.degree /\ mech.die # None
       /\ t.intent \in {"commit_legal_action", "fight_die"} => mech.fight # None
       /\ t.intent = "withdraw_combat" =>
            room.beat = "combat" /\ mech.fight # None /\ mech.fight.outcome = "withdrawal"

\* The transition that an advance commits, unless it became stale.
Leads(t) ==
  t.fresh =>
    /\ \E mv \in Moves : mv[1] = room.beat /\ Landing(mv[3]) = t.to
    /\ Warranted(t.to)

Handlers ==
  /\ host.thread # None => host.up
  /\ host.recover # None => ~host.up
  /\ Sound(host.thread) /\ Sound(host.recover)
  /\ \A t \in waiting : Leads(t)
  /\ host.thread # None /\ host.thread.at = "narrate" => Leads(host.thread)

-----------------------------------------------------------------------------
(* While no step was lost *)

\* The Supply of the ritual is there until it is spent.
Provisioned ==
  host.thread = None \/ host.thread.at # "start" =>
    /\ room.status = "lobby" => mech.party = 0
    /\ mech.party > 0 =>
         /\ mech.party = PartySize
         /\ mech.ritual \in {None, "preparing"} => mech.supply >= 1

\* The table can go on, or the fight waits for an enemy that the host does not
\* play.
Playable == MayGoOn \/ Unplayed

\* Where the thread ends, the run is playable.
GoesOn ==
  LET t == host.thread IN
  /\ t = None \/ t.at = "start" => Playable
  /\ t # None /\ t.at \in {"enemies", "react"} => Fighting(mech)
  /\ t # None /\ t.at = "after" =>
       /\ t.intent = "choose_spark" /\ t.degree = None => Playable
       /\ t.intent = "choose_guided_option" => t.degree # None
       /\ t.intent \in {"commit_legal_action", "fight_die"} => room.beat = "combat"
       /\ t.intent = "resolve_reaction" => Fighting(mech)
       /\ t.intent \in {"confirm_correction", "start_run", "reaction_timeout"} =>
            IF room.beat = "combat" THEN Fighting(mech) ELSE Playable
       /\ t.intent = "submit_die" /\ room.beat \notin {"spark", "physical"} =>
            IF room.beat = "combat" THEN Fighting(mech) ELSE Playable

Undisturbed ==
  ~disturbed => host.up /\ Provisioned /\ (waiting = {} => GoesOn)

IInv == TypeOK /\ Story /\ Handlers /\ Undisturbed

-----------------------------------------------------------------------------
(* The transitions of the story *)

\* A transition that an outcome declares is one of the table.
LEMMA DeclaredIsMove ==
  ASSUME NEW b, NEW on, NEW to \in Declared(b, on)
  PROVE  <<b, on, to>> \in Moves
<1>1. PICK mv \in Moves : mv[1] = b /\ mv[2] = on /\ mv[3] = to
  BY DEF Declared
<1>2. mv = <<mv[1], mv[2], mv[3]>>
  BY DEF Moves
<1>3. QED
  BY <1>1, <1>2

\* The table, read by its first two columns.
LEMMA MoveTable ==
  ASSUME NEW b, NEW on, NEW to, <<b, on, to>> \in Moves
  PROVE  \/ b = "opening" /\ to = "clue"
         \/ b = "clue" /\ to = "spark"
         \/ b = "spark" /\ on = "continue" /\ to = "challenge"
         \/ b = "cost_merge" /\ on = "continue" /\ to = "social"
         \/ b = "combat" /\ on = "combat_victory" /\ to = "physical"
         \/ b = "combat" /\ on = "withdrawal" /\ to = "retreat"
         \/ b = "combat" /\ on = "defeat" /\ to = "lost"
         \/ b = "challenge" /\ on \in Degrees /\ to \in {"cost_merge", "social"}
         \/ b = "social" /\ on \in Degrees /\ to = "ritual"
         \/ b = "ritual" /\ on \in Degrees /\ to = "combat"
         \/ b = "physical" /\ on \in Poor /\ to = "costly"
         \/ b = "physical" /\ on \in Degrees \ Poor /\ to = "clean"
BY DEF Moves, Degrees, Poor

LEMMA BeatsAre ==
  Beats = {"opening", "clue", "spark", "challenge", "cost_merge", "social", "ritual",
           "combat", "physical"} \cup Endings
<1>1. \A mv \in Moves : mv = <<mv[1], mv[2], mv[3]>>
  BY DEF Moves
<1>2. \A x \in Beats : \E mv \in Moves : x = mv[1] \/ x = mv[3]
  BY DEF Beats
<1>3. Beats \subseteq {"opening", "clue", "spark", "challenge", "cost_merge", "social", "ritual",
                       "combat", "physical"} \cup Endings
  BY <1>1, <1>2, MoveTable DEF Endings
<1>4. /\ <<"opening", "selected_option", "clue">> \in Moves
      /\ <<"clue", "continue", "spark">> \in Moves
      /\ <<"spark", "continue", "challenge">> \in Moves
      /\ <<"cost_merge", "continue", "social">> \in Moves
      /\ <<"combat", "combat_victory", "physical">> \in Moves
      /\ <<"combat", "withdrawal", "retreat">> \in Moves
      /\ <<"combat", "defeat", "lost">> \in Moves
      /\ <<"ritual", "Crisis", "combat">> \in Moves
      /\ <<"physical", "Crisis", "costly">> \in Moves
      /\ <<"physical", "Triumph", "clean">> \in Moves
  BY DEF Moves, Degrees, Poor
<1>5. \A x, y, z : <<x, y, z>> \in Moves => x \in Beats /\ z \in Beats
  BY DEF Beats
<1>6. QED
  BY <1>3, <1>4, <1>5 DEF Endings

-----------------------------------------------------------------------------
(* The steps that every handler is made of *)

\* None is no thread, no die and no fight.
LEMMA NoneApart ==
  /\ None \notin Threads /\ None \notin FollowUps /\ None \notin Advances
  /\ None \notin Degrees /\ None \notin Poor /\ None \notin Tracks /\ None \notin Fights
  /\ None \notin {"preparing", "ready", "closed"}
  /\ None \notin {"supply", "spark_roll", "final_roll", "stance"}
  /\ None \notin Slots /\ None \notin {"hero_slot", "enemy_slot"}
  /\ \A x \in {"supply", "spark_roll", "final_roll", "stance"} : x \notin Slots
  /\ None \notin {"combat_victory", "withdrawal", "defeat"}
  /\ None \notin {"strike", "death"}
BY NoneAssumption DEF Threads, Rites, Undoable, Outcomes, Slots, Rolls, Degrees, Poor

\* A step that leaves alone what the table goes on with leaves the run playable.
LEMMA PlayableStill ==
  ASSUME Playable, room'.beat = room.beat,
         mech'.fight = mech.fight, mech'.checks = mech.checks,
         mech'.challenge = mech.challenge, mech'.ritual = mech.ritual,
         mech.party > 0 => mech'.party > 0,
         room.status = "lobby" => room'.status = "lobby" \/ mech'.party > 0
  PROVE  Playable'
BY DEF Playable, MayGoOn, Unplayed, ChallengeOpen, Fighting

\* A stale advance leads nowhere, and staling keeps what waits.
LEMMA StaledAdvances ==
  ASSUME waiting \subseteq Advances
  PROVE  /\ Staled \subseteq Advances
         /\ \A t \in Staled : ~t.fresh
         /\ Staled = {} <=> waiting = {}
<1>1. \A t \in waiting : /\ [t EXCEPT !.fresh = FALSE] \in Advances
                         /\ ~[t EXCEPT !.fresh = FALSE].fresh
  BY DEF Advances
<1>2. QED
  BY <1>1 DEF Staled

\* A commit keeps the invariant when the campaign it leaves does, for the
\* thread that goes on and for the one that the restart would go on with.
LEMMA Committed ==
  ASSUME IInv, host.up, host.recover = None,
         NEW CONSTANT next, next \in (Threads \ Advances) \cup {None},
         NEW CONSTANT recovered, recovered \in FollowUps,
         UNCHANGED <<provider, room>>,
         \/ /\ host' = [host EXCEPT !.thread = next] /\ waiting' = Staled
            /\ UNCHANGED disturbed
         \/ /\ host' = [up |-> FALSE, thread |-> None, recover |-> recovered]
            /\ waiting' = {} /\ disturbed' = TRUE,
         mech' \in Campaigns, mech'.spark \subseteq 1 .. mech'.party,
         \A c \in mech'.checks : c.roller <= mech'.party,
         Story', Sound(next)', Sound(recovered)',
         ~disturbed /\ host'.thread = next =>
           Provisioned' /\ (waiting = {} => GoesOn')
  PROVE  IInv'
<1> USE NoneApart DEF IInv
<1>1. /\ waiting' \subseteq Advances /\ \A t \in waiting' : ~t.fresh
      /\ waiting' = {} \/ (waiting' = {} <=> waiting = {})
  BY StaledAdvances DEF TypeOK
<1>2. /\ host' \in [up : BOOLEAN, thread : Threads \cup {None}, recover : FollowUps \cup {None}]
      /\ host'.thread # None => host'.up
      /\ host'.recover # None => ~host'.up
      /\ host'.thread \in {next, None} /\ host'.recover \in {recovered, None}
      /\ host'.thread # None => host'.thread.at # "narrate"
  <2>1. recovered \in Threads /\ next \in Threads \cup {None}
    BY DEF Threads
  <2>2. next # None => next.at # "narrate"
    BY DEF Threads, FollowUps, Advances
  <2>3. CASE host' = [host EXCEPT !.thread = next]
    BY <2>1, <2>2, <2>3 DEF TypeOK
  <2>4. CASE host' = [up |-> FALSE, thread |-> None, recover |-> recovered]
    BY <2>1, <2>4
  <2>5. QED
    BY <2>3, <2>4
<1>3. TypeOK'
  BY <1>1, <1>2 DEF TypeOK
<1>4. Handlers'
  <2>1. Sound(None)'
    BY DEF Sound
  <2>2. QED
    BY <1>1, <1>2, <2>1 DEF Handlers, Leads, Sound
<1>5. Undisturbed'
  <2>1. CASE disturbed' = TRUE
    BY <2>1 DEF Undisturbed
  <2>2. CASE host' = [host EXCEPT !.thread = next] /\ waiting' = Staled /\ disturbed' = disturbed
    <3>1. host'.thread = next /\ host'.up
      BY <2>2 DEF TypeOK
    <3>2. waiting' = {} <=> waiting = {}
      BY <2>2, StaledAdvances DEF TypeOK
    <3>3. QED
      BY <2>2, <3>1, <3>2 DEF Undisturbed
  <2>3. QED
    BY <2>1, <2>2
<1>6. QED
  BY <1>3, <1>4, <1>5

\* The thread goes on, or ends, without a commit.
LEMMA Gone ==
  ASSUME IInv, host.up, host.recover = None,
         NEW CONSTANT next, next \in (Threads \ Advances) \cup {None},
         Goto(next), Sound(next),
         ~disturbed => Provisioned' /\ (waiting = {} => GoesOn')
  PROVE  IInv'
<1> USE NoneApart DEF IInv, Goto
<1>1. /\ host' \in [up : BOOLEAN, thread : Threads \cup {None}, recover : FollowUps \cup {None}]
      /\ host'.up /\ host'.recover = None /\ host'.thread = next
      /\ next # None => next.at # "narrate"
  BY DEF TypeOK, Threads, FollowUps, Advances
<1>2. TypeOK'
  BY <1>1 DEF TypeOK
<1>3. Story'
  BY DEF Story, Warranted, OnceEntered, DiceOfTheStory
<1>4. Handlers'
  BY <1>1 DEF Handlers, Leads, Sound, Warranted
<1>5. Undisturbed'
  BY <1>1 DEF Undisturbed
<1>6. QED
  BY <1>2, <1>3, <1>4, <1>5

\* A handler that may still be at any step but the start of the run.
Past == host.up /\ host.recover = None /\ (host.thread = None \/ host.thread.at # "start")

\* The advance that is computed for the outcome leads where the rules decided.
LEMMA AdvanceLeads ==
  ASSUME TypeOK, NEW STATE on, NEW STATE b, b \in Declared(room.beat, on),
         Warranted(Landing(b))
  PROVE  /\ Advance(Landing(b)) \in Advances
         /\ Leads(Advance(Landing(b)))
<1>1. <<room.beat, on, b>> \in Moves
  BY DeclaredIsMove
<1>2. b \in Beats /\ Landing(b) \in Beats
  BY <1>1, MoveTable, BeatsAre DEF Landing, Endings
<1>3. \E mv \in Moves : mv[1] = room.beat /\ Landing(mv[3]) = Landing(b)
  <2> DEFINE mv == <<room.beat, on, b>>
  <2>1. mv[1] = room.beat /\ mv[3] = b
    OBVIOUS
  <2>2. QED
    BY <1>1, <2>1
<1>4. QED
  BY <1>2, <1>3 DEF Advance, Advances, Leads

\* Narrating keeps the invariant when the outcome is decided for wherever it
\* leads; when it leads nowhere, the table must be able to go on without it.
LEMMA Narrating ==
  ASSUME IInv, Past, NEW STATE on, Narrate(on),
         \A b \in Declared(room.beat, on) : Warranted(Landing(b)),
         ~disturbed /\ waiting = {} => Declared(room.beat, on) # {} \/ Playable
  PROVE  IInv'
<1> USE NoneApart DEF IInv, Past
<1> DEFINE b == CHOOSE x \in Declared(room.beat, on) : TRUE
           t == Advance(Landing(b))
<1>1. CASE Declared(room.beat, on) = {}
  <2>1. Goto(None) /\ Sound(None)
    BY <1>1 DEF Narrate, Sound
  <2>2. ~disturbed => Provisioned'
    BY <2>1 DEF Undisturbed, Provisioned, Goto, TypeOK
  <2>3. ~disturbed /\ waiting = {} => GoesOn'
    <3>1. host'.thread = None /\ (Playable => Playable')
      BY <2>1, PlayableStill DEF Goto, TypeOK
    <3>2. QED
      BY <1>1, <3>1 DEF GoesOn
  <2>4. QED
    BY <2>1, <2>2, <2>3, Gone
<1>2. CASE Declared(room.beat, on) # {}
  <2>1. b \in Declared(room.beat, on)
    BY <1>2
  <2>2. t \in Advances /\ Leads(t) /\ t.at = "narrate"
    BY <2>1, AdvanceLeads DEF Advance
  <2>3. UNCHANGED <<provider, room, mech, disturbed>>
    BY <1>2 DEF Narrate, Goto
  <2>4. \/ host' = [host EXCEPT !.thread = t] /\ waiting' = waiting
        \/ host' = [host EXCEPT !.thread = None] /\ waiting' = waiting \cup {t}
           /\ provider # "prompt"
    BY <1>2 DEF Narrate, Goto
  <2>5. TypeOK'
    BY <2>2, <2>3, <2>4, ProviderAssumption DEF TypeOK, Threads
  <2>6. Story'
    BY <2>3 DEF Story, Warranted, OnceEntered, DiceOfTheStory
  <2>7. Handlers'
    <3>1. /\ host'.thread # None => host'.up
          /\ host'.recover = None
          /\ host'.thread \in {t, None}
      BY <2>4 DEF TypeOK
    <3>2. \A u : Leads(u) => Leads(u)'
      BY <2>3 DEF Leads, Warranted
    <3>3. Sound(host.thread)' /\ Sound(host.recover)'
      BY <2>2, <3>1 DEF Sound
    <3>4. \A u \in waiting' : Leads(u)'
      BY <2>2, <2>4, <3>2 DEF Handlers
    <3>5. host'.thread # None => Leads(host.thread)'
      BY <2>2, <3>1, <3>2
    <3>6. QED
      BY <3>1, <3>3, <3>4, <3>5 DEF Handlers
  <2>8. Undisturbed'
    <3>1. host'.up /\ (host'.thread = None \/ host'.thread.at # "start")
      BY <2>2, <2>4 DEF TypeOK
    <3>2. ~disturbed => Provisioned'
      BY <2>3, <3>1 DEF Undisturbed, Provisioned
    <3>3. waiting' = {} => host'.thread = t
      BY <2>4 DEF TypeOK
    <3>4. waiting' = {} => GoesOn'
      BY <2>2, <3>3 DEF GoesOn
    <3>5. QED
      BY <2>3, <3>1, <3>2, <3>4 DEF Undisturbed
  <2>9. QED
    BY <2>5, <2>6, <2>7, <2>8
<1>3. QED
  BY <1>1, <1>2

-----------------------------------------------------------------------------
(* What the players do *)

\* Shape of the campaign: the part of TypeOK that a mechanic may disturb.
Campaigning ==
  /\ mech \in Campaigns
  /\ mech.spark \subseteq 1 .. mech.party
  /\ \A c \in mech.checks : c.roller <= mech.party

LEMMA InitInvariant == Init => IInv
<1> SUFFICES ASSUME Init PROVE IInv
  OBVIOUS
<1> USE NoneApart, PartyAssumption DEF Init
<1>1. TypeOK
  <2>1. room \in [beat : Beats \ {"clue"}, status : {"lobby", "active", "completed"}]
        /\ room.beat \notin Endings
    BY BeatsAre DEF Endings
  <2>2. mech \in Campaigns
    BY DEF Campaigns
  <2>3. QED
    BY <2>1, <2>2 DEF TypeOK
<1>2. Story
  BY DEF Story, Warranted, OnceEntered, DiceOfTheStory, Fighting
<1>3. Handlers
  BY DEF Handlers, Sound
<1>4. Undisturbed
  BY DEF Undisturbed, Provisioned, GoesOn, Playable, MayGoOn
<1>5. QED
  BY <1>1, <1>2, <1>3, <1>4 DEF IInv

\* A mechanic of a player keeps the invariant when it leaves the party and its
\* Supply alone, and its follow-up finds what it needs.
LEMMA Played ==
  ASSUME IInv, NEW CONSTANT intent, intent \in Intents,
         NEW CONSTANT degree, degree \in Degrees \cup {None},
         NEW STATE m, Play(m, intent, degree),
         Campaigning', Story', Sound(After(intent, degree))',
         mech'.party = mech.party, mech'.supply = mech.supply,
         mech'.ritual \in {None, "preparing"} => mech.ritual = mech'.ritual,
         ~disturbed /\ waiting = {} /\ Playable /\ host'.thread = After(intent, degree)
           => GoesOn'
  PROVE  IInv'
<1> DEFINE next == After(intent, degree)
<1> USE NoneApart
<1>1. next \in FollowUps /\ next \in (Threads \ Advances) \cup {None} /\ next.at = "after"
  BY DEF After, FollowUps, Threads, Advances
<1>2. /\ host.up /\ host.thread = None /\ host.recover = None
      /\ UNCHANGED <<provider, room>>
      /\ \/ /\ host' = [host EXCEPT !.thread = next] /\ waiting' = Staled
            /\ UNCHANGED disturbed
         \/ /\ host' = [up |-> FALSE, thread |-> None, recover |-> next]
            /\ waiting' = {} /\ disturbed' = TRUE
  BY DEF Play, Idle, Workflow, IInv, Handlers
<1>3. ~disturbed => Provisioned'
  BY <1>2 DEF IInv, Undisturbed, Provisioned
<1>4. ~disturbed /\ waiting = {} => Playable
  BY <1>2 DEF IInv, Undisturbed, GoesOn
<1> HIDE DEF next
<1>5. QED
  BY <1>1, <1>2, <1>3, <1>4, Committed DEF Campaigning, next

LEMMA AfterIs ==
  ASSUME NEW intent \in Intents, NEW degree \in Degrees \cup {None}
  PROVE  /\ After(intent, degree) \in FollowUps /\ After(intent, degree) # None
         /\ After(intent, degree).at = "after"
         /\ After(intent, degree).intent = intent /\ After(intent, degree).degree = degree
BY NoneApart DEF After, FollowUps

\* The campaign without the note of what could be taken back.
Standing == <<mech.party, mech.supply, mech.spark, mech.checks, mech.die, mech.challenge,
              mech.social, mech.attempted, mech.ritual, mech.fight>>

\* A mechanic that changes nothing but that note.
LEMMA Replayed ==
  ASSUME IInv, mech' = [mech EXCEPT !.last = None], room' = room
  PROVE  Campaigning' /\ Story' /\ UNCHANGED Standing
<1>1. UNCHANGED Standing /\ mech'.last = None /\ mech' \in Campaigns
  BY DEF IInv, TypeOK, Campaigns, Standing
<1>2. Campaigning'
  BY <1>1 DEF IInv, TypeOK, Campaigning, Standing
<1>3. Story'
  BY <1>1, NoneApart DEF IInv, Story, Warranted, OnceEntered, DiceOfTheStory, Fighting, Standing
<1>4. QED
  BY <1>1, <1>2, <1>3

LEMMA RecordPartyChoiceInvariant == IInv /\ RecordPartyChoice => IInv'
<1> SUFFICES ASSUME IInv, RecordPartyChoice PROVE IInv'
  OBVIOUS
<1>1. ASSUME NEW b \in Declared(room.beat, "selected_option")
      PROVE  Landing(b) = "spark"
  <2>1. <<"opening", "selected_option", b>> \in Moves
    BY DeclaredIsMove DEF RecordPartyChoice
  <2>2. b = "clue"
    BY <2>1, MoveTable
  <2>3. QED
    BY <2>2 DEF Landing
<1>2. Warranted("spark")
  BY DEF Warranted
<1>3. Playable
  BY DEF RecordPartyChoice, Playable, MayGoOn
<1>4. Past /\ Narrate("selected_option")
  BY DEF RecordPartyChoice, Past, Idle, IInv, Handlers
<1>5. QED
  BY <1>1, <1>2, <1>3, <1>4, Narrating

LEMMA StartRunInvariant == IInv /\ StartRun => IInv'
<1> SUFFICES ASSUME IInv, StartRun PROVE IInv'
  OBVIOUS
<1> DEFINE next == [at |-> "start"]
<1>1. host.up /\ host.recover = None /\ host.thread = None /\ Goto(next)
  BY DEF StartRun, Idle, IInv, Handlers
<1>2. next \in (Threads \ Advances) \cup {None} /\ Sound(next)
  BY DEF Threads, Advances, Sound
<1>3. host'.thread = next /\ UNCHANGED <<room, mech>>
  BY <1>1 DEF Goto, IInv, TypeOK
<1>4. ~disturbed => Provisioned'
  BY <1>3, NoneApart DEF Provisioned, Threads
<1>5. ~disturbed /\ waiting = {} => GoesOn'
  <2>1. ~disturbed /\ waiting = {} => Playable
    BY <1>1 DEF IInv, Undisturbed, GoesOn
  <2>2. Playable => Playable'
    BY <1>3, PlayableStill
  <2>3. QED
    BY <1>3, <2>1, <2>2 DEF GoesOn
<1> HIDE DEF next
<1>6. QED
  BY <1>1, <1>2, <1>4, <1>5, Gone

LEMMA ChooseSparkInvariant ==
  ASSUME IInv, NEW h \in Heroes, NEW invoke \in BOOLEAN, ChooseSpark(h, invoke)
  PROVE  IInv'
<1> USE NoneApart, PartyAssumption
<1>1. room.beat = "spark" /\ mech.party \in Nat /\ mech.party >= 1
  BY DEF ChooseSpark, IInv, TypeOK, Campaigns, Heroes
<1>2. CASE invoke
  <2> DEFINE m == [mech EXCEPT !.spark = @ \ {h}, !.checks = @ \cup {Roll(h, FALSE)},
                               !.last = "spark_roll"]
  <2>1. Play(m, "choose_spark", None) /\ mech' = m /\ room' = room
    BY <1>2 DEF ChooseSpark, Play, Workflow
  <2>2. /\ mech'.party = mech.party /\ mech'.supply = mech.supply
        /\ mech'.challenge = mech.challenge /\ mech'.attempted = mech.attempted
        /\ mech'.ritual = mech.ritual /\ mech'.fight = mech.fight /\ mech'.die = mech.die
        /\ mech'.spark = mech.spark \ {h}
        /\ mech'.checks = mech.checks \cup {Roll(h, FALSE)}
        /\ mech'.last = "spark_roll" /\ mech'.last \notin Slots
    BY <2>1 DEF IInv, TypeOK, Campaigns
  <2>3. Roll(h, FALSE) \in Checks /\ Roll(h, FALSE).roller = h /\ ~Roll(h, FALSE).final
    BY DEF Roll, Checks
  <2>4. mech' \in Campaigns
    BY <2>1, <2>3 DEF IInv, TypeOK, Campaigns, Undoable
  <2>5. Campaigning'
    BY <2>2, <2>3, <2>4 DEF IInv, TypeOK, ChooseSpark, Campaigning
  <2>6. Story'
    <3>1. room'.status = room.status /\ room'.beat = "spark"
      BY <1>1, <2>1
    <3>2. DiceOfTheStory'
      BY <2>2, <2>3, <3>1 DEF DiceOfTheStory
    <3>3. QED
      BY <1>1, <2>2, <3>1, <3>2 DEF IInv, Story, Warranted, OnceEntered, Fighting
  <2>7. Sound(After("choose_spark", None))'
    BY DEF After, Sound
  <2>8. host'.thread = After("choose_spark", None) => GoesOn'
    <3>1. room'.beat = "spark" /\ mech'.party > 0
      BY <1>1, <2>1, <2>2
    <3>2. Playable'
      BY <3>1 DEF Playable, MayGoOn
    <3>3. QED
      BY <3>2, AfterIs DEF GoesOn, Intents
  <2> HIDE DEF m
  <2>9. QED
    BY <2>1, <2>2, <2>5, <2>6, <2>7, <2>8, Played DEF Intents
<1>3. CASE ~invoke
  <2> DEFINE m == [mech EXCEPT !.last = None]
  <2>1. PICK d \in Degrees : Play(m, "choose_spark", d) /\ mech' = m /\ room' = room
    BY <1>3 DEF ChooseSpark, Play, Workflow
  <2>2. Campaigning' /\ Story' /\ UNCHANGED Standing
    BY <2>1, Replayed
  <2>3. Sound(After("choose_spark", d))'
    BY <1>1, <2>1, <2>2 DEF After, Sound, Standing
  <2>4. host'.thread = After("choose_spark", d) => GoesOn'
    BY <2>1, AfterIs DEF GoesOn, Intents
  <2> HIDE DEF m
  <2>5. QED
    BY <2>1, <2>2, <2>3, <2>4, Played DEF Intents, Standing
<1>4. QED
  BY <1>2, <1>3

LEMMA ChooseGuidedOptionInvariant ==
  ASSUME IInv, NEW h \in Heroes, NEW d \in Degrees, ChooseGuidedOption(h, d)
  PROVE  IInv'
<1> USE NoneApart
<1> DEFINE after == After("choose_guided_option", d)
<1>1. /\ after.at = "after" /\ after.intent = "choose_guided_option" /\ after.degree = d
      /\ after # None /\ "choose_guided_option" \in Intents
  BY AfterIs DEF Intents
<1>2. room'.beat \in {"challenge", "social", "ritual"} => Sound(after)'
  BY <1>1 DEF Sound
<1>3. host'.thread = after => GoesOn'
  BY <1>1 DEF GoesOn
<1> HIDE DEF after
<1>4. CASE room.beat = "challenge" /\ ChallengeOpen
  <2> DEFINE m == [mech EXCEPT
             !.challenge.progress = MinOf(4, @ + (CASE d = "Success" -> 1 [] d = "Triumph" -> 2 [] OTHER -> 0)),
             !.challenge.danger = MinOf(3, @ + (CASE d = "Setback" -> 1 [] d = "Crisis" -> 2 [] OTHER -> 0)),
             !.last = None]
  <2>1. Play(m, "choose_guided_option", d) /\ mech' = m /\ room' = room
    BY <1>4 DEF ChooseGuidedOption, Play, Workflow
  <2>2. mech \in Campaigns /\ mech.challenge \in Tracks
    BY <1>4 DEF ChallengeOpen, IInv, TypeOK, Campaigns
  <2>3. m \in Campaigns
    <3> DEFINE gain == CASE d = "Success" -> 1 [] d = "Triumph" -> 2 [] OTHER -> 0
               harm == CASE d = "Setback" -> 1 [] d = "Crisis" -> 2 [] OTHER -> 0
    <3>1. gain \in 0 .. 2 /\ harm \in 0 .. 2
      OBVIOUS
    <3>2. /\ mech.challenge.progress \in 0 .. 4
          /\ mech.challenge.danger \in 0 .. 3
      BY <2>2 DEF Tracks
    <3>3. /\ MinOf(4, mech.challenge.progress + gain) \in 0 .. 4
          /\ MinOf(3, mech.challenge.danger + harm) \in 0 .. 3
      BY <3>1, <3>2 DEF MinOf
    <3>4. m.challenge = [progress |-> MinOf(4, mech.challenge.progress + gain),
                         danger |-> MinOf(3, mech.challenge.danger + harm)]
      BY <2>2 DEF Campaigns, Tracks
    <3> HIDE DEF gain, harm
    <3>5. m.challenge \in Tracks
      <4> DEFINE progress == MinOf(4, mech.challenge.progress + gain)
                 danger == MinOf(3, mech.challenge.danger + harm)
      <4>1. progress \in 0 .. 4 /\ danger \in 0 .. 3
        BY <3>3
      <4> HIDE DEF progress, danger
      <4>2. [progress |-> progress, danger |-> danger] \in Tracks
        BY <4>1 DEF Tracks
      <4>3. QED
        BY <3>4, <4>2 DEF progress, danger
    <3>6. QED
      BY <2>2, <3>5 DEF Campaigns
  <2>4. /\ mech'.party = mech.party /\ mech'.supply = mech.supply
        /\ mech'.attempted = mech.attempted /\ mech'.last = None
        /\ mech'.ritual = mech.ritual /\ mech'.fight = mech.fight /\ mech'.die = mech.die
        /\ mech'.spark = mech.spark /\ mech'.checks = mech.checks
    BY <2>1, <2>2 DEF Campaigns
  <2> HIDE DEF m
  <2>5. Campaigning'
    BY <2>1, <2>3, <2>4 DEF IInv, TypeOK, Campaigning
  <2>6. Story'
    BY <1>4, <2>1, <2>4 DEF IInv, Story, Warranted, OnceEntered, DiceOfTheStory, Fighting
  <2>7. QED
    BY <1>1, <1>2, <1>3, <1>4, <2>1, <2>4, <2>5, <2>6, Played DEF after
<1>5. CASE room.beat = "ritual" /\ mech.ritual = "ready"
  <2> DEFINE m == [mech EXCEPT !.ritual = "closed", !.last = None]
  <2>1. Play(m, "choose_guided_option", d) /\ mech' = m /\ room' = room
    BY <1>5 DEF ChooseGuidedOption, Play, Workflow
  <2>2. m \in Campaigns
    BY DEF IInv, TypeOK, Campaigns, Rites
  <2>3. /\ mech'.party = mech.party /\ mech'.supply = mech.supply
        /\ mech'.attempted = mech.attempted /\ mech'.last = None
        /\ mech'.ritual = "closed" /\ mech'.fight = mech.fight /\ mech'.die = mech.die
        /\ mech'.spark = mech.spark /\ mech'.checks = mech.checks
        /\ mech'.challenge = mech.challenge
    BY <2>1 DEF IInv, TypeOK, Campaigns
  <2> HIDE DEF m
  <2>4. Campaigning'
    BY <2>1, <2>2, <2>3 DEF IInv, TypeOK, Campaigning
  <2>5. Story'
    BY <1>5, <2>1, <2>3 DEF IInv, Story, Warranted, OnceEntered, DiceOfTheStory, Fighting
  <2>6. QED
    BY <1>1, <1>2, <1>3, <1>5, <2>1, <2>3, <2>4, <2>5, Played DEF after
<1>6. QED
  BY <1>4, <1>5 DEF ChooseGuidedOption

LEMMA SubmitDieInvariant ==
  ASSUME IInv, NEW c \in mech.checks, NEW d \in Degrees, room.status # "completed", SubmitDie(c, d)
  PROVE  IInv'
<1> USE NoneApart
<1> DEFINE after == After("submit_die", d)
           die == IF c.final THEN d ELSE mech.die
           m == [mech EXCEPT !.checks = @ \ {c}, !.die = IF c.final THEN d ELSE @, !.last = None]
<1>1. /\ after.at = "after" /\ after.intent = "submit_die" /\ after.degree = d
      /\ after # None /\ "submit_die" \in Intents
  BY AfterIs DEF Intents
<1> HIDE DEF after
<1>2. Play(m, "submit_die", d) /\ mech' = m /\ room' = room
  BY DEF SubmitDie, Play, Workflow
<1>3. /\ mech'.party = mech.party /\ mech'.supply = mech.supply
      /\ mech'.challenge = mech.challenge /\ mech'.attempted = mech.attempted
      /\ mech'.last = None /\ mech'.ritual = mech.ritual /\ mech'.fight = mech.fight
      /\ mech'.die = die
      /\ mech'.spark = mech.spark /\ mech'.checks = mech.checks \ {c}
  BY <1>2 DEF IInv, TypeOK, Campaigns
<1>4. c \in Checks /\ mech.party >= 1
  BY PartyAssumption DEF IInv, TypeOK, Campaigns, Checks, Heroes
<1>5. mech'.die \in Degrees \cup {None}
  BY <1>3 DEF IInv, TypeOK, Campaigns
<1>6. Campaigning'
  <2>1. mech' \in Campaigns
    BY <1>2, <1>3, <1>5 DEF IInv, TypeOK, Campaigns
  <2>2. QED
    BY <2>1, <1>3 DEF IInv, TypeOK, Campaigning
<1>7. Story'
  <2>1. room.beat \notin Endings
    BY DEF IInv, TypeOK
  <2>2. QED
    BY <1>2, <1>3, <2>1 DEF IInv, Story, Warranted, OnceEntered, DiceOfTheStory, Fighting, Endings
<1>8. Sound(after)'
  BY <1>1, <1>2, <1>3, <1>4, <1>5 DEF Sound, IInv, Story, DiceOfTheStory
<1>9. Playable /\ host'.thread = after => GoesOn'
  <2>1. Playable /\ room.beat \notin {"spark", "physical", "combat"} => Playable'
    BY <1>2, <1>3 DEF Playable, MayGoOn, Unplayed, ChallengeOpen
  <2>2. Playable /\ room.beat = "combat" => Fighting(mech')
    BY <1>3 DEF Playable, MayGoOn, Unplayed, Fighting
  <2>3. QED
    BY <1>1, <1>2, <2>1, <2>2 DEF GoesOn
<1> HIDE DEF m
<1>10. QED
  BY <1>1, <1>2, <1>3, <1>6, <1>7, <1>8, <1>9, Played DEF after

\* Where a fight goes on, its outcome open, at the beat of the fight.
LEMMA FightIsOn ==
  ASSUME IInv, Fighting(mech)
  PROVE  /\ room.beat = "combat" /\ mech.fight \in Fights /\ mech.fight.outcome = None
         /\ mech \in Campaigns
BY DEF IInv, TypeOK, Campaigns, Story, OnceEntered, Fighting

\* The operators of a fight return fights, and end none but in a victory of a
\* fight that the enemies joined or in the outcome they are given.
Continued(f, g) == g \in Fights /\ g.outcome = f.outcome /\ g.joined = f.joined

LEMMA FightOperators ==
  ASSUME NEW f \in Fights
  PROVE  /\ \A g \in Activations(f) : Continued(f, g)
         /\ \A g \in Spendings(f) : Continued(f, g)
         /\ \A g \in Called(f) : Continued(f, g)
         /\ \A g \in Felled(f) : Continued(f, g)
         /\ \A g \in Bereft(f) : Continued(f, g)
         /\ \A roll \in Rolls \cup {None} : Continued(f, Awaiting(f, roll))
         /\ \A s \in Sides : Continued(f, Restored(f, s))
<1>1. \A g \in Activations(f) : Continued(f, g)
  <2> DEFINE begun == [f EXCEPT !.side = "hero", !.acting = TRUE]
  <2>1. begun \in Fights /\ begun.outcome = f.outcome /\ begun.joined = f.joined
    BY DEF Fights, Sides
  <2>2. ASSUME NEW r \in SUBSET Sides
        PROVE  Continued(f, [begun EXCEPT !.ready = r, !.window = FALSE])
    <3> HIDE DEF begun
    <3>1. QED
      BY <2>1 DEF Continued, Fights
  <2>3. {"hero"} \in SUBSET Sides
    BY DEF Sides
  <2> DEFINE anew(r) == [begun EXCEPT !.ready = r, !.window = FALSE]
  <2>4. \A g \in Activations(f) : g \in {begun, anew(Sides), anew({"hero"})}
    BY DEF Activations
  <2>5. Continued(f, begun) /\ Continued(f, anew(Sides)) /\ Continued(f, anew({"hero"}))
    BY <2>1, <2>2, <2>3 DEF Continued
  <2> HIDE DEF begun, anew
  <2>6. QED
    BY <2>4, <2>5
<1>2. \A g \in Spendings(f) : Continued(f, g)
  <2> DEFINE ended == [f EXCEPT !.acting = FALSE, !.side = Opposite(f.side)]
             spent == [ended EXCEPT !.ready = @ \ {f.side}]
  <2>1. Continued(f, f)
    BY DEF Continued
  <2>2. Continued(f, ended)
    <3>1. Opposite(f.side) \in Sides
      BY DEF Opposite, Sides
    <3>2. QED
      BY <3>1 DEF Continued, Fights
  <2>3. Continued(f, spent)
    <3> HIDE DEF ended
    <3>1. QED
      BY <2>2 DEF Continued, Fights
  <2>4. \A g \in Spendings(f) : g \in {f, ended, spent}
    BY DEF Spendings
  <2>5. QED
    BY <2>1, <2>2, <2>3, <2>4
<1>3. \A g \in Called(f) : Continued(f, g)
  <2>1. ASSUME NEW s \in {f.drained, TRUE}
        PROVE  Continued(f, [f EXCEPT !.ready = @ \cup {"enemy"}, !.drained = s])
    BY <2>1 DEF Continued, Fights, Sides
  <2>2. QED
    BY <2>1 DEF Called, Continued
<1>4. \A g \in Felled(f) : Continued(f, g)
  BY DEF Felled, Continued, Fights
<1>5. \A g \in Bereft(f) : Continued(f, g)
  BY DEF Bereft, Continued, Fights
<1>6. \A roll \in Rolls \cup {None} : Continued(f, Awaiting(f, roll))
  BY DEF Awaiting, Continued, Fights
<1>7. \A s \in Sides : Continued(f, Restored(f, s))
  BY DEF Restored, Awaiting, Continued, Fights
<1>8. QED
  BY <1>1, <1>2, <1>3, <1>4, <1>5, <1>6, <1>7

LEMMA FightsOver ==
  /\ NoFight \in Fights /\ ~NoFight.joined /\ NoFight.outcome = None
  /\ \A o \in Outcomes : Over(o) \in Fights /\ Over(o).outcome = o /\ ~Over(o).joined
<1>1. NoFight \in Fights /\ ~NoFight.joined /\ NoFight.outcome = None
  BY DEF NoFight, Fights, Sides
<1>2. \A o \in Outcomes : Over(o) \in Fights /\ Over(o).outcome = o /\ ~Over(o).joined
  BY <1>1 DEF Over, Fights
<1>3. QED
  BY <1>1, <1>2

\* A step that only moves the fight on, or ends it when no die is left.
LEMMA FoughtOn ==
  ASSUME IInv, Fighting(mech), NEW STATE f, f \in Fights, room' = room,
         NEW STATE last, last \in {None} \cup Slots, last \in Slots => f.outcome = None,
         mech' = [mech EXCEPT !.fight = f, !.last = last],
         f.joined \/ f.outcome = "combat_victory" => mech.checks = {}
  PROVE  /\ Campaigning' /\ Story' /\ mech'.fight = f /\ mech'.fight # None
         /\ mech'.party = mech.party /\ mech'.supply = mech.supply
         /\ mech'.ritual = mech.ritual /\ mech'.checks = mech.checks
<1> USE NoneApart
<1>1. /\ mech'.party = mech.party /\ mech'.supply = mech.supply
      /\ mech'.challenge = mech.challenge /\ mech'.attempted = mech.attempted
      /\ mech'.last = last /\ mech'.ritual = mech.ritual /\ mech'.fight = f
      /\ mech'.die = mech.die /\ mech'.spark = mech.spark /\ mech'.checks = mech.checks
      /\ mech' \in Campaigns /\ f # None
  BY FightIsOn DEF Campaigns, Undoable
<1>2. Campaigning'
  BY <1>1 DEF IInv, TypeOK, Campaigning
<1>3. last # "spark_roll"
  BY DEF Slots
<1>4. Story'
  BY <1>1, <1>3, FightIsOn DEF IInv, Story, Warranted, OnceEntered, DiceOfTheStory, Fighting
<1>5. QED
  BY <1>1, <1>2, <1>4

\* Whatever a player does in the fight: the follow-up finds it at its beat.
LEMMA PlayedFight ==
  ASSUME IInv, Fighting(mech), NEW STATE f, f \in Fights,
         NEW STATE last, last \in {None} \cup Slots, last \in Slots => f.outcome = None,
         f.joined \/ f.outcome = "combat_victory" => mech.checks = {},
         NEW CONSTANT intent,
         intent \in {"commit_legal_action", "fight_die", "resolve_reaction", "withdraw_combat"},
         intent = "resolve_reaction" => f.outcome = None,
         intent = "withdraw_combat" => f.outcome = "withdrawal",
         NEW STATE m, m = [mech EXCEPT !.fight = f, !.last = last], Play(m, intent, None)
  PROVE  IInv'
<1> DEFINE after == After(intent, None)
<1> USE NoneApart
<1>1. /\ after.at = "after" /\ after.intent = intent /\ after.degree = None
      /\ after # None /\ intent \in Intents
  BY AfterIs DEF Intents
<1> HIDE DEF after
<1>2. mech' = m /\ room' = room
  BY DEF Play, Workflow
<1>3. /\ Campaigning' /\ Story' /\ mech'.fight = f /\ mech'.fight # None
      /\ mech'.party = mech.party /\ mech'.supply = mech.supply
      /\ mech'.ritual = mech.ritual
  BY <1>2, FoughtOn
<1>4. room'.beat = "combat"
  BY <1>2, FightIsOn
<1>5. Sound(after)'
  BY <1>1, <1>3, <1>4 DEF Sound
<1>6. host'.thread = after => GoesOn'
  BY <1>1, <1>3, <1>4 DEF GoesOn, Fighting
<1>7. QED
  BY <1>1, <1>3, <1>5, <1>6, Played DEF after

\* What the rules record of a fight that goes on.
LEMMA FightStands ==
  ASSUME IInv, Fighting(mech)
  PROVE  /\ mech.fight \in Fights /\ mech.fight.outcome = None
         /\ mech.fight.joined => mech.checks = {}
BY FightIsOn, NoneApart DEF IInv, Story, DiceOfTheStory, Fighting

LEMMA ClaimActivationInvariant == IInv /\ ClaimActivation => IInv'
<1> SUFFICES ASSUME IInv, ClaimActivation PROVE IInv'
  OBVIOUS
<1>1. Fighting(mech)
  BY DEF ClaimActivation, FightActive
<1>2. PICK f \in Activations(mech.fight) :
        Play([mech EXCEPT !.fight = f, !.last = None], "commit_legal_action", None)
  BY DEF ClaimActivation
<1>3. f \in Fights /\ f.outcome = None /\ f.joined = mech.fight.joined
  BY <1>1, FightStands, FightOperators DEF Continued
<1>4. QED
  BY <1>1, <1>2, <1>3, FightStands, PlayedFight, NoneApart

LEMMA FightInvariant == IInv /\ Fight => IInv'
<1> SUFFICES ASSUME IInv, Fight PROVE IInv'
  OBVIOUS
<1>1. Fighting(mech)
  BY DEF Fight, FightActive
<1> DEFINE play(g, last) ==
             Play([mech EXCEPT !.fight = g, !.last = last], "commit_legal_action", None)
<1>2. PICK f \in Spendings(mech.fight) :
        \/ play(f, "hero_slot")
        \/ play(Awaiting(f, "strike"), "hero_slot")
        \/ \E g \in Felled(f) \cup Called(f) \cup Won(f) : play(g, None)
  BY DEF Fight
<1>3. f \in Fights /\ f.outcome = None /\ f.joined = mech.fight.joined
  BY <1>1, FightStands, FightOperators DEF Continued
<1>4. ASSUME NEW STATE g, NEW STATE last, play(g, last), last \in {None, "hero_slot"},
             \/ Continued(f, g)
             \/ g \in Fights /\ g.outcome = "combat_victory" /\ f.joined /\ last = None
      PROVE  IInv'
  <2>1. last \in {None} \cup Slots /\ (last \in Slots => last # None)
    BY <1>4, NoneApart DEF Slots
  <2>2. g \in Fights /\ (last \in Slots => g.outcome = None)
    BY <1>3, <1>4, <2>1 DEF Continued
  <2>3. g.joined \/ g.outcome = "combat_victory" => mech.checks = {}
    BY <1>1, <1>3, <1>4, FightStands, NoneApart DEF Continued
  <2>4. QED
    BY <1>1, <1>4, <2>1, <2>2, <2>3, PlayedFight
<1>5. CASE play(f, "hero_slot")
  <2>1. Continued(f, f)
    BY <1>3 DEF Continued
  <2> HIDE DEF play
  <2>2. QED
    BY <1>4, <1>5, <2>1
<1>6. CASE play(Awaiting(f, "strike"), "hero_slot")
  <2>1. Continued(f, Awaiting(f, "strike"))
    BY <1>3, FightOperators DEF Rolls
  <2> HIDE DEF play
  <2>2. QED
    BY <1>4, <1>6, <2>1
<1>7. ASSUME NEW g \in Felled(f) \cup Called(f) \cup Won(f), play(g, None)
      PROVE  IInv'
  <2>1. CASE g \in Felled(f) \cup Called(f)
    <3>1. Continued(f, g)
      BY <1>3, <2>1, FightOperators
    <3> HIDE DEF play
    <3>2. QED
      BY <1>4, <1>7, <3>1
  <2>2. CASE g \in Won(f)
    <3>1. f.joined /\ g = Over("combat_victory")
      BY <2>2 DEF Won
    <3>2. g \in Fights /\ g.outcome = "combat_victory"
      BY <3>1, FightsOver DEF Outcomes
    <3> HIDE DEF play
    <3>3. QED
      BY <1>4, <1>7, <3>1, <3>2
  <2>3. QED
    BY <1>7, <2>1, <2>2
<1> HIDE DEF play
<1>8. QED
  BY <1>2, <1>5, <1>6, <1>7

LEMMA SubmitFightDieInvariant == IInv /\ SubmitFightDie => IInv'
<1> SUFFICES ASSUME IInv, SubmitFightDie PROVE IInv'
  OBVIOUS
<1> DEFINE f == Awaiting(mech.fight, None)
<1>1. Fighting(mech)
  BY DEF SubmitFightDie
<1>2. PICK g \in {f} \cup Felled(f) \cup Won(f) \cup Bereft(f) \cup {Over("defeat")} :
        Play([mech EXCEPT !.fight = g, !.last = None], "fight_die", None)
  BY DEF SubmitFightDie
<1>3. f \in Fights /\ f.outcome = None /\ f.joined = mech.fight.joined
  BY <1>1, FightStands, FightOperators DEF Continued
<1> HIDE DEF f
<1>4. g \in Fights /\ (g.joined \/ g.outcome = "combat_victory" => f.joined)
  <2>1. CASE g \in {f} \cup Felled(f) \cup Bereft(f)
    BY <1>3, <2>1, FightOperators, NoneApart DEF Continued
  <2>2. CASE g \in Won(f)
    BY <2>2, FightsOver DEF Won, Outcomes
  <2>3. CASE g = Over("defeat")
    BY <2>3, FightsOver DEF Outcomes
  <2>4. QED
    BY <1>2, <2>1, <2>2, <2>3
<1>5. QED
  BY <1>1, <1>2, <1>3, <1>4, FightStands, PlayedFight, NoneApart

LEMMA ResolveReactionInvariant == IInv /\ ResolveReaction => IInv'
<1> SUFFICES ASSUME IInv, ResolveReaction PROVE IInv'
  OBVIOUS
<1> DEFINE f == [mech.fight EXCEPT !.window = FALSE]
<1>1. Fighting(mech)
  BY DEF ResolveReaction, FightActive
<1>2. /\ f \in Fights /\ f.outcome = None /\ f.joined = mech.fight.joined
      /\ [mech EXCEPT !.fight.window = FALSE, !.last = None]
           = [mech EXCEPT !.fight = f, !.last = None]
  BY <1>1, FightIsOn DEF Fights, Campaigns
<1>3. Play([mech EXCEPT !.fight = f, !.last = None], "resolve_reaction", None)
  BY <1>2 DEF ResolveReaction
<1> HIDE DEF f
<1>4. QED
  BY <1>1, <1>2, <1>3, FightStands, PlayedFight, NoneApart

LEMMA WithdrawCombatInvariant == IInv /\ WithdrawCombat => IInv'
<1> SUFFICES ASSUME IInv, WithdrawCombat PROVE IInv'
  OBVIOUS
<1> DEFINE f == Over("withdrawal")
<1>1. Fighting(mech)
  BY DEF WithdrawCombat, FightActive
<1>2. f \in Fights /\ f.outcome = "withdrawal" /\ ~f.joined
  BY FightsOver DEF Outcomes
<1>3. Play([mech EXCEPT !.fight = f, !.last = None], "withdraw_combat", None)
  BY DEF WithdrawCombat
<1> HIDE DEF f
<1>4. QED
  BY <1>1, <1>2, <1>3, PlayedFight, NoneApart

LEMMA RoomCommandInvariant == IInv /\ RoomCommand => IInv'
<1> SUFFICES ASSUME IInv, RoomCommand PROVE IInv'
  OBVIOUS
<1> USE NoneApart
<1>1. /\ waiting' = Staled /\ waiting # {} /\ host.thread = None
      /\ UNCHANGED <<provider, room, mech, host, disturbed>>
  BY DEF RoomCommand, Idle
<1>2. /\ waiting' \subseteq Advances /\ waiting' # {} /\ \A t \in waiting' : ~t.fresh
  BY <1>1, StaledAdvances DEF IInv, TypeOK
<1>3. TypeOK' /\ Story'
  BY <1>1, <1>2 DEF IInv, TypeOK, Story, Warranted, OnceEntered, DiceOfTheStory
<1>4. Handlers'
  BY <1>1, <1>2 DEF IInv, Handlers, Sound, Leads
<1>5. Undisturbed'
  BY <1>1, <1>2 DEF IInv, Undisturbed, Provisioned
<1>6. QED
  BY <1>3, <1>4, <1>5 DEF IInv

LEMMA ConfirmCorrectionInvariant == IInv /\ ConfirmCorrection => IInv'
<1> SUFFICES ASSUME IInv, ConfirmCorrection PROVE IInv'
  OBVIOUS
<1> USE NoneApart
<1> DEFINE after == After("confirm_correction", None)
<1>1. /\ after.at = "after" /\ after.intent = "confirm_correction" /\ after.degree = None
      /\ after # None /\ after \in FollowUps /\ "confirm_correction" \in Intents
  BY AfterIs DEF Intents
<1>2. /\ mech' = [Uncommitted(mech) EXCEPT !.last = None]
      /\ host' = [host EXCEPT !.thread = after] /\ host.up /\ host.thread = None
      /\ waiting' = Staled /\ UNCHANGED <<provider, room>> /\ mech.last # None
      /\ disturbed' = (disturbed \/ waiting # {} \/ mech.last \in NotRepeated)
  BY DEF ConfirmCorrection, Idle
<1> HIDE DEF after
\* What a correction leaves alone, and that it only takes checks away; a fight
\* goes on with the slot that is given back.
<1>3. /\ mech' \in Campaigns
      /\ mech'.party = mech.party /\ mech'.die = mech.die
      /\ mech'.challenge = mech.challenge /\ mech'.attempted = mech.attempted
      /\ mech'.last = None /\ mech'.ritual = mech.ritual
      /\ \/ mech'.fight = mech.fight
         \/ Fighting(mech) /\ mech'.fight # None /\ Continued(mech.fight, mech'.fight)
      /\ mech'.checks \subseteq mech.checks /\ mech'.spark \subseteq 1 .. mech.party
  <2>1. mech \in Campaigns
    BY DEF IInv, TypeOK
  <2>2. CASE mech.last = "spark_roll"
    <3> DEFINE c == CHOOSE c \in mech.checks : ~c.final
    <3>1. c \in mech.checks /\ c.roller \in Heroes /\ c.roller \in 1 .. mech.party
      BY <2>1, <2>2, PartyAssumption DEF IInv, TypeOK, Story, DiceOfTheStory, Campaigns, Checks, Heroes
    <3>2. mech' = [mech EXCEPT !.checks = @ \ {c}, !.spark = @ \cup {c.roller}, !.last = None]
      BY <1>2, <2>1, <2>2 DEF Uncommitted, Campaigns
    <3> HIDE DEF c
    <3>3. QED
      BY <2>1, <3>1, <3>2 DEF IInv, TypeOK, Campaigns
  <2>3. CASE mech.last = "supply"
    <3>1. mech' = [mech EXCEPT !.supply = 0, !.last = None]
      BY <1>2, <2>1, <2>3 DEF Uncommitted, Campaigns
    <3>2. 0 \in 0 .. PartySize
      BY PartyAssumption
    <3>3. QED
      BY <2>1, <3>1, <3>2 DEF IInv, TypeOK, Campaigns
  <2>4. CASE mech.last = "final_roll"
    <3>1. mech' = [mech EXCEPT !.checks = {}, !.last = None]
      BY <1>2, <2>1, <2>4 DEF Uncommitted, Campaigns
    <3>2. QED
      BY <2>1, <3>1 DEF IInv, TypeOK, Campaigns
  <2>5. CASE mech.last \in Slots
    <3>1. Fighting(mech) /\ mech.fight \in Fights
      BY <2>5, FightIsOn DEF IInv, Story, DiceOfTheStory
    <3>2. PICK s \in Sides : mech' = [mech EXCEPT !.fight = Restored(@, s), !.last = None]
      BY <1>2, <2>1, <2>5 DEF Uncommitted, Campaigns, Slots, Sides
    <3> DEFINE f == Restored(mech.fight, s)
    <3>3. Continued(mech.fight, f)
      BY <3>1, FightOperators
    <3>4. f \in Fights /\ f # None /\ mech' = [mech EXCEPT !.fight = f, !.last = None]
      BY <2>1, <3>2, <3>3 DEF Continued, Campaigns
    <3> HIDE DEF f
    <3>5. QED
      BY <2>1, <3>1, <3>3, <3>4 DEF IInv, TypeOK, Campaigns
  <2>6. CASE mech.last \notin {"spark_roll", "supply", "final_roll"} \cup Slots
    <3>1. mech' = [mech EXCEPT !.last = None]
      BY <1>2, <2>1, <2>6 DEF Uncommitted, Campaigns, Slots
    <3>2. QED
      BY <2>1, <3>1 DEF IInv, TypeOK, Campaigns
  <2>7. QED
    BY <2>2, <2>3, <2>4, <2>5, <2>6
<1>4. Campaigning'
  BY <1>3 DEF IInv, TypeOK, Campaigning
<1>5. Story'
  <2>1. CASE mech'.fight = mech.fight
    BY <1>2, <1>3, <2>1 DEF IInv, Story, Warranted, OnceEntered, DiceOfTheStory, Fighting
  <2>2. CASE Fighting(mech) /\ mech'.fight # None /\ Continued(mech.fight, mech'.fight)
    <3>1. room.beat = "combat" /\ room'.beat = "combat"
      BY <1>2, <2>2, FightIsOn
    <3>2. mech'.fight.outcome = None /\ mech'.fight.joined = mech.fight.joined
      BY <2>2 DEF Continued, Fighting
    <3>3. QED
      BY <1>2, <1>3, <2>2, <3>1, <3>2 DEF IInv, Story, Warranted, OnceEntered, DiceOfTheStory, Fighting
  <2>3. QED
    BY <1>3, <2>1, <2>2
<1>6. Sound(after)'
  BY <1>1 DEF Sound
<1>7. ~disturbed' => mech'.supply = mech.supply /\ mech.last # "final_roll"
  <2>1. ~disturbed' => mech.last \notin {"supply", "final_roll"}
    BY <1>2 DEF NotRepeated
  <2>2. mech.last \notin {"supply", "final_roll"} => mech'.supply = mech.supply
    BY <1>2 DEF Uncommitted, IInv, TypeOK, Campaigns
  <2>3. QED
    BY <2>1, <2>2
<1>8. ~disturbed' => ~disturbed /\ waiting = {} /\ Playable /\ Provisioned'
  BY <1>1, <1>2, <1>3, <1>7 DEF IInv, Undisturbed, Provisioned, GoesOn, TypeOK
\* The final check is not the Spark roll that is taken back.
<1>9. ~disturbed' /\ room.beat = "physical" => mech'.checks = mech.checks
  <2>1. mech.last # "spark_roll" \/ room.beat # "physical"
    BY DEF IInv, Story, DiceOfTheStory
  <2>2. mech.last \notin {"spark_roll", "final_roll"} => mech'.checks = mech.checks
    BY <1>2 DEF Uncommitted, IInv, TypeOK, Campaigns
  <2>3. QED
    BY <1>7, <2>1, <2>2
<1>10. ~disturbed' => GoesOn'
  <2>1. ~disturbed' /\ room.beat # "combat" => Playable'
    BY <1>2, <1>3, <1>8, <1>9 DEF Playable, MayGoOn, Unplayed, ChallengeOpen
  <2>2. ~disturbed' /\ room.beat = "combat" => Fighting(mech')
    BY <1>3, <1>8 DEF Playable, MayGoOn, Unplayed, Fighting, Continued
  <2>3. host'.thread = after
    BY <1>2 DEF IInv, TypeOK
  <2>4. QED
    BY <1>1, <1>2, <2>1, <2>2, <2>3 DEF GoesOn
<1>11. TypeOK'
  BY <1>1, <1>2, <1>4, StaledAdvances DEF IInv, TypeOK, Campaigning, Threads
<1>12. Handlers'
  BY <1>1, <1>2, <1>6, StaledAdvances DEF IInv, TypeOK, Handlers, Leads, Sound
<1>13. Undisturbed'
  BY <1>2, <1>8, <1>10 DEF IInv, TypeOK, Undisturbed
<1>14. QED
  BY <1>5, <1>11, <1>12, <1>13 DEF IInv

-----------------------------------------------------------------------------
(* What the host does next *)

\* The part of the invariant that a thread of the host starts from.
LEMMA AtThread ==
  ASSUME IInv, host.thread # None
  PROVE  /\ host.up /\ host.recover = None /\ host.thread \in Threads
         /\ Sound(host.thread)
         /\ mech \in Campaigns /\ room.beat \in Beats \ {"clue"}
BY DEF IInv, TypeOK, Handlers

\* A commit of the host's own; its restart follows the mechanic up as the
\* client command it was submitted as.
LEMMA HostCommitted ==
  ASSUME IInv, host.thread # None, NEW CONSTANT next, next \in (Threads \ Advances) \cup {None},
         NEW CONSTANT intent, intent \in Intents, NEW CONSTANT degree, degree \in Degrees \cup {None},
         NEW STATE m, Workflow(m, next, After(intent, degree)),
         Campaigning', Story', Sound(next)', Sound(After(intent, degree))',
         ~disturbed /\ host'.thread = next => Provisioned' /\ (waiting = {} => GoesOn')
  PROVE  IInv'
<1>1. After(intent, degree) \in FollowUps
  BY AfterIs
<1>2. QED
  BY <1>1, AtThread, Committed DEF Workflow, Campaigning

LEMMA StartingInvariant == IInv /\ Starting => IInv'
<1> SUFFICES ASSUME IInv, Starting PROVE IInv'
  OBVIOUS
<1> USE NoneApart, PartyAssumption
<1> DEFINE start == [at |-> "start"]
           after == After("start_run", None)
<1>1. /\ host.thread = start /\ start \in Threads \ Advances /\ start # None
      /\ start.at = "start"
  BY DEF Starting, Threads, Advances
<1>2. /\ after.at = "after" /\ after.intent = "start_run" /\ after # None
      /\ "start_run" \in Intents
  BY AfterIs DEF Intents
<1> HIDE DEF start, after
<1>3. Sound(start)' /\ Sound(after)'
  BY <1>1, <1>2 DEF Sound
<1>4. mech \in Campaigns /\ room.beat \in Beats \ {"clue"} /\ host.up
  BY <1>1, AtThread
<1>5. ~disturbed /\ waiting = {} => Playable
  BY <1>1 DEF IInv, Undisturbed, GoesOn
<1>6. CASE mech.party < PartySize
  <2> DEFINE h == mech.party + 1
             m == [mech EXCEPT !.party = h, !.spark = @ \cup {h}, !.last = None]
  <2>1. Workflow(m, start, after) /\ mech' = m /\ room' = room
    BY <1>1, <1>6 DEF Starting, Workflow, start, after
  <2>2. mech.party \in 0 .. PartySize /\ h \in 1 .. PartySize
    BY <1>4, <1>6 DEF Campaigns
  <2>3. /\ mech'.party = h /\ mech'.supply = mech.supply
        /\ mech'.attempted = mech.attempted /\ mech'.last = None
        /\ mech'.ritual = mech.ritual /\ mech'.fight = mech.fight /\ mech'.die = mech.die
        /\ mech'.spark = mech.spark \cup {h} /\ mech'.checks = mech.checks
        /\ mech'.challenge = mech.challenge
    BY <1>4, <2>1 DEF Campaigns
  <2>4. mech' \in Campaigns
    <3>1. h \in 0 .. PartySize /\ h \in Heroes
      BY <2>2 DEF Heroes
    <3> HIDE DEF h
    <3>2. QED
      BY <1>4, <2>1, <3>1 DEF Campaigns
  <2> HIDE DEF m
  <2>5. mech.party < h /\ mech.party \in Nat /\ h \in Nat /\ h >= 1 /\ h <= PartySize
    BY <2>2
  <2>6. Campaigning'
    <3>1. mech'.spark \subseteq 1 .. mech'.party
      BY <2>3, <2>5 DEF IInv, TypeOK
    <3>2. \A c \in mech'.checks : c.roller <= mech'.party
      <4>1. ASSUME NEW c \in mech.checks PROVE c.roller <= h
        <5>1. c.roller <= mech.party /\ c.roller \in Heroes
          BY <1>4 DEF IInv, TypeOK, Campaigns, Checks
        <5>2. QED
          BY <2>5, <5>1 DEF Heroes
      <4>2. QED
        BY <2>3, <4>1
    <3>3. QED
      BY <2>4, <3>1, <3>2 DEF Campaigning
  <2> HIDE DEF h
  <2>7. Story'
    BY <1>6, <2>1, <2>3, <2>5 DEF IInv, Story, Warranted, OnceEntered, DiceOfTheStory, Fighting
  <2>8. host'.thread = start => Provisioned'
    BY <1>1 DEF Provisioned
  <2>9. ~disturbed /\ waiting = {} /\ host'.thread = start => GoesOn'
    <3>1. Playable => Playable'
      BY <2>1, <2>3, <2>5, PlayableStill
    <3>2. QED
      BY <1>1, <1>5, <3>1 DEF GoesOn
  <2>10. QED
    BY <1>1, <1>2, <1>3, <2>1, <2>6, <2>7, <2>8, <2>9, HostCommitted DEF after
<1>7. CASE ~(mech.party < PartySize) /\ mech.supply = 0
  <2> DEFINE m == [mech EXCEPT !.supply = PartySize, !.last = "supply"]
  <2>1. Workflow(m, start, after) /\ mech' = m /\ room' = room
    BY <1>1, <1>7 DEF Starting, Workflow, start, after
  <2>2. /\ mech'.party = mech.party /\ mech'.last = "supply"
        /\ mech'.attempted = mech.attempted
        /\ mech'.ritual = mech.ritual /\ mech'.fight = mech.fight /\ mech'.die = mech.die
        /\ mech'.spark = mech.spark /\ mech'.checks = mech.checks
        /\ mech'.challenge = mech.challenge
    BY <1>4, <2>1 DEF Campaigns
  <2>3. mech' \in Campaigns
    <3>1. PartySize \in 0 .. PartySize
      OBVIOUS
    <3>2. QED
      BY <1>4, <2>1, <3>1 DEF Campaigns, Undoable
  <2> HIDE DEF m
  <2>4. Campaigning'
    BY <2>2, <2>3 DEF Campaigning, IInv, TypeOK
  <2>5. Story'
    BY <2>1, <2>2 DEF IInv, Story, Warranted, OnceEntered, DiceOfTheStory, Fighting
  <2>6. host'.thread = start => Provisioned'
    BY <1>1 DEF Provisioned
  <2>7. ~disturbed /\ waiting = {} /\ host'.thread = start => GoesOn'
    <3>1. Playable => Playable'
      BY <2>1, <2>2, PlayableStill
    <3>2. QED
      BY <1>1, <1>5, <3>1 DEF GoesOn
  <2>8. QED
    BY <1>1, <1>2, <1>3, <2>1, <2>4, <2>5, <2>6, <2>7, HostCommitted DEF after
<1>8. CASE ~(mech.party < PartySize) /\ mech.supply # 0
  <2>1. /\ room' = [room EXCEPT !.status = IF @ = "lobby" THEN "active" ELSE @]
        /\ host' = [host EXCEPT !.thread = None] /\ waiting' = Staled
        /\ UNCHANGED <<provider, mech, disturbed>>
    BY <1>8 DEF Starting
  <2>2. /\ mech.party = PartySize /\ mech.supply >= 1 /\ PartySize >= 1
    BY <1>4, <1>8 DEF Campaigns
  <2>3. /\ room'.beat = room.beat /\ room'.status # "lobby"
        /\ room'.status = "completed" <=> room.status = "completed"
        /\ room' \in [beat : Beats \ {"clue"}, status : {"lobby", "active", "completed"}]
        /\ host'.thread = None /\ host'.up /\ host'.recover = None
    BY <1>1, <2>1, AtThread DEF IInv, TypeOK
  <2>4. TypeOK'
    BY <2>1, <2>3, StaledAdvances DEF IInv, TypeOK
  <2>5. Story'
    BY <2>1, <2>2, <2>3 DEF IInv, Story, Warranted, OnceEntered, DiceOfTheStory
  <2>6. Handlers'
    BY <2>1, <2>3, StaledAdvances DEF IInv, TypeOK, Handlers, Sound, Leads
  <2>7. Undisturbed'
    <3>1. Provisioned'
      BY <2>1, <2>2, <2>3 DEF Provisioned
    <3>2. waiting' = {} <=> waiting = {}
      BY <2>1, StaledAdvances DEF IInv, TypeOK
    <3>3. Playable => Playable'
      BY <2>1, <2>2, <2>3, PlayableStill
    <3>4. QED
      BY <1>5, <2>1, <2>3, <3>1, <3>2, <3>3 DEF Undisturbed, GoesOn
  <2>8. QED
    BY <2>4, <2>5, <2>6, <2>7 DEF IInv
<1>9. QED
  BY <1>6, <1>7, <1>8

\* Where the room comes to by an outcome of its beat.
LEMMA NarratedTo ==
  ASSUME NEW STATE on, NEW CONSTANT b, b \in Declared(room.beat, on)
  PROVE  \/ room.beat = "opening" /\ Landing(b) = "spark"
         \/ room.beat = "clue" /\ Landing(b) = "spark"
         \/ room.beat = "spark" /\ Landing(b) = "challenge"
         \/ room.beat = "cost_merge" /\ Landing(b) = "social"
         \/ room.beat = "combat" /\ on = "combat_victory" /\ Landing(b) = "physical"
         \/ room.beat = "combat" /\ on = "withdrawal" /\ Landing(b) = "retreat"
         \/ room.beat = "combat" /\ on = "defeat" /\ Landing(b) = "lost"
         \/ room.beat = "challenge" /\ Landing(b) \in {"cost_merge", "social"}
         \/ room.beat = "social" /\ Landing(b) = "ritual"
         \/ room.beat = "ritual" /\ Landing(b) = "combat"
         \/ room.beat = "physical" /\ on \in Poor /\ Landing(b) = "costly"
         \/ room.beat = "physical" /\ on \notin Poor /\ Landing(b) = "clean"
<1>1. <<room.beat, on, b>> \in Moves
  BY DeclaredIsMove
<1>2. QED
  BY <1>1, MoveTable DEF Landing

\* Every degree is declared where a check is made, every outcome at the fight.
LEMMA DeclaredAtDegrees ==
  ASSUME NEW b \in {"challenge", "social", "ritual", "physical"}, NEW d \in Degrees
  PROVE  Declared(b, d) # {}
<1>1. \E to : <<b, d, to>> \in Moves
  <2>1. <<"challenge", d, IF d \in Poor THEN "cost_merge" ELSE "social">> \in Moves
        /\ <<"social", d, "ritual">> \in Moves
        /\ <<"ritual", d, "combat">> \in Moves
        /\ <<"physical", d, IF d \in Poor THEN "costly" ELSE "clean">> \in Moves
    BY DEF Moves
  <2>2. QED
    BY <2>1
<1>2. PICK to : <<b, d, to>> \in Moves
  BY <1>1
<1>3. to \in Declared(b, d)
  BY <1>2 DEF Declared
<1>4. QED
  BY <1>3

\* The outcome of the fight is told where it was fought.
LEMMA OutcomeNarrated ==
  ASSUME IInv, Past, room.beat = "combat", mech.fight # None, mech.fight.outcome # None,
         Narrate(mech.fight.outcome)
  PROVE  IInv'
<1>1. mech.party >= 1 /\ mech.fight.outcome \in {"combat_victory", "withdrawal", "defeat"}
  BY DEF IInv, TypeOK, Campaigns, Fights, Outcomes, Story, Warranted
<1>2. \A b \in Declared(room.beat, mech.fight.outcome) : Warranted(Landing(b))
  BY <1>1, NarratedTo DEF Warranted
<1>3. Declared(room.beat, mech.fight.outcome) # {}
  <2>1. \E to : <<"combat", mech.fight.outcome, to>> \in Moves
    BY <1>1 DEF Moves
  <2>2. PICK to : <<"combat", mech.fight.outcome, to>> \in Moves
    BY <2>1
  <2>3. to \in Declared("combat", mech.fight.outcome)
    BY <2>2 DEF Declared
  <2>4. QED
    BY <2>3
<1>4. QED
  BY <1>2, <1>3, Narrating

\* The thread ends where the table can go on.
LEMMA Ended ==
  ASSUME IInv, host.thread # None, host.thread.at # "start", Goto(None),
         ~disturbed /\ waiting = {} => Playable
  PROVE  IInv'
<1>1. Sound(None) /\ host'.thread = None /\ UNCHANGED <<room, mech>>
  BY DEF Sound, Goto, IInv, TypeOK
<1>2. ~disturbed => Provisioned'
  BY <1>1 DEF IInv, Undisturbed, Provisioned
<1>3. Playable => Playable'
  BY <1>1, PlayableStill
<1>4. ~disturbed /\ waiting = {} => GoesOn'
  BY <1>1, <1>3 DEF GoesOn
<1>5. QED
  BY <1>1, <1>2, <1>4, AtThread, Gone

LEMMA AfterMechanicalCommitInvariant == IInv /\ AfterMechanicalCommit => IInv'
<1> SUFFICES ASSUME IInv, AfterMechanicalCommit PROVE IInv'
  OBVIOUS
<1> USE NoneApart
<1> DEFINE intent == host.thread.intent
           degree == host.thread.degree
<1>1. /\ host.thread # None /\ host.thread.at = "after" /\ host.thread \in FollowUps
      /\ host.thread.at # "start"
  BY DEF AfterMechanicalCommit, Thread, IInv, TypeOK, Threads, FollowUps, Advances
<1>2. /\ host.up /\ host.recover = None /\ Past /\ Sound(host.thread)
      /\ mech \in Campaigns /\ room.beat \in Beats \ {"clue"}
  BY <1>1, AtThread DEF Past
<1>3. intent \in Intents /\ degree \in Degrees \cup {None}
  BY <1>1 DEF FollowUps
<1>4. ~disturbed => /\ Provisioned
                    /\ waiting = {} => GoesOn
  BY DEF IInv, Undisturbed
\* The thread ends.
<1>5. ASSUME Goto(None), ~disturbed /\ waiting = {} => Playable PROVE IInv'
  BY <1>1, <1>5, Ended
\* It goes on with the enemies.
<1>6. ASSUME Goto([at |-> "enemies"]), ~disturbed /\ waiting = {} => Fighting(mech) PROVE IInv'
  <2> DEFINE enemies == [at |-> "enemies"]
  <2>1. /\ enemies \in (Threads \ Advances) \cup {None} /\ Sound(enemies)
        /\ enemies.at = "enemies" /\ enemies # None
    BY DEF Threads, Advances, Sound
  <2>2. host'.thread = enemies /\ UNCHANGED <<room, mech>> /\ Goto(enemies)
    BY <1>6 DEF Goto, IInv, TypeOK
  <2> HIDE DEF enemies
  <2>3. ~disturbed => Provisioned'
    BY <1>1, <1>4, <2>1, <2>2 DEF Provisioned
  <2>4. ~disturbed /\ waiting = {} => GoesOn'
    BY <1>6, <2>1, <2>2 DEF GoesOn, Fighting
  <2>5. QED
    BY <1>2, <2>1, <2>2, <2>3, <2>4, Gone
<1>7. CASE intent = "choose_spark"
  <2>1. CASE degree = None
    <3>1. Goto(None)
      BY <1>7, <2>1 DEF AfterMechanicalCommit
    <3>2. ~disturbed /\ waiting = {} => Playable
      BY <1>1, <1>4, <1>7, <2>1 DEF GoesOn
    <3>3. QED
      BY <1>5, <3>1, <3>2
  <2>2. CASE degree # None
    <3>1. Narrate("continue")
      BY <1>7, <2>2 DEF AfterMechanicalCommit
    <3>2. room.beat = "spark" /\ mech.party >= 1
      BY <1>1, <1>2, <1>7, <2>2 DEF Sound
    <3>3. Playable
      BY <1>2, <3>2 DEF Playable, MayGoOn, Campaigns
    <3>4. \A b \in Declared(room.beat, "continue") : Warranted(Landing(b))
      BY <3>2, NarratedTo DEF Warranted
    <3>5. QED
      BY <1>2, <3>1, <3>3, <3>4, Narrating
  <2>3. QED
    BY <2>1, <2>2
<1>8. CASE intent = "choose_guided_option"
  <2>1. CASE degree = None
    <3>1. Goto(None)
      BY <1>8, <2>1 DEF AfterMechanicalCommit
    <3>2. ~disturbed => waiting # {}
      BY <1>1, <1>4, <1>8, <2>1 DEF GoesOn
    <3>3. QED
      BY <1>5, <3>1, <3>2
  <2>2. CASE degree # None
    <3>1. Narrate(degree)
      BY <1>8, <2>2 DEF AfterMechanicalCommit
    <3>2. room.beat \in {"challenge", "social", "ritual"} /\ degree \in Degrees
      BY <1>1, <1>2, <1>3, <1>8, <2>2 DEF Sound
    <3>3. mech.party >= 1
      BY <3>2 DEF IInv, Story, Warranted
    <3>4. \A b \in Declared(room.beat, degree) : Warranted(Landing(b))
      BY <3>2, <3>3, NarratedTo DEF Warranted
    <3>5. Declared(room.beat, degree) # {}
      BY <3>2, DeclaredAtDegrees
    <3>6. QED
      BY <1>2, <3>1, <3>4, <3>5, Narrating
  <2>3. QED
    BY <2>1, <2>2
<1>9. CASE intent = "withdraw_combat"
  <2>1. Narrate(mech.fight.outcome)
    BY <1>9 DEF AfterMechanicalCommit
  <2>2. room.beat = "combat" /\ mech.fight # None /\ mech.fight.outcome = "withdrawal"
    BY <1>1, <1>2, <1>9 DEF Sound
  <2>3. QED
    BY <1>2, <2>1, <2>2, OutcomeNarrated
<1>10. CASE intent = "resolve_reaction"
  <2>1. Goto([at |-> "enemies"])
    BY <1>10 DEF AfterMechanicalCommit
  <2>2. ~disturbed /\ waiting = {} => Fighting(mech)
    BY <1>1, <1>4, <1>10 DEF GoesOn
  <2>3. QED
    BY <1>6, <2>1, <2>2
<1>11. CASE intent = "submit_die" /\ room.beat = "spark"
  <2>1. Narrate("continue")
    BY <1>11 DEF AfterMechanicalCommit
  <2>2. mech.party >= 1
    BY <1>1, <1>2, <1>11 DEF Sound
  <2>3. Playable
    BY <1>2, <1>11, <2>2 DEF Playable, MayGoOn, Campaigns
  <2>4. \A b \in Declared(room.beat, "continue") : Warranted(Landing(b))
    BY <1>11, <2>2, NarratedTo DEF Warranted
  <2>5. QED
    BY <1>2, <2>1, <2>3, <2>4, Narrating
<1>12. CASE intent = "submit_die" /\ room.beat = "physical"
  <2>1. Narrate(degree)
    BY <1>12 DEF AfterMechanicalCommit
  <2>2. /\ mech.party >= 1 /\ mech.die = degree /\ mech.die # None
        /\ mech.fight # None /\ mech.fight.outcome = "combat_victory"
    BY <1>1, <1>2, <1>12 DEF Sound, IInv, Story, Warranted
  <2>3. degree \in Degrees
    BY <1>2, <2>2 DEF Campaigns
  <2>4. \A b \in Declared(room.beat, degree) : Warranted(Landing(b))
    BY <1>12, <2>2, NarratedTo DEF Warranted
  <2>5. Declared(room.beat, degree) # {}
    BY <1>12, <2>3, DeclaredAtDegrees
  <2>6. QED
    BY <1>2, <2>1, <2>4, <2>5, Narrating
<1>13. CASE \/ intent \in {"start_run", "confirm_correction", "reaction_timeout"}
            \/ intent \in {"commit_legal_action", "fight_die"}
            \/ intent = "submit_die" /\ room.beat \notin {"spark", "physical"}
  <2>1. CASE room.beat # "combat"
    <3>1. Goto(None)
      BY <1>13, <2>1 DEF AfterMechanicalCommit
    <3>2. ~disturbed /\ waiting = {} => Playable
      BY <1>1, <1>4, <1>13, <2>1 DEF GoesOn
    <3>3. QED
      BY <1>5, <3>1, <3>2
  <2>2. CASE /\ room.beat = "combat" /\ mech.fight.outcome # None
             /\ intent \in {"commit_legal_action", "fight_die"}
    <3>1. Narrate(mech.fight.outcome)
      BY <2>2 DEF AfterMechanicalCommit
    <3>2. mech.fight # None
      BY <1>1, <1>2, <2>2 DEF Sound
    <3>3. QED
      BY <1>2, <2>2, <3>1, <3>2, OutcomeNarrated
  <2>3. CASE /\ room.beat = "combat"
             /\ ~(intent \in {"commit_legal_action", "fight_die"} /\ mech.fight.outcome # None)
    <3>1. Goto([at |-> "enemies"])
      BY <1>13, <2>3 DEF AfterMechanicalCommit
    <3>2. intent \in {"commit_legal_action", "fight_die"} => Fighting(mech)
      BY <1>1, <1>2, <2>3 DEF Sound, Fighting
    <3>3. ~disturbed /\ waiting = {} => Fighting(mech)
      BY <1>1, <1>4, <1>13, <2>3, <3>2 DEF GoesOn
    <3>4. QED
      BY <1>6, <3>1, <3>3
  <2>4. QED
    BY <2>1, <2>2, <2>3
<1> HIDE DEF intent, degree
<1>14. QED
  BY <1>3, <1>7, <1>8, <1>9, <1>10, <1>11, <1>12, <1>13 DEF Intents

\* A commit of the enemies, and what the thread goes on with.
LEMMA EnemyActed ==
  ASSUME IInv, host.thread # None, host.thread.at # "start", Fighting(mech),
         NEW STATE f, f \in Fights, f.outcome = None, f.joined => mech.checks = {},
         NEW STATE last, last \in {None} \cup Slots,
         NEW CONSTANT next, next \in {None, [at |-> "enemies"], [at |-> "react"]},
         next = None => f.window,
         NEW CONSTANT intent, intent \in {"commit_legal_action", "reaction_timeout"},
         Workflow([mech EXCEPT !.fight = f, !.last = last], next, After(intent, None))
  PROVE  IInv'
<1> USE NoneApart
<1> DEFINE m == [mech EXCEPT !.fight = f, !.last = last]
           after == After(intent, None)
<1>1. /\ after.at = "after" /\ after.intent = intent /\ after.degree = None
      /\ after # None /\ after \in FollowUps /\ intent \in Intents
  BY AfterIs DEF Intents
<1>2. /\ next \in (Threads \ Advances) \cup {None}
      /\ next # None => next.at \in {"enemies", "react"}
  BY DEF Threads, Advances
<1>3. mech' = m /\ room' = room /\ Workflow(m, next, after)
  BY DEF Workflow
<1> HIDE DEF after
<1>4. /\ Campaigning' /\ Story' /\ mech'.fight = f /\ mech'.fight # None
      /\ mech'.party = mech.party /\ mech'.supply = mech.supply
      /\ mech'.ritual = mech.ritual
  BY <1>3, FoughtOn
<1>5. room'.beat = "combat" /\ Fighting(mech')
  BY <1>3, <1>4, FightIsOn DEF Fighting
<1> HIDE DEF m
<1>6. Sound(next)' /\ Sound(after)'
  BY <1>1, <1>2, <1>4 DEF Sound
<1>7. ~disturbed /\ host'.thread = next => Provisioned'
  BY <1>3, <1>4 DEF IInv, Undisturbed, Provisioned
<1>8. host'.thread = next => GoesOn'
  <2>1. CASE next = None
    <3>1. Playable'
      BY <1>4, <1>5, <2>1 DEF Playable, MayGoOn
    <3>2. QED
      BY <2>1, <3>1 DEF GoesOn
  <2>2. CASE next # None
    BY <1>2, <1>5, <2>2 DEF GoesOn
  <2>3. QED
    BY <2>1, <2>2
<1>9. QED
  BY <1>1, <1>2, <1>3, <1>4, <1>6, <1>7, <1>8, HostCommitted DEF after

\* When the host leaves the enemies alone, a hero has something to do, or the
\* enemy that is left is one that the host does not play.
LEMMA EnemiesLeft ==
  ASSUME IInv, Fighting(mech), ~EnemiesMayAct
  PROVE  Playable
<1> DEFINE f == mech.fight
<1>1. room.beat = "combat" /\ f \in Fights
  BY FightIsOn
<1>2. CASE f.roll # None \/ f.window \/ mech.checks # {}
  BY <1>1, <1>2 DEF Playable, MayGoOn
<1>3. CASE ~EnemyOnTurn(f)
  <2>1. f.side \in {"hero", "enemy"} /\ f.ready \subseteq {"hero", "enemy"}
        /\ f.acting \in BOOLEAN
    BY <1>1 DEF Fights, Sides
  <2>2. CASE f.side = "enemy"
    <3>1. ~f.acting /\ "enemy" \notin f.ready
      BY <1>3, <2>1, <2>2 DEF EnemyOnTurn
    <3>2. HeroMayBegin(f)
      BY <2>2, <3>1 DEF HeroMayBegin
    <3>3. QED
      BY <1>1, <3>2 DEF Playable, MayGoOn
  <2>3. CASE f.side = "hero" /\ f.acting
    BY <1>1, <2>3 DEF Playable, MayGoOn
  <2>4. CASE f.side = "hero" /\ ~f.acting
    <3>1. f.ready = {} \/ f.ready = {"enemy"} \/ "hero" \in f.ready
      BY <2>1
    <3>2. f.ready = {} \/ "hero" \in f.ready => HeroMayBegin(f)
      BY <2>4 DEF HeroMayBegin
    <3>3. f.ready = {"enemy"} => Unplayed
      BY <1>1, <2>4 DEF Unplayed
    <3>4. QED
      BY <1>1, <3>1, <3>2, <3>3 DEF Playable, MayGoOn
  <2>5. QED
    BY <2>1, <2>2, <2>3, <2>4
<1>4. QED
  BY <1>2, <1>3 DEF EnemiesMayAct, FightActive

LEMMA RunEnemyFallbacksInvariant == IInv /\ RunEnemyFallbacks => IInv'
<1> SUFFICES ASSUME IInv, RunEnemyFallbacks PROVE IInv'
  OBVIOUS
<1>1. /\ host.thread # None /\ host.thread.at = "enemies" /\ host.thread.at # "start"
  BY DEF RunEnemyFallbacks, Thread
<1>2. ~disturbed /\ waiting = {} => Fighting(mech) /\ room.beat = "combat"
  BY <1>1, FightIsOn DEF IInv, Undisturbed, GoesOn
<1> DEFINE fight == mech.fight
           again == [at |-> "enemies"]
           react == [at |-> "react"]
<1>3. CASE ~EnemiesMayAct /\ Goto(None)
  BY <1>1, <1>2, <1>3, EnemiesLeft, Ended
<1>4. CASE EnemiesMayAct /\ ~fight.acting /\ fight.drained /\ Goto(None)
  <2>1. ~disturbed /\ waiting = {} => Playable
    BY <1>2, <1>4 DEF Playable, Unplayed
  <2>2. QED
    BY <1>1, <1>4, <2>1, Ended
<1>5. ASSUME EnemiesMayAct
      PROVE  /\ Fighting(mech) /\ mech.checks = {}
             /\ fight \in Fights /\ fight.outcome = None
  BY <1>5, FightStands DEF EnemiesMayAct, FightActive
<1>6. ASSUME EnemiesMayAct, NEW f, f \in Fights, f.outcome = None,
             NEW CONSTANT last, last \in {None} \cup Slots,
             NEW CONSTANT next, next \in {again, react},
             EnemyPlays(f, last, next)
      PROVE  IInv'
  <2>1. Workflow([mech EXCEPT !.fight = f, !.last = last], next,
                 After("commit_legal_action", None))
    BY <1>6 DEF EnemyPlays
  <2>2. next # None /\ next \in {None, [at |-> "enemies"], [at |-> "react"]}
    BY <1>6, NoneApart DEF Threads
  <2> HIDE DEF again, react
  <2>3. QED
    BY <1>1, <1>5, <1>6, <2>1, <2>2, EnemyActed
<1>7. CASE /\ EnemiesMayAct
           /\ EnemyPlays([fight EXCEPT !.acting = TRUE, !.joined = TRUE], None, again)
  <2> DEFINE f == [fight EXCEPT !.acting = TRUE, !.joined = TRUE]
  <2>1. f \in Fights /\ f.outcome = None
    BY <1>5, <1>7 DEF Fights
  <2> HIDE DEF f
  <2>2. QED
    BY <1>6, <1>7, <2>1 DEF f
<1>8. CASE /\ EnemiesMayAct
           /\ \E f \in Spendings(fight) :
                \/ EnemyPlays(f, "enemy_slot", again)
                \/ \E g \in Called(f) : EnemyPlays(g, None, again)
                \/ EnemyPlays(f, "enemy_slot", react)
                \/ EnemyPlays(f, None, react)
                \/ EnemyPlays(Awaiting(f, "death"), None, react)
  <2>1. PICK f \in Spendings(fight) :
                \/ EnemyPlays(f, "enemy_slot", again)
                \/ \E g \in Called(f) : EnemyPlays(g, None, again)
                \/ EnemyPlays(f, "enemy_slot", react)
                \/ EnemyPlays(f, None, react)
                \/ EnemyPlays(Awaiting(f, "death"), None, react)
    BY <1>8
  <2>2. f \in Fights /\ f.outcome = None
    BY <1>5, <1>8, FightOperators DEF Continued
  <2>3. \A g \in Called(f) : g \in Fights /\ g.outcome = None
    BY <2>2, FightOperators DEF Continued
  <2>4. Awaiting(f, "death") \in Fights /\ Awaiting(f, "death").outcome = None
    BY <2>2, FightOperators DEF Continued, Rolls
  <2>5. "enemy_slot" \in {None} \cup Slots /\ None \in {None} \cup Slots
    BY DEF Slots
  <2> HIDE DEF fight, again, react
  <2>6. QED
    BY <1>6, <1>8, <2>1, <2>2, <2>3, <2>4, <2>5
<1>9. QED
  BY <1>3, <1>4, <1>7, <1>8 DEF RunEnemyFallbacks

LEMMA OpenReactionAfterEnemyActionInvariant == IInv /\ OpenReactionAfterEnemyAction => IInv'
<1> SUFFICES ASSUME IInv, OpenReactionAfterEnemyAction PROVE IInv'
  OBVIOUS
<1>1. /\ host.thread # None /\ host.thread.at = "react" /\ host.thread.at # "start"
      /\ host.up /\ host.recover = None
  BY AtThread DEF OpenReactionAfterEnemyAction, Thread
<1>2. CASE FightActive(mech) /\ ~mech.fight.window
  <2> DEFINE f == [mech.fight EXCEPT !.window = TRUE]
             m == [mech EXCEPT !.fight = f, !.last = None]
  <2>1. Fighting(mech)
    BY <1>2 DEF FightActive
  <2>2. /\ f \in Fights /\ f.outcome = None /\ f.window /\ f.joined = mech.fight.joined
        /\ [mech EXCEPT !.fight.window = TRUE, !.last = None] = m
    BY <2>1, FightIsOn DEF Fights, Campaigns
  <2>3. Workflow(m, None, After("reaction_timeout", None))
    BY <1>2, <2>2 DEF OpenReactionAfterEnemyAction
  <2>4. f.joined => mech.checks = {}
    BY <2>1, <2>2, FightStands
  <2> HIDE DEF f
  <2>5. QED
    BY <1>1, <2>1, <2>2, <2>3, <2>4, EnemyActed
<1>3. CASE ~(FightActive(mech) /\ ~mech.fight.window)
  <2> DEFINE enemies == [at |-> "enemies"]
  <2>1. /\ enemies \in (Threads \ Advances) \cup {None} /\ Sound(enemies)
        /\ enemies.at = "enemies" /\ enemies # None
    BY NoneApart DEF Threads, Advances, Sound
  <2>2. Goto(enemies)
    BY <1>3 DEF OpenReactionAfterEnemyAction
  <2>3. host'.thread = enemies /\ UNCHANGED <<room, mech>>
    BY <2>2 DEF Goto, IInv, TypeOK
  <2> HIDE DEF enemies
  <2>4. ~disturbed => Provisioned'
    BY <1>1, <2>1, <2>3 DEF IInv, Undisturbed, Provisioned
  <2>5. ~disturbed /\ waiting = {} => GoesOn'
    BY <1>1, <2>1, <2>3 DEF IInv, Undisturbed, GoesOn, Fighting
  <2>6. QED
    BY <1>1, <2>1, <2>2, <2>4, <2>5, Gone
<1>4. QED
  BY <1>2, <1>3

\* What the host does on entry to a beat leaves the party alone; the Supply of
\* the ritual is spent with its first contribution.
LEMMA Entered ==
  ASSUME IInv, host.thread # None, host.thread.at = "enter",
         NEW CONSTANT next, next \in (Threads \ Advances) \cup {None},
         NEW CONSTANT degree, degree \in Degrees \cup {None},
         NEW CONSTANT intent, intent \in Intents,
         NEW STATE m, Workflow(m, next, After(intent, degree)),
         Campaigning', Story', Sound(next)', Sound(After(intent, degree))',
         mech'.party = mech.party,
         mech'.ritual \in {None, "preparing"} =>
           mech.ritual \in {None, "preparing"} /\ mech'.supply = mech.supply,
         next = None => Playable',
         next # None =>
           \/ next.at = "enter"
           \/ next.at = "after" /\ next.intent = "choose_guided_option" /\ next.degree # None
  PROVE  IInv'
<1>1. ~disturbed => Provisioned'
  BY DEF Workflow, IInv, Undisturbed, Provisioned
<1>2. host'.thread = next => GoesOn'
  BY DEF GoesOn
<1>3. QED
  BY <1>1, <1>2, HostCommitted

LEMMA EnterCurrentBeatInvariant == IInv /\ EnterCurrentBeat => IInv'
<1> SUFFICES ASSUME IInv, EnterCurrentBeat PROVE IInv'
  OBVIOUS
<1> USE NoneApart, PartyAssumption
<1> DEFINE enter == [at |-> "enter"]
           after == After("choose_guided_option", None)
<1>1. /\ host.thread # None /\ host.thread.at = "enter" /\ host.up /\ host.recover = None
      /\ Sound(host.thread) /\ mech \in Campaigns /\ room.beat \in Beats \ {"clue"}
  BY AtThread DEF EnterCurrentBeat, Thread
<1>2. enter \in (Threads \ Advances) \cup {None} /\ enter.at = "enter" /\ enter # None
  BY DEF Threads, Advances
<1>3. /\ after.at = "after" /\ after.intent = "choose_guided_option" /\ after.degree = None
      /\ after # None /\ after \in FollowUps /\ "choose_guided_option" \in Intents
  BY AfterIs DEF Intents
<1>4. Sound(None)' /\ Sound(after)'
  BY <1>3 DEF Sound
<1> HIDE DEF enter, after
\* Entering goes on, because the first commit prepares the second.
<1>5. ASSUME NEW STATE m, Workflow(m, enter, after), Campaigning', Story', Sound(enter)',
              mech'.party = mech.party, mech'.supply = mech.supply,
              mech'.ritual \in {None, "preparing"} => mech.ritual \in {None, "preparing"}
       PROVE  IInv'
  <2>1. Workflow(m, enter, After("choose_guided_option", None))
    BY <1>5 DEF after
  <2>2. Sound(After("choose_guided_option", None))'
    BY <1>4 DEF after
  <2>3. QED
    BY <1>1, <1>2, <1>3, <1>5, <2>1, <2>2, Entered
<1>6. room.beat \notin {"opening", "spark"} => mech.party >= 1
  BY DEF IInv, Story, Warranted
<1>7. CASE room.beat = "cost_merge"
  <2>1. Narrate("continue")
    BY <1>7 DEF EnterCurrentBeat
  <2>2. Past
    BY <1>1 DEF Past
  <2>3. \A b \in Declared(room.beat, "continue") : Warranted(Landing(b))
    BY <1>6, <1>7, NarratedTo DEF Warranted
  <2>4. Declared(room.beat, "continue") # {}
    <3>1. <<"cost_merge", "continue", "social">> \in Moves
      BY DEF Moves
    <3>2. "social" \in Declared("cost_merge", "continue")
      BY <3>1 DEF Declared
    <3>3. QED
      BY <1>7, <3>2
  <2>5. QED
    BY <2>1, <2>2, <2>3, <2>4, Narrating
<1>8. CASE room.beat = "challenge"
  <2> DEFINE tracks == [progress |-> 0, danger |-> 0]
             m == [mech EXCEPT !.challenge = tracks, !.last = None]
  <2>1. mech.challenge = None
    BY <1>1, <1>8 DEF Sound
  <2>2. Workflow(m, None, after) /\ mech' = m /\ room' = room
    BY <1>8, <2>1 DEF EnterCurrentBeat, Workflow, after
  <2>3. tracks \in Tracks /\ tracks.progress = 0 /\ tracks.danger = 0
    BY DEF Tracks
  <2> HIDE DEF tracks
  <2>4. /\ mech' \in Campaigns
        /\ mech'.party = mech.party /\ mech'.supply = mech.supply
        /\ mech'.attempted = mech.attempted /\ mech'.last = None
        /\ mech'.ritual = mech.ritual /\ mech'.fight = mech.fight /\ mech'.die = mech.die
        /\ mech'.spark = mech.spark /\ mech'.checks = mech.checks
        /\ mech'.challenge = tracks
    BY <1>1, <2>2, <2>3 DEF Campaigns
  <2> HIDE DEF m
  <2>5. Campaigning'
    BY <2>4 DEF IInv, TypeOK, Campaigning
  <2>6. Story'
    BY <1>8, <2>2, <2>4 DEF IInv, Story, Warranted, OnceEntered, DiceOfTheStory, Fighting
  <2>7. Playable'
    BY <1>8, <2>2, <2>3, <2>4 DEF Playable, MayGoOn, ChallengeOpen
  <2>8. QED
    BY <1>1, <1>3, <1>4, <2>2, <2>4, <2>5, <2>6, <2>7, Entered DEF after
<1>9. CASE room.beat = "combat"
  <2> DEFINE m == [mech EXCEPT !.fight = NoFight, !.last = None]
  <2>1. mech.fight = None
    BY <1>1, <1>9 DEF Sound
  <2>2. Workflow(m, None, after) /\ mech' = m /\ room' = room
    BY <1>9, <2>1 DEF EnterCurrentBeat, Workflow, after
  <2>3. /\ NoFight \in Fights /\ ~NoFight.joined /\ NoFight.outcome = None
        /\ NoFight.side = "hero" /\ ~NoFight.acting /\ "hero" \in NoFight.ready
    BY DEF Fights, NoFight, Sides
  <2>4. /\ mech' \in Campaigns
        /\ mech'.party = mech.party /\ mech'.supply = mech.supply
        /\ mech'.attempted = mech.attempted /\ mech'.last = None
        /\ mech'.ritual = mech.ritual /\ mech'.fight = NoFight /\ mech'.die = mech.die
        /\ mech'.spark = mech.spark /\ mech'.checks = mech.checks
        /\ mech'.challenge = mech.challenge
    BY <1>1, <2>2, <2>3 DEF Campaigns
  <2> HIDE DEF m
  <2>5. Campaigning'
    BY <2>4 DEF IInv, TypeOK, Campaigning
  <2>6. Story'
    BY <1>9, <2>2, <2>3, <2>4 DEF IInv, Story, Warranted, OnceEntered, DiceOfTheStory, Fighting
  <2>7. Playable'
    BY <1>9, <2>2, <2>3, <2>4 DEF Playable, MayGoOn, Fighting, HeroMayBegin
  <2>8. QED
    BY <1>1, <1>3, <1>4, <2>2, <2>4, <2>5, <2>6, <2>7, Entered DEF after
<1>10. CASE room.beat = "physical"
  <2> DEFINE m == [mech EXCEPT !.checks = {Roll(1, TRUE)}, !.last = "final_roll"]
             spark == After("choose_spark", None)
  <2>1. mech.checks = {} /\ mech.party >= 1
    BY <1>1, <1>6, <1>10 DEF Sound
  <2>2. Workflow(m, None, spark) /\ mech' = m /\ room' = room
    BY <1>10, <2>1 DEF EnterCurrentBeat, EnterPhysical, Workflow
  <2>3. Roll(1, TRUE) \in Checks /\ Roll(1, TRUE).roller = 1 /\ Roll(1, TRUE).final
    BY DEF Roll, Checks, Heroes
  <2>4. /\ mech' \in Campaigns
        /\ mech'.party = mech.party /\ mech'.supply = mech.supply
        /\ mech'.attempted = mech.attempted /\ mech'.last = "final_roll"
        /\ mech'.ritual = mech.ritual /\ mech'.fight = mech.fight /\ mech'.die = mech.die
        /\ mech'.spark = mech.spark /\ mech'.checks = {Roll(1, TRUE)}
        /\ mech'.challenge = mech.challenge
    BY <1>1, <2>2, <2>3 DEF Campaigns, Undoable
  <2> HIDE DEF m
  <2>5. Campaigning'
    BY <2>1, <2>3, <2>4 DEF IInv, TypeOK, Campaigning
  <2>6. Story'
    BY <1>10, <2>2, <2>3, <2>4 DEF IInv, Story, Warranted, OnceEntered, DiceOfTheStory, Fighting
  <2>7. Playable'
    BY <1>10, <2>2, <2>4 DEF Playable, MayGoOn
  <2>8. Sound(spark)' /\ "choose_spark" \in Intents
    BY AfterIs DEF Sound, Intents
  <2>9. QED
    BY <1>1, <1>4, <2>2, <2>4, <2>5, <2>6, <2>7, <2>8, Entered
<1>11. CASE room.beat = "social"
  <2>1. ~mech.attempted /\ EnterSocial
    BY <1>1, <1>11 DEF Sound, EnterCurrentBeat
  <2>2. CASE ~mech.social
    <3> DEFINE m == [mech EXCEPT !.social = TRUE, !.last = None]
    <3>1. Workflow(m, enter, after) /\ mech' = m /\ room' = room
      BY <2>1, <2>2 DEF EnterSocial, Workflow, after, enter
    <3>2. /\ mech' \in Campaigns
          /\ mech'.party = mech.party /\ mech'.supply = mech.supply
          /\ mech'.attempted = mech.attempted /\ mech'.last = None
          /\ mech'.ritual = mech.ritual /\ mech'.fight = mech.fight /\ mech'.die = mech.die
          /\ mech'.spark = mech.spark /\ mech'.checks = mech.checks
          /\ mech'.challenge = mech.challenge
      BY <1>1, <3>1 DEF Campaigns
    <3> HIDE DEF m
    <3>3. Campaigning'
      BY <3>2 DEF IInv, TypeOK, Campaigning
    <3>4. Story'
      BY <1>11, <3>1, <3>2 DEF IInv, Story, Warranted, OnceEntered, DiceOfTheStory, Fighting
    <3>5. Sound(enter)'
      BY <1>2, <1>11, <2>1, <3>1, <3>2 DEF Sound
    <3>6. QED
      BY <1>5, <3>1, <3>2, <3>3, <3>4, <3>5
  <2>3. CASE mech.social
    <3>1. PICK d \in Degrees :
            Workflow([mech EXCEPT !.attempted = TRUE,
                        !.last = IF d \in Poor THEN None ELSE "stance"],
                     After("choose_guided_option", d), After("choose_guided_option", d))
      BY <2>1, <2>3 DEF EnterSocial
    <3> DEFINE m == [mech EXCEPT !.attempted = TRUE,
                       !.last = IF d \in Poor THEN None ELSE "stance"]
               told == After("choose_guided_option", d)
    <3>2. Workflow(m, told, told) /\ mech' = m /\ room' = room
      BY <3>1 DEF Workflow
    <3>3. /\ mech' \in Campaigns
          /\ mech'.party = mech.party /\ mech'.supply = mech.supply
          /\ mech'.attempted /\ mech'.last \in {None, "stance"}
          /\ mech'.ritual = mech.ritual /\ mech'.fight = mech.fight /\ mech'.die = mech.die
          /\ mech'.spark = mech.spark /\ mech'.checks = mech.checks
          /\ mech'.challenge = mech.challenge
      BY <1>1, <3>2 DEF Campaigns, Undoable
    <3> HIDE DEF m
    <3>4. Campaigning'
      BY <3>3 DEF IInv, TypeOK, Campaigning
    <3>5. Story'
      BY <1>11, <3>2, <3>3 DEF IInv, Story, Warranted, OnceEntered, DiceOfTheStory, Fighting
    <3>6. /\ told.at = "after" /\ told.intent = "choose_guided_option" /\ told.degree = d
          /\ told # None /\ told \in FollowUps /\ told \in Threads \ Advances
      BY <1>3, AfterIs DEF Threads, FollowUps, Advances
    <3> HIDE DEF told
    <3>7. Sound(told)'
      BY <1>11, <3>2, <3>6 DEF Sound
    <3>8. QED
      BY <1>1, <1>3, <3>2, <3>3, <3>4, <3>5, <3>6, <3>7, Entered DEF told
  <2>4. QED
    BY <2>2, <2>3
<1>12. CASE room.beat = "ritual"
  <2>1. EnterRitual /\ mech.ritual \in {None, "preparing"} /\ mech.supply \in 0 .. PartySize
    BY <1>1, <1>12 DEF Sound, EnterCurrentBeat, Campaigns, Rites
  <2>2. ~disturbed => mech.supply >= 1 /\ mech.party >= Operators
    <3>1. mech.party > 0
      BY <1>1, <1>6, <1>12 DEF Campaigns
    <3>2. ~disturbed => mech.supply >= 1 /\ mech.party = PartySize
      BY <1>1, <2>1, <3>1 DEF IInv, Undisturbed, Provisioned
    <3>3. QED
      BY <3>2
  <2>3. CASE mech.ritual = None /\ mech.supply >= 1 /\ mech.party >= Operators
    <3> DEFINE m == [mech EXCEPT !.ritual = "preparing", !.last = None]
    <3>1. Workflow(m, enter, after) /\ mech' = m /\ room' = room
      BY <2>1, <2>3 DEF EnterRitual, Workflow, after, enter
    <3>2. /\ mech' \in Campaigns
          /\ mech'.party = mech.party /\ mech'.supply = mech.supply
          /\ mech'.attempted = mech.attempted /\ mech'.last = None
          /\ mech'.ritual = "preparing" /\ mech'.fight = mech.fight /\ mech'.die = mech.die
          /\ mech'.spark = mech.spark /\ mech'.checks = mech.checks
          /\ mech'.challenge = mech.challenge
      BY <1>1, <3>1 DEF Campaigns, Rites
    <3> HIDE DEF m
    <3>3. Campaigning'
      BY <3>2 DEF IInv, TypeOK, Campaigning
    <3>4. Story'
      BY <1>12, <3>1, <3>2 DEF IInv, Story, Warranted, OnceEntered, DiceOfTheStory, Fighting
    <3>5. Sound(enter)'
      BY <1>2, <1>12, <3>1, <3>2 DEF Sound
    <3>6. QED
      BY <1>5, <2>3, <3>1, <3>2, <3>3, <3>4, <3>5
  <2>4. CASE mech.ritual = "preparing" /\ mech.supply >= 1
    <3> DEFINE left == mech.supply - 1
               m == [mech EXCEPT !.ritual = "ready", !.supply = left, !.last = None]
    <3>1. Workflow(m, None, after) /\ mech' = m /\ room' = room
      BY <1>1, <2>1, <2>4 DEF EnterRitual, Workflow, after, Campaigns
    <3>2. left \in 0 .. PartySize
      BY <2>1, <2>4
    <3> HIDE DEF left
    <3>3. /\ mech' \in Campaigns
          /\ mech'.party = mech.party
          /\ mech'.attempted = mech.attempted /\ mech'.last = None
          /\ mech'.ritual = "ready" /\ mech'.fight = mech.fight /\ mech'.die = mech.die
          /\ mech'.spark = mech.spark /\ mech'.checks = mech.checks
          /\ mech'.challenge = mech.challenge
      BY <1>1, <3>1, <3>2 DEF Campaigns, Rites
    <3> HIDE DEF m
    <3>4. Campaigning'
      BY <3>3 DEF IInv, TypeOK, Campaigning
    <3>5. Story'
      BY <1>12, <3>1, <3>3 DEF IInv, Story, Warranted, OnceEntered, DiceOfTheStory, Fighting
    <3>6. Playable'
      BY <1>12, <3>1, <3>3 DEF Playable, MayGoOn
    <3>7. QED
      BY <1>1, <1>3, <1>4, <2>4, <3>1, <3>3, <3>4, <3>5, <3>6, Entered DEF after
  <2>5. CASE \/ mech.ritual = None /\ ~(mech.supply >= 1 /\ mech.party >= Operators)
             \/ mech.ritual = "preparing" /\ ~(mech.supply >= 1)
    <3>1. Goto(None)
      BY <2>1, <2>5 DEF EnterRitual
    <3>2. QED
      BY <1>1, <2>2, <2>5, <3>1, Ended
  <2>6. QED
    BY <2>1, <2>3, <2>4, <2>5
<1>13. CASE room.beat \notin {"cost_merge", "challenge", "social", "ritual", "combat", "physical"}
  <2>1. Goto(None)
    BY <1>13 DEF EnterCurrentBeat
  <2>2. room.beat \in {"opening", "spark"} \cup Endings
    BY <1>1, <1>13, BeatsAre
  <2>3. room.beat = "spark" /\ room.status # "lobby" => mech.party > 0
    BY <1>1 DEF IInv, TypeOK, Story, Endings
  <2>4. Playable
    BY <2>2, <2>3 DEF Playable, MayGoOn, Endings
  <2>5. QED
    BY <1>1, <2>1, <2>4, Ended
<1>14. QED
  BY <1>7, <1>8, <1>9, <1>10, <1>11, <1>12, <1>13

\* Where an advance that is not stale leads, and from where.
LEMMA LeadsOn ==
  ASSUME IInv, NEW CONSTANT t, t \in Advances, Leads(t), t.fresh
  PROVE  /\ Warranted(t.to)
         /\ \/ room.beat = "opening" /\ t.to = "spark"
            \/ room.beat = "spark" /\ t.to = "challenge"
            \/ room.beat = "challenge" /\ t.to \in {"cost_merge", "social"}
            \/ room.beat = "cost_merge" /\ t.to = "social"
            \/ room.beat = "social" /\ t.to = "ritual"
            \/ room.beat = "ritual" /\ t.to = "combat"
            \/ room.beat = "combat" /\ t.to \in {"physical", "retreat", "lost"}
            \/ room.beat = "physical" /\ t.to \in {"costly", "clean"}
<1>1. PICK mv \in Moves : mv[1] = room.beat /\ Landing(mv[3]) = t.to
  BY DEF Leads
<1>2. <<mv[1], mv[2], mv[3]>> \in Moves
  <2>1. mv = <<mv[1], mv[2], mv[3]>>
    BY DEF Moves
  <2>2. QED
    BY <2>1
<1>3. room.beat # "clue"
  BY DEF IInv, TypeOK
<1>4. QED
  BY <1>1, <1>2, <1>3, MoveTable DEF Landing, Leads

LEMMA NarratedInvariant ==
  ASSUME IInv, NEW CONSTANT t, Narrated(t),
         t \in waiting \/ (host.thread = t /\ t # None /\ t.at = "narrate")
  PROVE  IInv'
<1> USE NoneApart
<1>1. t \in Advances /\ Leads(t)
  <2>1. CASE t \in waiting
    BY <2>1 DEF IInv, TypeOK, Handlers
  <2>2. CASE host.thread = t /\ t # None /\ t.at = "narrate"
    BY <2>2 DEF IInv, TypeOK, Handlers, Threads, FollowUps
  <2>3. QED
    BY <2>1, <2>2
<1>2. /\ waiting' \subseteq Advances /\ \A u \in waiting' : ~u.fresh
      /\ waiting' # {} => waiting # {}
  <2>1. waiting \subseteq Advances
    BY DEF IInv, TypeOK
  <2>2. \A u \in waiting : /\ [u EXCEPT !.fresh = FALSE] \in Advances
                            /\ ~[u EXCEPT !.fresh = FALSE].fresh
    BY <2>1 DEF Advances
  <2>3. CASE waiting' = Staled
    BY <2>1, <2>3, StaledAdvances
  <2>4. CASE waiting' = {[u EXCEPT !.fresh = FALSE] : u \in waiting \ {t}}
    BY <2>2, <2>4
  <2>5. QED
    BY <2>3, <2>4 DEF Narrated
<1>3. /\ host.up /\ host.recover = None /\ UNCHANGED <<provider, mech>>
      /\ host.thread = None \/ host.thread.at # "start"
  <2>1. host.thread \in {None, t} /\ t.at = "narrate"
    BY <1>1 DEF Narrated, Advances
  <2>2. QED
    BY <2>1 DEF Narrated, IInv, Handlers
<1>4. CASE ~t.fresh
  <2>1. host' = [host EXCEPT !.thread = None] /\ disturbed' = TRUE /\ UNCHANGED room
    BY <1>4 DEF Narrated, MayCommit
  <2>2. host'.thread = None /\ host'.up /\ host'.recover = None
    BY <1>3, <2>1 DEF IInv, TypeOK
  <2>3. TypeOK'
    BY <1>2, <1>3, <2>1 DEF IInv, TypeOK
  <2>4. Story'
    BY <1>3, <2>1 DEF IInv, Story, Warranted, OnceEntered, DiceOfTheStory
  <2>5. Handlers'
    BY <1>2, <2>2 DEF Handlers, Sound, Leads
  <2>6. Undisturbed'
    BY <2>1 DEF Undisturbed
  <2>7. QED
    BY <2>3, <2>4, <2>5, <2>6 DEF IInv
<1>5. CASE t.fresh
  <2> DEFINE enter == [at |-> "enter"]
  <2>1. room' = Moved(t.to) /\ host' = [host EXCEPT !.thread = enter] /\ UNCHANGED disturbed
    BY <1>5 DEF Narrated, MayCommit
  <2>2. enter \in Threads /\ enter.at = "enter" /\ enter # None
    BY DEF Threads
  <2> HIDE DEF enter
  <2>3. host'.thread = enter /\ host'.up /\ host'.recover = None
    BY <1>3, <2>1 DEF IInv, TypeOK
  <2>4. /\ Warranted(t.to)
        /\ \/ room.beat = "opening" /\ t.to = "spark"
           \/ room.beat = "spark" /\ t.to = "challenge"
           \/ room.beat = "challenge" /\ t.to \in {"cost_merge", "social"}
           \/ room.beat = "cost_merge" /\ t.to = "social"
           \/ room.beat = "social" /\ t.to = "ritual"
           \/ room.beat = "ritual" /\ t.to = "combat"
           \/ room.beat = "combat" /\ t.to \in {"physical", "retreat", "lost"}
           \/ room.beat = "physical" /\ t.to \in {"costly", "clean"}
    BY <1>1, <1>5, LeadsOn
  <2>5. /\ room'.beat = t.to /\ t.to \in Beats \ {"clue"}
        /\ room'.status = IF t.to \in Endings THEN "completed" ELSE room.status
        /\ room.status # "completed"
        /\ room' \in [beat : Beats \ {"clue"}, status : {"lobby", "active", "completed"}]
    BY <1>1, <2>1, <2>4 DEF Moved, IInv, TypeOK, Advances, Endings
  <2>6. TypeOK'
    BY <1>2, <1>3, <2>1, <2>2, <2>5 DEF IInv, TypeOK
  <2>7. Warranted(t.to)' /\ (room'.status = "active" => mech'.party = PartySize)
    BY <1>3, <2>4, <2>5 DEF Warranted, IInv, Story
  <2>8. OnceEntered'
    BY <1>3, <2>4, <2>5 DEF OnceEntered, Warranted, Fighting, Endings, IInv, Story
  <2>9. DiceOfTheStory' /\ (t.to = "physical" => mech.checks = {})
    BY <1>3, <2>4, <2>5 DEF DiceOfTheStory, OnceEntered, Warranted, Endings, IInv, Story
  <2>10. Story'
    BY <2>5, <2>7, <2>8, <2>9 DEF Story
  <2>11. Sound(enter)'
    BY <1>3, <2>2, <2>4, <2>5, <2>9 DEF Sound, OnceEntered, Endings, IInv, Story
  <2>12. Handlers'
    <3>1. Sound(host.thread)' /\ Sound(host.recover)'
      BY <2>3, <2>11 DEF Sound
    <3>2. QED
      BY <1>2, <2>2, <2>3, <3>1 DEF Handlers, Leads
  <2>13. Undisturbed'
    BY <1>3, <2>1, <2>2, <2>3, <2>5 DEF IInv, Undisturbed, Provisioned, GoesOn
  <2>14. QED
    BY <2>6, <2>10, <2>12, <2>13 DEF IInv
<1>6. QED
  BY <1>1, <1>4, <1>5 DEF Advances

LEMMA ResumeInvariant == IInv /\ Resume => IInv'
<1> SUFFICES ASSUME IInv, Resume PROVE IInv'
  OBVIOUS
<1> USE NoneApart
<1>1. /\ host' = [up |-> TRUE, thread |-> host.recover, recover |-> None] /\ ~host.up
      /\ UNCHANGED <<provider, room, mech, waiting, disturbed>>
  BY DEF Resume
<1>2. host.recover \in FollowUps \cup {None} /\ disturbed
  BY <1>1 DEF IInv, TypeOK, Undisturbed
<1>3. host.recover # None => host.recover.at = "after"
  BY <1>2 DEF FollowUps
<1>4. TypeOK'
  BY <1>1, <1>2 DEF IInv, TypeOK, Threads
<1>5. Story'
  BY <1>1 DEF IInv, Story, Warranted, OnceEntered, DiceOfTheStory
<1>6. Handlers'
  <2>1. Sound(host.recover)' /\ \A u \in waiting' : Leads(u)'
    BY <1>1 DEF IInv, Handlers, Sound, Leads, Warranted
  <2>2. Sound(host.thread)'
    BY <1>1, <1>3 DEF IInv, Handlers, Sound
  <2>3. QED
    BY <1>1, <1>3, <2>1, <2>2 DEF Handlers, Sound
<1>7. Undisturbed'
  BY <1>1, <1>2 DEF Undisturbed
<1>8. QED
  BY <1>4, <1>5, <1>6, <1>7 DEF IInv

LEMMA CrashInvariant == IInv /\ Crash => IInv'
<1> SUFFICES ASSUME IInv, Crash PROVE IInv'
  OBVIOUS
<1>1. /\ host' = [up |-> FALSE, thread |-> None, recover |-> None]
      /\ waiting' = {} /\ disturbed' = TRUE /\ UNCHANGED <<provider, room, mech>>
  BY DEF Crash
<1>2. TypeOK'
  BY <1>1 DEF IInv, TypeOK
<1>3. Story'
  BY <1>1 DEF IInv, Story, Warranted, OnceEntered, DiceOfTheStory
<1>4. Handlers'
  BY <1>1 DEF Handlers, Sound
<1>5. Undisturbed'
  BY <1>1 DEF Undisturbed
<1>6. QED
  BY <1>2, <1>3, <1>4, <1>5 DEF IInv

-----------------------------------------------------------------------------
(* The theorems *)

LEMMA NextInvariant == IInv /\ [Next]_vars => IInv'
<1> SUFFICES ASSUME IInv, [Next]_vars PROVE IInv'
  OBVIOUS
<1>1. CASE Players
  BY <1>1, RecordPartyChoiceInvariant, StartRunInvariant, ChooseSparkInvariant,
     ChooseGuidedOptionInvariant, SubmitDieInvariant, ClaimActivationInvariant, FightInvariant,
     SubmitFightDieInvariant, ResolveReactionInvariant, WithdrawCombatInvariant,
     ConfirmCorrectionInvariant, RoomCommandInvariant DEF Players
<1>2. CASE HostNext
  <2>1. CASE Thread("narrate") /\ Narrated(host.thread)
    <3>1. PICK t : t = host.thread
      OBVIOUS
    <3>2. Narrated(t) /\ host.thread = t /\ t # None /\ t.at = "narrate"
      BY <2>1, <3>1 DEF Thread
    <3>3. QED
      BY <3>2, NarratedInvariant
  <2>2. CASE \E t \in waiting : Narrated(t)
    BY <2>2, NarratedInvariant
  <2>3. QED
    BY <1>2, <2>1, <2>2, StartingInvariant, AfterMechanicalCommitInvariant,
       RunEnemyFallbacksInvariant, OpenReactionAfterEnemyActionInvariant,
       EnterCurrentBeatInvariant, ResumeInvariant DEF HostNext
<1>3. CASE Crash
  BY <1>3, CrashInvariant
<1>4. CASE UNCHANGED vars
  <2>1. UNCHANGED <<provider, room, mech, host, waiting, disturbed>>
    BY <1>4 DEF vars
  <2>2. TypeOK' /\ Story'
    BY <2>1 DEF IInv, TypeOK, Story, Warranted, OnceEntered, DiceOfTheStory
  <2>3. Handlers'
    BY <2>1 DEF IInv, Handlers, Sound, Leads, Warranted
  <2>4. Undisturbed'
    BY <2>1 DEF IInv, Undisturbed, Provisioned, GoesOn, Playable, MayGoOn, Unplayed, ChallengeOpen,
       Fighting
  <2>5. QED
    BY <2>2, <2>3, <2>4 DEF IInv
<1>5. QED
  BY <1>1, <1>2, <1>3, <1>4 DEF Next

LEMMA Invariance == Spec => []IInv
<1>1. QED
  BY InitInvariant, NextInvariant, PTL DEF Spec

\* The room, the campaign and the process keep their shapes: only materialized
\* heroes hold a Spark or roll (#startRun), a conclusion completes the room
\* (advanceGuidedBeat), and only a deferred narration leaves an advance waiting.
THEOREM Typed == Spec => []TypeOK
<1>1. IInv => TypeOK
  BY DEF IInv
<1>2. QED
  BY <1>1, Invariance, PTL

\* The conclusion that the room shows is the one that the rules engine decided,
\* however commits, deferred narrations, corrections and crashes interleave
\* (#afterMechanicalCommit).
THEOREM Decided == Spec => []ConclusionDecided
<1>1. IInv => ConclusionDecided
  BY DEF IInv, Story, Warranted, ConclusionDecided
<1>2. QED
  BY <1>1, Invariance, PTL

\* Unless a step was lost, or the engine waits for an enemy that the host does
\* not play (Unplayed: a reinforcement readied again without slots, or a turn
\* that the heroes' dead left over), the table can go on whenever the host has
\* nothing left to do: #enterCurrentBeat, #runEnemyFallbacks and
\* #openReactionAfterEnemyAction leave every other state playable, for every
\* party that can hold the ritual.
THEOREM Unstranded == Spec => []NeverStranded
<1>1. IInv => NeverStranded
  BY DEF IInv, Undisturbed, GoesOn, Playable, NeverStranded, AtRest, Idle
<1>2. QED
  BY <1>1, Invariance, PTL

\* The story moves along declared transitions only, although GuidedRunner.advance
\* reads the beat before it waits for the narration: an advance that is still
\* allowed to commit finds the beat that it started from.
THEOREM Forward == Spec => StoryForward
<1> DEFINE Declaredly == room'.beat # room.beat =>
             \E mv \in Moves : mv[1] = room.beat /\ Landing(mv[3]) = room'.beat
<1>1. ASSUME IInv, NEW CONSTANT t, Narrated(t),
             t \in waiting \/ (host.thread = t /\ t # None /\ t.at = "narrate")
      PROVE  Declaredly
  <2>1. Leads(t)
    BY <1>1 DEF IInv, Handlers
  <2>2. CASE t.fresh
    <3>1. room'.beat = t.to
      BY <1>1, <2>2 DEF Narrated, MayCommit, Moved, IInv, TypeOK
    <3>2. QED
      BY <2>1, <2>2, <3>1 DEF Leads
  <2>3. CASE ~t.fresh
    BY <1>1, <2>3 DEF Narrated, MayCommit
  <2>4. QED
    BY <2>2, <2>3
<1>2. IInv /\ [Next]_vars => [Declaredly]_vars
  <2> SUFFICES ASSUME IInv, [Next]_vars PROVE Declaredly
    OBVIOUS
  <2>1. CASE Thread("narrate") /\ Narrated(host.thread)
    <3>1. PICK t : t = host.thread
      OBVIOUS
    <3>2. Narrated(t) /\ host.thread = t /\ t # None /\ t.at = "narrate"
      BY <2>1, <3>1 DEF Thread
    <3> HIDE DEF Declaredly
    <3>3. QED
      BY <1>1, <3>2
  <2>2. CASE \E t \in waiting : Narrated(t)
    <3> HIDE DEF Declaredly
    <3>1. QED
      BY <1>1, <2>2
  <2>3. CASE Starting
    BY <2>3 DEF Starting, Workflow, IInv, TypeOK
  <2>4. CASE Players
    BY <2>4 DEF Players, RecordPartyChoice, Narrate, Goto, StartRun, ChooseSpark,
       ChooseGuidedOption, SubmitDie, ClaimActivation, Fight, SubmitFightDie, ResolveReaction,
       WithdrawCombat, ConfirmCorrection, RoomCommand, Play, Workflow
  <2>5. CASE AfterMechanicalCommit
    BY <2>5 DEF AfterMechanicalCommit, Narrate, Goto
  <2>6. CASE RunEnemyFallbacks \/ OpenReactionAfterEnemyAction
    BY <2>6 DEF RunEnemyFallbacks, OpenReactionAfterEnemyAction, EnemyPlays, Goto, Workflow
  <2>7. CASE EnterCurrentBeat
    BY <2>7 DEF EnterCurrentBeat, EnterSocial, EnterRitual, EnterPhysical, Narrate, Goto, Workflow
  <2>8. CASE Resume \/ Crash \/ UNCHANGED vars
    BY <2>8 DEF Resume, Crash, vars
  <2>9. QED
    BY <2>1, <2>2, <2>3, <2>4, <2>5, <2>6, <2>7, <2>8 DEF Next, HostNext
<1>3. QED
  BY <1>2, Invariance, PTL DEF Spec, StoryForward

=============================================================================
