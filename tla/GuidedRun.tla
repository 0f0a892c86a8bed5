----------------------------- MODULE GuidedRun ------------------------------
(***************************************************************************)
(* The guided run of a room, as the host conducts it: a beat of the story, *)
(* the mechanics that the rules engine commits for it, and the handlers    *)
(* that carry the one after the other (apps/host/src/room-application.ts   *)
(* and guided/runner.ts).                                                  *)
(*                                                                         *)
(* One handler holds the thread at a time.  Each of its steps commits one  *)
(* workflow or one room transaction.  A handler that advances the story    *)
(* waits for the narration; a provider that answers at once keeps the      *)
(* thread, a deferred one lets other commands in between.  The process may *)
(* die before any step, and inside a workflow, which is then completed by  *)
(* the restart.                                                            *)
(***************************************************************************)
EXTENDS Integers, FiniteSets

CONSTANTS PartySize,       \* claimed heroes
          Operators,       \* heroes that the ritual needs
          Providers,       \* of {"prompt", "deferred"}
          None

Heroes == 1 .. PartySize
Degrees == {"Crisis", "Setback", "Success", "Triumph"}
Poor == {"Crisis", "Setback"}

ASSUME PartyAssumption == PartySize \in Nat /\ Operators \in 1 .. PartySize
ASSUME ProviderAssumption == Providers \subseteq {"prompt", "deferred"}

VARIABLES provider,        \* the narration provider of this process
          room,            \* beat, status and conclusion of the room
          mech,            \* the mechanical campaign
          host,            \* the process: up, its thread, the workflow to recover
          waiting,         \* advances that wait for their narration
          disturbed        \* whether a crash, a correction or a command in between
                           \* cost the story a step (history)

vars == <<provider, room, mech, host, waiting, disturbed>>

-----------------------------------------------------------------------------
(* The story *)

\* The transitions of the Floodgate; the clues are one beat here.
Moves ==
  {<<"opening", "selected_option", "clue">>, <<"clue", "continue", "spark">>,
   <<"spark", "continue", "challenge">>, <<"cost_merge", "continue", "social">>,
   <<"combat", "combat_victory", "physical">>, <<"combat", "withdrawal", "retreat">>,
   <<"combat", "defeat", "lost">>}
  \cup {<<"challenge", d, IF d \in Poor THEN "cost_merge" ELSE "social">> : d \in Degrees}
  \cup {<<"social", d, "ritual">> : d \in Degrees}
  \cup {<<"ritual", d, "combat">> : d \in Degrees}
  \cup {<<"physical", d, IF d \in Poor THEN "costly" ELSE "clean">> : d \in Degrees}

Beats == {mv[1] : mv \in Moves} \cup {mv[3] : mv \in Moves}
Endings == {"clean", "costly", "retreat", "lost"}

Declared(beat, on) == {mv[3] : mv \in {x \in Moves : x[1] = beat /\ x[2] = on}}

\* A private clue is presented on the way to the next public beat.
Landing(beat) == IF beat = "clue" THEN "spark" ELSE beat

-----------------------------------------------------------------------------
(* Commits *)

\* What the rules engine records of the campaign, as far as the story looks at it.
Checks == [roller : Heroes, final : BOOLEAN]
Tracks == [progress : 0 .. 4, danger : 0 .. 3]
Outcomes == {"combat_victory", "withdrawal", "defeat"}
Sides == {"hero", "enemy"}
Rolls == {"strike", "death"}
Fights == [side : Sides, acting : BOOLEAN, ready : SUBSET Sides, drained : BOOLEAN,
           window : BOOLEAN, roll : Rolls \cup {None}, joined : BOOLEAN,
           outcome : Outcomes \cup {None}]
Rites == {"preparing", "ready", "closed"}
Slots == {"hero_slot", "enemy_slot"}
Undoable == {"supply", "spark_roll", "final_roll", "stance"} \cup Slots

Campaigns ==
  [party : 0 .. PartySize, supply : 0 .. PartySize, spark : SUBSET Heroes,
   checks : SUBSET Checks, die : Degrees \cup {None}, challenge : Tracks \cup {None},
   social : BOOLEAN, attempted : BOOLEAN, ritual : Rites \cup {None},
   fight : Fights \cup {None}, last : Undoable \cup {None}]

\* What a handler is about to do.
\* fight_die is the submit_die of a fight's own roll, reaction_timeout the
\* intent under which the host opens a reaction window.
Intents == {"start_run", "choose_spark", "choose_guided_option", "submit_die", "fight_die",
            "commit_legal_action", "reaction_timeout", "resolve_reaction",
            "withdraw_combat", "confirm_correction"}
FollowUps == [at : {"after"}, intent : Intents, degree : Degrees \cup {None}]
Advances == [at : {"narrate"}, to : Beats, fresh : BOOLEAN]
Threads == [at : {"start", "enter", "enemies", "react"}] \cup FollowUps \cup Advances

ASSUME NoneAssumption ==
  None \notin Degrees \cup Outcomes \cup Rites \cup Undoable \cup Rolls
                \cup Tracks \cup Fights \cup Threads

Fighting(m) == m.fight # None /\ m.fight.outcome = None

Idle == host.up /\ host.thread = None

\* Every commit to the room makes the advances that were computed before it stale.
Staled == {[t EXCEPT !.fresh = FALSE] : t \in waiting}

\* What follows the commit of a mechanic that was meant as intent.
After(intent, degree) == [at |-> "after", intent |-> intent, degree |-> degree]

\* A workflow: the mechanic becomes m and the thread goes on with next; or the
\* process dies inside and the restart goes on with recovered.
Workflow(m, next, recovered) ==
  /\ mech' = m /\ UNCHANGED <<provider, room>>
  /\ \/ /\ host' = [host EXCEPT !.thread = next] /\ waiting' = Staled
        /\ UNCHANGED disturbed
     \/ /\ host' = [up |-> FALSE, thread |-> None, recover |-> recovered]
        /\ waiting' = {} /\ disturbed' = TRUE

\* The thread goes on without a commit.  An exception ends it: Goto(None).
Goto(next) == host' = [host EXCEPT !.thread = next] /\ UNCHANGED <<provider, room, mech, waiting, disturbed>>

\* A client mechanic is followed up by its own process and by the restart alike.
Play(m, intent, degree) == Idle /\ Workflow(m, After(intent, degree), After(intent, degree))

-----------------------------------------------------------------------------
(* Advancing the story *)

Advance(to) == [at |-> "narrate", to |-> to, fresh |-> TRUE]

\* The transition and the revision are read now, and committed after the narration.
Narrate(on) ==
  IF Declared(room.beat, on) = {} THEN Goto(None)
  ELSE LET t == Advance(Landing(CHOOSE b \in Declared(room.beat, on) : TRUE))
       IN IF provider = "prompt" THEN Goto(t)
          ELSE /\ host' = [host EXCEPT !.thread = None] /\ waiting' = waiting \cup {t}
               /\ UNCHANGED <<provider, room, mech, disturbed>>

\* Mutant: the ending leaves the run active.
MovedOnly(to) == [room EXCEPT !.beat = to]

Moved(to) == [room EXCEPT !.beat = to, !.status = IF to \in Endings THEN "completed" ELSE @]

\* Mutant: the advance carries the revision of the room it finds.
MayCommitAny(t) == TRUE

MayCommit(t) == t.fresh

\* The narration is there.  An advance that became stale is refused, and
\* the exception ends the handler.
Narrated(t) ==
  /\ host.up
  /\ \/ host.thread = t /\ waiting' = Staled
     \/ host.thread = None /\ t \in waiting
        /\ waiting' = {[u EXCEPT !.fresh = FALSE] : u \in waiting \ {t}}
  /\ IF MayCommit(t)
     THEN /\ room' = Moved(t.to)
          /\ host' = [host EXCEPT !.thread = [at |-> "enter"]]
          /\ UNCHANGED disturbed
     ELSE /\ host' = [host EXCEPT !.thread = None]
          /\ disturbed' = TRUE /\ UNCHANGED room
  /\ UNCHANGED <<provider, mech>>

-----------------------------------------------------------------------------
(* The fight, as its handlers look at it *)

\* Whose side is active, whether an actor of it is, which sides have an actor
\* left for this round, and whether one of them is a reinforcement that was
\* readied again when its slots were spent.
NoFight == [side |-> "hero", acting |-> FALSE, ready |-> Sides, drained |-> FALSE,
            window |-> FALSE, roll |-> None, joined |-> FALSE, outcome |-> None]

\* Nothing of a fight that is over is looked at but its outcome.
Over(outcome) == [NoFight EXCEPT !.outcome = outcome]

\* The engine refuses every other command while the fight awaits its own roll.
FightActive(m) == Fighting(m) /\ m.fight.roll = None
Awaiting(f, roll) == [f EXCEPT !.roll = roll]

Opposite(s) == IF s = "hero" THEN "enemy" ELSE "hero"

\* A side without an actor left yields to the other one; when neither has one,
\* a hero begins a new round.
HeroMayBegin(f) ==
  /\ ~f.acting
  /\ f.ready = {} \/ IF f.side \in f.ready THEN f.side = "hero" ELSE f.side = "enemy"

\* The host looks at the active side only.
EnemyOnTurn(f) == f.side = "enemy" /\ (f.acting \/ "enemy" \in f.ready)

\* A new round closes the window.  The enemies left may all be still to arrive.
Activations(f) ==
  LET begun == [f EXCEPT !.side = "hero", !.acting = TRUE]
  IN IF ~HeroMayBegin(f) THEN {}
     ELSE IF f.ready # {} THEN {begun}
     ELSE {[begun EXCEPT !.ready = r, !.window = FALSE] : r \in {Sides, {"hero"}}}

\* An action spends a slot of the active actor: it goes on, or it was the last
\* of its side or not.
Spendings(f) ==
  LET ended == [f EXCEPT !.acting = FALSE, !.side = Opposite(f.side)]
  IN {f, ended} \cup (IF f.side = "enemy" /\ f.drained THEN {}
                      ELSE {[ended EXCEPT !.ready = @ \ {f.side}]})

\* Progress of the objective readies the reinforcements, whatever their slots.
Called(f) ==
  {f} \cup {[f EXCEPT !.ready = @ \cup {"enemy"}, !.drained = s] : s \in {f.drained, TRUE}}

\* An enemy falls, perhaps the last that had a turn left, or the last of all;
\* the latter not before an enemy has acted: a single activation fells no two.
Felled(f) ==
  {[f EXCEPT !.drained = FALSE], [f EXCEPT !.drained = FALSE, !.ready = @ \ {"enemy"}]}
Won(f) == IF f.joined THEN {Over("combat_victory")} ELSE {}

\* A hero dies, perhaps the last that had a turn left.
Bereft(f) == {[f EXCEPT !.ready = @ \ {"hero"}]}

-----------------------------------------------------------------------------
(* What the players do *)

\* Only the opening has options; neither the status nor the party matters.
RecordPartyChoice == Idle /\ room.beat = "opening" /\ Narrate("selected_option")

\* The heroes are materialized one by one, Supply is provisioned and the run starts.
StartRun ==
  /\ Idle /\ room.status = "lobby"
  /\ Goto([at |-> "start"])

Starting ==
  /\ host.thread = [at |-> "start"]
  /\ IF mech.party < PartySize
     THEN LET h == mech.party + 1
          IN Workflow([mech EXCEPT !.party = h, !.spark = @ \cup {h}, !.last = None],
                      [at |-> "start"], After("start_run", None))
     ELSE IF mech.supply = 0
     THEN Workflow([mech EXCEPT !.supply = PartySize, !.last = "supply"],
                   [at |-> "start"], After("start_run", None))
     ELSE /\ room' = [room EXCEPT !.status = IF @ = "lobby" THEN "active" ELSE @]
          /\ host' = [host EXCEPT !.thread = None] /\ waiting' = Staled
          /\ UNCHANGED <<provider, mech, disturbed>>

Roll(h, final) == [roller |-> h, final |-> final]

\* The optional check is simulated, or rolled at the table for a Spark.  A
\* hero that is not materialized cannot be chosen.
ChooseSpark(h, invoke) ==
  /\ room.beat = "spark" /\ h <= mech.party
  /\ IF invoke
     THEN /\ h \in mech.spark
          /\ Play([mech EXCEPT !.spark = @ \ {h}, !.checks = @ \cup {Roll(h, FALSE)},
                               !.last = "spark_roll"],
                  "choose_spark", None)
     ELSE \E d \in Degrees : Play([mech EXCEPT !.last = None], "choose_spark", d)

ChallengeOpen == mech.challenge # None /\ mech.challenge.progress < 4 /\ mech.challenge.danger < 3
MinOf(a, b) == IF a < b THEN a ELSE b

\* One approach to the challenge, or the resolution of the ritual.
ChooseGuidedOption(h, d) ==
  /\ h <= mech.party
  /\ \/ /\ room.beat = "challenge" /\ ChallengeOpen
        /\ Play([mech EXCEPT
             !.challenge.progress = MinOf(4, @ + (CASE d = "Success" -> 1 [] d = "Triumph" -> 2 [] OTHER -> 0)),
             !.challenge.danger = MinOf(3, @ + (CASE d = "Setback" -> 1 [] d = "Crisis" -> 2 [] OTHER -> 0)),
             !.last = None], "choose_guided_option", d)
     \/ /\ room.beat = "ritual" /\ mech.ritual = "ready"
        /\ Play([mech EXCEPT !.ritual = "closed", !.last = None], "choose_guided_option", d)

\* The die of any pending check, whatever the beat.
SubmitDie(c, d) ==
  /\ c \in mech.checks
  /\ Play([mech EXCEPT !.checks = @ \ {c}, !.die = IF c.final THEN d ELSE @, !.last = None],
          "submit_die", d)

ClaimActivation ==
  /\ FightActive(mech)
  /\ \E f \in Activations(mech.fight) :
       Play([mech EXCEPT !.fight = f, !.last = None], "commit_legal_action", None)

\* Neither an open window nor a pending Spark roll keeps a hero from acting.
Fight ==
  /\ FightActive(mech) /\ mech.fight.acting /\ mech.fight.side = "hero"
  /\ \E f \in Spendings(mech.fight) :
       \/ Play([mech EXCEPT !.fight = f, !.last = "hero_slot"], "commit_legal_action", None)
       \/ Play([mech EXCEPT !.fight = Awaiting(f, "strike"), !.last = "hero_slot"],
               "commit_legal_action", None)
       \/ \E g \in Felled(f) \cup Called(f) \cup Won(f) :
            Play([mech EXCEPT !.fight = g, !.last = None], "commit_legal_action", None)

\* The die of a strike at a boss, or of a test of death.
SubmitFightDie ==
  /\ Fighting(mech) /\ mech.fight.roll # None
  /\ LET f == Awaiting(mech.fight, None)
     IN \E g \in IF mech.fight.roll = "strike" THEN {f} \cup Felled(f) \cup Won(f)
                 ELSE {f} \cup Bereft(f) \cup {Over("defeat")} :
          Play([mech EXCEPT !.fight = g, !.last = None], "fight_die", None)

\* An answer, or the expiry of the countdown; the window is its whole queue.
ResolveReaction ==
  /\ FightActive(mech) /\ mech.fight.window
  /\ Play([mech EXCEPT !.fight.window = FALSE, !.last = None], "resolve_reaction", None)

WithdrawCombat ==
  /\ FightActive(mech) /\ ~mech.fight.window
  /\ Play([mech EXCEPT !.fight = Over("withdrawal"), !.last = None], "withdraw_combat", None)

\* The slot that an actor of side s spent last is its own again.
Restored(f, s) == [Awaiting(f, None) EXCEPT !.side = s, !.acting = TRUE, !.ready = @ \cup {s}]

\* A correction that the player-host confirms undoes the last mechanic, if
\* the engine can: the Supply of the party, the stance that the social check
\* moved, a die that was not rolled yet, a slot spent without further effect.
Uncommitted(m) ==
  CASE m.last = "supply" -> [m EXCEPT !.supply = 0]
    [] m.last = "spark_roll" ->
         LET c == CHOOSE c \in m.checks : ~c.final
         IN [m EXCEPT !.checks = @ \ {c}, !.spark = @ \cup {c.roller}]
    [] m.last = "final_roll" -> [m EXCEPT !.checks = {}]
    [] m.last = "hero_slot" -> [m EXCEPT !.fight = Restored(@, "hero")]
    [] m.last = "enemy_slot" -> [m EXCEPT !.fight = Restored(@, "enemy")]
    [] OTHER -> m

\* What the host did when it entered a beat, or started the run, is not done
\* again when it is taken back.
NotRepeated == {"supply", "final_roll"}

ConfirmCorrection ==
  /\ Idle /\ mech.last # None
  /\ mech' = [Uncommitted(mech) EXCEPT !.last = None]
  /\ host' = [host EXCEPT !.thread = After("confirm_correction", None)]
  /\ waiting' = Staled
  /\ disturbed' = (disturbed \/ waiting # {} \/ mech.last \in NotRepeated)
  /\ UNCHANGED <<provider, room>>

\* A join, a claim, a suspension: any command that touches only the room.
RoomCommand == Idle /\ waiting # {} /\ waiting' = Staled /\ UNCHANGED <<provider, room, mech, host, disturbed>>

-----------------------------------------------------------------------------
(* What the host does next *)

\* Mutant: the enemies go on although a die is to be rolled.
EnemiesNeverWait == FightActive(mech) /\ ~mech.fight.window /\ EnemyOnTurn(mech.fight)

\* The host plays an enemy only when the enemies' side is active and has one left.
EnemiesMayAct ==
  FightActive(mech) /\ ~mech.fight.window /\ mech.checks = {} /\ EnemyOnTurn(mech.fight)

Thread(at) == host.up /\ host.thread # None /\ host.thread.at = at

\* The follow-up of a committed mechanic.
AfterMechanicalCommit ==
  /\ Thread("after")
  /\ LET intent == host.thread.intent
         degree == host.thread.degree
     IN CASE intent = "choose_spark" -> IF degree = None THEN Goto(None) ELSE Narrate("continue")
          [] intent = "choose_guided_option" -> IF degree = None THEN Goto(None) ELSE Narrate(degree)
          [] intent = "withdraw_combat" -> Narrate(mech.fight.outcome)
          [] intent = "resolve_reaction" -> Goto([at |-> "enemies"])
          [] intent = "submit_die" /\ room.beat = "spark" -> Narrate("continue")
          [] intent = "submit_die" /\ room.beat = "physical" -> Narrate(degree)
          [] OTHER -> IF room.beat # "combat" THEN Goto(None)
                      ELSE IF intent \in {"commit_legal_action", "fight_die"}
                             /\ mech.fight.outcome # None
                      THEN Narrate(mech.fight.outcome)
                      ELSE Goto([at |-> "enemies"])

\* What an enemy's action does to the fight, and the thread that follows it.
EnemyPlays(f, last, next) ==
  Workflow([mech EXCEPT !.fight = f, !.last = last], next, After("commit_legal_action", None))

\* One selection or execution of an enemy.  The selection of an enemy without
\* slots is refused, and the exception ends the handler.
RunEnemyFallbacks ==
  /\ Thread("enemies")
  /\ LET fight == mech.fight
         again == [at |-> "enemies"]
     IN \/ ~EnemiesMayAct /\ Goto(None)
        \/ EnemiesMayAct /\ ~fight.acting /\ fight.drained /\ Goto(None)
        \/ /\ EnemiesMayAct /\ ~fight.acting
           /\ EnemyPlays([fight EXCEPT !.acting = TRUE, !.joined = TRUE], None, again)
        \/ /\ EnemiesMayAct /\ fight.acting
           /\ \E f \in Spendings(fight) :
                \/ EnemyPlays(f, "enemy_slot", again)
                \/ \E g \in Called(f) : EnemyPlays(g, None, again)
                \/ EnemyPlays(f, "enemy_slot", [at |-> "react"])
                \/ EnemyPlays(f, None, [at |-> "react"])
                \/ EnemyPlays(Awaiting(f, "death"), None, [at |-> "react"])

\* The reaction to an attack on a hero; none to one that asks for a test of death.
OpenReactionAfterEnemyAction ==
  /\ Thread("react")
  /\ IF FightActive(mech) /\ ~mech.fight.window
     THEN Workflow([mech EXCEPT !.fight.window = TRUE, !.last = None], None,
                   After("reaction_timeout", None))
     ELSE Goto([at |-> "enemies"])

\* Mutant: the ritual is started without its first contribution.
RitualLeftOpen ==
  IF mech.ritual = None
  THEN IF mech.supply >= 1 /\ mech.party >= Operators
       THEN Workflow([mech EXCEPT !.ritual = "preparing", !.last = None], None,
                     After("choose_guided_option", None))
       ELSE Goto(None)
  ELSE Goto(None)

\* The ritual is started, then somebody pays its Supply; a rejection by the
\* engine is an exception.
EnterRitual ==
  CASE mech.ritual = None ->
         IF mech.supply >= 1 /\ mech.party >= Operators
         THEN Workflow([mech EXCEPT !.ritual = "preparing", !.last = None], [at |-> "enter"],
                       After("choose_guided_option", None))
         ELSE Goto(None)
    [] mech.ritual = "preparing" ->
         IF mech.supply >= 1
         THEN Workflow([mech EXCEPT !.ritual = "ready", !.supply = @ - 1, !.last = None], None,
                       After("choose_guided_option", None))
         ELSE Goto(None)
    [] OTHER -> Goto(None)

\* The warden is established once; the identity of the attempt is fixed, so
\* a second attempt is refused.
EnterSocial ==
  IF ~mech.social
  THEN Workflow([mech EXCEPT !.social = TRUE, !.last = None], [at |-> "enter"],
                After("choose_guided_option", None))
  ELSE IF mech.attempted THEN Goto(None)
  ELSE \E d \in Degrees :
         Workflow([mech EXCEPT !.attempted = TRUE,
                     !.last = IF d \in Poor THEN None ELSE "stance"],
                  After("choose_guided_option", d), After("choose_guided_option", d))

EnterPhysical ==
  IF mech.checks # {} THEN Goto(None)
  ELSE Workflow([mech EXCEPT !.checks = {Roll(1, TRUE)},
                             !.last = "final_roll"],
                None, After("choose_spark", None))

EnterCurrentBeat ==
  /\ Thread("enter")
  /\ CASE room.beat = "cost_merge" -> Narrate("continue")
       [] room.beat = "challenge" ->
            IF mech.challenge # None THEN Goto(None)
            ELSE Workflow([mech EXCEPT !.challenge = [progress |-> 0, danger |-> 0], !.last = None],
                          None, After("choose_guided_option", None))
       [] room.beat = "social" -> EnterSocial
       [] room.beat = "ritual" -> EnterRitual
       [] room.beat = "combat" ->
            IF mech.fight # None THEN Goto(None)
            ELSE Workflow([mech EXCEPT !.fight = NoFight, !.last = None], None,
                          After("choose_guided_option", None))
       [] room.beat = "physical" -> EnterPhysical
       [] OTHER -> Goto(None)

-----------------------------------------------------------------------------
(* Crash and restart *)

\* Between two steps nothing is left of what the handler was about to do.
Crash ==
  /\ host.up /\ (host.thread # None \/ waiting # {})
  /\ host' = [up |-> FALSE, thread |-> None, recover |-> None]
  /\ waiting' = {} /\ disturbed' = TRUE
  /\ UNCHANGED <<provider, room, mech>>

\* The pending workflow is completed and followed up.
Resume ==
  /\ ~host.up
  /\ host' = [up |-> TRUE, thread |-> host.recover, recover |-> None]
  /\ UNCHANGED <<provider, room, mech, waiting, disturbed>>

-----------------------------------------------------------------------------
Init ==
  /\ provider \in Providers
  /\ room = [beat |-> "opening", status |-> "lobby"]
  /\ mech = [party |-> 0, supply |-> 0, spark |-> {}, checks |-> {}, die |-> None,
             challenge |-> None, social |-> FALSE, attempted |-> FALSE, ritual |-> None,
             fight |-> None, last |-> None]
  /\ host = [up |-> TRUE, thread |-> None, recover |-> None]
  /\ waiting = {} /\ disturbed = FALSE

\* A completed room takes no command.
Players ==
  /\ room.status # "completed"
  /\ \/ RecordPartyChoice
     \/ StartRun
     \/ \E h \in Heroes, invoke \in BOOLEAN : ChooseSpark(h, invoke)
     \/ \E h \in Heroes, d \in Degrees : ChooseGuidedOption(h, d)
     \/ \E c \in mech.checks, d \in Degrees : SubmitDie(c, d)
     \/ ClaimActivation \/ Fight \/ SubmitFightDie \/ ResolveReaction \/ WithdrawCombat
     \/ ConfirmCorrection
     \/ RoomCommand

HostNext ==
  \/ Starting
  \/ AfterMechanicalCommit \/ RunEnemyFallbacks \/ OpenReactionAfterEnemyAction
  \/ EnterCurrentBeat
  \/ Thread("narrate") /\ Narrated(host.thread)
  \/ \E t \in waiting : Narrated(t)
  \/ Resume

Next == Players \/ HostNext \/ Crash

Spec == Init /\ [][Next]_vars

-----------------------------------------------------------------------------
(* Properties *)

\* The room, the campaign and the process keep their shapes, only materialized
\* heroes hold a Spark or roll, and only a deferred narration leaves an advance
\* waiting.
TypeOK ==
  /\ room \in [beat : Beats \ {"clue"}, status : {"lobby", "active", "completed"}]
  /\ room.status = "completed" <=> room.beat \in Endings
  /\ mech \in Campaigns
  /\ mech.spark \subseteq 1 .. mech.party
  /\ \A c \in mech.checks : c.roller <= mech.party
  /\ host \in [up : BOOLEAN, thread : Threads \cup {None}, recover : FollowUps \cup {None}]
  /\ waiting \subseteq Advances /\ (waiting # {} => provider = "deferred")
  /\ provider \in Providers /\ disturbed \in BOOLEAN

\* The story moves along declared transitions only, whoever advances it and
\* whatever was committed while an advance waited for its narration
\* (GuidedRunner.advance reads the beat before it waits).
StoryForward ==
  [][room'.beat # room.beat =>
       \E mv \in Moves : mv[1] = room.beat /\ Landing(mv[3]) = room'.beat]_vars

\* The conclusion is the one that the rules decided: after a won fight the
\* final check and no other die, otherwise the outcome of the fight
\* (#afterMechanicalCommit takes the die of any pending check).
ConclusionDecided ==
  /\ room.beat = "clean" => mech.die # None /\ mech.die \notin Poor
  /\ room.beat = "costly" => mech.die \in Poor
  /\ room.beat \in {"clean", "costly"} => mech.fight.outcome = "combat_victory"
  /\ room.beat = "retreat" => mech.fight.outcome = "withdrawal"
  /\ room.beat = "lost" => mech.fight.outcome = "defeat"

\* A player can go on: something at the beat is accepted that moves the
\* story or the fight.
MayGoOn ==
  CASE room.beat = "opening" -> TRUE
    [] room.beat = "spark" -> mech.party > 0 \/ room.status = "lobby"
    [] room.beat = "challenge" -> ChallengeOpen
    [] room.beat = "ritual" -> mech.ritual = "ready"
    [] room.beat = "combat" ->
         /\ Fighting(mech)
         /\ LET f == mech.fight
            IN \/ f.window \/ f.roll # None \/ mech.checks # {}
               \/ HeroMayBegin(f) \/ (f.acting /\ f.side = "hero")
    [] room.beat = "physical" -> mech.checks # {}
    [] OTHER -> room.beat \in Endings

AtRest == Idle /\ waiting = {}

\* The fight waits for an enemy that the host does not play: a reinforcement
\* was readied again without slots, and its selection is refused; or a hero
\* died before its turn, and the heroes' side is active with no turn left.
Unplayed ==
  /\ room.beat = "combat" /\ Fighting(mech) /\ ~mech.fight.acting
  /\ \/ mech.fight.drained
     \/ mech.fight.side = "hero" /\ mech.fight.ready = {"enemy"}

\* When the host has nothing left to do, the table can go on without giving up
\* the fight, unless the process died or another command came in between while
\* the host was at work, or the table took back what the host had done for a
\* beat: then the step is lost and no command repeats it; and unless the
\* engine waits for an enemy that the host does not play.  (#enterCurrentBeat
\* and #runEnemyFallbacks leave each beat playable.)
NeverStranded == AtRest /\ ~disturbed /\ ~Unplayed => MayGoOn
=============================================================================
