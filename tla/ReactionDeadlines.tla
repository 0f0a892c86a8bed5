------------------------- MODULE ReactionDeadlines -------------------------
(***************************************************************************)
(* The reaction window of a combat, the countdown the host keeps for the   *)
(* actor whose turn it is to react (reaction-deadlines.ts), and the        *)
(* presence of the players (noteParticipantConnection).  The engine asks   *)
(* the actors of the window one after the other: the affected hero, the    *)
(* other heroes, the enemies.  A hero has ten seconds, which stop while    *)
(* its phone is away; an enemy is passed at once by the host.              *)
(*                                                                         *)
(* An open window does not stop the fight: heroes go on acting, roll dice, *)
(* and one of them may begin a new round, which closes the window without  *)
(* a word to the room.  The room then keeps a stale deadline, one that is  *)
(* not of the open window.                                                 *)
(*                                                                         *)
(* Durable: the fight, the window, the deadline and the recoveries.  In    *)
(* memory: the timers of the two services and the last known connection.   *)
(* Handlers of the host run to their end without interruption, but a       *)
(* process death may fall between two of their commits, so `step' says how *)
(* far the handler that moved the window has come.  Each commit is one     *)
(* step here: RoomWorkflow has its detail.  Times count down to zero in    *)
(* units.                                                                  *)
(***************************************************************************)
EXTENDS Integers, FiniteSets

CONSTANTS
  Heroes,     \* number of heroes in the combat; hero h sits on seat h
  Enemies,    \* number of enemies
  WindowIds,  \* names of reaction windows
  Duration,   \* units of a countdown: the code's 10 000 ms
  Grace,      \* units of the reconnect grace: the code's 30 000 ms
  None        \* null

ASSUME DeadlineAssumption ==
  /\ Heroes \in Nat
  /\ Enemies \in Nat
  /\ Duration \in Nat \ {0}
  /\ Grace \in Nat \ {0}
  /\ None \notin [seat : 1 .. Heroes, window : WindowIds, left : 0 .. Duration,
                  paused : BOOLEAN, remaining : 0 .. Duration]
  /\ None \notin [id : WindowIds, affected : 1 .. Heroes,
                  queue : SUBSET (1 .. Heroes + Enemies)]

VARIABLES
  combat,       \* combat.status
  window,       \* combat.reaction_window
  deadline,     \* room.reaction_deadline
  recovery,     \* room.recoveries; "connected" stands for no entry
  connected,    \* ReactionDeadlineService.#connected of the room
  timers,       \* RoomApplication.#reactionTimers, per window
  graceTimers,  \* RoomApplication.#recoveryTimers, per seat
  step,         \* what the running handler committed last, or "idle"
  refused,      \* the pass a timeout submits for the front was refused: its
                \* identity is used up
  forced,       \* history: the latest step was a pass forced by a timer
  overtaken,    \* history: a round advanced under the pending deadline
  misled,       \* history: seats whose recovery a stale deadline rewrote since
                \* their players last came or went
  disturbed     \* history: since the latest countdown began the host died, or
                \* else an answer or a pass was refused

vars == <<combat, window, deadline, recovery, connected, timers, graceTimers,
          step, refused, forced, overtaken, misled, disturbed>>
engine == <<combat, window, refused>>
presence == <<recovery, graceTimers, misled>>
countdown == <<deadline, connected, timers>>

Seat == 1 .. Heroes
Actor == 1 .. Heroes + Enemies
Status == {"active", "awaiting", "resolved"}

Window == [id : WindowIds, affected : Seat, queue : (SUBSET Actor) \ {{}}]
Deadline == [seat : Seat, window : WindowIds, left : 0 .. Duration,
             paused : BOOLEAN, remaining : 0 .. Duration]
Timer == [window : WindowIds, left : 0 .. Duration]
Recovery == [status : {"connected", "grace", "recovery_required"},
             left : 0 .. Grace]

Present == [status |-> "connected", left |-> 0]
InGrace == [status |-> "grace", left |-> Grace]
Required == [status |-> "recovery_required", left |-> 0]

Init ==
  /\ combat = "active"
  /\ window = None
  /\ deadline = None
  /\ recovery = [s \in Seat |-> Present]
  /\ connected = "unknown"
  /\ timers = {}
  /\ graceTimers = [s \in Seat |-> {}]
  /\ step = "idle"
  /\ refused = FALSE
  /\ forced = FALSE
  /\ overtaken = FALSE
  /\ misled = {}
  /\ disturbed = "no"

-----------------------------------------------------------------------------
(* The window of the engine.                                               *)

\* The affected hero reacts first, then heroes and enemies in order.
Front(w) ==
  IF w.affected \in w.queue THEN w.affected
  ELSE CHOOSE a \in w.queue : \A b \in w.queue : a =< b

Passed(w) ==
  IF w.queue = {Front(w)} THEN None
  ELSE [w EXCEPT !.queue = @ \ {Front(w)}]

\* The pending deadline, and whether it is of the window that is open.
Names(w) == deadline # None /\ deadline.window = w.id
Current == window # None /\ Names(window)

\* Mutant: the deadline survives the answer.
ClearedLate(w) == deadline

\* #finalize clears the deadline of the window a resolve_reaction names,
\* whatever the engine decided.
Cleared(w) == IF Names(w) THEN None ELSE deadline

\* No handler runs and the window is a hero's.
HeroWaits == step = "idle" /\ window # None /\ Front(window) \in Seat

\* An answer or a pass was refused; a death of the host weighs more.
Refused == IF disturbed = "died" THEN "died" ELSE "refused"

-----------------------------------------------------------------------------
(* Timers and countdowns.                                                  *)

\* Mutant: the timer of the window is left running.
KeepAll(ts, w) == ts

\* scheduler.cancel: one timer per window.
Cancelled(ts, w) == {t \in ts : t.window # w}

\* Mutant: a timer is set for a new countdown only.
SetIfFresh(ts, d) ==
  Cancelled(ts, d.window) \cup
    {[window |-> w, left |-> d.left] :
       w \in {x \in {d.window} : d.left = Duration}}

\* scheduler.schedule replaces the timer of the window.
Set(ts, d) ==
  Cancelled(ts, d.window) \cup {[window |-> d.window, left |-> d.left]}

\* reaction_deadline_started, for a new countdown or for one that goes on.
Begun(s, w) == [seat |-> s, window |-> w, left |-> Duration,
                paused |-> FALSE, remaining |-> 0]

Paused(d) == [d EXCEPT !.paused = TRUE, !.remaining = d.left]
Resumed(d) == [Begun(d.seat, d.window) EXCEPT !.left = d.remaining]

\* setConnectionKnown on a pending deadline: the deadline, the timers, and the
\* recovery of its seat, which is recorded when the countdown stops or goes on.
Known(d, here) ==
  CASE here /\ d.paused -> Resumed(d)
    [] ~here /\ ~d.paused -> Paused(d)
    [] OTHER -> d

KnownTimers(d, here) ==
  IF here THEN Set(timers, Known(d, here)) ELSE Cancelled(timers, d.window)

KnownRecovery(d, here) ==
  IF here # d.paused THEN recovery
  ELSE [recovery EXCEPT ![d.seat] = IF here THEN Present ELSE InGrace]

-----------------------------------------------------------------------------
(* The fight beside the window.                                            *)

\* A hero's action, a die or a correction, and in the absence of a window an
\* enemy's action: the fight awaits a roll, goes on or ends.  None looks at the
\* window.
FightGoesOn(status) ==
  /\ step = "idle"
  /\ combat # "resolved"
  /\ combat' = status
  /\ forced' = FALSE
  /\ UNCHANGED <<window, refused, presence, countdown, step, overtaken,
                 disturbed>>

\* A hero begins its turn when every turn of the round is spent: round_advanced
\* closes the window, and the room keeps the deadline.
RoundAdvances ==
  /\ step = "idle"
  /\ combat = "active"
  /\ window # None
  /\ window' = None
  /\ refused' = FALSE
  /\ forced' = FALSE
  /\ overtaken' = (deadline # None)
  /\ UNCHANGED <<combat, presence, countdown, step, misled, disturbed>>

-----------------------------------------------------------------------------
(* The handlers that move the window.                                      *)

\* An enemy action on hero h opens a window; the identity derives from the
\* room revision, so no deadline or timer knows it.  With nobody left to react
\* the engine rejects the command and nothing happens.
Fresh(id) ==
  /\ deadline # None => deadline.window # id
  /\ \A t \in timers : t.window # id

OpenWindow(id, h, able) ==
  /\ step = "idle"
  /\ combat = "active"
  /\ window = None
  /\ Fresh(id)
  /\ able # {}
  /\ window' = [id |-> id, affected |-> h, queue |-> able]
  /\ refused' = FALSE
  /\ step' = "opened"
  /\ forced' = FALSE
  /\ UNCHANGED <<combat, presence, countdown, overtaken, disturbed>>

\* A window the engine has moved: the room is told, the handler goes on.
Moved(after) ==
  /\ window' = after
  /\ refused' = FALSE
  /\ deadline' = Cleared(window)
  /\ overtaken' = (overtaken /\ ~Names(window))
  /\ step' = "resolved"

\* The front hero answers, before or after the countdown has run out: a pass
\* moves the window on; a use closes it, and its effects may end the fight or
\* ask for a roll.
Answer(used, status) ==
  /\ HeroWaits
  /\ combat = "active"
  /\ used \/ status = combat
  /\ combat' = status
  /\ Moved(IF used THEN None ELSE Passed(window))
  /\ forced' = FALSE
  /\ UNCHANGED <<presence, connected, timers, disturbed>>

\* An answer the engine rejects: the fight awaits a roll or is over, the window
\* is gone or another hero's, the use is no legal candidate.  It still clears
\* the deadline it names.  The client is told, and the handler ends there.
RejectedAnswer ==
  /\ step = "idle"
  /\ deadline # None
  /\ deadline' = None
  /\ overtaken' = FALSE
  /\ forced' = FALSE
  /\ disturbed' = Refused
  /\ UNCHANGED <<engine, presence, connected, timers, step>>

\* #continueReactionOrCombat with an enemy in front.
AutoPass ==
  /\ step # "idle"
  /\ combat = "active"
  /\ window # None
  /\ Front(window) \notin Seat
  /\ Moved(Passed(window))
  /\ forced' = FALSE
  /\ UNCHANGED <<combat, presence, connected, timers, disturbed>>

\* The same with a hero in front: the connection is read off the recoveries and
\* told to ReactionDeadlineService, which takes it for that of a stale deadline
\* when one is pending; then start begins the countdown.
StartDeadline ==
  LET s == Front(window)
      here == recovery[s].status = "connected"
      begun == Begun(s, window.id)
      known == IF deadline = None THEN timers ELSE KnownTimers(deadline, here)
  IN
  /\ step # "idle"
  /\ combat = "active"
  /\ window # None
  /\ s \in Seat
  /\ connected' = IF here THEN "yes" ELSE "no"
  /\ deadline' = begun
  /\ timers' = IF here THEN Set(known, begun) ELSE known
  /\ recovery' = IF deadline = None THEN recovery
                 ELSE KnownRecovery(deadline, here)
  /\ misled' = misled \cup {r \in Seat : recovery'[r] # recovery[r]}
  /\ step' = "idle"
  /\ forced' = FALSE
  /\ overtaken' = FALSE
  /\ disturbed' = "no"
  /\ UNCHANGED <<engine, graceTimers>>

\* The same with the window closed, when the enemies go on, or with a fight that
\* awaits a roll or is over.
CombatGoesOn ==
  /\ step # "idle"
  /\ combat # "active" \/ window = None
  /\ step' = "idle"
  /\ forced' = FALSE
  /\ UNCHANGED <<engine, presence, countdown, overtaken, disturbed>>

Proceed == AutoPass \/ StartDeadline \/ CombatGoesOn

\* Mutant: an overdue deadline is taken for a stale one.
ValidEarly(t) ==
  /\ connected = "yes"
  /\ deadline # None
  /\ deadline.window = t.window
  /\ ~deadline.paused
  /\ deadline.left # 0

\* What the callback of a timer asks before it requests the timeout.
Valid(t) ==
  /\ connected = "yes"
  /\ deadline # None
  /\ deadline.window = t.window
  /\ ~deadline.paused

\* #resolveReactionTimeout passes for the front actor when it has a seat; it
\* does not ask whose deadline has run out.
TimerPasses(t) ==
  /\ Valid(t)
  /\ HeroWaits
  /\ combat = "active" /\ ~refused
  /\ Moved(Passed(window))
  /\ forced' = TRUE
  /\ UNCHANGED disturbed

\* The engine refuses the pass of a fight that awaits a roll or is over, and the
\* store a pass it has refused before.  The engine's refusal clears the deadline
\* too, and the handler ends there.
TimerRefused(t) ==
  /\ Valid(t)
  /\ HeroWaits
  /\ combat # "active" \/ refused
  /\ deadline' = IF refused THEN deadline ELSE Cleared(window)
  /\ overtaken' = (overtaken /\ deadline' # None)
  /\ refused' = TRUE
  /\ forced' = FALSE
  /\ disturbed' = Refused
  /\ UNCHANGED <<window, step>>

TimerIgnored(t) ==
  /\ ~Valid(t) \/ ~HeroWaits
  /\ forced' = FALSE
  /\ UNCHANGED <<window, refused, deadline, overtaken, step, disturbed>>

FireTimer(t) ==
  /\ step = "idle"
  /\ t.left = 0
  /\ timers' = timers \ {t}
  /\ TimerPasses(t) \/ TimerRefused(t) \/ TimerIgnored(t)
  /\ UNCHANGED <<combat, presence, connected>>

-----------------------------------------------------------------------------
(* Presence: a hello or a connection status of a seat's player.            *)

\* Mutant: the earlier grace timer is left running.
GraceAdded(s) == [graceTimers EXCEPT ![s] = @ \cup {Grace}]

GraceSet(s) == [graceTimers EXCEPT ![s] = {Grace}]
GraceUnset(s) == [graceTimers EXCEPT ![s] = {}]

Reacting(s) == deadline # None /\ deadline.seat = s

\* The seat's countdown is resumed or paused; another seat's is not touched.
Hello(s) ==
  /\ step = "idle"
  /\ \/ /\ Reacting(s)
        /\ connected' = "yes"
        /\ deadline' = Known(deadline, TRUE)
        /\ timers' = KnownTimers(deadline, TRUE)
     \/ ~Reacting(s) /\ UNCHANGED countdown
  /\ recovery' = [recovery EXCEPT ![s] = Present]
  /\ graceTimers' = GraceUnset(s)
  /\ misled' = misled \ {s}
  /\ forced' = FALSE
  /\ UNCHANGED <<engine, step, overtaken, disturbed>>

Disconnect(s) ==
  /\ step = "idle"
  /\ \/ /\ Reacting(s)
        /\ connected' = "no"
        /\ deadline' = Known(deadline, FALSE)
        /\ timers' = KnownTimers(deadline, FALSE)
     \/ ~Reacting(s) /\ UNCHANGED countdown
  /\ recovery' = [recovery EXCEPT ![s] = InGrace]
  /\ graceTimers' = GraceSet(s)
  /\ misled' = misled \ {s}
  /\ forced' = FALSE
  /\ UNCHANGED <<engine, step, overtaken, disturbed>>

\* The grace timer of a seat; a seat that came back is left alone.
GraceExpires(s) ==
  /\ step = "idle"
  /\ 0 \in graceTimers[s]
  /\ graceTimers' = [graceTimers EXCEPT ![s] = @ \ {0}]
  /\ recovery' = [recovery EXCEPT ![s] =
                    IF @.status = "grace" THEN Required ELSE @]
  /\ forced' = FALSE
  /\ UNCHANGED <<engine, countdown, step, overtaken, misled, disturbed>>

-----------------------------------------------------------------------------
(* Time and failure.                                                       *)

Less(n) == IF n = 0 THEN 0 ELSE n - 1

Running ==
  \/ deadline # None /\ deadline.left # 0
  \/ \E t \in timers : t.left # 0
  \/ \E s \in Seat : recovery[s].left # 0 \/ graceTimers[s] \ {0} # {}

Tick ==
  /\ step = "idle"
  /\ Running
  /\ deadline' = IF deadline = None THEN None
                 ELSE [deadline EXCEPT !.left = Less(@)]
  /\ timers' = {[t EXCEPT !.left = Less(@)] : t \in timers}
  /\ recovery' = [s \in Seat |-> [recovery[s] EXCEPT !.left = Less(@)]]
  /\ graceTimers' = [s \in Seat |-> {Less(g) : g \in graceTimers[s]}]
  /\ forced' = FALSE
  /\ UNCHANGED <<engine, connected, step, overtaken, misled, disturbed>>

\* The process dies and starts again: what was in memory is lost.  Nothing
\* calls ReactionDeadlineService.recover, and phones that stayed linked to the
\* relay do not say hello again.
Crash ==
  /\ timers' = {}
  /\ graceTimers' = [s \in Seat |-> {}]
  /\ connected' = "unknown"
  /\ step' = "idle"
  /\ forced' = FALSE
  /\ disturbed' = "died"
  /\ UNCHANGED <<engine, deadline, recovery, overtaken, misled>>

\* The same inside a resolve_reaction workflow: RoomApplication.resume settles
\* it and goes on where the handler stopped.
CrashInWorkflow ==
  /\ step = "resolved"
  /\ timers' = {}
  /\ graceTimers' = [s \in Seat |-> {}]
  /\ connected' = "unknown"
  /\ forced' = FALSE
  /\ disturbed' = "died"
  /\ UNCHANGED <<engine, deadline, recovery, step, overtaken, misled>>

-----------------------------------------------------------------------------
Next ==
  \/ \E id \in WindowIds, h \in Seat, able \in SUBSET Actor :
       OpenWindow(id, h, able)
  \/ \E used \in BOOLEAN, status \in Status : Answer(used, status)
  \/ RejectedAnswer
  \/ \E status \in Status : FightGoesOn(status)
  \/ RoundAdvances
  \/ Proceed
  \/ \E t \in timers : FireTimer(t)
  \/ \E s \in Seat : Hello(s) \/ Disconnect(s) \/ GraceExpires(s)
  \/ Tick
  \/ Crash
  \/ CrashInWorkflow

\* A handler that has begun runs on, time passes, and the event loop runs the
\* timers that are due.
Fairness ==
  /\ WF_vars(Proceed)
  /\ WF_vars(Tick)
  /\ WF_vars(\E t \in timers : FireTimer(t))

Spec == Init /\ [][Next]_vars
FairSpec == Spec /\ Fairness

-----------------------------------------------------------------------------
(* Types.                                                                  *)

\* The window, the deadline, the recoveries and the timers keep their shapes;
\* an open window always has somebody to ask.
TypeOK ==
  /\ combat \in Status
  /\ window \in Window \cup {None}
  /\ deadline \in Deadline \cup {None}
  /\ recovery \in [Seat -> Recovery]
  /\ connected \in {"unknown", "yes", "no"}
  /\ timers \subseteq Timer
  /\ graceTimers \in [Seat -> SUBSET (0 .. Grace)]
  /\ step \in {"idle", "opened", "resolved"}
  /\ refused \in BOOLEAN
  /\ forced \in BOOLEAN
  /\ overtaken \in BOOLEAN
  /\ misled \subseteq Seat
  /\ disturbed \in {"no", "refused", "died"}

-----------------------------------------------------------------------------
(* What the reaction deadlines guarantee.                                  *)

\* A deadline is for the hero whose answer the engine waits for, although room
\* and engine store them in different streams, and none is pending while a
\* handler moves its window.  Only a round that advanced under it leaves a
\* deadline behind, and it is never taken for one of a later window.
DeadlineFollowsWindow ==
  deadline # None =>
    \/ ~overtaken /\ Current /\ step = "idle" /\ deadline.seat = Front(window)
    \/ overtaken /\ ~Current

\* A host that knows the reacting player to be connected counts down: the
\* deadline is not paused, no timer of its window is set for another time, and
\* while the window is open exactly one timer is set.
CountdownArmed ==
  deadline # None /\ connected = "yes" =>
    LET due == [window |-> deadline.window, left |-> deadline.left]
        set == {t \in timers : t.window = deadline.window}
    IN
    /\ ~deadline.paused
    /\ set \subseteq {due}
    /\ Current => due \in set

\* What the host remembers of the reacting player is what the room records,
\* and a countdown is paused only while the room records an absence.
ConnectionMatchesRecord ==
  deadline # None =>
    LET here == recovery[deadline.seat].status = "connected" IN
    /\ connected # "unknown" => (connected = "yes") = here
    /\ deadline.paused => ~here

\* A pass is forced only when a countdown ran out whose player the room records
\* as connected; and on the hero it was for, unless the host died before the
\* countdown of the open window began, while a stale one was pending.
TimeoutIsDue ==
  [][forced' /\ window' # window =>
       /\ deadline # None
       /\ deadline.left = 0
       /\ ~deadline.paused
       /\ recovery[deadline.seat].status = "connected"
       /\ \/ Current /\ deadline.seat = Front(window)
          \/ overtaken /\ disturbed = "died"]_vars

\* A seat needs recovery only when the grace it was last promised is over,
\* however often its player came and went; except for a seat whose absence was
\* recorded on behalf of another hero's countdown, by way of a stale deadline.
GraceKept ==
  [][\A s \in Seat \ misled :
       recovery[s].status = "grace" /\ recovery'[s].status = "recovery_required"
         => recovery[s].left = 0]_vars

\* Nothing stands between the front hero and its timeout.
Undisturbed ==
  step = "idle" /\ window # None =>
    HeroWaits /\ disturbed = "no" /\ recovery[Front(window)] = Present

\* Windows end: once the host no longer dies, no answer and no timeout is
\* refused, and the phone of whoever is asked stays connected, no window remains
\* open for ever, whether or not anybody answers.
WindowsEnd == <>[]Undisturbed => []<>(window = None)
=============================================================================
