----------------------- MODULE ReactionDeadlinesProofs -----------------------
(* Theorems of ReactionDeadlines: its safety for any number of heroes,     *)
(* enemies and windows and any lengths of the countdowns.                  *)
EXTENDS ReactionDeadlines, TLAPS

\* A seat in grace has no timer but the one of the grace it was last promised,
\* unless its record was rewritten by way of a stale deadline.
GraceTimed ==
  \A s \in Seat \ misled :
    recovery[s].status = "grace" => graceTimers[s] \subseteq {recovery[s].left}

\* A handler that moves an open window runs in a fight that is on.
HandlerInFight == step # "idle" /\ window # None => combat = "active"

\* Only the death of the host leaves a window open beside a stale deadline when
\* no handler runs.
StaleAfterDeath ==
  deadline # None /\ overtaken /\ step = "idle" /\ window # None =>
    disturbed = "died"

\* The front whose pass was refused has no countdown, and no handler runs for it.
RefusedWaits == refused => step = "idle" /\ ~Current

\* The inductive invariant.
IInv ==
  /\ TypeOK
  /\ DeadlineFollowsWindow
  /\ CountdownArmed
  /\ ConnectionMatchesRecord
  /\ GraceTimed
  /\ HandlerInFight
  /\ StaleAfterDeath
  /\ RefusedWaits

\* A step of the specification is one of its actions or leaves all unchanged.
LEMMA StepCases ==
  ASSUME [Next]_vars
  PROVE  \/ \E id \in WindowIds, h \in Seat, able \in SUBSET Actor :
              OpenWindow(id, h, able)
         \/ \E used \in BOOLEAN, status \in Status : Answer(used, status)
         \/ RejectedAnswer
         \/ \E status \in Status : FightGoesOn(status)
         \/ RoundAdvances
         \/ AutoPass
         \/ StartDeadline
         \/ CombatGoesOn
         \/ \E t \in timers : FireTimer(t)
         \/ \E s \in Seat : Hello(s)
         \/ \E s \in Seat : Disconnect(s)
         \/ \E s \in Seat : GraceExpires(s)
         \/ Tick
         \/ Crash
         \/ CrashInWorkflow
         \/ UNCHANGED vars
  BY DEF Next, Proceed

\* Passing for the front actor leaves a window that asks somebody, or none.
LEMMA PassedTyped ==
  ASSUME NEW w \in Window
  PROVE  Passed(w) \in Window \cup {None}
<1>1. CASE w.queue = {Front(w)}
  BY <1>1 DEF Passed
<1>2. CASE w.queue # {Front(w)}
  <2>1. w.queue \ {Front(w)} \in (SUBSET Actor) \ {{}}
    BY <1>2 DEF Window
  <2>2. QED
    BY <1>2, <2>1 DEF Passed, Window
<1>3. QED
  BY <1>1, <1>2

\* A countdown that begins has the type of a deadline.
LEMMA BegunTyped ==
  ASSUME NEW s \in Seat, NEW w \in WindowIds
  PROVE  Begun(s, w) \in Deadline
  BY DeadlineAssumption DEF Begun, Deadline

\* What setConnectionKnown makes of a deadline: paused exactly when the player
\* is away, for the same seat and window, and resumed with what remained.
LEMMA KnownTyped ==
  ASSUME NEW d \in Deadline, NEW here \in BOOLEAN
  PROVE  /\ Known(d, here) \in Deadline
         /\ Known(d, here).seat = d.seat
         /\ Known(d, here).window = d.window
         /\ Known(d, here).paused = ~here
<1>1. CASE here /\ d.paused
  <2>1. Known(d, here) = Resumed(d)
    BY <1>1 DEF Known
  <2>2. Begun(d.seat, d.window) \in Deadline
    BY BegunTyped DEF Deadline
  <2>3. d.remaining \in 0 .. Duration
    BY DEF Deadline
  <2>4. /\ Resumed(d) \in Deadline
        /\ Resumed(d).seat = d.seat
        /\ Resumed(d).window = d.window
        /\ Resumed(d).paused = FALSE
    BY <2>2, <2>3 DEF Resumed, Deadline, Begun
  <2>5. QED
    BY <1>1, <2>1, <2>4
<1>2. CASE ~here /\ ~d.paused
  <2>1. Known(d, here) = Paused(d)
    BY <1>2 DEF Known
  <2>2. /\ Paused(d) \in Deadline
        /\ Paused(d).seat = d.seat
        /\ Paused(d).window = d.window
        /\ Paused(d).paused = TRUE
    BY DEF Paused, Deadline
  <2>3. QED
    BY <1>2, <2>1, <2>2
<1>3. CASE ~(here /\ d.paused) /\ ~(~here /\ ~d.paused)
  <2>1. Known(d, here) = d
    BY <1>3 DEF Known
  <2>2. d.paused \in BOOLEAN
    BY DEF Deadline
  <2>3. QED
    BY <1>3, <2>1, <2>2
<1>4. QED
  BY <1>1, <1>2, <1>3

\* Setting the timer of a deadline keeps the type of the timers and leaves one
\* timer for its window.
LEMMA SetTyped ==
  ASSUME NEW d \in Deadline, NEW ts \in SUBSET Timer
  PROVE  /\ Set(ts, d) \subseteq Timer
         /\ {t \in Set(ts, d) : t.window = d.window} =
              {[window |-> d.window, left |-> d.left]}
  BY DEF Set, Cancelled, Timer, Deadline

\* Time does not leave the ranges.
LEMMA LessTyped ==
  ASSUME NEW m \in Nat, NEW n \in 0 .. m
  PROVE  Less(n) \in 0 .. m
  BY DEF Less

\* What presence events record has the type of the record.
LEMMA PresenceTyped ==
  ASSUME TypeOK, NEW s \in Seat
  PROVE  /\ [recovery EXCEPT ![s] = Present] \in [Seat -> Recovery]
         /\ [recovery EXCEPT ![s] = InGrace] \in [Seat -> Recovery]
         /\ GraceSet(s) \in [Seat -> SUBSET (0 .. Grace)]
         /\ GraceUnset(s) \in [Seat -> SUBSET (0 .. Grace)]
<1>1. Present \in Recovery /\ InGrace \in Recovery
  BY DeadlineAssumption DEF Present, InGrace, Recovery
<1>2. {Grace} \in SUBSET (0 .. Grace)
  BY DeadlineAssumption
<1>3. GraceSet(s) \in [Seat -> SUBSET (0 .. Grace)]
  BY <1>2 DEF TypeOK, GraceSet
<1>4. GraceUnset(s) \in [Seat -> SUBSET (0 .. Grace)]
  BY DEF TypeOK, GraceUnset
<1>5. QED
  BY <1>1, <1>3, <1>4 DEF TypeOK

\* What setConnectionKnown does to the timers and the recoveries keeps their
\* types.
LEMMA KnownEffectsTyped ==
  ASSUME TypeOK, NEW d \in Deadline, NEW here \in BOOLEAN
  PROVE  /\ KnownTimers(d, here) \subseteq Timer
         /\ KnownRecovery(d, here) \in [Seat -> Recovery]
<1>1. KnownTimers(d, here) \subseteq Timer
  <2>1. Known(d, here) \in Deadline /\ timers \in SUBSET Timer
    BY KnownTyped DEF TypeOK
  <2>2. Set(timers, Known(d, here)) \subseteq Timer
    BY <2>1, SetTyped
  <2>3. Cancelled(timers, d.window) \subseteq Timer
    BY <2>1 DEF Cancelled
  <2>4. QED
    BY <2>2, <2>3 DEF KnownTimers
<1>2. KnownRecovery(d, here) \in [Seat -> Recovery]
  BY PresenceTyped DEF KnownRecovery, TypeOK, Deadline
<1>3. QED
  BY <1>1, <1>2

\* A pass keeps the identity of the window.
LEMMA PassedNames ==
  ASSUME NEW w \in Window, Passed(w) # None
  PROVE  Passed(w).id = w.id
  BY DEF Passed, Window

\* The initial state satisfies the invariant.
LEMMA InitInvariant == Init => IInv
<1> SUFFICES ASSUME Init PROVE IInv
  OBVIOUS
<1>1. Present \in Recovery
  BY DeadlineAssumption DEF Present, Recovery
<1>2. TypeOK
  BY <1>1 DEF Init, TypeOK, Status
<1>3. DeadlineFollowsWindow /\ CountdownArmed /\ ConnectionMatchesRecord
  BY DEF Init, DeadlineFollowsWindow, CountdownArmed, ConnectionMatchesRecord
<1>4. GraceTimed /\ HandlerInFight /\ StaleAfterDeath /\ RefusedWaits
  BY DEF Init, GraceTimed, HandlerInFight, StaleAfterDeath, RefusedWaits, Present
<1>5. QED
  BY <1>2, <1>3, <1>4 DEF IInv

\* Types are preserved.
LEMMA TypesPreserved ==
  ASSUME TypeOK, [Next]_vars
  PROVE  TypeOK'
<1> USE DEF TypeOK
<1>1. ASSUME NEW id \in WindowIds, NEW h \in Seat, NEW able \in SUBSET Actor,
             OpenWindow(id, h, able)
      PROVE  TypeOK'
  BY <1>1 DEF OpenWindow, Window, presence, countdown
<1>2. Cleared(window) \in Deadline \cup {None}
  BY DEF Cleared
<1>3. Refused \in {"no", "refused", "died"}
  BY DEF Refused
<1>4. ASSUME NEW used \in BOOLEAN, NEW status \in Status, Answer(used, status)
      PROVE  TypeOK'
  BY <1>2, <1>4, PassedTyped DEF Answer, Moved, HeroWaits, Names, presence
<1>5. ASSUME RejectedAnswer
      PROVE  TypeOK'
  BY <1>3, <1>5 DEF RejectedAnswer, engine, presence
<1>6. ASSUME AutoPass
      PROVE  TypeOK'
  BY <1>2, <1>6, PassedTyped DEF AutoPass, Moved, Names, presence
<1>7. ASSUME StartDeadline
      PROVE  TypeOK'
  <2> DEFINE begun == Begun(Front(window), window.id)
             here == recovery[Front(window)].status = "connected"
             known == IF deadline = None THEN timers
                      ELSE KnownTimers(deadline, here)
  <2>1. begun \in Deadline
    BY <1>7, BegunTyped DEF StartDeadline, Window
  <2>2. here \in BOOLEAN
    OBVIOUS
  <2> HIDE DEF here, begun
  <2>3. known \in SUBSET Timer
    BY <2>2, KnownEffectsTyped
  <2> HIDE DEF known
  <2>4. Set(known, begun) \subseteq Timer
    BY <2>1, <2>3, SetTyped
  <2>5. timers' \subseteq Timer
    <3>1. timers' = IF here THEN Set(known, begun) ELSE known
      BY <1>7 DEF StartDeadline, here, known, begun
    <3>2. QED
      BY <2>3, <2>4, <3>1
  <2>6. recovery' \in [Seat -> Recovery]
    <3>1. recovery' = IF deadline = None THEN recovery
                      ELSE KnownRecovery(deadline, here)
      BY <1>7 DEF StartDeadline, here
    <3>2. QED
      BY <2>2, <3>1, KnownEffectsTyped
  <2>7. deadline' \in Deadline \cup {None}
    BY <1>7, <2>1 DEF StartDeadline, begun
  <2>8. QED
    BY <1>7, <2>5, <2>6, <2>7 DEF StartDeadline, engine
<1>8. ASSUME CombatGoesOn
      PROVE  TypeOK'
  BY <1>8 DEF CombatGoesOn, engine, presence, countdown
<1>9. ASSUME NEW t \in timers, FireTimer(t)
      PROVE  TypeOK'
  <2>1. CASE TimerPasses(t)
    BY <1>2, <1>9, <2>1, PassedTyped
    DEF FireTimer, TimerPasses, Moved, HeroWaits, Names, presence
  <2>2. CASE TimerRefused(t)
    BY <1>2, <1>3, <1>9, <2>2 DEF FireTimer, TimerRefused, presence
  <2>3. CASE TimerIgnored(t)
    BY <1>9, <2>3 DEF FireTimer, TimerIgnored, presence
  <2>4. QED
    BY <1>9, <2>1, <2>2, <2>3 DEF FireTimer
<1>10. ASSUME NEW s \in Seat, Hello(s)
       PROVE  TypeOK'
  <2>1. CASE Reacting(s)
    <3>1. Known(deadline, TRUE) \in Deadline
      BY <2>1, KnownTyped DEF Reacting
    <3>2. KnownTimers(deadline, TRUE) \subseteq Timer
      BY <2>1, KnownEffectsTyped DEF Reacting
    <3>3. QED
      BY <1>10, <2>1, <3>1, <3>2, PresenceTyped DEF Hello, engine
  <2>2. CASE ~Reacting(s)
    BY <1>10, <2>2, PresenceTyped DEF Hello, engine, countdown
  <2>3. QED
    BY <2>1, <2>2
<1>11. ASSUME NEW s \in Seat, Disconnect(s)
       PROVE  TypeOK'
  <2>1. CASE Reacting(s)
    <3>1. Known(deadline, FALSE) \in Deadline
      BY <2>1, KnownTyped DEF Reacting
    <3>2. KnownTimers(deadline, FALSE) \subseteq Timer
      BY <2>1, KnownEffectsTyped DEF Reacting
    <3>3. QED
      BY <1>11, <2>1, <3>1, <3>2, PresenceTyped DEF Disconnect, engine
  <2>2. CASE ~Reacting(s)
    BY <1>11, <2>2, PresenceTyped DEF Disconnect, engine, countdown
  <2>3. QED
    BY <2>1, <2>2
<1>12. ASSUME NEW s \in Seat, GraceExpires(s)
       PROVE  TypeOK'
  BY <1>12, DeadlineAssumption
  DEF GraceExpires, Required, Recovery, engine, countdown
<1>13. ASSUME Tick
       PROVE  TypeOK'
  <2>1. deadline' \in Deadline \cup {None}
    BY <1>13, LessTyped, DeadlineAssumption DEF Tick, Deadline
  <2>2. timers' \subseteq Timer
    BY <1>13, LessTyped, DeadlineAssumption DEF Tick, Timer
  <2>3. recovery' \in [Seat -> Recovery]
    BY <1>13, LessTyped, DeadlineAssumption DEF Tick, Recovery
  <2>4. graceTimers' \in [Seat -> SUBSET (0 .. Grace)]
    BY <1>13, LessTyped, DeadlineAssumption DEF Tick
  <2>5. QED
    BY <1>13, <2>1, <2>2, <2>3, <2>4 DEF Tick, engine
<1>14. ASSUME Crash \/ CrashInWorkflow
       PROVE  TypeOK'
  BY <1>14 DEF Crash, CrashInWorkflow, engine
<1>15. ASSUME UNCHANGED vars
       PROVE  TypeOK'
  BY <1>15 DEF vars
<1>16. ASSUME NEW status \in Status, FightGoesOn(status)
       PROVE  TypeOK'
  BY <1>16 DEF FightGoesOn, presence, countdown
<1>17. ASSUME RoundAdvances
       PROVE  TypeOK'
  BY <1>17 DEF RoundAdvances, presence, countdown
<1>18. QED
  BY <1>1, <1>4, <1>5, <1>6, <1>7, <1>8, <1>9, <1>10, <1>11, <1>12, <1>13,
     <1>14, <1>15, <1>16, <1>17, StepCases

\* The window of a step in which a handler moves it on: what is pending
\* afterwards is stale and was so before.
LEMMA MovedFollows ==
  ASSUME IInv, NEW w \in Window \cup {None}, window # None,
         w # None => w.id = window.id, Moved(w)
  PROVE  /\ DeadlineFollowsWindow'
         /\ deadline' # None => deadline' = deadline /\ ~Current'
<1> USE DEF IInv
<1>1. CASE Names(window)
  BY <1>1 DEF Moved, Cleared, DeadlineFollowsWindow
<1>2. CASE ~Names(window)
  BY <1>2 DEF Moved, Cleared, DeadlineFollowsWindow, Current, Names
<1>3. QED
  BY <1>1, <1>2

\* The steps that move the window are moves to a window that was named before.
LEMMA MovesFollow ==
  ASSUME IInv,
         \/ \E used \in BOOLEAN, status \in Status : Answer(used, status)
         \/ AutoPass
         \/ \E t \in timers : TimerPasses(t)
  PROVE  /\ DeadlineFollowsWindow'
         /\ deadline' # None => deadline' = deadline /\ ~Current'
<1> USE DEF IInv
<1>1. window \in Window
  BY DEF Answer, AutoPass, TimerPasses, HeroWaits, TypeOK
<1>2. PICK w \in {Passed(window), None} : Moved(w)
  BY DEF Answer, AutoPass, TimerPasses
<1>3. w \in Window \cup {None} /\ (w # None => w.id = window.id)
  BY <1>1, <1>2, PassedTyped, PassedNames
<1>4. window # None
  BY DEF Answer, AutoPass, TimerPasses, HeroWaits
<1>5. QED
  BY <1>2, <1>3, <1>4, MovedFollows

\* Every step keeps a deadline with its window, or leaves it behind for good.
LEMMA FollowsPreserved ==
  ASSUME IInv, [Next]_vars
  PROVE  DeadlineFollowsWindow'
<1> USE DEF IInv
<1>1. ASSUME NEW id \in WindowIds, NEW h \in Seat, NEW able \in SUBSET Actor,
             OpenWindow(id, h, able)
      PROVE  DeadlineFollowsWindow'
  BY <1>1 DEF OpenWindow, Fresh, countdown, DeadlineFollowsWindow, Current, Names
<1>2. ASSUME RejectedAnswer
      PROVE  DeadlineFollowsWindow'
  BY <1>2 DEF RejectedAnswer, DeadlineFollowsWindow
<1>3. ASSUME StartDeadline
      PROVE  DeadlineFollowsWindow'
  BY <1>3
  DEF StartDeadline, Begun, engine, DeadlineFollowsWindow, Current, Names, Front
<1>4. ASSUME CombatGoesOn
      PROVE  DeadlineFollowsWindow'
  BY <1>4
  DEF CombatGoesOn, engine, countdown, DeadlineFollowsWindow, Current, Names
<1>5. ASSUME NEW t \in timers, FireTimer(t)
      PROVE  DeadlineFollowsWindow'
  <2>1. CASE TimerRefused(t)
    <3>1. deadline' = None \/ deadline' = deadline
      BY <2>1 DEF TimerRefused, Cleared
    <3>2. QED
      BY <2>1, <3>1
      DEF TimerRefused, DeadlineFollowsWindow, Current, Names, Front
  <2>2. CASE TimerIgnored(t)
    BY <2>2 DEF TimerIgnored, DeadlineFollowsWindow, Current, Names, Front
  <2>3. QED
    BY <1>5, <2>1, <2>2, MovesFollow DEF FireTimer
<1>6. ASSUME NEW s \in Seat, NEW here \in BOOLEAN,
             UNCHANGED <<window, step, overtaken>>,
             \/ Reacting(s) /\ deadline' = Known(deadline, here)
             \/ deadline' = deadline
      PROVE  DeadlineFollowsWindow'
  <2>1. CASE Reacting(s) /\ deadline' = Known(deadline, here)
    <3>1. deadline' \in Deadline /\ deadline'.seat = deadline.seat
            /\ deadline'.window = deadline.window
      BY <2>1, KnownTyped DEF Reacting, TypeOK
    <3>2. QED
      BY <1>6, <2>1, <3>1
      DEF DeadlineFollowsWindow, Current, Names, Reacting, Front
  <2>2. CASE deadline' = deadline
    BY <1>6, <2>2 DEF DeadlineFollowsWindow, Current, Names, Front
  <2>3. QED
    BY <1>6, <2>1, <2>2
<1>7. ASSUME NEW s \in Seat, Hello(s) \/ Disconnect(s)
      PROVE  DeadlineFollowsWindow'
  BY <1>6, <1>7 DEF Hello, Disconnect, engine, countdown
<1>8. ASSUME NEW s \in Seat, GraceExpires(s)
      PROVE  DeadlineFollowsWindow'
  BY <1>8
  DEF GraceExpires, engine, countdown, DeadlineFollowsWindow, Current, Names, Front
<1>9. ASSUME Tick
      PROVE  DeadlineFollowsWindow'
  <2>1. CASE deadline = None
    BY <1>9, <2>1 DEF Tick, DeadlineFollowsWindow
  <2>2. CASE deadline # None
    <3>1. deadline \in Deadline
      BY <2>2 DEF TypeOK
    <3>2. deadline'.seat = deadline.seat /\ deadline'.window = deadline.window
      BY <1>9, <2>2, <3>1 DEF Tick, Deadline
    <3>3. QED
      BY <1>9, <2>2, <3>2
      DEF Tick, engine, DeadlineFollowsWindow, Current, Names, Front
  <2>3. QED
    BY <2>1, <2>2
<1>10. ASSUME Crash \/ CrashInWorkflow
       PROVE  DeadlineFollowsWindow'
  BY <1>10
  DEF Crash, CrashInWorkflow, engine, DeadlineFollowsWindow, Current, Names, Front
<1>11. ASSUME UNCHANGED vars
       PROVE  DeadlineFollowsWindow'
  BY <1>11 DEF vars, DeadlineFollowsWindow, Current, Names, Front
<1>12. ASSUME NEW status \in Status, FightGoesOn(status)
       PROVE  DeadlineFollowsWindow'
  BY <1>12
  DEF FightGoesOn, countdown, DeadlineFollowsWindow, Current, Names, Front
<1>13. ASSUME RoundAdvances
       PROVE  DeadlineFollowsWindow'
  BY <1>13 DEF RoundAdvances, countdown, DeadlineFollowsWindow, Current
<1>14. QED
  BY <1>1, <1>2, <1>3, <1>4, <1>5, <1>7, <1>8, <1>9, <1>10, <1>11, <1>12,
     <1>13, MovesFollow, StepCases

\* A handler that moves an open window runs in a fight that is on.
LEMMA HandlerInFightPreserved ==
  ASSUME IInv, [Next]_vars
  PROVE  HandlerInFight'
  BY StepCases
  DEF IInv, HandlerInFight, OpenWindow, Answer, RejectedAnswer, AutoPass,
      StartDeadline, CombatGoesOn, FireTimer, TimerPasses, TimerRefused,
      TimerIgnored, Moved, Hello, Disconnect, GraceExpires, Tick, Crash,
      CrashInWorkflow, FightGoesOn, RoundAdvances, engine, vars, HeroWaits

\* A stale deadline is forgotten by the next countdown unless the host dies.
LEMMA StalePreserved ==
  ASSUME IInv, [Next]_vars
  PROVE  StaleAfterDeath'
<1> USE DEF IInv, StaleAfterDeath
<1>1. ASSUME NEW id \in WindowIds, NEW h \in Seat, NEW able \in SUBSET Actor,
             OpenWindow(id, h, able)
      PROVE  StaleAfterDeath'
  BY <1>1 DEF OpenWindow
<1>2. ASSUME NEW used \in BOOLEAN, NEW status \in Status, Answer(used, status)
      PROVE  StaleAfterDeath'
  BY <1>2 DEF Answer, Moved
<1>3. ASSUME RejectedAnswer \/ AutoPass \/ StartDeadline \/ RoundAdvances
      PROVE  StaleAfterDeath'
  BY <1>3 DEF RejectedAnswer, AutoPass, Moved, StartDeadline, RoundAdvances
<1>4. ASSUME CombatGoesOn
      PROVE  StaleAfterDeath'
  BY <1>4 DEF CombatGoesOn, HandlerInFight, engine
<1>5. ASSUME NEW t \in timers, FireTimer(t)
      PROVE  StaleAfterDeath'
  BY <1>5
  DEF FireTimer, TimerPasses, TimerRefused, TimerIgnored, Moved, Cleared, Refused
<1>6. ASSUME NEW s \in Seat, Hello(s) \/ Disconnect(s) \/ GraceExpires(s)
      PROVE  StaleAfterDeath'
  BY <1>6 DEF Hello, Disconnect, GraceExpires, engine, countdown, Reacting
<1>7. ASSUME Tick
      PROVE  StaleAfterDeath'
  BY <1>7 DEF Tick, engine
<1>8. ASSUME Crash \/ CrashInWorkflow
      PROVE  StaleAfterDeath'
  BY <1>8 DEF Crash, CrashInWorkflow
<1>9. ASSUME NEW status \in Status, FightGoesOn(status)
      PROVE  StaleAfterDeath'
  BY <1>9 DEF FightGoesOn, countdown
<1>10. ASSUME UNCHANGED vars
       PROVE  StaleAfterDeath'
  BY <1>10 DEF vars
<1>11. QED
  BY <1>1, <1>2, <1>3, <1>4, <1>5, <1>6, <1>7, <1>8, <1>9, <1>10, StepCases

\* A refusal ends the countdown of the front and the handler.
LEMMA RefusedPreserved ==
  ASSUME IInv, [Next]_vars
  PROVE  RefusedWaits'
<1> USE DEF IInv, RefusedWaits
<1>1. ASSUME NEW id \in WindowIds, NEW h \in Seat, NEW able \in SUBSET Actor,
             OpenWindow(id, h, able)
      PROVE  RefusedWaits'
  BY <1>1 DEF OpenWindow
<1>2. ASSUME NEW used \in BOOLEAN, NEW status \in Status, Answer(used, status)
      PROVE  RefusedWaits'
  BY <1>2 DEF Answer, Moved
<1>3. ASSUME RejectedAnswer \/ AutoPass \/ StartDeadline \/ CombatGoesOn
      PROVE  RefusedWaits'
  BY <1>3
  DEF RejectedAnswer, AutoPass, Moved, StartDeadline, CombatGoesOn, engine,
      Current, Names
<1>4. ASSUME NEW t \in timers, FireTimer(t)
      PROVE  RefusedWaits'
  <2>1. CASE TimerPasses(t)
    BY <2>1 DEF TimerPasses, Moved
  <2>2. CASE TimerRefused(t)
    BY <1>4, <2>2 DEF FireTimer, TimerRefused, Cleared, Current, Names
  <2>3. CASE TimerIgnored(t)
    BY <2>3 DEF TimerIgnored, Current, Names
  <2>4. QED
    BY <1>4, <2>1, <2>2, <2>3 DEF FireTimer
<1>5. ASSUME NEW s \in Seat, Hello(s) \/ Disconnect(s) \/ GraceExpires(s)
      PROVE  RefusedWaits'
  <2>1. UNCHANGED <<engine, step>>
    BY <1>5 DEF Hello, Disconnect, GraceExpires
  <2>2. deadline' # None => deadline # None /\ deadline'.window = deadline.window
    <3>1. CASE deadline' = deadline
      BY <3>1
    <3>2. ASSUME Reacting(s), NEW here \in BOOLEAN,
                 deadline' = Known(deadline, here)
          PROVE  deadline # None /\ deadline'.window = deadline.window
      BY <3>2, KnownTyped DEF Reacting, TypeOK
    <3>3. QED
      BY <1>5, <3>1, <3>2 DEF Hello, Disconnect, GraceExpires, countdown
  <2>3. QED
    BY <2>1, <2>2 DEF engine, Current, Names
<1>6. ASSUME Tick
      PROVE  RefusedWaits'
  <2>1. deadline' # None => deadline # None /\ deadline'.window = deadline.window
    BY <1>6 DEF Tick, TypeOK, Deadline
  <2>2. QED
    BY <1>6, <2>1 DEF Tick, engine, Current, Names
<1>7. ASSUME Crash \/ CrashInWorkflow
      PROVE  RefusedWaits'
  BY <1>7 DEF Crash, CrashInWorkflow, engine, Current, Names
<1>8. ASSUME NEW status \in Status, FightGoesOn(status)
      PROVE  RefusedWaits'
  BY <1>8 DEF FightGoesOn, countdown, Current, Names
<1>9. ASSUME RoundAdvances
      PROVE  RefusedWaits'
  BY <1>9 DEF RoundAdvances
<1>10. ASSUME UNCHANGED vars
       PROVE  RefusedWaits'
  BY <1>10 DEF vars, Current, Names
<1>11. QED
  BY <1>1, <1>2, <1>3, <1>4, <1>5, <1>6, <1>7, <1>8, <1>9, <1>10, StepCases

\* A step that keeps deadline and connection and sets no timer keeps the
\* countdown armed, if the window it leaves open is the one whose timer it keeps.
LEMMA ArmedKept ==
  ASSUME CountdownArmed, UNCHANGED <<deadline, connected>>, timers' \subseteq timers,
         Current' => /\ Current
                     /\ \A t \in timers : t.window = deadline.window => t \in timers'
  PROVE  CountdownArmed'
<1> SUFFICES ASSUME deadline # None, connected = "yes" PROVE CountdownArmed'
  BY DEF CountdownArmed
<1> DEFINE due == [window |-> deadline.window, left |-> deadline.left]
           set == {t \in timers : t.window = deadline.window}
<1>1. ~deadline.paused /\ set \subseteq {due} /\ (Current => due \in set)
  BY DEF CountdownArmed
<1>2. {t \in timers' : t.window = deadline.window} \subseteq {due}
  BY <1>1
<1>3. Current' => due \in {t \in timers' : t.window = deadline.window}
  BY <1>1
<1>4. QED
  BY <1>1, <1>2, <1>3 DEF CountdownArmed

\* A presence event resumes the deadline of its seat and sets its timer.
LEMMA HelloArms ==
  ASSUME IInv, NEW s \in Seat, Hello(s)
  PROVE  CountdownArmed'
<1> USE DEF IInv
<1>1. CASE Reacting(s)
  <2> DEFINE d == Known(deadline, TRUE)
  <2>1. d \in Deadline /\ d.paused = FALSE
    BY <1>1, KnownTyped DEF Reacting, TypeOK
  <2>2. {t \in Set(timers, d) : t.window = d.window} =
          {[window |-> d.window, left |-> d.left]}
    BY <2>1, SetTyped DEF TypeOK
  <2>3. deadline' = d /\ timers' = Set(timers, d)
    BY <1>1 DEF Hello, KnownTimers
  <2> HIDE DEF d
  <2>4. QED
    BY <2>1, <2>2, <2>3 DEF CountdownArmed
<1>2. CASE ~Reacting(s)
  BY <1>2, ArmedKept DEF Hello, engine, countdown, Current, Names
<1>3. QED
  BY <1>1, <1>2

\* A timer that fires and is ignored is not the one of the open window.
LEMMA FireArms ==
  ASSUME IInv, NEW t \in timers, FireTimer(t)
  PROVE  CountdownArmed'
<1> USE DEF IInv
<1>1. CASE TimerPasses(t)
  <2>1. deadline' # None => deadline' = deadline /\ ~Current'
    BY <1>1, MovesFollow
  <2>2. connected' = connected /\ timers' \subseteq timers
    BY DEF FireTimer
  <2>3. CASE deadline' = None
    BY <2>3 DEF CountdownArmed
  <2>4. QED
    BY <2>1, <2>2, <2>3, ArmedKept
<1>2. CASE TimerRefused(t)
  <2>1. connected' = connected /\ timers' = timers \ {t} /\ window' = window
    BY <1>2 DEF FireTimer, TimerRefused
  <2>2. CASE deadline' = None
    BY <2>2 DEF CountdownArmed
  <2>3. CASE deadline' # None
    <3>1. deadline' = deadline
      BY <1>2, <2>3 DEF TimerRefused, Cleared
    <3>2. ~Current
      BY <1>2, <2>3 DEF TimerRefused, Cleared, RefusedWaits, Current
    <3>3. QED
      BY <2>1, <3>1, <3>2, ArmedKept DEF Current, Names
  <2>4. QED
    BY <2>2, <2>3
<1>3. CASE TimerIgnored(t)
  <2> SUFFICES ASSUME deadline # None, connected = "yes"
               PROVE  CountdownArmed'
    BY <1>3 DEF FireTimer, TimerIgnored, CountdownArmed
  <2>1. ~deadline.paused
    BY DEF CountdownArmed
  <2>2. Current => HeroWaits
    BY DEF DeadlineFollowsWindow, Current, HeroWaits, TypeOK, Deadline
  <2>3. Current => t.window # deadline.window
    BY <1>3, <2>1, <2>2 DEF TimerIgnored, Valid
  <2>4. /\ UNCHANGED <<deadline, connected, window>>
        /\ timers' = timers \ {t}
    BY <1>3 DEF FireTimer, TimerIgnored
  <2>5. QED
    BY <2>3, <2>4, ArmedKept DEF Current, Names
<1>4. QED
  BY <1>1, <1>2, <1>3 DEF FireTimer

\* Time runs for the deadline and for its timer alike.
LEMMA TickArms ==
  ASSUME IInv, Tick
  PROVE  CountdownArmed'
<1> USE DEF IInv
<1> SUFFICES ASSUME deadline # None, connected = "yes"
             PROVE  CountdownArmed'
  BY DEF Tick, CountdownArmed
<1> DEFINE w == deadline.window
           due == [window |-> w, left |-> Less(deadline.left)]
<1>1. deadline \in Deadline /\ timers \subseteq Timer
  BY DEF TypeOK
<1>2. /\ deadline'.window = w
      /\ deadline'.paused = deadline.paused
      /\ deadline'.left = Less(deadline.left)
  BY <1>1 DEF Tick, Deadline
<1>3. /\ ~deadline.paused
      /\ {t \in timers : t.window = w} \subseteq {[window |-> w, left |-> deadline.left]}
      /\ Current =>
           [window |-> w, left |-> deadline.left] \in {t \in timers : t.window = w}
  BY DEF CountdownArmed
<1>4. \A t \in timers : [t EXCEPT !.left = Less(@)] =
                           [window |-> t.window, left |-> Less(t.left)]
  BY <1>1 DEF Timer
<1>5. timers' = {[t EXCEPT !.left = Less(@)] : t \in timers}
  BY DEF Tick
<1>6. ASSUME NEW x \in timers', x.window = w
      PROVE  x = due
  <2>1. PICK t \in timers : x = [window |-> t.window, left |-> Less(t.left)]
    BY <1>4, <1>5
  <2>2. t \in {y \in timers : y.window = w}
    BY <1>6, <2>1
  <2>3. t.left = deadline.left
    BY <1>3, <2>2
  <2>4. QED
    BY <1>6, <2>1, <2>3
<1>7. ASSUME Current'
      PROVE  due \in timers'
  <2>1. Current
    BY <1>2, <1>7 DEF Tick, engine, Current, Names
  <2>2. PICK t \in timers : t = [window |-> w, left |-> deadline.left]
    BY <1>3, <2>1
  <2>3. [t EXCEPT !.left = Less(@)] = due
    BY <1>4, <2>2
  <2>4. QED
    BY <1>5, <2>3
<1> HIDE DEF w
<1>8. {t \in timers' : t.window = w} \subseteq {due}
  BY <1>6
<1>9. Current' => due \in {t \in timers' : t.window = w}
  BY <1>7
<1>10. QED
  BY <1>2, <1>3, <1>8, <1>9 DEF CountdownArmed

\* Deadline and timer stay together.
LEMMA ArmedPreserved ==
  ASSUME IInv, [Next]_vars
  PROVE  CountdownArmed'
<1> USE DEF IInv
<1>1. ASSUME deadline' = None \/ connected' # "yes"
      PROVE  CountdownArmed'
  BY <1>1 DEF CountdownArmed
<1>2. ASSUME UNCHANGED countdown, window' = window \/ ~Current'
      PROVE  CountdownArmed'
  BY <1>2, ArmedKept DEF countdown, Current, Names
<1>3. ASSUME StartDeadline
      PROVE  CountdownArmed'
  <2> DEFINE d == Begun(Front(window), window.id)
             here == recovery[Front(window)].status = "connected"
             known == IF deadline = None THEN timers
                      ELSE KnownTimers(deadline, here)
  <2>1. d \in Deadline /\ ~d.paused
    BY <1>3, BegunTyped DEF StartDeadline, TypeOK, Window, Begun
  <2>2. here \in BOOLEAN
    OBVIOUS
  <2>3. /\ deadline' = d
        /\ connected' = IF here THEN "yes" ELSE "no"
        /\ timers' = IF here THEN Set(known, d) ELSE known
    BY <1>3 DEF StartDeadline
  <2> HIDE DEF d, here
  <2>4. known \in SUBSET Timer
    BY <2>2, KnownEffectsTyped DEF TypeOK
  <2> HIDE DEF known
  <2>5. {t \in Set(known, d) : t.window = d.window} =
          {[window |-> d.window, left |-> d.left]}
    BY <2>1, <2>4, SetTyped
  <2>6. QED
    BY <2>1, <2>3, <2>5 DEF CountdownArmed
<1>4. ASSUME \/ \E used \in BOOLEAN, status \in Status : Answer(used, status)
             \/ AutoPass
      PROVE  CountdownArmed'
  <2>1. deadline' # None => deadline' = deadline /\ ~Current'
    BY <1>4, MovesFollow
  <2>2. UNCHANGED <<connected, timers>>
    BY <1>4 DEF Answer, AutoPass
  <2>3. CASE deadline' = None
    BY <1>1, <2>3
  <2>4. QED
    BY <2>1, <2>2, <2>3, ArmedKept
<1>5. ASSUME RejectedAnswer
      PROVE  CountdownArmed'
  BY <1>1, <1>5 DEF RejectedAnswer
<1>6. ASSUME NEW s \in Seat, Disconnect(s)
      PROVE  CountdownArmed'
  BY <1>1, <1>2, <1>6 DEF Disconnect, engine
<1>7. ASSUME NEW id \in WindowIds, NEW h \in Seat, NEW able \in SUBSET Actor,
             OpenWindow(id, h, able)
      PROVE  CountdownArmed'
  BY <1>2, <1>7 DEF OpenWindow, Fresh, countdown, Current, Names
<1>8. ASSUME NEW s \in Seat, GraceExpires(s)
      PROVE  CountdownArmed'
  BY <1>2, <1>8 DEF GraceExpires, engine
<1>9. ASSUME NEW status \in Status, FightGoesOn(status)
      PROVE  CountdownArmed'
  BY <1>2, <1>9 DEF FightGoesOn
<1>10. ASSUME RoundAdvances
       PROVE  CountdownArmed'
  BY <1>2, <1>10 DEF RoundAdvances, Current
<1>11. ASSUME CombatGoesOn \/ UNCHANGED vars
       PROVE  CountdownArmed'
  BY <1>2, <1>11 DEF CombatGoesOn, vars, engine, countdown
<1>12. QED
  BY <1>1, <1>3, <1>4, <1>5, <1>6, <1>7, <1>8, <1>9, <1>10, <1>11, StepCases,
     HelloArms, FireArms, TickArms DEF Crash, CrashInWorkflow

\* Memory and record agree on the reacting player.
LEMMA MatchesPreserved ==
  ASSUME IInv, [Next]_vars
  PROVE  ConnectionMatchesRecord'
<1> USE DEF IInv
<1>1. ASSUME deadline' = None
      PROVE  ConnectionMatchesRecord'
  BY <1>1 DEF ConnectionMatchesRecord
<1>2. ASSUME UNCHANGED <<deadline, connected, recovery>>
      PROVE  ConnectionMatchesRecord'
  BY <1>2 DEF ConnectionMatchesRecord
<1>3. ASSUME StartDeadline
      PROVE  ConnectionMatchesRecord'
  <2> DEFINE s == Front(window)
             here == recovery[s].status = "connected"
  <2>1. /\ s \in Seat
        /\ deadline' = Begun(s, window.id)
        /\ connected' = IF here THEN "yes" ELSE "no"
        /\ recovery' = IF deadline = None THEN recovery
                       ELSE KnownRecovery(deadline, here)
    BY <1>3 DEF StartDeadline
  <2>2. (recovery'[s].status = "connected") = here
    <3>1. CASE deadline = None
      BY <2>1, <3>1
    <3>2. CASE deadline # None /\ deadline.seat = s
      <4>1. deadline.paused \in BOOLEAN
        BY <3>2 DEF TypeOK, Deadline
      <4>2. deadline.paused => ~here
        BY <3>2 DEF ConnectionMatchesRecord
      <4>3. recovery' = IF here # deadline.paused THEN recovery
                        ELSE [recovery EXCEPT ![s] = IF here THEN Present ELSE InGrace]
        BY <2>1, <3>2 DEF KnownRecovery
      <4>4. CASE here
        BY <4>1, <4>2, <4>3, <4>4
      <4>5. CASE ~here
        BY <2>1, <4>3, <4>5 DEF TypeOK, InGrace
      <4>6. QED
        BY <4>4, <4>5
    <3>3. CASE deadline # None /\ deadline.seat # s
      BY <2>1, <3>3 DEF KnownRecovery, TypeOK
    <3>4. QED
      BY <3>1, <3>2, <3>3
  <2>3. deadline'.seat = s /\ deadline'.paused = FALSE
    BY <2>1 DEF Begun
  <2> HIDE DEF s, here
  <2>4. QED
    BY <2>1, <2>2, <2>3 DEF ConnectionMatchesRecord
<1>4. ASSUME \/ \E used \in BOOLEAN, status \in Status : Answer(used, status)
             \/ AutoPass
      PROVE  ConnectionMatchesRecord'
  BY <1>1, <1>2, <1>4, MovesFollow DEF Answer, AutoPass, presence
<1>5. ASSUME RejectedAnswer
      PROVE  ConnectionMatchesRecord'
  BY <1>1, <1>5 DEF RejectedAnswer
<1>6. ASSUME NEW t \in timers, FireTimer(t)
      PROVE  ConnectionMatchesRecord'
  <2>1. UNCHANGED <<connected, recovery>>
    BY <1>6 DEF FireTimer, presence
  <2>2. deadline' = None \/ deadline' = deadline
    BY <1>6, MovesFollow
    DEF FireTimer, TimerRefused, TimerIgnored, Cleared
  <2>3. QED
    BY <1>1, <1>2, <2>1, <2>2
<1>7. ASSUME NEW s \in Seat, NEW here \in BOOLEAN,
             recovery' = [recovery EXCEPT ![s] = IF here THEN Present ELSE InGrace],
             \/ /\ Reacting(s)
                /\ connected' = IF here THEN "yes" ELSE "no"
                /\ deadline' = Known(deadline, here)
             \/ ~Reacting(s) /\ UNCHANGED countdown
      PROVE  ConnectionMatchesRecord'
  <2>1. CASE Reacting(s) /\ deadline' = Known(deadline, here)
    <3>1. deadline'.seat = s /\ deadline'.paused = ~here
      BY <2>1, KnownTyped DEF Reacting, TypeOK
    <3>2. (recovery'[s].status = "connected") = here
      BY <1>7 DEF TypeOK, Present, InGrace
    <3>3. connected' = IF here THEN "yes" ELSE "no"
      BY <1>7, <2>1
    <3>4. QED
      BY <3>1, <3>2, <3>3 DEF ConnectionMatchesRecord
  <2>2. CASE ~Reacting(s) /\ UNCHANGED countdown
    <3>1. deadline # None =>
            deadline.seat \in Seat /\ recovery'[deadline.seat] = recovery[deadline.seat]
      BY <1>7, <2>2 DEF Reacting, TypeOK, Deadline
    <3>2. QED
      BY <2>2, <3>1 DEF ConnectionMatchesRecord, countdown
  <2>3. QED
    BY <1>7, <2>1, <2>2
<1>8. ASSUME NEW s \in Seat, Hello(s)
      PROVE  ConnectionMatchesRecord'
  BY <1>7, <1>8 DEF Hello
<1>9. ASSUME NEW s \in Seat, Disconnect(s)
      PROVE  ConnectionMatchesRecord'
  BY <1>7, <1>9 DEF Disconnect
<1>10. ASSUME NEW s \in Seat, GraceExpires(s)
       PROVE  ConnectionMatchesRecord'
  <2>1. \A x \in Seat : (recovery'[x].status = "connected") =
                          (recovery[x].status = "connected")
    BY <1>10 DEF GraceExpires, TypeOK, Required
  <2>2. deadline # None => deadline.seat \in Seat
    BY DEF TypeOK, Deadline
  <2>3. QED
    BY <1>10, <2>1, <2>2 DEF GraceExpires, countdown, ConnectionMatchesRecord
<1>11. ASSUME Tick
       PROVE  ConnectionMatchesRecord'
  <2>1. CASE deadline = None
    BY <1>1, <1>11, <2>1 DEF Tick
  <2>2. CASE deadline # None
    <3>1. deadline \in Deadline
      BY <2>2 DEF TypeOK
    <3>2. deadline'.seat = deadline.seat /\ deadline'.paused = deadline.paused
      BY <1>11, <2>2, <3>1 DEF Tick, Deadline
    <3>3. recovery'[deadline.seat].status = recovery[deadline.seat].status
      BY <1>11, <3>1 DEF Tick, TypeOK, Deadline, Recovery
    <3>4. QED
      BY <1>11, <2>2, <3>2, <3>3 DEF Tick, ConnectionMatchesRecord
  <2>3. QED
    BY <2>1, <2>2
<1>12. ASSUME NEW id \in WindowIds, NEW h \in Seat, NEW able \in SUBSET Actor,
             OpenWindow(id, h, able)
       PROVE  ConnectionMatchesRecord'
  BY <1>2, <1>12 DEF OpenWindow, presence, countdown
<1>13. ASSUME Crash \/ CrashInWorkflow
       PROVE  ConnectionMatchesRecord'
  BY <1>13 DEF Crash, CrashInWorkflow, ConnectionMatchesRecord
<1>14. ASSUME CombatGoesOn \/ RoundAdvances \/ UNCHANGED vars
       PROVE  ConnectionMatchesRecord'
  BY <1>2, <1>14 DEF CombatGoesOn, RoundAdvances, vars, presence, countdown
<1>15. ASSUME NEW status \in Status, FightGoesOn(status)
       PROVE  ConnectionMatchesRecord'
  BY <1>2, <1>15 DEF FightGoesOn, presence, countdown
<1>16. QED
  BY <1>3, <1>4, <1>5, <1>6, <1>8, <1>9, <1>10, <1>11, <1>12, <1>13, <1>14,
     <1>15, StepCases

\* A grace that was promised is timed by its own timer.
LEMMA GraceTimedPreserved ==
  ASSUME IInv, [Next]_vars
  PROVE  GraceTimed'
<1> USE DEF IInv
<1>1. ASSUME UNCHANGED presence
      PROVE  GraceTimed'
  BY <1>1 DEF presence, GraceTimed
<1>2. ASSUME NEW s \in Seat, Hello(s)
      PROVE  GraceTimed'
  BY <1>2 DEF Hello, GraceTimed, GraceUnset, TypeOK
<1>3. ASSUME NEW s \in Seat, Disconnect(s)
      PROVE  GraceTimed'
  BY <1>3 DEF Disconnect, GraceTimed, GraceSet, InGrace, TypeOK
<1>4. ASSUME NEW s \in Seat, GraceExpires(s)
      PROVE  GraceTimed'
  BY <1>4 DEF GraceExpires, GraceTimed, Required, TypeOK
<1>5. ASSUME Tick
      PROVE  GraceTimed'
  <2> SUFFICES ASSUME NEW s \in Seat \ misled, recovery'[s].status = "grace"
               PROVE  graceTimers'[s] \subseteq {recovery'[s].left}
    BY <1>5 DEF Tick, GraceTimed
  <2>1. /\ recovery'[s].status = recovery[s].status
        /\ recovery'[s].left = Less(recovery[s].left)
    BY <1>5 DEF Tick, TypeOK, Recovery
  <2>2. graceTimers'[s] = {Less(g) : g \in graceTimers[s]}
    BY <1>5 DEF Tick
  <2>3. graceTimers[s] \subseteq {recovery[s].left}
    BY <2>1 DEF GraceTimed
  <2>4. QED
    BY <2>1, <2>2, <2>3
<1>6. ASSUME Crash \/ CrashInWorkflow
      PROVE  GraceTimed'
  BY <1>6 DEF Crash, CrashInWorkflow, GraceTimed
<1>7. ASSUME StartDeadline
      PROVE  GraceTimed'
  <2>1. /\ misled' = misled \cup {r \in Seat : recovery'[r] # recovery[r]}
        /\ graceTimers' = graceTimers
    BY <1>7 DEF StartDeadline
  <2>2. QED
    BY <2>1 DEF GraceTimed
<1>8. QED
  BY <1>1, <1>2, <1>3, <1>4, <1>5, <1>6, <1>7, StepCases
  DEF presence, OpenWindow, Answer, RejectedAnswer, FightGoesOn, RoundAdvances,
      AutoPass, CombatGoesOn, FireTimer, vars

\* The invariant is inductive.
LEMMA StepInvariant == IInv /\ [Next]_vars => IInv'
<1> SUFFICES ASSUME IInv, [Next]_vars PROVE IInv'
  OBVIOUS
<1>1. TypeOK'
  BY TypesPreserved DEF IInv
<1>2. QED
  BY <1>1, FollowsPreserved, ArmedPreserved, MatchesPreserved,
     GraceTimedPreserved, HandlerInFightPreserved, StalePreserved,
     RefusedPreserved DEF IInv

LEMMA Invariance == Spec => []IInv
  BY InitInvariant, StepInvariant, PTL DEF Spec

\* A forced pass comes when it is due: the timer that fires is the one of the
\* pending deadline, which has run out, and the host's memory of the connection
\* is what the room records.  A stale deadline is pending beside an open window
\* only after a death of the host.
LEMMA StepTimeoutIsDue ==
  ASSUME IInv, [Next]_vars, forced', window' # window
  PROVE  /\ deadline # None
         /\ deadline.left = 0
         /\ ~deadline.paused
         /\ recovery[deadline.seat].status = "connected"
         /\ \/ Current /\ deadline.seat = Front(window)
            \/ overtaken /\ disturbed = "died"
<1> USE DEF IInv
<1>1. PICK t \in timers : FireTimer(t)
  BY StepCases
  DEF OpenWindow, Answer, RejectedAnswer, FightGoesOn, RoundAdvances, AutoPass,
      StartDeadline, CombatGoesOn, Hello, Disconnect, GraceExpires, Tick, Crash,
      CrashInWorkflow, vars
<1>2. TimerPasses(t) /\ t.left = 0
  BY <1>1 DEF FireTimer, TimerIgnored, TimerRefused
<1>3. /\ connected = "yes" /\ deadline # None /\ ~deadline.paused
      /\ deadline.window = t.window
  BY <1>2 DEF TimerPasses, Valid
<1>4. \/ Current /\ deadline.seat = Front(window)
      \/ overtaken /\ disturbed = "died"
  BY <1>2, <1>3 DEF DeadlineFollowsWindow, StaleAfterDeath, TimerPasses, HeroWaits
<1>5. t = [window |-> deadline.window, left |-> deadline.left]
  BY <1>3 DEF CountdownArmed
<1>6. deadline.left = 0
  BY <1>2, <1>5
<1>7. recovery[deadline.seat].status = "connected"
  BY <1>3 DEF ConnectionMatchesRecord
<1>8. QED
  BY <1>3, <1>4, <1>6, <1>7

\* Grace ends only by its timer, which is the recorded grace.
LEMMA StepGraceKept ==
  ASSUME IInv, [Next]_vars, NEW s \in Seat \ misled,
         recovery[s].status = "grace",
         recovery'[s].status = "recovery_required"
  PROVE  recovery[s].left = 0
<1> USE DEF IInv
<1>1. recovery \in [Seat -> Recovery]
  BY DEF TypeOK
<1>2. recovery' # recovery
  OBVIOUS
<1>3. ASSUME NEW x \in Seat, Hello(x)
      PROVE  FALSE
  BY <1>1, <1>3 DEF Hello, Present
<1>4. ASSUME NEW x \in Seat, Disconnect(x)
      PROVE  FALSE
  BY <1>1, <1>4 DEF Disconnect, InGrace
<1>5. ASSUME Tick
      PROVE  FALSE
  <2>1. recovery'[s] = [recovery[s] EXCEPT !.left = Less(@)]
    BY <1>5 DEF Tick
  <2>2. recovery'[s].status = recovery[s].status
    BY <1>1, <2>1 DEF Recovery
  <2>3. QED
    BY <2>2
<1>6. ASSUME UNCHANGED recovery
      PROVE  FALSE
  BY <1>2, <1>6
<1>7. ASSUME StartDeadline
      PROVE  FALSE
  <2>1. PICK here \in BOOLEAN :
          recovery' = IF deadline = None THEN recovery ELSE KnownRecovery(deadline, here)
    BY <1>7 DEF StartDeadline
  <2>2. QED
    BY <1>1, <2>1 DEF KnownRecovery, Present, InGrace
<1>8. PICK x \in Seat : GraceExpires(x)
  BY <1>3, <1>4, <1>5, <1>6, <1>7, StepCases
  DEF OpenWindow, Answer, RejectedAnswer, FightGoesOn, RoundAdvances, AutoPass,
      CombatGoesOn, FireTimer, Crash, CrashInWorkflow, presence, vars
<1>9. x = s
  BY <1>1, <1>8 DEF GraceExpires
<1>10. QED
  BY <1>8, <1>9 DEF GraceExpires, GraceTimed

-----------------------------------------------------------------------------
\* The window, the deadline, the recoveries and the timers keep their shapes,
\* and an open window always has somebody to ask (decideResolveReaction).
THEOREM DeadlineTypesCorrect == Spec => []TypeOK
  BY Invariance, PTL DEF IInv

\* A deadline of the room is the one of the hero the engine asks, across answers,
\* refusals, timeouts and restarts; only a round that advances under it leaves it
\* behind, and it is never taken for one of a later window
\* (#continueReactionOrCombat, #finalize, round_advanced).
THEOREM DeadlineIsOfFront == Spec => []DeadlineFollowsWindow
  BY Invariance, PTL DEF IInv

\* A host that knows the reacting player to be connected has one timer for the
\* open window, due when the deadline is, and for a stale deadline at most that
\* (ReactionDeadlineService.#schedule).
THEOREM TimerIsArmed == Spec => []CountdownArmed
  BY Invariance, PTL DEF IInv

\* The host's memory of the connection agrees with the recoveries, also when a
\* stale deadline is paused or resumed for another hero's countdown
\* (setConnectionKnown, noteParticipantConnection).
THEOREM MemoryMatchesRecord == Spec => []ConnectionMatchesRecord
  BY Invariance, PTL DEF IInv

\* A pass is forced only when a countdown is over whose player the room records
\* as connected, and on its hero, unless a stale one outlived the host
\* (#resolveReactionTimeout).
THEOREM TimeoutsAreDue == Spec => TimeoutIsDue
<1>1. IInv /\ [Next]_vars =>
        [forced' /\ window' # window =>
           /\ deadline # None
           /\ deadline.left = 0
           /\ ~deadline.paused
           /\ recovery[deadline.seat].status = "connected"
           /\ \/ Current /\ deadline.seat = Front(window)
              \/ overtaken /\ disturbed = "died"]_vars
  BY StepTimeoutIsDue
<1>2. QED
  BY <1>1, Invariance, PTL DEF Spec, TimeoutIsDue

\* A seat needs recovery only when its last promised grace is over, unless a
\* stale deadline rewrote its record (noteParticipantConnection).
THEOREM GraceIsKept == Spec => GraceKept
<1>1. IInv /\ [Next]_vars =>
        [\A s \in Seat \ misled :
           recovery[s].status = "grace" /\ recovery'[s].status = "recovery_required"
             => recovery[s].left = 0]_vars
  BY StepGraceKept
<1>2. QED
  BY <1>1, Invariance, PTL DEF Spec, GraceKept
=============================================================================
