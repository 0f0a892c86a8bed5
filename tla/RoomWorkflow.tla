---------------------------- MODULE RoomWorkflow ----------------------------
(***************************************************************************)
(* The durable room-to-engine workflow of packages/runtime/src/application *)
(* (room-workflows.ts over room-coordinator.ts and coordinator.ts) with    *)
(* its two event streams, the room stream and the mechanical stream, which *)
(* are committed by separate SQLite transactions.                          *)
(*                                                                         *)
(* DurableRoomWorkflowService.submit commits the start of a workflow in    *)
(* the room stream, then the derived game command in the mechanical        *)
(* stream, then the final room transaction that links the two.  The code   *)
(* is synchronous, so one call runs at a time (`call'); only a crash or an *)
(* exception separates its commits, and what is committed survives it.     *)
(*                                                                         *)
(* Room revision and view revision move together (applyRoomEvent adds one  *)
(* to each), so one variable stands for both; a command still names both.  *)
(***************************************************************************)
EXTENDS Naturals

CONSTANTS
  Mechanic,        \* client command ids whose intent needs the engine
  System,          \* those of them the host itself submits (source "system")
  RoomOnly,        \* client command ids of room-only intents
  Exempt,          \* those of them a busy room still decides: request_join,
                   \* select_seat, cancel_correction
  Nil,             \* "no value"
  ExactRetryOf,    \* outcomes whose stored bytes a caller may present again
  EngineMayFail,   \* the game store may refuse to commit (readiness, exception)
  MaxExtra,        \* bound: further events a room transaction may carry
  MaxDomainEvents, \* bound: domain events of an accepted game command
  MaxNarration,    \* bound: system room events stop at this room revision
  MaxCrashes       \* bound: crashes of the process in the middle of a call

ASSUME ConstantsAssumption ==
  /\ System \subseteq Mechanic
  /\ Exempt \subseteq RoomOnly
  /\ Mechanic \cap RoomOnly = {}
  /\ Nil \notin Mechanic
  /\ ExactRetryOf \subseteq {"accepted", "rejected"}
  /\ EngineMayFail \in BOOLEAN
  /\ MaxExtra \in Nat
  /\ MaxDomainEvents \in Nat \ {0}
  /\ MaxNarration \in Nat
  /\ MaxCrashes \in Nat

VARIABLES
  roomRevision,       \* RoomState.room_revision, and view_revision
  mechanicalRevision, \* RoomState.mechanical_revision: the room's last link
  pendingWorkflow,    \* RoomState.pending_workflow: its command, or Nil
  pendingStatus,      \* RoomState.pending_workflow.status
  seatHeld,           \* does the author of a mechanic own the seat it names
  roomCommands,       \* room_commands: bytes and outcome by client command
  finals,             \* room_commands of the finalize ids: expected revision
  rows,               \* mechanical_workflows
  gameRevision,       \* head revision of the mechanical stream
  gameCommands,       \* commands of the mechanical stream with their range
  call,               \* the service call in progress (lost in a crash)
  told,               \* history: what the callers of submit were answered
  crashes             \* history: crashes so far

roomVars == <<roomRevision, mechanicalRevision, pendingWorkflow,
              pendingStatus, seatHeld, roomCommands, finals, rows>>
gameVars == <<gameRevision, gameCommands>>
vars == <<roomVars, gameVars, call, told, crashes>>

ClientCommand == Mechanic \cup RoomOnly
Bytes == [room : Nat, view : Nat]
StoredCommand == [bytes : Bytes, outcome : {"accepted", "rejected"}]
Row == [status : {"absent", "pending", "completed", "failed"},
        expected : Nat, last : Nat]
StoredGame == [expected : Nat, outcome : {"accepted", "rejected"},
               first : Nat, last : Nat]

\* No stored value is mistaken for its absence.
ASSUME NilAssumption == Nil \notin StoredCommand \cup StoredGame \cup Nat

Answer == [kind : {"rejected", "pending_recovery", "failed", "done"},
           last : Nat]
Call == [at : {"idle", "started", "decided"}, command : Mechanic \cup {Nil},
         expected : Nat, committed : BOOLEAN, last : Nat,
         recovering : BOOLEAN]
NoRow == [status |-> "absent", expected |-> 0, last |-> 0]
Idle == [at |-> "idle", command |-> Nil, expected |-> 0, committed |-> FALSE,
         last |-> 0, recovering |-> FALSE]

Init ==
  /\ roomRevision = 1
  /\ mechanicalRevision = 0
  /\ pendingWorkflow = Nil
  /\ pendingStatus = "none"
  /\ seatHeld = [c \in Mechanic \ System |-> TRUE]
  /\ roomCommands = [c \in ClientCommand |-> Nil]
  /\ finals = [c \in Mechanic |-> Nil]
  /\ rows = [c \in Mechanic |-> NoRow]
  /\ gameRevision = 0
  /\ gameCommands = [c \in Mechanic |-> Nil]
  /\ call = Idle
  /\ told = [c \in Mechanic |-> {}]
  /\ crashes = 0

-----------------------------------------------------------------------------
(* Room coordinator: identity lookup, staleness and the busy rule.         *)

\* The bytes a caller may present for client command c.  The host stamps the
\* current room revision on whatever the client sends, with the view revision
\* the client last saw (0 is older than any view); the runtime service also
\* accepts an exact retry of the bytes it stored.
Offered(c) ==
  [room : {roomRevision},
   view : IF c \in System THEN {roomRevision} ELSE {0, roomRevision}]
    \cup (IF roomCommands[c] = Nil THEN {}
          ELSE IF roomCommands[c].outcome \in ExactRetryOf
               THEN {roomCommands[c].bytes} ELSE {})

\* Mutants: only accepted commands are looked up; the bytes are not compared.
BoundIfAccepted(c) ==
  roomCommands[c] # Nil /\ roomCommands[c].outcome = "accepted"
ReplaysAnyBytes(c, b) == roomCommands[c] # Nil

Bound(c) == roomCommands[c] # Nil
Replays(c, b) == Bound(c) /\ roomCommands[c].bytes = b
Collides(c, b) == Bound(c) /\ roomCommands[c].bytes # b
Stale(b) == b.room # roomRevision \/ b.view # roomRevision

Busy(c) == pendingWorkflow # Nil /\ c \notin System \cup Exempt

\* One room transaction of n contiguous events that binds c to bytes b.
CommitRoom(c, b, outcome, n) ==
  /\ roomRevision' = roomRevision + n
  /\ roomCommands' = [roomCommands EXCEPT
                        ![c] = [bytes |-> b, outcome |-> outcome]]

Tell(c, kind, last) ==
  told' = [told EXCEPT ![c] = @ \cup {[kind |-> kind, last |-> last]}]

-----------------------------------------------------------------------------
(* DurableRoomWorkflowService.submit up to the room commit.                *)

Unowned == {c \in Mechanic \ System : ~seatHeld[c]}
Eligible(c) == call = Idle /\ c \notin Unowned

\* The seat check comes before everything else, the identity lookup included.
RefuseUnowned(c) ==
  /\ call = Idle
  /\ c \in Unowned
  /\ Tell(c, "rejected", 0)
  /\ UNCHANGED <<roomVars, gameVars, call, crashes>>

RefuseCollision(c, b) ==
  /\ Eligible(c)
  /\ Collides(c, b)
  /\ Tell(c, "rejected", 0)
  /\ UNCHANGED <<roomVars, gameVars, call, crashes>>

\* A stale or busy submission is committed as one rejection event.
RefuseStaleOrBusy(c, b) ==
  /\ Eligible(c)
  /\ ~Bound(c)
  /\ Stale(b) \/ Busy(c)
  /\ CommitRoom(c, b, "rejected", 1)
  /\ Tell(c, "rejected", 0)
  /\ UNCHANGED <<mechanicalRevision, pendingWorkflow, pendingStatus, seatHeld,
                 finals, rows, gameVars, call, crashes>>

\* The room transaction that starts the workflow stores the derived game
\* command with it.  A system command meets no busy rule, but the event
\* applier refuses a second pending workflow: nothing is committed then.
StartWorkflow(c, b) ==
  /\ Eligible(c)
  /\ ~Bound(c)
  /\ ~Stale(b)
  /\ pendingWorkflow = Nil
  /\ \E extra \in 0..MaxExtra : CommitRoom(c, b, "accepted", 1 + extra)
  /\ pendingWorkflow' = c
  /\ pendingStatus' = "pending"
  /\ rows' = [rows EXCEPT ![c] = [status |-> "pending",
                                  expected |-> mechanicalRevision,
                                  last |-> 0]]
  /\ call' = [Idle EXCEPT !.at = "started", !.command = c,
                          !.expected = mechanicalRevision]
  /\ UNCHANGED <<mechanicalRevision, seatHeld, finals, gameVars, told,
                 crashes>>

\* Mutant: any exact retry is answered from its row.
ReplayAnyRow(c, b) ==
  /\ Eligible(c)
  /\ Replays(c, b)
  /\ Tell(c, "done", rows[c].last)
  /\ UNCHANGED <<roomVars, gameVars, call, crashes>>

\* An exact retry of a finished workflow is answered from its row.
ReplayCompleted(c, b) ==
  /\ Eligible(c)
  /\ Replays(c, b)
  /\ rows[c].status = "completed"
  /\ Tell(c, "done", rows[c].last)
  /\ UNCHANGED <<roomVars, gameVars, call, crashes>>

\* Any other exact retry goes on to the engine, with a game command mapped
\* from the room as it is now; the stored outcome is not consulted.
ReplayUnfinished(c, b) ==
  /\ Eligible(c)
  /\ Replays(c, b)
  /\ rows[c].status # "completed"
  /\ call' = [Idle EXCEPT !.at = "started", !.command = c,
                          !.expected = mechanicalRevision]
  /\ UNCHANGED <<roomVars, gameVars, told, crashes>>

\* Mutant: rows whose game command is already committed are passed over.
RecoverUnexecuted(c) ==
  /\ call = Idle
  /\ rows[c].status = "pending"
  /\ gameCommands[c] = Nil
  /\ call' = [Idle EXCEPT !.at = "started", !.command = c,
                          !.expected = rows[c].expected, !.recovering = TRUE]
  /\ UNCHANGED <<roomVars, gameVars, told, crashes>>

\* recoverPending resubmits the stored game command of a pending row.
RecoverPending(c) ==
  /\ call = Idle
  /\ rows[c].status = "pending"
  /\ call' = [Idle EXCEPT !.at = "started", !.command = c,
                          !.expected = rows[c].expected, !.recovering = TRUE]
  /\ UNCHANGED <<roomVars, gameVars, told, crashes>>

-----------------------------------------------------------------------------
(* CommandCoordinator.submit: one immediate transaction on the game store. *)

\* Mutant: the outcome names the head from before the commit.
OutcomeAtOldHead(committed, last) ==
  call' = [call EXCEPT !.at = "decided", !.committed = committed,
                       !.last = gameRevision]

Outcome(committed, last) ==
  call' = [call EXCEPT !.at = "decided", !.committed = committed,
                       !.last = last]

\* A commit of n contiguous events: the audit event and the domain events.
CommitGame(c, outcome, n) ==
  /\ gameRevision' = gameRevision + n
  /\ gameCommands' = [gameCommands EXCEPT
                        ![c] = [expected |-> call.expected,
                                outcome |-> outcome,
                                first |-> gameRevision + 1,
                                last |-> gameRevision + n]]
  /\ Outcome(TRUE, gameRevision + n)

AtEngine(c) == call.at = "started" /\ call.command = c

GameReplay(c) ==
  /\ AtEngine(c)
  /\ gameCommands[c] # Nil
  /\ gameCommands[c].expected = call.expected
  /\ Outcome(TRUE, gameCommands[c].last)
  /\ UNCHANGED <<roomVars, gameVars, told, crashes>>

GameCollision(c) ==
  /\ AtEngine(c)
  /\ gameCommands[c] # Nil
  /\ gameCommands[c].expected # call.expected
  /\ Outcome(FALSE, 0)
  /\ UNCHANGED <<roomVars, gameVars, told, crashes>>

\* Mutant: a stale command is rejected before its identity is looked up.
GameRejectFirst(c) ==
  /\ AtEngine(c)
  /\ CommitGame(c, "rejected", 1)
  /\ UNCHANGED <<roomVars, told, crashes>>

\* A stale expected revision and an engine refusal commit one event each.
GameReject(c) ==
  /\ AtEngine(c)
  /\ gameCommands[c] = Nil
  /\ CommitGame(c, "rejected", 1)
  /\ UNCHANGED <<roomVars, told, crashes>>

GameAccept(c) ==
  /\ AtEngine(c)
  /\ gameCommands[c] = Nil
  /\ call.expected = gameRevision
  /\ \E n \in 1..MaxDomainEvents : CommitGame(c, "accepted", 1 + n)
  /\ UNCHANGED <<roomVars, told, crashes>>

\* Store not ready, or an exception anywhere in the transaction.
GameFail(c) ==
  /\ EngineMayFail
  /\ AtEngine(c)
  /\ Outcome(FALSE, 0)
  /\ UNCHANGED <<roomVars, gameVars, told, crashes>>

-----------------------------------------------------------------------------
(* DurableRoomWorkflowService.#finalize: the second room transaction.      *)

AtFinal(c) == call.at = "decided" /\ call.command = c

Answered(c, kind, last) ==
  IF call.recovering THEN UNCHANGED told ELSE Tell(c, kind, last)

\* Mutant: the row keeps its status.
FinalizeKeepsRow(c, status) ==
  /\ finals[c] = Nil
  /\ pendingWorkflow = c
  /\ rows[c].status = "pending"
  /\ finals' = [finals EXCEPT ![c] = roomRevision]
  /\ rows' = [rows EXCEPT ![c].last = call.last]

\* The finalize command id is derived from the workflow, its bytes name the
\* current revision, the room must still wait for c and the row be pending.
Finalize(c, status) ==
  /\ finals[c] = Nil
  /\ pendingWorkflow = c
  /\ rows[c].status = "pending"
  /\ finals' = [finals EXCEPT ![c] = roomRevision]
  /\ rows' = [rows EXCEPT ![c] = [@ EXCEPT !.status = status,
                                        !.last = call.last]]

CompleteWorkflow(c) ==
  /\ AtFinal(c)
  /\ call.committed
  /\ Finalize(c, "completed")
  /\ \E extra \in 0..MaxExtra : roomRevision' = roomRevision + 1 + extra
  /\ pendingWorkflow' = Nil
  /\ pendingStatus' = "none"
  /\ mechanicalRevision' = call.last
  /\ Answered(c, "done", call.last)
  /\ call' = Idle
  /\ UNCHANGED <<seatHeld, roomCommands, gameVars, crashes>>

\* A failure event leaves pending_workflow in place, marked failed.
FailWorkflow(c) ==
  /\ AtFinal(c)
  /\ ~call.committed
  /\ Finalize(c, "failed")
  /\ roomRevision' = roomRevision + 1
  /\ pendingStatus' = "failed"
  /\ Answered(c, "failed", 0)
  /\ call' = Idle
  /\ UNCHANGED <<mechanicalRevision, pendingWorkflow, seatHeld, roomCommands,
                 gameVars, crashes>>

FinalizeCollision(c) ==
  /\ AtFinal(c)
  /\ finals[c] # Nil
  /\ finals[c] # roomRevision
  /\ Answered(c, "pending_recovery", 0)
  /\ call' = Idle
  /\ UNCHANGED <<roomVars, gameVars, crashes>>

\* applyRoomEvent throws: the room does not wait for this workflow.
FinalizeThrows(c) ==
  /\ AtFinal(c)
  /\ finals[c] = Nil
  /\ pendingWorkflow # c
  /\ call' = Idle
  /\ UNCHANGED <<roomVars, gameVars, told, crashes>>

-----------------------------------------------------------------------------
(* Everything else that moves the room stream.                             *)

\* decideRoomOnlyCommand may refuse for a reason of its own; a stale or busy
\* command is refused before it is asked.
RejectRoomCommand(d, b) ==
  /\ call = Idle
  /\ ~Bound(d)
  /\ CommitRoom(d, b, "rejected", 1)
  /\ UNCHANGED <<mechanicalRevision, pendingWorkflow, pendingStatus, seatHeld,
                 finals, rows, gameVars, call, told, crashes>>

\* Claims, releases and reassignments change who holds the seats.
AcceptRoomCommand(d, b) ==
  /\ call = Idle
  /\ ~Bound(d)
  /\ ~Stale(b)
  /\ ~Busy(d)
  /\ \E extra \in 0..MaxExtra : CommitRoom(d, b, "accepted", 1 + extra)
  /\ IF d \in Exempt THEN UNCHANGED seatHeld
     ELSE seatHeld' \in [Mechanic \ System -> BOOLEAN]
  /\ UNCHANGED <<mechanicalRevision, pendingWorkflow, pendingStatus, finals,
                 rows, gameVars, call, told, crashes>>

\* Narration, beats, deadlines and recovery notices: system commands stamped
\* with the current revision.
SystemRoomEvent ==
  /\ call = Idle
  /\ roomRevision < MaxNarration
  /\ roomRevision' = roomRevision + 1
  /\ UNCHANGED <<mechanicalRevision, pendingWorkflow, pendingStatus, seatHeld,
                 roomCommands, finals, rows, gameVars, call, told, crashes>>

\* The process dies, or an exception leaves the call, between two commits.
Crash ==
  /\ call # Idle
  /\ crashes < MaxCrashes
  /\ crashes' = crashes + 1
  /\ call' = Idle
  /\ UNCHANGED <<roomVars, gameVars, told>>

-----------------------------------------------------------------------------

Submit(c) ==
  \/ RefuseUnowned(c)
  \/ \E b \in Offered(c) :
       \/ RefuseCollision(c, b)
       \/ RefuseStaleOrBusy(c, b)
       \/ StartWorkflow(c, b)
       \/ ReplayCompleted(c, b)
       \/ ReplayUnfinished(c, b)

Engine(c) ==
  GameReplay(c) \/ GameCollision(c) \/ GameReject(c) \/ GameAccept(c)
    \/ GameFail(c)

Settle(c) ==
  CompleteWorkflow(c) \/ FailWorkflow(c) \/ FinalizeCollision(c)
    \/ FinalizeThrows(c)

SubmitRoomOnly(d) ==
  \E b \in Offered(d) : RejectRoomCommand(d, b) \/ AcceptRoomCommand(d, b)

Next ==
  \/ \E c \in Mechanic :
       Submit(c) \/ RecoverPending(c) \/ Engine(c) \/ Settle(c)
  \/ \E d \in RoomOnly : SubmitRoomOnly(d)
  \/ SystemRoomEvent
  \/ Crash

Spec == Init /\ [][Next]_vars

\* A call that has begun runs on unless the process dies, and a restarted
\* host resumes by calling recoverPending before it takes any input.
Fairness ==
  /\ \A c \in Mechanic : WF_vars(Engine(c)) /\ WF_vars(Settle(c))
  /\ \A c \in Mechanic : SF_vars(RecoverPending(c))

FairSpec == Spec /\ Fairness
-----------------------------------------------------------------------------
(* Correctness.                                                            *)

\* Every variable stays in its type; counters are naturals, tables total.
TypeOK ==
  /\ roomRevision \in Nat \ {0}
  /\ mechanicalRevision \in Nat
  /\ pendingWorkflow \in Mechanic \cup {Nil}
  /\ pendingStatus \in {"none", "pending", "failed"}
  /\ seatHeld \in [Mechanic \ System -> BOOLEAN]
  /\ roomCommands \in [ClientCommand -> StoredCommand \cup {Nil}]
  /\ finals \in [Mechanic -> Nat \cup {Nil}]
  /\ rows \in [Mechanic -> Row]
  /\ gameRevision \in Nat
  /\ gameCommands \in [Mechanic -> StoredGame \cup {Nil}]
  /\ call \in Call
  /\ told \in [Mechanic -> SUBSET Answer]
  /\ crashes \in Nat

\* At most one workflow of the room is unresolved: the room waits for a
\* workflow exactly when its row is unresolved, and both agree on its status
\* (room-replay.ts against the mechanical_workflows table, across crashes).
OneUnresolved ==
  /\ (pendingWorkflow = Nil) <=> (pendingStatus = "none")
  /\ \A c \in Mechanic :
       (pendingWorkflow = c) <=> (rows[c].status \in {"pending", "failed"})
  /\ \A c \in Mechanic :
       pendingWorkflow = c => pendingStatus = rows[c].status

\* The two streams are linked whenever nothing is unresolved, which is what
\* RoomApplication.resume verifies before it accepts input; while a workflow
\* is unresolved the mechanical stream is ahead by its transaction at most.
Linkage ==
  /\ pendingWorkflow = Nil => mechanicalRevision = gameRevision
  /\ \A c \in Mechanic :
       pendingWorkflow = c =>
         IF gameCommands[c] = Nil
         THEN mechanicalRevision = gameRevision
         ELSE /\ gameCommands[c].first = mechanicalRevision + 1
              /\ gameCommands[c].last = gameRevision

\* The transactions of the mechanical stream tile its revisions: nothing is
\* executed twice, overwritten or lost, whatever is retried or recovered.
MechanicalStreamContiguous ==
  \A r \in 1..gameRevision :
    \E c \in Mechanic :
      /\ gameCommands[c] # Nil
      /\ r \in gameCommands[c].first..gameCommands[c].last
      /\ \A d \in Mechanic \ {c} :
           gameCommands[d] # Nil =>
             r \notin gameCommands[d].first..gameCommands[d].last

\* Success is acknowledged only after the final room transaction, and every
\* acknowledgement of a command, retried or not, names the one transaction
\* that executed it.
AckAfterFinalization ==
  \A c \in Mechanic : \A a \in told[c] :
    a.kind = "done" =>
      /\ rows[c].status = "completed"
      /\ gameCommands[c] # Nil
      /\ a.last = gameCommands[c].last
      /\ a.last <= mechanicalRevision

\* A command the room stream records as rejected never reaches the engine's
\* stream, however often it is retried.
RejectedNeverExecutes ==
  \A c \in Mechanic :
    (roomCommands[c] # Nil /\ roomCommands[c].outcome = "rejected")
      => gameCommands[c] = Nil

\* Nobody gains or loses a seat while a mechanic that was authorised by the
\* seat's owner is unresolved (the busy rule of RoomCoordinator.submit).
RosterFrozen ==
  [][(pendingWorkflow # Nil /\ pendingWorkflow' = pendingWorkflow)
       => seatHeld' = seatHeld]_vars

\* A command identity is bound for ever to its bytes, its outcome and its
\* transaction, in both streams.
IdentitiesPermanent ==
  [][/\ \A c \in ClientCommand :
          roomCommands[c] # Nil => roomCommands'[c] = roomCommands[c]
     /\ \A c \in Mechanic :
          /\ finals[c] # Nil => finals'[c] = finals[c]
          /\ gameCommands[c] # Nil => gameCommands'[c] = gameCommands[c]]_vars

\* A workflow that was started is settled, across crashes and restarts: the room
\* is free again, or the workflow is recorded as failed.
RoomEventuallyFree ==
  (pendingWorkflow # Nil) ~> (pendingWorkflow = Nil \/ pendingStatus = "failed")

\* The plan's step 5: a settled workflow, completed or failed, has cleared the
\* pending state.
SettledClearsPending ==
  \A c \in Mechanic :
    rows[c].status \in {"completed", "failed"} => pendingWorkflow # c

\* What the workflow promises, as an abstract specification.
phase == [c \in Mechanic |->
  IF roomCommands[c] = Nil THEN "new"
  ELSE IF roomCommands[c].outcome = "rejected" THEN "refused"
  ELSE IF rows[c].status = "pending" THEN "open"
  ELSE IF rows[c].status = "failed" THEN "stuck" ELSE "closed"]
effect == [c \in Mechanic |->
  IF gameCommands[c] = Nil THEN "none" ELSE gameCommands[c].outcome]
Exchange == INSTANCE SingleEffect
              WITH Mechanic <- Mechanic, phase <- phase, effect <- effect

\* The workflow implements SingleEffect.
ImplementsSingleEffect == Exchange!Spec
=============================================================================
