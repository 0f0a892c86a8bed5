----------------------------- MODULE RoomRoster -----------------------------
(***************************************************************************)
(* Who takes part in a room: the participants, the seats and their owners, *)
(* the player-host, the run status and the correction request.  The module *)
(* follows one client command from RoomApplication.submitClient through    *)
(* decideRoomOnlyCommand (room-coordinator.ts) and applyRoomEvent          *)
(* (room-replay.ts) to validateRoomState (room-state.ts), which throws     *)
(* instead of committing a state it finds invalid.                         *)
(*                                                                         *)
(* The mechanical workflow appears only as `busy'; RoomWorkflow has its    *)
(* detail.  A command that names an old view revision is stale, and a      *)
(* client may always do that, so staleness is an input of every command.   *)
(***************************************************************************)
EXTENDS Integers, FiniteSets

CONSTANTS
  Participant,   \* participant ids the relay may present
  Seats,         \* number of seats; the code has six
  Capacity,      \* participants a room state may list; the code has eight
  MinParty,      \* heroes a run needs; the code has three
  MaxParty,      \* heroes a run admits; the code has five
  Mode,          \* RoomState.mode: "normal" or "rehearsal"
  Nobody         \* null, where the code has a participant or a seat or null

ASSUME RosterAssumption ==
  /\ Seats \in Nat
  /\ Capacity \in Nat
  /\ MinParty \in Nat \ {0}
  /\ MaxParty \in Nat
  /\ Mode \in {"normal", "rehearsal"}
  /\ Nobody \notin Participant
  /\ Nobody \notin Nat

VARIABLES
  room,          \* the committed RoomState
  busy,          \* RoomState.pending_workflow # null
  materialized,  \* seats whose hero the mechanical stream has materialized
  code,          \* an unexpired host recovery code is held in memory
  answer,        \* history: the last client command, what it was answered
                 \* and what the public history announced of it
  threw          \* history: intents whose accepted events were not applicable

vars == <<room, busy, materialized, code, answer, threw>>

\* Seats in the order of RoomState.seats.
Seat == 1 .. Seats

Room == [status     : [Participant ->
                         {"absent", "pending", "approved", "rejected"}],
         selected   : [Participant -> Seat \cup {Nobody}],
         owner      : [Seat -> Participant \cup {Nobody}],
         host       : Participant \cup {Nobody},
         run        : {"lobby", "active", "suspended", "completed"},
         concluded  : BOOLEAN,
         correction : Participant \cup {Nobody}]

Intent == {"request_join", "approve_participant", "reject_participant",
           "claim_hero", "release_seat", "select_seat", "reassign_seat",
           "transfer_player_host", "recover_player_host", "start_run",
           "suspend_run", "resume_run", "request_correction",
           "cancel_correction", "confirm_correction"}

NoAnswer == [by |-> Nobody, intent |-> "none", verdict |-> "none",
             announced |-> "none"]

Members(r) == {p \in Participant : r.status[p] # "absent"}
SeatsOf(r, p) == {s \in Seat : r.owner[s] = p}
Claimed == {s \in Seat : room.owner[s] # Nobody}

Init ==
  /\ room = [status     |-> [p \in Participant |-> "absent"],
             selected   |-> [p \in Participant |-> Nobody],
             owner      |-> [s \in Seat |-> Nobody],
             host       |-> Nobody,
             run        |-> "lobby",
             concluded  |-> FALSE,
             correction |-> Nobody]
  /\ busy = FALSE
  /\ materialized = {}
  /\ code = FALSE
  /\ answer = NoAnswer
  /\ threw = {}

-----------------------------------------------------------------------------
(* validateRoomState: what applyRoomEvent refuses to commit.               *)

\* RoomStateSchema lists at most Capacity participants, the rejected included.
WithinCapacity(r) == Cardinality(Members(r)) =< Capacity

OwnersListed(r) ==
  \A s \in Seat : r.owner[s] # Nobody => r.owner[s] \in Members(r)

OneSeatInNormalMode(r) ==
  Mode = "normal" =>
    \A s, t \in Seat : r.owner[s] # Nobody /\ r.owner[s] = r.owner[t] => s = t

SelectedSeatOwned(r) ==
  \A p \in Participant :
    r.selected[p] # Nobody => r.owner[r.selected[p]] = p

HostApproved(r) == r.host # Nobody => r.status[r.host] = "approved"

ValidRoom(r) ==
  /\ WithinCapacity(r)
  /\ OwnersListed(r)
  /\ OneSeatInNormalMode(r)
  /\ SelectedSeatOwned(r)
  /\ HostApproved(r)

-----------------------------------------------------------------------------
(* applyRoomEvent: the room after each kind of event.                      *)

Joined(r, p) == [r EXCEPT !.status[p] = "pending", !.selected[p] = Nobody]
Judged(r, p, verdict) == [r EXCEPT !.status[p] = verdict]
HostAssigned(r, p) == [r EXCEPT !.host = p]
SeatSelected(r, p, s) == [r EXCEPT !.selected[p] = s]

RunChanged(r, status) == [r EXCEPT !.run = status]
CorrectionRequested(r, p) == [r EXCEPT !.correction = p]
CorrectionResolved(r) == [r EXCEPT !.correction = Nobody]
Concluded(r) == [r EXCEPT !.concluded = TRUE, !.run = "completed"]

SeatAssigned(r, s, p) ==
  [r EXCEPT !.owner[s] = p,
            !.selected[p] = IF @ = Nobody THEN s ELSE @]

\* The first seat of p other than s, in room order.
NextSeatOf(r, p, s) ==
  LET others == SeatsOf(r, p) \ {s} IN
  IF others = {} THEN Nobody
  ELSE CHOOSE t \in others : \A u \in others : t =< u

\* Mutant: the former owner selects none of the seats it keeps.
SeatUnselected(r, s) ==
  LET p == r.owner[s] IN
  IF p = Nobody THEN r
  ELSE [r EXCEPT !.owner[s] = Nobody,
                 !.selected[p] = IF @ = s THEN Nobody ELSE @]

SeatReleased(r, s) ==
  LET p == r.owner[s] IN
  IF p = Nobody THEN r
  ELSE [r EXCEPT !.owner[s] = Nobody,
                 !.selected[p] = IF @ = s THEN NextSeatOf(r, p, s) ELSE @]

-----------------------------------------------------------------------------
(* RoomCoordinator.submit.                                                 *)

\* submitClient finds the room through listResumableRooms, which leaves out
\* completed ones.
\* Mutant: it finds every room of the relay.
FoundAnyway == TRUE

Found == room.run # "completed"

Said(p, intent, verdict) ==
  answer' = [by |-> p, intent |-> intent, verdict |-> verdict,
             announced |-> "none"]

Exempt == {"request_join", "select_seat", "cancel_correction"}
Busy(intent) == busy /\ intent \notin Exempt

\* A stale, busy or undecidable command commits a rejection, an event that
\* changes no field modelled here.
Refused ==
  /\ Found
  /\ answer' = NoAnswer
  /\ UNCHANGED <<room, busy, materialized, code, threw>>

\* The events of an accepted decision lead to the rooms in `path', each of
\* which must be valid; otherwise the exception leaves nothing behind.
Commit(p, intent, path, final) ==
  IF \A r \in path \cup {final} : ValidRoom(r)
  THEN room' = final /\ Said(p, intent, "accepted") /\ threw' = threw
  ELSE room' = room /\ answer' = NoAnswer /\ threw' = threw \cup {intent}

\* An intent decided by decideRoomOnlyCommand: neither stale nor busy.
Decided(p, intent, path, final) ==
  /\ Found
  /\ ~Busy(intent)
  /\ Commit(p, intent, path, final)
  /\ UNCHANGED <<busy, materialized, code>>

-----------------------------------------------------------------------------
(* The room-only intents.                                                  *)

\* A join is the one intent anchored to the current view.
RequestJoin(p) ==
  /\ room.status[p] = "absent"
  /\ Decided(p, "request_join", {}, Joined(room, p))

Judge(p, q, intent, verdict) ==
  /\ p = room.host
  /\ room.status[q] = "pending"
  /\ Decided(p, intent, {}, Judged(room, q, verdict))

\* Mutant: any listed participant may claim.
ClaimableByAny(p, s) ==
  /\ room.status[p] # "absent"
  /\ room.owner[s] = Nobody
  /\ Mode = "normal" => SeatsOf(room, p) = {}

Claimable(p, s) ==
  /\ room.status[p] = "approved"
  /\ room.owner[s] = Nobody
  /\ Mode = "normal" => SeatsOf(room, p) = {}

ClaimHero(p, s) ==
  /\ Claimable(p, s)
  /\ Decided(p, "claim_hero", {}, SeatAssigned(room, s, p))

\* Mutant: whoever asks may release.
ReleasableByAny(p, s) == TRUE

Releasable(p, s) == p = room.host \/ room.owner[s] = p

\* release_seat and release_disconnected_activation share their case.
ReleaseSeat(p, s) ==
  /\ Releasable(p, s)
  /\ Decided(p, "release_seat", {}, SeatReleased(room, s))

SelectSeat(p, s) ==
  /\ room.owner[s] = p
  /\ Decided(p, "select_seat", {}, SeatSelected(room, p, s))

\* Mutant: the target may be any listed participant.
ReassignableToAny(q, s) ==
  /\ room.status[q] # "absent"
  /\ Mode = "normal" => SeatsOf(room, q) \subseteq {s}

Reassignable(q, s) ==
  /\ room.status[q] = "approved"
  /\ Mode = "normal" => SeatsOf(room, q) \subseteq {s}

ReassignSeat(p, q, s) ==
  LET freed == SeatReleased(room, s) IN
  /\ p = room.host
  /\ Reassignable(q, s)
  /\ Decided(p, "reassign_seat", {freed}, SeatAssigned(freed, s, q))

\* Mutant: authority may pass to a participant still pending.
TransferableToAny(q) == room.status[q] # "absent"

Transferable(q) == room.status[q] = "approved"

TransferHost(p, q) ==
  /\ p = room.host
  /\ Transferable(q)
  /\ Decided(p, "transfer_player_host", {}, HostAssigned(room, q))

\* suspend_run and resume_run ask for the player-host and nothing else.
ChangeRun(p, intent, status) ==
  /\ p = room.host
  /\ Decided(p, intent, {}, RunChanged(room, status))

RequestCorrection(p) ==
  /\ room.status[p] = "approved"
  /\ room.correction = Nobody
  /\ Decided(p, "request_correction", {}, CorrectionRequested(room, p))

Cancellable(p) ==
  /\ room.correction # Nobody
  /\ p = room.host \/ room.correction = p

CancelCorrection(p) ==
  /\ Cancellable(p)
  /\ Decided(p, "cancel_correction", {}, CorrectionResolved(room))

-----------------------------------------------------------------------------
(* Intents that submitClient itself serves.                                *)

\* confirm_correction runs as a mechanical workflow; neither submitClient, nor
\* DurableRoomWorkflowService.submit (the intent names no seat), nor
\* mapMechanical asks who confirms, and the projection of every approved
\* participant names the request.  `undone' is the verdict of the engine:
\* #finalize resolves the request, with the words of a success, for any
\* committed verdict.
ConfirmCorrection(p, undone) ==
  /\ Found
  /\ ~Busy("confirm_correction")
  /\ room.status[p] = "approved"
  /\ room.correction # Nobody
  /\ room' = CorrectionResolved(room)
  /\ answer' = [by |-> p, intent |-> "confirm_correction",
                verdict |-> IF undone THEN "accepted" ELSE "rejected",
                announced |-> "corrected"]
  /\ UNCHANGED <<busy, materialized, code, threw>>

\* The first proof of the TV: the pending participant is approved and made
\* player-host by one system command, which no busy rule stops.
Bootstraps(p) ==
  /\ Found
  /\ room.host = Nobody
  /\ room.status[p] = "pending"
  /\ UNCHANGED <<busy, materialized, code>>

Bootstrap(p) ==
  LET approved == Judged(room, p, "approved") IN
  /\ Bootstraps(p)
  /\ Commit(p, "recover_player_host", {approved}, HostAssigned(approved, p))

\* The relay is asked after the commit; when it fails, the client is told that
\* its proof is invalid, yet it is the player-host.
BootstrapUnrelayed(p) ==
  /\ Bootstraps(p)
  /\ room' = HostAssigned(Judged(room, p, "approved"), p)
  /\ Said(p, "recover_player_host", "rejected")
  /\ UNCHANGED threw

\* The code of the TV is spent before the command is submitted.  The command
\* carries the client's view and meets the busy rule, and a rejection that the
\* coordinator commits is told as a success.
RecoverHost(p, stale) ==
  /\ Found
  /\ room.host # Nobody
  /\ room.status[p] = "approved"
  /\ code
  /\ code' = FALSE
  /\ room' = IF stale \/ busy THEN room ELSE HostAssigned(room, p)
  /\ Said(p, "recover_player_host", "accepted")
  /\ UNCHANGED <<busy, materialized, threw>>

Startable(p) ==
  /\ Found
  /\ p = room.host
  /\ room.run = "lobby"
  /\ Cardinality(Claimed) \in MinParty .. MaxParty
  /\ ~busy

\* One workflow materializes each claimed hero that the party lacks, then the
\* room command, stamped again with the current revisions, starts the run.
StartRun(p) ==
  /\ Startable(p)
  /\ Commit(p, "start_run", {}, RunChanged(room, "active"))
  /\ materialized' = materialized \cup Claimed
  /\ UNCHANGED <<busy, code>>

\* The process dies after it has materialized the first heroes, up to seat s.
StartInterrupted(p, s) ==
  /\ Startable(p)
  /\ materialized' = materialized \cup {t \in Claimed : t =< s}
  /\ code' = FALSE
  /\ answer' = NoAnswer
  /\ UNCHANGED <<room, busy, threw>>

-----------------------------------------------------------------------------
(* What else moves the room.                                               *)

\* A mechanical workflow starts, and settles.
WorkflowStarts ==
  /\ Found
  /\ ~busy
  /\ busy' = TRUE
  /\ answer' = NoAnswer
  /\ UNCHANGED <<room, materialized, code, threw>>

WorkflowSettles ==
  /\ busy
  /\ busy' = FALSE
  /\ answer' = NoAnswer
  /\ UNCHANGED <<room, materialized, code, threw>>

\* The guided runner reaches a terminal beat; the beats before it need a
\* materialized hero, and nothing on the way asks for the run status.
Conclude ==
  /\ Found
  /\ ~busy
  /\ room.host # Nobody
  /\ materialized # {}
  /\ room' = Concluded(room)
  /\ answer' = NoAnswer
  /\ UNCHANGED <<busy, materialized, code, threw>>

\* The TV shows a fresh recovery code; it expires, or dies with the process.
IssueCode ==
  /\ code' = TRUE
  /\ answer' = NoAnswer
  /\ UNCHANGED <<room, busy, materialized, threw>>

LoseCode ==
  /\ code
  /\ code' = FALSE
  /\ answer' = NoAnswer
  /\ UNCHANGED <<room, busy, materialized, threw>>

-----------------------------------------------------------------------------
Roster(p) ==
  \/ RequestJoin(p)
  \/ \E q \in Participant :
       \/ Judge(p, q, "approve_participant", "approved")
       \/ Judge(p, q, "reject_participant", "rejected")
       \/ TransferHost(p, q)
       \/ \E s \in Seat : ReassignSeat(p, q, s)
  \/ \E s \in Seat : ClaimHero(p, s) \/ ReleaseSeat(p, s) \/ SelectSeat(p, s)

Control(p) ==
  \/ ChangeRun(p, "suspend_run", "suspended")
  \/ ChangeRun(p, "resume_run", "active")
  \/ RequestCorrection(p)
  \/ CancelCorrection(p)
  \/ \E undone \in BOOLEAN : ConfirmCorrection(p, undone)

HostAndStart(p) ==
  \/ Bootstrap(p)
  \/ BootstrapUnrelayed(p)
  \/ \E stale \in BOOLEAN : RecoverHost(p, stale)
  \/ StartRun(p)
  \/ \E s \in Seat : StartInterrupted(p, s)

Around ==
  WorkflowStarts \/ WorkflowSettles \/ Conclude \/ IssueCode \/ LoseCode

Next ==
  \/ \E p \in Participant :
       \/ Roster(p)
       \/ Control(p)
       \/ HostAndStart(p)
  \/ Refused
  \/ Around

Spec == Init /\ [][Next]_vars

-----------------------------------------------------------------------------
(* Types.                                                                  *)

\* The committed room and the host's memory have the shape the code gives them.
TypeOK ==
  /\ room \in Room
  /\ busy \in BOOLEAN
  /\ materialized \subseteq Seat
  /\ code \in BOOLEAN
  /\ answer \in [by : Participant \cup {Nobody}, intent : Intent \cup {"none"},
                 verdict : {"accepted", "rejected", "none"},
                 announced : {"corrected", "none"}]
  /\ threw \subseteq Intent

-----------------------------------------------------------------------------
(* What the roster guarantees.                                             *)

\* An intent that decideRoomOnlyCommand accepts never leads to a state that
\* validateRoomState refuses, the room full of participants excepted: the
\* checks of the decision are at least those of the validation.
AcceptedNeverThrows == threw \subseteq {"request_join"}

\* Until a first player-host is established nobody is approved, no seat is
\* owned and no run has started.
HostlessRoomUntouched ==
  room.host = Nobody =>
    /\ \A p \in Participant : room.status[p] \in {"absent", "pending"}
    /\ Claimed = {}
    /\ room.run = "lobby"
    /\ room.correction = Nobody

\* Whoever owns a seat or has a correction pending is approved, which
\* validateRoomState does not ask.
RolesApproved ==
  /\ \A s \in Seat :
       room.owner[s] # Nobody => room.status[room.owner[s]] = "approved"
  /\ room.correction # Nobody => room.status[room.correction] = "approved"

\* A participant has a selected seat exactly when it owns one, through any
\* sequence of claims, releases and reassignments.
SelectionFollowsOwnership ==
  \A p \in Participant :
    room.selected[p] = Nobody <=> SeatsOf(room, p) = {}

\* A concluded room stays completed: resume_run checks neither the status nor
\* the conclusion, and it is the room lookup of submitClient that stops it.
ConclusionIsFinal == room.concluded => room.run = "completed"

\* An owned seat leaves its owner, and a request is cancelled, only by a
\* command of that participant or of the player-host.
TakenByAuthority ==
  [][/\ \A s \in Seat :
          room.owner[s] # Nobody /\ room'.owner[s] # room.owner[s]
            => answer'.by \in {room.owner[s], room.host}
     /\ answer'.intent = "cancel_correction" /\ answer'.verdict = "accepted"
          => answer'.by \in {room.correction, room.host}]_vars

\* Heroes join the mechanical party only before the run starts, whatever the
\* player-host does to the run status and the seats afterwards.
PartyGrowsInLobby ==
  [][materialized' # materialized => room.run = "lobby"]_vars
=============================================================================
