# LLDM in TLA+

A verification project for LLDM, the living-room role-playing host: TLA+ models
of its durable core, TLC configurations that check them on small instances, and
TLAPS proofs of the theorems that matter most. `PROJECT.json` lists components,
runs, mutants, source lines of every definition, findings, hazards and theorems.

## 1. The system and its parts

An appliance (`apps/host`, Node, SQLite) runs one room. Phones and a TV
(`apps/web`) reach it through a relay (`apps/relay`, a Cloudflare Durable
Object) that stores no game state. Rules live in `packages/engine` (pure),
durable coordination in `packages/runtime`, schemas in `packages/contracts`.

| Component | State it keeps | Operations | What makes it correct |
| --- | --- | --- | --- |
| Durable room workflow (`runtime/application/room-workflows.ts`) | `mechanical_workflows` rows, room head, mechanical head | submit, recoverPending, #finalize | a client mechanic has at most one effect, the streams stay linked, success is told after the last commit |
| Room coordinator and room state (`room-coordinator.ts`, `room-replay.ts`, `contracts/room-state.ts`) | participants, seats, host, pending workflow, deadline, correction | decideRoomOnlyCommand, applyRoomEvent, validateRoomState | accepted decisions lead to valid room states, at most one controller per seat |
| Command coordinator (`coordinator.ts`, `sqlite/store.ts`) | mechanical event stream, snapshots, commands, projections | submit, undo | exact retry, one transaction per command, undo of the latest only |
| Reaction deadlines (`reaction-deadlines.ts`) | in-memory timers, durable deadline | start, setConnectionKnown, recover | a deadline is of the window the engine holds open, a connected player's reaction is passed when its countdown ends and not before, a disconnected one waits |
| Host orchestration (`apps/host/room-application.ts`, `guided/`) | timers, transports, beat | submitClient, start_run, enemy fallbacks, beats | after every commit the room reaches a state some player can act in |
| Combined projections (`combined-projections.ts`, `sqlite/room-store.ts`) | per-audience snapshots and deltas | rebuild, deliveriesSince | a client that applies its deliveries sees the current view |
| Relay room (`apps/relay/durable-room.ts`) | claims, sockets with their sequence numbers | create, join, approve, refresh, socket messages, revoke, alarm | only approved claims receive views; frames of a connection are passed on in order and once |
| Appliance transport and web client (`host/relay/transport.ts`, `web/transport/client.ts`) | sequence numbers, connections, cursors; tokens and views | receive, flush, push views, connect, refresh | a phone shows the view pushed last after any reconnection, never an older one |
| Rules engine: combat (`engine/combat-decisions.ts`, `apply-event.ts`) | none (pure): events change a fight | thirteen decisions, application, validation, compensation | accepted decisions apply, undo restores, a fight goes on until it is decided |
| Rules engine: campaign (`engine/decide-command.ts`, `subsystem-decisions.ts`, `resolution.ts`, `physical-rolls.ts`) | none (pure): events change party, checks, challenges, social states, rituals | the other decisions | as above; a disclosed check comes out as disclosed and can be answered |
| Randomness (`runtime/randomness`) | seed | HMAC draws | deterministic per command, unbiased |
| CLI, content, contracts, migrations | | | data and tooling |

The interactions that matter: `RoomApplication.submitClient` calls the workflow
service, which calls the room coordinator, the command coordinator and the room
coordinator again, in three SQLite transactions; after it, host orchestration
advances beats, opens reaction windows and rebuilds projections; the transport
pushes the projections through the relay.

Hard behaviours: crashes between the transactions of one mechanic; retries of
client commands that may already have been executed; timers racing late
reactions and reconnects; views and acknowledgements lost, repeated or reordered
by reconnecting sockets; interleavings of asynchronous host calls at their
awaits.

## 2. Modules

| Module | Models | Kind |
| --- | --- | --- |
| `SingleEffect` | what the workflow promises | abstract specification |
| `RoomWorkflow` | the workflow service over both coordinators and their tables | detailed specification, implements `SingleEffect` |
| `RoomWorkflowProofs` | theorems of `RoomWorkflow` | proofs |
| `RoomRoster` | participants, seats, player-host, corrections and the life of the run | specification |
| `RoomRosterProofs` | theorems of `RoomRoster` | proofs |
| `ReactionDeadlines` | reaction windows beside a fight that goes on, countdowns, presence and their timers | specification |
| `ReactionDeadlinesProofs` | theorems of `ReactionDeadlines` | proofs |
| `RelayDelivery` | appliance transport, relay room and phone: numbering, sockets, tokens, views | specification |
| `RelayDeliveryProofs` | theorems of `RelayDelivery` | proofs |
| `CombatEvents` | the events of a fight: application, validation, inverses | operators |
| `CombatTurns` | the combat decisions over `CombatEvents` | specification |
| `CombatEventsProofs` | what sequences of events lead to and what takes them back | proofs |
| `CombatTurnsProofs` | theorems of `CombatTurns` | proofs |
| `FloodgateContent` | the authored abilities and gear the fights use | data |
| `CheckResolution` | the outcome of a check and its disclosure, a pure algorithm | operators |
| `CampaignEvents` | the events outside a fight: application, validation, inverses | operators |
| `Campaign` | the decisions outside a fight, over `CampaignEvents` and `CheckResolution` | specification |
| `CampaignProofs` | theorems of `Campaign` | proofs |
| `GuidedRun` | the guided beats, the mechanics behind them and the host's follow-ups | specification |
| `GuidedRunProofs` | theorems of `GuidedRun` | proofs |
| `MCRoomWorkflow`, `MCRoomRoster`, `MCReactionDeadlines`, `MCRelayDelivery`, `MCCombatTurns`, `MCCampaign`, `MCGuidedRun` | the instances | model checking |

How they fit together. `RoomWorkflow` treats the engine as a choice between
acceptance, rejection and failure; `Campaign` and `CombatTurns` say what an
accepted command does, one command per action, since the engine is pure and the
workflow lets one through at a time (`OneUnresolved`). Their
`AcceptedApplies` is what keeps `RoomWorkflow`'s failing engine rare: an
accepted decision whose events do not apply is exactly such a failure.
`GuidedRun` runs the story over workflows that succeed or are cut by a crash,
with what `Campaign` and `CombatTurns` do reduced to what the beats ask of it
(a challenge closed or open, a ritual ready, which sides have a turn left).
`RelayDelivery` keeps of the room who is listed and approved and that a commit
moves the view revision; `ReactionDeadlines` takes the hellos and disconnects
that `RelayDelivery` delivers as events that may come at any time or never.
`RoomRoster` keeps of a workflow that it makes the room busy and that it settles
with some outcome; `ReactionDeadlines` takes a workflow that succeeds as one
step, and keeps of the fight its status and the round that closes a window;
`RoomWorkflow` keeps of the roster whether the author of a mechanic owns
its seat. The modules compose by `EXTENDS` along the engine
(`CheckResolution` - `CampaignEvents` - `Campaign`, `CombatEvents` -
`CombatTurns`) and by `INSTANCE` from `RoomWorkflow` to `SingleEffect`.

Some proved properties are not repeated in a run: the type invariants of
`RoomWorkflow`, `RoomRoster` and `ReactionDeadlines`, `RosterFrozen`, `MechanicalStreamContiguous`,
`PartyGrowsInLobby` and `ConnectionMatchesRecord` hold for every value of the
constants, so that TLC has nothing to add.

### RoomWorkflow

`roomCommands`, `finals` and `rows` are the tables `room_commands` (client
identities, and the derived finalize identities) and `mechanical_workflows`;
`pendingWorkflow`, `pendingStatus`, `mechanicalRevision` and `roomRevision` are
the room head; `gameRevision` and `gameCommands` the mechanical stream. `call`
is the service call in progress: the code is synchronous between its commits, so
there is one call, and `Crash` (process death, or an exception that leaves the
call) drops it and keeps everything else. `seatHeld` records whether the author
of a mechanic owns the seat it names. `told` is a history of what callers were
answered.

Room and view revision are incremented together by `applyRoomEvent`, so one
variable stands for both. Bytes of a command are the two revisions it names:
everything else in them is a function of the client command, which a caller does
not change; a caller may offer the current revision (the host stamps it), an old
view, or, where `ExactRetryOf` allows it, the bytes stored before.

Actions follow the code's order: `RefuseUnowned` (seat check), the identity
lookup (`RefuseCollision`, `ReplayCompleted`, `ReplayUnfinished`), staleness and
the busy rule (`RefuseStaleOrBusy`), `StartWorkflow`; the engine call (`Game*`);
`#finalize` (`CompleteWorkflow`, `FailWorkflow`, `FinalizeCollision`,
`FinalizeThrows`).

| Run | Instance | Shows |
| --- | --- | --- |
| `RoomWorkflow_retry` | a client and a system mechanic, two room-only commands, a failing engine, one crash | linkage, acknowledgement, rejected commands never execute, refinement of `SingleEffect` |
| `RoomWorkflow_any` | three mechanics, any stored bytes may be presented again | one unresolved workflow, permanent identities; a started workflow is settled |
| `RoomWorkflow_failed_engine` | | finding: a failed workflow blocks the room for ever |

Bounds: two mechanics are enough for one to be pending while the other retries,
the third of `any` lets a rejected, a failed and a new one coexist; each command
identity is bound once, so revisions are bounded without a guard except for
system events (`MaxNarration`); one crash separates any two commits.

Fairness: a call that has begun runs on (weak fairness on the engine and
finalize steps; the code is synchronous), and the host's `resume` calls
`recoverPending` before it takes input (strong fairness on `RecoverPending`,
since each crash disables it). Crashes are finitely many. Client retries are not
assumed.

The failing engine of `RoomWorkflow_failed_engine` is not only a full disk. The
reaction "Answering Call" restores the reaction of an ally
(`phase-1-catalog.ts:268`); on an ally who still has it, it is enumerated as a
legal candidate and the decision accepts it, but `apply-event.ts:715` refuses
the event `reaction_restored`. The command coordinator throws, the store answers
`recovery_required`, the workflow is failed and the room stays busy
(`AcceptedApplies` of `CombatTurns` names this decision).

Seen while modelling: a client that repeats an executed command through the host
is answered "rejected". The host stamps the current room revision on the retry
(`room-application.ts:1130`), so its bytes differ from the stored ones and the
identity collides; `PHASE_2.md:817` promises the same linkage and draw evidence.

Proofs. `RoomWorkflowProofs` proves, for all constants that satisfy
`ConstantsAssumption` and `NilAssumption`: `TypeCorrect`, `UnresolvedUnique`,
`StreamTiled`, `IdentitiesBound`, `SeatsFrozen` without any further hypothesis,
and `StreamsLinked`, `AcknowledgedAfterFinalization`, `RejectedNeverRuns` and
the refinement `WorkflowIsSingleEffect` under `NoRejectedRetry`: no caller
presents again the stored bytes of a rejected command. The hypothesis is needed.
The coordinator answers such an exact retry with the stored decision and not
with `committed_rejection`, the service finds no workflow row that it could
replay, and goes on to the engine (`room-workflows.ts:217-253`). The host
satisfies it because it stamps the current room revision into every command, and
a rejection has moved that revision.

The inductive invariant `IInv` adds to the properties: ranges of the game
commands (`GameRanges`), that bound bytes name a past revision (`BytesPast`, so
fresh bytes never count as an exact retry), that rows exist for accepted
commands exactly (`RowsMatch`), that the call in progress is for the pending
workflow at the room's link (`CallMatches`), and that completed rows name their
transaction (`CompletedMatch`). `WorkflowSteps`, `GameSteps`, `BindSteps` and
`MechanicCommandSteps` say once which steps touch which tables, and the lemma of
each conjunct considers those steps only.

### RoomRoster

`room` is the committed room state, reduced to participants and their status,
host, seats and selected seats, run, conclusion, correction and the busy flag;
`materialized` the seats whose heroes are in the mechanical party; `code` tells
whether the host process holds an unexpired recovery code; `answer` is what the
last caller was told, and `threw` the intents whose events the validation
refused. One action per intent of `decideRoomOnlyCommand` and per host command
around it. The operators named after events (`SeatAssigned`, `SeatReleased`, ...) are the cases of
`applyRoomEvent`. `Decided` and `Commit` are `RoomCoordinator.submit`: stale or
busy commands are refused, an accepted decision applies its events, and
`validateRoomState` (`ValidRoom`) throws if the result is not a room, in which
case nothing is stored. A decision is therefore checked against the validation
it does not itself consult.

| Run | Instance | Shows |
| --- | --- | --- |
| `RoomRoster_normal` | normal mode, four participants, two seats, room for three participants | decisions never lead to a state the validation refuses, the bootstrap comes first, roles are for the approved, the conclusion is final, seats and requests are taken by their owner or the host |
| `RoomRoster_rehearsal` | rehearsal mode, three seats | a participant has a selected seat exactly when it owns one |

Bounds: four participants and room for three let a full room meet one more join;
a host, an owner and a claimant are three roles that two seats bring into
conflict; rehearsal needs three seats so that a release chooses the next
selected seat among two. Participants are interchangeable (symmetry). The
revision is abstracted: a command is stale or not, by choice. No liveness is
stated: nothing here has to happen.

Proofs. `RoomRosterProofs` proves all eight properties for any participants,
number of seats, capacity, party size and both modes. The inductive invariant is
`TypeOK`, `Good(room)` and `AcceptedNeverThrows`. `Good` says what
`validateRoomState` says and more: a room without a host holds pending joins
only, and a selected seat exists when any is owned. The additions are needed
because the events assume them: an approval that runs before there is a host, or
a release that forgets the selection, passes the decision and fails the
validation. Each event has one lemma (`SeatReleasedGood`, `HostAssignedGood`,
...), `CommitSound` lifts it through the coordinator, and one step per action
says that the decision established the lemma's hypothesis.

Seen while modelling, and not stated as a run:
- `confirm_correction` asks for the player-host in `PHASE_2.md:219` and is
  accepted from any approved participant.
- `resume_run` is accepted in the lobby (`room-coordinator.ts:473`) and makes
  the run active without a party.
- An undo that the engine rejects is announced as a correction: `#finalize`
  writes `correction_resolved` for every committed verdict
  (`room-workflows.ts:383`), as it clears the deadline of a rejected reaction.
- A recovery of the player-host that the coordinator rejects as stale or busy is
  answered as a success and its one-time code is spent
  (`room-application.ts:742`; `PHASE_2.md:221` has a recorded transfer).
- `start_run` puts the heroes into the party one workflow at a time. When the
  host dies in between, seats may change before the next attempt and the party
  differs from the claims (`StartInterrupted`).
- A join of a full room passes the decision and throws in the validation
  (`room-coordinator.ts:183`); `AcceptedNeverThrows` names that case.

### ReactionDeadlines

Durable: `combat` (the status of the fight), `window` (the engine's
`reaction_window`, a set of actors that may still react and the affected hero),
`deadline` (`room.reaction_deadline`), `recovery` (`room.recoveries`), and
`refused` (the identity of the front's timeout pass is used up). In memory:
`timers`, `graceTimers` and `connected`, which is one boolean per room in the
code. Times count down in units, so that a deadline in the past is 0 and not an
arithmetic on clocks. `step` says what the handler in progress committed last;
handlers are synchronous, so no other handler runs until it is `idle`, and only
`Crash` and `CrashInWorkflow` may come in between. `forced`, `overtaken`,
`misled` and `disturbed` are histories.

`OpenWindow` is `#openReactionAfterEnemyAction`; `Answer` and `RejectedAnswer`
are a player's `resolve_reaction`; `AutoPass`, `StartDeadline` and
`CombatGoesOn` are the three cases of `#continueReactionOrCombat`; `FireTimer`
the timer callback with `#resolveReactionTimeout`, whose pass the engine takes
(`TimerPasses`) or refuses (`TimerRefused`); `Hello`, `Disconnect` and
`GraceExpires` are `noteParticipantConnection` and its timer.

The fight goes on beside an open window: no combat decision but those of the
window looks at it. `FightGoesOn` is every action, die and correction, reduced
to the status it leaves the fight in; `RoundAdvances` is the activation that
begins a new round, which sets the window to null (`apply-event.ts:758`) while
the room clears a deadline only for a `resolve_reaction` that names its window
(`room-workflows.ts:366`). What it leaves is the stale deadline: of no window, or
of an earlier one than the open one. All the handlers above go on to work with
it.

| Run | Shows |
| --- | --- |
| `ReactionDeadlines_played` | only an advanced round leaves a deadline without its window; of an open window the countdown is armed exactly once; a forced pass is due; grace lasts; windows end unless a pass was refused or the host died |

Bounds: two heroes and an enemy give a queue with a hero after the affected one
and an actor without a seat; two window identities let an old timer, or a stale
deadline, meet a new window; a countdown of two and a grace of three units let a
pause, a resume and a second disconnection happen in the middle of either.

Fairness: a handler that has begun runs on (`Proceed`), time passes (`Tick`) and
the event loop runs timers that are due. `WindowsEnd` assumes of the players
only that the phone of the hero who is asked stays connected, and excludes what
the observations below say of restarts and refusals (`Undisturbed`): none since
the latest countdown began.

Proofs. All invariants and both action properties are proved for any number of
heroes and enemies, any windows and any durations. `IInv` is the type invariant
with `DeadlineFollowsWindow`, `CountdownArmed`, `ConnectionMatchesRecord` and
- `GraceTimed`: a seat in grace has at most the one timer that ends when its
  recorded grace does; `GraceKept` needs it, because a timer left over from an
  earlier disconnection would end a later grace too soon;
- `HandlerInFight` and `RefusedWaits`: where a handler may find the fight, and
  that a used-up pass has cleared the deadline of the open window;
- `StaleAfterDeath`: a stale deadline beside an open window that is not about to
  get its own outlived a death of the host, since `StartDeadline` overwrites it.
`CountdownArmed` and `ConnectionMatchesRecord` are needed together for
`TimeoutIsDue`: the callback asks only what the host remembers. `WindowsEnd` is
model-checked only, as TLAPS does not reach liveness.

Seen while modelling:
- A hero who begins a round under an open window takes the window away from
  those who were asked, and the deadline stays (`combat-decisions.ts:169`,
  `apply-event.ts:758`). Its timer fires and finds no window
  (`room-application.ts:2385`): the deadline remains, at zero, shown to a
  connected player, until the next countdown replaces it.
- When the next window opens, `#continueReactionOrCombat` tells
  `setConnectionKnown` whether the next hero is connected; with a stale deadline
  pending that is recorded for the stale deadline's seat: a present player is
  marked absent, or an absent one present, and a grace timer that still runs ends
  a grace that was promised anew (`room-application.ts:2356`,
  `reaction-deadlines.ts:131`). `GraceKept` excepts these seats (`misled`).
- After a restart a hello re-arms the timer of a stale deadline, and
  `#resolveReactionTimeout` passes for the front of the window that is open now;
  it does not ask whose countdown ended. `TimeoutIsDue` names the case.
- A hero may end the fight or make it await a roll while a window is open. The
  pass of the timeout is then refused (`combat-decisions.ts:100`), the deadline
  is cleared all the same, and no later event passes the window again: its
  identity is the same for the front hero (`room-application.ts:2397`). Only an
  answer moves the window then.
- An answer that the engine rejects clears the deadline and is announced as a
  reaction, and the window stays open without a countdown: `#finalize` emits
  `reaction_deadline_cleared` for every committed verdict
  (`room-workflows.ts:366`; `PHASE_2.md:109`, `:818`).
- When the host dies between the commit that moves a window and its next step,
  and an enemy is in front, nobody ever passes for it
  (`room-application.ts:2328`; `PHASE_2.md:1313`).
- `ReactionDeadlineService.recover` is not called, and would restore nothing:
  after a restart a countdown is armed by the next hello only, which a phone
  that stayed linked to the relay does not send (`PHASE_2.md:810` has the
  deadline survive).
- The host infers "connected" from the absence of a recovery entry. A countdown
  that begins while the phone is away starts unpaused and runs down, and the
  pass is forced at the hello (`PHASE_2.md:326` has it wait).
- A seat that is released or reassigned keeps its recovery and its paused
  deadline: the next owner inherits the absence (`PHASE_2.md:109`).

### RelayDelivery

Three programs number their frames, hold and renew sockets and rotate tokens on
their own. `asked`, `approved`, `view` and `base` are the appliance's database:
`base` is the oldest revision from which stored deltas lead to `view`.
`nextSeq`, `connOf` and `cursor` are the maps of `ApplianceRelayTransport`.
`hostEnd`, `relayEnd` and `hostLive` are the two ends of its link and whether
they are one connection; `targets` the numbers in the attachment of the relay's
end, lost with it. `grant` is the relay's record of a device, `socket` and
`live` the relay's socket and whether the phone is behind it. `phase`, `creds`,
`inSeq`, `held` and `screen` are the phone. `pushed` is history: the revision
that everybody was last sent.

Frames to a phone wait in `toPhone`, frames to the appliance in `toHost`; the
way to the relay takes no time, and a frame sent into a dead link is lost. A
handler of the appliance is one action, since it runs to its end between two
frames, but for the request for a token, during which others run (`Approve`,
then `Grant` or `GrantFails`). `Join`, `Connect`, `Refresh`, `Refused` and
`RelayNotices` are the requests and the close handler of the durable object with
the phone's side of them. The other actions are faults and their notices.

| Run | Shows |
| --- | --- |
| `RelayDelivery_kept` | while the process lives no phone meets a gap, a token is never lost without a fault, cursor and view agree when nothing is in flight, no screen goes back, and phones that come and go catch up while the appliance keeps its link |

Bounds: one phone, because connections are numbered apart and another phone only
adds moments at which views are pushed, which `Timer` and the phone's own
disconnect notices already give (the proofs below hold for any number of
phones); four revisions hold a join, an approval, a command and a timer, with
deltas and snapshots after each; one fault of either side or one restart, at any
moment, with everything that follows from it (`MaxFaults`); one request that
leaves the room as it is (`MaxIdle`). The appliance has one command at a time on
its way.

Fairness: frames that arrived are handled, a broken connection is noticed by
each end, and both sides connect again (weak fairness; `transport.ts:67`,
`client.ts:223`). Nobody has to join, approve, act or reload. `PhonesCatchUp`
assumes that the appliance keeps its link and process.

Proofs. `RelayDeliveryProofs` proves the four invariants and `NeverBack` for any
set of phones and any bounds on revisions, faults and idle requests
(`DeliveryAssumption` only asks for natural numbers). None is inductive by
itself; `IInv` has these parts:
- `Devices`, `Spent`, `Known` and `Approvals` say who knows which connection of a
  phone: the relay's record is never behind the device's token or a socket, the
  appliance knows no connection that was not given out, a token is requested for
  a pending, approved participant only, and each rotation was paid for by a
  fault (so connections stay in `Conn`).
- `Ahead`: the views in flight to a phone are in order, no older than its screen
  and no newer than the cursor. This gives `NeverBack`, also over a restart,
  which forgets the cursor but sends nothing older than the stored view.
- `Numbered`: while the process lives, the relay's number for a connection is
  the last one in flight to the phone, or the relay has met a gap and forwards
  nothing more. This gives `Contiguous`.
- `LinkKept`: while the appliance keeps its link the relay takes every frame,
  and before the first connection nothing is numbered.
- `Smooth`: without a fault a token that the device does not hold yet is in
  flight to it. This gives `Returnable`.
- `Following`: a connected approved phone has a request for a snapshot on its
  way, or the frames in flight lead from a snapshot (or what it holds) to the
  cursor by deltas without a hole. With nothing in flight this is `CursorIsHeld`.

`TakenIs` and the lemmas after it say once what a push sends, in terms of the
relay's numbers; every action that pushes cites them. `PhonesCatchUp` is
liveness under fairness and stays with TLC.

The proof found an error of the model that a run with one phone cannot show:
the answer to `#refreshToken` gave every device the record the relay holds for
it, not only the one that asked. `Refresh` is corrected.

A lost link. The relay keeps the numbers it has seen of the appliance in the
attachment of the appliance's socket and hands them over only from a socket that
is still open. The appliance keeps counting over reconnections. So after a
normal close, frames to every connection that was numbered before are gaps to
the relay, which drops them and says so in a frame that the appliance ignores.
Requests of the phone still arrive and are answered in vain until the phone
itself is cut and rotates its connection. The same happens when any frame is
lost on this way: when it is in flight when the link breaks, or when a deadline
pushes views while there is no link (`transport.ts:299` counts before it looks).
An exception in any handler closes the link (`transport.ts:65`) and starts this
(`PHASE_2.md:1317`: "snapshot/delta restores view"). `PhonesCatchUp` therefore
assumes a link that is kept.

Seen while modelling:
- A phone whose `#refreshToken` answer is lost, or whose approval is lost on the
  way, holds a token the relay no longer knows and can only join anew; so does
  one whose token request failed after the room had approved it.
- A pending phone that reconnects before the relay noticed is numbered from 0
  while the relay kept its count: its first frames are dropped.
- A restarted appliance numbers from 0. A phone that stayed linked takes each
  answer for another gap and asks again, until the new numbers reach the old.
- A failed attempt to reconnect is not repeated (`client.ts:223-230`).
- The end of a grace period and rejected commands move the view revision and
  push nothing, so the next command of another phone is stale.

Not in the model: the projection of the player-host, which shares the numbering;
limits on rates, frames and connections; the 64 retained deltas; retries of
commands; revocation, expiry and the count of pending joins.

### CombatEvents, CombatTurns and FloodgateContent

The engine never changes a state in place. A decision is a sequence of events,
`Apply` refuses an event that does not fit (`Applies`) or whose result the
validation refuses (`ValidCombat`), and `ApplyAll` applies a sequence, one event
after the other.
`game` is the fight with the resources it spends: positions, Guard, wounds,
slots, whose side and actor is on, the reaction window, pending checks, the
objective. `verdict` is a history: whether the events of the last accepted
decision could be applied and, if the compensation planner takes them for
reversible (`Compensable`), whether applying `Compensation` gives the old state
back. One action per combat decision; `Commit` is `decideCommand` followed by
the application. A decision that refuses is a disabled action, since it changes
nothing here.

`Candidates`, `Reactions` and `Fallback` are `enumerateCombatActions`,
`enumerateCombatReactions` and `decideSelectEnemyFallback`; `EffectEvents` is
`eventsForResolvedCombatAction`. Enemies execute only what the fallback
selects, as the host does. `FloodgateContent` has the authored abilities and
gear as records.

| Run | Instance | Shows |
| --- | --- | --- |
| `CombatTurns_boss` | two heroes, a boss with overlay, one zone, reactions, Spark, aid, death tests | accepted decisions apply, compensable ones are undone exactly, a last wound is tested at once, a finished fight is resolved with its outcome |
| `CombatTurns_crew` | two heroes, an enemy and a reinforcement in round 2, two zones, an objective | somebody may always act |
| `CombatTurns_early` | the same with the trigger of the party of five | finding: a reinforcement that already acted becomes unspent without slots and blocks the round |

Bounds: two heroes are the least for aid, guarding an ally and one side that
runs out before the other; one wound slot makes every wound a last one; two
rounds make slots, spent marks and the reinforcement turn over once. Reaction
windows are opened after an enemy's action and when somebody has a reaction.
Nothing here has to happen, so no fairness is stated.

Left out: visibility of zones (no authored zone is blocked), conditions and scars
(no combat decision reads them), and the texts of outcomes.

Seen while modelling:
- The host stops its enemies when the heroes' side is on
  (`room-application.ts:2173`), but `activationEvents` gives the turn to the
  enemies when no living hero is unspent. If a hero dies before it acts, the
  other is exhausted and an enemy is not, the engine waits for the enemy and the
  host for a hero (`PHASE_1.md:242`). A withdrawal is left.
- With the `party_5` encounter `#runEnemyFallbacks` picks the reinforcement of
  `CombatTurns_early` and throws.
- A combat may resolve while its reaction window is open; `execute` does not
  look at the window; a resolved combat is never removed, so there is no second.
- A dead hero may aid a death test. The range of a move ability is not checked.
- `decideExecuteCombatAction` accepts a Spark from a hero without one, and a
  reaction may be given back to an actor that holds it: the two exceptions that
  `AcceptedApplies` names.

Proofs. `CombatTurnsProofs` proves all six properties for any heroes, enemies,
bosses, zones, limits and abilities. The assumptions on the constants are what
the schemas and the encounter builder give: both sides have an actor
(`ActorsAssumption`), the abilities are those a schema and a decision accept
(`AbilitiesAssumption`: harm has an actor as its target, progress the
objective), everybody starts in a zone and an overlay gives back no more Guard
than its boss can have (`EncounterAssumption`).

`IInv` says that there is no fight yet or the fight is `Settled`, and that the
verdict on the last command is good. The properties are not inductive by
themselves: a decision enumerated in one state is applied in a later one, after
reactions, deaths and rolls. `Settled` adds, besides the validation:
- `Normal` and `Checked`: a check is open exactly while the fight waits for it,
  and its continuation is forgotten with it, so a roll finds what it decides.
- `Waiting`: an action that waits for its die could still be chosen now. This is
  why the roll's events apply however late it comes.
- `Wounded` (with `Guarded`): a last wound is tested or has killed, and whoever
  is tested is not dead.
- `Decided`: only a resolved fight has an outcome, and when all enemies are down
  or all heroes dead it is resolved.
- `Busy`: the active actor, and a hero that has not acted, has something left to
  spend. An activation that begins with nothing to do would never end.
- `Lively`: the active actor lives and is not being tested, and nobody is
  unspent without slots.

`Lively`, and with it `SomeoneMayAct` (theorem `FightGoesOn`), is proved under
`Quiet`: no reinforcement is triggered by the objective and no reaction does
harm. The first is needed, since it is the finding of `CombatTurns_early`; the
second because the schema lets a reaction strike the actor whose turn it is,
which no authored reaction does. The other five theorems hold without `Quiet`.

The proof follows events, then decisions. The lemmas `...Fits` say when an event
applies and what it leaves; `Fares` says of a sequence that its events apply one
after the other, or stop at one of the two exceptions, and that what is
compensable of it is taken back. `FaresJoined` puts such sequences together, so
that `ActionFares` is the cost, the slot and the effects of an action, each with
a lemma of its own. Between the blow and the end it causes a fight is `Open`: all
of `Settled` but that it ought to be resolved, which the following event makes
good. `CombatEventsProofs` holds what is true of any sequences: the application
and the compensation of one after the other (`AppliedJoined`,
`CompensationJoined`), and that a transaction with an event the planner never
inverts stays uncompensable (`FinalStays`).

The proof made one definition exact: guards of a `CASE` overlapped in
`ActionEvents`, `EffectEvents` and `Score`, where the code takes the first
branch that matches and TLA+ takes any.

### CheckResolution, CampaignEvents and Campaign

`CheckResolution` is the arithmetic of a check: degree from the margin, natural
1 and 20, edge and hindrance, and the disclosure of each face before a table
roll. `CampaignEvents` and `Campaign` are built like the two combat modules, over
a party with resources, Supply, Spark, scene, session, ranks and gear, pending
checks with what they continue, challenges, social states with leverage, and
rituals with costs and consequences. A check is simulated at once, requested at
the table, or requested with a Spark; `SubmitDieResult` resolves it and runs its
continuation.

`Campaign_all` explores three campaigns, of which `Init` picks one as a campaign
pins one catalog: a party; a challenge and a social state; two rituals that need
the same piece of gear. It shows that accepted decisions apply, compensable ones
are undone exactly, that a disclosed check comes out as disclosed for every face
and can be answered whatever happened since (`ChecksAnswerable`), that gear is
spent for rituals only and once, and that the actions the phone is offered are
those the decisions accept (`OfferedIsAccepted`).

Bounds: two heroes, three check identities over a limit of two, tracks of two
steps, costs of one piece of gear and one Supply, the faces 1, 8, 13 and 20 (one
for each degree; all twenty faces are compared by `ChecksAnswerable`), one
session start after the first. No fairness.

Left out: conditions, uses of scene abilities outside a fight, contributor lists,
complication texts, and the validation of a hero's foundation against the
catalog.

Seen while modelling:
- A check beyond the limit of pending checks is accepted and throws when it is
  applied (`AcceptedApplies` names it), and interrupting a ritual that waits for
  its check leaves a check that nobody can answer (`ChecksAnswerable` names it).
- `provision_starting_supply` is accepted again whenever Supply is 0
  (`PHASE_2.md:1257` calls it one-use).
- `recover_resource` takes any content as its source; the dead may contribute
  and rest.

Proofs. `CampaignProofs` proves all six properties for any party, any catalog of checks,
challenges, social states and rituals, and any limits. The assumptions on the
constants are those the content schemas make (`content-mechanics.ts`: tracks
have at least one step, a ritual has a cost, a consequence names a resource) and
that check identities are plentiful (`IdentitiesAssumption`), since the code
draws a new one for each request.

The invariant is `game \in Campaigns` with `AcceptedApplies` and
`UndoRestores`. `Campaigns` are the states `validateCampaignState` lets through
of which more is true: what it records concerns members of the party only
(`InParty`), its sets are finite (`Finite`), features are held at their rank and
gear is of the catalog (`Learned`), pending checks have an identity of their own
and at most one of them continues a given challenge, social state or ritual
(`Apart`), and what waits for a check has one (`Awaited`). The last two are what
`ChecksAnswerable` needs: a continuation finds its challenge open because nothing
closes a challenge while its check is pending.

The proof goes event by event, then decision by decision. One `...Fits` lemma for
each kind of event says when it applies and that its result is again in
`Campaigns`. `Accepted` says of a decision that its events apply one after the
other, and `Reversible` that, if they are compensable, `Compensation` takes them
back; one `...Keeps` lemma for each action proves both. A transaction with an
event the planner never inverts (`Final`) is not compensable whatever follows
(`FinalStays`), which settles most decisions; what is left are transactions of
one event with its inverse (`TakenBack`) and requests of a check, with and
without a Spark (`CalledOff`).

`GearSpentForRituals` needs only that `game` is in `Campaigns`. Its invariant
`Balanced` adds that spent gear is ready no more and that nobody outside the
party spent any. Every event but a piece of gear, a contribution and a new hero
leaves the accounts alone (`Idle`, `SameBooks`), so a decision of such events
does, however many of them are applied; a contribution of gear adds one piece
and one paid cost in the same transaction.

`SparkNeverHurts` is about `CheckResolution` alone: for every request, a higher
face and a Spark taken before the roll come out at least as well. The shift of a
natural 1 or 20 does not disturb the order, nor does a hindrance.

Induction over sequences. `ApplyAll`, `Marks` and `ConsequenceEvents` are
written as functions on the length of a prefix. The library's induction theorems
cannot be used (they take an operator), but induction over a set can: a set of
naturals with 0 and every successor is all of them (`UpFromZero`, from the
least element of its complement). This gives what a sequence of events leads to,
for sequences of any length.

### GuidedRun

`room` is beat and status, `mech` what the beats ask of the mechanical state,
`host` the process: whether it is up, the step its handler will take next
(`thread`), and what a restart has to complete (`recover`). `waiting` are
advances that wait for their narration: `GuidedRunner.advance` reads the beat
and the revision, waits for the provider, and submits. The fake provider of the
repository answers at once; the interface allows a later answer, and both are
instances (`Providers`). `disturbed` is a history of what cost the story a step.

A client's mechanic is one workflow (`Play`), followed by
`AfterMechanicalCommit`, which advances the story (`Narrate`, `Narrated`) or
plays the enemies (`RunEnemyFallbacks`, `OpenReactionAfterEnemyAction`); a new
beat is entered by
`EnterCurrentBeat`, which starts the challenge, the warden and the social check,
the ritual and its payment, the fight or the final roll. `Crash` ends the
process between two steps; inside a workflow the restart completes it and
follows it up. Commands come in only between handlers.

The fight is what the handlers look at: whose side is active and whether an
actor of it is (`side`, `acting`), which sides have an actor left for the round
(`ready`), whether one of these was readied again when its slots were spent
(`drained`), the reaction window, the fight's own pending die (`roll`: a strike at
a boss, or a test of death), whether an enemy has acted (`joined`), and the
outcome. `ClaimActivation`, `Fight` and `SubmitFightDie` do to it what the events
of an accepted command do: an activation begins a turn or a round, a slot is
spent and perhaps the turn ends, an enemy falls, the objective readies
reinforcements, a hero dies. Heroes act whether or not a window is open. A
window is taken as a whole here: its queue, its countdown and the passes are
`ReactionDeadlines`. `die` is the degree of the final roll. Corrections give back
the slot that the last command spent, if it did nothing else.

Four ends of the host's loop over the enemies are not in the model, because no
state of it reaches them. An accepted selection always records the action it
selected (`room-application.ts:2206`). The loop makes at most 24 steps (`:2243`)
and begins no round, and at most four authored enemies have two slots each. The
opening of a window is not refused: the enemy that attacked may react itself.
And an execution is not: its candidate was selected in the same state, and
authored abilities of enemies cost nothing. The refusal that does happen, of the
selection of an enemy without slots, ends the handler by its exception
(`room-application.ts:1676`) and is modelled. Enemies end no fight by an action
of theirs; the last death is the die's.

`GuidedRun_played` checks that the beat moves along declared transitions only
(`StoryForward`), that each conclusion is the one the rules decided
(`ConclusionDecided`), and that the table can go on, without giving up the fight,
whenever the host has nothing left to do (`NeverStranded`). It excepts a crash, a
stale advance, a correction of what the host did for a beat, and two states of
the fight (`Unplayed`), each of which really strands the run:
- A crash after a workflow is settled loses its follow-up: the restart finds
  nothing pending. A crash inside a workflow that the host started for a social
  or ritual beat is recovered as `choose_guided_option` without a degree, and
  `#afterMechanicalCommit` throws.
- An advance that another command made stale throws, and its step is lost.
- A correction confirmed right after the final roll was requested takes the
  request back (the phone always asks for the latest transaction), and only
  entering the beat requests it. Undoing the provisioned Supply makes the ritual
  be refused.
- A reinforcement that was readied again without slots by an advance of the
  objective (`apply-event.ts:809`; `CombatTurns_early` finds it) counts as an
  enemy with a turn left. The engine refuses every hero because it is the
  enemies' turn, and the host's selection because the enemy has no action: the
  handler throws, and only a withdrawal is left.
- A hero's death, out of turn, may leave the heroes' side active with no hero
  that has a turn left, while an enemy has one. The engine waits for that enemy;
  the host plays enemies only when their side is active
  (`room-application.ts:2173`).

`PHASE_2.md:877` says "Every supported path reaches a declared conclusion
without arbitrary route code or database edit."

Also seen: `record_party_choice` is accepted in the lobby and in a suspended run,
and mechanics never look at the status; enemies wait for any pending die, which
is what keeps an old Spark die from deciding the conclusion.

Bounds: two heroes, both needed by the ritual, so that a partial party matters;
the two clues are one beat; a fight is the record above. No fairness: the
properties say where the run may stand still.

Proofs. `GuidedRunProofs` proves the three invariants and `StoryForward` for any
party, any number of operators the ritual needs (`PartyAssumption`) and any
providers (`ProviderAssumption`; `NoneAssumption` keeps `None` apart from the
values it stands beside). `IInv` has three parts besides the types:
- `Story`: what the rules have decided before the story is at a beat
  (`Warranted`), that what the host does on entry was not done before that beat
  (`OnceEntered`), and that a won fight leaves no Spark roll behind
  (`DiceOfTheStory`): enemies wait for every die, and no fight is won before an
  enemy has acted, since a single activation fells no two of them. The last is
  why an old die cannot choose between the clean and the costly end. A slot can
  be given back only while the fight goes on, so a correction never reopens one.
- `Handlers`: a follow-up finds the beat at which its mechanic was played
  (`Sound`), also the one a restart goes on with, and an advance that is not
  stale leads along a declared transition to a warranted beat (`Leads`).
- `Undisturbed`: while no step was lost the host is up, the ritual's Supply is
  there, and where the thread ends the run is `Playable`: the table can go on, or
  the fight is `Unplayed` (`GoesOn`), with one clause for each kind of follow-up.
  This is the strengthening of `NeverStranded`: the beat that a handler is about
  to enter is not playable yet, and the invariant has to say what the handler
  will find. `EnemiesLeft` is the heart of it: when the host leaves the enemies
  alone, either a hero has something to do, or the fight waits for an enemy the
  host does not play.

## 3. Plan

Done: `RoomWorkflow` with `SingleEffect`, `RoomRoster`, `ReactionDeadlines`,
`RelayDelivery`, the host's story as `GuidedRun`, the engine's `Campaign` and
`CombatTurns`, all with their proofs. Every safety invariant and every action
property of a passing run is stated by a theorem.

Liveness (`RoomEventuallyFree`, `WindowsEnd`, `PhonesCatchUp`) stays with TLC:
TLAPS reaches neither `ENABLED` nor fairness. So does `SomeoneMayAct` where
`Quiet` does not hold.

## 4. What is not modelled

- The relay's counters and limits: pending joins, connections, rates, expiry and
  revocation of tokens, and requests of the durable object that interleave at
  their awaits. `RelayDelivery` has one phone per join and treats a request as
  one step; the numbering it is about does not depend on them. Two hazards of
  `PROJECT.json` stay without a property for this.
- Presence together with the ownership of seats: `ReactionDeadlines` and
  `RoomRoster` are not composed.
- Snapshots of the mechanical stream and replay from them, which repeat the
  application of events; SQLite itself, whose transactions are atomic steps.
- Projections as data: who sees what. `RelayDelivery` has their revisions.
- The HMAC randomness: dice are choices.
- Command line, server plumbing, configuration, migrations, scripts, user
  interface, narration texts, generated declarations: input, output and data.

`PROJECT.json` lists every component with its reason.
