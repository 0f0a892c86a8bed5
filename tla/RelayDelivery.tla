--------------------------- MODULE RelayDelivery ---------------------------
(***************************************************************************)
(* How views reach the phones: the appliance's transport                   *)
(* (host/relay/transport.ts), the relay room (relay/durable-room.ts) and   *)
(* the phone's transport (web/transport/client.ts), with the projections   *)
(* the appliance stores (deliveriesSince).  The three number their frames, *)
(* cut and renew their sockets and rotate tokens on their own.             *)
(*                                                                         *)
(* A frame waits between the relay and its receiver; the way to the relay  *)
(* takes no time.  What is sent into a socket that the other side has lost *)
(* is lost.  A phone's sockets are numbered by its connection identities:  *)
(* 1 when it joins, one more with each refresh.  Commands, views and       *)
(* tokens have no content beyond their revision, role and connection.      *)
(***************************************************************************)
EXTENDS Integers, Sequences

CONSTANTS
  Phone,         \* the devices, one per participant
  MaxView,       \* bound on the room's view revision
  MaxFaults,     \* bound on faults and restarts, of phones and appliance
  MaxIdle        \* bound on requests that leave the room as it is

ASSUME DeliveryAssumption ==
  /\ MaxView \in Nat \ {0}
  /\ {MaxFaults, MaxIdle} \subseteq Nat

VARIABLES
  \* The room's database.
  asked,      \* participants the room lists
  approved,   \* the approved ones
  view,       \* revision of the stored projections
  base,       \* stored deltas lead from here to view without a break
  \* The appliance's memory, per phone.
  nextSeq,    \* #sequences, per connection
  connOf,     \* #pendingConnections; 0 when absent
  awaited,    \* connection whose approval the relay is asked for; 0 if none
  cursor,     \* #participantViewCursors; 0 when absent
  \* The appliance's link.
  hostEnd,    \* the appliance holds a socket
  relayEnd,   \* the relay holds an open socket of the appliance
  hostLive,   \* these two are one connection and frames pass
  targets,    \* attachment of relayEnd: target_sequences, -1 when absent
  \* The relay, per phone.
  grant,      \* the pending or participant record
  socket,     \* the open socket
  live,       \* frames pass between it and the phone
  toHost,     \* frames of the phone on their way to the appliance
  toPhone,    \* frames on their way to the phone
  \* The phone.
  phase,      \* what its transport does
  creds,      \* the token it holds; an approved one is stored on the device
  inSeq,      \* #lastIncomingSequence
  held,       \* #participantViewRevision
  screen,     \* revision of the view on the screen; 0 when blank
  \* History and bounds.
  pushed,     \* the revision last pushed to everybody
  faults,     \* of the phones and their links
  hostFaults, \* of the appliance's link
  restarts,   \* of the appliance
  idle        \* answers to gaps, and rejections that commit nothing

room == <<asked, approved, view, base>>
appliance == <<nextSeq, connOf, cursor, pushed, awaited>>
link == <<hostEnd, relayEnd, hostLive>>
phone == <<phase, creds, inSeq, held, screen>>
counts == <<faults, hostFaults, restarts, idle>>
vars == <<room, appliance, link, targets, grant, socket, live, toHost, toPhone,
          phone, counts>>

Spared == faults + hostFaults + restarts < MaxFaults

\* Each refresh follows a fault of the phone.
Conn == 1 .. MaxFaults + 1
NoConn == 0

Nothing == [role |-> "none", conn |-> NoConn]
Pending(c) == [role |-> "pending", conn |-> c]
Approved(c) == [role |-> "approved", conn |-> c]
Token == {Nothing} \cup [role : {"pending", "approved"}, conn : Conn]

Result == [kind |-> "command_result", base |-> 0, view |-> 0]
Approval == [kind |-> "approval_result", base |-> 0, view |-> 0]
Snapshot(v) == [kind |-> "snapshot", base |-> 0, view |-> v]
Delta(v) == [kind |-> "delta", base |-> v - 1, view |-> v]

Init ==
  /\ asked = {} /\ approved = {} /\ view = 1 /\ base = 1
  /\ nextSeq = [p \in Phone |-> [c \in Conn |-> 0]]
  /\ connOf = [p \in Phone |-> NoConn]
  /\ awaited = [p \in Phone |-> NoConn]
  /\ cursor = [p \in Phone |-> 0]
  /\ pushed = 0
  /\ hostEnd = FALSE /\ relayEnd = FALSE /\ hostLive = FALSE
  /\ targets = [p \in Phone |-> [c \in Conn |-> -1]]
  /\ grant = [p \in Phone |-> Nothing]
  /\ socket = [p \in Phone |-> Nothing]
  /\ live = [p \in Phone |-> FALSE]
  /\ toHost = [p \in Phone |-> <<>>]
  /\ toPhone = [p \in Phone |-> <<>>]
  /\ phase = [p \in Phone |-> "out"]
  /\ creds = [p \in Phone |-> Nothing]
  /\ inSeq = [p \in Phone |-> -1]
  /\ held = [p \in Phone |-> 0] /\ screen = [p \in Phone |-> 0]
  /\ faults = 0 /\ hostFaults = 0 /\ restarts = 0 /\ idle = 0

-----------------------------------------------------------------------------
(* The appliance sends, the relay routes.                                  *)

\* Mutant: the relay routes every frame.
TakenUnchecked(p, c, bodies) ==
  IF ~hostLive THEN <<>>
  ELSE [i \in 1 .. Len(bodies) |->
         [seq |-> nextSeq[p][c] + i - 1, body |-> bodies[i]]]

\* The frames the relay takes of those sent to connection c: the numbers it has
\* seen are dropped, and after a gap it takes nothing (webSocketMessage).
Taken(p, c, bodies) ==
  LET known == targets[p][c] + 1 - nextSeq[p][c]
      frames == [i \in 1 .. Len(bodies) |->
                   [seq |-> nextSeq[p][c] + i - 1, body |-> bodies[i]]]
  IN IF hostLive /\ known >= 0 THEN SubSeq(frames, known + 1, Len(frames))
     ELSE <<>>

\* Mutant: only approved sockets get frames.
ReachesApproved(p, c) == live[p] /\ socket[p] = Approved(c)

\* The relay has an open, working socket of that very connection.
Reaches(p, c) == live[p] /\ socket[p].conn = c

\* Every phone with a connection is sent its bodies, in #send's numbering.
Post(bodies, conn) ==
  LET To == {p \in Phone : conn[p] # NoConn}
      taken == [p \in To |-> Taken(p, conn[p], bodies[p])]
      last(p) == taken[p][Len(taken[p])].seq
  IN
  /\ nextSeq' = [p \in Phone |->
       IF p \in To THEN [nextSeq[p] EXCEPT ![conn[p]] = @ + Len(bodies[p])]
       ELSE nextSeq[p]]
  /\ targets' = [p \in Phone |->
       IF p \in To /\ taken[p] # <<>>
       THEN [targets[p] EXCEPT ![conn[p]] = last(p)] ELSE targets[p]]
  /\ toPhone' = [p \in Phone |->
       IF p \in To /\ Reaches(p, conn[p])
       THEN toPhone[p] \o taken[p] ELSE toPhone[p]]

\* Mutant: one delta too many.
ChainLong(p, v) == [i \in 1 .. v - cursor[p] + 1 |-> Delta(cursor[p] + i)]

Chain(p, v) == [i \in 1 .. v - cursor[p] |-> Delta(cursor[p] + i)]

\* Mutant: the snapshot is the one the stored deltas start from.
ViewsOld(p, to, v, b, forced) ==
  IF p \notin to THEN <<>>
  ELSE IF forced \/ cursor[p] < b THEN <<Snapshot(b)>>
  ELSE Chain(p, v)

\* deliveriesSince for a phone of the set to: a snapshot, or a chain of deltas,
\* which is empty when nothing is new.
Views(p, to, v, b, forced) ==
  IF p \notin to THEN <<>>
  ELSE IF forced \/ cursor[p] < b THEN <<Snapshot(v)>>
  ELSE Chain(p, v)

\* #pushViews for the phones in to; first is what is sent before the views.
Push(first, to, v, b, forced, conn) ==
  LET reached == {p \in to : conn[p] # NoConn} IN
  /\ Post([p \in Phone |-> first[p] \o Views(p, reached, v, b, forced)], conn)
  /\ cursor' = [p \in Phone |-> IF p \in reached THEN v ELSE cursor[p]]

Silence == [p \in Phone |-> <<>>]
Only(p, body) == [Silence EXCEPT ![p] = <<body>>]

\* A commit of the room, then #rebuildCombined, which stores a delta if the
\* projections were one revision behind.
Grow ==
  /\ view' = IF view < MaxView THEN view + 1 ELSE view
  /\ base' \in {base, view'}

-----------------------------------------------------------------------------
(* The appliance receives.                                                 *)

\* Mutant: the first connection of a phone is kept.
HeardFirst(p, kind) ==
  /\ toHost[p] # <<>>
  /\ Head(toHost[p]).kind = kind
  /\ toHost' = [toHost EXCEPT ![p] = Tail(@)]
  /\ connOf' = [connOf EXCEPT ![p] =
                  IF @ = NoConn THEN Head(toHost[p]).conn ELSE @]

\* A frame of the phone gives its connection to the appliance.
Heard(p, kind) ==
  /\ toHost[p] # <<>>
  /\ Head(toHost[p]).kind = kind
  /\ toHost' = [toHost EXCEPT ![p] = Tail(@)]
  /\ connOf' = [connOf EXCEPT ![p] = Head(toHost[p]).conn]

\* request_join lists the participant.
HandleJoin(p) ==
  /\ Heard(p, "join")
  /\ Grow
  /\ asked' = asked \cup {p}
  /\ Push(Only(p, Result), approved, view', base', FALSE, connOf')
  /\ pushed' = view'
  /\ UNCHANGED <<approved, awaited, link, grant, socket, live, phone, counts>>

\* A hello or a disconnect changes the room when the participant has seats, and
\* everybody gets a snapshot.
HandlePresence(p) ==
  /\ Heard(p, "hello") \/ Heard(p, "connection_status")
  /\ \/ p \in approved /\ Grow
     \/ UNCHANGED <<view, base>>
  /\ Push(Silence, approved, view', base', TRUE, connOf')
  /\ pushed' = view'
  /\ UNCHANGED <<asked, approved, awaited, link, grant, socket, live, phone,
                 counts>>

\* The phone that asks is sent a snapshot, if it is approved.
HandleResync(p) ==
  /\ Heard(p, "resync_request")
  /\ Push(Silence, approved \cap {p}, view, base, TRUE, connOf')
  /\ UNCHANGED <<room, pushed, awaited, link, grant, socket, live, phone,
                 counts>>

\* An accepted command is committed and flushed.  A rejection is committed or
\* not, and flushed never.
HandleCommand(p) ==
  /\ Heard(p, "client_command")
  /\ \/ /\ Grow
        /\ Push(Only(p, Result), approved, view', base', FALSE, connOf')
        /\ pushed' = view'
        /\ UNCHANGED idle
     \/ /\ \/ Grow /\ UNCHANGED idle
           \/ UNCHANGED <<view, base>> /\ idle < MaxIdle /\ idle' = idle + 1
        /\ Push(Only(p, Result), {}, view', base', FALSE, connOf')
        /\ UNCHANGED pushed
  /\ UNCHANGED <<asked, approved, awaited, link, grant, socket, live, phone,
                 faults, hostFaults, restarts>>

\* The player-host approves p.  The handler then asks the relay for a token if
\* it knows a connection of p, and flushes at once if it does not.
Approve(p) ==
  /\ hostLive
  /\ p \in asked \ approved
  /\ Grow
  /\ approved' = approved \cup {p}
  /\ awaited' = [awaited EXCEPT ![p] = connOf[p]]
  /\ IF connOf[p] = NoConn
     THEN /\ Push(Silence, approved', view', base', FALSE, connOf)
          /\ pushed' = view'
     ELSE UNCHANGED <<nextSeq, targets, toPhone, cursor, pushed>>
  /\ UNCHANGED <<asked, connOf, link, grant, socket, live, toHost, phone,
                 counts>>

\* The relay exchanges the pending record, the token travels to the phone, and
\* everybody gets what is new.
Grant(p) ==
  /\ awaited[p] # NoConn
  /\ grant[p] = Pending(awaited[p])
  /\ grant' = [grant EXCEPT ![p] = Approved(awaited[p])]
  /\ awaited' = [awaited EXCEPT ![p] = NoConn]
  /\ Push(Only(p, Approval), approved, view, base, FALSE, connOf)
  /\ pushed' = view
  /\ UNCHANGED <<room, connOf, link, socket, live, toHost, phone, counts>>

\* The deadline of a reaction commits, rebuilds and flushes; that of a grace
\* period flushes nothing.
Timer ==
  /\ view < MaxView
  /\ approved # {}
  /\ Grow
  /\ \/ /\ Push(Silence, approved, view', base', FALSE, connOf)
        /\ pushed' = view'
     \/ UNCHANGED <<nextSeq, targets, toPhone, cursor, pushed>>
  /\ UNCHANGED <<asked, approved, connOf, awaited, link, grant, socket, live,
                 toHost, phone, counts>>

-----------------------------------------------------------------------------
(* The phone.                                                              *)

\* Frames of the phone that reach the appliance.
Say(p, frames) ==
  toHost' = IF hostLive THEN [toHost EXCEPT ![p] = @ \o frames] ELSE toHost

Said(kind, c) == [kind |-> kind, conn |-> c]

\* The invite is redeemed for a pending token.
Join(p) ==
  /\ phase[p] = "out"
  /\ creds' = [creds EXCEPT ![p] = Pending(1)]
  /\ grant' = [grant EXCEPT ![p] = Pending(1)]
  /\ phase' = [phase EXCEPT ![p] = "joining"]
  /\ UNCHANGED <<room, appliance, link, targets, socket, live, toHost, toPhone,
                 inSeq, held, screen, counts>>

Connecting(p) ==
  \/ phase[p] \in {"joining", "rotating", "refreshed"}
  \/ phase[p] = "dropped" /\ creds[p].role = "pending"

\* Mutant: only a device that joins asks for its view.
GreetingOnce(p) ==
  LET c == creds[p].conn IN
  IF phase[p] = "joining" THEN <<Said("resync_request", c), Said("join", c)>>
  ELSE <<>>

\* hello and resync_request, and request_join after the invite.  The hello of a
\* pending device names no participant and is not looked at.
Greeting(p) ==
  LET c == creds[p].conn IN
  (IF creds[p].role = "approved" THEN <<Said("hello", c)>> ELSE <<>>)
    \o <<Said("resync_request", c)>>
    \o (IF phase[p] = "joining" THEN <<Said("join", c)>> ELSE <<>>)

\* #connect, once the token is there: the relay replaces the socket of the same
\* connection and role, and keeps its numbers.  A device that counts from zero
\* again is then not heard.
Connect(p) ==
  /\ Connecting(p)
  /\ creds[p] = grant[p]
  /\ socket' = [socket EXCEPT ![p] = creds[p]]
  /\ live' = [live EXCEPT ![p] = TRUE]
  /\ toPhone' = [toPhone EXCEPT ![p] = <<>>]
  /\ inSeq' = [inSeq EXCEPT ![p] = -1]
  /\ Say(p, IF socket[p] = creds[p] THEN <<>> ELSE Greeting(p))
  /\ phase' = [phase EXCEPT ![p] = "open"]
  /\ UNCHANGED <<room, appliance, link, targets, grant, creds, held,
                 screen, counts>>

\* The relay refuses a token it no longer holds: recovery_required.
Refused(p) ==
  /\ Connecting(p) \/ phase[p] = "dropped"
  /\ creds[p] # grant[p]
  /\ phase' = [phase EXCEPT ![p] = "off"]
  /\ screen' = [screen EXCEPT ![p] = 0]
  /\ UNCHANGED <<room, appliance, link, targets, grant, socket, live, toHost,
                 toPhone, creds, inSeq, held, counts>>

\* The relay closes the participant's sockets; it tells the appliance unless
\* the close completes after the next socket is open.
Closed(p) ==
  /\ socket' = [socket EXCEPT ![p] = Nothing]
  /\ live' = [live EXCEPT ![p] = FALSE]
  /\ toPhone' = [toPhone EXCEPT ![p] = <<>>]
  /\ \/ /\ socket[p].role = "approved"
        /\ Say(p, <<Said("connection_status", socket[p].conn)>>)
     \/ UNCHANGED toHost

\* #refreshToken rotates the connection.  Its answer may be lost, and the device
\* then has no token that the relay knows.
Refresh(p) ==
  /\ phase[p] = "dropped"
  /\ creds[p].role = "approved"
  /\ creds[p] = grant[p]
  /\ grant' = [grant EXCEPT ![p] = Approved(creds[p].conn + 1)]
  /\ Closed(p)
  /\ \/ /\ creds' = [creds EXCEPT ![p] = grant'[p]]
        /\ phase' = [phase EXCEPT ![p] = "refreshed"]
     \/ /\ phase' = [phase EXCEPT ![p] = "off"]
        /\ UNCHANGED creds
  /\ UNCHANGED <<room, appliance, link, targets, inSeq, held, screen, counts>>

\* One command of one phone is on its way at a time.
SendCommand(p) ==
  /\ phase[p] = "open" /\ live[p] /\ hostLive
  /\ p \in approved
  /\ view < MaxView
  /\ \A q \in Phone : Said("client_command", creds[q].conn) \notin
                        {toHost[q][i] : i \in 1 .. Len(toHost[q])}
  /\ Say(p, <<Said("client_command", creds[p].conn)>>)
  /\ UNCHANGED <<room, appliance, link, targets, grant, socket, live, toPhone,
                 phone, counts>>

-----------------------------------------------------------------------------
(* The phone receives.                                                     *)

\* The first frame on a socket may have any number.
IsGap(p, f) == inSeq[p] >= 0 /\ f.seq # inSeq[p] + 1

Receiving(p) ==
  /\ phase[p] = "open" /\ live[p]
  /\ toPhone[p] # <<>>

\* A gap is answered by a resync_request, and the frame is not read.  The relay
\* may still take the request of a pending device for an old frame.
MeetGap(p) ==
  /\ Receiving(p)
  /\ IsGap(p, Head(toPhone[p]))
  /\ idle < MaxIdle
  /\ idle' = idle + 1
  /\ toPhone' = [toPhone EXCEPT ![p] = Tail(@)]
  /\ \/ Say(p, <<Said("resync_request", creds[p].conn)>>)
     \/ creds[p].role = "pending" /\ UNCHANGED toHost
  /\ UNCHANGED <<room, appliance, link, targets, grant, socket, live, phone,
                 faults, hostFaults, restarts>>

\* Approval rotates the socket in place.
TakeApproval(p, f) ==
  /\ f.body = Approval
  /\ creds' = [creds EXCEPT ![p] = Approved(creds[p].conn)]
  /\ phase' = [phase EXCEPT ![p] = "rotating"]
  /\ live' = [live EXCEPT ![p] = FALSE]
  /\ toPhone' = [toPhone EXCEPT ![p] = Tail(@)]
  /\ UNCHANGED <<held, screen, toHost>>

TakeView(p, f) ==
  LET applies == f.body.kind = "snapshot" \/ f.body.base = held[p] IN
  /\ f.body # Approval
  /\ toPhone' = [toPhone EXCEPT ![p] = Tail(@)]
  /\ CASE f.body = Result -> UNCHANGED <<held, screen, toHost>>
       [] f.body # Result /\ applies ->
            /\ held' = [held EXCEPT ![p] = f.body.view]
            /\ screen' = [screen EXCEPT ![p] = f.body.view]
            /\ UNCHANGED toHost
       [] OTHER ->
            /\ Say(p, <<Said("resync_request", creds[p].conn)>>)
            /\ UNCHANGED <<held, screen>>
  /\ UNCHANGED <<creds, phase, live>>

Receive(p) ==
  LET f == Head(toPhone[p]) IN
  /\ Receiving(p)
  /\ ~IsGap(p, f)
  /\ inSeq' = [inSeq EXCEPT ![p] = f.seq]
  /\ TakeApproval(p, f) \/ TakeView(p, f)
  /\ UNCHANGED <<room, appliance, link, targets, grant, socket, counts>>

-----------------------------------------------------------------------------
(* Faults.                                                                 *)

\* The connection of a phone breaks: what is on its way is lost.
Break(p) ==
  /\ Spared
  /\ live[p]
  /\ faults' = faults + 1
  /\ live' = [live EXCEPT ![p] = FALSE]
  /\ toPhone' = [toPhone EXCEPT ![p] = <<>>]
  /\ UNCHANGED <<room, appliance, link, targets, grant, socket, toHost, phone,
                 hostFaults, restarts, idle>>

\* The page is closed, or its attempt to connect fails, which it does not
\* repeat.
TurnOff(p) ==
  /\ Spared
  /\ phase[p] \notin {"out", "off"}
  /\ faults' = faults + 1
  /\ phase' = [phase EXCEPT ![p] = "off"]
  /\ screen' = [screen EXCEPT ![p] = 0]
  /\ live' = [live EXCEPT ![p] = FALSE]
  /\ toPhone' = [toPhone EXCEPT ![p] = <<>>]
  /\ UNCHANGED <<room, appliance, link, targets, grant, socket, toHost, creds,
                 inSeq, held, hostFaults, restarts, idle>>

\* The page is opened again with the stored token (reconnectIfAvailable).
Reload(p) ==
  /\ phase[p] = "off"
  /\ creds[p].role = "approved"
  /\ phase' = [phase EXCEPT ![p] = "dropped"]
  /\ held' = [held EXCEPT ![p] = 0]
  /\ UNCHANGED <<room, appliance, link, targets, grant, socket, live, toHost,
                 toPhone, creds, inSeq, screen, counts>>

\* The phone's close event.
PhoneNotices(p) ==
  /\ phase[p] = "open"
  /\ ~live[p]
  /\ phase' = [phase EXCEPT ![p] = "dropped"]
  /\ screen' = [screen EXCEPT ![p] = 0]
  /\ UNCHANGED <<room, appliance, link, targets, grant, socket, live, toHost,
                 toPhone, creds, inSeq, held, counts>>

\* webSocketClose of a phone's socket.
RelayNotices(p) ==
  /\ socket[p] # Nothing
  /\ ~live[p]
  /\ socket' = [socket EXCEPT ![p] = Nothing]
  /\ Say(p, IF socket[p].role = "approved"
            THEN <<Said("connection_status", socket[p].conn)>> ELSE <<>>)
  /\ UNCHANGED <<room, appliance, link, targets, grant, live, toPhone, phone,
                 counts>>

\* The appliance connects, again with its token: an old socket that the relay
\* still holds hands its sequence numbers over.
HostConnect ==
  /\ ~hostEnd
  /\ hostEnd' = TRUE /\ relayEnd' = TRUE /\ hostLive' = TRUE
  /\ targets' = IF relayEnd THEN targets
                ELSE [p \in Phone |-> [c \in Conn |-> -1]]
  /\ UNCHANGED <<room, appliance, grant, socket, live, toHost, toPhone, phone,
                 counts>>

CutHost ==
  /\ Spared
  /\ hostFaults' = hostFaults + 1
  /\ hostLive' = FALSE
  /\ toHost' = [p \in Phone |-> <<>>]

\* The connection of the appliance breaks, or it closes its socket because a
\* handler threw.
HostBreak ==
  /\ hostLive
  /\ CutHost
  /\ UNCHANGED <<room, appliance, hostEnd, relayEnd, targets, grant, socket,
                 live, toPhone, phone, faults, restarts, idle>>

\* The request for a token fails, before or after the relay has granted it: the
\* handler throws.
GrantFails(p) ==
  /\ awaited[p] # NoConn
  /\ awaited' = [awaited EXCEPT ![p] = NoConn]
  /\ grant' \in {grant, [grant EXCEPT ![p] = Approved(awaited[p])]}
  /\ CutHost
  /\ UNCHANGED <<room, nextSeq, connOf, cursor, pushed, hostEnd, relayEnd,
                 targets, socket, live, toPhone, phone, faults, restarts, idle>>

HostNotices ==
  /\ hostEnd /\ ~hostLive
  /\ hostEnd' = FALSE
  /\ UNCHANGED <<room, appliance, relayEnd, hostLive, targets, grant, socket,
                 live, toHost, toPhone, phone, counts>>

RelayDropsHost ==
  /\ relayEnd /\ ~hostLive
  /\ relayEnd' = FALSE
  /\ UNCHANGED <<room, appliance, hostEnd, hostLive, targets, grant, socket,
                 live, toHost, toPhone, phone, counts>>

\* The process starts again with the stored relay session (resume).
HostRestart ==
  /\ Spared
  /\ restarts' = restarts + 1
  /\ nextSeq' = [p \in Phone |-> [c \in Conn |-> 0]]
  /\ connOf' = [p \in Phone |-> NoConn]
  /\ awaited' = [p \in Phone |-> NoConn]
  /\ cursor' = [p \in Phone |-> 0]
  /\ hostEnd' = FALSE /\ hostLive' = FALSE
  /\ toHost' = [p \in Phone |-> <<>>]
  /\ UNCHANGED <<room, pushed, relayEnd, targets, grant, socket, live, toPhone,
                 phone, faults, hostFaults, idle>>

-----------------------------------------------------------------------------
Handle(p) ==
  HandleJoin(p) \/ HandlePresence(p) \/ HandleResync(p) \/ HandleCommand(p)

Next ==
  \/ \E p \in Phone :
       \/ Join(p) \/ Connect(p) \/ Refused(p) \/ Refresh(p) \/ SendCommand(p)
       \/ MeetGap(p) \/ Receive(p) \/ Handle(p)
       \/ Approve(p) \/ Grant(p) \/ GrantFails(p)
       \/ Break(p) \/ TurnOff(p) \/ Reload(p) \/ PhoneNotices(p)
       \/ RelayNotices(p)
  \/ Timer
  \/ HostConnect \/ HostBreak \/ HostNotices \/ RelayDropsHost \/ HostRestart

\* Frames arrive, broken connections are noticed, and both sides connect again.
\* Nobody has to join, to approve, to act or to reload a page.
Fairness ==
  /\ \A p \in Phone :
       /\ WF_vars(Handle(p)) /\ WF_vars(Grant(p))
       /\ WF_vars(Receive(p)) /\ WF_vars(MeetGap(p))
       /\ WF_vars(Connect(p)) /\ WF_vars(Refused(p)) /\ WF_vars(Refresh(p))
       /\ WF_vars(PhoneNotices(p)) /\ WF_vars(RelayNotices(p))
  /\ WF_vars(HostConnect) /\ WF_vars(HostNotices) /\ WF_vars(RelayDropsHost)

Spec == Init /\ [][Next]_vars
FairSpec == Spec /\ Fairness

-----------------------------------------------------------------------------
(* Types.                                                                  *)

Body == {Result, Approval} \cup {Snapshot(v) : v \in 1 .. MaxView}
          \cup {Delta(v) : v \in 1 .. MaxView}
Frame == [seq : Nat, body : Body]
Message == [kind : {"join", "hello", "resync_request", "connection_status",
                    "client_command"},
            conn : Conn]

\* Room, appliance, relay and phones keep their shapes; cursors and views are
\* revisions the room has had, and frames pass only between open ends.
TypeOK ==
  /\ asked \subseteq Phone /\ approved \subseteq asked
  /\ view \in 1 .. MaxView /\ base \in 1 .. view /\ pushed \in 0 .. view
  /\ nextSeq \in [Phone -> [Conn -> Nat]]
  /\ {connOf, awaited} \subseteq [Phone -> Conn \cup {NoConn}]
  /\ cursor \in [Phone -> 0 .. view]
  /\ {hostEnd, relayEnd, hostLive} \subseteq BOOLEAN
  /\ hostLive => hostEnd /\ relayEnd
  /\ targets \in [Phone -> [Conn -> Nat \cup {-1}]]
  /\ grant \in [Phone -> Token] /\ socket \in [Phone -> Token]
  /\ creds \in [Phone -> Token]
  /\ live \in [Phone -> BOOLEAN]
  /\ toHost \in [Phone -> Seq(Message)]
  /\ toPhone \in [Phone -> Seq(Frame)]
  /\ phase \in [Phone -> {"out", "joining", "rotating", "dropped", "refreshed",
                          "open", "off"}]
  /\ inSeq \in [Phone -> Nat \cup {-1}]
  /\ held \in [Phone -> 0 .. view] /\ screen \in [Phone -> 0 .. view]
  /\ {faults, hostFaults, restarts} \subseteq 0 .. MaxFaults
  /\ idle \in 0 .. MaxIdle

-----------------------------------------------------------------------------
(* What the delivery guarantees.                                           *)

\* While the appliance's process lives, no phone meets a gap: whatever breaks
\* on either side of the relay, the frames that reach one socket of a phone are
\* numbered without holes and without repetition.
Contiguous ==
  restarts = 0 =>
    \A p \in Phone : live[p] =>
      \A i \in 1 .. Len(toPhone[p]) :
        \/ i = 1 /\ inSeq[p] = -1
        \/ toPhone[p][i].seq =
              (IF i = 1 THEN inSeq[p] ELSE toPhone[p][i - 1].seq) + 1

\* A device that holds a token can come back with it, or its new token is on
\* the way, as long as nothing was ever lost.
Returnable ==
  faults = 0 /\ hostFaults = 0 /\ restarts = 0 =>
    \A p \in Phone :
      creds[p] # grant[p] =>
        \E i \in 1 .. Len(toPhone[p]) : toPhone[p][i].body = Approval

Quiet(p) == toHost[p] = <<>> /\ toPhone[p] = <<>>

\* When the appliance keeps its link and nothing is on its way from or to a
\* connected phone, the phone holds what the appliance takes it to hold.
CursorIsHeld ==
  hostFaults = 0 /\ restarts = 0 =>
    \A p \in Phone :
      live[p] /\ creds[p].role = "approved" /\ Quiet(p)
        => held[p] = cursor[p]

\* A screen never goes back to an older view, whatever is lost, sent again or
\* started again; it only goes blank.
NeverBack ==
  [][\A p \in Phone : screen'[p] >= screen[p] \/ screen'[p] = 0]_screen

\* An approved phone that is not switched off shows what was pushed last.
UpToDate(p) == p \in approved /\ phase[p] # "off" => screen[p] >= pushed

\* Phones that come and go catch up, as long as the appliance keeps its link.
PhonesCatchUp ==
  [](hostFaults = 0 /\ restarts = 0) => \A p \in Phone : []<>UpToDate(p)

=============================================================================
