------------------------ MODULE RelayDeliveryProofs ------------------------
(***************************************************************************)
(* What RelayDelivery guarantees for any number of phones and every bound  *)
(* on revisions, faults and idle requests.                                 *)
(*                                                                         *)
(* The inductive invariant says who knows which connection of a phone      *)
(* (Devices, Spent, Known, Approvals), how the views on their way to a     *)
(* phone relate to its screen and to the appliance's cursor (Ahead), how   *)
(* the numbers at the two ends of the appliance's link relate (Numbered,   *)
(* LinkKept), that nothing is lost without a fault (Smooth), and that a    *)
(* connected phone either asks for a snapshot or receives what leads to    *)
(* the cursor (Following).                                                 *)
(***************************************************************************)
EXTENDS RelayDelivery, SequenceTheorems, TLAPS

-----------------------------------------------------------------------------
(* Tokens and connections *)

\* The token that a device holds, the record of the relay and the socket.
DeviceOf(p) ==
  /\ phase[p] = "out" <=> creds[p] = Nothing
  /\ phase[p] = "out" <=> grant[p] = Nothing
  /\ creds[p].role = "pending" => creds[p] = Pending(1)
  /\ grant[p].role = "pending" => grant[p] = Pending(1)
  /\ creds[p].role = "approved" => grant[p].role = "approved"
  /\ creds[p].conn <= grant[p].conn
  /\ socket[p].conn <= grant[p].conn
  /\ grant[p].role = "approved" => p \in approved
  /\ live[p] => phase[p] = "open" /\ socket[p] = creds[p]
  /\ phase[p] = "joining" => creds[p].role = "pending"
  /\ phase[p] = "rotating" => creds[p].role = "approved"
  /\ phase[p] \in {"rotating", "refreshed"} => socket[p] # creds[p]

Devices == \A p \in Phone : DeviceOf(p)

\* A device whose connection was lost.
Lost(p) == phase[p] \in {"dropped", "off"} \/ (phase[p] = "open" /\ ~live[p])

\* Each refresh is paid for by a fault of the phones.
SpentOf(p) ==
  /\ grant[p].conn <= faults + 1
  /\ Lost(p) /\ creds[p] = grant[p] /\ creds[p].role = "approved" => grant[p].conn <= faults

Spent == \A p \in Phone : SpentOf(p)

\* The appliance knows no connection that the relay has not given out.
KnownOf(p) ==
  /\ p \in asked => grant[p] # Nothing
  /\ connOf[p] <= grant[p].conn
  /\ awaited[p] # NoConn =>
       grant[p] = Pending(awaited[p]) /\ p \in approved /\ connOf[p] # NoConn
  /\ \A i \in 1 .. Len(toHost[p]) : toHost[p][i].conn <= grant[p].conn

Known == \A p \in Phone : KnownOf(p)

\* An approval on its way was granted, and finds a device that waits for it.
ApprovalsOf(p) ==
  \A i \in 1 .. Len(toPhone[p]) :
    toPhone[p][i].body = Approval =>
      /\ grant[p].role = "approved"
      /\ live[p] => creds[p].role = "pending"

Approvals == \A p \in Phone : ApprovalsOf(p)

-----------------------------------------------------------------------------
(* Views *)

IsView(b) == b.kind \in {"snapshot", "delta"}

\* The views on their way are in order, no older than the screen and no newer
\* than the cursor.
AheadOf(p) ==
  /\ cursor[p] # 0 => screen[p] <= cursor[p]
  /\ \A i \in 1 .. Len(toPhone[p]) : IsView(toPhone[p][i].body) =>
       /\ screen[p] <= toPhone[p][i].body.view
       /\ toPhone[p][i].body.view <= view
       /\ cursor[p] # 0 => toPhone[p][i].body.view <= cursor[p]
  /\ \A i, j \in 1 .. Len(toPhone[p]) :
       i < j /\ IsView(toPhone[p][i].body) /\ IsView(toPhone[p][j].body) =>
         toPhone[p][i].body.view <= toPhone[p][j].body.view

Ahead == \A p \in Phone : AheadOf(p)

-----------------------------------------------------------------------------
(* Numbers *)

\* The last number that the phone has seen or will see on its socket.
LastSeq(p) == IF toPhone[p] = <<>> THEN inSeq[p] ELSE toPhone[p][Len(toPhone[p])].seq

ContiguousTo(p) ==
  live[p] =>
    \A i \in 1 .. Len(toPhone[p]) :
      \/ i = 1 /\ inSeq[p] = -1
      \/ toPhone[p][i].seq =
            (IF i = 1 THEN inSeq[p] ELSE toPhone[p][i - 1].seq) + 1

\* The relay has forwarded what it has seen, or it has met a gap, which the
\* process never closes.
NumberedTo(p) ==
  /\ \A c \in Conn : targets[p][c] < nextSeq[p][c]
  /\ live[p] /\ LastSeq(p) >= 0 =>
       /\ LastSeq(p) < nextSeq[p][socket[p].conn]
       /\ \/ targets[p][socket[p].conn] = LastSeq(p)
          \/ targets[p][socket[p].conn] + 1 < nextSeq[p][socket[p].conn]

Numbered == restarts = 0 => \A p \in Phone : ContiguousTo(p) /\ NumberedTo(p)

-----------------------------------------------------------------------------
(* While the appliance keeps its link *)

Kept == hostFaults = 0 /\ restarts = 0

\* The relay takes everything that the appliance sends.
LinkUp ==
  /\ hostLive /\ hostEnd /\ relayEnd
  /\ \A p \in Phone : \A c \in Conn : targets[p][c] + 1 = nextSeq[p][c]

\* The appliance has not connected yet.
LinkNew ==
  /\ ~hostLive /\ ~hostEnd /\ ~relayEnd /\ asked = {}
  /\ \A p \in Phone : /\ toHost[p] = <<>> /\ connOf[p] = NoConn /\ awaited[p] = NoConn
                      /\ \A c \in Conn : nextSeq[p][c] = 0

LinkKept == Kept => LinkUp \/ LinkNew

\* Without any fault a device only joins, waits and rotates.
SmoothOf(p) ==
  /\ phase[p] \in {"out", "joining", "open", "rotating"}
  /\ phase[p] = "open" => live[p]
  /\ phase[p] = "joining" => socket[p] = Nothing
  /\ creds[p] # grant[p] =>
       /\ phase[p] = "open"
       /\ \E i \in 1 .. Len(toPhone[p]) : toPhone[p][i].body = Approval
  /\ toHost[p] # <<>> \/ connOf[p] # NoConn => phase[p] \in {"open", "rotating"}

Smooth == faults = 0 /\ Kept => \A p \in Phone : SmoothOf(p)

\* A request for a snapshot will reach the appliance on the phone's connection.
Asking(p) ==
  \E i \in 1 .. Len(toHost[p]) :
    /\ toHost[p][i].kind \in {"hello", "resync_request"}
    /\ \A j \in i .. Len(toHost[p]) : toHost[p][j].conn = socket[p].conn

\* The revision from which the deltas behind frame k start.
Start(p, k) == IF k = 0 THEN held[p] ELSE toPhone[p][k].body.view

\* Behind the snapshot k (or what is held) the deltas lead to the cursor.
Settled(p, k) ==
  /\ k # 0 => toPhone[p][k].body.kind = "snapshot"
  /\ Start(p, k) <= cursor[p]
  /\ \A i \in k + 1 .. Len(toPhone[p]) :
       /\ toPhone[p][i].body.kind # "snapshot"
       /\ toPhone[p][i].body.kind = "delta" =>
            Start(p, k) < toPhone[p][i].body.view /\ toPhone[p][i].body.view <= cursor[p]
  /\ \A i, j \in k + 1 .. Len(toPhone[p]) :
       i < j /\ toPhone[p][i].body.kind = "delta" /\ toPhone[p][j].body.kind = "delta" =>
         toPhone[p][i].body.view < toPhone[p][j].body.view
  /\ \A v \in Start(p, k) + 1 .. cursor[p] :
       \E i \in k + 1 .. Len(toPhone[p]) : toPhone[p][i].body = Delta(v)

Followed(p) ==
  /\ connOf[p] = socket[p].conn
  /\ \A i \in 1 .. Len(toHost[p]) : toHost[p][i].conn = socket[p].conn
  /\ \E k \in 0 .. Len(toPhone[p]) : Settled(p, k)

Following ==
  Kept => \A p \in Phone : live[p] /\ creds[p].role = "approved" => Asking(p) \/ Followed(p)

IInv ==
  /\ TypeOK /\ Devices /\ Spent /\ Known /\ Approvals /\ Ahead /\ Numbered
  /\ LinkKept /\ Smooth /\ Following

-----------------------------------------------------------------------------
(* What a push sends *)

LEMMA BodyFacts ==
  /\ Result \in Body /\ Approval \in Body /\ Result # Approval
  /\ Result.kind = "command_result" /\ Approval.kind = "approval_result"
  /\ ~IsView(Result) /\ ~IsView(Approval)
  /\ \A v \in 1 .. MaxView :
       /\ Snapshot(v) \in Body /\ Snapshot(v).kind = "snapshot" /\ Snapshot(v).view = v
       /\ Delta(v) \in Body /\ Delta(v).kind = "delta" /\ Delta(v).view = v
       /\ Delta(v).base = v - 1 /\ IsView(Snapshot(v)) /\ IsView(Delta(v))
       /\ Snapshot(v) # Approval /\ Delta(v) # Approval
       /\ Snapshot(v) # Result /\ Delta(v) # Result
BY DEF Result, Approval, Snapshot, Delta, Body, IsView

\* A body is told by its kind.
LEMMA BodyIs ==
  ASSUME NEW b \in Body
  PROVE  \/ b = Result
         \/ b = Approval
         \/ b.view \in 1 .. MaxView /\ b = Snapshot(b.view) /\ b.kind = "snapshot"
         \/ b.view \in 1 .. MaxView /\ b = Delta(b.view) /\ b.kind = "delta" /\ b.base = b.view - 1
BY BodyFacts DEF Body

\* The frames that the relay takes of those sent to a connection.
LEMMA TakenIs ==
  ASSUME NEW p \in Phone, NEW c \in Conn, NEW bodies \in Seq(Body),
         nextSeq[p][c] \in Nat, targets[p][c] \in Nat \cup {-1}
  PROVE  LET n == nextSeq[p][c]
             t == targets[p][c]
             taken == Taken(p, c, bodies)
         IN /\ taken \in Seq(Frame)
            /\ IF hostLive /\ n <= t + 1 /\ t + 1 < n + Len(bodies)
               THEN /\ Len(taken) = n + Len(bodies) - (t + 1)
                    /\ \A i \in 1 .. Len(taken) :
                         taken[i] = [seq |-> t + i, body |-> bodies[t + 1 - n + i]]
               ELSE taken = <<>>
<1> DEFINE n == nextSeq[p][c]
           t == targets[p][c]
           known == t + 1 - n
           frames == [i \in 1 .. Len(bodies) |-> [seq |-> n + i - 1, body |-> bodies[i]]]
           taken == Taken(p, c, bodies)
<1>1. taken = IF hostLive /\ known >= 0 THEN SubSeq(frames, known + 1, Len(frames)) ELSE <<>>
  BY DEF Taken
<1>2. n \in Nat /\ t \in Int /\ t >= -1 /\ known \in Int /\ Len(bodies) \in Nat
  BY LenProperties
<1>3. \A i \in 1 .. Len(bodies) : frames[i] \in Frame
  <2>1. \A i \in 1 .. Len(bodies) : bodies[i] \in Body
    BY ElementOfSeq
  <2>2. QED
    BY <1>2, <2>1 DEF Frame
<1>4. frames \in Seq(Frame) /\ Len(frames) = Len(bodies)
  BY <1>2, <1>3
<1>5. ASSUME NEW i \in 1 .. Len(bodies)
      PROVE  frames[i] = [seq |-> n + i - 1, body |-> bodies[i]]
  OBVIOUS
<1>6. /\ taken \in Seq(Frame)
      /\ IF hostLive /\ n <= t + 1 /\ t + 1 < n + Len(bodies)
         THEN /\ Len(taken) = n + Len(bodies) - (t + 1)
              /\ \A i \in 1 .. Len(taken) :
                   taken[i] = [seq |-> t + i, body |-> bodies[t + 1 - n + i]]
         ELSE taken = <<>>
  <2> HIDE DEF taken, frames, n, t
  <2>1. CASE hostLive /\ known >= 0
    <3> DEFINE m == known + 1
               l == Len(bodies)
               s == SubSeq(frames, m, l)
    <3>1. m \in Int /\ l \in Int /\ m >= 1 /\ \A i \in m .. l : frames[i] \in Frame
      BY <1>2, <1>3, <2>1
    <3>2. /\ s \in Seq(Frame)
          /\ Len(s) = IF m <= l THEN l - m + 1 ELSE 0
          /\ \A i \in 1 .. l - m + 1 : s[i] = frames[m + i - 1]
      <4> HIDE DEF m, l
      <4>1. QED
        BY <3>1, SubSeqProperties
    <3>3. taken = s
      BY <1>1, <1>4, <2>1
    <3> HIDE DEF s
    <3>4. CASE t + 1 < n + l
      <4>1. m <= l /\ l - m + 1 = n + l - (t + 1)
        BY <1>2, <3>1, <3>4
      <4>2. Len(s) = n + l - (t + 1)
        BY <3>2, <4>1
      <4>3. ASSUME NEW i \in 1 .. Len(s)
            PROVE  s[i] = [seq |-> t + i, body |-> bodies[t + 1 - n + i]]
        <5>1. /\ m + i - 1 \in 1 .. l /\ m + i - 1 = t + 1 - n + i /\ i \in 1 .. l - m + 1
              /\ n + (m + i - 1) - 1 = t + i
          BY <1>2, <2>1, <3>1, <4>1, <4>2
        <5>2. s[i] = frames[m + i - 1]
          BY <3>2, <5>1
        <5>3. frames[m + i - 1] = [seq |-> n + (m + i - 1) - 1, body |-> bodies[m + i - 1]]
          BY <1>5, <5>1
        <5> HIDE DEF m, l
        <5>4. QED
          BY <5>1, <5>2, <5>3
      <4>4. n <= t + 1
        BY <1>2, <2>1
      <4>5. QED
        BY <2>1, <3>2, <3>3, <3>4, <4>2, <4>3, <4>4
    <3>5. CASE ~(t + 1 < n + l)
      <4>1. ~(m <= l)
        BY <1>2, <3>1, <3>5
      <4>2. s = <<>>
        BY <3>2, <4>1, EmptySeq
      <4>3. QED
        BY <3>2, <3>3, <3>5, <4>2
    <3>6. QED
      BY <3>4, <3>5
  <2>2. CASE ~(hostLive /\ known >= 0)
    <3>1. taken = <<>>
      BY <1>1, <2>2
    <3>2. ~(hostLive /\ n <= t + 1)
      BY <1>2, <2>2
    <3>3. QED
      BY <3>1, <3>2
  <2>3. QED
    BY <2>1, <2>2
<1>7. QED
  BY <1>6

\* What a post does to the numbers and to the way to each phone.
Numbers ==
  /\ nextSeq \in [Phone -> [Conn -> Nat]]
  /\ targets \in [Phone -> [Conn -> Nat \cup {-1}]]
  /\ toPhone \in [Phone -> Seq(Frame)]

Goes(p, c, bodies) ==
  hostLive /\ nextSeq[p][c] <= targets[p][c] + 1
           /\ targets[p][c] + 1 < nextSeq[p][c] + Len(bodies)

LEMMA Posted ==
  ASSUME Numbers, NEW bodies \in [Phone -> Seq(Body)], NEW conn \in [Phone -> Conn \cup {NoConn}],
         Post(bodies, conn)
  PROVE  /\ Numbers'
         /\ \A p \in Phone :
              /\ \A c \in Conn : c # conn[p] =>
                   nextSeq'[p][c] = nextSeq[p][c] /\ targets'[p][c] = targets[p][c]
              /\ conn[p] # NoConn =>
                   /\ nextSeq'[p][conn[p]] = nextSeq[p][conn[p]] + Len(bodies[p])
                   /\ targets'[p][conn[p]] =
                        IF Goes(p, conn[p], bodies[p])
                        THEN nextSeq[p][conn[p]] + Len(bodies[p]) - 1 ELSE targets[p][conn[p]]
              /\ toPhone'[p] = IF conn[p] # NoConn /\ Reaches(p, conn[p])
                               THEN toPhone[p] \o Taken(p, conn[p], bodies[p]) ELSE toPhone[p]
<1> DEFINE To == {p \in Phone : conn[p] # NoConn}
           taken == [p \in To |-> Taken(p, conn[p], bodies[p])]
           last(p) == taken[p][Len(taken[p])].seq
<1>1. /\ nextSeq' = [p \in Phone |->
           IF p \in To THEN [nextSeq[p] EXCEPT ![conn[p]] = @ + Len(bodies[p])] ELSE nextSeq[p]]
      /\ targets' = [p \in Phone |->
           IF p \in To /\ taken[p] # <<>>
           THEN [targets[p] EXCEPT ![conn[p]] = last(p)] ELSE targets[p]]
      /\ toPhone' = [p \in Phone |->
           IF p \in To /\ Reaches(p, conn[p]) THEN toPhone[p] \o taken[p] ELSE toPhone[p]]
  BY DEF Post
<1>2. ASSUME NEW p \in Phone
      PROVE  /\ nextSeq'[p] \in [Conn -> Nat]
             /\ targets'[p] \in [Conn -> Nat \cup {-1}]
             /\ toPhone'[p] \in Seq(Frame)
             /\ \A c \in Conn : c # conn[p] =>
                   nextSeq'[p][c] = nextSeq[p][c] /\ targets'[p][c] = targets[p][c]
             /\ conn[p] # NoConn =>
                  /\ nextSeq'[p][conn[p]] = nextSeq[p][conn[p]] + Len(bodies[p])
                  /\ targets'[p][conn[p]] =
                       IF Goes(p, conn[p], bodies[p])
                       THEN nextSeq[p][conn[p]] + Len(bodies[p]) - 1 ELSE targets[p][conn[p]]
             /\ toPhone'[p] = IF conn[p] # NoConn /\ Reaches(p, conn[p])
                              THEN toPhone[p] \o Taken(p, conn[p], bodies[p]) ELSE toPhone[p]
  <2>1. /\ nextSeq[p] \in [Conn -> Nat] /\ targets[p] \in [Conn -> Nat \cup {-1}]
        /\ toPhone[p] \in Seq(Frame) /\ bodies[p] \in Seq(Body) /\ Len(bodies[p]) \in Nat
    BY LenProperties DEF Numbers
  <2>2. CASE conn[p] = NoConn
    <3>1. /\ nextSeq'[p] = nextSeq[p] /\ targets'[p] = targets[p] /\ toPhone'[p] = toPhone[p]
      BY <1>1, <2>2
    <3>2. QED
      BY <2>1, <2>2, <3>1
  <2>3. CASE conn[p] # NoConn
    <3> DEFINE c == conn[p]
               n == nextSeq[p][c]
               t == targets[p][c]
               l == Len(bodies[p])
               sent == Taken(p, c, bodies[p])
    <3>1. c \in Conn /\ taken[p] = sent /\ p \in To
      BY <2>3
    <3>2. n \in Nat /\ t \in Nat \cup {-1} /\ l \in Nat
      BY <2>1, <3>1
    <3>3. /\ sent \in Seq(Frame)
          /\ Goes(p, c, bodies[p]) =>
               /\ Len(sent) = n + l - (t + 1)
               /\ \A i \in 1 .. Len(sent) :
                    sent[i] = [seq |-> t + i, body |-> bodies[p][t + 1 - n + i]]
          /\ ~Goes(p, c, bodies[p]) => sent = <<>>
      BY <2>1, <3>1, <3>2, TakenIs DEF Goes
    <3>4. /\ nextSeq'[p] = [nextSeq[p] EXCEPT ![c] = n + l]
          /\ targets'[p] = IF sent # <<>>
                           THEN [targets[p] EXCEPT ![c] = sent[Len(sent)].seq] ELSE targets[p]
          /\ toPhone'[p] = IF Reaches(p, c) THEN toPhone[p] \o sent ELSE toPhone[p]
      BY <1>1, <3>1
    <3>5. Goes(p, c, bodies[p]) <=> hostLive /\ n <= t + 1 /\ t + 1 < n + l
      BY DEF Goes
    <3> HIDE DEF sent, n, t, l, c
    <3>6. sent # <<>> => Goes(p, c, bodies[p]) /\ sent[Len(sent)].seq = n + l - 1
      <4>1. SUFFICES ASSUME sent # <<>> PROVE Goes(p, c, bodies[p]) /\ sent[Len(sent)].seq = n + l - 1
        OBVIOUS
      <4>2. Goes(p, c, bodies[p])
        BY <3>3, <4>1
      <4>3. Len(sent) \in 1 .. Len(sent) /\ Len(sent) \in Nat
        BY <3>3, <4>1, EmptySeq, LenProperties
      <4>4. sent[Len(sent)] = [seq |-> t + Len(sent), body |-> bodies[p][t + 1 - n + Len(sent)]]
        BY <3>3, <4>2, <4>3
      <4>5. t + Len(sent) = n + l - 1
        BY <3>2, <3>3, <4>2
      <4>6. QED
        BY <4>2, <4>4, <4>5
    <3>7. Goes(p, c, bodies[p]) => sent # <<>> /\ n + l - 1 \in Nat
      <4>1. Goes(p, c, bodies[p]) => Len(sent) >= 1 /\ n + l - 1 \in Nat
        BY <3>2, <3>3, <3>5
      <4>2. QED
        BY <4>1, EmptySeq
    <3>8. toPhone'[p] \in Seq(Frame)
      BY <2>1, <3>3, <3>4, ConcatProperties
    <3>9. nextSeq'[p] \in [Conn -> Nat] /\ targets'[p] \in [Conn -> Nat \cup {-1}]
      BY <2>1, <3>1, <3>2, <3>4, <3>6, <3>7
    <3>10. nextSeq'[p][c] = n + l
      BY <2>1, <3>1, <3>4
    <3>11. targets'[p][c] = IF Goes(p, c, bodies[p]) THEN n + l - 1 ELSE t
      BY <2>1, <3>1, <3>4, <3>6, <3>7 DEF t
    <3>12. \A d \in Conn : d # c =>
             nextSeq'[p][d] = nextSeq[p][d] /\ targets'[p][d] = targets[p][d]
      BY <2>1, <3>1, <3>4
    <3>13. QED
      BY <2>3, <3>4, <3>8, <3>9, <3>10, <3>11, <3>12 DEF sent, n, t, l, c
  <2>4. QED
    BY <2>2, <2>3
<1>3. Numbers'
  BY <1>1, <1>2 DEF Numbers
<1>4. QED
  BY <1>2, <1>3

\* deliveriesSince: nothing, a snapshot, or the deltas from the cursor on.
LEMMA ViewsAre ==
  ASSUME NEW p \in Phone, NEW to, NEW v \in 1 .. MaxView, NEW b \in 1 .. v,
         NEW forced \in BOOLEAN, cursor[p] \in 0 .. v
  PROVE  /\ Views(p, to, v, b, forced) \in Seq(Body)
         /\ \/ p \notin to /\ Views(p, to, v, b, forced) = <<>>
            \/ p \in to /\ Views(p, to, v, b, forced) = <<Snapshot(v)>>
            \/ /\ p \in to /\ ~forced /\ cursor[p] >= 1
               /\ Len(Views(p, to, v, b, forced)) = v - cursor[p]
               /\ \A i \in 1 .. v - cursor[p] :
                    Views(p, to, v, b, forced)[i] = Delta(cursor[p] + i)
         /\ p \in to /\ forced => Views(p, to, v, b, forced) = <<Snapshot(v)>>
<1>1. CASE p \notin to
  BY <1>1 DEF Views
<1>2. CASE p \in to /\ (forced \/ cursor[p] < b)
  <2>1. Views(p, to, v, b, forced) = <<Snapshot(v)>> /\ Snapshot(v) \in Body
    BY <1>2, BodyFacts DEF Views
  <2>2. QED
    BY <1>2, <2>1
<1>3. CASE p \in to /\ ~(forced \/ cursor[p] < b)
  <2> DEFINE l == v - cursor[p]
             chain == [i \in 1 .. l |-> Delta(cursor[p] + i)]
  <2>1. Views(p, to, v, b, forced) = chain
    BY <1>3 DEF Views, Chain
  <2>2. l \in Nat /\ cursor[p] >= 1
    BY <1>3, DeliveryAssumption
  <2>3. \A i \in 1 .. l : Delta(cursor[p] + i) \in Body
    BY BodyFacts, DeliveryAssumption
  <2> HIDE DEF l
  <2>4. chain \in Seq(Body) /\ Len(chain) = l /\ \A i \in 1 .. l : chain[i] = Delta(cursor[p] + i)
    BY <2>2, <2>3
  <2>5. QED
    BY <1>3, <2>1, <2>2, <2>4 DEF l
<1>4. QED
  BY <1>1, <1>2, <1>3

\* The bodies of a push, with what is sent before the views.
Before == {<<>>, <<Result>>, <<Approval>>}

Sends(p, f, to, v, forced, w) ==
  /\ w \in Seq(Body)
  /\ f # <<>> => Len(w) >= 1 /\ w[1] = f[1]
  /\ \A i \in 1 .. Len(w) : w[i] = Approval => f = <<Approval>>
  /\ \A i \in 1 .. Len(w) : IsView(w[i]) =>
       /\ p \in to /\ w[i].view \in 1 .. v /\ cursor[p] <= w[i].view
       /\ cursor[p] = 0 => w[i].view = v
  /\ \A i, j \in 1 .. Len(w) : i < j /\ IsView(w[i]) /\ IsView(w[j]) =>
       w[i].view < w[j].view
  /\ p \in to =>
       \/ Len(w) >= 1 /\ w[Len(w)] = Snapshot(v)
       \/ /\ ~forced
          /\ \A i \in 1 .. Len(w) :
               /\ w[i].kind # "snapshot"
               /\ w[i].kind = "delta" => cursor[p] < w[i].view
          /\ \A u \in cursor[p] + 1 .. v : \E i \in 1 .. Len(w) : w[i] = Delta(u)

LEMMA SentIs ==
  ASSUME NEW p \in Phone, NEW f \in Before, NEW to, NEW v \in 1 .. MaxView, NEW b \in 1 .. v,
         NEW forced \in BOOLEAN, cursor[p] \in 0 .. v
  PROVE  Sends(p, f, to, v, forced, f \o Views(p, to, v, b, forced))
<1> DEFINE views == Views(p, to, v, b, forced)
           w == f \o views
<1>1. /\ views \in Seq(Body)
      /\ \/ p \notin to /\ views = <<>>
         \/ p \in to /\ views = <<Snapshot(v)>>
         \/ /\ p \in to /\ ~forced /\ cursor[p] >= 1
            /\ Len(views) = v - cursor[p]
            /\ \A i \in 1 .. v - cursor[p] : views[i] = Delta(cursor[p] + i)
  BY ViewsAre
<1>w. w = f \o views
  OBVIOUS
<1> HIDE DEF views, w
<1>2. /\ f \in Seq(Body) /\ Len(f) \in {0, 1}
      /\ Len(f) = 0 => f = <<>>
      /\ Len(f) = 1 => f[1] \in {Result, Approval} /\ (f[1] = Approval => f = <<Approval>>)
  <2>1. CASE f = <<>>
    BY <2>1
  <2>2. CASE f = <<Result>>
    BY <2>2, BodyFacts
  <2>3. CASE f = <<Approval>>
    BY <2>3, BodyFacts
  <2>4. QED
    BY <2>1, <2>2, <2>3 DEF Before
<1>3. /\ w \in Seq(Body) /\ Len(w) = Len(f) + Len(views) /\ Len(views) \in Nat
      /\ \A i \in 1 .. Len(f) + Len(views) :
           w[i] = IF i <= Len(f) THEN f[i] ELSE views[i - Len(f)]
  BY <1>w, <1>1, <1>2, ConcatProperties, LenProperties
<1>4. /\ \A i \in 1 .. Len(f) : w[i] \in {Result, Approval} /\ (w[i] = Approval => f = <<Approval>>)
      /\ \A i \in 1 .. Len(views) : w[Len(f) + i] = views[i]
      /\ \A i \in 1 .. Len(w) : i \in 1 .. Len(f) \/ i - Len(f) \in 1 .. Len(views)
  <2>1. ASSUME NEW i \in 1 .. Len(f) PROVE i = 1 /\ Len(f) = 1 /\ w[i] = f[i]
    <3>1. i = 1 /\ Len(f) = 1
      <4>1. CASE Len(f) = 0
        BY <4>1
      <4>2. CASE Len(f) = 1
        BY <4>2
      <4>3. QED
        BY <1>2, <4>1, <4>2
    <3>a. \A m \in Nat : 1 \in 1 .. 1 + m /\ 1 <= 1
      OBVIOUS
    <3>2. i \in 1 .. Len(f) + Len(views) /\ i <= Len(f)
      BY <1>3, <3>1, <3>a
    <3>3. QED
      BY <1>3, <3>1, <3>2
  <2>2. ASSUME NEW i \in 1 .. Len(views) PROVE w[Len(f) + i] = views[i]
    <3> DEFINE j == Len(f) + i
    <3>1. j \in 1 .. Len(f) + Len(views) /\ ~(j <= Len(f)) /\ j - Len(f) = i
      BY <1>2, <1>3
    <3> HIDE DEF j
    <3>2. w[j] = views[i]
      BY <1>3, <3>1
    <3>3. QED
      BY <3>2 DEF j
  <2>3. \A i \in 1 .. Len(w) : i \in 1 .. Len(f) \/ i - Len(f) \in 1 .. Len(views)
    BY <1>2, <1>3
  <2>4. QED
    BY <1>2, <2>1, <2>2, <2>3
<1>5. f # <<>> => Len(w) >= 1 /\ w[1] = f[1]
  BY <1>2, <1>3
<1>6. ASSUME p \notin to /\ views = <<>> PROVE Sends(p, f, to, v, forced, w)
  <2>1. \A i \in 1 .. Len(w) : i \in 1 .. Len(f)
    BY <1>2, <1>3, <1>6
  <2>2. \A i \in 1 .. Len(w) : ~IsView(w[i]) /\ (w[i] = Approval => f = <<Approval>>)
    BY <1>4, <2>1, BodyFacts
  <2>3. QED
    BY <1>3, <1>5, <1>6, <2>2 DEF Sends
<1>7. ASSUME p \in to /\ views = <<Snapshot(v)>> PROVE Sends(p, f, to, v, forced, w)
  <2>1. Len(views) = 1 /\ views[1] = Snapshot(v)
    BY <1>7
  <2>2. /\ Len(w) = Len(f) + 1 /\ w[Len(w)] = Snapshot(v)
        /\ \A i \in 1 .. Len(w) : i \in 1 .. Len(f) \/ i = Len(w)
    BY <1>2, <1>3, <1>4, <2>1
  <2>3. \A i \in 1 .. Len(w) : IsView(w[i]) => i = Len(w)
    BY <1>4, <2>2, BodyFacts
  <2>4. \A i \in 1 .. Len(w) : w[i] = Approval => f = <<Approval>>
    BY <1>4, <2>2, BodyFacts
  <2>5. Len(w) \in Nat /\ Len(w) >= 1
    BY <1>2, <2>2
  <2>6. \A i, j \in 1 .. Len(w) : i < j /\ IsView(w[i]) /\ IsView(w[j]) => w[i].view < w[j].view
    BY <2>3, <2>5
  <2>7. \A i \in 1 .. Len(w) : IsView(w[i]) =>
          /\ p \in to /\ w[i].view \in 1 .. v /\ cursor[p] <= w[i].view
          /\ cursor[p] = 0 => w[i].view = v
    BY <1>7, <2>2, <2>3, BodyFacts
  <2>8. QED
    BY <1>3, <1>5, <1>7, <2>2, <2>4, <2>5, <2>6, <2>7 DEF Sends
<1>8. ASSUME /\ p \in to /\ ~forced /\ cursor[p] >= 1
             /\ Len(views) = v - cursor[p]
             /\ \A i \in 1 .. v - cursor[p] : views[i] = Delta(cursor[p] + i)
      PROVE  Sends(p, f, to, v, forced, w)
  <2> DEFINE c == cursor[p]
             l == Len(f)
  <2>0. /\ c \in Nat /\ c >= 1 /\ c <= v /\ v \in Nat /\ v <= MaxView /\ MaxView \in Nat
        /\ l \in Nat /\ Len(views) \in Nat /\ Len(views) = v - c /\ Len(w) = l + Len(views)
    BY <1>2, <1>3, <1>8, DeliveryAssumption
  <2>e. /\ \A i \in 1 .. v - c : views[i] = Delta(c + i)
        /\ \A i \in 1 .. Len(views) : w[l + i] = views[i]
        /\ \A i \in 1 .. l : w[i] \in {Result, Approval} /\ (w[i] = Approval => f = <<Approval>>)
        /\ \A i \in 1 .. Len(w) : i \in 1 .. l \/ i - l \in 1 .. Len(views)
    BY <1>4, <1>8
  <2> HIDE DEF c, l
  <2>1. \A i \in 1 .. Len(views) : c + i \in 1 .. v /\ c + i \in 1 .. MaxView
    BY <2>0
  <2>2. \A i \in 1 .. Len(views) :
          /\ w[l + i].kind = "delta" /\ w[l + i].view = c + i
          /\ w[l + i] # Approval /\ w[l + i] = Delta(c + i)
    <3>1. \A i \in 1 .. Len(views) : w[l + i] = Delta(c + i)
      BY <2>0, <2>e
    <3>2. ASSUME NEW i \in 1 .. Len(views)
          PROVE  /\ w[l + i].kind = "delta" /\ w[l + i].view = c + i /\ w[l + i] # Approval
      <4>1. c + i \in 1 .. MaxView
        BY <2>1
      <4>2. Delta(c + i).kind = "delta" /\ Delta(c + i).view = c + i /\ Delta(c + i) # Approval
        BY <4>1, BodyFacts
      <4>3. QED
        BY <3>1, <4>2
    <3>3. QED
      BY <3>1, <3>2
  <2>3. ASSUME NEW i \in 1 .. Len(w)
        PROVE  \/ i \in 1 .. l /\ ~IsView(w[i])
               \/ /\ i - l \in 1 .. Len(views)
                  /\ w[i].kind = "delta" /\ w[i].view = c + (i - l)
                  /\ w[i] # Approval
    <3>1. CASE i \in 1 .. l
      BY <2>e, <3>1, BodyFacts
    <3>2. CASE i - l \in 1 .. Len(views)
      <4>1. i = l + (i - l)
        BY <2>0
      <4>2. QED
        BY <2>2, <3>2, <4>1
    <3>3. QED
      BY <2>e, <3>1, <3>2
  <2>4. ASSUME NEW i \in 1 .. Len(w), IsView(w[i])
        PROVE  /\ w[i].view \in 1 .. v /\ c < w[i].view /\ w[i].view = c + (i - l)
    <3>1. i - l \in 1 .. Len(views) /\ w[i].view = c + (i - l)
      BY <2>3, <2>4
    <3>2. c + (i - l) \in 1 .. v /\ c < c + (i - l)
      BY <2>0, <3>1
    <3>3. QED
      BY <3>1, <3>2
  <2>5. ASSUME NEW i \in 1 .. Len(w), NEW j \in 1 .. Len(w), i < j, IsView(w[i]), IsView(w[j])
        PROVE  w[i].view < w[j].view
    <3>1. w[i].view = c + (i - l) /\ w[j].view = c + (j - l)
      BY <2>4, <2>5
    <3>2. c + (i - l) < c + (j - l)
      BY <2>0, <2>5
    <3>3. QED
      BY <3>1, <3>2
  <2>6. \A i \in 1 .. Len(w) :
          /\ w[i] = Approval => f = <<Approval>>
          /\ w[i].kind # "snapshot"
          /\ w[i].kind = "delta" => c < w[i].view
    BY <2>e, <2>3, <2>4, BodyFacts DEF IsView
  <2>7. ASSUME NEW u \in c + 1 .. v PROVE \E i \in 1 .. Len(w) : w[i] = Delta(u)
    <3>1. u - c \in 1 .. Len(views) /\ c + (u - c) = u
      BY <2>0
    <3>2. w[l + (u - c)] = Delta(u)
      BY <2>2, <3>1
    <3>3. l + (u - c) \in 1 .. Len(w)
      BY <2>0, <3>1
    <3>4. QED
      BY <3>2, <3>3
  <2>8. \A i \in 1 .. Len(w) : IsView(w[i]) =>
          /\ p \in to /\ w[i].view \in 1 .. v /\ c <= w[i].view
          /\ c = 0 => w[i].view = v
    <3>1. \A i \in 1 .. Len(w) : IsView(w[i]) => w[i].view \in 1 .. v /\ c < w[i].view
      BY <2>4
    <3>2. p \in to /\ c # 0
      BY <1>8, <2>0
    <3>3. \A x \in 1 .. v : c < x => c <= x
      BY <2>0
    <3>4. QED
      BY <3>1, <3>2, <3>3
  <2>9. QED
    BY <1>3, <1>5, <1>8, <2>5, <2>6, <2>7, <2>8 DEF c, Sends
<1>9. QED
  BY <1>1, <1>6, <1>7, <1>8 DEF w, views

\* What is sent to p, and the frames of it that the relay forwards.
Sent(p, f, to, forced) ==
  f \o Views(p, {q \in to : connOf'[q] # NoConn}, view', base', forced)

New(p) == Len(toPhone[p]) + 1 .. Len(toPhone'[p])

\* The way to the phone is extended, by frames of the phone's own connection.
Extended(p) ==
  /\ Len(toPhone[p]) <= Len(toPhone'[p])
  /\ \A i \in 1 .. Len(toPhone[p]) : toPhone'[p][i] = toPhone[p][i]
  /\ New(p) # {} => connOf'[p] # NoConn /\ Reaches(p, connOf'[p])

Carried(p, f, to) ==
  /\ \A i \in New(p) : toPhone'[p][i].body = Approval => f = <<Approval>>
  /\ \A i \in New(p) : IsView(toPhone'[p][i].body) =>
       /\ p \in to
       /\ toPhone'[p][i].body.view \in 1 .. view' /\ cursor[p] <= toPhone'[p][i].body.view
       /\ cursor[p] = 0 => toPhone'[p][i].body.view = view'
  /\ \A i, j \in New(p) :
       i < j /\ IsView(toPhone'[p][i].body) /\ IsView(toPhone'[p][j].body) =>
         toPhone'[p][i].body.view < toPhone'[p][j].body.view

Counted(p) ==
  /\ \A c \in Conn : c # connOf'[p] =>
       nextSeq'[p][c] = nextSeq[p][c] /\ targets'[p][c] = targets[p][c]
  /\ connOf'[p] # NoConn =>
       LET c == connOf'[p]
           t == targets[p][c]
           n == nextSeq[p][c] IN
       /\ n <= nextSeq'[p][c] /\ t <= targets'[p][c]
       /\ t < n => targets'[p][c] < nextSeq'[p][c]
       /\ hostLive /\ t + 1 = n => targets'[p][c] + 1 = nextSeq'[p][c]
       /\ t < n => \A i \in New(p) :
            toPhone'[p][i].seq =
              (IF i = Len(toPhone[p]) + 1 THEN t ELSE toPhone'[p][i - 1].seq) + 1
       /\ t < n /\ New(p) # {} =>
            /\ targets'[p][c] = toPhone'[p][Len(toPhone'[p])].seq
            /\ t + 1 = n
       /\ t < n /\ Reaches(p, c) /\ New(p) = {} => targets'[p][c] = t

\* Nothing is dropped when the relay has seen all that was sent before.
Complete(p, w) ==
  connOf'[p] # NoConn /\ Reaches(p, connOf'[p]) /\ hostLive
    /\ targets[p][connOf'[p]] + 1 = nextSeq[p][connOf'[p]] =>
    /\ Len(toPhone'[p]) = Len(toPhone[p]) + Len(w)
    /\ \A i \in 1 .. Len(w) : toPhone'[p][Len(toPhone[p]) + i].body = w[i]

Pushed(p, f, to, forced) ==
  /\ Extended(p) /\ Carried(p, f, to) /\ Counted(p)
  /\ Complete(p, Sent(p, f, to, forced))
  /\ cursor'[p] = IF p \in to /\ connOf'[p] # NoConn THEN view' ELSE cursor[p]

Pushing(first, to, forced) ==
  /\ first \in [Phone -> Before] /\ to \subseteq Phone /\ forced \in BOOLEAN
  /\ view' \in view .. MaxView /\ base' \in 1 .. view'
  /\ connOf' \in [Phone -> Conn \cup {NoConn}]
  /\ Push(first, to, view', base', forced, connOf')

LEMMA PushIs ==
  ASSUME TypeOK, NEW first, NEW to, NEW forced, Pushing(first, to, forced)
  PROVE  /\ Numbers' /\ cursor' \in [Phone -> 0 .. view']
         /\ \A p \in Phone : Pushed(p, first[p], to, forced)
<1> DEFINE reached == {q \in to : connOf'[q] # NoConn}
           sent == [p \in Phone |-> first[p] \o Views(p, reached, view', base', forced)]
<1>1. /\ Numbers /\ view \in 1 .. MaxView /\ cursor \in [Phone -> 0 .. view]
      /\ first \in [Phone -> Before] /\ to \subseteq Phone /\ forced \in BOOLEAN
      /\ view' \in 1 .. MaxView /\ view <= view' /\ base' \in 1 .. view'
      /\ connOf' \in [Phone -> Conn \cup {NoConn}]
      /\ \A p \in Phone : cursor[p] \in 0 .. view'
  BY DEF TypeOK, Numbers, Pushing
<1>2. /\ Post(sent, connOf')
      /\ cursor' = [p \in Phone |-> IF p \in reached THEN view' ELSE cursor[p]]
  BY DEF Pushing, Push
<1>3. ASSUME NEW p \in Phone
      PROVE  LET f == first[p]
                 w == sent[p] IN
             /\ w \in Seq(Body)
             /\ w = Sent(p, f, to, forced)
             /\ \A i \in 1 .. Len(w) : w[i] = Approval => f = <<Approval>>
             /\ \A i \in 1 .. Len(w) : IsView(w[i]) =>
                  /\ p \in to /\ w[i].view \in 1 .. view' /\ cursor[p] <= w[i].view
                  /\ cursor[p] = 0 => w[i].view = view'
             /\ \A i, j \in 1 .. Len(w) : i < j /\ IsView(w[i]) /\ IsView(w[j]) =>
                  w[i].view < w[j].view
  <2> DEFINE w == sent[p]
  <2>1. first[p] \in Before /\ cursor[p] \in 0 .. view'
    BY <1>1
  <2>2. w = first[p] \o Views(p, reached, view', base', forced)
    OBVIOUS
  <2>3. w = Sent(p, first[p], to, forced)
    BY DEF Sent
  <2>5. p \in reached => p \in to
    OBVIOUS
  <2> HIDE DEF reached
  <2>6. /\ w \in Seq(Body)
        /\ \A i \in 1 .. Len(w) : w[i] = Approval => first[p] = <<Approval>>
        /\ \A i \in 1 .. Len(w) : IsView(w[i]) =>
             /\ p \in reached /\ w[i].view \in 1 .. view' /\ cursor[p] <= w[i].view
             /\ cursor[p] = 0 => w[i].view = view'
        /\ \A i, j \in 1 .. Len(w) : i < j /\ IsView(w[i]) /\ IsView(w[j]) =>
             w[i].view < w[j].view
    <3>1. Sends(p, first[p], reached, view', forced,
                first[p] \o Views(p, reached, view', base', forced))
      <4> HIDE DEF sent
      <4>1. view' \in 1 .. MaxView /\ base' \in 1 .. view' /\ forced \in BOOLEAN
        BY <1>1
      <4>2. QED
        BY <2>1, <4>1, SentIs
    <3>2. w = first[p] \o Views(p, reached, view', base', forced)
      OBVIOUS
    <3> HIDE DEF w
    <3>3. Sends(p, first[p], reached, view', forced, w)
      BY <3>1, <3>2
    <3>4. QED
      BY <3>3 DEF Sends
  <2> HIDE DEF w
  <2>4. QED
    BY <2>3, <2>5, <2>6 DEF w
<1>4. sent \in [Phone -> Seq(Body)]
  BY <1>3
<1> HIDE DEF sent, reached
<1>5. Numbers'
  BY <1>1, <1>2, <1>4, Posted
<1>6. ASSUME NEW p \in Phone PROVE Pushed(p, first[p], to, forced)
  <2> DEFINE c == connOf'[p]
             f == first[p]
             w == sent[p]
             l == Len(toPhone[p])
             n == nextSeq[p][c]
             t == targets[p][c]
             g == Taken(p, c, w)
  <2>1. /\ \A d \in Conn : d # c =>
             nextSeq'[p][d] = nextSeq[p][d] /\ targets'[p][d] = targets[p][d]
        /\ c # NoConn =>
             /\ nextSeq'[p][c] = n + Len(w)
             /\ targets'[p][c] = IF Goes(p, c, w) THEN n + Len(w) - 1 ELSE t
        /\ toPhone'[p] = IF c # NoConn /\ Reaches(p, c) THEN toPhone[p] \o g ELSE toPhone[p]
    BY <1>1, <1>2, <1>4, Posted
  <2>2. /\ toPhone[p] \in Seq(Frame) /\ l \in Nat /\ w \in Seq(Body) /\ Len(w) \in Nat
        /\ c \in Conn \cup {NoConn}
        /\ \A d \in Conn : nextSeq[p][d] \in Nat /\ targets[p][d] \in Nat \cup {-1}
    BY <1>1, <1>4, LenProperties DEF Numbers
  <2>3. cursor'[p] = IF p \in to /\ c # NoConn THEN view' ELSE cursor[p]
    BY <1>2 DEF reached
  <2>4. /\ w = Sent(p, f, to, forced)
        /\ \A i \in 1 .. Len(w) : w[i] = Approval => f = <<Approval>>
        /\ \A i \in 1 .. Len(w) : IsView(w[i]) =>
             /\ p \in to /\ w[i].view \in 1 .. view' /\ cursor[p] <= w[i].view
             /\ cursor[p] = 0 => w[i].view = view'
        /\ \A i, j \in 1 .. Len(w) : i < j /\ IsView(w[i]) /\ IsView(w[j]) =>
             w[i].view < w[j].view
    BY <1>3
  <2>5. /\ New(p) = l + 1 .. Len(toPhone'[p])
        /\ Goes(p, c, w) <=> hostLive /\ n <= t + 1 /\ t + 1 < n + Len(w)
    BY DEF New, Goes
  <2>6. c # NoConn =>
          /\ n \in Nat /\ t \in Nat \cup {-1} /\ c \in Conn
          /\ g \in Seq(Frame)
          /\ Goes(p, c, w) =>
               /\ Len(g) = n + Len(w) - (t + 1)
               /\ \A i \in 1 .. Len(g) : g[i] = [seq |-> t + i, body |-> w[t + 1 - n + i]]
          /\ ~Goes(p, c, w) => g = <<>>
    BY <2>2, TakenIs DEF Goes
  <2> HIDE DEF c, f, w, l, n, t, g
  <2>7. CASE ~(c # NoConn /\ Reaches(p, c) /\ Goes(p, c, w))
    <3>1. toPhone'[p] = toPhone[p]
      <4>1. c # NoConn /\ Reaches(p, c) => g = <<>>
        BY <2>6, <2>7
      <4>2. toPhone[p] \o <<>> = toPhone[p]
        BY <2>2, ConcatEmptySeq
      <4>3. QED
        BY <2>1, <4>1, <4>2
    <3>2. New(p) = {} /\ Extended(p)
      BY <2>2, <2>5, <3>1 DEF Extended, l
    <3>3. Carried(p, f, to)
      BY <3>2 DEF Carried
    <3>4. Counted(p)
      <4>1. c # NoConn =>
              /\ n <= nextSeq'[p][c] /\ t <= targets'[p][c]
              /\ t < n => targets'[p][c] < nextSeq'[p][c]
              /\ hostLive /\ t + 1 = n => targets'[p][c] + 1 = nextSeq'[p][c]
        <5>1. CASE Goes(p, c, w)
          <6>1. c # NoConn => targets'[p][c] = n + Len(w) - 1 /\ nextSeq'[p][c] = n + Len(w)
            BY <2>1, <5>1
          <6>2. hostLive /\ n <= t + 1 /\ t + 1 < n + Len(w)
            BY <2>5, <5>1
          <6>3. SUFFICES ASSUME c # NoConn
                         PROVE  /\ n <= nextSeq'[p][c] /\ t <= targets'[p][c]
                                /\ targets'[p][c] < nextSeq'[p][c]
                                /\ targets'[p][c] + 1 = nextSeq'[p][c]
            OBVIOUS
          <6>4. n \in Int /\ t \in Int /\ Len(w) \in Nat
            BY <2>2, <2>6, <6>3
          <6>5. QED
            BY <6>1, <6>2, <6>3, <6>4
        <5>2. CASE ~Goes(p, c, w)
          <6>1. c # NoConn => targets'[p][c] = t /\ nextSeq'[p][c] = n + Len(w)
            BY <2>1, <5>2
          <6>2. c # NoConn /\ hostLive /\ t + 1 = n => Len(w) = 0
            BY <2>2, <2>5, <2>6, <5>2
          <6>3. SUFFICES ASSUME c # NoConn
                         PROVE  /\ n <= nextSeq'[p][c] /\ t <= targets'[p][c]
                                /\ t < n => targets'[p][c] < nextSeq'[p][c]
                                /\ hostLive /\ t + 1 = n => targets'[p][c] + 1 = nextSeq'[p][c]
            OBVIOUS
          <6>4. n \in Int /\ t \in Int /\ Len(w) \in Nat
            BY <2>2, <2>6, <6>3
          <6>5. QED
            BY <6>1, <6>2, <6>3, <6>4
        <5>3. QED
          BY <5>1, <5>2
      <4>2. c # NoConn /\ Reaches(p, c) => targets'[p][c] = t
        BY <2>1, <2>7
      <4>3. QED
        BY <2>1, <3>2, <4>1, <4>2 DEF Counted, c, n, t
    <3>5. Complete(p, w)
      <4>1. ASSUME c # NoConn, Reaches(p, c), hostLive, t + 1 = n PROVE Len(w) = 0
        BY <2>2, <2>5, <2>6, <2>7, <4>1
      <4>2. QED
        BY <2>2, <3>1, <4>1 DEF Complete, c, n, t, l
    <3>6. QED
      BY <2>3, <2>4, <3>2, <3>3, <3>4, <3>5 DEF Pushed, c, f, w
  <2>8. CASE c # NoConn /\ Reaches(p, c) /\ Goes(p, c, w)
    <3> DEFINE k == t + 1 - n
               m == Len(g)
    <3>1. /\ n \in Nat /\ t \in Nat \cup {-1} /\ c \in Conn /\ g \in Seq(Frame)
          /\ m = Len(w) - k /\ k \in Nat /\ m \in Nat /\ m >= 1 /\ hostLive /\ t \in Int
          /\ \A i \in 1 .. m : g[i] = [seq |-> t + i, body |-> w[k + i]]
      BY <2>2, <2>5, <2>6, <2>8, SMTT(30)
    <3>2. /\ toPhone'[p] = toPhone[p] \o g
          /\ targets'[p][c] = n + Len(w) - 1 /\ nextSeq'[p][c] = n + Len(w)
      BY <2>1, <2>8
    <3>3. k = t + 1 - n
      OBVIOUS
    <3> HIDE DEF k, m
    <3>4. /\ Len(toPhone'[p]) = l + m
          /\ \A i \in 1 .. l : toPhone'[p][i] = toPhone[p][i]
          /\ \A i \in 1 .. l + m : toPhone'[p][i] = IF i <= l THEN toPhone[p][i] ELSE g[i - l]
      <4>1. l = Len(toPhone[p]) /\ m = Len(g)
        BY DEF l, m
      <4>2. /\ Len(toPhone'[p]) = l + m
            /\ \A i \in 1 .. l + m : toPhone'[p][i] = IF i <= l THEN toPhone[p][i] ELSE g[i - l]
        <5>1. /\ Len(toPhone'[p]) = Len(toPhone[p]) + Len(g)
              /\ \A i \in 1 .. Len(toPhone[p]) + Len(g) :
                   toPhone'[p][i] = IF i <= Len(toPhone[p]) THEN toPhone[p][i]
                                    ELSE g[i - Len(toPhone[p])]
          BY <2>2, <3>1, <3>2, ConcatProperties
        <5>2. QED
          BY <4>1, <5>1
      <4>3. \A i \in 1 .. l : i \in 1 .. l + m /\ i <= l
        BY <2>2, <3>1
      <4>4. QED
        BY <4>2, <4>3
    <3>5. New(p) = l + 1 .. l + m
      BY <2>5, <3>4
    <3>6. ASSUME NEW i \in New(p)
          PROVE  /\ i - l \in 1 .. m /\ k + (i - l) \in 1 .. Len(w) /\ i \in Int
                 /\ toPhone'[p][i].seq = t + (i - l)
                 /\ toPhone'[p][i].body = w[k + (i - l)]
      <4>1. i - l \in 1 .. m /\ i \in 1 .. l + m /\ ~(i <= l) /\ i \in Int
        BY <2>2, <3>1, <3>5
      <4>2. toPhone'[p][i] = g[i - l]
        BY <3>4, <4>1
      <4>3. k + (i - l) \in 1 .. Len(w)
        BY <2>2, <3>1, <4>1
      <4>4. g[i - l] = [seq |-> t + (i - l), body |-> w[k + (i - l)]]
        BY <3>1, <4>1
      <4>5. QED
        BY <4>1, <4>2, <4>3, <4>4
    <3>7. Extended(p)
      BY <2>2, <2>8, <3>1, <3>4 DEF Extended, l, c
    <3>8. Carried(p, f, to)
      <4>1. ASSUME NEW i \in New(p) PROVE toPhone'[p][i].body = w[k + (i - l)]
        BY <3>6
      <4>2. ASSUME NEW i \in New(p), NEW j \in New(p), i < j PROVE k + (i - l) < k + (j - l)
        <5>1. i \in Int /\ j \in Int
          BY <3>6
        <5>2. QED
          BY <2>2, <3>1, <4>2, <5>1
      <4>3. /\ \A i \in New(p) : toPhone'[p][i].body = Approval => f = <<Approval>>
            /\ \A i \in New(p) : IsView(toPhone'[p][i].body) =>
                 /\ p \in to
                 /\ toPhone'[p][i].body.view \in 1 .. view' /\ cursor[p] <= toPhone'[p][i].body.view
                 /\ cursor[p] = 0 => toPhone'[p][i].body.view = view'
        BY <2>4, <3>6, <4>1
      <4>4. ASSUME NEW i \in New(p), NEW j \in New(p), i < j,
                   IsView(toPhone'[p][i].body), IsView(toPhone'[p][j].body)
            PROVE  toPhone'[p][i].body.view < toPhone'[p][j].body.view
        BY <2>4, <3>6, <4>1, <4>2, <4>4
      <4>5. QED
        BY <4>3, <4>4 DEF Carried
    <3>9. Counted(p)
      <4>1. /\ n <= nextSeq'[p][c] /\ t <= targets'[p][c]
            /\ t < n => targets'[p][c] < nextSeq'[p][c]
            /\ hostLive /\ t + 1 = n => targets'[p][c] + 1 = nextSeq'[p][c]
        BY <2>2, <2>5, <2>8, <3>1, <3>2
      <4>2. ASSUME NEW i \in New(p)
            PROVE  toPhone'[p][i].seq = (IF i = l + 1 THEN t ELSE toPhone'[p][i - 1].seq) + 1
        <5>1. toPhone'[p][i].seq = t + (i - l) /\ i \in Int /\ i - l \in 1 .. m
          BY <3>6
        <5>2. CASE i = l + 1
          BY <2>2, <3>1, <5>1, <5>2
        <5>3. CASE i # l + 1
          <6>1. i - 1 \in New(p)
            <7>1. l \in Nat /\ m \in Nat /\ i \in l + 1 .. l + m
              BY <2>2, <3>1, <3>5
            <7>2. i - 1 \in l + 1 .. l + m
              BY <5>3, <7>1
            <7>3. QED
              BY <3>5, <7>2
          <6>2. toPhone'[p][i - 1].seq = t + ((i - 1) - l)
            BY <3>6, <6>1
          <6>3. QED
            BY <2>2, <3>1, <5>1, <5>3, <6>2
        <5>4. QED
          BY <5>2, <5>3
      <4>3. /\ targets'[p][c] = toPhone'[p][Len(toPhone'[p])].seq
            /\ t < n => t + 1 = n
        <5>1. l + m \in New(p)
          BY <2>2, <3>1, <3>5
        <5>2. toPhone'[p][l + m].seq = t + m
          <6> DEFINE j == l + m
          <6>1. \A i \in New(p) : toPhone'[p][i].seq = t + (i - l)
            BY <3>6
          <6>2. j - l = m /\ j \in New(p)
            BY <2>2, <3>1, <5>1
          <6> HIDE DEF j
          <6>3. toPhone'[p][j].seq = t + m
            BY <6>1, <6>2
          <6>4. QED
            BY <6>3 DEF j
        <5>3. t + m = n + Len(w) - 1
          BY <2>2, <3>1, <3>3
        <5>4. t < n => t + 1 = n
          BY <3>1, <3>3
        <5>5. QED
          BY <3>2, <3>4, <5>2, <5>3, <5>4
      <4>4. New(p) # {}
        <5>1. l + 1 \in l + 1 .. l + m
          BY <2>2, <3>1
        <5>2. QED
          BY <3>5, <5>1
      <4>5. QED
        BY <2>1, <2>8, <4>1, <4>2, <4>3, <4>4 DEF Counted, c, n, t, l
    <3>10. Complete(p, w)
      <4>1. ASSUME t + 1 = n
            PROVE  /\ Len(toPhone'[p]) = l + Len(w)
                   /\ \A i \in 1 .. Len(w) : toPhone'[p][l + i].body = w[i]
        <5>a. k = 0
          BY <3>1, <3>3, <4>1
        <5>1. k = 0 /\ m = Len(w)
          BY <2>2, <3>1, <5>a
        <5>2. ASSUME NEW i \in 1 .. Len(w) PROVE toPhone'[p][l + i].body = w[i]
          <6>1. l + i \in New(p) /\ k + ((l + i) - l) = i
            BY <2>2, <3>1, <3>5, <5>1
          <6>2. QED
            BY <3>6, <6>1
        <5>3. QED
          BY <3>4, <5>1, <5>2
      <4>2. QED
        BY <4>1 DEF Complete, c, n, t, l
    <3>11. QED
      BY <2>3, <2>4, <3>7, <3>8, <3>9, <3>10 DEF Pushed, c, f, w
  <2>9. QED
    BY <2>7, <2>8 DEF f
<1>7. cursor' \in [Phone -> 0 .. view']
  BY <1>1, <1>2
<1>8. QED
  BY <1>5, <1>6, <1>7

-----------------------------------------------------------------------------
(* Types *)

\* The parts of TypeOK that a step changes together.
RoomTypes ==
  /\ asked \subseteq Phone /\ approved \subseteq asked
  /\ view \in 1 .. MaxView /\ base \in 1 .. view /\ pushed \in 0 .. view
  /\ cursor \in [Phone -> 0 .. view]
  /\ held \in [Phone -> 0 .. view] /\ screen \in [Phone -> 0 .. view]

LinkTypes ==
  /\ hostEnd \in BOOLEAN /\ relayEnd \in BOOLEAN /\ hostLive \in BOOLEAN
  /\ hostLive => hostEnd /\ relayEnd

KnownTypes ==
  /\ connOf \in [Phone -> Conn \cup {NoConn}] /\ awaited \in [Phone -> Conn \cup {NoConn}]

PhoneTypes ==
  /\ grant \in [Phone -> Token] /\ socket \in [Phone -> Token]
  /\ creds \in [Phone -> Token]
  /\ live \in [Phone -> BOOLEAN]
  /\ phase \in [Phone -> {"out", "joining", "rotating", "dropped", "refreshed",
                          "open", "off"}]
  /\ inSeq \in [Phone -> Nat \cup {-1}]

CountTypes ==
  /\ faults \in 0 .. MaxFaults /\ hostFaults \in 0 .. MaxFaults /\ restarts \in 0 .. MaxFaults
  /\ idle \in 0 .. MaxIdle

ToHostType == toHost \in [Phone -> Seq(Message)]

LEMMA TypeParts ==
  TypeOK <=> /\ RoomTypes /\ Numbers /\ LinkTypes /\ KnownTypes /\ PhoneTypes /\ CountTypes
             /\ ToHostType
BY DEF TypeOK, RoomTypes, Numbers, LinkTypes, KnownTypes, PhoneTypes, CountTypes, ToHostType

LEMMA TypePartsPrime ==
  TypeOK' <=> /\ RoomTypes' /\ Numbers' /\ LinkTypes' /\ KnownTypes' /\ PhoneTypes'
              /\ CountTypes' /\ ToHostType'
BY DEF TypeOK, RoomTypes, Numbers, LinkTypes, KnownTypes, PhoneTypes, CountTypes, ToHostType

\* The constants of connections and tokens.
LEMMA ConnFacts ==
  /\ MaxFaults \in Nat /\ MaxIdle \in Nat /\ MaxView \in Nat /\ MaxView >= 1
  /\ Conn = 1 .. MaxFaults + 1 /\ 1 \in Conn /\ NoConn \notin Conn /\ Conn \subseteq Nat
  /\ Nothing \in Token /\ Nothing.role = "none" /\ Nothing.conn = NoConn
  /\ \A c \in Conn :
       /\ Pending(c) \in Token /\ Pending(c).role = "pending" /\ Pending(c).conn = c
       /\ Approved(c) \in Token /\ Approved(c).role = "approved" /\ Approved(c).conn = c
  /\ \A t \in Token :
       \/ t = Nothing
       \/ t.conn \in Conn /\ t = Pending(t.conn)
       \/ t.conn \in Conn /\ t = Approved(t.conn)
BY DeliveryAssumption DEF Conn, NoConn, Nothing, Token, Pending, Approved

LEMMA TokenConns ==
  \A t \in Token : t.conn \in Nat /\ (t # Nothing => t.conn \in Conn)
<1>1. ASSUME NEW t \in Token PROVE t.conn \in Nat /\ (t # Nothing => t.conn \in Conn)
  <2>1. CASE t = Nothing
    BY <2>1 DEF Nothing, NoConn
  <2>2. CASE t # Nothing
    BY <2>2, ConnFacts
  <2>3. QED
    BY <2>1, <2>2
<1>2. QED
  BY <1>1

LEMMA MessageConns ==
  /\ \A t \in Seq(Message) : \A i \in 1 .. Len(t) : t[i] \in Message /\ t[i].conn \in Conn
  /\ <<>> \in Seq(Message) /\ Len(<<>>) = 0
<1>1. ASSUME NEW t \in Seq(Message), NEW i \in 1 .. Len(t)
      PROVE  t[i] \in Message /\ t[i].conn \in Conn
  <2>1. t[i] \in Message
    BY ElementOfSeq
  <2>2. QED
    BY <2>1 DEF Message
<1>2. <<>> \in Seq(Message) /\ Len(<<>>) = 0
  OBVIOUS
<1>3. QED
  BY <1>1, <1>2

\* A phone's frames are of its connection, and reach the appliance's queue.
LEMMA SayIs ==
  ASSUME ToHostType, NEW p \in Phone, NEW s \in Seq(Message), Say(p, s)
  PROVE  /\ ToHostType'
         /\ \A q \in Phone : q # p => toHost'[q] = toHost[q]
         /\ toHost'[p] = IF hostLive THEN toHost[p] \o s ELSE toHost[p]
<1>1. toHost[p] \o s \in Seq(Message)
  BY ConcatProperties DEF ToHostType
<1>2. QED
  BY <1>1 DEF Say, ToHostType

LEMMA SayNothing ==
  ASSUME ToHostType, NEW p \in Phone, Say(p, <<>>)
  PROVE  toHost' = toHost
<1>1. toHost[p] \o <<>> = toHost[p] /\ toHost \in [Phone -> Seq(Message)]
  BY ConcatEmptySeq DEF ToHostType
<1>2. toHost' = IF hostLive THEN [toHost EXCEPT ![p] = toHost[p]] ELSE toHost
  BY <1>1 DEF Say
<1>3. [toHost EXCEPT ![p] = toHost[p]] = toHost
  BY <1>1
<1>4. QED
  BY <1>2, <1>3

LEMMA SaidIs ==
  ASSUME NEW c \in Conn
  PROVE  \A k \in {"join", "hello", "resync_request", "connection_status", "client_command"} :
           /\ Said(k, c) \in Message /\ <<Said(k, c)>> \in Seq(Message)
           /\ Said(k, c).kind = k /\ Said(k, c).conn = c
BY DEF Said, Message

\* What a phone says on connecting ends with requests on its own connection.
LEMMA GreetingIs ==
  ASSUME NEW p \in Phone, creds[p].conn \in Conn
  PROVE  /\ Greeting(p) \in Seq(Message)
         /\ Len(Greeting(p)) >= 1
         /\ \A i \in 1 .. Len(Greeting(p)) : Greeting(p)[i].conn = creds[p].conn
         /\ creds[p].role = "approved" => Greeting(p)[1].kind = "hello"
<1> DEFINE c == creds[p].conn
           P == {m \in Message : m.conn = c}
           h == IF creds[p].role = "approved" THEN <<Said("hello", c)>> ELSE <<>>
           r == <<Said("resync_request", c)>>
           j == IF phase[p] = "joining" THEN <<Said("join", c)>> ELSE <<>>
<1>1. Greeting(p) = (h \o r) \o j
  BY DEF Greeting
<1>2. /\ Said("hello", c) \in P /\ Said("hello", c).kind = "hello"
      /\ Said("resync_request", c) \in P /\ Said("join", c) \in P
  BY SaidIs
<1> HIDE DEF P
<1>3. /\ h \in Seq(P) /\ r \in Seq(P) /\ j \in Seq(P) /\ Len(r) = 1
      /\ creds[p].role = "approved" => Len(h) = 1 /\ h[1].kind = "hello"
  <2>1. CASE creds[p].role = "approved" /\ phase[p] = "joining"
    BY <1>2, <2>1
  <2>2. CASE creds[p].role = "approved" /\ phase[p] # "joining"
    BY <1>2, <2>2
  <2>3. CASE creds[p].role # "approved" /\ phase[p] = "joining"
    BY <1>2, <2>3
  <2>4. CASE creds[p].role # "approved" /\ phase[p] # "joining"
    BY <1>2, <2>4
  <2>5. QED
    BY <2>1, <2>2, <2>3, <2>4
<1>4. \A s \in Seq(P) : \A i \in 1 .. Len(s) : s[i] \in P
  BY ElementOfSeq
<1> DEFINE x == h \o r
           w == x \o j
<1> HIDE DEF h, r, j
<1>5. /\ x \in Seq(P) /\ Len(x) = Len(h) + 1 /\ Len(h) \in Nat
      /\ \A i \in 1 .. Len(h) : x[i] = h[i]
  <2>1. /\ x \in Seq(P) /\ Len(x) = Len(h) + Len(r) /\ Len(h) \in Nat
        /\ \A i \in 1 .. Len(h) + Len(r) : x[i] = IF i <= Len(h) THEN h[i] ELSE r[i - Len(h)]
    BY <1>3, ConcatProperties, LenProperties
  <2> HIDE DEF x
  <2>2. QED
    BY <1>3, <2>1
<1> HIDE DEF x
<1>6. /\ w \in Seq(P) /\ Len(w) = Len(x) + Len(j) /\ Len(j) \in Nat
      /\ \A i \in 1 .. Len(x) : w[i] = x[i]
  <2>1. /\ w \in Seq(P) /\ Len(w) = Len(x) + Len(j) /\ Len(x) \in Nat /\ Len(j) \in Nat
        /\ \A i \in 1 .. Len(x) + Len(j) : w[i] = IF i <= Len(x) THEN x[i] ELSE j[i - Len(x)]
    BY <1>3, <1>5, ConcatProperties, LenProperties
  <2> HIDE DEF w
  <2>2. QED
    BY <2>1
<1> HIDE DEF w
<1>7. /\ Len(w) >= 1
      /\ creds[p].role = "approved" => w[1].kind = "hello"
  <2>1. Len(w) = Len(h) + 1 + Len(j)
    BY <1>5, <1>6
  <2>2. creds[p].role = "approved" => 1 \in 1 .. Len(h) /\ 1 \in 1 .. Len(x)
    BY <1>3, <1>5
  <2>3. QED
    BY <1>3, <1>5, <1>6, <2>1, <2>2
<1>8. w \in Seq(Message) /\ \A i \in 1 .. Len(w) : w[i].conn = c
  <2>1. \A i \in 1 .. Len(w) : w[i] \in P
    BY <1>4, <1>6
  <2>2. \A m \in P : m \in Message /\ m.conn = c
    BY DEF P
  <2>3. w \in Seq(Message)
    BY <1>6, <2>2, SeqMonotonic
  <2>4. QED
    BY <2>1, <2>2, <2>3
<1>9. QED
  BY <1>1, <1>7, <1>8 DEF w, x

\* What a handler takes off the queue.
LEMMA HeardIs ==
  ASSUME ToHostType, KnownTypes, NEW p \in Phone, NEW k, Heard(p, k)
  PROVE  /\ ToHostType' /\ connOf' \in [Phone -> Conn \cup {NoConn}]
         /\ toHost[p] # <<>> /\ Len(toHost[p]) \in Nat /\ Len(toHost[p]) >= 1
         /\ toHost[p][1].kind = k /\ toHost[p][1].conn \in Conn
         /\ connOf'[p] = toHost[p][1].conn
         /\ \A q \in Phone : q # p => connOf'[q] = connOf[q] /\ toHost'[q] = toHost[q]
         /\ Len(toHost'[p]) = Len(toHost[p]) - 1
         /\ \A i \in 1 .. Len(toHost'[p]) : toHost'[p][i] = toHost[p][i + 1]
<1> DEFINE s == toHost[p]
<1>1. s \in Seq(Message) /\ s # <<>> /\ Head(s).kind = k
  BY DEF ToHostType, Heard
<1>2. /\ toHost' = [toHost EXCEPT ![p] = Tail(s)]
      /\ connOf' = [connOf EXCEPT ![p] = Head(s).conn]
  BY DEF Heard
<1>3. /\ Len(s) \in Nat /\ Len(s) >= 1 /\ Head(s) \in Message /\ Head(s) = s[1]
      /\ Tail(s) \in Seq(Message) /\ Len(Tail(s)) = Len(s) - 1
      /\ \A i \in 1 .. Len(Tail(s)) : Tail(s)[i] = s[i + 1]
  <2>1. /\ Head(s) \in Message /\ Tail(s) \in Seq(Message)
    BY <1>1, HeadTailProperties
  <2>2. Len(s) \in Nat /\ Len(s) >= 1
    BY <1>1, EmptySeq
  <2>3. QED
    BY <1>1, <2>1, <2>2
<1>4. Head(s).conn \in Conn
  BY <1>3 DEF Message
<1> HIDE DEF s
<1>5. /\ toHost' \in [Phone -> Seq(Message)] /\ toHost'[p] = Tail(s)
      /\ \A q \in Phone : q # p => toHost'[q] = toHost[q]
  BY <1>2, <1>3 DEF ToHostType
<1>6. /\ connOf' \in [Phone -> Conn \cup {NoConn}] /\ connOf'[p] = Head(s).conn
      /\ \A q \in Phone : q # p => connOf'[q] = connOf[q]
  BY <1>2, <1>4 DEF KnownTypes
<1>7. QED
  BY <1>1, <1>3, <1>4, <1>5, <1>6 DEF s, ToHostType

\* What each step that pushes sends first, and to whom it sends views.
Undisturbed == UNCHANGED <<link, socket, live, phone, faults, hostFaults, restarts>>

LEMMA GrowIs ==
  ASSUME view \in 1 .. MaxView, base \in 1 .. view, Grow
  PROVE  view' \in view .. MaxView /\ view' \in 1 .. MaxView /\ base' \in 1 .. view'
BY DeliveryAssumption DEF Grow

LEMMA FirstIs ==
  /\ Silence \in [Phone -> Before] /\ \A q \in Phone : Silence[q] = <<>>
  /\ \A p \in Phone : \A b \in {Result, Approval} :
       /\ Only(p, b) \in [Phone -> Before]
       /\ \A q \in Phone : Only(p, b)[q] = IF q = p THEN <<b>> ELSE <<>>
BY DEF Silence, Only, Before

LEMMA JoinPushes ==
  ASSUME TypeOK, NEW p \in Phone, HandleJoin(p)
  PROVE  /\ Pushing(Only(p, Result), approved, FALSE) /\ Undisturbed
         /\ Heard(p, "join") /\ asked' = asked \cup {p}
         /\ UNCHANGED <<approved, awaited, grant, idle>> /\ pushed' = view'
<1>1. view' \in view .. MaxView /\ base' \in 1 .. view'
  BY GrowIs DEF TypeOK, HandleJoin
<1>2. connOf' \in [Phone -> Conn \cup {NoConn}]
  BY HeardIs, TypeParts DEF HandleJoin
<1>3. Only(p, Result) \in [Phone -> Before] /\ approved \subseteq Phone
  BY FirstIs DEF TypeOK
<1>4. QED
  BY <1>1, <1>2, <1>3 DEF HandleJoin, Pushing, Undisturbed, counts

LEMMA PresencePushes ==
  ASSUME TypeOK, NEW p \in Phone, HandlePresence(p)
  PROVE  /\ Pushing(Silence, approved, TRUE) /\ Undisturbed
         /\ Heard(p, "hello") \/ Heard(p, "connection_status")
         /\ UNCHANGED <<asked, approved, awaited, grant, idle>> /\ pushed' = view'
<1>1. view' \in view .. MaxView /\ base' \in 1 .. view'
  <2>1. view \in 1 .. MaxView /\ base \in 1 .. view /\ MaxView \in Nat
    BY ConnFacts DEF TypeOK
  <2>2. Grow \/ (view' = view /\ base' = base)
    BY DEF HandlePresence
  <2>3. view \in view .. MaxView
    BY <2>1
  <2>4. QED
    BY <2>1, <2>2, <2>3, GrowIs
<1>2. connOf' \in [Phone -> Conn \cup {NoConn}]
  BY HeardIs, TypeParts DEF HandlePresence
<1>3. Silence \in [Phone -> Before] /\ approved \subseteq Phone
  BY FirstIs DEF TypeOK
<1>4. QED
  BY <1>1, <1>2, <1>3 DEF HandlePresence, Pushing, Undisturbed, counts

LEMMA ResyncPushes ==
  ASSUME TypeOK, NEW p \in Phone, HandleResync(p)
  PROVE  /\ Pushing(Silence, approved \cap {p}, TRUE) /\ Undisturbed
         /\ Heard(p, "resync_request")
         /\ UNCHANGED <<room, awaited, grant, idle, pushed>>
<1>1. view' \in view .. MaxView /\ base' \in 1 .. view' /\ view' = view /\ base' = base
  BY DeliveryAssumption DEF TypeOK, HandleResync, room
<1>2. connOf' \in [Phone -> Conn \cup {NoConn}]
  BY HeardIs, TypeParts DEF HandleResync
<1>3. Silence \in [Phone -> Before] /\ approved \cap {p} \subseteq Phone
  BY FirstIs DEF TypeOK
<1>4. QED
  BY <1>1, <1>2, <1>3 DEF HandleResync, Pushing, Undisturbed, counts

LEMMA CommandPushes ==
  ASSUME TypeOK, NEW p \in Phone, HandleCommand(p)
  PROVE  /\ \E to \in {approved, {}} : Pushing(Only(p, Result), to, FALSE)
         /\ Undisturbed /\ Heard(p, "client_command")
         /\ UNCHANGED <<asked, approved, awaited, grant>>
         /\ pushed' \in {view', pushed} /\ idle' \in {idle, idle + 1} /\ idle' <= MaxIdle
<1>0. /\ Grow \/ (view' = view /\ base' = base)
      /\ idle' = idle \/ (idle < MaxIdle /\ idle' = idle + 1)
  BY DEF HandleCommand
<1>1. view' \in view .. MaxView /\ base' \in 1 .. view'
  BY <1>0, GrowIs, DeliveryAssumption DEF TypeOK
<1>2. connOf' \in [Phone -> Conn \cup {NoConn}]
  BY HeardIs, TypeParts DEF HandleCommand
<1>3. Only(p, Result) \in [Phone -> Before] /\ approved \subseteq Phone /\ {} \subseteq Phone
  BY FirstIs DEF TypeOK
<1>4. \E to \in {approved, {}} : Pushing(Only(p, Result), to, FALSE)
  BY <1>1, <1>2, <1>3 DEF HandleCommand, Pushing
<1>5. idle' \in {idle, idle + 1} /\ idle' <= MaxIdle
  BY <1>0, DeliveryAssumption DEF TypeOK
<1>6. QED
  BY <1>4, <1>5 DEF HandleCommand, Undisturbed

\* Approve and Timer push, or leave the way to the phones alone.
Silent == UNCHANGED <<nextSeq, targets, toPhone, cursor, pushed>>

LEMMA ApprovePushes ==
  ASSUME TypeOK, NEW p \in Phone, Approve(p)
  PROVE  /\ \/ connOf[p] = NoConn /\ Pushing(Silence, approved', FALSE) /\ pushed' = view'
            \/ connOf[p] # NoConn /\ Silent
         /\ Undisturbed /\ UNCHANGED <<asked, connOf, grant, toHost, idle>>
         /\ hostLive /\ p \in asked \ approved /\ approved' = approved \cup {p}
         /\ awaited' = [awaited EXCEPT ![p] = connOf[p]]
         /\ view' \in view .. MaxView /\ base' \in 1 .. view'
<1>1. view' \in view .. MaxView /\ base' \in 1 .. view'
  BY GrowIs DEF TypeOK, Approve
<1>2. connOf' \in [Phone -> Conn \cup {NoConn}] /\ connOf' = connOf
  BY DEF Approve, TypeOK
<1>3. Silence \in [Phone -> Before] /\ approved' \subseteq Phone
  BY FirstIs DEF TypeOK, Approve
<1>4. QED
  BY <1>1, <1>2, <1>3 DEF Approve, Pushing, Undisturbed, counts, Silent

LEMMA GrantPushes ==
  ASSUME TypeOK, NEW p \in Phone, Grant(p)
  PROVE  /\ Pushing(Only(p, Approval), approved, FALSE) /\ Undisturbed
         /\ UNCHANGED <<room, connOf, toHost, idle>> /\ pushed' = view'
         /\ awaited[p] # NoConn /\ grant[p] = Pending(awaited[p])
         /\ grant' = [grant EXCEPT ![p] = Approved(awaited[p])]
         /\ awaited' = [awaited EXCEPT ![p] = NoConn]
<1>1. view' \in view .. MaxView /\ base' \in 1 .. view' /\ view' = view /\ base' = base
  BY DeliveryAssumption DEF TypeOK, Grant, room
<1>2. connOf' \in [Phone -> Conn \cup {NoConn}] /\ connOf' = connOf
  BY DEF TypeOK, Grant
<1>3. Only(p, Approval) \in [Phone -> Before] /\ approved \subseteq Phone
  BY FirstIs DEF TypeOK
<1>4. QED
  BY <1>1, <1>2, <1>3 DEF Grant, Pushing, Undisturbed, counts

LEMMA TimerPushes ==
  ASSUME TypeOK, Timer
  PROVE  /\ (Pushing(Silence, approved, FALSE) /\ pushed' = view') \/ Silent
         /\ Undisturbed
         /\ UNCHANGED <<asked, approved, connOf, awaited, grant, toHost, idle>>
         /\ approved # {} /\ view' \in view .. MaxView /\ base' \in 1 .. view'
<1>1. view' \in view .. MaxView /\ base' \in 1 .. view'
  BY GrowIs DEF TypeOK, Timer
<1>2. connOf' \in [Phone -> Conn \cup {NoConn}] /\ connOf' = connOf
  BY DEF TypeOK, Timer
<1>3. Silence \in [Phone -> Before] /\ approved \subseteq Phone
  BY FirstIs DEF TypeOK
<1>4. QED
  BY <1>1, <1>2, <1>3 DEF Timer, Pushing, Undisturbed, counts, Silent

\* A step that pushes keeps the types.
LEMMA PushTypes ==
  ASSUME TypeOK, NEW first, NEW to, NEW forced, Pushing(first, to, forced), Undisturbed,
         asked' \subseteq Phone, approved' \subseteq asked',
         grant' \in [Phone -> Token], ToHostType',
         awaited' \in [Phone -> Conn \cup {NoConn}],
         idle' \in 0 .. MaxIdle, pushed' \in {view', pushed}
  PROVE  TypeOK'
<1>1. /\ Numbers' /\ cursor' \in [Phone -> 0 .. view']
  BY PushIs
<1>2. /\ view \in 1 .. MaxView /\ view' \in view .. MaxView /\ base' \in 1 .. view'
      /\ connOf' \in [Phone -> Conn \cup {NoConn}]
  BY DEF TypeOK, Pushing
<1>3. RoomTypes'
  <2>1. /\ view' \in 1 .. MaxView /\ pushed' \in 0 .. view' /\ 0 .. view \subseteq 0 .. view'
    BY <1>2, DeliveryAssumption DEF TypeOK
  <2>2. held' = held /\ screen' = screen
    BY DEF Undisturbed, phone
  <2>3. held' \in [Phone -> 0 .. view'] /\ screen' \in [Phone -> 0 .. view']
    BY <2>1, <2>2 DEF TypeOK
  <2>4. QED
    BY <1>1, <1>2, <2>1, <2>3 DEF RoomTypes
<1>4. LinkTypes' /\ PhoneTypes' /\ CountTypes' /\ KnownTypes'
  BY <1>2 DEF TypeOK, Undisturbed, link, phone, LinkTypes, PhoneTypes, CountTypes, KnownTypes
<1>5. QED
  BY <1>1, <1>3, <1>4, TypePartsPrime

LEMMA SilentTypes ==
  ASSUME TypeOK, Silent, Undisturbed, view' \in view .. MaxView, base' \in 1 .. view',
         asked' = asked, approved' \subseteq asked, connOf' = connOf,
         grant' = grant, toHost' = toHost,
         awaited' \in [Phone -> Conn \cup {NoConn}], idle' = idle
  PROVE  TypeOK'
<1>1. view' \in 1 .. MaxView /\ 0 .. view \subseteq 0 .. view'
  BY DEF TypeOK
<1>2. RoomTypes'
  <2>1. /\ pushed' \in 0 .. view' /\ cursor' \in [Phone -> 0 .. view']
        /\ held' \in [Phone -> 0 .. view'] /\ screen' \in [Phone -> 0 .. view']
    BY <1>1 DEF TypeOK, Undisturbed, Silent, phone
  <2>2. QED
    BY <1>1, <2>1 DEF RoomTypes, TypeOK
<1>3. Numbers' /\ LinkTypes' /\ PhoneTypes' /\ CountTypes' /\ KnownTypes' /\ ToHostType'
  BY DEF TypeOK, Undisturbed, Silent, link, phone, LinkTypes, PhoneTypes, CountTypes, KnownTypes,
         Numbers, ToHostType
<1>4. QED
  BY <1>2, <1>3, TypePartsPrime

LEMMA HandleTypes ==
  ASSUME TypeOK, NEW p \in Phone, Handle(p)
  PROVE  TypeOK'
<1>1. /\ asked \cup {p} \subseteq Phone /\ approved \subseteq asked \cup {p}
      /\ grant \in [Phone -> Token] /\ awaited \in [Phone -> Conn \cup {NoConn}]
      /\ idle \in 0 .. MaxIdle /\ idle \in Nat /\ asked \subseteq Phone /\ approved \subseteq asked
      /\ ToHostType /\ KnownTypes
  <2>1. ToHostType /\ KnownTypes /\ PhoneTypes /\ CountTypes /\ RoomTypes
    BY TypeParts
  <2>2. QED
    BY <2>1, ConnFacts DEF KnownTypes, PhoneTypes, CountTypes, RoomTypes
<1>2. CASE HandleJoin(p)
  <2>1. /\ Pushing(Only(p, Result), approved, FALSE) /\ Undisturbed
        /\ Heard(p, "join") /\ asked' = asked \cup {p}
        /\ UNCHANGED <<approved, awaited, grant, idle>> /\ pushed' = view'
    BY <1>2, JoinPushes
  <2>2. ToHostType'
    BY <1>1, <2>1, HeardIs
  <2>3. QED
    BY <1>1, <2>1, <2>2, PushTypes
<1>3. CASE HandlePresence(p)
  <2>1. /\ Pushing(Silence, approved, TRUE) /\ Undisturbed
        /\ Heard(p, "hello") \/ Heard(p, "connection_status")
        /\ UNCHANGED <<asked, approved, awaited, grant, idle>> /\ pushed' = view'
    BY <1>3, PresencePushes
  <2>2. ToHostType'
    BY <1>1, <2>1, HeardIs
  <2>3. QED
    BY <1>1, <2>1, <2>2, PushTypes
<1>4. CASE HandleResync(p)
  <2>1. /\ Pushing(Silence, approved \cap {p}, TRUE) /\ Undisturbed
        /\ Heard(p, "resync_request")
        /\ UNCHANGED <<asked, approved, awaited, grant, idle, pushed>>
    BY <1>4, ResyncPushes DEF room
  <2>2. ToHostType'
    BY <1>1, <2>1, HeardIs
  <2>3. QED
    BY <1>1, <2>1, <2>2, PushTypes
<1>5. CASE HandleCommand(p)
  <2>1. /\ \E to \in {approved, {}} : Pushing(Only(p, Result), to, FALSE)
        /\ Undisturbed /\ Heard(p, "client_command")
        /\ UNCHANGED <<asked, approved, awaited, grant>>
        /\ pushed' \in {view', pushed} /\ idle' \in {idle, idle + 1} /\ idle' <= MaxIdle
    BY <1>5, CommandPushes
  <2>2. ToHostType'
    BY <1>1, <2>1, HeardIs
  <2>3. idle' \in 0 .. MaxIdle
    BY <1>1, <2>1, ConnFacts
  <2>4. QED
    BY <1>1, <2>1, <2>2, <2>3, PushTypes
<1>6. QED
  BY <1>2, <1>3, <1>4, <1>5 DEF Handle

LEMMA HostTypes ==
  ASSUME TypeOK, \/ \E p \in Phone : Approve(p) \/ Grant(p)
                 \/ Timer
  PROVE  TypeOK'
<1>1. /\ asked \subseteq Phone /\ approved \subseteq asked
      /\ grant \in [Phone -> Token] /\ awaited \in [Phone -> Conn \cup {NoConn}]
      /\ connOf \in [Phone -> Conn \cup {NoConn}] /\ idle \in 0 .. MaxIdle /\ ToHostType
  BY TypeParts DEF TypeOK
<1>2. ASSUME NEW p \in Phone, Approve(p) PROVE TypeOK'
  <2>1. /\ \/ connOf[p] = NoConn /\ Pushing(Silence, approved', FALSE) /\ pushed' = view'
           \/ connOf[p] # NoConn /\ Silent
        /\ Undisturbed /\ UNCHANGED <<asked, connOf, grant, toHost, idle>>
        /\ p \in asked \ approved /\ approved' = approved \cup {p}
        /\ awaited' = [awaited EXCEPT ![p] = connOf[p]]
        /\ view' \in view .. MaxView /\ base' \in 1 .. view'
    BY <1>2, ApprovePushes
  <2>2. /\ awaited' \in [Phone -> Conn \cup {NoConn}] /\ approved' \subseteq asked
        /\ ToHostType'
    BY <1>1, <2>1 DEF ToHostType
  <2>3. CASE Silent
    BY <2>1, <2>2, <2>3, SilentTypes
  <2>4. CASE Pushing(Silence, approved', FALSE) /\ pushed' = view'
    BY <1>1, <2>1, <2>2, <2>4, PushTypes
  <2>5. QED
    BY <2>1, <2>3, <2>4
<1>3. ASSUME NEW p \in Phone, Grant(p) PROVE TypeOK'
  <2>1. /\ Pushing(Only(p, Approval), approved, FALSE) /\ Undisturbed
        /\ UNCHANGED <<asked, approved, connOf, toHost, idle>> /\ pushed' = view'
        /\ awaited[p] # NoConn /\ grant[p] = Pending(awaited[p])
        /\ grant' = [grant EXCEPT ![p] = Approved(awaited[p])]
        /\ awaited' = [awaited EXCEPT ![p] = NoConn]
    BY <1>3, GrantPushes DEF room
  <2>2. Approved(awaited[p]) \in Token
    BY <1>1, <2>1, ConnFacts
  <2>3. /\ awaited' \in [Phone -> Conn \cup {NoConn}] /\ grant' \in [Phone -> Token]
        /\ ToHostType'
    BY <1>1, <2>1, <2>2 DEF ToHostType
  <2>4. QED
    BY <1>1, <2>1, <2>3, PushTypes
<1>4. ASSUME Timer PROVE TypeOK'
  <2>1. /\ (Pushing(Silence, approved, FALSE) /\ pushed' = view') \/ Silent
        /\ Undisturbed
        /\ UNCHANGED <<asked, approved, connOf, awaited, grant, toHost, idle>>
        /\ view' \in view .. MaxView /\ base' \in 1 .. view'
    BY <1>4, TimerPushes
  <2>2. ToHostType'
    BY <1>1, <2>1 DEF ToHostType
  <2>3. CASE Silent
    BY <1>1, <2>1, <2>2, <2>3, SilentTypes
  <2>4. CASE Pushing(Silence, approved, FALSE) /\ pushed' = view'
    BY <1>1, <2>1, <2>2, <2>4, PushTypes
  <2>5. QED
    BY <2>1, <2>3, <2>4
<1>5. QED
  BY <1>2, <1>3, <1>4

\* What a phone receives is of the room's views.
LEMMA HeadIs ==
  ASSUME Numbers, NEW p \in Phone, toPhone[p] # <<>>
  PROVE  /\ Len(toPhone[p]) \in Nat /\ Len(toPhone[p]) >= 1
         /\ Head(toPhone[p]) = toPhone[p][1] /\ Head(toPhone[p]) \in Frame
         /\ Tail(toPhone[p]) \in Seq(Frame)
         /\ Len(Tail(toPhone[p])) = Len(toPhone[p]) - 1
         /\ \A i \in 1 .. Len(Tail(toPhone[p])) : Tail(toPhone[p])[i] = toPhone[p][i + 1]
<1> DEFINE s == toPhone[p]
<1>1. s \in Seq(Frame) /\ s # <<>>
  BY DEF Numbers
<1> HIDE DEF s
<1>2. Len(s) \in Nat /\ Len(s) >= 1
  BY <1>1, EmptySeq
<1>3. Head(s) \in Frame /\ Tail(s) \in Seq(Frame)
  BY <1>1, HeadTailProperties
<1>4. /\ Head(s) = s[1] /\ Len(Tail(s)) = Len(s) - 1
      /\ \A i \in 1 .. Len(Tail(s)) : Tail(s)[i] = s[i + 1]
  BY <1>1, <1>2
<1>5. QED
  BY <1>2, <1>3, <1>4 DEF s

LEMMA TailIs ==
  ASSUME Numbers, NEW p \in Phone, toPhone[p] # <<>>, toPhone' = [toPhone EXCEPT ![p] = Tail(@)]
  PROVE  /\ Len(toPhone[p]) \in Nat /\ Len(toPhone'[p]) = Len(toPhone[p]) - 1
         /\ \A i \in 1 .. Len(toPhone'[p]) :
              i + 1 \in 1 .. Len(toPhone[p]) /\ toPhone'[p][i] = toPhone[p][i + 1]
         /\ \A q \in Phone : q # p => toPhone'[q] = toPhone[q]
<1> DEFINE t == Tail(toPhone[p])
           s == toPhone[p]
<1>1. /\ Len(s) \in Nat /\ Len(t) = Len(s) - 1
      /\ \A i \in 1 .. Len(t) : t[i] = s[i + 1]
  BY HeadIs
<1>2. toPhone'[p] = t /\ \A q \in Phone : q # p => toPhone'[q] = toPhone[q]
  BY DEF Numbers
<1> HIDE DEF t, s
<1>3. \A i \in 1 .. Len(t) : i + 1 \in 1 .. Len(s)
  BY <1>1
<1>4. QED
  BY <1>1, <1>2, <1>3 DEF s

LEMMA PhoneActTypes ==
  ASSUME IInv, NEW p \in Phone,
         \/ Join(p) \/ Connect(p) \/ Refused(p) \/ Refresh(p) \/ SendCommand(p)
         \/ MeetGap(p) \/ Break(p) \/ TurnOff(p) \/ Reload(p) \/ PhoneNotices(p)
         \/ RelayNotices(p)
  PROVE  TypeOK'
<1>1. /\ RoomTypes /\ Numbers /\ LinkTypes /\ KnownTypes /\ PhoneTypes /\ CountTypes /\ ToHostType
  BY TypeParts DEF IInv
<1>2. /\ creds[p] \in Token /\ socket[p] \in Token /\ grant[p] \in Token /\ Nothing \in Token
      /\ Pending(1) \in Token /\ <<>> \in Seq(Frame) /\ <<>> \in Seq(Message)
  BY <1>1, ConnFacts DEF PhoneTypes
<1>3. \A t \in {creds[p], socket[p]} : t.role \in {"approved", "pending"} =>
        t.conn \in Conn
  BY <1>2, ConnFacts
<1>4. CASE Join(p)
  <2>1. RoomTypes' /\ Numbers' /\ LinkTypes' /\ KnownTypes' /\ CountTypes' /\ ToHostType'
    BY <1>1, <1>4 DEF Join, room, appliance, link, counts, RoomTypes, Numbers, LinkTypes,
       KnownTypes, CountTypes, ToHostType
  <2>2. PhoneTypes'
    BY <1>1, <1>2, <1>4 DEF Join, PhoneTypes
  <2>3. QED
    BY <2>1, <2>2, TypePartsPrime
<1>5. CASE Connect(p)
  <2>1. RoomTypes' /\ Numbers' /\ LinkTypes' /\ KnownTypes' /\ CountTypes'
    BY <1>1, <1>2, <1>5 DEF Connect, room, appliance, link, counts, RoomTypes, Numbers, LinkTypes,
       KnownTypes, CountTypes
  <2>2. PhoneTypes'
    BY <1>1, <1>2, <1>5 DEF Connect, PhoneTypes
  <2>3. creds[p].conn \in Conn
    <3>1. creds[p] # Nothing
      BY <1>5, <1>2, ConnFacts DEF IInv, Devices, DeviceOf, Connect, Connecting
    <3>2. QED
      BY <1>2, <3>1, ConnFacts
  <2>4. ToHostType'
    BY <1>1, <1>2, <1>5, <2>3, GreetingIs, SayIs DEF Connect
  <2>5. QED
    BY <2>1, <2>2, <2>4, TypePartsPrime
<1>6. CASE Refused(p)
  <2>1. Numbers' /\ LinkTypes' /\ KnownTypes' /\ CountTypes' /\ ToHostType'
    BY <1>1, <1>6 DEF Refused, room, appliance, link, counts, Numbers, LinkTypes,
       KnownTypes, CountTypes, ToHostType
  <2>2. PhoneTypes'
    BY <1>1, <1>6 DEF Refused, PhoneTypes
  <2>3. RoomTypes'
    BY <1>1, <1>6 DEF Refused, RoomTypes, room, appliance
  <2>4. QED
    BY <2>1, <2>2, <2>3, TypePartsPrime
<1>7. CASE Refresh(p)
  <2>1. RoomTypes' /\ Numbers' /\ LinkTypes' /\ KnownTypes' /\ CountTypes'
    BY <1>1, <1>2, <1>7 DEF Refresh, Closed, room, appliance, link, counts, RoomTypes, Numbers,
       LinkTypes, KnownTypes, CountTypes
  <2>2. creds[p].conn + 1 \in Conn
    <3>1. grant[p].conn <= faults
      BY <1>7 DEF Refresh, IInv, Spent, SpentOf, Lost
    <3>2. faults \in 0 .. MaxFaults /\ creds[p].conn \in Conn /\ creds[p].conn = grant[p].conn
      BY <1>1, <1>3, <1>7 DEF Refresh, CountTypes
    <3>3. QED
      BY <3>1, <3>2, ConnFacts
  <2>3. Approved(creds[p].conn + 1) \in Token
    BY <2>2, ConnFacts
  <2>4. /\ grant' \in [Phone -> Token] /\ creds' \in [Phone -> Token]
        /\ phase' \in [Phone -> {"out", "joining", "rotating", "dropped", "refreshed",
                                 "open", "off"}]
    BY <1>1, <1>7, <2>3 DEF Refresh, PhoneTypes
  <2>5. PhoneTypes'
    BY <1>1, <1>2, <1>7, <2>4 DEF Refresh, Closed, PhoneTypes
  <2>6. ToHostType'
    <3>1. socket[p].role = "approved" => <<Said("connection_status", socket[p].conn)>> \in Seq(Message)
      BY <1>3, SaidIs
    <3>2. QED
      BY <1>1, <1>7, <3>1, SayIs DEF Refresh, Closed, ToHostType
  <2>7. QED
    BY <2>1, <2>5, <2>6, TypePartsPrime
<1>8. CASE SendCommand(p)
  <2>1. RoomTypes' /\ Numbers' /\ LinkTypes' /\ KnownTypes' /\ CountTypes' /\ PhoneTypes'
    BY <1>1, <1>8 DEF SendCommand, room, appliance, link, phone, counts, RoomTypes, Numbers,
       LinkTypes, KnownTypes, CountTypes, PhoneTypes
  <2>2. creds[p].conn \in Conn
    <3>1. creds[p] # Nothing
      BY <1>8 DEF IInv, Devices, DeviceOf, SendCommand
    <3>2. QED
      BY <1>2, <3>1, ConnFacts
  <2>3. ToHostType'
    BY <1>1, <1>8, <2>2, SaidIs, SayIs DEF SendCommand
  <2>4. QED
    BY <2>1, <2>3, TypePartsPrime
<1>9. CASE MeetGap(p)
  <2>1. RoomTypes' /\ LinkTypes' /\ KnownTypes' /\ PhoneTypes'
    BY <1>1, <1>9 DEF MeetGap, room, appliance, link, phone, RoomTypes, LinkTypes, KnownTypes,
       PhoneTypes
  <2>2. Numbers'
    BY <1>1, <1>9, HeadIs DEF MeetGap, Receiving, Numbers, appliance
  <2>3. CountTypes'
    BY <1>1, <1>9, ConnFacts DEF MeetGap, CountTypes
  <2>4. creds[p].conn \in Conn
    <3>1. creds[p] # Nothing
      BY <1>9 DEF IInv, Devices, DeviceOf, MeetGap, Receiving
    <3>2. QED
      BY <1>2, <3>1, ConnFacts
  <2>5. ToHostType'
    BY <1>1, <1>9, <2>4, SaidIs, SayIs DEF MeetGap, ToHostType
  <2>6. QED
    BY <2>1, <2>2, <2>3, <2>5, TypePartsPrime
<1>10. CASE Break(p)
  <2>1. RoomTypes' /\ Numbers' /\ LinkTypes' /\ KnownTypes' /\ PhoneTypes' /\ ToHostType'
    BY <1>1, <1>2, <1>10 DEF Break, room, appliance, link, phone, RoomTypes, Numbers, LinkTypes,
       KnownTypes, PhoneTypes, ToHostType
  <2>2. CountTypes'
    BY <1>1, <1>10, ConnFacts DEF Break, CountTypes, Spared
  <2>3. QED
    BY <2>1, <2>2, TypePartsPrime
<1>11. CASE TurnOff(p)
  <2>1. RoomTypes' /\ Numbers' /\ LinkTypes' /\ KnownTypes' /\ ToHostType'
    BY <1>1, <1>2, <1>11 DEF TurnOff, room, appliance, link, RoomTypes, Numbers, LinkTypes,
       KnownTypes, ToHostType
  <2>2. CountTypes'
    BY <1>1, <1>11, ConnFacts DEF TurnOff, CountTypes, Spared
  <2>3. PhoneTypes'
    BY <1>1, <1>11 DEF TurnOff, PhoneTypes
  <2>4. QED
    BY <2>1, <2>2, <2>3, TypePartsPrime
<1>12. CASE Reload(p)
  <2>1. RoomTypes' /\ Numbers' /\ LinkTypes' /\ KnownTypes' /\ ToHostType' /\ CountTypes'
    BY <1>1, <1>12 DEF Reload, room, appliance, link, counts, RoomTypes, Numbers, LinkTypes,
       KnownTypes, ToHostType, CountTypes
  <2>2. PhoneTypes'
    BY <1>1, <1>12 DEF Reload, PhoneTypes
  <2>3. QED
    BY <2>1, <2>2, TypePartsPrime
<1>13. CASE PhoneNotices(p)
  <2>1. RoomTypes' /\ Numbers' /\ LinkTypes' /\ KnownTypes' /\ ToHostType' /\ CountTypes'
    BY <1>1, <1>13 DEF PhoneNotices, room, appliance, link, counts, RoomTypes, Numbers, LinkTypes,
       KnownTypes, ToHostType, CountTypes
  <2>2. PhoneTypes'
    BY <1>1, <1>13 DEF PhoneNotices, PhoneTypes
  <2>3. QED
    BY <2>1, <2>2, TypePartsPrime
<1>14. CASE RelayNotices(p)
  <2>1. RoomTypes' /\ Numbers' /\ LinkTypes' /\ KnownTypes' /\ CountTypes'
    BY <1>1, <1>14 DEF RelayNotices, room, appliance, link, phone, counts, RoomTypes, Numbers,
       LinkTypes, KnownTypes, CountTypes
  <2>2. PhoneTypes'
    BY <1>1, <1>2, <1>14 DEF RelayNotices, PhoneTypes, phone
  <2>3. ToHostType'
    <3>1. (IF socket[p].role = "approved"
           THEN <<Said("connection_status", socket[p].conn)>> ELSE <<>>) \in Seq(Message)
      BY <1>2, <1>3, SaidIs
    <3>2. QED
      BY <1>1, <1>14, <3>1, SayIs DEF RelayNotices
  <2>4. QED
    BY <2>1, <2>2, <2>3, TypePartsPrime
<1>15. QED
  BY <1>4, <1>5, <1>6, <1>7, <1>8, <1>9, <1>10, <1>11, <1>12, <1>13, <1>14

\* What a received frame changes.
LEMMA ReceiveIs ==
  ASSUME IInv, NEW p \in Phone, Receive(p)
  PROVE  LET f == toPhone[p][1] IN
         /\ Numbers /\ toPhone[p] # <<>> /\ phase[p] = "open" /\ live[p] /\ f \in Frame
         /\ toPhone' = [toPhone EXCEPT ![p] = Tail(@)]
         /\ ~IsGap(p, f) /\ inSeq' = [inSeq EXCEPT ![p] = f.seq]
         /\ UNCHANGED <<room, appliance, link, targets, grant, socket, counts>>
         /\ \/ /\ f.body = Approval
               /\ creds' = [creds EXCEPT ![p] = Approved(creds[p].conn)]
               /\ phase' = [phase EXCEPT ![p] = "rotating"]
               /\ live' = [live EXCEPT ![p] = FALSE]
               /\ UNCHANGED <<held, screen, toHost>>
            \/ /\ f.body # Approval /\ UNCHANGED <<creds, phase, live>>
               /\ \/ f.body = Result /\ UNCHANGED <<held, screen, toHost>>
                  \/ /\ f.body # Result
                     /\ f.body.kind = "snapshot" \/ f.body.base = held[p]
                     /\ held' = [held EXCEPT ![p] = f.body.view]
                     /\ screen' = [screen EXCEPT ![p] = f.body.view]
                     /\ UNCHANGED toHost
                  \/ /\ f.body # Result
                     /\ ~(f.body.kind = "snapshot" \/ f.body.base = held[p])
                     /\ Say(p, <<Said("resync_request", creds[p].conn)>>)
                     /\ UNCHANGED <<held, screen>>
<1>1. Numbers
  BY TypeParts DEF IInv
<1>2. toPhone[p] # <<>> /\ phase[p] = "open" /\ live[p]
  BY DEF Receive, Receiving
<1>3. Head(toPhone[p]) = toPhone[p][1] /\ toPhone[p][1] \in Frame
  BY <1>1, <1>2, HeadIs
<1> DEFINE f == toPhone[p][1]
<1>4. /\ ~IsGap(p, f) /\ inSeq' = [inSeq EXCEPT ![p] = f.seq]
      /\ TakeApproval(p, f) \/ TakeView(p, f)
      /\ UNCHANGED <<room, appliance, link, targets, grant, socket, counts>>
  BY <1>3 DEF Receive
<1> HIDE DEF f
<1>5. CASE TakeApproval(p, f)
  BY <1>1, <1>2, <1>3, <1>4, <1>5 DEF TakeApproval, f
<1>6. CASE TakeView(p, f)
  <2>1. f.body # Approval /\ UNCHANGED <<creds, phase, live>>
        /\ toPhone' = [toPhone EXCEPT ![p] = Tail(@)]
    BY <1>6 DEF TakeView
  <2>2. \/ f.body = Result /\ UNCHANGED <<held, screen, toHost>>
        \/ /\ f.body # Result
           /\ f.body.kind = "snapshot" \/ f.body.base = held[p]
           /\ held' = [held EXCEPT ![p] = f.body.view]
           /\ screen' = [screen EXCEPT ![p] = f.body.view]
           /\ UNCHANGED toHost
        \/ /\ f.body # Result
           /\ ~(f.body.kind = "snapshot" \/ f.body.base = held[p])
           /\ Say(p, <<Said("resync_request", creds[p].conn)>>)
           /\ UNCHANGED <<held, screen>>
    BY <1>6 DEF TakeView
  <2>3. QED
    BY <1>1, <1>2, <1>3, <1>4, <2>1, <2>2 DEF f
<1>7. QED
  BY <1>4, <1>5, <1>6

LEMMA ReceiveTypes ==
  ASSUME IInv, NEW p \in Phone, Receive(p)
  PROVE  TypeOK'
<1> DEFINE f == toPhone[p][1]
<1>1. /\ RoomTypes /\ Numbers /\ LinkTypes /\ KnownTypes /\ PhoneTypes /\ CountTypes /\ ToHostType
  BY TypeParts DEF IInv
<1>2. /\ Numbers /\ toPhone[p] # <<>> /\ phase[p] = "open" /\ live[p] /\ f \in Frame
      /\ toPhone' = [toPhone EXCEPT ![p] = Tail(@)]
      /\ ~IsGap(p, f) /\ inSeq' = [inSeq EXCEPT ![p] = f.seq]
      /\ UNCHANGED <<room, appliance, link, targets, grant, socket, counts>>
      /\ \/ /\ f.body = Approval
            /\ creds' = [creds EXCEPT ![p] = Approved(creds[p].conn)]
            /\ phase' = [phase EXCEPT ![p] = "rotating"]
            /\ live' = [live EXCEPT ![p] = FALSE]
            /\ UNCHANGED <<held, screen, toHost>>
         \/ /\ f.body # Approval /\ UNCHANGED <<creds, phase, live>>
            /\ \/ f.body = Result /\ UNCHANGED <<held, screen, toHost>>
               \/ /\ f.body # Result
                  /\ f.body.kind = "snapshot" \/ f.body.base = held[p]
                  /\ held' = [held EXCEPT ![p] = f.body.view]
                  /\ screen' = [screen EXCEPT ![p] = f.body.view]
                  /\ UNCHANGED toHost
               \/ /\ f.body # Result
                  /\ ~(f.body.kind = "snapshot" \/ f.body.base = held[p])
                  /\ Say(p, <<Said("resync_request", creds[p].conn)>>)
                  /\ UNCHANGED <<held, screen>>
  BY ReceiveIs
<1> HIDE DEF f
<1>3. creds[p].conn \in Conn
  <2>1. creds[p] # Nothing /\ creds[p] \in Token
    BY <1>1, <1>2 DEF IInv, Devices, DeviceOf, PhoneTypes
  <2>2. QED
    BY <2>1, ConnFacts
<1>4. LinkTypes' /\ KnownTypes' /\ CountTypes'
  BY <1>1, <1>2 DEF room, appliance, link, counts, LinkTypes, KnownTypes, CountTypes
<1>5. Numbers'
  BY <1>1, <1>2, HeadIs DEF Numbers, appliance
<1>6. PhoneTypes'
  <2>1. Approved(creds[p].conn) \in Token
    BY <1>3, ConnFacts
  <2>2. f.seq \in Nat
    BY <1>2 DEF Frame
  <2>3. QED
    <3>1. inSeq' \in [Phone -> Nat \cup {-1}]
      BY <1>1, <1>2, <2>2 DEF PhoneTypes
    <3>2. grant' \in [Phone -> Token] /\ socket' \in [Phone -> Token]
      BY <1>1, <1>2 DEF PhoneTypes
    <3>3. \/ /\ creds' = [creds EXCEPT ![p] = Approved(creds[p].conn)]
             /\ phase' = [phase EXCEPT ![p] = "rotating"]
             /\ live' = [live EXCEPT ![p] = FALSE]
          \/ UNCHANGED <<creds, phase, live>>
      BY <1>2
    <3>4. creds' \in [Phone -> Token]
      BY <1>1, <2>1, <3>3 DEF PhoneTypes
    <3>5. live' \in [Phone -> BOOLEAN]
      BY <1>1, <3>3 DEF PhoneTypes
    <3>6. /\ phase' \in [Phone -> {"out", "joining", "rotating", "dropped", "refreshed",
                                   "open", "off"}]
      BY <1>1, <3>3 DEF PhoneTypes
    <3>7. QED
      BY <3>1, <3>2, <3>4, <3>5, <3>6 DEF PhoneTypes
<1>7. ToHostType'
  <2>1. <<Said("resync_request", creds[p].conn)>> \in Seq(Message)
    BY <1>3, SaidIs
  <2>2. QED
    BY <1>1, <1>2, <2>1, SayIs DEF ToHostType
<1>8. RoomTypes'
  <2>1. f.body \notin {Result, Approval} => f.body.view \in 0 .. view
    <3>1. SUFFICES ASSUME f.body \notin {Result, Approval} PROVE f.body.view \in 0 .. view
      OBVIOUS
    <3>2. f.body \in Body
      BY <1>2 DEF Frame
    <3>3. IsView(f.body) /\ f.body.view \in 1 .. MaxView
      BY <3>1, <3>2, BodyIs DEF IsView
    <3>4. 1 \in 1 .. Len(toPhone[p])
      BY <1>1, <1>2, HeadIs
    <3>5. f.body.view <= view
      BY <3>3, <3>4 DEF IInv, Ahead, AheadOf, f
    <3>6. QED
      BY <1>1, <3>3, <3>5 DEF RoomTypes
  <2>2. held' \in [Phone -> 0 .. view] /\ screen' \in [Phone -> 0 .. view]
    BY <1>1, <1>2, <2>1 DEF RoomTypes
  <2>3. QED
    BY <1>1, <1>2, <2>2 DEF RoomTypes, room, appliance
<1>9. QED
  BY <1>4, <1>5, <1>6, <1>7, <1>8, TypePartsPrime

LEMMA LinkActTypes ==
  ASSUME IInv, \/ \E p \in Phone : GrantFails(p)
               \/ HostConnect \/ HostBreak \/ HostNotices \/ RelayDropsHost \/ HostRestart
  PROVE  TypeOK'
<1>1. /\ RoomTypes /\ Numbers /\ LinkTypes /\ KnownTypes /\ PhoneTypes /\ CountTypes /\ ToHostType
      /\ <<>> \in Seq(Message)
  BY TypeParts DEF IInv
<1>2. ASSUME NEW p \in Phone, GrantFails(p) PROVE TypeOK'
  <2>1. RoomTypes' /\ Numbers' /\ LinkTypes'
    BY <1>1, <1>2 DEF GrantFails, CutHost, room, phone, RoomTypes, Numbers, LinkTypes
  <2>2. KnownTypes' /\ ToHostType'
    BY <1>1, <1>2 DEF GrantFails, CutHost, KnownTypes, ToHostType
  <2>3. grant' \in [Phone -> Token]
    <3>1. Approved(awaited[p]) \in Token
      BY <1>1, <1>2, ConnFacts DEF GrantFails, KnownTypes
    <3>2. QED
      BY <1>1, <1>2, <3>1 DEF GrantFails, PhoneTypes
  <2>4. PhoneTypes'
    BY <1>1, <1>2, <2>3 DEF GrantFails, phone, PhoneTypes
  <2>5. CountTypes'
    BY <1>1, <1>2, ConnFacts DEF GrantFails, CutHost, Spared, CountTypes
  <2>6. QED
    BY <2>1, <2>2, <2>4, <2>5, TypePartsPrime
<1>3. CASE HostConnect
  <2>1. RoomTypes' /\ KnownTypes' /\ PhoneTypes' /\ CountTypes' /\ ToHostType' /\ LinkTypes'
    BY <1>1, <1>3 DEF HostConnect, room, appliance, phone, counts, RoomTypes, KnownTypes,
       PhoneTypes, CountTypes, ToHostType, LinkTypes
  <2>2. Numbers'
    BY <1>1, <1>3 DEF HostConnect, appliance, Numbers
  <2>3. QED
    BY <2>1, <2>2, TypePartsPrime
<1>4. CASE HostBreak
  <2>1. RoomTypes' /\ Numbers' /\ KnownTypes' /\ PhoneTypes' /\ LinkTypes' /\ ToHostType'
    BY <1>1, <1>4 DEF HostBreak, CutHost, room, appliance, phone, RoomTypes, Numbers, KnownTypes,
       PhoneTypes, LinkTypes, ToHostType
  <2>2. CountTypes'
    BY <1>1, <1>4, ConnFacts DEF HostBreak, CutHost, Spared, CountTypes
  <2>3. QED
    BY <2>1, <2>2, TypePartsPrime
<1>5. CASE HostNotices
  <2>1. RoomTypes' /\ Numbers' /\ KnownTypes' /\ PhoneTypes'
    BY <1>1, <1>5 DEF HostNotices, room, appliance, phone, RoomTypes, Numbers, KnownTypes, PhoneTypes
  <2>2. LinkTypes' /\ ToHostType' /\ CountTypes'
    BY <1>1, <1>5 DEF HostNotices, counts, LinkTypes, ToHostType, CountTypes
  <2>3. QED
    BY <2>1, <2>2, TypePartsPrime
<1>8. CASE RelayDropsHost
  <2>1. RoomTypes' /\ Numbers' /\ KnownTypes' /\ PhoneTypes'
    BY <1>1, <1>8 DEF RelayDropsHost, room, appliance, phone, RoomTypes, Numbers, KnownTypes, PhoneTypes
  <2>2. LinkTypes' /\ ToHostType' /\ CountTypes'
    BY <1>1, <1>8 DEF RelayDropsHost, counts, LinkTypes, ToHostType, CountTypes
  <2>3. QED
    BY <2>1, <2>2, TypePartsPrime
<1>6. CASE HostRestart
  <2>1. KnownTypes' /\ PhoneTypes' /\ LinkTypes' /\ ToHostType'
    BY <1>1, <1>6 DEF HostRestart, phone, KnownTypes, PhoneTypes, LinkTypes, ToHostType
  <2>2. RoomTypes' /\ Numbers'
    BY <1>1, <1>6 DEF HostRestart, room, phone, RoomTypes, Numbers
  <2>3. CountTypes'
    BY <1>1, <1>6, ConnFacts DEF HostRestart, Spared, CountTypes
  <2>4. QED
    BY <2>1, <2>2, <2>3, TypePartsPrime
<1>7. QED
  BY <1>2, <1>3, <1>4, <1>5, <1>6, <1>8

LEMMA StaysTyped ==
  ASSUME IInv, [Next]_vars
  PROVE  TypeOK'
<1>1. TypeOK
  BY DEF IInv
<1>2. CASE UNCHANGED vars
  BY <1>1, <1>2 DEF vars, room, appliance, link, phone, counts, TypeOK
<1>3. CASE Next
  BY <1>1, <1>3, HandleTypes, HostTypes, PhoneActTypes, ReceiveTypes, LinkActTypes DEF Next
<1>4. QED
  BY <1>2, <1>3

-----------------------------------------------------------------------------
(* Tokens and connections stay in step *)

\* What the device invariants are about, for one phone.
SameDevice(q) ==
  /\ phase'[q] = phase[q] /\ creds'[q] = creds[q] /\ grant'[q] = grant[q]
  /\ socket'[q] = socket[q] /\ live'[q] = live[q]
  /\ approved \subseteq approved' /\ faults' >= faults

LEMMA SameDeviceStays ==
  ASSUME NEW q \in Phone, SameDevice(q), DeviceOf(q), SpentOf(q), faults \in Nat, faults' \in Nat,
         grant[q] \in Token
  PROVE  DeviceOf(q)' /\ SpentOf(q)'
<1>1. DeviceOf(q)'
  BY DEF SameDevice, DeviceOf
<1>2. grant[q].conn \in Nat
  BY ConnFacts DEF NoConn
<1>3. SpentOf(q)'
  BY <1>2 DEF SameDevice, SpentOf, Lost
<1>4. QED
  BY <1>1, <1>3

LEMMA DevicesBy ==
  ASSUME TypeOK, TypeOK', Devices, Spent, NEW p \in Phone,
         \A q \in Phone : q # p => SameDevice(q),
         DeviceOf(p)' /\ SpentOf(p)'
  PROVE  Devices' /\ Spent'
<1>1. faults \in Nat /\ faults' \in Nat /\ grant \in [Phone -> Token]
  BY ConnFacts DEF TypeOK
<1>2. ASSUME NEW q \in Phone, q # p PROVE DeviceOf(q)' /\ SpentOf(q)'
  BY <1>1, <1>2, SameDeviceStays DEF Devices, Spent
<1>3. QED
  BY <1>2 DEF Devices, Spent

LEMMA StayDevices ==
  ASSUME IInv, [Next]_vars
  PROVE  Devices' /\ Spent'
<1>1. /\ TypeOK /\ TypeOK' /\ Devices /\ Spent /\ Known /\ Approvals /\ PhoneTypes
      /\ approved \subseteq Phone /\ faults \in Nat /\ faults' \in Nat
  <2>1. TypeOK /\ TypeOK' /\ Devices /\ Spent /\ Known /\ Approvals /\ PhoneTypes /\ CountTypes
    BY StaysTyped, TypeParts DEF IInv
  <2>2. CountTypes'
    BY <2>1, TypePartsPrime
  <2>3. approved \subseteq Phone
    BY <2>1 DEF TypeOK
  <2>4. faults \in Nat /\ faults' \in Nat
    BY <2>1, <2>2, ConnFacts DEF CountTypes
  <2>5. QED
    BY <2>1, <2>3, <2>4
<1>2. \A q \in Phone : creds[q] \in Token /\ grant[q] \in Token /\ socket[q] \in Token
  BY <1>1 DEF PhoneTypes
<1>3. \A q \in Phone : DeviceOf(q) /\ SpentOf(q) /\ KnownOf(q) /\ ApprovalsOf(q)
  BY <1>1 DEF Devices, Spent, Known, Approvals
<1>4. ASSUME \A q \in Phone : SameDevice(q) PROVE Devices' /\ Spent'
  <2>1. \A q \in Phone : DeviceOf(q)' /\ SpentOf(q)'
    BY <1>1, <1>2, <1>3, <1>4, SameDeviceStays
  <2>2. QED
    BY <2>1 DEF Devices, Spent
<1>5. CASE UNCHANGED vars
  BY <1>1, <1>4, <1>5 DEF vars, room, phone, counts, SameDevice
<1>6. ASSUME NEW p \in Phone, Join(p) PROVE Devices' /\ Spent'
  <2>1. \A q \in Phone : q # p => SameDevice(q)
    BY <1>1, <1>6 DEF Join, PhoneTypes, SameDevice, room, counts
  <2>2. /\ phase[p] = "out" /\ phase'[p] = "joining" /\ creds'[p] = Pending(1) /\ grant'[p] = Pending(1)
        /\ socket'[p] = socket[p] /\ live'[p] = live[p] /\ faults' = faults
    BY <1>1, <1>6 DEF Join, PhoneTypes, counts
  <2>3. socket[p].conn = 0 \/ socket[p].conn >= 1
    BY <1>2, ConnFacts DEF NoConn
  <2>4. grant[p].conn = 0
    BY <1>3, <2>2, ConnFacts DEF DeviceOf, NoConn
  <2>5. socket[p].conn \in Nat
    BY <1>2, ConnFacts DEF NoConn
  <2>6. DeviceOf(p)'
    BY <1>3, <2>2, <2>4, <2>5, ConnFacts DEF DeviceOf
  <2>7. SpentOf(p)'
    BY <1>1, <2>2, ConnFacts DEF SpentOf, Lost
  <2>8. QED
    BY <1>1, <2>1, <2>6, <2>7, DevicesBy
<1>7. ASSUME NEW p \in Phone, Connect(p) PROVE Devices' /\ Spent'
  <2>1. \A q \in Phone : q # p => SameDevice(q)
    BY <1>1, <1>7 DEF Connect, PhoneTypes, SameDevice, room, counts
  <2>2. /\ phase[p] # "out" /\ phase'[p] = "open" /\ creds'[p] = creds[p] /\ grant'[p] = grant[p]
        /\ creds[p] = grant[p] /\ socket'[p] = creds[p] /\ live'[p] = TRUE /\ faults' = faults
        /\ approved' = approved
    <3>1. phase[p] # "out"
      BY <1>7 DEF Connect, Connecting
    <3>2. QED
      BY <1>1, <1>7, <3>1 DEF Connect, PhoneTypes, counts, room
  <2>3. creds[p].conn \in Nat
    BY <1>2, ConnFacts DEF NoConn
  <2>4. DeviceOf(p)'
    BY <1>3, <2>2, <2>3 DEF DeviceOf
  <2>5. SpentOf(p)'
    BY <1>3, <2>2 DEF SpentOf, Lost
  <2>6. QED
    BY <1>1, <2>1, <2>4, <2>5, DevicesBy
<1>8. ASSUME NEW p \in Phone, Refused(p) PROVE Devices' /\ Spent'
  <2>1. \A q \in Phone : q # p => SameDevice(q)
    BY <1>1, <1>8 DEF Refused, PhoneTypes, SameDevice, room, counts
  <2>2. /\ phase[p] # "out" /\ phase'[p] = "off" /\ creds'[p] = creds[p] /\ grant'[p] = grant[p]
        /\ creds[p] # grant[p] /\ socket'[p] = socket[p] /\ live'[p] = live[p] /\ faults' = faults
        /\ approved' = approved /\ phase[p] # "open"
    <3>1. phase[p] \notin {"out", "open"}
      BY <1>8 DEF Refused, Connecting
    <3>2. QED
      BY <1>1, <1>8, <3>1 DEF Refused, PhoneTypes, counts, room
  <2>3. DeviceOf(p)'
    BY <1>3, <2>2 DEF DeviceOf
  <2>4. SpentOf(p)'
    BY <1>3, <2>2 DEF SpentOf
  <2>5. QED
    BY <1>1, <2>1, <2>3, <2>4, DevicesBy
<1>9. ASSUME NEW p \in Phone, Refresh(p) PROVE Devices' /\ Spent'
  <2>1. \A q \in Phone : q # p => SameDevice(q)
    BY <1>1, <1>9 DEF Refresh, Closed, PhoneTypes, SameDevice, room, counts
  <2>2. /\ phase[p] = "dropped" /\ creds[p].role = "approved" /\ creds[p] = grant[p]
        /\ grant'[p] = Approved(creds[p].conn + 1) /\ socket'[p] = Nothing /\ live'[p] = FALSE
        /\ \/ creds'[p] = grant'[p] /\ phase'[p] = "refreshed"
           \/ creds'[p] = creds[p] /\ phase'[p] = "off"
        /\ faults' = faults /\ approved' = approved
    BY <1>1, <1>9 DEF Refresh, Closed, PhoneTypes, counts, room
  <2>3. creds[p].conn \in Conn /\ creds[p] = Approved(creds[p].conn) /\ creds[p].conn <= faults
    BY <1>2, <1>3, <2>2, ConnFacts DEF SpentOf, Lost
  <2>4. /\ grant'[p].role = "approved" /\ grant'[p].conn = creds[p].conn + 1
        /\ grant'[p] # Nothing /\ grant'[p] # creds[p] /\ creds[p] # Nothing
        /\ Nothing.conn = 0 /\ creds[p].conn \in Nat /\ creds[p].conn >= 1
    BY <2>2, <2>3, ConnFacts DEF Approved, NoConn, Nothing
  <2>5. DeviceOf(p)'
    BY <1>3, <2>2, <2>4 DEF DeviceOf
  <2>6. SpentOf(p)'
    BY <1>1, <2>2, <2>3, <2>4 DEF SpentOf, Lost
  <2>7. QED
    BY <1>1, <2>1, <2>5, <2>6, DevicesBy
<1>10. ASSUME NEW p \in Phone, Receive(p) PROVE Devices' /\ Spent'
  <2> DEFINE f == toPhone[p][1]
  <2>1. /\ Numbers /\ toPhone[p] # <<>> /\ phase[p] = "open" /\ live[p]
        /\ UNCHANGED <<room, grant, socket, counts>>
        /\ \/ /\ f.body = Approval
              /\ creds' = [creds EXCEPT ![p] = Approved(creds[p].conn)]
              /\ phase' = [phase EXCEPT ![p] = "rotating"]
              /\ live' = [live EXCEPT ![p] = FALSE]
           \/ UNCHANGED <<creds, phase, live>>
    BY <1>10, ReceiveIs
  <2>2. CASE UNCHANGED <<creds, phase, live>>
    BY <1>1, <1>4, <2>1, <2>2 DEF room, counts, SameDevice
  <2>3. CASE /\ f.body = Approval
             /\ creds' = [creds EXCEPT ![p] = Approved(creds[p].conn)]
             /\ phase' = [phase EXCEPT ![p] = "rotating"]
             /\ live' = [live EXCEPT ![p] = FALSE]
    <3>1. \A q \in Phone : q # p => SameDevice(q)
      BY <1>1, <2>1, <2>3 DEF room, counts, PhoneTypes, SameDevice
    <3>2. grant[p].role = "approved" /\ creds[p].role = "pending"
      <4>1. 1 \in 1 .. Len(toPhone[p])
        BY <2>1, HeadIs
      <4>2. QED
        BY <1>3, <2>1, <2>3, <4>1 DEF ApprovalsOf
    <3>3. creds[p] = Pending(1) /\ socket[p] = Pending(1)
      BY <1>3, <2>1, <3>2 DEF DeviceOf
    <3>4. /\ creds'[p] = Approved(1) /\ phase'[p] = "rotating" /\ live'[p] = FALSE
          /\ grant'[p] = grant[p] /\ socket'[p] = socket[p] /\ faults' = faults
          /\ approved' = approved
      BY <1>1, <2>1, <2>3, <3>3, ConnFacts DEF PhoneTypes, counts, room
    <3>5. DeviceOf(p)'
      <4>1. /\ Approved(1).role = "approved" /\ Approved(1).conn = 1 /\ Pending(1).conn = 1
            /\ Pending(1) # Approved(1) /\ Approved(1) # Nothing
        BY ConnFacts
      <4>2. QED
        BY <1>3, <2>1, <3>2, <3>3, <3>4, <4>1 DEF DeviceOf
    <3>6. SpentOf(p)'
      BY <1>3, <3>4 DEF SpentOf, Lost
    <3>7. QED
      BY <1>1, <3>1, <3>5, <3>6, DevicesBy
  <2>4. QED
    BY <2>1, <2>2, <2>3
<1>11. ASSUME NEW p \in Phone, Grant(p) \/ GrantFails(p) PROVE Devices' /\ Spent'
  <2>1. /\ \A q \in Phone : q # p => SameDevice(q)
        /\ awaited[p] # NoConn /\ grant'[p] \in {grant[p], Approved(awaited[p])}
        /\ creds'[p] = creds[p] /\ phase'[p] = phase[p] /\ socket'[p] = socket[p]
        /\ live'[p] = live[p] /\ approved' = approved /\ faults' = faults
    <3>1. CASE Grant(p)
      <4>1. /\ Undisturbed /\ awaited[p] # NoConn /\ grant' = [grant EXCEPT ![p] = Approved(awaited[p])]
            /\ approved' = approved
        BY <1>1, <3>1, GrantPushes DEF room
      <4>2. /\ phase' = phase /\ creds' = creds /\ socket' = socket /\ live' = live /\ faults' = faults
        BY <4>1 DEF Undisturbed, phone
      <4>3. grant'[p] = Approved(awaited[p]) /\ \A q \in Phone : q # p => grant'[q] = grant[q]
        BY <1>1, <4>1 DEF PhoneTypes
      <4>4. QED
        BY <1>1, <4>1, <4>2, <4>3 DEF SameDevice
    <3>2. CASE GrantFails(p)
      BY <1>1, <3>2 DEF GrantFails, PhoneTypes, SameDevice, room, phone
    <3>3. QED
      BY <1>11, <3>1, <3>2
  <2>2. /\ grant[p] = Pending(awaited[p]) /\ p \in approved
    BY <1>3, <2>1 DEF KnownOf
  <2>3. /\ grant[p] = Pending(1) /\ awaited[p] = 1
    <3>1. awaited[p] \in Conn
      BY <1>1, <2>1 DEF TypeOK
    <3>2. grant[p].role = "pending" /\ grant[p].conn = awaited[p]
      BY <2>2, <3>1, ConnFacts
    <3>3. grant[p] = Pending(1)
      BY <1>3, <3>2 DEF DeviceOf
    <3>4. QED
      BY <3>2, <3>3, ConnFacts
  <2>4. /\ Approved(1).role = "approved" /\ Approved(1).conn = 1 /\ Pending(1).conn = 1
        /\ Pending(1) # Approved(1) /\ Approved(1) # Nothing /\ Pending(1) # Nothing
        /\ Pending(1).role = "pending"
    BY ConnFacts
  <2>5. DeviceOf(p)'
    BY <1>3, <2>1, <2>2, <2>3, <2>4 DEF DeviceOf
  <2>6. SpentOf(p)'
    <3>1. creds[p].role # "approved"
      BY <1>3, <2>3, <2>4 DEF DeviceOf
    <3>2. QED
      BY <1>3, <2>1, <2>3, <2>4, <3>1 DEF SpentOf
  <2>7. QED
    BY <1>1, <2>1, <2>5, <2>6, DevicesBy
<1>12. ASSUME NEW p \in Phone, Break(p) \/ TurnOff(p) PROVE Devices' /\ Spent'
  <2>1. \A q \in Phone : q # p => SameDevice(q)
    BY <1>1, <1>12 DEF Break, TurnOff, PhoneTypes, SameDevice, room, phone
  <2>2. /\ phase'[p] = phase[p] \/ (phase'[p] = "off" /\ phase[p] # "out")
        /\ creds'[p] = creds[p] /\ grant'[p] = grant[p] /\ socket'[p] = socket[p]
        /\ live'[p] = FALSE /\ approved' = approved /\ faults' = faults + 1
    BY <1>1, <1>12 DEF Break, TurnOff, PhoneTypes, room, phone
  <2>3. DeviceOf(p)'
    BY <1>3, <2>2 DEF DeviceOf
  <2>4. grant[p].conn \in Nat
    BY <1>2, ConnFacts DEF NoConn
  <2>5. SpentOf(p)'
    BY <1>1, <1>3, <2>2, <2>4 DEF SpentOf
  <2>6. QED
    BY <1>1, <2>1, <2>3, <2>5, DevicesBy
<1>13. ASSUME NEW p \in Phone, Reload(p) \/ PhoneNotices(p) \/ RelayNotices(p)
       PROVE Devices' /\ Spent'
  <2>1. \A q \in Phone : q # p => SameDevice(q)
    BY <1>1, <1>13 DEF Reload, PhoneNotices, RelayNotices, PhoneTypes, SameDevice, room, phone, counts
  <2>2. /\ \/ phase'[p] = phase[p] /\ ~live[p]
           \/ phase'[p] = "dropped" /\ (phase[p] = "off" \/ (phase[p] = "open" /\ ~live[p]))
        /\ creds'[p] = creds[p] /\ grant'[p] = grant[p] /\ socket'[p] \in {socket[p], Nothing}
        /\ live'[p] = live[p] /\ approved' = approved /\ faults' = faults
    BY <1>1, <1>13 DEF Reload, PhoneNotices, RelayNotices, PhoneTypes, room, phone, counts
  <2>3. grant[p].conn \in Nat /\ Nothing.conn = 0
    BY <1>2, ConnFacts DEF NoConn
  <2>4. DeviceOf(p)'
    BY <1>3, <2>2, <2>3 DEF DeviceOf
  <2>5. SpentOf(p)'
    BY <1>3, <2>2 DEF SpentOf, Lost
  <2>6. QED
    BY <1>1, <2>1, <2>4, <2>5, DevicesBy
<1>14. ASSUME NEW p \in Phone, Handle(p) \/ Approve(p) PROVE Devices' /\ Spent'
  <2>1. Undisturbed /\ grant' = grant /\ approved \subseteq approved'
    BY <1>1, <1>14, JoinPushes, PresencePushes, ResyncPushes, CommandPushes, ApprovePushes
       DEF Handle, room
  <2>2. QED
    BY <1>1, <1>4, <2>1 DEF Undisturbed, phone, SameDevice
<1>15. ASSUME Timer PROVE Devices' /\ Spent'
  <2>1. Undisturbed /\ grant' = grant /\ approved' = approved
    BY <1>1, <1>15, TimerPushes
  <2>2. QED
    BY <1>1, <1>4, <2>1 DEF Undisturbed, phone, SameDevice
<1>16. ASSUME NEW p \in Phone, SendCommand(p) \/ MeetGap(p) PROVE Devices' /\ Spent'
  BY <1>1, <1>4, <1>16 DEF SendCommand, MeetGap, SameDevice, room, phone, counts
<1>17. ASSUME HostConnect \/ HostBreak \/ HostNotices \/ RelayDropsHost \/ HostRestart
       PROVE Devices' /\ Spent'
  BY <1>1, <1>4, <1>17 DEF HostConnect, HostBreak, HostNotices, RelayDropsHost, HostRestart,
     SameDevice, room, phone, counts
<1>18. QED
  BY <1>5, <1>6, <1>7, <1>8, <1>9, <1>10, <1>11, <1>12, <1>13, <1>14, <1>15, <1>16, <1>17 DEF Next

\* The connections that the appliance knows or is told of.
ToldOf(q) == \A i \in 1 .. Len(toHost[q]) : toHost[q][i].conn <= grant[q].conn

\* Tokens only ever get newer.
GrantsGrow ==
  \A q \in Phone : /\ grant[q].conn <= grant'[q].conn
                   /\ grant[q] # Nothing => grant'[q] # Nothing
                   /\ grant[q].role = "approved" => grant'[q].role = "approved"

LEMMA GrantMoves ==
  ASSUME IInv, [Next]_vars
  PROVE  /\ GrantsGrow
         /\ \A q \in Phone : grant'[q] \in Token /\ grant[q] \in Token
                             /\ grant[q].conn \in Nat /\ grant'[q].conn \in Nat
         /\ \A q \in Phone : grant[q].role = "pending" /\ grant'[q] # grant[q] =>
              awaited[q] # NoConn /\ awaited'[q] = NoConn
<1>1. TypeOK /\ TypeOK' /\ Devices /\ Spent /\ Known
  BY StaysTyped DEF IInv
<1>2. \A q \in Phone : grant'[q] \in Token /\ grant[q] \in Token /\ creds[q] \in Token
                       /\ grant[q].conn \in Nat /\ grant'[q].conn \in Nat
  BY <1>1, TokenConns DEF TypeOK
<1>3. \A q \in Phone : DeviceOf(q) /\ KnownOf(q)
  BY <1>1 DEF Devices, Known
<1>4. CASE grant' = grant
  BY <1>2, <1>4 DEF GrantsGrow
<1>5. ASSUME NEW p \in Phone, Join(p)
      PROVE  /\ GrantsGrow
             /\ \A q \in Phone : grant[q].role = "pending" /\ grant'[q] # grant[q] =>
                  awaited[q] # NoConn /\ awaited'[q] = NoConn
  <2>1. /\ grant[p] = Nothing /\ grant'[p] = Pending(1) /\ \A q \in Phone : q # p => grant'[q] = grant[q]
    BY <1>1, <1>3, <1>5 DEF Join, DeviceOf, TypeOK
  <2>2. Nothing.conn = 0 /\ Nothing.role = "none"
    BY ConnFacts DEF NoConn
  <2>3. QED
    BY <1>2, <2>1, <2>2 DEF GrantsGrow
<1>6. ASSUME NEW p \in Phone, Refresh(p)
      PROVE  /\ GrantsGrow
             /\ \A q \in Phone : grant[q].role = "pending" /\ grant'[q] # grant[q] =>
                  awaited[q] # NoConn /\ awaited'[q] = NoConn
  <2>1. /\ grant[p].role = "approved" /\ creds[p] = grant[p] /\ grant'[p] = Approved(creds[p].conn + 1)
        /\ \A q \in Phone : q # p => grant'[q] = grant[q]
    BY <1>1, <1>6 DEF Refresh, TypeOK
  <2>2. /\ Approved(creds[p].conn + 1).role = "approved" /\ "approved" # "pending"
        /\ Approved(creds[p].conn + 1).conn = creds[p].conn + 1
        /\ Approved(creds[p].conn + 1) # Nothing
    BY DEF Approved, Nothing
  <2>3. QED
    BY <1>2, <2>1, <2>2 DEF GrantsGrow
<1>7. ASSUME NEW p \in Phone, Grant(p) \/ GrantFails(p)
      PROVE  /\ GrantsGrow
             /\ \A q \in Phone : grant[q].role = "pending" /\ grant'[q] # grant[q] =>
                  awaited[q] # NoConn /\ awaited'[q] = NoConn
  <2>1. /\ awaited[p] # NoConn /\ grant'[p] \in {grant[p], Approved(awaited[p])}
        /\ awaited'[p] = NoConn /\ \A q \in Phone : q # p => grant'[q] = grant[q]
    BY <1>1, <1>7 DEF Grant, GrantFails, TypeOK
  <2>2. /\ grant[p] = Pending(awaited[p]) /\ awaited[p] \in Conn
    BY <1>1, <1>3, <2>1 DEF KnownOf, TypeOK
  <2>3. /\ Approved(awaited[p]).conn = awaited[p] /\ Pending(awaited[p]).conn = awaited[p]
        /\ Approved(awaited[p]) # Nothing /\ Pending(awaited[p]).role = "pending"
        /\ Approved(awaited[p]).role = "approved"
    BY <2>2, ConnFacts
  <2>4. QED
    BY <1>2, <2>1, <2>2, <2>3 DEF GrantsGrow
<1>8. \/ grant' = grant
      \/ \E p \in Phone : Join(p) \/ Refresh(p) \/ Grant(p) \/ GrantFails(p)
  <2>1. CASE UNCHANGED vars
    BY <2>1 DEF vars
  <2>2. ASSUME NEW p \in Phone,
               \/ Connect(p) \/ Refused(p) \/ SendCommand(p) \/ MeetGap(p) \/ Receive(p)
               \/ Handle(p) \/ Approve(p) \/ Break(p) \/ TurnOff(p) \/ Reload(p)
               \/ PhoneNotices(p) \/ RelayNotices(p)
        PROVE  grant' = grant
    BY <2>2 DEF Connect, Refused, SendCommand, MeetGap, Receive, Handle, HandleJoin, HandlePresence,
       HandleResync, HandleCommand, Approve, Break, TurnOff, Reload, PhoneNotices, RelayNotices
  <2>3. CASE Timer \/ HostConnect \/ HostBreak \/ HostNotices \/ RelayDropsHost \/ HostRestart
    BY <2>3 DEF Timer, HostConnect, HostBreak, HostNotices, RelayDropsHost, HostRestart
  <2>4. QED
    BY <2>1, <2>2, <2>3 DEF Next
<1>9. QED
  BY <1>2, <1>4, <1>5, <1>6, <1>7, <1>8

\* What a phone or the relay says carries a connection that was given out.
LEMMA SayTold ==
  ASSUME ToHostType, GrantsGrow, \A q \in Phone : ToldOf(q), NEW p \in Phone, NEW s \in Seq(Message),
         \A i \in 1 .. Len(s) : s[i].conn <= grant[p].conn, Say(p, s),
         \A q \in Phone : grant[q].conn \in Nat /\ grant'[q].conn \in Nat
  PROVE  \A q \in Phone : ToldOf(q)'
<1>1. /\ \A q \in Phone : q # p => toHost'[q] = toHost[q]
      /\ toHost'[p] = IF hostLive THEN toHost[p] \o s ELSE toHost[p]
      /\ toHost[p] \in Seq(Message)
  BY SayIs DEF ToHostType
<1>2. \A q \in Phone : \A i \in 1 .. Len(toHost[q]) : toHost[q][i].conn <= grant[q].conn
  BY DEF ToldOf
<1>3. ASSUME NEW q \in Phone PROVE \A m \in Conn : m <= grant[q].conn => m <= grant'[q].conn
  BY <1>1, ConnFacts DEF GrantsGrow
<1>4. \A t \in Seq(Message) : \A i \in 1 .. Len(t) : t[i].conn \in Conn
  BY MessageConns
<1>5. \A q \in Phone : toHost[q] \in Seq(Message)
  BY DEF ToHostType
<1>6. ASSUME NEW q \in Phone, toHost'[q] = toHost[q] PROVE ToldOf(q)'
  BY <1>2, <1>3, <1>4, <1>5, <1>6 DEF ToldOf
<1>7. CASE toHost'[p] = toHost[p] \o s
  <2>1. /\ Len(toHost'[p]) = Len(toHost[p]) + Len(s) /\ Len(s) \in Nat /\ Len(toHost[p]) \in Nat
        /\ \A i \in 1 .. Len(toHost[p]) + Len(s) :
             toHost'[p][i] = IF i <= Len(toHost[p]) THEN toHost[p][i] ELSE s[i - Len(toHost[p])]
    BY <1>1, <1>7, ConcatProperties, LenProperties
  <2>2. ASSUME NEW i \in 1 .. Len(toHost'[p]) PROVE toHost'[p][i].conn <= grant'[p].conn
    <3>1. CASE i <= Len(toHost[p])
      <4>1. i \in 1 .. Len(toHost[p]) /\ toHost'[p][i] = toHost[p][i]
        BY <2>1, <3>1
      <4>2. QED
        BY <1>2, <1>3, <1>4, <1>5, <4>1
    <3>2. CASE ~(i <= Len(toHost[p]))
      <4>1. i - Len(toHost[p]) \in 1 .. Len(s) /\ toHost'[p][i] = s[i - Len(toHost[p])]
        BY <2>1, <3>2
      <4>2. QED
        BY <1>3, <1>4, <4>1
    <3>3. QED
      BY <3>1, <3>2
  <2>3. QED
    BY <1>1, <1>6, <2>2 DEF ToldOf
<1>8. QED
  BY <1>1, <1>6, <1>7

LEMMA StayTold ==
  ASSUME IInv, [Next]_vars
  PROVE  \A q \in Phone : ToldOf(q)'
<1>1. /\ TypeOK /\ TypeOK' /\ ToHostType /\ KnownTypes /\ PhoneTypes
      /\ \A q \in Phone : DeviceOf(q) /\ KnownOf(q)
      /\ \A q \in Phone : toHost[q] \in Seq(Message)
  BY StaysTyped, TypeParts DEF IInv, Devices, Known, ToHostType
<1>2. /\ GrantsGrow
      /\ \A q \in Phone : grant[q].conn \in Nat /\ grant'[q].conn \in Nat
  BY GrantMoves
<1>3. \A q \in Phone : ToldOf(q)
  BY <1>1 DEF KnownOf, ToldOf
<1>4. \A q \in Phone : creds[q] \in Token /\ socket[q] \in Token
  BY <1>1 DEF PhoneTypes
<1>5. \A q \in Phone : \A i \in 1 .. Len(toHost[q]) :
        toHost[q][i].conn \in Nat /\ toHost[q][i].conn <= grant[q].conn
  <2>1. \A t \in Seq(Message) : \A i \in 1 .. Len(t) : t[i].conn \in Conn
    BY MessageConns
  <2>2. QED
    BY <1>1, <1>3, <2>1, ConnFacts DEF ToldOf
<1>6. ASSUME NEW q \in Phone, toHost'[q] = toHost[q] \/ toHost'[q] = <<>> PROVE ToldOf(q)'
  <2>1. CASE toHost'[q] = toHost[q]
    BY <1>2, <1>5, <2>1 DEF ToldOf, GrantsGrow
  <2>2. CASE toHost'[q] = <<>>
    BY <2>2 DEF ToldOf
  <2>3. QED
    BY <1>6, <2>1, <2>2
<1>7. CASE toHost' = toHost
  BY <1>6, <1>7
<1>8. CASE \A q \in Phone : toHost'[q] = <<>>
  BY <1>6, <1>8
<1>9. ASSUME NEW p \in Phone, Connect(p) PROVE \A q \in Phone : ToldOf(q)'
  <2>1. creds[p].conn \in Conn
    <3>1. creds[p] # Nothing
      BY <1>1, <1>9 DEF DeviceOf, Connect, Connecting, Nothing
    <3>2. QED
      BY <1>4, <3>1, ConnFacts
  <2>2. creds[p].conn <= grant[p].conn
    BY <1>1 DEF DeviceOf
  <2>3. CASE socket[p] = creds[p]
    <3>1. Say(p, <<>>)
      BY <1>9, <2>3 DEF Connect
    <3>2. QED
      BY <1>1, <1>7, <3>1, SayNothing
  <2>4. CASE socket[p] # creds[p]
    <3>1. /\ Say(p, Greeting(p)) /\ Greeting(p) \in Seq(Message)
          /\ \A i \in 1 .. Len(Greeting(p)) : Greeting(p)[i].conn <= grant[p].conn
      BY <1>9, <2>1, <2>2, <2>4, GreetingIs DEF Connect
    <3>2. QED
      BY <1>1, <1>2, <1>3, <3>1, SayTold
  <2>5. QED
    BY <2>3, <2>4
<1>10. ASSUME NEW p \in Phone, NEW k \in {"resync_request", "connection_status", "client_command"},
              NEW t \in {creds[p], socket[p]}, t # Nothing, Say(p, <<Said(k, t.conn)>>)
       PROVE  \A q \in Phone : ToldOf(q)'
  <2>1. t.conn \in Conn /\ t.conn <= grant[p].conn
    BY <1>1, <1>4, <1>10, ConnFacts DEF DeviceOf
  <2>2. Said(k, t.conn) \in Message /\ Said(k, t.conn).conn = t.conn
    BY <2>1, SaidIs
  <2> DEFINE s == <<Said(k, t.conn)>>
  <2>3. s \in Seq(Message) /\ \A i \in 1 .. Len(s) : s[i].conn <= grant[p].conn
    BY <2>1, <2>2
  <2>4. QED
    BY <1>1, <1>2, <1>3, <1>10, <2>3, SayTold
<1>11. ASSUME NEW p \in Phone, SendCommand(p) \/ MeetGap(p) PROVE \A q \in Phone : ToldOf(q)'
  <2>1. creds[p] # Nothing
    BY <1>1, <1>11 DEF DeviceOf, SendCommand, MeetGap, Receiving
  <2>2. \/ toHost' = toHost
        \/ \E k \in {"resync_request", "client_command"} : Say(p, <<Said(k, creds[p].conn)>>)
    BY <1>11 DEF SendCommand, MeetGap
  <2>3. QED
    BY <1>7, <1>10, <2>1, <2>2
<1>12. ASSUME NEW p \in Phone, Receive(p) PROVE \A q \in Phone : ToldOf(q)'
  <2>1. creds[p] # Nothing
    BY <1>1, <1>12 DEF DeviceOf, Receive, Receiving
  <2>2. \/ toHost' = toHost
        \/ Say(p, <<Said("resync_request", creds[p].conn)>>)
    BY <1>12, ReceiveIs
  <2>3. QED
    BY <1>7, <1>10, <2>1, <2>2
<1>13. ASSUME NEW p \in Phone, Refresh(p) \/ RelayNotices(p) PROVE \A q \in Phone : ToldOf(q)'
  <2>1. \/ toHost' = toHost \/ Say(p, <<>>)
        \/ socket[p].role = "approved" /\ Say(p, <<Said("connection_status", socket[p].conn)>>)
    BY <1>13 DEF Refresh, Closed, RelayNotices
  <2>2. socket[p].role = "approved" => socket[p] # Nothing
    BY DEF Nothing
  <2>3. CASE Say(p, <<>>)
    BY <1>1, <1>7, <2>3, SayNothing
  <2>4. QED
    BY <1>7, <1>10, <2>1, <2>2, <2>3
<1>14. ASSUME NEW p \in Phone, Handle(p) PROVE \A q \in Phone : ToldOf(q)'
  <2>1. \E k \in {"join", "hello", "connection_status", "resync_request", "client_command"} : Heard(p, k)
    BY <1>14 DEF Handle, HandleJoin, HandlePresence, HandleResync, HandleCommand
  <2>2. /\ \A q \in Phone : q # p => toHost'[q] = toHost[q]
        /\ Len(toHost[p]) \in Nat /\ Len(toHost'[p]) = Len(toHost[p]) - 1
        /\ \A i \in 1 .. Len(toHost'[p]) : toHost'[p][i] = toHost[p][i + 1]
    BY <1>1, <2>1, HeardIs
  <2>3. \A i \in 1 .. Len(toHost'[p]) : i + 1 \in 1 .. Len(toHost[p])
    BY <2>2
  <2>4. ToldOf(p)'
    <3>1. ASSUME NEW i \in 1 .. Len(toHost'[p]) PROVE toHost'[p][i].conn <= grant'[p].conn
      <4>1. toHost[p][i + 1].conn \in Nat /\ toHost[p][i + 1].conn <= grant[p].conn
        BY <1>5, <2>3
      <4>2. toHost'[p][i].conn = toHost[p][i + 1].conn
        BY <2>2
      <4>3. grant[p].conn <= grant'[p].conn /\ grant[p].conn \in Nat /\ grant'[p].conn \in Nat
        BY <1>2 DEF GrantsGrow
      <4>4. QED
        BY <4>1, <4>2, <4>3
    <3>2. QED
      BY <3>1 DEF ToldOf
  <2>5. QED
    BY <1>6, <2>2, <2>4
<1>15. ASSUME \/ \E p \in Phone : GrantFails(p)
              \/ HostBreak \/ HostRestart
       PROVE  \A q \in Phone : ToldOf(q)'
  BY <1>8, <1>15 DEF GrantFails, HostBreak, HostRestart, CutHost
<1>16. ASSUME \/ \E p \in Phone : \/ Join(p) \/ Refused(p) \/ Approve(p) \/ Grant(p) \/ Break(p)
                                  \/ TurnOff(p) \/ Reload(p) \/ PhoneNotices(p)
              \/ Timer \/ HostConnect \/ HostNotices \/ RelayDropsHost \/ UNCHANGED vars
       PROVE  \A q \in Phone : ToldOf(q)'
  BY <1>7, <1>16 DEF Join, Refused, Approve, Grant, Break, TurnOff, Reload, PhoneNotices, Timer,
     HostConnect, HostNotices, RelayDropsHost, vars
<1>17. QED
  BY <1>9, <1>11, <1>12, <1>13, <1>14, <1>15, <1>16 DEF Next

LEMMA StayKnown ==
  ASSUME IInv, [Next]_vars
  PROVE  Known'
<1>1. /\ TypeOK /\ TypeOK' /\ ToHostType /\ KnownTypes /\ PhoneTypes
      /\ \A q \in Phone : DeviceOf(q) /\ KnownOf(q)
  BY StaysTyped, TypeParts DEF IInv, Devices, Known
<1>2. /\ GrantsGrow
      /\ \A q \in Phone : /\ grant'[q] \in Token /\ grant[q] \in Token
                          /\ grant[q].conn \in Nat /\ grant'[q].conn \in Nat
      /\ \A q \in Phone : grant[q].role = "pending" /\ grant'[q] # grant[q] =>
           awaited[q] # NoConn /\ awaited'[q] = NoConn
  BY GrantMoves
<1>3. \A q \in Phone : ToldOf(q)'
  BY StayTold
<1>4. \A q \in Phone : connOf[q] \in Nat /\ (awaited[q] # NoConn => awaited[q] \in Conn)
  BY <1>1, ConnFacts DEF KnownTypes, NoConn
<1>5. \A q \in Phone : q \in asked' => grant'[q] # Nothing
  <2>1. CASE asked' = asked
    BY <1>1, <1>2, <2>1 DEF KnownOf, GrantsGrow
  <2>2. ASSUME NEW p \in Phone, HandleJoin(p) PROVE \A q \in Phone : q \in asked' => grant'[q] # Nothing
    <3>1. /\ asked' = asked \cup {p} /\ toHost[p][1].conn \in Conn /\ Len(toHost[p]) >= 1
          /\ Len(toHost[p]) \in Nat
      BY <1>1, <2>2, JoinPushes, HeardIs
    <3>2. toHost[p][1].conn <= grant[p].conn
      BY <1>1, <3>1 DEF KnownOf
    <3>3. Nothing.conn = 0 /\ toHost[p][1].conn >= 1
      BY <3>1, ConnFacts DEF NoConn
    <3>4. grant[p] # Nothing
      BY <1>2, <3>1, <3>2, <3>3, ConnFacts
    <3>5. QED
      BY <1>1, <1>2, <3>1, <3>4 DEF KnownOf, GrantsGrow
  <2>3. \/ asked' = asked
        \/ \E p \in Phone : HandleJoin(p)
    BY ZenonT(40) DEF Next, Join, Connect, Refused, Refresh, SendCommand, MeetGap, Receive, Handle,
       HandlePresence, HandleResync, HandleCommand, Approve, Grant, GrantFails, Break, TurnOff,
       Reload, PhoneNotices, RelayNotices, Timer, HostConnect, HostBreak, HostNotices,
       RelayDropsHost, HostRestart, vars, room
  <2>4. QED
    BY <2>1, <2>2, <2>3
<1>6. \A q \in Phone : connOf'[q] <= grant'[q].conn
  <2>1. CASE connOf' = connOf
    BY <1>1, <1>2, <1>4, <2>1 DEF KnownOf, GrantsGrow
  <2>2. ASSUME NEW p \in Phone, Handle(p) PROVE \A q \in Phone : connOf'[q] <= grant'[q].conn
    <3>1. \E k \in {"join", "hello", "connection_status", "resync_request", "client_command"} : Heard(p, k)
      BY <2>2 DEF Handle, HandleJoin, HandlePresence, HandleResync, HandleCommand
    <3>2. /\ \A q \in Phone : q # p => connOf'[q] = connOf[q]
          /\ connOf'[p] = toHost[p][1].conn /\ toHost[p][1].conn \in Conn
          /\ Len(toHost[p]) \in Nat /\ Len(toHost[p]) >= 1
      BY <1>1, <3>1, HeardIs
    <3>3. toHost[p][1].conn <= grant[p].conn
      BY <1>1, <3>2 DEF KnownOf
    <3>4. connOf'[p] <= grant'[p].conn
      BY <1>2, <3>2, <3>3, ConnFacts DEF GrantsGrow
    <3>5. \A q \in Phone : q # p => connOf'[q] <= grant'[q].conn
      BY <1>1, <1>2, <1>4, <3>2 DEF KnownOf, GrantsGrow
    <3>6. QED
      BY <3>4, <3>5
  <2>3. CASE HostRestart
    BY <1>2, <2>3 DEF HostRestart, NoConn
  <2>4. \/ connOf' = connOf
        \/ \E p \in Phone : Handle(p)
        \/ HostRestart
    BY ZenonT(40) DEF Next, Join, Connect, Refused, Refresh, SendCommand, MeetGap, Receive,
       Approve, Grant, GrantFails, Break, TurnOff,
       Reload, PhoneNotices, RelayNotices, Timer, HostConnect, HostBreak, HostNotices,
       RelayDropsHost, vars, appliance
  <2>5. QED
    BY <2>1, <2>2, <2>3, <2>4
<1>7. ASSUME NEW q \in Phone, awaited'[q] # NoConn
      PROVE  grant'[q] = Pending(awaited'[q]) /\ q \in approved'
  <2>1. approved \subseteq approved'
    BY ZenonT(40) DEF Next, Join, Connect, Refused, Refresh, SendCommand, MeetGap, Receive, Handle, HandleJoin,
       HandlePresence, HandleResync, HandleCommand, Approve, Grant, GrantFails, Break, TurnOff,
       Reload, PhoneNotices, RelayNotices, Timer, HostConnect, HostBreak, HostNotices,
       RelayDropsHost, HostRestart, vars, room
  <2>2. CASE awaited'[q] = awaited[q]
    <3>1. /\ grant[q] = Pending(awaited[q]) /\ q \in approved /\ awaited[q] \in Conn
      BY <1>1, <1>4, <1>7, <2>2 DEF KnownOf
    <3>2. grant[q].role = "pending"
      BY <3>1, ConnFacts
    <3>3. grant'[q] = grant[q]
      BY <1>2, <1>7, <3>2
    <3>4. QED
      BY <2>1, <2>2, <3>1, <3>3
  <2>3. ASSUME NEW p \in Phone, Approve(p), awaited'[q] # awaited[q]
        PROVE  grant'[q] = Pending(awaited'[q]) /\ q \in approved'
    <3>1. /\ p \in asked \ approved /\ approved' = approved \cup {p} /\ grant' = grant
          /\ awaited' = [awaited EXCEPT ![p] = connOf[p]]
      BY <1>1, <2>3, ApprovePushes
    <3>2. q = p /\ awaited'[q] = connOf[p]
      BY <1>1, <2>3, <3>1 DEF KnownTypes
    <3>3. /\ grant[p] # Nothing /\ grant[p].role # "approved" /\ connOf[p] <= grant[p].conn
      BY <1>1, <3>1 DEF KnownOf, DeviceOf
    <3>4. grant[p] = Pending(1)
      BY <1>1, <1>2, <3>3, ConnFacts DEF DeviceOf
    <3>5. connOf[p] = 1
      BY <1>4, <1>7, <3>2, <3>3, <3>4, ConnFacts DEF NoConn
    <3>6. QED
      BY <3>1, <3>2, <3>4, <3>5
  <2>4. \/ awaited'[q] = awaited[q] \/ awaited'[q] = NoConn
        \/ \E p \in Phone : Approve(p)
    <3>1. CASE awaited' = awaited
      BY <3>1
    <3>2. ASSUME NEW p \in Phone, Grant(p) \/ GrantFails(p)
          PROVE  awaited'[q] = awaited[q] \/ awaited'[q] = NoConn
      BY <1>1, <3>2 DEF Grant, GrantFails, KnownTypes
    <3>3. CASE HostRestart
      BY <3>3 DEF HostRestart
    <3>4. \/ awaited' = awaited
          \/ \E p \in Phone : Approve(p) \/ Grant(p) \/ GrantFails(p)
          \/ HostRestart
      BY ZenonT(40) DEF Next, Join, Connect, Refused, Refresh, SendCommand, MeetGap, Receive, Handle, HandleJoin,
         HandlePresence, HandleResync, HandleCommand, Break, TurnOff,
         Reload, PhoneNotices, RelayNotices, Timer, HostConnect, HostBreak, HostNotices,
         RelayDropsHost, vars, appliance
    <3>5. QED
      BY <3>1, <3>2, <3>3, <3>4
  <2>5. QED
    BY <1>7, <2>2, <2>3, <2>4
<1>8. ASSUME NEW q \in Phone, awaited'[q] # NoConn PROVE connOf'[q] # NoConn
  <2>1. awaited[q] # NoConn => connOf[q] # NoConn
    BY <1>1 DEF KnownOf
  <2>2. CASE awaited' = awaited /\ connOf' = connOf
    BY <1>8, <2>1, <2>2
  <2>3. ASSUME NEW p \in Phone, Handle(p) PROVE connOf'[q] # NoConn
    <3>1. \E k \in {"join", "hello", "connection_status", "resync_request", "client_command"} : Heard(p, k)
      BY <2>3 DEF Handle, HandleJoin, HandlePresence, HandleResync, HandleCommand
    <3>2. /\ q # p => connOf'[q] = connOf[q]
          /\ connOf'[p] \in Conn
      BY <1>1, <3>1, HeardIs
    <3>3. awaited' = awaited
      BY <2>3 DEF Handle, HandleJoin, HandlePresence, HandleResync, HandleCommand
    <3>4. QED
      BY <1>8, <2>1, <3>2, <3>3, ConnFacts
  <2>4. ASSUME NEW p \in Phone, Approve(p) PROVE connOf'[q] # NoConn
    <3>1. connOf' = connOf /\ awaited' = [awaited EXCEPT ![p] = connOf[p]]
      BY <2>4 DEF Approve
    <3>2. QED
      BY <1>1, <1>8, <2>1, <3>1 DEF KnownTypes
  <2>5. ASSUME NEW p \in Phone, Grant(p) \/ GrantFails(p) PROVE connOf'[q] # NoConn
    <3>1. connOf' = connOf /\ awaited' = [awaited EXCEPT ![p] = NoConn]
      BY <2>5 DEF Grant, GrantFails
    <3>2. QED
      BY <1>1, <1>8, <2>1, <3>1 DEF KnownTypes
  <2>6. CASE HostRestart
    BY <1>8, <2>6 DEF HostRestart
  <2>7. \/ awaited' = awaited /\ connOf' = connOf
        \/ \E p \in Phone : Handle(p) \/ Approve(p) \/ Grant(p) \/ GrantFails(p)
        \/ HostRestart
    BY ZenonT(40) DEF Next, Join, Connect, Refused, Refresh, SendCommand, MeetGap, Receive, Break, TurnOff,
       Reload, PhoneNotices, RelayNotices, Timer, HostConnect, HostBreak, HostNotices,
       RelayDropsHost, vars, appliance
  <2>8. QED
    BY <2>2, <2>3, <2>4, <2>5, <2>6, <2>7
<1>9. QED
  BY <1>3, <1>5, <1>6, <1>7, <1>8 DEF Known, KnownOf, ToldOf

\* The frames on their way to a phone, after a step.
SameWay(q) ==
  \/ toPhone'[q] = <<>>
  \/ \A i \in 1 .. Len(toPhone'[q]) :
       \E j \in 1 .. Len(toPhone[q]) : toPhone'[q][i] = toPhone[q][j]

LEMMA PushApprovals ==
  ASSUME TypeOK, NEW first, NEW to, NEW forced, Pushing(first, to, forced), NEW q \in Phone,
         live'[q] = live[q], creds'[q] = creds[q],
         grant[q].role = "approved" => grant'[q].role = "approved", ApprovalsOf(q),
         first[q] = <<Approval>> =>
           grant'[q].role = "approved" /\ (live[q] => creds[q].role = "pending")
  PROVE  ApprovalsOf(q)'
<1>1. Pushed(q, first[q], to, forced) /\ Numbers /\ Numbers'
  BY PushIs, TypeParts
<1>2. ASSUME NEW i \in 1 .. Len(toPhone'[q]), toPhone'[q][i].body = Approval
      PROVE  /\ grant'[q].role = "approved"
             /\ live'[q] => creds'[q].role = "pending"
  <2>1. Len(toPhone[q]) \in Nat /\ Len(toPhone'[q]) \in Nat
    BY <1>1, LenProperties DEF Numbers
  <2>2. CASE i <= Len(toPhone[q])
    <3>1. i \in 1 .. Len(toPhone[q]) /\ toPhone'[q][i] = toPhone[q][i]
      BY <1>1, <2>1, <2>2 DEF Pushed, Extended
    <3>2. QED
      BY <1>2, <3>1 DEF ApprovalsOf
  <2>3. CASE ~(i <= Len(toPhone[q]))
    <3>1. i \in New(q)
      BY <2>1, <2>3 DEF New
    <3>2. first[q] = <<Approval>>
      BY <1>1, <1>2, <3>1 DEF Pushed, Carried
    <3>3. QED
      BY <3>2
  <2>4. QED
    BY <2>2, <2>3
<1>3. QED
  BY <1>2 DEF ApprovalsOf

LEMMA StayApprovals ==
  ASSUME IInv, [Next]_vars
  PROVE  Approvals'
<1>1. /\ TypeOK /\ TypeOK' /\ Numbers /\ KnownTypes /\ PhoneTypes
      /\ \A q \in Phone : DeviceOf(q) /\ KnownOf(q) /\ ApprovalsOf(q)
  BY StaysTyped, TypeParts DEF IInv, Devices, Known, Approvals
<1>2. \A q \in Phone : grant[q].role = "approved" => grant'[q].role = "approved"
  BY GrantMoves DEF GrantsGrow
<1>3. <<Result>> # <<Approval>> /\ <<>> # <<Approval>>
  BY BodyFacts
<1>4. ASSUME NEW q \in Phone, toPhone'[q] = <<>> PROVE ApprovalsOf(q)'
  BY <1>4 DEF ApprovalsOf
<1>5. ASSUME NEW q \in Phone, live'[q] => live[q] /\ creds'[q] = creds[q], SameWay(q)
      PROVE  ApprovalsOf(q)'
  BY <1>1, <1>2, <1>5, <1>4 DEF ApprovalsOf, SameWay
<1>6. ASSUME NEW q \in Phone, live'[q] = live[q], creds'[q] = creds[q], toPhone'[q] = toPhone[q]
      PROVE  ApprovalsOf(q)'
  BY <1>1, <1>2, <1>6 DEF ApprovalsOf
<1>7. ASSUME NEW first, NEW to, NEW forced, Pushing(first, to, forced), Undisturbed,
             \A q \in Phone : first[q] # <<Approval>>
      PROVE  Approvals'
  <2>1. live' = live /\ creds' = creds
    BY <1>7 DEF Undisturbed, phone
  <2>2. QED
    BY <1>1, <1>2, <1>7, <2>1, PushApprovals DEF Approvals
<1>8. ASSUME toPhone' = toPhone, live' = live, creds' = creds PROVE Approvals'
  BY <1>6, <1>8 DEF Approvals
<1>9. /\ \A q \in Phone : Silence[q] # <<Approval>>
      /\ \A p \in Phone : \A q \in Phone : Only(p, Result)[q] # <<Approval>>
  BY <1>3, FirstIs
<1>10. ASSUME NEW p \in Phone, Handle(p) PROVE Approvals'
  <2>1. /\ Undisturbed
        /\ \/ \E to : \E b \in BOOLEAN : Pushing(Silence, to, b) \/ Pushing(Only(p, Result), to, b)
    BY <1>1, <1>10, JoinPushes, PresencePushes, ResyncPushes, CommandPushes DEF Handle
  <2>2. QED
    BY <1>7, <1>9, <2>1
<1>11. ASSUME \/ \E p \in Phone : Approve(p)
              \/ Timer
       PROVE  Approvals'
  <2>1. /\ Undisturbed
        /\ \/ \E to : Pushing(Silence, to, FALSE)
           \/ Silent
    BY <1>1, <1>11, ApprovePushes, TimerPushes
  <2>2. CASE Silent
    BY <1>8, <2>1, <2>2 DEF Undisturbed, Silent, phone
  <2>3. QED
    BY <1>7, <1>9, <2>1, <2>2
<1>12. ASSUME NEW p \in Phone, Grant(p) PROVE Approvals'
  <2>1. /\ Pushing(Only(p, Approval), approved, FALSE) /\ Undisturbed
        /\ awaited[p] # NoConn /\ grant[p] = Pending(awaited[p])
        /\ grant' = [grant EXCEPT ![p] = Approved(awaited[p])]
    BY <1>1, <1>12, GrantPushes
  <2>2. live' = live /\ creds' = creds
    BY <2>1 DEF Undisturbed, phone
  <2>3. awaited[p] \in Conn
    BY <1>1, <2>1 DEF KnownTypes
  <2>4. grant'[p].role = "approved" /\ grant[p] # Nothing /\ grant[p].role = "pending"
    <3>1. grant'[p] = Approved(awaited[p])
      BY <1>1, <2>1 DEF PhoneTypes
    <3>2. QED
      BY <2>1, <2>3, <3>1, ConnFacts
  <2>5. creds[p].role = "pending"
    <3>1. creds[p].role # "approved" /\ creds[p] # Nothing /\ creds[p] \in Token
      BY <1>1, <2>4 DEF DeviceOf, PhoneTypes
    <3>2. QED
      BY <3>1, ConnFacts
  <2>6. ASSUME NEW q \in Phone PROVE ApprovalsOf(q)'
    <3>1. Only(p, Approval)[q] = <<Approval>> => q = p
      BY <1>3, FirstIs
    <3>2. QED
      BY <1>1, <1>2, <2>1, <2>2, <2>4, <2>5, <3>1, PushApprovals
  <2>7. QED
    BY <2>6 DEF Approvals
<1>13. ASSUME NEW p \in Phone, Receive(p) \/ MeetGap(p) PROVE Approvals'
  <2>1. /\ toPhone[p] # <<>> /\ toPhone' = [toPhone EXCEPT ![p] = Tail(@)]
        /\ \/ live' = live /\ creds' = creds
           \/ live' = [live EXCEPT ![p] = FALSE] /\ creds' = [creds EXCEPT ![p] = Approved(creds[p].conn)]
    <3>1. CASE Receive(p)
      BY <3>1, ReceiveIs
    <3>2. CASE MeetGap(p)
      BY <3>2 DEF MeetGap, Receiving, phone
    <3>3. QED
      BY <1>13, <3>1, <3>2
  <2>2. \A q \in Phone : q # p => ApprovalsOf(q)'
    BY <1>1, <1>6, <2>1 DEF Numbers, PhoneTypes
  <2>3. ApprovalsOf(p)'
    <3>1. /\ toPhone'[p] = Tail(toPhone[p])
          /\ live'[p] => live[p] /\ creds'[p] = creds[p]
      BY <1>1, <2>1 DEF Numbers, PhoneTypes
    <3>2. \A i \in 1 .. Len(toPhone'[p]) :
            i + 1 \in 1 .. Len(toPhone[p]) /\ toPhone'[p][i] = toPhone[p][i + 1]
      BY <1>1, <2>1, TailIs
    <3>3. SameWay(p)
      BY <3>2 DEF SameWay
    <3>4. QED
      BY <1>5, <3>1, <3>3
  <2>4. QED
    BY <2>2, <2>3 DEF Approvals
<1>14. ASSUME NEW p \in Phone, Connect(p) \/ Refresh(p) \/ Break(p) \/ TurnOff(p) PROVE Approvals'
  <2>1. /\ toPhone'[p] = <<>>
        /\ \A q \in Phone : q # p =>
             toPhone'[q] = toPhone[q] /\ live'[q] = live[q] /\ creds'[q] = creds[q]
    BY <1>1, <1>14 DEF Connect, Refresh, Closed, Break, TurnOff, Numbers, PhoneTypes, phone
  <2>2. QED
    BY <1>4, <1>6, <2>1 DEF Approvals
<1>15. ASSUME NEW p \in Phone, Join(p) PROVE Approvals'
  <2>1. /\ toPhone' = toPhone /\ live' = live
        /\ \A q \in Phone : q # p => creds'[q] = creds[q]
    BY <1>1, <1>15 DEF Join, PhoneTypes
  <2>2. ~live[p]
    BY <1>1, <1>15 DEF Join, DeviceOf
  <2>3. ApprovalsOf(p)'
    BY <1>1, <1>2, <2>1, <2>2 DEF ApprovalsOf
  <2>4. QED
    BY <1>6, <2>1, <2>3 DEF Approvals
<1>16. ASSUME \/ \E p \in Phone : \/ Refused(p) \/ SendCommand(p) \/ GrantFails(p) \/ Reload(p)
                                  \/ PhoneNotices(p) \/ RelayNotices(p)
              \/ HostConnect \/ HostBreak \/ HostNotices \/ RelayDropsHost \/ HostRestart
              \/ UNCHANGED vars
       PROVE  Approvals'
  <2>1. toPhone' = toPhone /\ live' = live /\ creds' = creds
    BY <1>16 DEF Refused, SendCommand, GrantFails, Reload, PhoneNotices, RelayNotices, HostConnect,
       HostBreak, HostNotices, RelayDropsHost, HostRestart, phone, vars
  <2>2. QED
    BY <1>8, <2>1
<1>17. QED
  BY <1>10, <1>11, <1>12, <1>13, <1>14, <1>15, <1>16 DEF Next

-----------------------------------------------------------------------------
(* Views stay in order *)

LEMMA FrameFacts ==
  ASSUME Numbers, NEW q \in Phone
  PROVE  /\ toPhone[q] \in Seq(Frame) /\ Len(toPhone[q]) \in Nat
         /\ \A i \in 1 .. Len(toPhone[q]) :
              /\ toPhone[q][i] \in Frame /\ toPhone[q][i].seq \in Nat /\ toPhone[q][i].body \in Body
              /\ IsView(toPhone[q][i].body) => toPhone[q][i].body.view \in 1 .. MaxView
              /\ toPhone[q][i].body \notin {Result, Approval} => IsView(toPhone[q][i].body)
<1>1. toPhone[q] \in Seq(Frame) /\ Len(toPhone[q]) \in Nat
  BY LenProperties DEF Numbers
<1>2. ASSUME NEW i \in 1 .. Len(toPhone[q])
      PROVE  /\ toPhone[q][i] \in Frame /\ toPhone[q][i].seq \in Nat /\ toPhone[q][i].body \in Body
             /\ IsView(toPhone[q][i].body) => toPhone[q][i].body.view \in 1 .. MaxView
             /\ toPhone[q][i].body \notin {Result, Approval} => IsView(toPhone[q][i].body)
  <2>1. toPhone[q][i] \in Frame
    BY <1>1, ElementOfSeq
  <2>2. toPhone[q][i].seq \in Nat /\ toPhone[q][i].body \in Body
    BY <2>1 DEF Frame
  <2>3. \A b \in Body : /\ IsView(b) => b.view \in 1 .. MaxView
                        /\ b \notin {Result, Approval} => IsView(b)
    BY BodyIs, BodyFacts DEF IsView
  <2>4. QED
    BY <2>1, <2>2, <2>3
<1>3. QED
  BY <1>1, <1>2

\* Where a frame of the extended way comes from.
LEMMA FrameComes ==
  ASSUME Numbers, Numbers', NEW q \in Phone, Extended(q), NEW i \in 1 .. Len(toPhone'[q])
  PROVE  \/ i \in 1 .. Len(toPhone[q]) /\ toPhone'[q][i] = toPhone[q][i]
         \/ i \in New(q) /\ i > Len(toPhone[q])
<1>1. Len(toPhone[q]) \in Nat /\ Len(toPhone'[q]) \in Nat
  BY FrameFacts, LenProperties DEF Numbers
<1>2. CASE i <= Len(toPhone[q])
  <2>1. i \in 1 .. Len(toPhone[q])
    BY <1>1, <1>2
  <2>2. QED
    BY <2>1 DEF Extended
<1>3. CASE ~(i <= Len(toPhone[q]))
  BY <1>1, <1>3 DEF New
<1>4. QED
  BY <1>2, <1>3

LEMMA PushAhead ==
  ASSUME TypeOK, TypeOK', NEW first, NEW to, NEW forced, Pushing(first, to, forced), NEW q \in Phone,
         screen' = screen, AheadOf(q)
  PROVE  AheadOf(q)'
<1> DEFINE l == Len(toPhone[q])
           s == toPhone[q]
           t == toPhone'[q]
           c == cursor[q]
           d == cursor'[q]
           x == screen[q]
<1>1. /\ Extended(q) /\ Carried(q, first[q], to)
      /\ d = IF q \in to /\ connOf'[q] # NoConn THEN view' ELSE c
      /\ Numbers /\ Numbers'
  BY PushIs, TypeParts DEF Pushed
<1>2. /\ view \in Nat /\ view' \in Nat /\ view <= view' /\ view' >= 1
      /\ c \in 0 .. view /\ x \in 0 .. view /\ d \in 0 .. view' /\ screen'[q] = x
  BY DEF TypeOK, Pushing
<1>3. \A i \in 1 .. l : IsView(s[i].body) =>
        /\ s[i].body.view \in Nat /\ x <= s[i].body.view
        /\ s[i].body.view <= view
        /\ c # 0 => s[i].body.view <= c
  BY <1>1, FrameFacts DEF AheadOf
<1>4. \A i, j \in 1 .. l : i < j /\ IsView(s[i].body) /\ IsView(s[j].body) => s[i].body.view <= s[j].body.view
  BY DEF AheadOf
<1>5. c # 0 => x <= c
  BY DEF AheadOf
<1>6. \A i \in New(q) : IsView(t[i].body) =>
        /\ t[i].body.view \in Nat /\ c <= t[i].body.view /\ t[i].body.view <= view'
        /\ c = 0 => t[i].body.view = view'
        /\ d = view'
  <2>1. \A i \in New(q) : IsView(t[i].body) =>
          /\ q \in to /\ t[i].body.view \in 1 .. view' /\ c <= t[i].body.view
          /\ c = 0 => t[i].body.view = view'
    BY <1>1 DEF Carried
  <2>2. New(q) # {} => connOf'[q] # NoConn
    BY <1>1 DEF Extended
  <2>3. \A n \in 1 .. view' : n \in Nat /\ n <= view'
    BY <1>2
  <2> HIDE DEF c, d, t
  <2>4. ASSUME NEW i \in New(q), IsView(t[i].body)
        PROVE  /\ t[i].body.view \in Nat /\ c <= t[i].body.view /\ t[i].body.view <= view'
               /\ c = 0 => t[i].body.view = view'
               /\ d = view'
    BY <1>1, <2>1, <2>2, <2>3, <2>4
  <2>5. QED
    BY <2>4
<1>7. \A i, j \in New(q) : i < j /\ IsView(t[i].body) /\ IsView(t[j].body) => t[i].body.view < t[j].body.view
  BY <1>1 DEF Carried
<1>8. \A i \in 1 .. Len(t) : \/ i \in 1 .. l /\ t[i] = s[i]
                             \/ i \in New(q) /\ i > l
  BY <1>1, FrameComes
<1>9. /\ d = c \/ d = view'
      /\ l \in Nat /\ Len(t) \in Nat
  BY <1>1, LenProperties DEF Numbers
<1> HIDE DEF l, s, t, c, d, x
<1>10. d # 0 => x <= d
  BY <1>2, <1>5, <1>9
<1>11. ASSUME NEW i \in 1 .. Len(t), IsView(t[i].body)
       PROVE  /\ t[i].body.view \in Nat /\ x <= t[i].body.view
              /\ t[i].body.view <= view'
              /\ d # 0 => t[i].body.view <= d
  <2>1. CASE i \in 1 .. l /\ t[i] = s[i]
    <3>1. /\ t[i].body.view \in Nat /\ x <= t[i].body.view
          /\ t[i].body.view <= view
          /\ c # 0 => t[i].body.view <= c
      BY <1>3, <1>11, <2>1
    <3>2. QED
      BY <1>2, <1>9, <3>1
  <2>2. CASE i \in New(q)
    <3>1. /\ t[i].body.view \in Nat /\ c <= t[i].body.view /\ t[i].body.view <= view'
          /\ c = 0 => t[i].body.view = view'
          /\ d = view'
      BY <1>6, <1>11, <2>2
    <3>2. QED
      BY <1>2, <1>5, <3>1
  <2>3. QED
    BY <1>8, <2>1, <2>2
<1>12. ASSUME NEW i \in 1 .. Len(t), NEW j \in 1 .. Len(t), i < j, IsView(t[i].body), IsView(t[j].body)
       PROVE  t[i].body.view <= t[j].body.view
  <2>0. t[i].body.view \in Nat /\ t[j].body.view \in Nat /\ t[i].body.view <= view'
    BY <1>11, <1>12
  <2>1. CASE j \in 1 .. l /\ t[j] = s[j]
    <3>1. i \in 1 .. l
      BY <1>9, <1>12, <2>1
    <3>2. t[i] = s[i] \/ i > l
      BY <1>8
    <3>3. t[i] = s[i]
      BY <1>9, <3>1, <3>2
    <3>4. QED
      BY <1>4, <1>12, <2>1, <3>1, <3>3
  <2>2. CASE j \in New(q) /\ i \in New(q)
    BY <1>7, <1>12, <2>0, <2>2
  <2>3. CASE j \in New(q) /\ i \in 1 .. l /\ t[i] = s[i]
    <3>1. /\ c <= t[j].body.view
          /\ c = 0 => t[j].body.view = view'
      BY <1>6, <1>12, <2>3
    <3>2. /\ t[i].body.view <= view
          /\ c # 0 => t[i].body.view <= c
      BY <1>3, <1>12, <2>3
    <3>3. QED
      BY <1>2, <2>0, <3>1, <3>2
  <2>4. QED
    BY <1>8, <2>1, <2>2, <2>3
<1>13. QED
  BY <1>2, <1>10, <1>11, <1>12 DEF AheadOf, t, d, x

LEMMA StayAhead ==
  ASSUME IInv, [Next]_vars
  PROVE  /\ Ahead'
         /\ \A q \in Phone : screen'[q] >= screen[q] \/ screen'[q] = 0
<1>1. /\ TypeOK /\ TypeOK' /\ Numbers /\ Numbers' /\ RoomTypes
      /\ \A q \in Phone : AheadOf(q)
  BY StaysTyped, TypeParts, TypePartsPrime DEF IInv, Ahead
<1>2. \A q \in Phone : cursor[q] \in Nat /\ screen[q] \in Nat /\ screen'[q] \in Nat /\ view \in Nat /\ view' \in Nat
  BY <1>1 DEF TypeOK
<1>3. ASSUME NEW q \in Phone, cursor'[q] \in {cursor[q], 0}, screen'[q] \in {screen[q], 0}, view' >= view,
             toPhone'[q] = toPhone[q] \/ toPhone'[q] = <<>>
      PROVE  AheadOf(q)'
  <2>1. CASE toPhone'[q] = <<>>
    BY <1>1, <1>2, <1>3, <2>1 DEF AheadOf
  <2>2. CASE toPhone'[q] = toPhone[q]
    <3> DEFINE c == cursor[q]
               x == screen[q]
               y == screen'[q]
               d == cursor'[q]
    <3>1. \A i \in 1 .. Len(toPhone[q]) : IsView(toPhone[q][i].body) =>
            /\ toPhone[q][i].body.view \in Nat /\ x <= toPhone[q][i].body.view
            /\ toPhone[q][i].body.view <= view
            /\ c # 0 => toPhone[q][i].body.view <= c
      BY <1>1, FrameFacts DEF AheadOf
    <3>2. /\ c # 0 => x <= c
          /\ \A i, j \in 1 .. Len(toPhone[q]) :
               i < j /\ IsView(toPhone[q][i].body) /\ IsView(toPhone[q][j].body) =>
                 toPhone[q][i].body.view <= toPhone[q][j].body.view
      BY <1>1 DEF AheadOf
    <3>3. c \in Nat /\ x \in Nat /\ d \in {c, 0} /\ y \in {x, 0} /\ view \in Nat /\ view' \in Nat /\ view <= view'
      BY <1>2, <1>3
    <3> HIDE DEF c, x, y, d
    <3>4. \A n \in Nat : /\ x <= n => y <= n
                         /\ n <= view => n <= view'
      BY <3>3
    <3>5. d # 0 => d = c /\ c # 0 /\ y <= c
      BY <3>2, <3>3
    <3>6. \A i \in 1 .. Len(toPhone[q]) : IsView(toPhone[q][i].body) =>
            /\ y <= toPhone[q][i].body.view /\ toPhone[q][i].body.view <= view'
            /\ d # 0 => toPhone[q][i].body.view <= d
      BY <3>1, <3>4, <3>5
    <3>7. d # 0 => y <= d
      BY <3>5
    <3>8. QED
      BY <2>2, <3>2, <3>6, <3>7 DEF AheadOf, d, y
  <2>3. QED
    BY <1>3, <2>1, <2>2
<1>4. ASSUME screen' = screen PROVE \A q \in Phone : screen'[q] >= screen[q] \/ screen'[q] = 0
  BY <1>2, <1>4
<1>5. ASSUME NEW first, NEW to, NEW forced, Pushing(first, to, forced), Undisturbed
      PROVE  /\ Ahead'
             /\ \A q \in Phone : screen'[q] >= screen[q] \/ screen'[q] = 0
  <2>1. screen' = screen
    BY <1>5 DEF Undisturbed, phone
  <2>2. QED
    BY <1>1, <1>4, <1>5, <2>1, PushAhead DEF Ahead
<1>6. ASSUME NEW p \in Phone, Handle(p) \/ Approve(p) \/ Grant(p)
      PROVE  /\ Ahead'
             /\ \A q \in Phone : screen'[q] >= screen[q] \/ screen'[q] = 0
  <2>1. Undisturbed /\ (Silent \/ \E first, to, forced : Pushing(first, to, forced))
    BY <1>1, <1>6, JoinPushes, PresencePushes, ResyncPushes, CommandPushes, ApprovePushes, GrantPushes
       DEF Handle
  <2>2. CASE Silent
    <3>1. Approve(p) \/ view' = view \/ \E first, to, forced : Pushing(first, to, forced)
      BY <1>1, <1>6, JoinPushes, PresencePushes, ResyncPushes, CommandPushes, GrantPushes DEF Handle
    <3>2. view' \in view .. MaxView \/ view' = view \/ \E first, to, forced : Pushing(first, to, forced)
      BY <1>1, <3>1, ApprovePushes
    <3>3. CASE view' \in view .. MaxView \/ view' = view
      <4>1. view' >= view
        BY <1>1, <3>3 DEF TypeOK
      <4>2. /\ toPhone' = toPhone /\ cursor' = cursor /\ screen' = screen
        BY <2>1, <2>2 DEF Undisturbed, Silent, phone
      <4>3. QED
        BY <1>3, <1>4, <4>1, <4>2 DEF Ahead
    <3>4. QED
      BY <1>5, <2>1, <3>2, <3>3
  <2>3. QED
    BY <1>5, <2>1, <2>2
<1>7. ASSUME Timer
      PROVE  /\ Ahead'
             /\ \A q \in Phone : screen'[q] >= screen[q] \/ screen'[q] = 0
  <2>1. /\ Pushing(Silence, approved, FALSE) \/ Silent
        /\ Undisturbed /\ view' \in view .. MaxView
    BY <1>1, <1>7, TimerPushes
  <2>2. CASE Silent
    <3>1. /\ toPhone' = toPhone /\ cursor' = cursor /\ screen' = screen /\ view' >= view
      BY <1>1, <2>1, <2>2 DEF Undisturbed, Silent, phone, TypeOK
    <3>2. QED
      BY <1>3, <1>4, <3>1 DEF Ahead
  <2>3. QED
    BY <1>5, <2>1, <2>2
<1>8. ASSUME NEW p \in Phone, Receive(p) \/ MeetGap(p)
      PROVE  /\ Ahead'
             /\ \A q \in Phone : screen'[q] >= screen[q] \/ screen'[q] = 0
  <2> DEFINE b == toPhone[p][1].body
  <2>1. /\ toPhone[p] # <<>> /\ toPhone' = [toPhone EXCEPT ![p] = Tail(@)]
        /\ cursor' = cursor /\ view' = view
        /\ \/ screen' = screen
           \/ /\ b \notin {Approval, Result}
              /\ screen' = [screen EXCEPT ![p] = b.view]
    <3>1. CASE Receive(p)
      BY <3>1, ReceiveIs DEF appliance, room
    <3>2. CASE MeetGap(p)
      BY <3>2 DEF MeetGap, Receiving, phone, appliance, room
    <3>3. QED
      BY <1>8, <3>1, <3>2
  <2>2. /\ Len(toPhone[p]) \in Nat /\ Len(toPhone'[p]) = Len(toPhone[p]) - 1
        /\ \A i \in 1 .. Len(toPhone'[p]) :
             i + 1 \in 1 .. Len(toPhone[p]) /\ toPhone'[p][i] = toPhone[p][i + 1]
        /\ \A q \in Phone : q # p => toPhone'[q] = toPhone[q]
    BY <1>1, <2>1, TailIs
  <2>3. 1 \in 1 .. Len(toPhone[p])
    BY <1>1, <2>1, HeadIs
  <2>4. \/ screen'[p] = screen[p]
        \/ IsView(b) /\ screen'[p] = b.view
    <3>1. b \notin {Approval, Result} => IsView(b)
      BY <1>1, <2>3, FrameFacts
    <3>2. QED
      BY <1>1, <2>1, <3>1 DEF TypeOK
  <2>5. \A q \in Phone : q # p => screen'[q] = screen[q] /\ AheadOf(q)'
    <3>1. \A q \in Phone : q # p => screen'[q] = screen[q]
      BY <1>1, <2>1 DEF TypeOK
    <3>2. view' >= view
      BY <1>1, <2>1 DEF TypeOK
    <3>3. QED
      BY <1>3, <2>1, <2>2, <3>1, <3>2
  <2>6. /\ IsView(b) => screen[p] <= b.view /\ b.view \in Nat /\ b.view <= view
        /\ IsView(b) /\ cursor[p] # 0 => b.view <= cursor[p]
    BY <1>1, <2>3, FrameFacts DEF AheadOf
  <2>7. AheadOf(p)'
    <3> DEFINE s == toPhone[p]
               t == toPhone'[p]
    <3>1. \A i \in 1 .. Len(t) : i \in Nat /\ 1 < i + 1 /\ i + 1 \in 1 .. Len(s) /\ t[i] = s[i + 1]
      BY <2>2
    <3>2. \A i \in 1 .. Len(s) : IsView(s[i].body) =>
            /\ s[i].body.view \in Nat /\ screen[p] <= s[i].body.view
            /\ s[i].body.view <= view
            /\ cursor[p] # 0 => s[i].body.view <= cursor[p]
      BY <1>1, FrameFacts DEF AheadOf
    <3>3. \A i, j \in 1 .. Len(s) : i < j /\ IsView(s[i].body) /\ IsView(s[j].body) =>
            s[i].body.view <= s[j].body.view
      BY <1>1 DEF AheadOf
    <3>4. cursor[p] # 0 => screen[p] <= cursor[p]
      BY <1>1 DEF AheadOf
    <3>s. b = s[1].body
      OBVIOUS
    <3> HIDE DEF s, t, b
    <3>5. ASSUME NEW i \in 1 .. Len(t), IsView(t[i].body)
          PROVE  /\ screen'[p] <= t[i].body.view
                 /\ t[i].body.view <= view
                 /\ cursor[p] # 0 => t[i].body.view <= cursor[p]
      <4>1. /\ t[i] = s[i + 1] /\ i + 1 \in 1 .. Len(s) /\ 1 < i + 1
        BY <3>1
      <4>2. /\ screen[p] <= t[i].body.view
            /\ t[i].body.view <= view
            /\ cursor[p] # 0 => t[i].body.view <= cursor[p]
        BY <3>2, <3>5, <4>1
      <4>3. IsView(b) => b.view <= t[i].body.view
        BY <2>3, <3>3, <3>5, <3>s, <4>1 DEF s
      <4>4. QED
        BY <2>4, <4>2, <4>3
    <3>6. ASSUME NEW i \in 1 .. Len(t), NEW j \in 1 .. Len(t), i < j, IsView(t[i].body), IsView(t[j].body)
          PROVE  t[i].body.view <= t[j].body.view
      <4>1. i + 1 < j + 1
        BY <3>1, <3>6
      <4>2. QED
        BY <3>1, <3>3, <3>6, <4>1
    <3>7. cursor[p] # 0 => screen'[p] <= cursor[p]
      BY <2>4, <2>6, <3>4
    <3>8. QED
      BY <2>1, <3>5, <3>6, <3>7 DEF AheadOf, t
  <2>8. screen'[p] >= screen[p]
    BY <1>2, <2>4, <2>6
  <2>9. QED
    BY <1>2, <2>5, <2>7, <2>8 DEF Ahead
<1>9. ASSUME /\ cursor' = cursor \/ \A q \in Phone : cursor'[q] = 0
             /\ \A q \in Phone : screen'[q] \in {screen[q], 0}
             /\ \A q \in Phone : toPhone'[q] = toPhone[q] \/ toPhone'[q] = <<>>
             /\ view' = view
      PROVE  /\ Ahead'
             /\ \A q \in Phone : screen'[q] >= screen[q] \/ screen'[q] = 0
  <2>1. view' >= view
    BY <1>1, <1>9 DEF TypeOK
  <2>2. \A q \in Phone : screen'[q] >= screen[q] \/ screen'[q] = 0
    BY <1>2, <1>9
  <2>3. QED
    BY <1>3, <1>9, <2>1, <2>2 DEF Ahead
<1>10. ASSUME NEW p \in Phone,
              \/ Connect(p) \/ Refresh(p) \/ Break(p) \/ TurnOff(p) \/ Refused(p) \/ PhoneNotices(p)
              \/ Join(p) \/ SendCommand(p) \/ GrantFails(p) \/ Reload(p) \/ RelayNotices(p)
       PROVE  /\ Ahead'
              /\ \A q \in Phone : screen'[q] >= screen[q] \/ screen'[q] = 0
  <2>1. cursor' = cursor /\ view' = view
    BY <1>10 DEF Connect, Refresh, Break, TurnOff, Refused, PhoneNotices, Join, SendCommand, GrantFails,
       Reload, RelayNotices, appliance, room
  <2>2. screen' = screen \/ screen' = [screen EXCEPT ![p] = 0]
    BY <1>10 DEF Connect, Refresh, Break, TurnOff, Refused, PhoneNotices, Join, SendCommand, GrantFails,
       Reload, RelayNotices, phone
  <2>3. toPhone' = toPhone \/ toPhone' = [toPhone EXCEPT ![p] = <<>>]
    BY <1>10 DEF Connect, Refresh, Closed, Break, TurnOff, Refused, PhoneNotices, Join, SendCommand,
       GrantFails, Reload, RelayNotices
  <2>4. \A q \in Phone : screen'[q] \in {screen[q], 0} /\ (toPhone'[q] = toPhone[q] \/ toPhone'[q] = <<>>)
    BY <1>1, <2>2, <2>3 DEF TypeOK
  <2>5. QED
    BY <1>9, <2>1, <2>4
<1>11. ASSUME HostConnect \/ HostBreak \/ HostNotices \/ RelayDropsHost \/ HostRestart \/ UNCHANGED vars
       PROVE  /\ Ahead'
              /\ \A q \in Phone : screen'[q] >= screen[q] \/ screen'[q] = 0
  <2>1. /\ cursor' = cursor \/ \A q \in Phone : cursor'[q] = 0
        /\ view' = view /\ screen' = screen /\ toPhone' = toPhone
    BY <1>11 DEF HostConnect, HostBreak, HostNotices, RelayDropsHost, HostRestart, vars, phone, room,
       appliance
  <2>2. QED
    BY <1>9, <2>1
<1>12. QED
  BY <1>6, <1>7, <1>8, <1>10, <1>11 DEF Next

-----------------------------------------------------------------------------
(* Numbers stay without holes *)

LEMMA LastSeqIs ==
  ASSUME TypeOK, NEW q \in Phone
  PROVE  /\ LastSeq(q) \in Nat \cup {-1}
         /\ LastSeq(q) = -1 <=> toPhone[q] = <<>> /\ inSeq[q] = -1
         /\ toPhone[q] # <<>> => Len(toPhone[q]) \in 1 .. Len(toPhone[q])
<1>1. Numbers /\ inSeq[q] \in Nat \cup {-1}
  BY TypeParts DEF TypeOK
<1>2. CASE toPhone[q] = <<>>
  BY <1>1, <1>2 DEF LastSeq
<1>3. CASE toPhone[q] # <<>>
  <2>1. Len(toPhone[q]) \in Nat /\ Len(toPhone[q]) >= 1
    BY <1>1, <1>3, HeadIs
  <2>2. Len(toPhone[q]) \in 1 .. Len(toPhone[q])
    BY <2>1
  <2>3. toPhone[q][Len(toPhone[q])].seq \in Nat
    BY <1>1, <2>2, FrameFacts
  <2>4. QED
    BY <1>3, <2>2, <2>3 DEF LastSeq
<1>4. QED
  BY <1>2, <1>3

LEMMA PushNumbered ==
  ASSUME TypeOK, TypeOK', NEW first, NEW to, NEW forced, Pushing(first, to, forced), NEW q \in Phone,
         inSeq' = inSeq, live' = live, socket' = socket, live[q] => socket[q].conn \in Conn,
         ContiguousTo(q), NumberedTo(q)
  PROVE  ContiguousTo(q)' /\ NumberedTo(q)'
<1> DEFINE l == Len(toPhone[q])
           s == toPhone[q]
           t == toPhone'[q]
           c == connOf'[q]
           k == socket[q].conn
<1>1. /\ Extended(q) /\ Counted(q) /\ Numbers /\ Numbers' /\ c \in Conn \cup {NoConn}
  BY PushIs, TypeParts DEF Pushed, Pushing
<1>2. /\ nextSeq[q] \in [Conn -> Nat] /\ targets[q] \in [Conn -> Nat \cup {-1}]
      /\ nextSeq'[q] \in [Conn -> Nat] /\ targets'[q] \in [Conn -> Nat \cup {-1}]
      /\ l \in Nat /\ Len(t) \in Nat /\ l <= Len(t) /\ New(q) = l + 1 .. Len(t)
  BY <1>1, FrameFacts, LenProperties DEF Numbers, Extended, New
<1>3. \A d \in Conn : /\ nextSeq[q][d] \in Nat /\ targets[q][d] \in Int /\ targets[q][d] >= -1
                      /\ nextSeq'[q][d] \in Nat /\ targets'[q][d] \in Int /\ targets'[q][d] >= -1
                      /\ targets[q][d] < nextSeq[q][d]
  <2>1. \A d \in Conn : targets[q][d] < nextSeq[q][d]
    BY DEF NumberedTo
  <2>2. \A n \in Nat \cup {-1} : n \in Int /\ n >= -1
    OBVIOUS
  <2>3. QED
    BY <1>2, <2>1, <2>2
<1>4. ASSUME NEW d \in Conn PROVE targets'[q][d] < nextSeq'[q][d]
  <2>1. CASE d = c
    <3>1. c # NoConn /\ targets[q][c] < nextSeq[q][c]
      BY <1>3, <2>1, ConnFacts
    <3>2. QED
      BY <1>1, <2>1, <3>1 DEF Counted
  <2>2. CASE d # c
    BY <1>1, <1>3, <2>2 DEF Counted
  <2>3. QED
    BY <2>1, <2>2
<1>5. /\ LastSeq(q) \in Int
      /\ LastSeq(q) >= -1
      /\ LastSeq(q) = -1 <=> s = <<>> /\ inSeq[q] = -1
      /\ s # <<>> => l \in 1 .. l /\ LastSeq(q) = s[l].seq
      /\ s = <<>> => LastSeq(q) = inSeq[q]
  BY LastSeqIs DEF LastSeq
<1>6. live[q] => /\ k \in Conn
                 /\ \A i \in 1 .. l :
                      \/ i = 1 /\ inSeq[q] = -1
                      \/ s[i].seq = (IF i = 1 THEN inSeq[q] ELSE s[i - 1].seq) + 1
                 /\ LastSeq(q) >= 0 =>
                      /\ LastSeq(q) < nextSeq[q][k]
                      /\ targets[q][k] = LastSeq(q) \/ targets[q][k] + 1 < nextSeq[q][k]
  BY DEF ContiguousTo, NumberedTo
<1>7. /\ \A i \in 1 .. l : t[i] = s[i]
      /\ New(q) # {} => c # NoConn /\ c \in Conn /\ live[q] /\ k = c
  BY <1>1 DEF Extended, Reaches
<1>8. CASE New(q) = {}
  <2>1. Len(t) = l
    <3>1. Len(t) >= l + 1 => l + 1 \in New(q)
      BY <1>2
    <3>2. ~(Len(t) >= l + 1)
      BY <1>8, <3>1
    <3>3. \A m, n \in Nat : m >= n /\ ~(m >= n + 1) => m = n
      OBVIOUS
    <3>4. QED
      BY <1>2, <3>2, <3>3
  <2>2. t = s
    <3>1. t \in Seq(Frame) /\ s \in Seq(Frame)
      BY <1>1 DEF Numbers
    <3>2. QED
      BY <1>7, <2>1, <3>1
  <2>3. LastSeq(q)' = LastSeq(q)
    BY <2>2 DEF LastSeq
  <2>4. ContiguousTo(q)'
    BY <2>2 DEF ContiguousTo
  <2>5. live[q] => targets'[q][k] = targets[q][k] /\ nextSeq'[q][k] >= nextSeq[q][k]
    <3>1. SUFFICES ASSUME live[q] PROVE targets'[q][k] = targets[q][k] /\ nextSeq'[q][k] >= nextSeq[q][k]
      OBVIOUS
    <3>2. CASE k # c
      BY <1>1, <1>3, <1>6, <3>1, <3>2 DEF Counted
    <3>3. CASE k = c
      <4>1. Reaches(q, c) /\ c # NoConn /\ c \in Conn
        BY <1>6, <3>1, <3>3, ConnFacts DEF Reaches
      <4>2. QED
        BY <1>1, <1>3, <1>8, <3>3, <4>1 DEF Counted
    <3>4. QED
      BY <3>2, <3>3
  <2>6. live[q] /\ LastSeq(q) >= 0 =>
          /\ LastSeq(q) < nextSeq'[q][k]
          /\ targets'[q][k] = LastSeq(q) \/ targets'[q][k] + 1 < nextSeq'[q][k]
    BY <1>3, <1>5, <1>6, <2>5
  <2>7. QED
    BY <1>4, <2>3, <2>4, <2>6 DEF NumberedTo
<1>9. CASE New(q) # {}
  <2>1. /\ c # NoConn /\ c \in Conn /\ live[q] /\ k = c /\ Reaches(q, c)
    BY <1>7, <1>9 DEF Reaches
  <2>2. /\ \A i \in New(q) : t[i].seq = (IF i = l + 1 THEN targets[q][c] ELSE t[i - 1].seq) + 1
        /\ targets'[q][c] = t[Len(t)].seq
        /\ targets[q][c] + 1 = nextSeq[q][c]
    BY <1>1, <1>3, <1>9, <2>1 DEF Counted
  <2>3. LastSeq(q) = -1 \/ targets[q][c] = LastSeq(q)
    BY <1>3, <1>5, <1>6, <2>1, <2>2
  <2>4. Len(t) >= l + 1
    BY <1>2, <1>9
  <2>5. ASSUME NEW i \in 1 .. Len(t)
        PROVE  \/ i = 1 /\ inSeq[q] = -1
               \/ t[i].seq = (IF i = 1 THEN inSeq[q] ELSE t[i - 1].seq) + 1
    <3>1. CASE i <= l
      <4>1. i \in 1 .. l /\ (i # 1 => i - 1 \in 1 .. l)
        BY <1>2, <3>1
      <4>2. t[i] = s[i] /\ (i # 1 => t[i - 1] = s[i - 1])
        BY <1>7, <4>1
      <4>3. QED
        BY <1>6, <2>1, <4>1, <4>2
    <3>2. CASE i = l + 1
      <4>1. i \in New(q) /\ t[i].seq = targets[q][c] + 1
        BY <1>2, <2>2, <3>2
      <4>2. CASE s = <<>>
        <5>1. l = 0
          BY <4>2
        <5>2. QED
          BY <1>5, <2>3, <3>2, <4>1, <4>2, <5>1
      <4>3. CASE s # <<>>
        <5>1. l \in 1 .. l /\ LastSeq(q) = s[l].seq /\ i - 1 = l /\ i # 1 /\ t[l] = s[l]
          BY <1>2, <1>5, <1>7, <3>2, <4>3
        <5>2. QED
          BY <1>5, <2>3, <4>1, <4>3, <5>1
      <4>4. QED
        BY <4>2, <4>3
    <3>3. CASE i > l + 1
      <4>1. i \in New(q) /\ i # l + 1 /\ i # 1
        BY <1>2, <3>3
      <4>2. QED
        BY <2>2, <4>1
    <3>4. QED
      BY <1>2, <3>1, <3>2, <3>3
  <2>6. ContiguousTo(q)'
    BY <2>5 DEF ContiguousTo
  <2>7. t # <<>>
    BY <1>2, <2>4
  <2>8. LastSeq(q)' = t[Len(t)].seq
    BY <2>7 DEF LastSeq
  <2>9. NumberedTo(q)'
    BY <1>4, <2>1, <2>2, <2>8 DEF NumberedTo
  <2>10. QED
    BY <2>6, <2>9
<1>10. QED
  BY <1>8, <1>9

LEMMA TailNumbered ==
  ASSUME TypeOK, TypeOK', NEW p \in Phone, Receive(p), IInv, restarts = 0
  PROVE  ContiguousTo(p)' /\ NumberedTo(p)'
<1> DEFINE s == toPhone[p]
           t == toPhone'[p]
<1>1. /\ Numbers /\ s # <<>> /\ toPhone' = [toPhone EXCEPT ![p] = Tail(@)] /\ live[p]
      /\ inSeq' = [inSeq EXCEPT ![p] = s[1].seq]
      /\ nextSeq' = nextSeq /\ targets' = targets /\ socket' = socket
      /\ live' = live \/ live' = [live EXCEPT ![p] = FALSE]
  BY ReceiveIs DEF appliance
<1>2. ContiguousTo(p) /\ NumberedTo(p)
  BY DEF IInv, Numbered
<1>3. /\ Len(s) \in Nat /\ Len(t) = Len(s) - 1
      /\ \A i \in 1 .. Len(t) : i + 1 \in 1 .. Len(s) /\ t[i] = s[i + 1]
  BY <1>1, TailIs
<1>4. inSeq'[p] = s[1].seq /\ s[1].seq \in Nat
  <2>1. 1 \in 1 .. Len(s)
    BY <1>1, HeadIs
  <2>2. s[1].seq \in Nat
    BY <1>1, <2>1, FrameFacts
  <2>3. QED
    BY <1>1, <2>2 DEF TypeOK
<1>5. \A i \in 1 .. Len(s) : i # 1 => s[i].seq = s[i - 1].seq + 1
  BY <1>1, <1>2 DEF ContiguousTo
<1>t. t = <<>> <=> Len(t) = 0
  <2>1. t \in Seq(Frame)
    BY TypePartsPrime DEF Numbers
  <2>2. QED
    BY <2>1, EmptySeq
<1>s. t = toPhone'[p]
  OBVIOUS
<1> HIDE DEF t
<1>6. ASSUME NEW i \in 1 .. Len(t)
      PROVE  t[i].seq = (IF i = 1 THEN inSeq'[p] ELSE t[i - 1].seq) + 1
  <2>1. /\ i + 1 \in 1 .. Len(s) /\ t[i] = s[i + 1] /\ i + 1 # 1 /\ (i + 1) - 1 = i
    BY <1>3
  <2>2. t[i].seq = s[i].seq + 1
    BY <1>5, <2>1
  <2>3. CASE i = 1
    BY <1>4, <2>2, <2>3
  <2>4. CASE i # 1
    <3>1. i - 1 \in 1 .. Len(t) /\ (i - 1) + 1 = i
      BY <1>3, <2>4
    <3>2. t[i - 1] = s[i]
      BY <1>3, <3>1
    <3>3. QED
      BY <2>2, <2>4, <3>2
  <2>5. QED
    BY <2>3, <2>4
<1>7. ContiguousTo(p)'
  BY <1>6, <1>s DEF ContiguousTo
<1>8. LastSeq(p)' = LastSeq(p)
  <2>1. CASE t = <<>>
    <3>1. Len(s) = 1
      BY <1>3, <1>t, <2>1
    <3>2. QED
      BY <1>1, <1>4, <1>s, <2>1, <3>1 DEF LastSeq
  <2>2. CASE t # <<>>
    <3>1. Len(t) \in 1 .. Len(t) /\ Len(t) + 1 = Len(s)
      BY <1>3, <1>t, <2>2
    <3>2. t[Len(t)] = s[Len(s)]
      BY <1>3, <3>1
    <3>3. QED
      BY <1>1, <1>s, <2>2, <3>2 DEF LastSeq
  <2>3. QED
    BY <2>1, <2>2
<1>9. live'[p] => live[p]
  BY <1>1
<1>10. NumberedTo(p)'
  BY <1>1, <1>2, <1>8, <1>9 DEF NumberedTo
<1>11. QED
  BY <1>7, <1>10

LEMMA StayNumbered ==
  ASSUME IInv, [Next]_vars
  PROVE  Numbered'
<1>0. SUFFICES ASSUME restarts' = 0 PROVE \A q \in Phone : ContiguousTo(q)' /\ NumberedTo(q)'
  BY DEF Numbered
<1>1. /\ TypeOK /\ TypeOK' /\ Numbers /\ Numbers' /\ PhoneTypes /\ PhoneTypes' /\ restarts \in Nat
      /\ \A q \in Phone : DeviceOf(q)
  <2>1. TypeOK /\ TypeOK' /\ \A q \in Phone : DeviceOf(q)
    BY StaysTyped DEF IInv, Devices
  <2>2. Numbers /\ Numbers' /\ PhoneTypes /\ PhoneTypes' /\ CountTypes
    BY <2>1, TypeParts, TypePartsPrime
  <2>3. restarts \in Nat
    BY <2>2, ConnFacts DEF CountTypes
  <2>4. QED
    BY <2>1, <2>2, <2>3
<1>2. restarts = 0 /\ ~HostRestart
  <2>1. ~HostRestart
    BY <1>0, <1>1 DEF HostRestart
  <2>2. restarts' = restarts
    BY <2>1, ZenonT(40) DEF Next, Join, Connect, Refused, Refresh, SendCommand, MeetGap, Receive, Handle, HandleJoin,
       HandlePresence, HandleResync, HandleCommand, Approve, Grant, GrantFails, Break, TurnOff,
       Reload, PhoneNotices, RelayNotices, Timer, HostConnect, HostBreak, HostNotices,
       RelayDropsHost, vars, counts
  <2>3. QED
    BY <1>0, <2>1, <2>2
<1>3. \A q \in Phone : ContiguousTo(q) /\ NumberedTo(q)
  BY <1>2 DEF IInv, Numbered
<1>4. \A q \in Phone : live[q] => socket[q].conn \in Conn
  BY <1>1, TokenConns DEF DeviceOf, PhoneTypes
<1>5. \A q \in Phone : \A d \in Conn : nextSeq[q][d] \in Nat /\ targets[q][d] \in Int /\ targets[q][d] >= -1
  BY <1>1 DEF Numbers
<1>6. ASSUME NEW q \in Phone, nextSeq'[q] = nextSeq[q], targets'[q] = targets[q],
             ~live'[q] \/ (live'[q] = live[q] /\ inSeq'[q] = inSeq[q] /\ socket'[q] = socket[q]
                             /\ toPhone'[q] = toPhone[q])
      PROVE  ContiguousTo(q)' /\ NumberedTo(q)'
  BY <1>3, <1>6 DEF ContiguousTo, NumberedTo, LastSeq
<1>7. ASSUME NEW first, NEW to, NEW forced, Pushing(first, to, forced), Undisturbed
      PROVE  \A q \in Phone : ContiguousTo(q)' /\ NumberedTo(q)'
  <2>1. inSeq' = inSeq /\ live' = live /\ socket' = socket
    BY <1>7 DEF Undisturbed, phone
  <2>2. QED
    BY <1>1, <1>3, <1>4, <1>7, <2>1, PushNumbered
<1>8. ASSUME \/ \E p \in Phone : Handle(p) \/ Approve(p) \/ Grant(p)
             \/ Timer
      PROVE  \A q \in Phone : ContiguousTo(q)' /\ NumberedTo(q)'
  <2>1. Undisturbed /\ (Silent \/ \E first, to, forced : Pushing(first, to, forced))
    BY <1>1, <1>8, JoinPushes, PresencePushes, ResyncPushes, CommandPushes, ApprovePushes, GrantPushes,
       TimerPushes DEF Handle
  <2>2. CASE Silent
    BY <1>6, <2>1, <2>2 DEF Silent, Undisturbed, phone
  <2>3. QED
    BY <1>7, <2>1, <2>2
<1>9. ASSUME NEW p \in Phone, Receive(p)
      PROVE  \A q \in Phone : ContiguousTo(q)' /\ NumberedTo(q)'
  <2>1. /\ toPhone' = [toPhone EXCEPT ![p] = Tail(@)]
        /\ inSeq' = [inSeq EXCEPT ![p] = toPhone[p][1].seq]
        /\ nextSeq' = nextSeq /\ targets' = targets /\ socket' = socket
        /\ live' = live \/ live' = [live EXCEPT ![p] = FALSE]
    BY <1>9, ReceiveIs DEF appliance
  <2>2. \A q \in Phone : q # p => toPhone'[q] = toPhone[q] /\ inSeq'[q] = inSeq[q] /\ live'[q] = live[q]
    BY <1>1, <2>1 DEF Numbers, PhoneTypes
  <2>3. ContiguousTo(p)' /\ NumberedTo(p)'
    BY <1>1, <1>2, <1>9, TailNumbered
  <2>4. QED
    BY <1>6, <2>1, <2>2, <2>3
<1>10. ASSUME NEW p \in Phone, MeetGap(p) PROVE FALSE
  <2>1. /\ live[p] /\ toPhone[p] # <<>> /\ IsGap(p, Head(toPhone[p]))
    BY <1>10 DEF MeetGap, Receiving
  <2>2. 1 \in 1 .. Len(toPhone[p]) /\ Head(toPhone[p]) = toPhone[p][1]
    BY <1>1, <2>1, HeadIs
  <2>3. inSeq[p] = -1 \/ toPhone[p][1].seq = inSeq[p] + 1
    BY <1>3, <2>1, <2>2 DEF ContiguousTo
  <2>4. QED
    BY <2>1, <2>2, <2>3 DEF IsGap
<1>11. ASSUME NEW p \in Phone, Connect(p)
       PROVE  \A q \in Phone : ContiguousTo(q)' /\ NumberedTo(q)'
  <2>1. /\ toPhone'[p] = <<>> /\ inSeq'[p] = -1 /\ nextSeq' = nextSeq /\ targets' = targets
        /\ \A q \in Phone : q # p =>
             /\ toPhone'[q] = toPhone[q] /\ inSeq'[q] = inSeq[q] /\ live'[q] = live[q]
             /\ socket'[q] = socket[q]
    BY <1>1, <1>11 DEF Connect, appliance, Numbers, PhoneTypes
  <2>2. LastSeq(p)' = -1
    BY <2>1 DEF LastSeq
  <2>3. ContiguousTo(p)' /\ NumberedTo(p)'
    BY <1>3, <2>1, <2>2 DEF ContiguousTo, NumberedTo
  <2>4. QED
    BY <1>6, <2>1, <2>3
<1>12. ASSUME NEW p \in Phone, Refresh(p) \/ Break(p) \/ TurnOff(p)
       PROVE  \A q \in Phone : ContiguousTo(q)' /\ NumberedTo(q)'
  <2>1. /\ live'[p] = FALSE /\ nextSeq' = nextSeq /\ targets' = targets /\ inSeq' = inSeq
        /\ \A q \in Phone : q # p =>
             toPhone'[q] = toPhone[q] /\ live'[q] = live[q] /\ socket'[q] = socket[q]
    BY <1>1, <1>12 DEF Refresh, Closed, Break, TurnOff, appliance, Numbers, PhoneTypes, phone
  <2>2. QED
    BY <1>6, <2>1
<1>13. ASSUME NEW p \in Phone, RelayNotices(p)
       PROVE  \A q \in Phone : ContiguousTo(q)' /\ NumberedTo(q)'
  <2>1. /\ ~live[p] /\ live' = live /\ nextSeq' = nextSeq /\ targets' = targets /\ inSeq' = inSeq
        /\ toPhone' = toPhone
        /\ \A q \in Phone : q # p => socket'[q] = socket[q]
    BY <1>1, <1>13 DEF RelayNotices, appliance, PhoneTypes, phone
  <2>2. QED
    BY <1>6, <2>1
<1>14. ASSUME HostConnect
       PROVE  \A q \in Phone : ContiguousTo(q)' /\ NumberedTo(q)'
  <2>1. /\ toPhone' = toPhone /\ inSeq' = inSeq /\ live' = live /\ socket' = socket
        /\ nextSeq' = nextSeq
        /\ targets' = targets \/ \A q \in Phone : \A d \in Conn : targets'[q][d] = -1
    BY <1>1, <1>14 DEF HostConnect, appliance, phone
  <2>2. CASE targets' = targets
    BY <1>6, <2>1, <2>2
  <2>3. ASSUME \A q \in Phone : \A d \in Conn : targets'[q][d] = -1, NEW q \in Phone
        PROVE  ContiguousTo(q)' /\ NumberedTo(q)'
    <3>1. LastSeq(q)' = LastSeq(q) /\ LastSeq(q) \in Int
      BY <1>1, <2>1, LastSeqIs DEF LastSeq
    <3>2. ContiguousTo(q)'
      BY <1>3, <2>1 DEF ContiguousTo
    <3>3. \A d \in Conn : targets'[q][d] < nextSeq'[q][d]
      BY <1>5, <2>1, <2>3
    <3>4. live[q] /\ LastSeq(q) >= 0 =>
            LastSeq(q) < nextSeq[q][socket[q].conn] /\ targets'[q][socket[q].conn] + 1 < nextSeq[q][socket[q].conn]
      BY <1>3, <1>4, <1>5, <2>3, <3>1 DEF NumberedTo
    <3>5. NumberedTo(q)'
      BY <2>1, <3>1, <3>3, <3>4 DEF NumberedTo
    <3>6. QED
      BY <3>2, <3>5
  <2>4. QED
    BY <2>1, <2>2, <2>3
<1>15. ASSUME \/ \E p \in Phone : \/ Join(p) \/ Refused(p) \/ SendCommand(p) \/ GrantFails(p)
                                  \/ Reload(p) \/ PhoneNotices(p)
              \/ HostBreak \/ HostNotices \/ RelayDropsHost \/ UNCHANGED vars
       PROVE  \A q \in Phone : ContiguousTo(q)' /\ NumberedTo(q)'
  <2>1. /\ toPhone' = toPhone /\ inSeq' = inSeq /\ live' = live /\ socket' = socket
        /\ nextSeq' = nextSeq /\ targets' = targets
    BY <1>15 DEF Join, Refused, SendCommand, GrantFails, Reload, PhoneNotices, HostBreak, HostNotices,
       RelayDropsHost, vars, appliance, phone
  <2>2. QED
    BY <1>6, <2>1
<1>16. QED
  BY <1>2, <1>8, <1>9, <1>10, <1>11, <1>12, <1>13, <1>14, <1>15 DEF Next

-----------------------------------------------------------------------------
(* While the appliance keeps its link *)

Host(p) == Handle(p) \/ Approve(p) \/ Grant(p)

Act(p) ==
  \/ Join(p) \/ Connect(p) \/ Refused(p) \/ Refresh(p) \/ SendCommand(p) \/ Receive(p)
  \/ Break(p) \/ TurnOff(p) \/ Reload(p) \/ PhoneNotices(p) \/ RelayNotices(p)

\* Nothing else happens while the appliance keeps its link.
LEMMA KeptSteps ==
  ASSUME IInv, [Next]_vars, Kept'
  PROVE  /\ Kept
         /\ \/ LinkUp /\ \/ \E p \in Phone : Host(p)
                         \/ Timer
            \/ \E p \in Phone : Act(p)
            \/ LinkNew /\ HostConnect
            \/ UNCHANGED vars
<1>1. TypeOK /\ ToHostType /\ KnownTypes /\ hostFaults \in Nat /\ restarts \in Nat
  BY TypeParts DEF IInv, CountTypes
<1>2. hostFaults' = 0 /\ restarts' = 0
  BY DEF Kept
<1>3. ASSUME NEW p \in Phone PROVE ~GrantFails(p)
  BY <1>1, <1>2 DEF GrantFails, CutHost
<1>4. ~HostBreak /\ ~HostRestart
  BY <1>1, <1>2 DEF HostBreak, CutHost, HostRestart
<1>5. \/ \E p \in Phone : Host(p) \/ Act(p) \/ MeetGap(p)
      \/ Timer \/ HostConnect \/ HostNotices \/ RelayDropsHost
      \/ UNCHANGED vars
  BY <1>3, <1>4 DEF Next, Host, Act
<1>6. Kept
  <2>1. UNCHANGED <<hostFaults, restarts>>
    <3>1. ASSUME NEW p \in Phone, Host(p) PROVE UNCHANGED <<hostFaults, restarts>>
      BY <3>1 DEF Host, Handle, HandleJoin, HandlePresence, HandleResync, HandleCommand, Approve,
         Grant, counts
    <3>2. ASSUME NEW p \in Phone, Act(p) \/ MeetGap(p) PROVE UNCHANGED <<hostFaults, restarts>>
      BY <3>2 DEF Act, MeetGap, Join, Connect, Refused, Refresh, SendCommand, Receive, Break, TurnOff,
         Reload, PhoneNotices, RelayNotices, counts
    <3>3. Timer \/ HostConnect \/ HostNotices \/ RelayDropsHost \/ UNCHANGED vars =>
            UNCHANGED <<hostFaults, restarts>>
      BY DEF Timer, HostConnect, HostNotices, RelayDropsHost, counts, vars
    <3>4. QED
      BY <1>5, <3>1, <3>2, <3>3
  <2>2. QED
    BY <1>2, <2>1 DEF Kept
<1>7. LinkUp \/ LinkNew
  BY <1>6 DEF IInv, LinkKept
<1>8. ~HostNotices /\ ~RelayDropsHost
  BY <1>7 DEF LinkUp, LinkNew, HostNotices, RelayDropsHost
<1>9. HostConnect => LinkNew
  BY <1>7 DEF LinkUp, HostConnect
<1>10. ASSUME NEW p \in Phone PROVE ~MeetGap(p)
  <2>1. SUFFICES ASSUME MeetGap(p) PROVE FALSE
    OBVIOUS
  <2>2. /\ live[p] /\ toPhone[p] # <<>> /\ IsGap(p, Head(toPhone[p]))
    BY <2>1 DEF MeetGap, Receiving
  <2>3. Head(toPhone[p]) = toPhone[p][1] /\ 1 \in 1 .. Len(toPhone[p])
    BY <1>1, <2>2, HeadIs, TypeParts
  <2>4. inSeq[p] = -1 \/ toPhone[p][1].seq = inSeq[p] + 1
    BY <1>6, <2>2, <2>3 DEF IInv, Numbered, Kept, ContiguousTo
  <2>5. QED
    BY <2>2, <2>3, <2>4 DEF IsGap
<1>11. ASSUME NEW p \in Phone, Host(p) PROVE LinkUp
  <2>1. SUFFICES ASSUME LinkNew PROVE FALSE
    BY <1>7
  <2>2. toHost[p] = <<>> /\ awaited[p] = NoConn /\ ~hostLive
    BY <2>1 DEF LinkNew
  <2>3. CASE Handle(p)
    BY <2>2, <2>3 DEF Handle, HandleJoin, HandlePresence, HandleResync, HandleCommand, Heard
  <2>4. CASE Approve(p) \/ Grant(p)
    BY <2>2, <2>4 DEF Approve, Grant
  <2>5. QED
    BY <1>11, <2>3, <2>4 DEF Host
<1>12. Timer => LinkUp
  BY <1>1, <1>7 DEF LinkNew, Timer, TypeOK
<1>13. QED
  BY <1>5, <1>6, <1>8, <1>9, <1>10, <1>11, <1>12

\* What the appliance sends while it keeps its link.
LEMMA HostSends ==
  ASSUME TypeOK, \/ \E p \in Phone : Host(p)
                 \/ Timer
  PROVE  /\ Undisturbed
         /\ \/ \E first, to, forced : Pushing(first, to, forced)
            \/ Silent /\ connOf' = connOf
<1>1. ASSUME NEW p \in Phone, Handle(p)
      PROVE  Undisturbed /\ \E first, to, forced : Pushing(first, to, forced)
  BY <1>1, JoinPushes, PresencePushes, ResyncPushes, CommandPushes DEF Handle
<1>2. ASSUME NEW p \in Phone, Approve(p)
      PROVE  /\ Undisturbed
             /\ (\E first, to, forced : Pushing(first, to, forced)) \/ (Silent /\ connOf' = connOf)
  BY <1>2, ApprovePushes
<1>3. ASSUME NEW p \in Phone, Grant(p)
      PROVE  Undisturbed /\ \E first, to, forced : Pushing(first, to, forced)
  BY <1>3, GrantPushes
<1>4. ASSUME Timer
      PROVE  /\ Undisturbed
             /\ (\E first, to, forced : Pushing(first, to, forced)) \/ (Silent /\ connOf' = connOf)
  BY <1>4, TimerPushes
<1>5. QED
  BY <1>1, <1>2, <1>3, <1>4 DEF Host

LEMMA StayLinkUp ==
  ASSUME TypeOK, LinkUp, \/ \E p \in Phone : Host(p)
                         \/ Timer
  PROVE  LinkUp'
<1>1. /\ Undisturbed
      /\ \/ \E first, to, forced : Pushing(first, to, forced)
         \/ Silent /\ connOf' = connOf
  BY HostSends
<1>2. hostLive' /\ hostEnd' /\ relayEnd' /\ hostLive
  BY <1>1 DEF LinkUp, Undisturbed, link
<1>3. CASE Silent
  BY <1>2, <1>3 DEF LinkUp, Silent
<1>4. ASSUME NEW first, NEW to, NEW forced, Pushing(first, to, forced),
             NEW q \in Phone, NEW c \in Conn
      PROVE  targets'[q][c] + 1 = nextSeq'[q][c]
  <2>1. Counted(q)
    BY <1>4, PushIs DEF Pushed
  <2>2. targets[q][c] + 1 = nextSeq[q][c]
    BY DEF LinkUp
  <2>3. CASE c = connOf'[q]
    BY <1>2, <2>1, <2>2, <2>3, ConnFacts DEF Counted
  <2>4. CASE c # connOf'[q]
    BY <2>1, <2>2, <2>4 DEF Counted
  <2>5. QED
    BY <2>3, <2>4
<1>5. QED
  BY <1>1, <1>2, <1>3, <1>4 DEF LinkUp

LEMMA StayLinkKept ==
  ASSUME IInv, [Next]_vars
  PROVE  LinkKept'
<1>1. SUFFICES ASSUME Kept' PROVE LinkUp' \/ LinkNew'
  BY DEF LinkKept
<1>2. /\ Kept /\ TypeOK /\ ToHostType
      /\ \/ LinkUp /\ \/ \E p \in Phone : Host(p)
                      \/ Timer
         \/ \E p \in Phone : Act(p)
         \/ LinkNew /\ HostConnect
         \/ UNCHANGED vars
  BY <1>1, KeptSteps, TypeParts DEF IInv
<1>3. CASE LinkUp /\ ((\E p \in Phone : Host(p)) \/ Timer)
  BY <1>2, <1>3, StayLinkUp
<1>4. ASSUME NEW p \in Phone, Act(p) PROVE LinkUp' \/ LinkNew'
  <2>1. UNCHANGED <<hostEnd, relayEnd, hostLive, asked, connOf, awaited, nextSeq, targets>>
    BY <1>4 DEF Act, Join, Connect, Refused, Refresh, SendCommand, Receive, Break, TurnOff,
       Reload, PhoneNotices, RelayNotices, room, appliance, link
  <2>2. toHost' = toHost \/ \E s : Say(p, s)
    BY <1>4, ReceiveIs DEF Act, Join, Connect, Refused, Refresh, Closed, SendCommand, Break, TurnOff,
       Reload, PhoneNotices, RelayNotices
  <2>3. CASE LinkUp
    BY <2>1, <2>3 DEF LinkUp
  <2>4. CASE LinkNew
    <3>1. toHost' = toHost
      BY <2>2, <2>4 DEF Say, LinkNew
    <3>2. QED
      BY <2>1, <2>4, <3>1 DEF LinkNew
  <2>5. QED
    BY <1>2, <2>3, <2>4 DEF IInv, LinkKept
<1>5. CASE LinkNew /\ HostConnect
  <2>1. ASSUME NEW q \in Phone, NEW c \in Conn PROVE targets'[q][c] + 1 = nextSeq'[q][c]
    <3>1. nextSeq' = nextSeq /\ targets' = [r \in Phone |-> [d \in Conn |-> -1]]
      BY <1>5 DEF LinkNew, HostConnect, appliance
    <3>2. nextSeq[q][c] = 0
      BY <1>5 DEF LinkNew
    <3>3. QED
      BY <3>1, <3>2
  <2>2. QED
    BY <1>5, <2>1 DEF HostConnect, LinkUp
<1>6. CASE UNCHANGED vars
  BY <1>2, <1>6 DEF IInv, LinkKept, LinkUp, LinkNew, vars, room, appliance, link
<1>7. QED
  BY <1>2, <1>3, <1>4, <1>5, <1>6

LEMMA SentNow ==
  ASSUME TypeOK, NEW first, NEW to, NEW forced, Pushing(first, to, forced), NEW p \in Phone
  PROVE  Sends(p, first[p], {q \in to : connOf'[q] # NoConn}, view', forced,
               Sent(p, first[p], to, forced))
<1> DEFINE reached == {q \in to : connOf'[q] # NoConn}
<1>1. /\ first[p] \in Before /\ forced \in BOOLEAN
      /\ view' \in 1 .. MaxView /\ base' \in 1 .. view' /\ cursor[p] \in 0 .. view'
  BY DEF TypeOK, Pushing
<1>2. Sent(p, first[p], to, forced) = first[p] \o Views(p, reached, view', base', forced)
  BY DEF Sent
<1> HIDE DEF reached
<1>3. Sends(p, first[p], reached, view', forced,
            first[p] \o Views(p, reached, view', base', forced))
  BY <1>1, SentIs
<1>4. QED
  BY <1>2, <1>3 DEF reached

-----------------------------------------------------------------------------
(* Nothing is lost without a fault *)

\* Only the appliance and the phone itself touch what concerns the phone.
SameSmooth(q) ==
  /\ phase'[q] = phase[q] /\ socket'[q] = socket[q] /\ live'[q] = live[q] /\ creds'[q] = creds[q] /\ grant'[q] = grant[q]
  /\ toPhone'[q] = toPhone[q] /\ toHost'[q] = toHost[q] /\ connOf'[q] = connOf[q]

LEMMA SameSmoothStays ==
  ASSUME NEW q \in Phone, SmoothOf(q), SameSmooth(q)
  PROVE  SmoothOf(q)'
BY DEF SmoothOf, SameSmooth

\* The acts of a phone, as long as nothing was lost.
LEMMA ActSmooth ==
  ASSUME IInv, Kept, NEW p \in Phone, Act(p), SmoothOf(p), faults = 0, faults' = 0
  PROVE  SmoothOf(p)'
<1>1. /\ TypeOK /\ PhoneTypes /\ ToHostType /\ DeviceOf(p) /\ SpentOf(p) /\ KnownOf(p) /\ ApprovalsOf(p)
      /\ Numbers /\ KnownTypes
  BY TypeParts DEF IInv, Devices, Spent, Known, Approvals
<1>2. ~Break(p) /\ ~TurnOff(p)
  BY DEF Break, TurnOff
<1>3. ~Refused(p) /\ ~Refresh(p) /\ ~Reload(p) /\ ~PhoneNotices(p)
  BY DEF SmoothOf, Refused, Connecting, Refresh, Reload, PhoneNotices
<1>4. CASE Join(p)
  <2>1. /\ phase[p] = "out" /\ creds'[p] = grant'[p] /\ phase'[p] = "joining" /\ toPhone' = toPhone
        /\ toHost' = toHost /\ connOf' = connOf /\ socket' = socket
    BY <1>1, <1>4 DEF Join, PhoneTypes, appliance
  <2>2. socket[p] = Nothing
    <3>1. grant[p] = Nothing /\ socket[p].conn <= grant[p].conn
      BY <1>1, <2>1 DEF DeviceOf
    <3>2. socket[p] # Nothing => socket[p].conn \in Conn
      BY <1>1, TokenConns DEF PhoneTypes
    <3>3. QED
      BY <3>1, <3>2, ConnFacts DEF NoConn
  <2>3. QED
    BY <2>1, <2>2 DEF SmoothOf
<1>5. CASE Connect(p)
  <2>1. creds'[p] = grant'[p] /\ phase'[p] = "open" /\ live'[p]
    BY <1>1, <1>5 DEF Connect, PhoneTypes
  <2>2. QED
    BY <2>1 DEF SmoothOf
<1>6. CASE SendCommand(p)
  <2>1. /\ phase[p] = "open" /\ UNCHANGED <<phase, live, creds, grant, toPhone>>
    BY <1>6 DEF SendCommand, phone
  <2>2. QED
    BY <2>1 DEF SmoothOf
<1>7. CASE RelayNotices(p)
  <2>1. ~live[p] /\ UNCHANGED <<phase, live, creds, grant, toPhone, connOf>>
    BY <1>7 DEF RelayNotices, phone, appliance
  <2>2. phase[p] # "out"
    <3>1. socket[p].conn \in Conn /\ socket[p].conn <= grant[p].conn
      BY <1>1, <1>7, TokenConns DEF RelayNotices, PhoneTypes, DeviceOf
    <3>2. grant[p] # Nothing
      BY <3>1, ConnFacts DEF NoConn
    <3>3. QED
      BY <1>1, <3>2 DEF DeviceOf
  <2>3. phase[p] = "rotating"
    BY <1>7, <2>1, <2>2 DEF SmoothOf, RelayNotices
  <2>4. QED
    BY <2>1, <2>3 DEF SmoothOf
<1>8. CASE Receive(p)
  <2> DEFINE f == toPhone[p][1]
  <2>1. /\ toPhone[p] # <<>> /\ phase[p] = "open" /\ live[p]
        /\ toPhone' = [toPhone EXCEPT ![p] = Tail(@)]
        /\ UNCHANGED <<grant, connOf>>
        /\ \/ /\ f.body = Approval
              /\ creds' = [creds EXCEPT ![p] = Approved(creds[p].conn)]
              /\ phase' = [phase EXCEPT ![p] = "rotating"]
           \/ f.body # Approval /\ UNCHANGED <<creds, phase, live>>
    BY <1>8, ReceiveIs DEF appliance
  <2>2. /\ Len(toPhone[p]) \in Nat /\ Len(toPhone'[p]) = Len(toPhone[p]) - 1
        /\ \A i \in 1 .. Len(toPhone'[p]) :
             i + 1 \in 1 .. Len(toPhone[p]) /\ toPhone'[p][i] = toPhone[p][i + 1]
    BY <1>1, <2>1, TailIs
  <2>3. CASE /\ f.body = Approval
             /\ creds' = [creds EXCEPT ![p] = Approved(creds[p].conn)]
             /\ phase' = [phase EXCEPT ![p] = "rotating"]
    <3>1. 1 \in 1 .. Len(toPhone[p])
      BY <1>1, <2>1, HeadIs
    <3>2. grant[p].role = "approved" /\ creds[p].role = "pending"
      BY <1>1, <2>1, <2>3, <3>1 DEF ApprovalsOf
    <3>3. grant[p].conn \in Conn /\ grant[p] = Approved(grant[p].conn) /\ grant[p].conn <= 1
      BY <1>1, <3>2, ConnFacts DEF SpentOf, PhoneTypes
    <3>4. grant[p] = Approved(1)
      BY <3>3, ConnFacts
    <3>5. creds[p].conn = 1
      BY <1>1, <3>2, ConnFacts DEF DeviceOf
    <3>6. creds'[p] = grant'[p] /\ phase'[p] = "rotating"
      BY <1>1, <2>1, <2>3, <3>4, <3>5 DEF PhoneTypes
    <3>7. QED
      BY <3>6 DEF SmoothOf
  <2>4. CASE f.body # Approval /\ UNCHANGED <<creds, phase, live>>
    <3>1. ASSUME creds[p] # grant[p]
          PROVE  \E i \in 1 .. Len(toPhone'[p]) : toPhone'[p][i].body = Approval
      <4>1. PICK i \in 1 .. Len(toPhone[p]) : toPhone[p][i].body = Approval
        BY <3>1 DEF SmoothOf
      <4>2. i # 1
        BY <2>4, <4>1
      <4>3. i - 1 \in 1 .. Len(toPhone'[p]) /\ (i - 1) + 1 = i
        BY <2>2, <4>2
      <4>4. toPhone'[p][i - 1].body = Approval
        BY <2>2, <4>1, <4>3
      <4>5. QED
        BY <4>3, <4>4
    <3>2. QED
      BY <2>1, <2>4, <3>1 DEF SmoothOf
  <2>5. QED
    BY <2>1, <2>3, <2>4
<1>9. QED
  BY <1>2, <1>3, <1>4, <1>5, <1>6, <1>7, <1>8 DEF Act

\* The frames that a phone is waiting for stay on their way.
LEMMA PushKeeps ==
  ASSUME NEW q \in Phone, Extended(q), Numbers, Numbers',
         \E i \in 1 .. Len(toPhone[q]) : toPhone[q][i].body = Approval
  PROVE  \E i \in 1 .. Len(toPhone'[q]) : toPhone'[q][i].body = Approval
<1>1. Len(toPhone[q]) \in Nat /\ Len(toPhone'[q]) \in Nat
  BY FrameFacts, LenProperties DEF Numbers
<1>2. PICK i \in 1 .. Len(toPhone[q]) : toPhone[q][i].body = Approval
  OBVIOUS
<1>3. i \in 1 .. Len(toPhone'[q]) /\ toPhone'[q][i] = toPhone[q][i]
  BY <1>1 DEF Extended
<1>4. QED
  BY <1>2, <1>3

\* The relay grants a token: the approval is put on its way.
LEMMA GrantSmooth ==
  ASSUME IInv, LinkUp, NEW p \in Phone, Grant(p), SmoothOf(p)
  PROVE  SmoothOf(p)'
<1> DEFINE w == Sent(p, <<Approval>>, approved, FALSE)
           l == Len(toPhone[p])
<1>1. /\ TypeOK /\ PhoneTypes /\ KnownTypes /\ ToHostType /\ Numbers /\ DeviceOf(p) /\ KnownOf(p)
  BY TypeParts DEF IInv, Devices, Known
<1>2. /\ Pushing(Only(p, Approval), approved, FALSE) /\ Undisturbed
      /\ connOf' = connOf /\ toHost' = toHost
      /\ awaited[p] # NoConn /\ grant[p] = Pending(awaited[p])
  BY <1>1, GrantPushes
<1>3. Only(p, Approval)[p] = <<Approval>>
  BY FirstIs
<1>4. awaited[p] \in Conn /\ connOf[p] # NoConn /\ connOf[p] \in Conn /\ connOf[p] <= grant[p].conn
  BY <1>1, <1>2 DEF KnownOf, KnownTypes
<1>5. grant[p] = Pending(1) /\ connOf[p] = 1 /\ grant[p].role = "pending"
  <2>1. grant[p].role = "pending"
    BY <1>2, <1>4, ConnFacts
  <2>2. grant[p] = Pending(1)
    BY <1>1, <2>1 DEF DeviceOf
  <2>3. QED
    BY <1>4, <2>1, <2>2, ConnFacts
<1>6. creds[p].role # "approved" /\ phase[p] = "open"
  BY <1>1, <1>4, <1>5 DEF SmoothOf, DeviceOf
<1>7. live[p] /\ socket[p] = Pending(1)
  <2>1. live[p] /\ socket[p] = creds[p]
    BY <1>1, <1>6 DEF SmoothOf, DeviceOf
  <2>2. creds[p] # Nothing
    BY <1>1, <1>6 DEF DeviceOf
  <2>3. creds[p].role = "pending"
    BY <1>1, <1>6, <2>2, ConnFacts DEF PhoneTypes
  <2>4. QED
    BY <1>1, <2>1, <2>3 DEF DeviceOf
<1>8. /\ Numbers' /\ Extended(p) /\ Complete(p, w)
  BY <1>1, <1>2, <1>3, PushIs DEF Pushed
<1>9. Len(w) \in Nat /\ Len(w) >= 1 /\ w[1] = Approval
  <2>1. Sends(p, <<Approval>>, {q \in approved : connOf'[q] # NoConn}, view', FALSE, w)
    BY <1>1, <1>2, <1>3, SentNow
  <2>2. /\ w \in Seq(Body)
        /\ <<Approval>> # <<>> => Len(w) >= 1 /\ w[1] = <<Approval>>[1]
    BY <2>1 DEF Sends
  <2> HIDE DEF w
  <2>3. QED
    BY <2>2, LenProperties
<1> HIDE DEF w
<1>10. /\ connOf'[p] # NoConn /\ Reaches(p, connOf'[p]) /\ hostLive
       /\ targets[p][connOf'[p]] + 1 = nextSeq[p][connOf'[p]]
  <2>1. Reaches(p, connOf'[p])
    BY <1>2, <1>5, <1>7, ConnFacts DEF Reaches
  <2>2. QED
    BY <1>2, <1>4, <2>1 DEF LinkUp
<1>11. Len(toPhone'[p]) = l + Len(w) /\ \A i \in 1 .. Len(w) : toPhone'[p][l + i].body = w[i]
  BY <1>8, <1>10 DEF Complete
<1>12. l \in Nat
  BY <1>1, FrameFacts
<1> HIDE DEF l
<1>13. l + 1 \in 1 .. Len(toPhone'[p]) /\ toPhone'[p][l + 1].body = Approval
  <2>1. l + 1 \in 1 .. Len(toPhone'[p])
    BY <1>9, <1>11, <1>12
  <2>2. 1 \in 1 .. Len(w)
    BY <1>9
  <2>3. QED
    BY <1>9, <1>11, <2>1, <2>2
<1>14. /\ phase' = phase /\ live' = live /\ creds' = creds /\ socket' = socket
  BY <1>2 DEF Undisturbed, phone
<1>15. QED
  BY <1>2, <1>6, <1>7, <1>13, <1>14 DEF SmoothOf

LEMMA HostSmooth ==
  ASSUME IInv, LinkUp, \/ \E p \in Phone : Host(p)
                       \/ Timer,
         NEW q \in Phone, SmoothOf(q)
  PROVE  SmoothOf(q)'
<1>1. /\ TypeOK /\ KnownTypes /\ ToHostType /\ Numbers
  BY TypeParts DEF IInv
<1>2. /\ Undisturbed
      /\ \/ \E first, to, forced : Pushing(first, to, forced)
         \/ Silent /\ connOf' = connOf
  BY <1>1, HostSends
<1>3. phase' = phase /\ live' = live /\ creds' = creds /\ socket' = socket
  BY <1>2 DEF Undisturbed, phone
<1>4. (\E i \in 1 .. Len(toPhone[q]) : toPhone[q][i].body = Approval) =>
        \E i \in 1 .. Len(toPhone'[q]) : toPhone'[q][i].body = Approval
  <2>1. CASE Silent
    BY <2>1 DEF Silent
  <2>2. ASSUME NEW first, NEW to, NEW forced, Pushing(first, to, forced)
        PROVE  Extended(q) /\ Numbers'
    BY <1>1, <2>2, PushIs DEF Pushed
  <2>3. QED
    BY <1>1, <1>2, <2>1, <2>2, PushKeeps
<1>5. toHost'[q] # <<>> \/ connOf'[q] # NoConn => toHost[q] # <<>> \/ connOf[q] # NoConn
  <2>1. ASSUME NEW p \in Phone, Handle(p)
        PROVE  toHost'[q] # <<>> \/ connOf'[q] # NoConn => toHost[q] # <<>> \/ connOf[q] # NoConn
    <3>1. \E k \in {"join", "hello", "connection_status", "resync_request", "client_command"} : Heard(p, k)
      BY <2>1 DEF Handle, HandleJoin, HandlePresence, HandleResync, HandleCommand
    <3>2. /\ toHost[p] # <<>>
          /\ q # p => connOf'[q] = connOf[q] /\ toHost'[q] = toHost[q]
      BY <1>1, <3>1, HeardIs
    <3>3. QED
      BY <3>2
  <2>2. ASSUME NEW p \in Phone, Approve(p) \/ Grant(p)
        PROVE  toHost' = toHost /\ connOf' = connOf
    BY <2>2 DEF Approve, Grant
  <2>3. Timer => toHost' = toHost /\ connOf' = connOf
    BY DEF Timer
  <2>4. QED
    BY <2>1, <2>2, <2>3 DEF Host
<1>6. CASE Grant(q)
  BY <1>6, GrantSmooth
<1>7. CASE grant'[q] = grant[q]
  BY <1>3, <1>4, <1>5, <1>7 DEF SmoothOf
<1>8. grant'[q] = grant[q] \/ Grant(q)
  <2>1. ASSUME NEW p \in Phone, Handle(p) \/ Approve(p) PROVE grant' = grant
    BY <2>1 DEF Handle, HandleJoin, HandlePresence, HandleResync, HandleCommand, Approve
  <2>2. ASSUME NEW p \in Phone, Grant(p), p # q PROVE grant'[q] = grant[q]
    BY <1>1, <2>2, TypeParts DEF Grant, PhoneTypes
  <2>3. Timer => grant' = grant
    BY DEF Timer
  <2>4. QED
    BY <2>1, <2>2, <2>3 DEF Host
<1>9. QED
  BY <1>6, <1>7, <1>8

\* What concerns a phone does not change while another one acts.
LEMMA ActElsewhere ==
  ASSUME IInv, NEW p \in Phone, Act(p), NEW q \in Phone, q # p
  PROVE  /\ SameSmooth(q)
         /\ held'[q] = held[q] /\ cursor'[q] = cursor[q]
<1>1. TypeOK /\ Numbers /\ PhoneTypes /\ ToHostType /\ held \in [Phone -> 0 .. view]
  BY TypeParts DEF IInv, TypeOK
<1>2. /\ phase'[q] = phase[q] /\ socket'[q] = socket[q] /\ live'[q] = live[q]
      /\ creds'[q] = creds[q] /\ grant'[q] = grant[q] /\ connOf'[q] = connOf[q]
      /\ toPhone'[q] = toPhone[q] /\ held'[q] = held[q] /\ cursor'[q] = cursor[q]
  <2>1. CASE Receive(p)
    <3>1. /\ toPhone' = [toPhone EXCEPT ![p] = Tail(@)]
          /\ UNCHANGED <<grant, connOf, socket, cursor>>
          /\ \/ /\ creds' = [creds EXCEPT ![p] = Approved(creds[p].conn)]
                /\ phase' = [phase EXCEPT ![p] = "rotating"]
                /\ live' = [live EXCEPT ![p] = FALSE]
             \/ UNCHANGED <<creds, phase, live>>
          /\ held' = held \/ held' = [held EXCEPT ![p] = toPhone[p][1].body.view]
      BY <2>1, ReceiveIs DEF appliance
    <3>2. QED
      BY <1>1, <3>1 DEF PhoneTypes, Numbers
  <2>2. CASE ~Receive(p)
    BY <1>1, <2>2 DEF Act, Join, Connect, Refused, Refresh, Closed, SendCommand, Break,
       TurnOff, Reload, PhoneNotices, RelayNotices, PhoneTypes, Numbers, phone, appliance
  <2>3. QED
    BY <2>1, <2>2
<1>3. toHost'[q] = toHost[q]
  <2>1. toHost' = toHost \/ \E s : Say(p, s)
    BY ReceiveIs DEF Act, Join, Connect, Refused, Refresh, Closed, SendCommand, Break, TurnOff,
       Reload, PhoneNotices, RelayNotices
  <2>2. QED
    BY <1>1, <2>1 DEF Say, ToHostType
<1>4. QED
  BY <1>2, <1>3 DEF SameSmooth

LEMMA StaySmooth ==
  ASSUME IInv, [Next]_vars
  PROVE  Smooth'
<1>1. SUFFICES ASSUME faults' = 0, Kept' PROVE \A q \in Phone : SmoothOf(q)'
  BY DEF Smooth
<1>2. /\ Kept /\ TypeOK /\ Numbers /\ PhoneTypes /\ ToHostType
      /\ \/ LinkUp /\ \/ \E p \in Phone : Host(p)
                      \/ Timer
         \/ \E p \in Phone : Act(p)
         \/ LinkNew /\ HostConnect
         \/ UNCHANGED vars
  BY <1>1, KeptSteps, TypeParts DEF IInv
<1>3. faults = 0
  <2>1. faults \in Nat
    BY <1>2, TypeParts DEF CountTypes
  <2>2. ASSUME NEW p \in Phone, Act(p) PROVE faults' \in {faults, faults + 1}
    BY <2>2 DEF Act, Join, Connect, Refused, Refresh, SendCommand, Receive, Break, TurnOff,
       Reload, PhoneNotices, RelayNotices, counts
  <2>3. (\E p \in Phone : Host(p)) \/ Timer => faults' = faults
    BY <1>2, HostSends DEF Undisturbed
  <2>4. HostConnect \/ UNCHANGED vars => faults' = faults
    BY DEF HostConnect, vars, counts
  <2>5. faults' \in {faults, faults + 1}
    BY <1>2, <2>2, <2>3, <2>4
  <2>6. QED
    BY <1>1, <2>1, <2>5
<1>4. \A q \in Phone : SmoothOf(q)
  BY <1>2, <1>3 DEF IInv, Smooth
<1>5. CASE LinkUp /\ ((\E p \in Phone : Host(p)) \/ Timer)
  BY <1>4, <1>5, HostSmooth
<1>6. ASSUME NEW p \in Phone, Act(p), NEW q \in Phone PROVE SmoothOf(q)'
  <2>1. CASE q = p
    BY <1>1, <1>2, <1>3, <1>4, <1>6, <2>1, ActSmooth
  <2>2. CASE q # p
    BY <1>4, <1>6, <2>2, ActElsewhere, SameSmoothStays
  <2>3. QED
    BY <2>1, <2>2
<1>7. CASE HostConnect \/ UNCHANGED vars
  BY <1>4, <1>7, SameSmoothStays DEF SameSmooth, HostConnect, vars, appliance, phone
<1>8. QED
  BY <1>2, <1>5, <1>6, <1>7

-----------------------------------------------------------------------------
(* A connected phone follows the cursor *)

\* What a push puts on its way to a connected phone, while the link is up.
Arrived(q, w) ==
  /\ w \in Seq(Body)
  /\ Len(toPhone'[q]) = Len(toPhone[q]) + Len(w)
  /\ \A i \in 1 .. Len(toPhone[q]) : toPhone'[q][i] = toPhone[q][i]
  /\ \A i \in 1 .. Len(w) : toPhone'[q][Len(toPhone[q]) + i].body = w[i]

\* Deltas from the cursor on, or nothing new.
Chained(q, w) ==
  /\ \A i \in 1 .. Len(w) :
       /\ w[i].kind # "snapshot"
       /\ w[i].kind = "delta" =>
            w[i].view \in Nat /\ cursor[q] < w[i].view /\ w[i].view <= cursor'[q]
  /\ \A i, j \in 1 .. Len(w) :
       i < j /\ w[i].kind = "delta" /\ w[j].kind = "delta" => w[i].view < w[j].view
  /\ \A u \in cursor[q] + 1 .. cursor'[q] : \E i \in 1 .. Len(w) : w[i] = Delta(u)

Renewed(q, w) == Len(w) >= 1 /\ cursor'[q] \in 1 .. MaxView /\ w[Len(w)] = Snapshot(cursor'[q])

LEMMA PushArrives ==
  ASSUME TypeOK, LinkUp, NEW first, NEW to, NEW forced, Pushing(first, to, forced), Undisturbed,
         NEW q \in Phone, live[q], socket[q].conn \in Conn, connOf'[q] = socket[q].conn
  PROVE  LET w == Sent(q, first[q], to, forced) IN
         /\ Arrived(q, w)
         /\ Renewed(q, w) \/ (Chained(q, w) /\ ~(forced /\ q \in to))
         /\ cursor[q] \in Nat /\ cursor'[q] \in Nat /\ cursor[q] <= cursor'[q]
<1> DEFINE w == Sent(q, first[q], to, forced)
           reached == {r \in to : connOf'[r] # NoConn}
<1>1. /\ Numbers /\ Numbers' /\ Extended(q) /\ Complete(q, w)
      /\ cursor'[q] = IF q \in to /\ connOf'[q] # NoConn THEN view' ELSE cursor[q]
  BY PushIs, TypeParts DEF Pushed
<1>2. Sends(q, first[q], reached, view', forced, w)
  BY SentNow
<1>3. connOf'[q] # NoConn /\ (q \in reached <=> q \in to)
  BY ConnFacts
<1>4. /\ view \in Nat /\ view' \in 1 .. MaxView /\ view <= view' /\ cursor[q] \in 0 .. view
      /\ MaxView \in Nat
  BY ConnFacts DEF TypeOK, Pushing
<1> HIDE DEF w, reached
<1>5. /\ connOf'[q] # NoConn /\ Reaches(q, connOf'[q]) /\ hostLive
      /\ targets[q][connOf'[q]] + 1 = nextSeq[q][connOf'[q]]
  BY <1>3 DEF Reaches, LinkUp
<1>6. Arrived(q, w)
  BY <1>1, <1>2, <1>5 DEF Arrived, Complete, Extended, Sends
<1>7. cursor[q] \in Nat /\ cursor'[q] \in Nat /\ cursor[q] <= cursor'[q]
  BY <1>1, <1>4
<1>8. CASE q \in to
  <2>1. cursor'[q] = view'
    BY <1>1, <1>3, <1>8
  <2>2. \/ Len(w) >= 1 /\ w[Len(w)] = Snapshot(view')
        \/ /\ ~forced
           /\ \A i \in 1 .. Len(w) :
                /\ w[i].kind # "snapshot"
                /\ w[i].kind = "delta" => cursor[q] < w[i].view
           /\ \A u \in cursor[q] + 1 .. view' : \E i \in 1 .. Len(w) : w[i] = Delta(u)
    BY <1>2, <1>3, <1>8 DEF Sends
  <2>3. /\ \A i \in 1 .. Len(w) : IsView(w[i]) => w[i].view \in 1 .. view'
        /\ \A i, j \in 1 .. Len(w) : i < j /\ IsView(w[i]) /\ IsView(w[j]) => w[i].view < w[j].view
    BY <1>2 DEF Sends
  <2>4. \A n \in 1 .. view' : n \in Nat /\ n <= view'
    BY <1>4
  <2>5. CASE Len(w) >= 1 /\ w[Len(w)] = Snapshot(view')
    BY <1>4, <1>6, <1>7, <2>1, <2>5 DEF Renewed, w
  <2>6. CASE /\ ~forced
             /\ \A i \in 1 .. Len(w) :
                  /\ w[i].kind # "snapshot"
                  /\ w[i].kind = "delta" => cursor[q] < w[i].view
             /\ \A u \in cursor[q] + 1 .. view' : \E i \in 1 .. Len(w) : w[i] = Delta(u)
    <3>1. Chained(q, w)
      BY <2>1, <2>3, <2>4, <2>6 DEF Chained, IsView
    <3>2. QED
      BY <1>6, <1>7, <2>6, <3>1 DEF w
  <2>7. QED
    BY <2>2, <2>5, <2>6 DEF w
<1>9. CASE q \notin to
  <2>1. cursor'[q] = cursor[q]
    BY <1>1, <1>9
  <2>2. \A i \in 1 .. Len(w) : ~IsView(w[i])
    BY <1>2, <1>3, <1>9 DEF Sends
  <2>3. cursor[q] + 1 .. cursor'[q] = {}
    BY <1>7, <2>1
  <2>4. Chained(q, w)
    BY <2>2, <2>3 DEF Chained, IsView
  <2>5. QED
    BY <1>6, <1>7, <1>9, <2>4 DEF w
<1>10. QED
  BY <1>8, <1>9

\* A snapshot at the end of the way settles everything.
LEMMA RenewedSettles ==
  ASSUME Numbers, NEW q \in Phone, NEW w, Arrived(q, w), Renewed(q, w)
  PROVE  \E k \in 0 .. Len(toPhone'[q]) : Settled(q, k)'
<1> DEFINE l == Len(toPhone[q])
           m == Len(w)
           d == cursor'[q]
<1>1. /\ l \in Nat /\ m \in Nat /\ m >= 1 /\ Len(toPhone'[q]) = l + m
      /\ d \in 1 .. MaxView /\ MaxView \in Nat
      /\ w[m] = Snapshot(d)
  BY FrameFacts, ConnFacts, LenProperties DEF Arrived, Renewed
<1>2. \A i \in 1 .. m : toPhone'[q][l + i].body = w[i]
  BY DEF Arrived
<1>3. PICK k \in Nat : k = l + m
  BY <1>1
<1>4. Len(toPhone'[q]) = k
  BY <1>1, <1>3
<1> HIDE DEF l, m
<1>5. toPhone'[q][k].body = Snapshot(d)
  BY <1>1, <1>2, <1>3
<1>6. Snapshot(d).kind = "snapshot" /\ Snapshot(d).view = d
  BY <1>1, BodyFacts
<1>7. k \in 0 .. k /\ k # 0 /\ k + 1 .. k = {} /\ d \in Nat /\ d + 1 .. d = {} /\ d <= d
  BY <1>1, <1>3
<1>8. Start(q, k)' = d
  BY <1>5, <1>6, <1>7 DEF Start
<1>9. Settled(q, k)'
  <2>1. /\ k # 0 => toPhone'[q][k].body.kind = "snapshot"
        /\ Start(q, k)' <= cursor'[q]
    BY <1>5, <1>6, <1>7, <1>8
  <2>2. k + 1 .. Len(toPhone'[q]) = {}
    BY <1>4, <1>7
  <2>3. Start(q, k)' + 1 .. cursor'[q] = {}
    BY <1>7, <1>8
  <2>4. QED
    BY <2>1, <2>2, <2>3 DEF Settled
<1>10. QED
  BY <1>4, <1>7, <1>9

\* Deltas from the cursor on continue what leads to the cursor.
LEMMA ChainedSettles ==
  ASSUME TypeOK, NEW q \in Phone, NEW w, Arrived(q, w), Chained(q, w), held' = held,
         cursor[q] \in Nat, cursor'[q] \in Nat, cursor[q] <= cursor'[q],
         NEW k \in 0 .. Len(toPhone[q]), Settled(q, k)
  PROVE  k \in 0 .. Len(toPhone'[q]) /\ Settled(q, k)'
<1> DEFINE l == Len(toPhone[q])
           m == Len(w)
           s == toPhone[q]
           t == toPhone'[q]
           c == cursor[q]
           d == cursor'[q]
           x == Start(q, k)
<1>1. /\ l \in Nat /\ m \in Nat /\ Len(t) = l + m /\ k \in 0 .. l
      /\ c \in Nat /\ d \in Nat /\ c <= d /\ Numbers
  BY FrameFacts, LenProperties, TypeParts DEF Arrived
<1>2. /\ \A i \in 1 .. l : t[i] = s[i]
      /\ \A i \in 1 .. m : t[l + i].body = w[i]
  BY DEF Arrived
<1>3. \A i \in 1 .. l : s[i].body.kind \in {"snapshot", "delta"} => s[i].body.view \in Nat
  BY <1>1, FrameFacts, ConnFacts DEF IsView
<1>4. /\ k # 0 => k \in 1 .. l /\ s[k].body.kind = "snapshot" /\ t[k] = s[k]
      /\ Start(q, k)' = x /\ x \in Nat /\ x <= c
  <2>1. k # 0 => k \in 1 .. l /\ s[k].body.kind = "snapshot" /\ t[k] = s[k]
    BY <1>1, <1>2 DEF Settled
  <2>2. Start(q, k)' = x
    BY <2>1 DEF Start
  <2>3. x \in Nat
    <3>1. held[q] \in Nat
      BY DEF TypeOK
    <3>2. QED
      BY <1>1, <1>3, <2>1, <3>1 DEF Start
  <2>4. QED
    BY <2>1, <2>2, <2>3 DEF Settled
<1>5. /\ \A i \in k + 1 .. l :
           /\ s[i].body.kind # "snapshot"
           /\ s[i].body.kind = "delta" => x < s[i].body.view /\ s[i].body.view <= c
      /\ \A i, j \in k + 1 .. l :
           i < j /\ s[i].body.kind = "delta" /\ s[j].body.kind = "delta" =>
             s[i].body.view < s[j].body.view
      /\ \A v \in x + 1 .. c : \E i \in k + 1 .. l : s[i].body = Delta(v)
  BY DEF Settled
<1>6. /\ \A i \in 1 .. m :
           /\ w[i].kind # "snapshot"
           /\ w[i].kind = "delta" => w[i].view \in Nat /\ c < w[i].view /\ w[i].view <= d
      /\ \A i, j \in 1 .. m :
           i < j /\ w[i].kind = "delta" /\ w[j].kind = "delta" => w[i].view < w[j].view
      /\ \A u \in c + 1 .. d : \E i \in 1 .. m : w[i] = Delta(u)
  BY DEF Chained
<1> HIDE DEF l, m, s, c, x
<1>7. ASSUME NEW i \in k + 1 .. l + m
      PROVE  \/ i \in k + 1 .. l /\ i \in 1 .. l /\ t[i] = s[i]
             \/ i - l \in 1 .. m /\ i > l /\ t[i].body = w[i - l]
  <2>1. CASE i <= l
    <3>1. i \in k + 1 .. l /\ i \in 1 .. l
      BY <1>1, <2>1
    <3>2. QED
      BY <1>2, <3>1
  <2>2. CASE i > l
    <3>1. i - l \in 1 .. m /\ l + (i - l) = i
      BY <1>1, <2>2
    <3>2. t[l + (i - l)].body = w[i - l]
      BY <1>2, <3>1
    <3>3. QED
      BY <2>2, <3>1, <3>2
  <2>3. QED
    BY <1>1, <2>1, <2>2
<1>8. ASSUME NEW i \in k + 1 .. l + m
      PROVE  /\ t[i].body.kind # "snapshot"
             /\ t[i].body.kind = "delta" =>
                  /\ t[i].body.view \in Nat /\ x < t[i].body.view /\ t[i].body.view <= d
                  /\ i <= l => t[i].body.view <= c
                  /\ i > l => c < t[i].body.view
  <2>1. CASE i \in k + 1 .. l /\ i \in 1 .. l /\ t[i] = s[i]
    <3>1. ASSUME s[i].body.kind = "delta"
          PROVE  /\ s[i].body.view \in Nat /\ x < s[i].body.view /\ s[i].body.view <= d
                 /\ s[i].body.view <= c
      <4>1. s[i].body.view \in Nat /\ x < s[i].body.view /\ s[i].body.view <= c
        BY <1>3, <1>5, <2>1, <3>1
      <4>2. QED
        BY <1>1, <4>1
    <3>2. ~(i > l)
      BY <1>1, <2>1
    <3>3. QED
      BY <1>5, <2>1, <3>1, <3>2
  <2>2. CASE i - l \in 1 .. m /\ i > l /\ t[i].body = w[i - l]
    <3>1. ASSUME w[i - l].kind = "delta"
          PROVE  /\ w[i - l].view \in Nat /\ x < w[i - l].view /\ w[i - l].view <= d
                 /\ c < w[i - l].view
      <4>1. w[i - l].view \in Nat /\ c < w[i - l].view /\ w[i - l].view <= d
        BY <1>6, <2>2, <3>1
      <4>2. QED
        BY <1>1, <1>4, <4>1
    <3>2. ~(i <= l)
      BY <1>1, <2>2
    <3>3. QED
      BY <1>6, <2>2, <3>1, <3>2
  <2>3. QED
    BY <1>7, <2>1, <2>2
<1>9. ASSUME NEW i \in k + 1 .. l + m, NEW j \in k + 1 .. l + m, i < j,
             t[i].body.kind = "delta", t[j].body.kind = "delta"
      PROVE  t[i].body.view < t[j].body.view
  <2>1. CASE j <= l
    <3>1. i \in k + 1 .. l /\ j \in k + 1 .. l /\ ~(i > l) /\ ~(j > l)
      BY <1>1, <1>9, <2>1
    <3>2. t[i] = s[i] /\ t[j] = s[j]
      BY <1>7, <3>1
    <3>3. QED
      BY <1>5, <1>9, <3>1, <3>2
  <2>2. CASE i > l
    <3>1. ~(i \in k + 1 .. l) /\ ~(j \in k + 1 .. l) /\ i - l < j - l
      BY <1>1, <1>9, <2>2
    <3>2. /\ i - l \in 1 .. m /\ t[i].body = w[i - l]
          /\ j - l \in 1 .. m /\ t[j].body = w[j - l]
      BY <1>7, <3>1
    <3>3. QED
      BY <1>6, <1>9, <3>1, <3>2
  <2>3. CASE i <= l /\ j > l
    <3>1. /\ t[i].body.view \in Nat /\ t[i].body.view <= c
          /\ t[j].body.view \in Nat /\ c < t[j].body.view
      BY <1>8, <1>9, <2>3
    <3>2. \A a, b \in Nat : a <= c /\ c < b => a < b
      BY <1>1
    <3>3. QED
      BY <3>1, <3>2
  <2>4. i \in Int /\ j \in Int
    BY <1>1
  <2>5. QED
    BY <1>1, <2>1, <2>2, <2>3, <2>4
<1>10. ASSUME NEW v \in x + 1 .. d
       PROVE  \E i \in k + 1 .. l + m : t[i].body = Delta(v)
  <2>1. CASE v <= c
    <3>1. v \in x + 1 .. c
      BY <1>1, <1>4, <2>1
    <3>2. PICK i \in k + 1 .. l : s[i].body = Delta(v)
      BY <1>5, <3>1
    <3>3. i \in 1 .. l /\ i \in k + 1 .. l + m
      BY <1>1, <3>2
    <3>4. QED
      BY <1>2, <3>2, <3>3
  <2>2. CASE ~(v <= c)
    <3>1. v \in c + 1 .. d
      BY <1>1, <1>4, <2>2
    <3>2. PICK i \in 1 .. m : w[i] = Delta(v)
      BY <1>6, <3>1
    <3>3. l + i \in k + 1 .. l + m
      BY <1>1, <3>2
    <3>4. QED
      BY <1>2, <3>2, <3>3
  <2>3. QED
    BY <2>1, <2>2
<1>11. /\ k \in 0 .. Len(t) /\ x <= d
  BY <1>1, <1>4
<1>12. Settled(q, k)'
  <2>1. /\ k # 0 => t[k].body.kind = "snapshot"
        /\ Start(q, k)' <= d
    BY <1>4, <1>11
  <2>2. \A i \in k + 1 .. Len(t) :
          /\ t[i].body.kind # "snapshot"
          /\ t[i].body.kind = "delta" => Start(q, k)' < t[i].body.view /\ t[i].body.view <= d
    BY <1>1, <1>4, <1>8
  <2>3. \A i, j \in k + 1 .. Len(t) :
          i < j /\ t[i].body.kind = "delta" /\ t[j].body.kind = "delta" =>
            t[i].body.view < t[j].body.view
    BY <1>1, <1>9
  <2>4. \A v \in Start(q, k)' + 1 .. d : \E i \in k + 1 .. Len(t) : t[i].body = Delta(v)
    BY <1>1, <1>4, <1>10
  <2>5. QED
    BY <2>1, <2>2, <2>3, <2>4 DEF Settled
<1>13. QED
  BY <1>11, <1>12

LEMMA PushFollowed ==
  ASSUME TypeOK, LinkUp, NEW first, NEW to, NEW forced, Pushing(first, to, forced), Undisturbed,
         NEW q \in Phone, live[q], socket[q].conn \in Conn, connOf'[q] = socket[q].conn,
         \A i \in 1 .. Len(toHost'[q]) : toHost'[q][i].conn = socket[q].conn,
         (\E k \in 0 .. Len(toPhone[q]) : Settled(q, k)) \/ (forced /\ q \in to)
  PROVE  Followed(q)'
<1> DEFINE w == Sent(q, first[q], to, forced)
<1>1. /\ Arrived(q, w)
      /\ Renewed(q, w) \/ (Chained(q, w) /\ ~(forced /\ q \in to))
      /\ cursor[q] \in Nat /\ cursor'[q] \in Nat /\ cursor[q] <= cursor'[q]
  BY PushArrives
<1>2. held' = held /\ socket' = socket /\ Numbers
  BY TypeParts DEF Undisturbed, phone
<1> HIDE DEF w
<1>3. \E k \in 0 .. Len(toPhone'[q]) : Settled(q, k)'
  <2>1. CASE Renewed(q, w)
    BY <1>1, <1>2, <2>1, RenewedSettles
  <2>2. CASE Chained(q, w) /\ ~(forced /\ q \in to)
    <3>1. PICK k \in 0 .. Len(toPhone[q]) : Settled(q, k)
      BY <2>2
    <3>2. k \in 0 .. Len(toPhone'[q]) /\ Settled(q, k)'
      BY <1>1, <1>2, <2>2, <3>1, ChainedSettles
    <3>3. QED
      BY <3>2
  <2>3. QED
    BY <1>1, <2>1, <2>2
<1>4. QED
  BY <1>2, <1>3 DEF Followed

\* What the phone follows does not change.
SameFollow(q) ==
  /\ socket'[q] = socket[q] /\ toPhone'[q] = toPhone[q] /\ toHost'[q] = toHost[q]
  /\ connOf'[q] = connOf[q] /\ held'[q] = held[q] /\ cursor'[q] = cursor[q]

LEMMA SameFollowStays ==
  ASSUME NEW q \in Phone, SameFollow(q), Asking(q) \/ Followed(q)
  PROVE  Asking(q)' \/ Followed(q)'
<1>1. CASE Asking(q)
  BY <1>1 DEF Asking, SameFollow
<1>2. ASSUME Followed(q) PROVE Followed(q)'
  <2>1. PICK k \in 0 .. Len(toPhone[q]) : Settled(q, k)
    BY <1>2 DEF Followed
  <2>2. Start(q, k)' = Start(q, k)
    BY DEF Start, SameFollow
  <2>3. Settled(q, k)'
    BY <2>1, <2>2 DEF Settled, SameFollow
  <2>4. QED
    BY <1>2, <2>1, <2>3 DEF Followed, SameFollow
<1>3. QED
  BY <1>1, <1>2

\* The appliance answers a phone: what it asked for is now on its way.
LEMMA AnswerFollowing ==
  ASSUME IInv, LinkUp, NEW q \in Phone, Handle(q), live[q], creds[q].role = "approved",
         Asking(q) \/ Followed(q)
  PROVE  Asking(q)' \/ Followed(q)'
<1> DEFINE c == socket[q].conn
           s == toHost[q]
           t == toHost'[q]
<1>1. /\ TypeOK /\ ToHostType /\ KnownTypes /\ PhoneTypes /\ DeviceOf(q)
  BY TypeParts DEF IInv, Devices
<1>2. c \in Conn /\ q \in approved
  BY <1>1, ConnFacts, TokenConns DEF DeviceOf, PhoneTypes
<1>3. /\ Undisturbed
      /\ \E first, to, forced :
           /\ Pushing(first, to, forced)
           /\ s[1].kind \in {"hello", "resync_request"} => forced /\ q \in to
      /\ \E k : Heard(q, k)
  <2>1. CASE HandleJoin(q)
    <3>1. Pushing(Only(q, Result), approved, FALSE) /\ Undisturbed /\ Heard(q, "join")
      BY <1>1, <2>1, JoinPushes
    <3>2. s[1].kind = "join"
      BY <1>1, <3>1, HeardIs
    <3>3. QED
      BY <3>1, <3>2
  <2>2. CASE HandlePresence(q)
    BY <1>1, <1>2, <2>2, PresencePushes
  <2>3. CASE HandleResync(q)
    BY <1>1, <1>2, <2>3, ResyncPushes
  <2>4. CASE HandleCommand(q)
    <3>1. /\ \E to : Pushing(Only(q, Result), to, FALSE)
          /\ Undisturbed /\ Heard(q, "client_command")
      BY <1>1, <2>4, CommandPushes
    <3>2. s[1].kind = "client_command"
      BY <1>1, <3>1, HeardIs
    <3>3. QED
      BY <3>1, <3>2
  <2>5. QED
    BY <2>1, <2>2, <2>3, <2>4 DEF Handle
<1>4. /\ Len(s) \in Nat /\ Len(s) >= 1 /\ Len(t) = Len(s) - 1 /\ connOf'[q] = s[1].conn
      /\ \A i \in 1 .. Len(t) : t[i] = s[i + 1]
  BY <1>1, <1>3, HeardIs
<1>5. socket' = socket
  BY <1>3 DEF Undisturbed
<1>6. PICK first, to, forced :
        /\ Pushing(first, to, forced)
        /\ s[1].kind \in {"hello", "resync_request"} => forced /\ q \in to
  BY <1>3
<1> HIDE DEF s
<1>7. ASSUME s[1].conn = c, \A i \in 1 .. Len(s) : s[i].conn = c,
             \/ \E k \in 0 .. Len(toPhone[q]) : Settled(q, k)
             \/ forced /\ q \in to
      PROVE  Followed(q)'
  <2>1. \A i \in 1 .. Len(t) : t[i].conn = c
    <3>1. \A i \in 1 .. Len(t) : i + 1 \in 1 .. Len(s)
      BY <1>4
    <3>2. QED
      BY <1>4, <1>7, <3>1
  <2>2. connOf'[q] = c
    BY <1>4, <1>7
  <2>3. QED
    BY <1>1, <1>2, <1>3, <1>6, <1>7, <2>1, <2>2, PushFollowed
<1>8. CASE Asking(q)
  <2>1. PICK i \in 1 .. Len(s) :
          /\ s[i].kind \in {"hello", "resync_request"}
          /\ \A j \in i .. Len(s) : s[j].conn = c
    BY <1>8 DEF Asking, s
  <2>2. CASE i = 1
    <3>1. s[1].conn = c /\ \A j \in 1 .. Len(s) : s[j].conn = c
      BY <1>4, <2>1, <2>2
    <3>2. forced /\ q \in to
      BY <1>6, <2>1, <2>2
    <3>3. QED
      BY <1>7, <3>1, <3>2
  <2>3. CASE i # 1
    <3>1. i - 1 \in 1 .. Len(t) /\ (i - 1) + 1 = i
      BY <1>4, <2>3
    <3>2. t[i - 1].kind \in {"hello", "resync_request"}
      BY <1>4, <2>1, <3>1
    <3>3. ASSUME NEW j \in i - 1 .. Len(t) PROVE t[j].conn = c
      <4>1. j \in 1 .. Len(t) /\ j + 1 \in i .. Len(s)
        BY <1>4, <2>3, <3>3
      <4>2. QED
        BY <1>4, <2>1, <4>1
    <3>4. QED
      BY <1>5, <3>1, <3>2, <3>3 DEF Asking
  <2>4. QED
    BY <2>2, <2>3
<1>9. CASE Followed(q)
  <2>1. \A i \in 1 .. Len(s) : s[i].conn = c
    BY <1>9 DEF Followed, s
  <2>2. 1 \in 1 .. Len(s)
    BY <1>4
  <2>3. \E k \in 0 .. Len(toPhone[q]) : Settled(q, k)
    BY <1>9 DEF Followed
  <2>4. QED
    BY <1>7, <2>1, <2>2, <2>3
<1>10. QED
  BY <1>8, <1>9

LEMMA HostFollowing ==
  ASSUME IInv, LinkUp, \/ \E p \in Phone : Host(p)
                       \/ Timer,
         NEW q \in Phone, live[q], creds[q].role = "approved", Asking(q) \/ Followed(q)
  PROVE  Asking(q)' \/ Followed(q)'
<1>1. /\ TypeOK /\ ToHostType /\ KnownTypes /\ PhoneTypes /\ DeviceOf(q)
  BY TypeParts DEF IInv, Devices
<1>2. socket[q].conn \in Conn
  BY <1>1, ConnFacts, TokenConns DEF DeviceOf, PhoneTypes
<1>3. /\ Undisturbed
      /\ \/ \E first, to, forced : Pushing(first, to, forced)
         \/ Silent /\ connOf' = connOf
  BY <1>1, HostSends
<1>4. CASE Handle(q)
  BY <1>4, AnswerFollowing
<1>5. CASE connOf'[q] = connOf[q] /\ toHost'[q] = toHost[q]
  <2>1. socket' = socket /\ held' = held
    BY <1>3 DEF Undisturbed, phone
  <2>2. CASE Asking(q)
    BY <1>5, <2>1, <2>2 DEF Asking
  <2>3. CASE Followed(q) /\ Silent
    BY <1>5, <2>1, <2>3, SameFollowStays DEF SameFollow, Silent
  <2>4. ASSUME Followed(q), NEW first, NEW to, NEW forced, Pushing(first, to, forced)
        PROVE  Followed(q)'
    <3>1. /\ connOf'[q] = socket[q].conn
          /\ \A i \in 1 .. Len(toHost'[q]) : toHost'[q][i].conn = socket[q].conn
          /\ \E k \in 0 .. Len(toPhone[q]) : Settled(q, k)
      BY <1>5, <2>4 DEF Followed
    <3>2. QED
      BY <1>1, <1>2, <1>3, <2>4, <3>1, PushFollowed
  <2>5. QED
    BY <1>3, <2>2, <2>3, <2>4
<1>6. Handle(q) \/ (connOf'[q] = connOf[q] /\ toHost'[q] = toHost[q])
  <2>1. ASSUME NEW p \in Phone, Handle(p), p # q
        PROVE  connOf'[q] = connOf[q] /\ toHost'[q] = toHost[q]
    <3>1. \E k \in {"join", "hello", "connection_status", "resync_request", "client_command"} : Heard(p, k)
      BY <2>1 DEF Handle, HandleJoin, HandlePresence, HandleResync, HandleCommand
    <3>2. QED
      BY <1>1, <2>1, <3>1, HeardIs
  <2>2. ASSUME NEW p \in Phone, Approve(p) \/ Grant(p)
        PROVE  toHost' = toHost /\ connOf' = connOf
    BY <2>2 DEF Approve, Grant
  <2>3. Timer => toHost' = toHost /\ connOf' = connOf
    BY DEF Timer
  <2>4. QED
    BY <2>1, <2>2, <2>3 DEF Host
<1>7. QED
  BY <1>4, <1>5, <1>6

\* The phone takes the first frame, and what it follows from stays behind it.
Shifted(q) ==
  /\ Len(toPhone[q]) \in Nat /\ Len(toPhone'[q]) = Len(toPhone[q]) - 1
  /\ \A i \in 1 .. Len(toPhone'[q]) :
       i + 1 \in 1 .. Len(toPhone[q]) /\ toPhone'[q][i] = toPhone[q][i + 1]
  /\ cursor' = cursor

LEMMA ShiftSettles ==
  ASSUME NEW q \in Phone, Shifted(q), NEW k \in 1 .. Len(toPhone[q]), Settled(q, k),
         Start(q, k - 1)' = Start(q, k)
  PROVE  k - 1 \in 0 .. Len(toPhone'[q]) /\ Settled(q, k - 1)'
<1> DEFINE s == toPhone[q]
           t == toPhone'[q]
           l == Len(s)
           x == Start(q, k)
<1>1. /\ l \in Nat /\ Len(t) = l - 1 /\ k \in 1 .. l
      /\ \A i \in 1 .. l - 1 : i + 1 \in 1 .. l /\ t[i] = s[i + 1]
      /\ cursor'[q] = cursor[q]
  BY DEF Shifted
<1>2. /\ s[k].body.kind = "snapshot" /\ x <= cursor[q]
      /\ \A i \in k + 1 .. l :
           /\ s[i].body.kind # "snapshot"
           /\ s[i].body.kind = "delta" => x < s[i].body.view /\ s[i].body.view <= cursor[q]
      /\ \A i, j \in k + 1 .. l :
           i < j /\ s[i].body.kind = "delta" /\ s[j].body.kind = "delta" =>
             s[i].body.view < s[j].body.view
      /\ \A v \in x + 1 .. cursor[q] : \E i \in k + 1 .. l : s[i].body = Delta(v)
  BY DEF Settled
<1>3. Start(q, k - 1)' = x
  OBVIOUS
<1> HIDE DEF s, l, x
<1>4. ASSUME NEW i \in (k - 1) + 1 .. l - 1
      PROVE  i + 1 \in k + 1 .. l /\ t[i] = s[i + 1]
  BY <1>1
<1>5. k - 1 \in 0 .. l - 1
  BY <1>1
<1>6. k - 1 # 0 => t[k - 1].body.kind = "snapshot"
  <2>1. k - 1 # 0 => k - 1 \in 1 .. l - 1 /\ (k - 1) + 1 = k
    BY <1>1
  <2>2. QED
    BY <1>1, <1>2, <2>1
<1>7. \A i \in (k - 1) + 1 .. l - 1 :
        /\ t[i].body.kind # "snapshot"
        /\ t[i].body.kind = "delta" => x < t[i].body.view /\ t[i].body.view <= cursor[q]
  BY <1>2, <1>4
<1>8. ASSUME NEW i \in (k - 1) + 1 .. l - 1, NEW j \in (k - 1) + 1 .. l - 1, i < j,
             t[i].body.kind = "delta", t[j].body.kind = "delta"
      PROVE  t[i].body.view < t[j].body.view
  <2>1. i + 1 < j + 1
    BY <1>1, <1>8
  <2>2. QED
    BY <1>2, <1>4, <1>8, <2>1
<1>9. ASSUME NEW v \in x + 1 .. cursor[q]
      PROVE  \E i \in (k - 1) + 1 .. l - 1 : t[i].body = Delta(v)
  <2>1. PICK i \in k + 1 .. l : s[i].body = Delta(v)
    BY <1>2
  <2>2. i - 1 \in (k - 1) + 1 .. l - 1 /\ (i - 1) + 1 = i
    BY <1>1
  <2>3. t[i - 1] = s[i]
    BY <1>4, <2>2
  <2>4. QED
    BY <2>1, <2>2, <2>3
<1>10. Settled(q, k - 1)'
  BY <1>1, <1>2, <1>3, <1>6, <1>7, <1>8, <1>9 DEF Settled
<1>11. QED
  BY <1>1, <1>5, <1>10

\* Without a snapshot on its way the phone reads a delta, or what is no view.
LEMMA ReadSettles ==
  ASSUME TypeOK, NEW q \in Phone, Shifted(q), toPhone[q] # <<>>, Settled(q, 0),
         \/ /\ held'[q] = held[q]
            /\ ~IsView(toPhone[q][1].body)
         \/ /\ held'[q] = toPhone[q][1].body.view
            /\ toPhone[q][1].body.base = held[q]
            /\ toPhone[q][1].body.kind = "delta"
  PROVE  Settled(q, 0)'
<1> DEFINE s == toPhone[q]
           t == toPhone'[q]
           l == Len(s)
           x == held[q]
           y == held'[q]
           c == cursor[q]
<1>1. /\ l \in Nat /\ Len(t) = l - 1 /\ 1 \in 1 .. l
      /\ \A i \in 1 .. l - 1 : i + 1 \in 1 .. l /\ t[i] = s[i + 1]
      /\ cursor'[q] = c
  BY TypeParts, HeadIs DEF Shifted
<1>2. /\ x <= c
      /\ \A i \in 1 .. l :
           /\ s[i].body.kind # "snapshot"
           /\ s[i].body.kind = "delta" => x < s[i].body.view /\ s[i].body.view <= c
      /\ \A i, j \in 1 .. l :
           i < j /\ s[i].body.kind = "delta" /\ s[j].body.kind = "delta" =>
             s[i].body.view < s[j].body.view
      /\ \A v \in x + 1 .. c : \E i \in 1 .. l : s[i].body = Delta(v)
  BY DEF Settled, Start
<1>3. x \in Nat /\ c \in Nat
  BY DEF TypeOK
<1>4. /\ \A i \in 1 .. l : s[i].body.kind = "delta" => s[i].body.view \in Nat
      /\ s[1].body \in Body
  BY <1>1, FrameFacts, TypeParts, ConnFacts DEF IsView
<1>5. \/ y = x /\ s[1].body.kind # "delta"
      \/ y = x + 1 /\ s[1].body.kind = "delta" /\ s[1].body.view = y
  <2>1. CASE y = x /\ ~IsView(s[1].body)
    BY <2>1 DEF IsView
  <2>2. CASE y = s[1].body.view /\ s[1].body.base = x /\ s[1].body.kind = "delta"
    <3>1. s[1].body.base = s[1].body.view - 1 /\ s[1].body.view \in Nat
      BY <1>1, <1>4, <2>2, BodyIs, BodyFacts
    <3>2. QED
      BY <1>3, <2>2, <3>1
  <2>3. QED
    BY <2>1, <2>2
<1>6. Start(q, 0)' = y
  BY DEF Start
<1> HIDE DEF s, l, x, c
<1>7. y <= c /\ y \in Nat /\ x <= y
  BY <1>1, <1>2, <1>3, <1>5
<1>8. ASSUME NEW i \in 1 .. l - 1
      PROVE  /\ t[i].body.kind # "snapshot"
             /\ t[i].body.kind = "delta" => y < t[i].body.view /\ t[i].body.view <= c
  <2>1. i + 1 \in 1 .. l /\ t[i] = s[i + 1] /\ 1 < i + 1
    BY <1>1
  <2>2. CASE y = x
    BY <1>2, <2>1, <2>2
  <2>3. CASE s[1].body.kind = "delta" /\ s[1].body.view = y
    BY <1>1, <1>2, <2>1, <2>3
  <2>4. QED
    BY <1>5, <2>2, <2>3
<1>9. ASSUME NEW i \in 1 .. l - 1, NEW j \in 1 .. l - 1, i < j,
             t[i].body.kind = "delta", t[j].body.kind = "delta"
      PROVE  t[i].body.view < t[j].body.view
  <2>1. i + 1 < j + 1
    BY <1>1, <1>9
  <2>2. QED
    BY <1>1, <1>2, <1>9, <2>1
<1>10. ASSUME NEW v \in y + 1 .. c PROVE \E i \in 1 .. l - 1 : t[i].body = Delta(v)
  <2>1. v \in x + 1 .. c /\ v # y
    BY <1>3, <1>7
  <2>2. PICK i \in 1 .. l : s[i].body = Delta(v)
    BY <1>2, <2>1
  <2>3. i # 1
    <3>1. Delta(v).kind = "delta" /\ Delta(v).view = v
      BY DEF Delta
    <3>2. QED
      BY <1>5, <2>1, <2>2, <3>1
  <2>4. i - 1 \in 1 .. l - 1 /\ (i - 1) + 1 = i
    BY <1>1, <2>3
  <2>5. t[i - 1] = s[i]
    BY <1>1, <2>4
  <2>6. QED
    BY <2>2, <2>4, <2>5
<1>11. Settled(q, 0)'
  <2>1. \A i \in 0 + 1 .. Len(t) : i \in 1 .. l - 1
    BY <1>1
  <2>2. \A i \in 1 .. l - 1 : i \in 0 + 1 .. Len(t)
    BY <1>1
  <2>3. QED
    BY <1>1, <1>6, <1>7, <1>8, <1>9, <1>10, <2>1, <2>2 DEF Settled
<1>12. QED
  BY <1>11

LEMMA SayAdds ==
  ASSUME ToHostType, NEW p \in Phone, NEW s \in Seq(Message), Say(p, s), hostLive
  PROVE  /\ Len(toHost[p]) \in Nat /\ Len(s) \in Nat
         /\ Len(toHost'[p]) = Len(toHost[p]) + Len(s)
         /\ \A i \in 1 .. Len(toHost[p]) : toHost'[p][i] = toHost[p][i]
         /\ \A i \in 1 .. Len(s) : toHost'[p][Len(toHost[p]) + i] = s[i]
<1> DEFINE h == toHost[p]
           l == Len(h)
           m == Len(s)
<1>1. toHost'[p] = h \o s /\ h \in Seq(Message) /\ l \in Nat /\ m \in Nat
  BY SayIs, LenProperties DEF ToHostType
<1>2. /\ Len(h \o s) = l + m
      /\ \A i \in 1 .. l + m : (h \o s)[i] = IF i <= l THEN h[i] ELSE s[i - l]
  BY <1>1, ConcatProperties
<1>3. toHost'[p] = h \o s
  BY <1>1
<1> HIDE DEF h, l, m
<1>4. ASSUME NEW i \in 1 .. l PROVE (h \o s)[i] = h[i]
  <2>1. i \in 1 .. l + m /\ i <= l
    BY <1>1
  <2>2. QED
    BY <1>2, <2>1
<1>5. ASSUME NEW i \in 1 .. m PROVE (h \o s)[l + i] = s[i]
  <2>1. l + i \in 1 .. l + m /\ ~(l + i <= l) /\ (l + i) - l = i
    BY <1>1
  <2>2. QED
    BY <1>2, <2>1
<1>6. QED
  BY <1>1, <1>2, <1>3, <1>4, <1>5 DEF h, l, m

\* Who says that it needs its view will get it.
LEMMA AsksNow ==
  ASSUME ToHostType, NEW p \in Phone, NEW s \in Seq(Message), Say(p, s), hostLive,
         Len(s) >= 1, s[1].kind \in {"hello", "resync_request"},
         \A i \in 1 .. Len(s) : s[i].conn = socket'[p].conn
  PROVE  Asking(p)'
<1> DEFINE l == Len(toHost[p])
           m == Len(s)
           t == toHost'[p]
<1>1. /\ l \in Nat /\ m \in Nat /\ Len(t) = l + m /\ m >= 1
      /\ \A i \in 1 .. m : t[l + i] = s[i]
  BY SayAdds
<1>2. PICK k \in Nat : k = l + 1
  BY <1>1
<1> HIDE DEF l, m
<1>3. k \in 1 .. Len(t) /\ t[k].kind \in {"hello", "resync_request"}
  <2>1. 1 \in 1 .. m
    BY <1>1
  <2>2. t[l + 1] = s[1]
    BY <1>1, <2>1
  <2>3. QED
    BY <1>1, <1>2, <2>2
<1>4. ASSUME NEW j \in k .. Len(t) PROVE t[j].conn = socket'[p].conn
  <2>1. j - l \in 1 .. m /\ l + (j - l) = j
    BY <1>1, <1>2
  <2>2. t[j] = s[j - l]
    BY <1>1, <2>1
  <2>3. QED
    BY <2>1, <2>2 DEF m
<1>5. QED
  BY <1>3, <1>4 DEF Asking

\* What the phone says on its connection disturbs neither.
LEMMA SayFollows ==
  ASSUME ToHostType, NEW p \in Phone, NEW s \in Seq(Message), Say(p, s), hostLive,
         \A i \in 1 .. Len(s) : s[i].conn = socket[p].conn,
         socket'[p] = socket[p], toPhone'[p] = toPhone[p], connOf'[p] = connOf[p],
         held'[p] = held[p], cursor'[p] = cursor[p], Asking(p) \/ Followed(p)
  PROVE  Asking(p)' \/ Followed(p)'
<1> DEFINE h == toHost[p]
           l == Len(h)
           m == Len(s)
           t == toHost'[p]
<1>1. /\ l \in Nat /\ m \in Nat /\ Len(t) = l + m
      /\ \A i \in 1 .. l : t[i] = h[i]
      /\ \A i \in 1 .. m : t[l + i] = s[i]
  BY SayAdds
<1>s. \A i \in 1 .. m : s[i].conn = socket[p].conn
  OBVIOUS
<1>2. CASE Asking(p)
  <2>1. PICK i \in 1 .. l : /\ h[i].kind \in {"hello", "resync_request"}
                            /\ \A j \in i .. l : h[j].conn = socket[p].conn
    BY <1>2 DEF Asking
  <2> HIDE DEF h, l, m
  <2>2. i \in 1 .. Len(t) /\ t[i].kind \in {"hello", "resync_request"}
    BY <1>1, <2>1
  <2>3. ASSUME NEW j \in i .. Len(t) PROVE t[j].conn = socket[p].conn
    <3>1. CASE j <= l
      <4>1. j \in 1 .. l /\ j \in i .. l
        BY <1>1, <3>1
      <4>2. QED
        BY <1>1, <2>1, <4>1
    <3>2. CASE j > l
      <4>1. j - l \in 1 .. m /\ l + (j - l) = j
        BY <1>1, <3>2
      <4>2. t[j] = s[j - l]
        BY <1>1, <4>1
      <4>3. QED
        BY <1>s, <4>1, <4>2
    <3>3. j <= l \/ j > l
      BY <1>1
    <3>4. QED
      BY <3>1, <3>2, <3>3
  <2>4. QED
    BY <2>2, <2>3 DEF Asking
<1>3. CASE Followed(p)
  <2>1. PICK k \in 0 .. Len(toPhone[p]) : Settled(p, k)
    BY <1>3 DEF Followed
  <2>2. Start(p, k)' = Start(p, k)
    BY DEF Start
  <2>3. Settled(p, k)'
    BY <2>1, <2>2 DEF Settled
  <2>4. \A i \in 1 .. l : h[i].conn = socket[p].conn
    BY <1>3 DEF Followed
  <2> HIDE DEF h, l, m
  <2>5. ASSUME NEW j \in 1 .. Len(t) PROVE t[j].conn = socket[p].conn
    <3>1. CASE j <= l
      <4>1. j \in 1 .. l
        BY <1>1, <3>1
      <4>2. QED
        BY <1>1, <2>4, <4>1
    <3>2. CASE j > l
      <4>1. j - l \in 1 .. m /\ l + (j - l) = j
        BY <1>1, <3>2
      <4>2. t[j] = s[j - l]
        BY <1>1, <4>1
      <4>3. QED
        BY <1>s, <4>1, <4>2
    <3>3. j <= l \/ j > l
      BY <1>1
    <3>4. QED
      BY <3>1, <3>2, <3>3
  <2>6. QED
    BY <1>3, <2>1, <2>3, <2>5 DEF Followed
<1>4. QED
  BY <1>2, <1>3

LEMMA ReceiveFollowing ==
  ASSUME IInv, LinkUp, NEW p \in Phone, Receive(p), live'[p], creds'[p].role = "approved",
         live[p] /\ creds[p].role = "approved" => Asking(p) \/ Followed(p)
  PROVE  Asking(p)' \/ Followed(p)'
<1> DEFINE f == toPhone[p][1]
           s == toPhone[p]
<1>1. /\ TypeOK /\ ToHostType /\ PhoneTypes /\ Numbers /\ DeviceOf(p) /\ held \in [Phone -> 0 .. view]
  BY TypeParts DEF IInv, Devices, TypeOK
<1>2. /\ s # <<>> /\ live[p] /\ f \in Frame /\ hostLive
      /\ toPhone' = [toPhone EXCEPT ![p] = Tail(@)]
      /\ connOf' = connOf /\ cursor' = cursor /\ socket' = socket
  BY ReceiveIs DEF LinkUp, appliance
<1>3. /\ f.body # Approval /\ UNCHANGED <<creds, phase, live>>
      /\ \/ f.body = Result /\ UNCHANGED <<held, screen, toHost>>
         \/ /\ f.body # Result
            /\ f.body.kind = "snapshot" \/ f.body.base = held[p]
            /\ held' = [held EXCEPT ![p] = f.body.view]
            /\ UNCHANGED toHost
         \/ /\ f.body # Result
            /\ ~(f.body.kind = "snapshot" \/ f.body.base = held[p])
            /\ Say(p, <<Said("resync_request", creds[p].conn)>>)
  <2>1. \/ live' = [live EXCEPT ![p] = FALSE]
        \/ /\ f.body # Approval /\ UNCHANGED <<creds, phase, live>>
           /\ \/ f.body = Result /\ UNCHANGED <<held, screen, toHost>>
              \/ /\ f.body # Result
                 /\ f.body.kind = "snapshot" \/ f.body.base = held[p]
                 /\ held' = [held EXCEPT ![p] = f.body.view]
                 /\ UNCHANGED toHost
              \/ /\ f.body # Result
                 /\ ~(f.body.kind = "snapshot" \/ f.body.base = held[p])
                 /\ Say(p, <<Said("resync_request", creds[p].conn)>>)
    BY ReceiveIs
  <2>2. live' # [live EXCEPT ![p] = FALSE]
    BY <1>1 DEF PhoneTypes
  <2>3. QED
    BY <2>1, <2>2
<1>4. Asking(p) \/ Followed(p)
  BY <1>2, <1>3
<1>5. Shifted(p)
  BY <1>1, <1>2, TailIs DEF Shifted
<1>6. 1 \in 1 .. Len(s) /\ f.body \in Body
  BY <1>1, <1>2, HeadIs, FrameFacts
<1>7. CASE /\ f.body # Result
           /\ ~(f.body.kind = "snapshot" \/ f.body.base = held[p])
           /\ Say(p, <<Said("resync_request", creds[p].conn)>>)
  <2>1. socket[p] = creds[p] /\ creds[p].conn \in Conn
    BY <1>1, <1>2, <1>3, ConnFacts, TokenConns DEF DeviceOf, PhoneTypes
  <2> DEFINE r == <<Said("resync_request", creds[p].conn)>>
  <2>2. /\ r \in Seq(Message) /\ Len(r) = 1 /\ r[1] = Said("resync_request", creds[p].conn)
        /\ r[1].kind = "resync_request" /\ r[1].conn = creds[p].conn
    BY <2>1, SaidIs
  <2>3. Say(p, r) /\ \A i \in 1 .. Len(r) : i = 1
    BY <1>7, <2>2
  <2> HIDE DEF r
  <2>4. Asking(p)'
    BY <1>1, <1>2, <2>1, <2>2, <2>3, AsksNow
  <2>5. QED
    BY <2>4
<1>8. CASE \/ f.body = Result /\ UNCHANGED <<held, toHost>>
           \/ /\ f.body # Result
              /\ f.body.kind = "snapshot" \/ f.body.base = held[p]
              /\ held' = [held EXCEPT ![p] = f.body.view]
              /\ UNCHANGED toHost
  <2>1. CASE Asking(p)
    BY <1>2, <1>8, <2>1 DEF Asking
  <2>2. ASSUME Followed(p) PROVE Followed(p)'
    <3>1. PICK k \in 0 .. Len(s) : Settled(p, k)
      BY <2>2 DEF Followed
    <3>2. \E j \in 0 .. Len(toPhone'[p]) : Settled(p, j)'
      <4>1. CASE k = 0
        <5>1. Settled(p, 0) /\ f.body.kind # "snapshot"
          <6>1. Settled(p, 0)
            BY <3>1, <4>1
          <6>2. \A i \in 0 + 1 .. Len(s) : s[i].body.kind # "snapshot"
            BY <6>1 DEF Settled
          <6>3. 1 \in 0 + 1 .. Len(s)
            BY <1>6
          <6>4. QED
            BY <6>1, <6>2, <6>3
        <5>2. \/ held'[p] = held[p] /\ ~IsView(f.body)
              \/ held'[p] = f.body.view /\ f.body.base = held[p] /\ f.body.kind = "delta"
          <6>1. CASE f.body = Result /\ UNCHANGED held
            BY <6>1, BodyFacts
          <6>2. CASE f.body # Result /\ held' = [held EXCEPT ![p] = f.body.view]
            <7>1. f.body.kind = "delta"
              BY <1>3, <1>6, <5>1, <6>2, BodyIs
            <7>2. QED
              BY <1>1, <1>8, <5>1, <6>2, <7>1
          <6>3. QED
            BY <1>8, <6>1, <6>2
        <5>3. Settled(p, 0)'
          BY <1>1, <1>2, <1>5, <5>1, <5>2, ReadSettles
        <5>4. 0 \in 0 .. Len(toPhone'[p])
          BY <1>5, <1>6 DEF Shifted
        <5>5. QED
          BY <5>3, <5>4
      <4>2. CASE k # 0
        <5>1. k \in 1 .. Len(s) /\ Len(s) \in Nat /\ s[k].body.kind = "snapshot"
          BY <1>5, <3>1, <4>2 DEF Settled, Shifted
        <5>2. Start(p, k) = s[k].body.view
          BY <4>2 DEF Start
        <5>3. Start(p, k - 1)' = Start(p, k)
          <6>1. CASE k = 1
            <7>1. f.body # Result /\ held'[p] = f.body.view
              BY <1>1, <1>8, <5>1, <6>1, BodyFacts
            <7>2. QED
              BY <5>2, <6>1, <7>1 DEF Start
          <6>2. CASE k # 1
            <7>1. k - 1 \in 1 .. Len(toPhone'[p]) /\ (k - 1) + 1 = k /\ k - 1 # 0
              BY <1>5, <5>1, <6>2 DEF Shifted
            <7>2. toPhone'[p][k - 1] = s[k]
              BY <1>5, <7>1 DEF Shifted
            <7>3. QED
              BY <5>2, <7>1, <7>2 DEF Start
          <6>3. QED
            BY <6>1, <6>2
        <5>4. k - 1 \in 0 .. Len(toPhone'[p]) /\ Settled(p, k - 1)'
          BY <1>5, <3>1, <5>1, <5>3, ShiftSettles
        <5>5. QED
          BY <5>4
      <4>3. QED
        BY <4>1, <4>2
    <3>3. QED
      BY <1>2, <1>8, <2>2, <3>2 DEF Followed
  <2>3. QED
    BY <1>4, <2>1, <2>2
<1>9. QED
  BY <1>3, <1>7, <1>8

LEMMA ActFollowing ==
  ASSUME IInv, LinkUp, Devices', NEW p \in Phone, Act(p), live'[p], creds'[p].role = "approved",
         live[p] /\ creds[p].role = "approved" => Asking(p) \/ Followed(p)
  PROVE  Asking(p)' \/ Followed(p)'
<1>1. /\ TypeOK /\ ToHostType /\ PhoneTypes /\ Numbers /\ DeviceOf(p) /\ DeviceOf(p)' /\ hostLive
  BY TypeParts DEF IInv, Devices, LinkUp
<1>2. CASE Receive(p)
  BY <1>2, ReceiveFollowing
<1>3. CASE Connect(p)
  <2>1. /\ Connecting(p) /\ creds' = creds /\ socket'[p] = creds[p]
        /\ Say(p, IF socket[p] = creds[p] THEN <<>> ELSE Greeting(p))
    BY <1>1, <1>3 DEF Connect, PhoneTypes
  <2>2. creds[p].role = "approved" /\ creds[p].conn \in Conn
    BY <1>1, <2>1, ConnFacts, TokenConns DEF PhoneTypes
  <2>3. socket[p] # creds[p]
    BY <1>1, <2>1, <2>2 DEF Connecting, DeviceOf
  <2>4. /\ Greeting(p) \in Seq(Message) /\ Len(Greeting(p)) >= 1
        /\ \A i \in 1 .. Len(Greeting(p)) : Greeting(p)[i].conn = creds[p].conn
        /\ Greeting(p)[1].kind = "hello"
    BY <2>2, GreetingIs
  <2>5. Say(p, Greeting(p))
    BY <2>1, <2>3
  <2>6. QED
    BY <1>1, <2>1, <2>4, <2>5, AsksNow
<1>4. CASE SendCommand(p)
  <2>1. /\ live[p] /\ UNCHANGED <<creds, socket, toPhone, connOf, held, cursor>>
        /\ Say(p, <<Said("client_command", creds[p].conn)>>)
    BY <1>4 DEF SendCommand, phone, appliance
  <2>2. socket[p] = creds[p] /\ creds[p].role = "approved" /\ creds[p].conn \in Conn
    BY <1>1, <2>1, ConnFacts, TokenConns DEF DeviceOf, PhoneTypes
  <2> DEFINE r == <<Said("client_command", creds[p].conn)>>
  <2>3. /\ r \in Seq(Message) /\ Len(r) = 1 /\ r[1] = Said("client_command", creds[p].conn)
        /\ r[1].conn = creds[p].conn
    BY <2>2, SaidIs
  <2>4. Say(p, r) /\ \A i \in 1 .. Len(r) : r[i].conn = socket[p].conn
    <3>1. \A i \in 1 .. Len(r) : i = 1
      BY <2>3
    <3>2. QED
      BY <2>1, <2>2, <2>3, <3>1
  <2> HIDE DEF r
  <2>5. QED
    BY <1>1, <2>1, <2>2, <2>3, <2>4, SayFollows
<1>5. CASE Join(p)
  <2>1. creds'[p] = Pending(1)
    BY <1>1, <1>5 DEF Join, PhoneTypes
  <2>2. QED
    BY <2>1, ConnFacts
<1>6. CASE Refused(p) \/ TurnOff(p) \/ Reload(p) \/ PhoneNotices(p)
  <2>1. phase'[p] # "open"
    BY <1>1, <1>6 DEF Refused, TurnOff, Reload, PhoneNotices, PhoneTypes
  <2>2. QED
    BY <1>1, <2>1 DEF DeviceOf
<1>7. CASE Refresh(p) \/ Break(p)
  BY <1>1, <1>7 DEF Refresh, Closed, Break, PhoneTypes
<1>8. CASE RelayNotices(p)
  BY <1>8 DEF RelayNotices
<1>9. QED
  BY <1>2, <1>3, <1>4, <1>5, <1>6, <1>7, <1>8 DEF Act

LEMMA StayFollowing ==
  ASSUME IInv, [Next]_vars
  PROVE  Following'
<1>1. SUFFICES ASSUME Kept', NEW q \in Phone, live'[q], creds'[q].role = "approved"
               PROVE  Asking(q)' \/ Followed(q)'
  BY DEF Following
<1>2. /\ Kept /\ TypeOK /\ TypeOK' /\ Devices'
      /\ \/ LinkUp /\ \/ \E p \in Phone : Host(p)
                      \/ Timer
         \/ \E p \in Phone : Act(p)
         \/ LinkNew /\ HostConnect
         \/ UNCHANGED vars
  BY <1>1, KeptSteps, StaysTyped, StayDevices DEF IInv
<1>3. live[q] /\ creds[q].role = "approved" => Asking(q) \/ Followed(q)
  BY <1>2 DEF IInv, Following
<1>4. LinkUp \/ LinkNew
  BY <1>2 DEF IInv, LinkKept
<1>5. q \in asked'
  <2>1. grant'[q].role = "approved" => q \in approved'
    BY <1>2 DEF Devices, DeviceOf
  <2>2. grant'[q].role = "approved"
    BY <1>1, <1>2 DEF Devices, DeviceOf
  <2>3. QED
    BY <1>2, <2>1, <2>2 DEF TypeOK
<1>6. CASE LinkUp /\ ((\E p \in Phone : Host(p)) \/ Timer)
  <2>1. Undisturbed
    BY <1>2, <1>6, HostSends
  <2>2. live[q] /\ creds[q].role = "approved"
    BY <1>1, <2>1 DEF Undisturbed, phone
  <2>3. QED
    BY <1>3, <1>6, <2>2, HostFollowing
<1>7. ASSUME NEW p \in Phone, Act(p) PROVE Asking(q)' \/ Followed(q)'
  <2>1. asked' = asked
    BY <1>7 DEF Act, Join, Connect, Refused, Refresh, SendCommand, Receive, Break, TurnOff,
       Reload, PhoneNotices, RelayNotices, room
  <2>2. LinkUp
    BY <1>4, <1>5, <2>1 DEF LinkNew
  <2>3. CASE q = p
    BY <1>1, <1>2, <1>3, <1>7, <2>2, <2>3, ActFollowing
  <2>4. CASE q # p
    <3>1. SameSmooth(q) /\ held'[q] = held[q] /\ cursor'[q] = cursor[q]
      BY <1>7, <2>4, ActElsewhere
    <3>2. SameFollow(q) /\ live[q] /\ creds[q].role = "approved"
      BY <1>1, <3>1 DEF SameSmooth, SameFollow
    <3>3. QED
      BY <1>3, <3>2, SameFollowStays
  <2>5. QED
    BY <2>3, <2>4
<1>8. CASE LinkNew /\ HostConnect
  BY <1>5, <1>8 DEF LinkNew, HostConnect, room
<1>9. CASE UNCHANGED vars
  <2>1. SameFollow(q) /\ live[q] /\ creds[q].role = "approved"
    BY <1>1, <1>9 DEF SameFollow, vars, phone, appliance
  <2>2. QED
    BY <1>3, <2>1, SameFollowStays
<1>10. QED
  BY <1>2, <1>6, <1>7, <1>8, <1>9

-----------------------------------------------------------------------------
(* The theorems *)

LEMMA Initially == Init => IInv
<1> SUFFICES ASSUME Init PROVE IInv
  OBVIOUS
<1>1. TypeOK
  <2>1. RoomTypes /\ CountTypes
    BY ConnFacts DEF Init, RoomTypes, CountTypes
  <2>2. Numbers /\ LinkTypes /\ KnownTypes /\ ToHostType
    <3>1. <<>> \in Seq(Message) /\ <<>> \in Seq(Frame)
      OBVIOUS
    <3>2. 0 \in Nat /\ -1 \in Nat \cup {-1}
      OBVIOUS
    <3>3. Numbers
      BY <3>1, <3>2 DEF Init, Numbers
    <3>4. ToHostType
      BY <3>1 DEF Init, ToHostType
    <3>5. QED
      BY <3>3, <3>4 DEF Init, LinkTypes, KnownTypes
  <2>3. PhoneTypes
    BY ConnFacts DEF Init, PhoneTypes
  <2>4. QED
    BY <2>1, <2>2, <2>3, TypeParts
<1>2. ASSUME NEW p \in Phone
      PROVE  /\ phase[p] = "out" /\ creds[p] = Nothing /\ grant[p] = Nothing /\ socket[p] = Nothing
             /\ live[p] = FALSE /\ inSeq[p] = -1 /\ toPhone[p] = <<>> /\ toHost[p] = <<>>
             /\ connOf[p] = 0 /\ awaited[p] = 0 /\ Nothing.role = "none" /\ Nothing.conn = 0
             /\ Len(<<>>) = 0
  BY ConnFacts, MessageConns DEF Init, NoConn
<1>3. Devices /\ Spent
  <2>1. faults = 0 /\ 0 <= 0 /\ 0 <= 0 + 1
    BY DEF Init
  <2>2. ASSUME NEW p \in Phone PROVE DeviceOf(p) /\ SpentOf(p)
    BY <1>2, <2>1 DEF DeviceOf, SpentOf, Lost
  <2>3. QED
    BY <2>2 DEF Devices, Spent
<1>4. Known
  <2>1. asked = {} /\ 0 <= 0 /\ 1 .. 0 = {}
    BY DEF Init
  <2>2. ASSUME NEW p \in Phone PROVE KnownOf(p)
    BY <1>2, <2>1 DEF KnownOf, NoConn
  <2>3. QED
    BY <2>2 DEF Known
<1>5. Approvals /\ Ahead
  BY DEF Init, Approvals, ApprovalsOf, Ahead, AheadOf
<1>6. Numbered
  <2>1. \A p \in Phone : \A c \in Conn : nextSeq[p][c] = 0 /\ targets[p][c] = -1
    BY DEF Init
  <2>2. \A p \in Phone : \A c \in Conn : targets[p][c] < nextSeq[p][c]
    BY <2>1
  <2>3. \A p \in Phone : ~live[p]
    BY <1>2
  <2>4. QED
    BY <2>2, <2>3 DEF Numbered, ContiguousTo, NumberedTo
<1>7. LinkKept
  BY DEF Init, LinkKept, LinkNew
<1>8. Smooth
  BY DEF Init, Smooth, SmoothOf
<1>9. Following
  BY DEF Init, Following
<1>10. QED
  BY <1>1, <1>3, <1>4, <1>5, <1>6, <1>7, <1>8, <1>9 DEF IInv

LEMMA Invariance == Spec => []IInv
<1>1. IInv /\ [Next]_vars => IInv'
  BY StaysTyped, StayDevices, StayKnown, StayApprovals, StayAhead, StayNumbered, StayLinkKept,
     StaySmooth, StayFollowing DEF IInv
<1>2. QED
  BY Initially, <1>1, PTL DEF Spec

\* Room, appliance, relay and phones keep their shapes whatever breaks: cursors
\* and views are revisions that the room has had, and each refresh of a token
\* is paid for by a fault (relay/transport.ts, durable-room.ts, client.ts).
THEOREM Typed == Spec => []TypeOK
<1>1. IInv => TypeOK
  BY DEF IInv
<1>2. QED
  BY <1>1, Invariance, PTL

\* While the appliance's process lives, the frames on a phone's socket are
\* numbered without holes and without repetition: #send and webSocketMessage
\* count alike for any number of phones, sockets and reconnections.
THEOREM NoGap == Spec => []Contiguous
<1>1. IInv => Contiguous
  BY DEF IInv, Numbered, ContiguousTo, Contiguous
<1>2. QED
  BY <1>1, Invariance, PTL

\* As long as nothing was lost, a device whose token the relay has exchanged has
\* its approval on the way (the grant of relay/transport.ts and its answer).
THEOREM CanReturn == Spec => []Returnable
<1>1. IInv => Returnable
  BY DEF IInv, Smooth, SmoothOf, Kept, Returnable
<1>2. QED
  BY <1>1, Invariance, PTL

\* While the appliance keeps its link, a connected phone with nothing on its way
\* holds what #participantViewCursors says: whatever its sockets, tokens, pushes
\* and requests for a snapshot do, the chain of deltas reaches the cursor.
THEOREM HoldsCursor == Spec => []CursorIsHeld
<1>1. ASSUME IInv PROVE CursorIsHeld
  <2>1. SUFFICES ASSUME Kept, NEW p \in Phone, live[p], creds[p].role = "approved", Quiet(p)
                 PROVE  held[p] = cursor[p]
    BY DEF CursorIsHeld, Kept
  <2>2. toHost[p] = <<>> /\ toPhone[p] = <<>> /\ Len(<<>>) = 0
    BY <2>1, MessageConns DEF Quiet
  <2>3. ~Asking(p)
    BY <2>2 DEF Asking
  <2>4. Followed(p)
    BY <1>1, <2>1, <2>3 DEF IInv, Following
  <2>5. PICK k \in 0 .. Len(toPhone[p]) : Settled(p, k)
    BY <2>4 DEF Followed
  <2>6. k = 0
    BY <2>2, <2>5
  <2>7. held[p] <= cursor[p] /\ \A v \in held[p] + 1 .. cursor[p] : FALSE
    <3>1. Settled(p, 0) /\ Start(p, 0) = held[p] /\ 0 + 1 .. Len(toPhone[p]) = {}
      BY <2>2, <2>5, <2>6 DEF Start
    <3>2. QED
      BY <3>1 DEF Settled
  <2>8. held[p] \in Nat /\ cursor[p] \in Nat
    BY <1>1 DEF IInv, TypeOK
  <2>9. QED
    BY <2>7, <2>8
<1>2. QED
  BY <1>1, Invariance, PTL

\* A screen never goes back to an older view, whatever is lost, sent again or
\* started again: pushes never send a view older than the cursor, and a socket
\* never carries frames of an earlier one (#receive of client.ts).
THEOREM ScreensAdvance == Spec => NeverBack
<1> DEFINE Onward == \A p \in Phone : screen'[p] >= screen[p] \/ screen'[p] = 0
<1>1. IInv /\ [Next]_vars => [Onward]_screen
  BY StayAhead
<1>2. QED
  BY <1>1, Invariance, PTL DEF Spec, NeverBack

=============================================================================
