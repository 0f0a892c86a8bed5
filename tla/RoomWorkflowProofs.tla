------------------------- MODULE RoomWorkflowProofs -------------------------
(***************************************************************************)
(* What RoomWorkflow guarantees for every set of commands and every bound. *)
(***************************************************************************)
EXTENDS RoomWorkflow, TLAPS

-----------------------------------------------------------------------------
(* The steps of the system, one case per action.                           *)

\* Next unfolded into its actions, so that a proof by cases can cite one step.
LEMMA NextCases ==
  ASSUME Next
  PROVE  \/ \E c \in Mechanic : RefuseUnowned(c)
         \/ \E c \in Mechanic : \E b \in Offered(c) : RefuseCollision(c, b)
         \/ \E c \in Mechanic : \E b \in Offered(c) : RefuseStaleOrBusy(c, b)
         \/ \E c \in Mechanic : \E b \in Offered(c) : StartWorkflow(c, b)
         \/ \E c \in Mechanic : \E b \in Offered(c) : ReplayCompleted(c, b)
         \/ \E c \in Mechanic : \E b \in Offered(c) : ReplayUnfinished(c, b)
         \/ \E c \in Mechanic : RecoverPending(c)
         \/ \E c \in Mechanic : GameReplay(c)
         \/ \E c \in Mechanic : GameCollision(c)
         \/ \E c \in Mechanic : GameReject(c)
         \/ \E c \in Mechanic : GameAccept(c)
         \/ \E c \in Mechanic : GameFail(c)
         \/ \E c \in Mechanic : CompleteWorkflow(c)
         \/ \E c \in Mechanic : FailWorkflow(c)
         \/ \E c \in Mechanic : FinalizeCollision(c)
         \/ \E c \in Mechanic : FinalizeThrows(c)
         \/ \E d \in RoomOnly : \E b \in Offered(d) : RejectRoomCommand(d, b)
         \/ \E d \in RoomOnly : \E b \in Offered(d) : AcceptRoomCommand(d, b)
         \/ SystemRoomEvent
         \/ Crash
  BY DEF Next, Submit, Engine, Settle, SubmitRoomOnly

\* Whatever a caller presents is a pair of revisions.
LEMMA OfferedType ==
  ASSUME TypeOK, NEW c \in ClientCommand, NEW b \in Offered(c)
  PROVE  b \in Bytes
  BY DEF Offered, TypeOK, Bytes, StoredCommand

-----------------------------------------------------------------------------
(* Type correctness.                                                       *)

\* The initial state of a created room has its types.
LEMMA InitType == Init => TypeOK
  BY ConstantsAssumption
  DEF Init, TypeOK, Idle, NoRow, Row, Call

\* A commit of the mechanical stream keeps the types of what it writes.
LEMMA CommitGameType ==
  ASSUME TypeOK, NEW c \in Mechanic, NEW n \in Nat \ {0},
         NEW outcome \in {"accepted", "rejected"}, CommitGame(c, outcome, n)
  PROVE  /\ gameRevision' \in Nat
         /\ gameCommands' \in [Mechanic -> StoredGame \cup {Nil}]
         /\ call' \in Call
<1>1. call \in Call /\ call.expected \in Nat /\ gameRevision \in Nat
  BY DEF TypeOK, Call
<1>2. [expected |-> call.expected, outcome |-> outcome,
       first |-> gameRevision + 1, last |-> gameRevision + n] \in StoredGame
  BY <1>1 DEF StoredGame
<1>3. gameCommands' \in [Mechanic -> StoredGame \cup {Nil}]
  BY <1>2 DEF CommitGame, TypeOK
<1>4. gameRevision' \in Nat
  BY <1>1 DEF CommitGame
<1>5. call' \in Call
  <2>1. \A k \in Nat : [call EXCEPT !.at = "decided", !.committed = TRUE,
                                   !.last = k] \in Call
    BY <1>1 DEF Call
  <2>2. gameRevision + n \in Nat
    BY <1>1
  <2>3. QED
    BY <2>1, <2>2 DEF CommitGame, Outcome
<1>6. QED
  BY <1>3, <1>4, <1>5

\* Settling a row changes its status and records the outcome's revision.
LEMMA FinalizeType ==
  ASSUME TypeOK, NEW c \in Mechanic, NEW status \in {"completed", "failed"},
         Finalize(c, status)
  PROVE  /\ rows' \in [Mechanic -> Row]
         /\ finals' \in [Mechanic -> Nat \cup {Nil}]
<1>1. [rows[c] EXCEPT !.status = status, !.last = call.last] \in Row
  BY DEF TypeOK, Row, Call
<1>2. rows' \in [Mechanic -> Row]
  BY <1>1 DEF Finalize, TypeOK
<1>3. finals' \in [Mechanic -> Nat \cup {Nil}]
  BY DEF Finalize, TypeOK
<1>4. QED
  BY <1>2, <1>3

\* No step, and no stutter, leaves the types.
LEMMA StepType ==
  ASSUME TypeOK, [Next]_vars
  PROVE  TypeOK'
<1> USE ConstantsAssumption DEF TypeOK, Call
<1>1. ASSUME NEW c \in Mechanic, RefuseUnowned(c) PROVE TypeOK'
  BY <1>1 DEF RefuseUnowned, Tell, Answer, roomVars, gameVars
<1>2. ASSUME NEW c \in Mechanic, NEW b \in Offered(c), RefuseCollision(c, b)
      PROVE TypeOK'
  BY <1>2 DEF RefuseCollision, Tell, Answer, roomVars, gameVars
<1>3. ASSUME NEW c \in Mechanic, NEW b \in Offered(c), RefuseStaleOrBusy(c, b)
      PROVE TypeOK'
  <2>1. b \in Bytes
    BY OfferedType DEF ClientCommand
  <2>2. roomCommands' \in [ClientCommand -> StoredCommand \cup {Nil}]
    BY <1>3, <2>1
    DEF RefuseStaleOrBusy, CommitRoom, StoredCommand, ClientCommand
  <2>3. QED
    BY <1>3, <2>2
    DEF RefuseStaleOrBusy, CommitRoom, Tell, Answer, gameVars
<1>4. ASSUME NEW c \in Mechanic, NEW b \in Offered(c), StartWorkflow(c, b)
      PROVE TypeOK'
  <2>1. b \in Bytes
    BY OfferedType DEF ClientCommand
  <2>2. roomCommands' \in [ClientCommand -> StoredCommand \cup {Nil}]
    BY <1>4, <2>1
    DEF StartWorkflow, CommitRoom, StoredCommand, ClientCommand
  <2>3. rows' \in [Mechanic -> Row]
    BY <1>4 DEF StartWorkflow, Row
  <2>4. roomRevision' \in Nat \ {0}
    BY <1>4 DEF StartWorkflow, CommitRoom
  <2>5. call' \in Call
    BY <1>4 DEF StartWorkflow, Idle
  <2>6. QED
    BY <1>4, <2>2, <2>3, <2>4, <2>5 DEF StartWorkflow, gameVars
<1>5. ASSUME NEW c \in Mechanic, NEW b \in Offered(c), ReplayCompleted(c, b)
      PROVE TypeOK'
  BY <1>5 DEF ReplayCompleted, Tell, Answer, Row, roomVars, gameVars
<1>6. ASSUME NEW c \in Mechanic, NEW b \in Offered(c), ReplayUnfinished(c, b)
      PROVE TypeOK'
  BY <1>6 DEF ReplayUnfinished, Idle, roomVars, gameVars
<1>7. ASSUME NEW c \in Mechanic, RecoverPending(c) PROVE TypeOK'
  BY <1>7 DEF RecoverPending, Idle, Row, roomVars, gameVars
<1>8. ASSUME NEW c \in Mechanic, GameReplay(c) PROVE TypeOK'
  BY <1>8 DEF GameReplay, Outcome, StoredGame, roomVars, gameVars
<1>9. ASSUME NEW c \in Mechanic, GameCollision(c) PROVE TypeOK'
  BY <1>9 DEF GameCollision, Outcome, roomVars, gameVars
<1>10. ASSUME NEW c \in Mechanic, GameReject(c) PROVE TypeOK'
  <2>1. CommitGame(c, "rejected", 1)
    BY <1>10 DEF GameReject
  <2>2. QED
    BY <1>10, <2>1, CommitGameType DEF GameReject, roomVars
<1>11. ASSUME NEW c \in Mechanic, GameAccept(c) PROVE TypeOK'
  <2>1. PICK n \in 1..MaxDomainEvents : CommitGame(c, "accepted", 1 + n)
    BY <1>11 DEF GameAccept
  <2>2. QED
    BY <1>11, <2>1, CommitGameType DEF GameAccept, roomVars
<1>12. ASSUME NEW c \in Mechanic, GameFail(c) PROVE TypeOK'
  BY <1>12 DEF GameFail, Outcome, roomVars, gameVars
<1>13. ASSUME NEW c \in Mechanic, CompleteWorkflow(c) PROVE TypeOK'
  <2>1. rows' \in [Mechanic -> Row] /\ finals' \in [Mechanic -> Nat \cup {Nil}]
    BY <1>13, FinalizeType DEF CompleteWorkflow
  <2>2. told' \in [Mechanic -> SUBSET Answer]
    BY <1>13 DEF CompleteWorkflow, Answered, Tell, Answer
  <2>3. QED
    BY <1>13, <2>1, <2>2 DEF CompleteWorkflow, Idle, gameVars
<1>14. ASSUME NEW c \in Mechanic, FailWorkflow(c) PROVE TypeOK'
  <2>1. rows' \in [Mechanic -> Row] /\ finals' \in [Mechanic -> Nat \cup {Nil}]
    BY <1>14, FinalizeType DEF FailWorkflow
  <2>2. told' \in [Mechanic -> SUBSET Answer]
    BY <1>14 DEF FailWorkflow, Answered, Tell, Answer
  <2>3. QED
    BY <1>14, <2>1, <2>2 DEF FailWorkflow, Idle, gameVars
<1>15. ASSUME NEW c \in Mechanic, FinalizeCollision(c) PROVE TypeOK'
  BY <1>15
  DEF FinalizeCollision, Answered, Tell, Answer, Idle, roomVars, gameVars
<1>16. ASSUME NEW c \in Mechanic, FinalizeThrows(c) PROVE TypeOK'
  BY <1>16 DEF FinalizeThrows, Idle, roomVars, gameVars
<1>17. ASSUME NEW d \in RoomOnly, NEW b \in Offered(d), RejectRoomCommand(d, b)
       PROVE TypeOK'
  <2>1. b \in Bytes
    BY OfferedType DEF ClientCommand
  <2>2. roomCommands' \in [ClientCommand -> StoredCommand \cup {Nil}]
    BY <1>17, <2>1
    DEF RejectRoomCommand, CommitRoom, StoredCommand, ClientCommand
  <2>3. QED
    BY <1>17, <2>2 DEF RejectRoomCommand, CommitRoom, gameVars
<1>18. ASSUME NEW d \in RoomOnly, NEW b \in Offered(d), AcceptRoomCommand(d, b)
       PROVE TypeOK'
  <2>1. b \in Bytes
    BY OfferedType DEF ClientCommand
  <2>2. roomCommands' \in [ClientCommand -> StoredCommand \cup {Nil}]
    BY <1>18, <2>1
    DEF AcceptRoomCommand, CommitRoom, StoredCommand, ClientCommand
  <2>3. QED
    BY <1>18, <2>2 DEF AcceptRoomCommand, CommitRoom, gameVars
<1>19. ASSUME SystemRoomEvent PROVE TypeOK'
  BY <1>19 DEF SystemRoomEvent, gameVars
<1>20. ASSUME Crash PROVE TypeOK'
  BY <1>20 DEF Crash, Idle, roomVars, gameVars
<1>21. ASSUME UNCHANGED vars PROVE TypeOK'
  BY <1>21 DEF vars, roomVars, gameVars
<1> QED
  BY <1>1, <1>2, <1>3, <1>4, <1>5, <1>6, <1>7, <1>8, <1>9, <1>10, <1>11,
     <1>12, <1>13, <1>14, <1>15, <1>16, <1>17, <1>18, <1>19, <1>20, <1>21,
     NextCases

\* The type invariant of the workflow service holds in every behaviour.
THEOREM TypeCorrect == Spec => []TypeOK
  BY InitType, StepType, PTL DEF Spec

-----------------------------------------------------------------------------
(* Which steps touch the workflow tables, and which the mechanical stream. *)

\* Only starting and settling a workflow touch the pending workflow, the rows,
\* the finalize commands and the room's link to the mechanical stream.
LEMMA WorkflowSteps ==
  ASSUME [Next]_vars
  PROVE  \/ \E c \in Mechanic : \E b \in Offered(c) : StartWorkflow(c, b)
         \/ \E c \in Mechanic : CompleteWorkflow(c)
         \/ \E c \in Mechanic : FailWorkflow(c)
         \/ UNCHANGED <<pendingWorkflow, pendingStatus, rows, finals,
                        mechanicalRevision>>
<1>1. CASE UNCHANGED vars
  BY <1>1 DEF vars, roomVars
<1>2. CASE Next
  BY <1>2, NextCases
  DEF RefuseUnowned, RefuseCollision, RefuseStaleOrBusy, ReplayCompleted,
      ReplayUnfinished, RecoverPending, GameReplay, GameCollision, GameReject,
      GameAccept, GameFail, FinalizeCollision, FinalizeThrows,
      RejectRoomCommand, AcceptRoomCommand, SystemRoomEvent, Crash, roomVars
<1>3. QED
  BY <1>1, <1>2

\* The mechanical stream grows only by the first commit of a command.
LEMMA GameSteps ==
  ASSUME [Next]_vars
  PROVE  \/ UNCHANGED gameVars
         \/ \E c \in Mechanic : \E n \in Nat \ {0} :
              \E outcome \in {"accepted", "rejected"} :
                /\ AtEngine(c)
                /\ gameCommands[c] = Nil
                /\ CommitGame(c, outcome, n)
                /\ UNCHANGED <<roomVars, told, crashes>>
<1>1. CASE UNCHANGED vars
  BY <1>1 DEF vars
<1>2. ASSUME NEW c \in Mechanic, GameReject(c)
      PROVE  \E n \in Nat \ {0} : \E outcome \in {"accepted", "rejected"} :
               /\ AtEngine(c)
               /\ gameCommands[c] = Nil
               /\ CommitGame(c, outcome, n)
               /\ UNCHANGED <<roomVars, told, crashes>>
  BY <1>2 DEF GameReject
<1>3. ASSUME NEW c \in Mechanic, GameAccept(c)
      PROVE  \E n \in Nat \ {0} : \E outcome \in {"accepted", "rejected"} :
               /\ AtEngine(c)
               /\ gameCommands[c] = Nil
               /\ CommitGame(c, outcome, n)
               /\ UNCHANGED <<roomVars, told, crashes>>
  <2>1. PICK n \in 1..MaxDomainEvents : CommitGame(c, "accepted", 1 + n)
    BY <1>3 DEF GameAccept
  <2>2. 1 + n \in Nat \ {0}
    BY ConstantsAssumption
  <2>3. QED
    BY <1>3, <2>1, <2>2 DEF GameAccept
<1>4. CASE Next
  BY <1>2, <1>3, <1>4, NextCases
  DEF RefuseUnowned, RefuseCollision, RefuseStaleOrBusy, StartWorkflow,
      ReplayCompleted, ReplayUnfinished, RecoverPending, GameReplay,
      GameCollision, GameFail, CompleteWorkflow, FailWorkflow,
      FinalizeCollision, FinalizeThrows, RejectRoomCommand, AcceptRoomCommand,
      SystemRoomEvent, Crash
<1>5. QED
  BY <1>1, <1>4

-----------------------------------------------------------------------------
(* One unresolved workflow, in every mode.                                 *)

\* The rows after one of them is settled.
LEMMA FinalizeRows ==
  ASSUME TypeOK, NEW c \in Mechanic, NEW status \in {"completed", "failed"},
         Finalize(c, status)
  PROVE  /\ rows'[c].status = status
         /\ rows'[c].last = call.last
         /\ \A d \in Mechanic \ {c} : rows'[d] = rows[d]
<1>1. rows \in [Mechanic -> Row]
  BY DEF TypeOK
<1>2. rows[c] \in Row
  BY <1>1
<1>3. rows' = [rows EXCEPT ![c] = [rows[c] EXCEPT !.status = status,
                                                 !.last = call.last]]
  BY DEF Finalize
<1>4. rows'[c] = [rows[c] EXCEPT !.status = status, !.last = call.last]
  BY <1>1, <1>3
<1>5. QED
  BY <1>1, <1>2, <1>3, <1>4 DEF Row

\* A created room waits for nothing.
LEMMA InitUnresolved == Init => OneUnresolved
  BY ConstantsAssumption DEF Init, OneUnresolved, NoRow

\* Every step keeps the room's view of the pending workflow and its row equal.
LEMMA StepUnresolved ==
  ASSUME TypeOK, OneUnresolved, [Next]_vars
  PROVE  OneUnresolved'
<1> USE ConstantsAssumption
<1>1. ASSUME NEW c \in Mechanic, NEW b \in Offered(c), StartWorkflow(c, b)
      PROVE  OneUnresolved'
  BY <1>1 DEF StartWorkflow, OneUnresolved, TypeOK
<1>2. ASSUME NEW c \in Mechanic, CompleteWorkflow(c) PROVE OneUnresolved'
  <2>1. Finalize(c, "completed")
    BY <1>2 DEF CompleteWorkflow
  <2>2. /\ rows'[c].status = "completed"
        /\ \A d \in Mechanic \ {c} : rows'[d] = rows[d]
    BY <2>1, FinalizeRows
  <2>3. QED
    BY <1>2, <2>2 DEF CompleteWorkflow, Finalize, OneUnresolved
<1>3. ASSUME NEW c \in Mechanic, FailWorkflow(c) PROVE OneUnresolved'
  <2>1. Finalize(c, "failed")
    BY <1>3 DEF FailWorkflow
  <2>2. /\ rows'[c].status = "failed"
        /\ \A d \in Mechanic \ {c} : rows'[d] = rows[d]
    BY <2>1, FinalizeRows
  <2>3. QED
    BY <1>3, <2>2 DEF FailWorkflow, Finalize, OneUnresolved
<1>4. CASE UNCHANGED <<pendingWorkflow, pendingStatus, rows, finals,
                       mechanicalRevision>>
  BY <1>4 DEF OneUnresolved
<1>5. QED
  BY <1>1, <1>2, <1>3, <1>4, WorkflowSteps

\* At most one workflow of a room is unresolved, and the room state and the
\* workflow table agree on which and in what status.
THEOREM UnresolvedUnique == Spec => []OneUnresolved
  BY InitType, StepType, InitUnresolved, StepUnresolved, PTL DEF Spec

-----------------------------------------------------------------------------
(* The mechanical stream is tiled by its transactions, in every mode.      *)

\* A transaction owns a non-empty range of revisions below the head.
GameRanges ==
  \A c \in Mechanic :
    gameCommands[c] # Nil =>
      /\ 1 <= gameCommands[c].first
      /\ gameCommands[c].first <= gameCommands[c].last
      /\ gameCommands[c].last <= gameRevision

\* What a first commit leaves in the command table.
LEMMA CommitGameTable ==
  ASSUME TypeOK, NEW c \in Mechanic, NEW n, NEW outcome,
         CommitGame(c, outcome, n)
  PROVE  /\ gameRevision' = gameRevision + n
         /\ gameCommands'[c].first = gameRevision + 1
         /\ gameCommands'[c].last = gameRevision + n
         /\ gameCommands'[c].outcome = outcome
         /\ \A d \in Mechanic \ {c} : gameCommands'[d] = gameCommands[d]
  BY DEF CommitGame, TypeOK

\* A created room has an empty mechanical stream.
LEMMA InitTiled == Init => GameRanges /\ MechanicalStreamContiguous
  BY ConstantsAssumption DEF Init, GameRanges, MechanicalStreamContiguous

\* A first commit takes the next revisions, which nothing else owns.
LEMMA StepTiled ==
  ASSUME TypeOK, GameRanges, MechanicalStreamContiguous, [Next]_vars
  PROVE  GameRanges' /\ MechanicalStreamContiguous'
<1>1. CASE UNCHANGED gameVars
  BY <1>1 DEF gameVars, GameRanges, MechanicalStreamContiguous
<1>2. ASSUME NEW c \in Mechanic, NEW n \in Nat \ {0},
             NEW outcome \in {"accepted", "rejected"},
             gameCommands[c] = Nil, CommitGame(c, outcome, n)
      PROVE  GameRanges' /\ MechanicalStreamContiguous'
  <2>1. /\ gameRevision' = gameRevision + n
        /\ gameCommands'[c].first = gameRevision + 1
        /\ gameCommands'[c].last = gameRevision + n
        /\ \A d \in Mechanic \ {c} : gameCommands'[d] = gameCommands[d]
    BY <1>2, CommitGameTable
  <2>2. /\ gameRevision \in Nat /\ call.expected \in Nat
        /\ \A d \in Mechanic : gameCommands[d] \in StoredGame \cup {Nil}
        /\ \A d \in Mechanic : gameCommands'[d] \in StoredGame \cup {Nil}
    BY <1>2, CommitGameType DEF TypeOK, Call
  <2>3. GameRanges'
    BY <2>1, <2>2 DEF GameRanges, StoredGame
  <2>4. gameCommands'[c] # Nil
    <3>1. gameCommands'[c] = [expected |-> call.expected, outcome |-> outcome,
                              first |-> gameRevision + 1,
                              last |-> gameRevision + n]
      BY <1>2 DEF CommitGame, TypeOK
    <3>2. QED
      BY <2>2, <3>1, NilAssumption DEF StoredGame
  <2>5. ASSUME NEW r \in 1..gameRevision'
        PROVE  \E d \in Mechanic :
                 /\ gameCommands'[d] # Nil
                 /\ r \in gameCommands'[d].first..gameCommands'[d].last
                 /\ \A e \in Mechanic \ {d} :
                      gameCommands'[e] # Nil =>
                        r \notin gameCommands'[e].first..gameCommands'[e].last
    <3>1. CASE r <= gameRevision
      <4>1. PICK d \in Mechanic :
              /\ gameCommands[d] # Nil
              /\ r \in gameCommands[d].first..gameCommands[d].last
              /\ \A e \in Mechanic \ {d} :
                   gameCommands[e] # Nil =>
                     r \notin gameCommands[e].first..gameCommands[e].last
        BY <2>2, <3>1 DEF MechanicalStreamContiguous
      <4>2. d # c
        BY <1>2, <4>1
      <4>3. r \notin gameCommands'[c].first..gameCommands'[c].last
        BY <2>1, <2>2, <3>1
      <4>4. QED
        BY <2>1, <4>1, <4>2, <4>3
    <3>2. CASE r > gameRevision
      <4>1. r \in gameCommands'[c].first..gameCommands'[c].last
        BY <2>1, <2>2, <3>2
      <4>2. \A e \in Mechanic \ {c} :
              gameCommands'[e] # Nil =>
                r \notin gameCommands'[e].first..gameCommands'[e].last
        BY <2>1, <2>2, <3>2 DEF GameRanges, StoredGame
      <4>3. QED
        BY <2>4, <4>1, <4>2
    <3>3. QED
      BY <2>1, <2>2, <3>1, <3>2
  <2>6. QED
    BY <2>3, <2>5 DEF MechanicalStreamContiguous
<1>3. QED
  BY <1>1, <1>2, GameSteps

\* Every revision of the mechanical stream belongs to exactly one command.
THEOREM StreamTiled == Spec => []MechanicalStreamContiguous
  BY InitType, StepType, InitTiled, StepTiled, PTL DEF Spec
-----------------------------------------------------------------------------
(* Linkage, acknowledgement and single effect, for callers that do not     *)
(* present the stored bytes of a rejected command again (the host never    *)
(* does).  The invariants are not inductive alone: what a finished engine  *)
(* call may write depends on the call in progress, and what a retry may    *)
(* start depends on the bytes in the command table.                        *)

\* Bound bytes name a room revision that is over: fresh bytes never replay.
BytesPast ==
  \A c \in ClientCommand :
    roomCommands[c] # Nil => roomCommands[c].bytes.room < roomRevision

\* A workflow row exists exactly for the commands the room accepted, and the
\* engine's stream knows no other command.
RowsMatch ==
  \A c \in Mechanic :
    /\ rows[c].status # "absent"
         <=> roomCommands[c] # Nil /\ roomCommands[c].outcome = "accepted"
    /\ rows[c].status = "pending" => rows[c].expected = mechanicalRevision
    /\ gameCommands[c] # Nil => rows[c].status # "absent"

\* The call in progress is for the workflow the room waits for, at the room's
\* link to the mechanical stream; a committed outcome is in that stream.
CallMatches ==
  /\ call.at = "idle" => call = Idle
  /\ call.at # "idle" =>
       /\ call.command \in Mechanic
       /\ pendingWorkflow = call.command
       /\ call.expected = mechanicalRevision
  /\ (call.at = "decided" /\ call.committed) =>
       /\ gameCommands[call.command] # Nil
       /\ gameCommands[call.command].last = call.last

\* A completed row names the transaction that executed its command.
CompletedMatch ==
  \A c \in Mechanic :
    rows[c].status = "completed" =>
      /\ gameCommands[c] # Nil
      /\ rows[c].last = gameCommands[c].last
      /\ rows[c].last <= mechanicalRevision

IInv ==
  /\ OneUnresolved
  /\ GameRanges
  /\ BytesPast
  /\ RowsMatch
  /\ CallMatches
  /\ CompletedMatch
  /\ Linkage
  /\ AckAfterFinalization
NoRejectedRetry == "rejected" \notin ExactRetryOf

\* Whatever binds an identity binds a free one, to bytes of the current room
\* revision, and moves the room revision on.
LEMMA BindSteps ==
  ASSUME TypeOK, [Next]_vars
  PROVE  \/ roomCommands' = roomCommands /\ roomRevision' >= roomRevision
         \/ \E c \in ClientCommand : \E b \in Offered(c) :
              \E outcome \in {"accepted", "rejected"} : \E n \in Nat \ {0} :
                ~Bound(c) /\ CommitRoom(c, b, outcome, n)
<1> USE ConstantsAssumption DEF ClientCommand
<1>0. roomRevision \in Nat
  BY DEF TypeOK
<1>1. ASSUME NEW c \in Mechanic, NEW b \in Offered(c), RefuseStaleOrBusy(c, b)
      PROVE  ~Bound(c) /\ CommitRoom(c, b, "rejected", 1)
  BY <1>1 DEF RefuseStaleOrBusy
<1>2. ASSUME NEW c \in Mechanic, NEW b \in Offered(c), StartWorkflow(c, b)
      PROVE  ~Bound(c) /\ \E n \in Nat \ {0} : CommitRoom(c, b, "accepted", n)
  <2>1. PICK extra \in 0..MaxExtra : CommitRoom(c, b, "accepted", 1 + extra)
    BY <1>2 DEF StartWorkflow
  <2>2. 1 + extra \in Nat \ {0}
    OBVIOUS
  <2>3. QED
    BY <1>2, <2>1, <2>2 DEF StartWorkflow
<1>3. ASSUME NEW d \in RoomOnly, NEW b \in Offered(d), RejectRoomCommand(d, b)
      PROVE  ~Bound(d) /\ CommitRoom(d, b, "rejected", 1)
  BY <1>3 DEF RejectRoomCommand
<1>4. ASSUME NEW d \in RoomOnly, NEW b \in Offered(d), AcceptRoomCommand(d, b)
      PROVE  ~Bound(d) /\ \E n \in Nat \ {0} : CommitRoom(d, b, "accepted", n)
  <2>1. PICK extra \in 0..MaxExtra : CommitRoom(d, b, "accepted", 1 + extra)
    BY <1>4 DEF AcceptRoomCommand
  <2>2. 1 + extra \in Nat \ {0}
    OBVIOUS
  <2>3. QED
    BY <1>4, <2>1, <2>2 DEF AcceptRoomCommand
<1>5. ASSUME NEW c \in Mechanic, CompleteWorkflow(c)
      PROVE  roomCommands' = roomCommands /\ roomRevision' >= roomRevision
  BY <1>0, <1>5 DEF CompleteWorkflow
<1>6. ASSUME NEW c \in Mechanic, FailWorkflow(c)
      PROVE  roomCommands' = roomCommands /\ roomRevision' >= roomRevision
  BY <1>0, <1>6 DEF FailWorkflow
<1>7. CASE SystemRoomEvent
  BY <1>0, <1>7 DEF SystemRoomEvent
<1>8. CASE UNCHANGED <<roomCommands, roomRevision>>
  BY <1>0, <1>8
<1>9. CASE Next
  <2>1. \/ \E c \in Mechanic : \E b \in Offered(c) : RefuseStaleOrBusy(c, b)
        \/ \E c \in Mechanic : \E b \in Offered(c) : StartWorkflow(c, b)
        \/ \E c \in Mechanic : CompleteWorkflow(c)
        \/ \E c \in Mechanic : FailWorkflow(c)
        \/ \E d \in RoomOnly : \E b \in Offered(d) : RejectRoomCommand(d, b)
        \/ \E d \in RoomOnly : \E b \in Offered(d) : AcceptRoomCommand(d, b)
        \/ SystemRoomEvent
        \/ UNCHANGED <<roomCommands, roomRevision>>
    BY <1>9, NextCases
    DEF RefuseUnowned, RefuseCollision, ReplayCompleted, ReplayUnfinished,
        RecoverPending, GameReplay, GameCollision, GameReject, GameAccept,
        GameFail, FinalizeCollision, FinalizeThrows, Crash, roomVars
  <2>2. 1 \in Nat \ {0}
    OBVIOUS
  <2>3. QED
    BY <2>1, <2>2, <1>1, <1>2, <1>3, <1>4, <1>5, <1>6, <1>7, <1>8
<1>10. QED
  BY <1>8, <1>9 DEF vars, roomVars

\* Fresh bytes name the current revision; binding them moves it on.
LEMMA StepBytesPast ==
  ASSUME TypeOK, BytesPast, [Next]_vars
  PROVE  BytesPast'
<1>1. /\ roomRevision \in Nat
      /\ \A c \in ClientCommand : roomCommands[c] \in StoredCommand \cup {Nil}
      /\ \A c \in ClientCommand :
           roomCommands[c] # Nil => roomCommands[c].bytes.room \in Nat
  BY DEF TypeOK, StoredCommand, Bytes
<1>2. CASE roomCommands' = roomCommands /\ roomRevision' >= roomRevision
  <2>1. roomRevision' \in Nat
    BY StepType DEF TypeOK
  <2>2. QED
    BY <1>1, <1>2, <2>1 DEF BytesPast
<1>3. ASSUME NEW c \in ClientCommand, NEW b \in Offered(c),
             NEW outcome \in {"accepted", "rejected"}, NEW n \in Nat \ {0},
             ~Bound(c), CommitRoom(c, b, outcome, n)
      PROVE  BytesPast'
  <2>1. b.room = roomRevision
    BY <1>3 DEF Offered, Bound
  <2>2. roomCommands'[c].bytes.room = roomRevision
    BY <1>3, <2>1 DEF CommitRoom, TypeOK
  <2>3. \A d \in ClientCommand \ {c} : roomCommands'[d] = roomCommands[d]
    BY <1>3 DEF CommitRoom, TypeOK
  <2>4. roomRevision' = roomRevision + n
    BY <1>3 DEF CommitRoom
  <2>5. QED
    BY <1>1, <2>2, <2>3, <2>4 DEF BytesPast
<1>4. QED
  BY <1>2, <1>3, BindSteps

\* An exact retry that is let through is of a command the room accepted, whose
\* row is therefore there.
LEMMA ReplayedRow ==
  ASSUME TypeOK, BytesPast, RowsMatch, NoRejectedRetry,
         NEW c \in Mechanic, NEW b \in Offered(c), Replays(c, b)
  PROVE  rows[c].status # "absent"
<1>1. c \in ClientCommand /\ roomRevision \in Nat
  BY DEF ClientCommand, TypeOK
<1>2. roomCommands[c] # Nil /\ b = roomCommands[c].bytes
  BY DEF Replays, Bound
<1>3. roomCommands[c] \in StoredCommand
  BY <1>1, <1>2 DEF TypeOK
<1>4. b.room # roomRevision
  BY <1>1, <1>2, <1>3 DEF BytesPast, StoredCommand, Bytes
<1>5. roomCommands[c].outcome \in ExactRetryOf
  BY <1>2, <1>4 DEF Offered
<1>6. roomCommands[c].outcome = "accepted"
  BY <1>3, <1>5 DEF NoRejectedRetry, StoredCommand
<1>7. QED
  BY <1>2, <1>6 DEF RowsMatch
\* What starting a workflow leaves in the tables.
LEMMA StartTables ==
  ASSUME TypeOK, NEW c \in Mechanic, NEW b \in Offered(c), StartWorkflow(c, b)
  PROVE  /\ roomCommands'[c] # Nil
         /\ roomCommands'[c].outcome = "accepted"
         /\ \A d \in ClientCommand \ {c} : roomCommands'[d] = roomCommands[d]
         /\ rows'[c] = [status |-> "pending", expected |-> mechanicalRevision,
                        last |-> 0]
         /\ \A d \in Mechanic \ {c} : rows'[d] = rows[d]
         /\ rows[c] \in Row
<1>1. PICK n \in Nat : CommitRoom(c, b, "accepted", 1 + n)
  BY ConstantsAssumption DEF StartWorkflow
<1>2. c \in ClientCommand /\ b \in Bytes
  BY OfferedType DEF ClientCommand
<1>3. [bytes |-> b, outcome |-> "accepted"] \in StoredCommand
  BY <1>2 DEF StoredCommand
<1>4. [bytes |-> b, outcome |-> "accepted"] # Nil
  BY <1>3, NilAssumption
<1>5. /\ roomCommands'[c] = [bytes |-> b, outcome |-> "accepted"]
      /\ \A d \in ClientCommand \ {c} : roomCommands'[d] = roomCommands[d]
  BY <1>1, <1>2 DEF CommitRoom, TypeOK
<1>6. /\ rows'[c] = [status |-> "pending", expected |-> mechanicalRevision,
                     last |-> 0]
      /\ \A d \in Mechanic \ {c} : rows'[d] = rows[d]
      /\ rows[c] \in Row
  BY DEF StartWorkflow, TypeOK
<1>7. QED
  BY <1>4, <1>5, <1>6

\* Which steps touch the room commands of mechanics.
LEMMA MechanicCommandSteps ==
  ASSUME TypeOK, [Next]_vars
  PROVE  \/ \E c \in Mechanic : \E b \in Offered(c) : StartWorkflow(c, b)
         \/ \E c \in Mechanic : \E b \in Offered(c) : RefuseStaleOrBusy(c, b)
         \/ \A c \in Mechanic : roomCommands'[c] = roomCommands[c]
<1>1. ASSUME NEW d \in RoomOnly, NEW b \in Offered(d), NEW outcome, NEW n,
             CommitRoom(d, b, outcome, n)
      PROVE  \A c \in Mechanic : roomCommands'[c] = roomCommands[c]
  BY <1>1, ConstantsAssumption DEF CommitRoom, TypeOK, ClientCommand
<1>2. ASSUME NEW d \in RoomOnly, NEW b \in Offered(d), RejectRoomCommand(d, b)
      PROVE  \A c \in Mechanic : roomCommands'[c] = roomCommands[c]
  BY <1>1, <1>2 DEF RejectRoomCommand
<1>3. ASSUME NEW d \in RoomOnly, NEW b \in Offered(d), AcceptRoomCommand(d, b)
      PROVE  \A c \in Mechanic : roomCommands'[c] = roomCommands[c]
  BY <1>1, <1>3 DEF AcceptRoomCommand
<1>4. CASE UNCHANGED roomCommands
  BY <1>4
<1>5. CASE Next
  BY <1>2, <1>3, <1>4, <1>5, NextCases
  DEF RefuseUnowned, RefuseCollision, ReplayCompleted, ReplayUnfinished,
      RecoverPending, GameReplay, GameCollision, GameReject, GameAccept,
      GameFail, CompleteWorkflow, FailWorkflow, FinalizeCollision,
      FinalizeThrows, SystemRoomEvent, Crash, roomVars
<1>6. QED
  BY <1>4, <1>5 DEF vars, roomVars

\* The call in progress is always for the workflow the room waits for.
LEMMA StepCallMatches ==
  ASSUME TypeOK, IInv, NoRejectedRetry, [Next]_vars
  PROVE  CallMatches'
<1> USE DEF IInv
<1>0. /\ Idle.at = "idle"
      /\ call \in Call
  BY DEF Idle, TypeOK
<1>1. ASSUME call' = Idle PROVE CallMatches'
  BY <1>0, <1>1 DEF CallMatches
<1>2. ASSUME NEW c \in Mechanic, NEW b \in Offered(c), StartWorkflow(c, b)
      PROVE  CallMatches'
  BY <1>2 DEF StartWorkflow, CallMatches, Idle
<1>3. ASSUME NEW c \in Mechanic, NEW b \in Offered(c), ReplayUnfinished(c, b)
      PROVE  CallMatches'
  <2>1. rows[c].status # "absent"
    BY <1>3, ReplayedRow DEF ReplayUnfinished
  <2>2. rows[c].status \in {"pending", "failed"}
    BY <1>3, <2>1 DEF ReplayUnfinished, TypeOK, Row
  <2>3. pendingWorkflow = c
    BY <2>2 DEF OneUnresolved
  <2>4. QED
    BY <1>3, <2>3 DEF ReplayUnfinished, CallMatches, Idle, roomVars
<1>4. ASSUME NEW c \in Mechanic, RecoverPending(c) PROVE CallMatches'
  <2>1. rows[c].status = "pending" /\ rows[c].expected = mechanicalRevision
    BY <1>4 DEF RecoverPending, RowsMatch
  <2>2. pendingWorkflow = c
    BY <2>1 DEF OneUnresolved
  <2>3. QED
    BY <1>4, <2>1, <2>2 DEF RecoverPending, CallMatches, Idle, roomVars
<1>5. ASSUME NEW c \in Mechanic, GameReplay(c) PROVE CallMatches'
  BY <1>0, <1>5 DEF GameReplay, AtEngine, Outcome, CallMatches, Call, roomVars,
                    gameVars
<1>6. ASSUME NEW c \in Mechanic, GameCollision(c) PROVE CallMatches'
  BY <1>0, <1>6 DEF GameCollision, AtEngine, Outcome, CallMatches, Call,
                    roomVars, gameVars
<1>7. ASSUME NEW c \in Mechanic, GameFail(c) PROVE CallMatches'
  BY <1>0, <1>7 DEF GameFail, AtEngine, Outcome, CallMatches, Call, roomVars,
                    gameVars
<1>8. ASSUME NEW c \in Mechanic, NEW n \in Nat \ {0},
             NEW outcome \in {"accepted", "rejected"}, AtEngine(c),
             CommitGame(c, outcome, n), UNCHANGED roomVars
      PROVE  CallMatches'
  <2>1. gameCommands'[c] = [expected |-> call.expected, outcome |-> outcome,
                            first |-> gameRevision + 1,
                            last |-> gameRevision + n]
    BY <1>8 DEF CommitGame, TypeOK
  <2>2. gameCommands'[c] \in StoredGame
    BY <2>1, <1>0 DEF StoredGame, TypeOK, Call
  <2>3. gameCommands'[c] # Nil /\ gameCommands'[c].last = gameRevision + n
    BY <2>1, <2>2, NilAssumption
  <2>4. /\ call'.at = "decided" /\ call'.command = c
        /\ call'.expected = call.expected
        /\ call'.last = gameRevision + n
    BY <1>0, <1>8 DEF CommitGame, Outcome, AtEngine, Call
  <2>5. QED
    BY <1>8, <2>3, <2>4 DEF CallMatches, AtEngine, roomVars
<1>9. ASSUME NEW c \in Mechanic, GameReject(c) PROVE CallMatches'
  BY <1>8, <1>9 DEF GameReject
<1>10. ASSUME NEW c \in Mechanic, GameAccept(c) PROVE CallMatches'
  <2>1. PICK n \in 1..MaxDomainEvents : CommitGame(c, "accepted", 1 + n)
    BY <1>10 DEF GameAccept
  <2>2. 1 + n \in Nat \ {0}
    BY ConstantsAssumption
  <2>3. QED
    BY <1>8, <1>10, <2>1, <2>2 DEF GameAccept
<1>11. CASE Next
  <2>1. \/ call' = Idle
        \/ \E c \in Mechanic : \E b \in Offered(c) : StartWorkflow(c, b)
        \/ \E c \in Mechanic : \E b \in Offered(c) : ReplayUnfinished(c, b)
        \/ \E c \in Mechanic : RecoverPending(c)
        \/ \E c \in Mechanic : GameReplay(c)
        \/ \E c \in Mechanic : GameCollision(c)
        \/ \E c \in Mechanic : GameReject(c)
        \/ \E c \in Mechanic : GameAccept(c)
        \/ \E c \in Mechanic : GameFail(c)
    BY <1>11, NextCases
    DEF RefuseUnowned, RefuseCollision, RefuseStaleOrBusy, ReplayCompleted,
        CompleteWorkflow, FailWorkflow, FinalizeCollision, FinalizeThrows,
        RejectRoomCommand, AcceptRoomCommand, SystemRoomEvent, Crash, Eligible
  <2>2. QED
    BY <2>1, <1>1, <1>2, <1>3, <1>4, <1>5, <1>6, <1>7, <1>9, <1>10
<1>12. CASE UNCHANGED vars
  BY <1>12 DEF vars, roomVars, gameVars, CallMatches
<1>13. QED
  BY <1>11, <1>12
\* A game command is first committed inside the call for its workflow.
LEMMA EngineRow ==
  ASSUME TypeOK, IInv, NEW c \in Mechanic, AtEngine(c)
  PROVE  /\ pendingWorkflow = c
         /\ rows[c].status \in {"pending", "failed"}
         /\ call.expected = mechanicalRevision
<1>1. pendingWorkflow = c /\ call.expected = mechanicalRevision
  BY DEF IInv, AtEngine, CallMatches
<1>2. QED
  BY <1>1 DEF IInv, OneUnresolved

\* Rows follow the room's acceptances, and the engine's stream the rows.
LEMMA StepRowsMatch ==
  ASSUME TypeOK, IInv, NoRejectedRetry, [Next]_vars
  PROVE  RowsMatch'
<1> USE DEF IInv
<1>1. ASSUME NEW c \in Mechanic, NEW b \in Offered(c), StartWorkflow(c, b)
      PROVE  RowsMatch'
  <2>1. UNCHANGED <<mechanicalRevision, gameVars>>
    BY <1>1 DEF StartWorkflow
  <2>2. QED
    BY <1>1, <2>1, StartTables DEF RowsMatch, ClientCommand, gameVars
<1>2. ASSUME NEW c \in Mechanic, NEW b \in Offered(c), RefuseStaleOrBusy(c, b)
      PROVE  RowsMatch'
  <2>1. roomCommands[c] = Nil
    BY <1>2 DEF RefuseStaleOrBusy, Bound
  <2>2. roomCommands' = [roomCommands EXCEPT
                           ![c] = [bytes |-> b, outcome |-> "rejected"]]
    BY <1>2 DEF RefuseStaleOrBusy, CommitRoom
  <2>3. /\ roomCommands'[c].outcome = "rejected"
        /\ \A d \in Mechanic \ {c} : roomCommands'[d] = roomCommands[d]
    BY <2>2 DEF TypeOK, ClientCommand
  <2>4. UNCHANGED <<mechanicalRevision, rows, gameVars>>
    BY <1>2 DEF RefuseStaleOrBusy
  <2>5. QED
    BY <2>1, <2>3, <2>4 DEF RowsMatch, gameVars
<1>3. ASSUME NEW c \in Mechanic, NEW status \in {"completed", "failed"},
             Finalize(c, status), UNCHANGED <<roomCommands, gameVars>>
      PROVE  RowsMatch'
  <2>1. /\ rows'[c].status = status
        /\ \A d \in Mechanic \ {c} : rows'[d] = rows[d]
    BY <1>3, FinalizeRows
  <2>2. \A d \in Mechanic \ {c} : rows[d].status # "pending"
    BY <1>3 DEF Finalize, OneUnresolved
  <2>3. rows[c].status = "pending"
    BY <1>3 DEF Finalize
  <2>4. \A d \in Mechanic : rows'[d].status # "pending"
    BY <2>1, <2>2
  <2>5. \A d \in Mechanic :
          rows'[d].status # "absent" <=> rows[d].status # "absent"
    BY <2>1, <2>3
  <2>6. QED
    BY <1>3, <2>4, <2>5 DEF RowsMatch, gameVars
<1>4. ASSUME NEW c \in Mechanic, CompleteWorkflow(c) PROVE RowsMatch'
  BY <1>3, <1>4 DEF CompleteWorkflow
<1>5. ASSUME NEW c \in Mechanic, FailWorkflow(c) PROVE RowsMatch'
  BY <1>3, <1>5 DEF FailWorkflow
<1>6. ASSUME NEW c \in Mechanic, NEW n \in Nat \ {0},
             NEW outcome \in {"accepted", "rejected"}, AtEngine(c),
             CommitGame(c, outcome, n), UNCHANGED <<roomVars, told, crashes>>
      PROVE  RowsMatch'
  <2>1. rows[c].status # "absent"
    BY <1>6, EngineRow
  <2>2. \A d \in Mechanic \ {c} : gameCommands'[d] = gameCommands[d]
    BY <1>6, CommitGameTable
  <2>3. QED
    BY <1>6, <2>1, <2>2 DEF RowsMatch, roomVars
<1>7. CASE /\ UNCHANGED <<rows, mechanicalRevision>>
           /\ UNCHANGED gameVars
           /\ \A c \in Mechanic : roomCommands'[c] = roomCommands[c]
  BY <1>7 DEF RowsMatch, gameVars
<1>8. QED
  BY <1>1, <1>2, <1>4, <1>5, <1>6, <1>7, WorkflowSteps, GameSteps,
     MechanicCommandSteps

\* Settling links the row to the transaction the call ran, the last one of
\* the mechanical stream.
LEMMA CompletedLink ==
  ASSUME TypeOK, IInv, NEW c \in Mechanic, CompleteWorkflow(c)
  PROVE  /\ gameCommands[c] # Nil
         /\ gameCommands[c].last = call.last
         /\ call.last = gameRevision
         /\ call.last >= mechanicalRevision
<1>1. pendingWorkflow = c
  BY DEF CompleteWorkflow, Finalize
<1>2. gameCommands[c] # Nil /\ gameCommands[c].last = call.last
  BY DEF IInv, CallMatches, CompleteWorkflow, AtFinal
<1>3. /\ gameCommands[c].first = mechanicalRevision + 1
      /\ gameCommands[c].last = gameRevision
  BY <1>1, <1>2 DEF IInv, Linkage
<1>4. /\ gameCommands[c].first <= gameCommands[c].last
      /\ mechanicalRevision \in Nat /\ gameRevision \in Nat
  BY <1>2 DEF IInv, GameRanges, TypeOK
<1>5. QED
  BY <1>2, <1>3, <1>4

\* A completed row keeps naming its transaction.
LEMMA StepCompletedMatch ==
  ASSUME TypeOK, IInv, [Next]_vars
  PROVE  CompletedMatch'
<1> USE DEF IInv
<1>0. /\ mechanicalRevision \in Nat
      /\ \A c \in Mechanic : rows[c].last \in Nat
  BY DEF TypeOK, Row
<1>1. ASSUME NEW c \in Mechanic, NEW b \in Offered(c), StartWorkflow(c, b)
      PROVE  CompletedMatch'
  <2>1. /\ rows'[c].status = "pending"
        /\ \A d \in Mechanic \ {c} : rows'[d] = rows[d]
    BY <1>1, StartTables
  <2>2. UNCHANGED <<mechanicalRevision, gameCommands>>
    BY <1>1 DEF StartWorkflow, gameVars
  <2>3. QED
    BY <2>1, <2>2 DEF CompletedMatch
<1>2. ASSUME NEW c \in Mechanic, CompleteWorkflow(c) PROVE CompletedMatch'
  <2>1. /\ rows'[c].last = call.last
        /\ \A d \in Mechanic \ {c} : rows'[d] = rows[d]
    BY <1>2, FinalizeRows DEF CompleteWorkflow
  <2>2. mechanicalRevision' = call.last /\ UNCHANGED gameCommands
    BY <1>2 DEF CompleteWorkflow, gameVars
  <2>3. call.last \in Nat
    BY DEF TypeOK, Call
  <2>4. QED
    BY <1>0, <1>2, <2>1, <2>2, <2>3, CompletedLink DEF CompletedMatch
<1>3. ASSUME NEW c \in Mechanic, FailWorkflow(c) PROVE CompletedMatch'
  <2>1. /\ rows'[c].status = "failed"
        /\ \A d \in Mechanic \ {c} : rows'[d] = rows[d]
    BY <1>3, FinalizeRows DEF FailWorkflow
  <2>2. QED
    BY <1>3, <2>1 DEF FailWorkflow, CompletedMatch, gameVars
<1>4. ASSUME NEW c \in Mechanic, NEW n \in Nat \ {0},
             NEW outcome \in {"accepted", "rejected"}, AtEngine(c),
             CommitGame(c, outcome, n), UNCHANGED <<roomVars, told, crashes>>
      PROVE  CompletedMatch'
  <2>1. rows[c].status # "completed"
    BY <1>4, EngineRow
  <2>2. \A d \in Mechanic \ {c} : gameCommands'[d] = gameCommands[d]
    BY <1>4, CommitGameTable
  <2>3. QED
    BY <1>4, <2>1, <2>2 DEF CompletedMatch, roomVars
<1>5. CASE /\ UNCHANGED <<rows, mechanicalRevision>>
           /\ UNCHANGED gameVars
  BY <1>5 DEF CompletedMatch, gameVars
<1>6. QED
  BY <1>1, <1>2, <1>3, <1>4, <1>5, WorkflowSteps, GameSteps
\* The streams stay linked: only the call for the workflow the room waits for
\* moves the mechanical stream, once, from the room's link.
LEMMA StepLinkage ==
  ASSUME TypeOK, IInv, [Next]_vars
  PROVE  Linkage'
<1> USE DEF IInv
<1>1. ASSUME NEW c \in Mechanic, NEW b \in Offered(c), StartWorkflow(c, b)
      PROVE  Linkage'
  <2>1. pendingWorkflow = Nil /\ pendingWorkflow' = c
    BY <1>1 DEF StartWorkflow
  <2>2. UNCHANGED <<mechanicalRevision, gameRevision, gameCommands>>
    BY <1>1 DEF StartWorkflow, gameVars
  <2>3. rows[c].status \notin {"pending", "failed"}
    BY <2>1, ConstantsAssumption DEF OneUnresolved
  <2>4. roomCommands[c] = Nil
    BY <1>1 DEF StartWorkflow, Bound
  <2>5. gameCommands[c] = Nil
    BY <2>4 DEF RowsMatch
  <2>6. QED
    BY <2>1, <2>2, <2>5, ConstantsAssumption DEF Linkage
<1>2. ASSUME NEW c \in Mechanic, CompleteWorkflow(c) PROVE Linkage'
  <2>1. pendingWorkflow' = Nil /\ mechanicalRevision' = call.last
    BY <1>2 DEF CompleteWorkflow
  <2>2. UNCHANGED gameRevision
    BY <1>2 DEF CompleteWorkflow, gameVars
  <2>3. QED
    BY <1>2, <2>1, <2>2, CompletedLink, ConstantsAssumption DEF Linkage
<1>3. ASSUME NEW c \in Mechanic, NEW n \in Nat \ {0},
             NEW outcome \in {"accepted", "rejected"}, AtEngine(c),
             gameCommands[c] = Nil, CommitGame(c, outcome, n),
             UNCHANGED <<roomVars, told, crashes>>
      PROVE  Linkage'
  <2>1. pendingWorkflow = c
    BY <1>3, EngineRow
  <2>2. mechanicalRevision = gameRevision
    BY <1>3, <2>1 DEF Linkage
  <2>3. UNCHANGED <<mechanicalRevision, pendingWorkflow>>
    BY <1>3 DEF roomVars
  <2>4. /\ gameRevision' = gameRevision + n
        /\ gameCommands'[c].first = gameRevision + 1
        /\ gameCommands'[c].last = gameRevision + n
    BY <1>3, CommitGameTable
  <2>5. gameCommands'[c] # Nil
    <3>1. gameCommands'[c] = [expected |-> call.expected, outcome |-> outcome,
                              first |-> gameRevision + 1,
                              last |-> gameRevision + n]
      BY <1>3 DEF CommitGame, TypeOK
    <3>2. gameCommands'[c] \in StoredGame
      BY <3>1 DEF StoredGame, TypeOK, Call
    <3>3. QED
      BY <3>2, NilAssumption
  <2>6. QED
    BY <2>1, <2>2, <2>3, <2>4, <2>5, ConstantsAssumption DEF Linkage
<1>4. CASE /\ UNCHANGED <<pendingWorkflow, mechanicalRevision>>
           /\ UNCHANGED gameVars
  BY <1>4 DEF Linkage, gameVars
<1>5. ASSUME NEW c \in Mechanic, FailWorkflow(c) PROVE Linkage'
  BY <1>4, <1>5 DEF FailWorkflow
<1>6. QED
  BY <1>1, <1>2, <1>3, <1>4, <1>5, WorkflowSteps, GameSteps

\* What the answer `a' of command c asserts, when it acknowledges success.
AckIsTrue(c, a) ==
  a.kind = "done" =>
    /\ rows[c].status = "completed"
    /\ gameCommands[c] # Nil
    /\ a.last = gameCommands[c].last
    /\ a.last <= mechanicalRevision

\* An acknowledgement that is true stays true.
LEMMA AckStaysTrue ==
  ASSUME TypeOK, IInv, NEW c \in Mechanic, NEW a \in Answer, AckIsTrue(c, a),
         [Next]_vars
  PROVE  AckIsTrue(c, a)'
<1> USE DEF IInv
<1>0. CASE a.kind # "done"
  BY <1>0 DEF AckIsTrue
<1>1. /\ mechanicalRevision \in Nat /\ a.last \in Nat /\ call.last \in Nat
  BY DEF TypeOK, Answer, Call
<1>2. CASE a.kind = "done"
  <2>1. /\ rows[c].status = "completed"
        /\ gameCommands[c] # Nil
        /\ a.last = gameCommands[c].last
        /\ a.last <= mechanicalRevision
    BY <1>2 DEF AckIsTrue
  <2>2. gameCommands'[c] = gameCommands[c]
    <3>1. ASSUME NEW d \in Mechanic, NEW n, NEW outcome,
                 gameCommands[d] = Nil, CommitGame(d, outcome, n)
          PROVE  gameCommands'[c] = gameCommands[c]
      BY <2>1, <3>1, CommitGameTable
    <3>2. QED
      BY <3>1, GameSteps DEF gameVars
  <2>3. rows'[c].status = "completed" /\ mechanicalRevision' >= mechanicalRevision
    <3>1. ASSUME NEW d \in Mechanic, NEW b \in Offered(d), StartWorkflow(d, b)
          PROVE  <2>3
      <4>1. d # c
        BY <2>1, <3>1 DEF StartWorkflow, RowsMatch, Bound
      <4>2. \A e \in Mechanic \ {d} : rows'[e] = rows[e]
        BY <3>1, StartTables
      <4>3. UNCHANGED mechanicalRevision
        BY <3>1 DEF StartWorkflow
      <4>4. QED
        BY <1>1, <2>1, <4>1, <4>2, <4>3
    <3>2. ASSUME NEW d \in Mechanic, CompleteWorkflow(d) PROVE <2>3
      <4>1. mechanicalRevision' = call.last /\ call.last >= mechanicalRevision
        BY <3>2, CompletedLink DEF CompleteWorkflow
      <4>2. QED
        BY <1>1, <2>1, <3>2, <4>1, FinalizeRows DEF CompleteWorkflow
    <3>3. ASSUME NEW d \in Mechanic, FailWorkflow(d) PROVE <2>3
      <4>1. d # c /\ Finalize(d, "failed") /\ UNCHANGED mechanicalRevision
        BY <2>1, <3>3 DEF FailWorkflow, Finalize
      <4>2. QED
        BY <1>1, <2>1, <4>1, FinalizeRows
    <3>4. CASE UNCHANGED <<rows, mechanicalRevision>>
      BY <1>1, <2>1, <3>4
    <3>5. QED
      BY <3>1, <3>2, <3>3, <3>4, WorkflowSteps
  <2>4. mechanicalRevision' \in Nat
    BY StepType DEF TypeOK
  <2>5. QED
    BY <1>1, <2>1, <2>2, <2>3, <2>4 DEF AckIsTrue
<1>3. QED
  BY <1>0, <1>2
\* An answer that was not given before is not of success, or it is read from
\* a completed row, or it follows the final room transaction.
LEMMA NewAnswers ==
  ASSUME TypeOK, [Next]_vars, NEW c \in Mechanic, NEW a \in told'[c],
         a \notin told[c]
  PROVE  \/ a.kind # "done"
         \/ /\ rows[c].status = "completed" /\ a.last = rows[c].last
            /\ UNCHANGED <<roomVars, gameVars>>
         \/ CompleteWorkflow(c) /\ a.last = call.last
<1>1. ASSUME NEW d \in Mechanic, NEW kind, NEW last, Tell(d, kind, last)
      PROVE  c = d /\ a = [kind |-> kind, last |-> last]
  BY <1>1 DEF Tell, TypeOK
<1>2. ASSUME NEW d \in Mechanic, NEW kind, NEW last, Answered(d, kind, last)
      PROVE  c = d /\ a = [kind |-> kind, last |-> last]
  BY <1>1, <1>2 DEF Answered
<1>3. ASSUME NEW d \in Mechanic, Tell(d, "rejected", 0)
      PROVE  a.kind # "done"
  BY <1>1, <1>3
<1>4. ASSUME NEW d \in Mechanic, NEW b \in Offered(d), ReplayCompleted(d, b)
      PROVE  /\ rows[c].status = "completed" /\ a.last = rows[c].last
             /\ UNCHANGED <<roomVars, gameVars>>
  <2>1. c = d /\ a = [kind |-> "done", last |-> rows[d].last]
    BY <1>1, <1>4 DEF ReplayCompleted
  <2>2. QED
    BY <1>4, <2>1 DEF ReplayCompleted
<1>5. ASSUME NEW d \in Mechanic, CompleteWorkflow(d)
      PROVE  CompleteWorkflow(c) /\ a.last = call.last
  <2>1. c = d /\ a = [kind |-> "done", last |-> call.last]
    BY <1>2, <1>5 DEF CompleteWorkflow
  <2>2. QED
    BY <1>5, <2>1
<1>6. ASSUME NEW d \in Mechanic, FailWorkflow(d) PROVE a.kind # "done"
  BY <1>2, <1>6 DEF FailWorkflow
<1>7. ASSUME NEW d \in Mechanic, FinalizeCollision(d) PROVE a.kind # "done"
  BY <1>2, <1>7 DEF FinalizeCollision
<1>8. ASSUME UNCHANGED told PROVE FALSE
  BY <1>8
<1>9. CASE Next
  <2>1. \/ \E d \in Mechanic : Tell(d, "rejected", 0)
        \/ \E d \in Mechanic : \E b \in Offered(d) : ReplayCompleted(d, b)
        \/ \E d \in Mechanic : CompleteWorkflow(d)
        \/ \E d \in Mechanic : FailWorkflow(d)
        \/ \E d \in Mechanic : FinalizeCollision(d)
        \/ UNCHANGED told
    BY <1>9, NextCases
    DEF RefuseUnowned, RefuseCollision, RefuseStaleOrBusy, StartWorkflow,
        ReplayUnfinished, RecoverPending, GameReplay, GameCollision,
        GameReject, GameAccept, GameFail, FinalizeThrows, RejectRoomCommand,
        AcceptRoomCommand, SystemRoomEvent, Crash
  <2>2. QED
    BY <2>1, <1>3, <1>4, <1>5, <1>6, <1>7, <1>8
<1>10. QED
  BY <1>8, <1>9 DEF vars

\* Success is told only of finished workflows, and stays true.
LEMMA StepAck ==
  ASSUME TypeOK, IInv, [Next]_vars
  PROVE  AckAfterFinalization'
<1>1. SUFFICES ASSUME NEW c \in Mechanic, NEW a \in told'[c]
               PROVE  AckIsTrue(c, a)'
  BY DEF AckAfterFinalization, AckIsTrue
<1>2. a \in Answer
  BY StepType DEF TypeOK
<1>3. CASE a \in told[c]
  <2>1. AckIsTrue(c, a)
    BY <1>3 DEF IInv, AckAfterFinalization, AckIsTrue
  <2>2. QED
    BY <1>2, <2>1, AckStaysTrue
<1>4. CASE a.kind # "done"
  BY <1>4 DEF AckIsTrue
<1>5. CASE /\ rows[c].status = "completed" /\ a.last = rows[c].last
           /\ UNCHANGED <<roomVars, gameVars>>
  <2>1. /\ gameCommands[c] # Nil
        /\ rows[c].last = gameCommands[c].last
        /\ rows[c].last <= mechanicalRevision
    BY <1>5 DEF IInv, CompletedMatch
  <2>2. UNCHANGED <<rows, gameCommands, mechanicalRevision>>
    BY <1>5 DEF roomVars, gameVars
  <2>3. QED
    BY <1>5, <2>1, <2>2 DEF AckIsTrue
<1>6. CASE CompleteWorkflow(c) /\ a.last = call.last
  <2>1. gameCommands[c] # Nil /\ gameCommands[c].last = call.last
    BY <1>6, CompletedLink
  <2>2. rows'[c].status = "completed"
    BY <1>6, FinalizeRows DEF CompleteWorkflow
  <2>3. mechanicalRevision' = call.last /\ UNCHANGED gameCommands
    BY <1>6 DEF CompleteWorkflow, gameVars
  <2>4. call.last \in Nat
    BY DEF TypeOK, Call
  <2>5. QED
    BY <1>6, <2>1, <2>2, <2>3, <2>4 DEF AckIsTrue
<1>7. QED
  BY <1>3, <1>4, <1>5, <1>6, NewAnswers

\* The invariant holds of a created room and is kept by every step.
LEMMA InitIInv == Init => IInv
<1>1. Init => BytesPast /\ RowsMatch /\ CompletedMatch
  BY ConstantsAssumption
  DEF Init, BytesPast, RowsMatch, CompletedMatch, NoRow, ClientCommand
<1>2. Init => CallMatches
  BY DEF Init, CallMatches, Idle
<1>3. Init => Linkage /\ AckAfterFinalization
  BY ConstantsAssumption DEF Init, Linkage, AckAfterFinalization
<1>4. Init => OneUnresolved /\ GameRanges
  BY InitUnresolved, InitTiled
<1>5. QED
  BY <1>1, <1>2, <1>3, <1>4 DEF IInv

\* One step of the invariant, conjunct by conjunct.
LEMMA StepIInv ==
  ASSUME TypeOK, MechanicalStreamContiguous, IInv, NoRejectedRetry,
         [Next]_vars
  PROVE  IInv'
<1>1. OneUnresolved'
  BY StepUnresolved DEF IInv
<1>2. GameRanges'
  BY StepTiled DEF IInv
<1>3. BytesPast'
  BY StepBytesPast DEF IInv
<1>4. RowsMatch' /\ CallMatches' /\ CompletedMatch'
  BY StepRowsMatch, StepCallMatches, StepCompletedMatch
<1>5. Linkage' /\ AckAfterFinalization'
  BY StepLinkage, StepAck
<1>6. QED
  BY <1>1, <1>2, <1>3, <1>4, <1>5 DEF IInv

\* The strengthened invariant of the workflow service.
LEMMA InductiveInvariant ==
  ASSUME NoRejectedRetry
  PROVE  Spec => [](TypeOK /\ IInv)
<1>1. Init => TypeOK /\ MechanicalStreamContiguous /\ IInv
  BY InitType, InitTiled, InitIInv
<1>2. /\ TypeOK /\ MechanicalStreamContiguous /\ IInv
      /\ [Next]_vars
      => (TypeOK /\ MechanicalStreamContiguous /\ IInv)'
  BY StepType, StepTiled, StepIInv, NoRejectedRetry DEF IInv
<1>3. QED
  BY <1>1, <1>2, PTL DEF Spec

\* The two streams are linked whenever no workflow is unresolved, and by one
\* transaction at most otherwise: what RoomApplication.resume asserts.
THEOREM StreamsLinked ==
  ASSUME NoRejectedRetry
  PROVE  Spec => []Linkage
<1>1. IInv => Linkage
  BY DEF IInv
<1>2. QED
  BY <1>1, InductiveInvariant, NoRejectedRetry, PTL

\* Success is acknowledged after the final room transaction only, and every
\* acknowledgement of a command names the transaction that executed it.
THEOREM AcknowledgedAfterFinalization ==
  ASSUME NoRejectedRetry
  PROVE  Spec => []AckAfterFinalization
<1>1. IInv => AckAfterFinalization
  BY DEF IInv
<1>2. QED
  BY <1>1, InductiveInvariant, NoRejectedRetry, PTL

\* A command the room rejected never reaches the engine's stream.
THEOREM RejectedNeverRuns ==
  ASSUME NoRejectedRetry
  PROVE  Spec => []RejectedNeverExecutes
<1>1. IInv => RejectedNeverExecutes
  BY DEF IInv, RowsMatch, RejectedNeverExecutes
<1>2. QED
  BY <1>1, InductiveInvariant, NoRejectedRetry, PTL
-----------------------------------------------------------------------------
(* Action properties.                                                      *)

\* A room command that changes who holds the seats is refused while a
\* mechanic is unresolved, so nobody loses a seat in the middle of one.
THEOREM SeatsFrozen == Spec => RosterFrozen
<1>1. ASSUME NEW d \in RoomOnly, NEW b \in Offered(d), AcceptRoomCommand(d, b),
             pendingWorkflow # Nil
      PROVE  seatHeld' = seatHeld
  <2>1. d \notin System
    BY ConstantsAssumption
  <2>2. d \in Exempt
    BY <1>1, <2>1 DEF AcceptRoomCommand, Busy
  <2>3. QED
    BY <1>1, <2>2 DEF AcceptRoomCommand
<1>2. ASSUME Next, pendingWorkflow # Nil PROVE seatHeld' = seatHeld
  BY <1>1, <1>2, NextCases
  DEF RefuseUnowned, RefuseCollision, RefuseStaleOrBusy, StartWorkflow,
      ReplayCompleted, ReplayUnfinished, RecoverPending, GameReplay,
      GameCollision, GameReject, GameAccept, GameFail, CompleteWorkflow,
      FailWorkflow, FinalizeCollision, FinalizeThrows, RejectRoomCommand,
      SystemRoomEvent, Crash, roomVars
<1>3. [Next]_vars =>
        [(pendingWorkflow # Nil /\ pendingWorkflow' = pendingWorkflow)
           => seatHeld' = seatHeld]_vars
  BY <1>2
<1>4. QED
  BY <1>3, PTL DEF Spec, RosterFrozen

\* Which steps bind the finalize identity of a command, and to what.
LEMMA FinalSteps ==
  ASSUME TypeOK, [Next]_vars, NEW c \in Mechanic, finals[c] # Nil
  PROVE  finals'[c] = finals[c]
<1>1. ASSUME NEW d \in Mechanic, NEW status, Finalize(d, status)
      PROVE  finals'[c] = finals[c]
  BY <1>1 DEF Finalize, TypeOK
<1>2. ASSUME NEW d \in Mechanic, CompleteWorkflow(d)
      PROVE  finals'[c] = finals[c]
  BY <1>1, <1>2 DEF CompleteWorkflow
<1>3. ASSUME NEW d \in Mechanic, FailWorkflow(d)
      PROVE  finals'[c] = finals[c]
  BY <1>1, <1>3 DEF FailWorkflow
<1>4. ASSUME NEW d \in Mechanic, NEW b \in Offered(d), StartWorkflow(d, b)
      PROVE  finals'[c] = finals[c]
  BY <1>4 DEF StartWorkflow
<1>5. QED
  BY <1>2, <1>3, <1>4, WorkflowSteps

\* An identity, once bound, keeps its bytes, its outcome and its transaction
\* in both streams.
THEOREM IdentitiesBound == Spec => IdentitiesPermanent
<1>1. ASSUME TypeOK, [Next]_vars, NEW c \in ClientCommand,
             roomCommands[c] # Nil
      PROVE  roomCommands'[c] = roomCommands[c]
  <2>1. ASSUME NEW d \in ClientCommand, NEW b, NEW outcome, NEW n,
               ~Bound(d), CommitRoom(d, b, outcome, n)
        PROVE  roomCommands'[c] = roomCommands[c]
    BY <1>1, <2>1 DEF Bound, CommitRoom, TypeOK
  <2>2. QED
    BY <1>1, <2>1, BindSteps
<1>2. ASSUME TypeOK, [Next]_vars, NEW c \in Mechanic, gameCommands[c] # Nil
      PROVE  gameCommands'[c] = gameCommands[c]
  <2>1. ASSUME NEW d \in Mechanic, NEW n, NEW outcome,
               gameCommands[d] = Nil, CommitGame(d, outcome, n)
        PROVE  gameCommands'[c] = gameCommands[c]
    BY <1>2, <2>1, CommitGameTable
  <2>2. QED
    BY <1>2, <2>1, GameSteps DEF gameVars
<1>3. TypeOK /\ [Next]_vars =>
        [/\ \A c \in ClientCommand :
              roomCommands[c] # Nil => roomCommands'[c] = roomCommands[c]
         /\ \A c \in Mechanic :
              /\ finals[c] # Nil => finals'[c] = finals[c]
              /\ gameCommands[c] # Nil
                   => gameCommands'[c] = gameCommands[c]]_vars
  BY <1>1, <1>2, FinalSteps
<1>4. QED
  BY <1>3, InitType, StepType, PTL DEF Spec, IdentitiesPermanent

-----------------------------------------------------------------------------
(* The workflow implements SingleEffect.                                   *)

\* A step that touches one command changes at most that command's phase.
LEMMA PhaseChange ==
  ASSUME NEW c \in Mechanic,
         \A d \in Mechanic \ {c} : /\ rows'[d] = rows[d]
                                   /\ roomCommands'[d] = roomCommands[d]
  PROVE  phase' = [phase EXCEPT ![c] = phase'[c]]
  BY DEF phase

\* The phase and the effect of a command, by its tables.
LEMMA PhaseOf ==
  ASSUME TypeOK, IInv, NEW c \in Mechanic
  PROVE  /\ phase[c] = "new" <=> roomCommands[c] = Nil
         /\ phase[c] = "open" <=> rows[c].status = "pending"
         /\ phase[c] = "stuck" <=> rows[c].status = "failed"
         /\ effect[c] = "none" <=> gameCommands[c] = Nil
<1>1. /\ rows[c].status # "absent"
           <=> roomCommands[c] # Nil /\ roomCommands[c].outcome = "accepted"
      /\ rows[c].status \in {"absent", "pending", "completed", "failed"}
  BY DEF IInv, RowsMatch, TypeOK, Row
<1>2. c \in ClientCommand
  BY DEF ClientCommand
<1>3. roomCommands[c] # Nil
        => roomCommands[c].outcome \in {"accepted", "rejected"}
  BY <1>2 DEF TypeOK, StoredCommand
<1>4. gameCommands[c] # Nil
        => gameCommands[c].outcome \in {"accepted", "rejected"}
  BY DEF TypeOK, StoredGame
<1>5. QED
  BY <1>1, <1>3, <1>4 DEF phase, effect
\* Every step of the workflow is a step of the abstract exchange or leaves it.
LEMMA StepSingleEffect ==
  ASSUME TypeOK, IInv, TypeOK', IInv', [Next]_vars
  PROVE  [Exchange!Next]_<<phase, effect>>
<1>1. ASSUME NEW c \in Mechanic, NEW b \in Offered(c), StartWorkflow(c, b)
      PROVE  Exchange!Open(c)
  <2>1. phase[c] = "new"
    BY <1>1, PhaseOf DEF StartWorkflow, Bound
  <2>2. ~Exchange!Occupied
    <3>1. \A d \in Mechanic : rows[d].status \notin {"pending", "failed"}
      BY <1>1, ConstantsAssumption DEF StartWorkflow, IInv, OneUnresolved
    <3>2. QED
      BY <3>1, PhaseOf DEF Exchange!Occupied
  <2>3. phase'[c] = "open"
    BY <1>1, StartTables DEF phase
  <2>4. phase' = [phase EXCEPT ![c] = phase'[c]]
    BY <1>1, StartTables, PhaseChange DEF ClientCommand
  <2>5. UNCHANGED effect
    BY <1>1 DEF StartWorkflow, gameVars, effect
  <2>6. QED
    BY <2>1, <2>2, <2>3, <2>4, <2>5 DEF Exchange!Open
<1>2. ASSUME NEW c \in Mechanic, NEW b \in Offered(c), RefuseStaleOrBusy(c, b)
      PROVE  Exchange!Refuse(c)
  <2>1. phase[c] = "new"
    BY <1>2, PhaseOf DEF RefuseStaleOrBusy, Bound
  <2>2. /\ roomCommands'[c] = [bytes |-> b, outcome |-> "rejected"]
        /\ \A d \in Mechanic \ {c} : roomCommands'[d] = roomCommands[d]
    BY <1>2 DEF RefuseStaleOrBusy, CommitRoom, TypeOK, ClientCommand
  <2>3. roomCommands'[c] # Nil
    <3>1. b \in Bytes
      BY OfferedType DEF ClientCommand
    <3>2. QED
      BY <2>2, <3>1, NilAssumption DEF StoredCommand
  <2>4. UNCHANGED rows
    BY <1>2 DEF RefuseStaleOrBusy
  <2>5. phase'[c] = "refused"
    BY <2>2, <2>3 DEF phase
  <2>6. phase' = [phase EXCEPT ![c] = phase'[c]]
    BY <2>2, <2>4, PhaseChange
  <2>7. UNCHANGED effect
    BY <1>2 DEF RefuseStaleOrBusy, gameVars, effect
  <2>8. QED
    BY <2>1, <2>5, <2>6, <2>7 DEF Exchange!Refuse
<1>3. ASSUME NEW c \in Mechanic, CompleteWorkflow(c) PROVE Exchange!Close(c)
  <2>1. phase[c] = "open" /\ effect[c] # "none"
    BY <1>3, PhaseOf, CompletedLink DEF CompleteWorkflow, Finalize
  <2>2. /\ rows'[c].status = "completed"
        /\ \A d \in Mechanic \ {c} : rows'[d] = rows[d]
    BY <1>3, FinalizeRows DEF CompleteWorkflow
  <2>3. UNCHANGED <<roomCommands, gameCommands>>
    BY <1>3 DEF CompleteWorkflow, gameVars
  <2>4. phase'[c] = "closed"
    BY <2>1, <2>2, <2>3 DEF phase
  <2>5. phase' = [phase EXCEPT ![c] = phase'[c]]
    BY <2>2, <2>3, PhaseChange
  <2>6. UNCHANGED effect
    BY <2>3 DEF effect
  <2>7. QED
    BY <2>1, <2>4, <2>5, <2>6 DEF Exchange!Close
<1>4. ASSUME NEW c \in Mechanic, FailWorkflow(c) PROVE Exchange!Fail(c)
  <2>1. phase[c] = "open"
    BY <1>4, PhaseOf DEF FailWorkflow, Finalize
  <2>2. /\ rows'[c].status = "failed"
        /\ \A d \in Mechanic \ {c} : rows'[d] = rows[d]
    BY <1>4, FinalizeRows DEF FailWorkflow
  <2>3. UNCHANGED <<roomCommands, gameCommands>>
    BY <1>4 DEF FailWorkflow, gameVars
  <2>4. phase'[c] = "stuck"
    BY <2>1, <2>2, <2>3 DEF phase
  <2>5. phase' = [phase EXCEPT ![c] = phase'[c]]
    BY <2>2, <2>3, PhaseChange
  <2>6. UNCHANGED effect
    BY <2>3 DEF effect
  <2>7. QED
    BY <2>1, <2>4, <2>5, <2>6 DEF Exchange!Fail
<1>5. ASSUME NEW c \in Mechanic, NEW n \in Nat \ {0},
             NEW outcome \in {"accepted", "rejected"}, AtEngine(c),
             gameCommands[c] = Nil, CommitGame(c, outcome, n),
             UNCHANGED <<roomVars, told, crashes>>
      PROVE  Exchange!Apply(c)
  <2>1. phase[c] \in {"open", "stuck"} /\ effect[c] = "none"
    BY <1>5, EngineRow, PhaseOf
  <2>2. UNCHANGED phase
    BY <1>5 DEF roomVars, phase
  <2>3. /\ gameCommands'[c].outcome = outcome
        /\ \A d \in Mechanic \ {c} : gameCommands'[d] = gameCommands[d]
    BY <1>5, CommitGameTable
  <2>4. gameCommands'[c] # Nil
    <3>1. gameCommands'[c] = [expected |-> call.expected, outcome |-> outcome,
                              first |-> gameRevision + 1,
                              last |-> gameRevision + n]
      BY <1>5 DEF CommitGame, TypeOK
    <3>2. gameCommands'[c] \in StoredGame
      BY <3>1 DEF StoredGame, TypeOK, Call
    <3>3. QED
      BY <3>2, NilAssumption
  <2>5. effect' = [effect EXCEPT ![c] = outcome]
    BY <2>3, <2>4 DEF effect
  <2>6. QED
    BY <2>1, <2>2, <2>5 DEF Exchange!Apply, Exchange!Effects
<1>6. CASE /\ UNCHANGED <<rows, gameVars>>
           /\ \A c \in Mechanic : roomCommands'[c] = roomCommands[c]
  <2>1. UNCHANGED <<phase, effect>>
    BY <1>6 DEF phase, effect, gameVars
  <2>2. QED
    BY <2>1
<1>7. QED
  <2>1. \/ \E c \in Mechanic : \E b \in Offered(c) : StartWorkflow(c, b)
        \/ \E c \in Mechanic : \E b \in Offered(c) : RefuseStaleOrBusy(c, b)
        \/ \E c \in Mechanic : CompleteWorkflow(c)
        \/ \E c \in Mechanic : FailWorkflow(c)
        \/ \E c \in Mechanic : Exchange!Apply(c)
        \/ /\ UNCHANGED <<rows, gameVars>>
           /\ \A c \in Mechanic : roomCommands'[c] = roomCommands[c]
    BY <1>5, WorkflowSteps, GameSteps, MechanicCommandSteps
  <2>2. QED
    BY <2>1, <1>1, <1>2, <1>3, <1>4, <1>6 DEF Exchange!Next

\* Retried, recovered and crashed, the workflow still gives every command at
\* most one effect, and the room one open command at a time.
THEOREM WorkflowIsSingleEffect ==
  ASSUME NoRejectedRetry
  PROVE  Spec => ImplementsSingleEffect
<1>1. Init => Exchange!Init
  BY DEF Init, Exchange!Init, phase, effect, ClientCommand
<1>2. (TypeOK /\ IInv) /\ (TypeOK /\ IInv)' /\ [Next]_vars
        => [Exchange!Next]_<<phase, effect>>
  BY StepSingleEffect
<1>3. Spec => [](TypeOK /\ IInv)
  BY InductiveInvariant, NoRejectedRetry
<1>4. QED
  BY <1>1, <1>2, <1>3, PTL DEF Spec, ImplementsSingleEffect, Exchange!Spec
=============================================================================
