-------------------------- MODULE RoomRosterProofs --------------------------
(***************************************************************************)
(* What RoomRoster guarantees for every set of participants, every number  *)
(* of seats, every capacity and both modes.                                *)
(*                                                                         *)
(* The inductive invariant is a property of the committed room, Good, and  *)
(* each kind of event has a lemma: applied where its decision applies it,  *)
(* it leads from a good room to a good room.                               *)
(***************************************************************************)
EXTENDS RoomRoster, FiniteSetTheorems, WellFoundedInduction, TLAPS

\* The invariants of RoomRoster as properties of any room.
Roles(r) ==
  /\ \A s \in Seat : r.owner[s] # Nobody => r.status[r.owner[s]] = "approved"
  /\ r.correction # Nobody => r.status[r.correction] = "approved"

Selection(r) ==
  \A p \in Participant : r.selected[p] = Nobody <=> SeatsOf(r, p) = {}

Hostless(r) ==
  r.host = Nobody =>
    /\ \A p \in Participant : r.status[p] \in {"absent", "pending"}
    /\ \A s \in Seat : r.owner[s] = Nobody
    /\ r.run = "lobby"
    /\ r.correction = Nobody

Final(r) == r.concluded => r.run = "completed"

Good(r) ==
  /\ r \in Room
  /\ ValidRoom(r)
  /\ Roles(r)
  /\ Selection(r)
  /\ Hostless(r)
  /\ Final(r)

IInv == TypeOK /\ Good(room) /\ AcceptedNeverThrows

-----------------------------------------------------------------------------
(* The seat a former owner selects next.                                   *)

\* A nonempty set of seats has a first one.
LEMMA FirstSeat ==
  ASSUME NEW S \in SUBSET Seat, S # {}
  PROVE  \E t \in S : \A u \in S : t =< u
<1>1. S \subseteq Nat
  BY RosterAssumption DEF Seat
<1>2. PICK t \in S : \A u \in S : <<u, t>> \notin OpToRel(<, Nat)
  BY <1>1, NatLessThanWellFounded, WFMin, Zenon
<1>3. \A u \in S : ~(u < t)
  BY <1>1, <1>2 DEF OpToRel
<1>4. QED
  BY <1>1, <1>3

\* NextSeatOf is another seat of p, or Nobody when p keeps none.
LEMMA NextSeatIsOwned ==
  ASSUME NEW r \in Room, NEW p \in Participant, NEW s \in Seat
  PROVE  \/ /\ SeatsOf(r, p) \ {s} = {}
            /\ NextSeatOf(r, p, s) = Nobody
         \/ /\ NextSeatOf(r, p, s) \in Seat
            /\ NextSeatOf(r, p, s) # s
            /\ r.owner[NextSeatOf(r, p, s)] = p
<1> DEFINE others == SeatsOf(r, p) \ {s}
<1>1. CASE others = {}
  BY <1>1 DEF NextSeatOf
<1>2. CASE others # {}
  <2>1. others \in SUBSET Seat
    BY DEF SeatsOf
  <2>2. \E t \in others : \A u \in others : t =< u
    BY <1>2, <2>1, FirstSeat
  <2>3. NextSeatOf(r, p, s) \in others
    BY <1>2, <2>2 DEF NextSeatOf
  <2>4. QED
    BY <2>3 DEF SeatsOf
<1>3. QED
  BY <1>1, <1>2

-----------------------------------------------------------------------------
(* One lemma per kind of event.                                            *)

\* participant_join_requested, when the room has a place left.
LEMMA JoinedGood ==
  ASSUME NEW r, Good(r), NEW p \in Participant, r.status[p] = "absent",
         WithinCapacity(Joined(r, p))
  PROVE  Good(Joined(r, p))
<1> USE RosterAssumption DEF Good, Joined, Room
<1>1. Joined(r, p) \in Room
  OBVIOUS
<1>2. /\ OwnersListed(Joined(r, p))
      /\ OneSeatInNormalMode(Joined(r, p))
      /\ HostApproved(Joined(r, p))
  BY DEF ValidRoom, OwnersListed, OneSeatInNormalMode, HostApproved, Members
<1>3. SeatsOf(r, p) = {} /\ r.selected[p] = Nobody
  BY DEF ValidRoom, OwnersListed, Members, SeatsOf, Selection
<1>4. SelectedSeatOwned(Joined(r, p)) /\ Selection(Joined(r, p))
  BY <1>3 DEF ValidRoom, SelectedSeatOwned, Selection, SeatsOf
<1>5. Roles(Joined(r, p)) /\ Hostless(Joined(r, p)) /\ Final(Joined(r, p))
  BY DEF Roles, Hostless, Final
<1>6. QED
  BY <1>1, <1>2, <1>4, <1>5 DEF ValidRoom

\* participant_approved and participant_rejected, once a host is established.
LEMMA JudgedGood ==
  ASSUME NEW r, Good(r), NEW p \in Participant, r.status[p] = "pending",
         NEW verdict \in {"approved", "rejected"}, r.host # Nobody
  PROVE  Good(Judged(r, p, verdict))
<1> USE RosterAssumption DEF Good, Judged, Room
<1>1. Judged(r, p, verdict) \in Room
  OBVIOUS
<1>2. Members(Judged(r, p, verdict)) = Members(r)
  BY DEF Members
<1>3. ValidRoom(Judged(r, p, verdict))
  BY <1>2 DEF ValidRoom, WithinCapacity, OwnersListed, OneSeatInNormalMode,
              SelectedSeatOwned, HostApproved
<1>4. Roles(Judged(r, p, verdict)) /\ Hostless(Judged(r, p, verdict))
        /\ Final(Judged(r, p, verdict))
  BY DEF Roles, Hostless, Final
<1>5. Selection(Judged(r, p, verdict))
  BY DEF Selection, SeatsOf
<1>6. QED
  BY <1>1, <1>3, <1>4, <1>5

\* The bootstrap: the approval and the authority in one transaction.
LEMMA BootstrapGood ==
  ASSUME NEW r, Good(r), NEW p \in Participant, r.status[p] = "pending"
  PROVE  /\ ValidRoom(Judged(r, p, "approved"))
         /\ Good(HostAssigned(Judged(r, p, "approved"), p))
<1> DEFINE mid == Judged(r, p, "approved")
<1> DEFINE end == HostAssigned(mid, p)
<1> USE RosterAssumption DEF Good, Judged, HostAssigned, Room
<1>1. mid \in Room /\ end \in Room
  OBVIOUS
<1>2. Members(mid) = Members(r) /\ Members(end) = Members(r)
  BY DEF Members
<1>3. ValidRoom(mid)
  BY <1>2 DEF ValidRoom, WithinCapacity, OwnersListed, OneSeatInNormalMode,
              SelectedSeatOwned, HostApproved
<1>4. ValidRoom(end)
  BY <1>2 DEF ValidRoom, WithinCapacity, OwnersListed, OneSeatInNormalMode,
              SelectedSeatOwned, HostApproved
<1>5. Roles(end) /\ Hostless(end) /\ Final(end)
  BY DEF Roles, Hostless, Final
<1>6. Selection(end)
  BY DEF Selection, SeatsOf
<1>7. QED
  BY <1>1, <1>3, <1>4, <1>5, <1>6

\* player_host_assigned to an approved participant.
LEMMA HostAssignedGood ==
  ASSUME NEW r, Good(r), NEW p \in Participant, r.status[p] = "approved"
  PROVE  Good(HostAssigned(r, p))
<1> USE RosterAssumption DEF Good, HostAssigned, Room
<1>1. HostAssigned(r, p) \in Room
  OBVIOUS
<1>2. Members(HostAssigned(r, p)) = Members(r)
  BY DEF Members
<1>3. ValidRoom(HostAssigned(r, p))
  BY <1>2 DEF ValidRoom, WithinCapacity, OwnersListed, OneSeatInNormalMode,
              SelectedSeatOwned, HostApproved
<1>4. Roles(HostAssigned(r, p)) /\ Hostless(HostAssigned(r, p))
        /\ Final(HostAssigned(r, p))
  BY DEF Roles, Hostless, Final
<1>5. Selection(HostAssigned(r, p))
  BY DEF Selection, SeatsOf
<1>6. QED
  BY <1>1, <1>3, <1>4, <1>5

\* seat_released, of any seat.
LEMMA SeatReleasedGood ==
  ASSUME NEW r, Good(r), NEW s \in Seat
  PROVE  Good(SeatReleased(r, s)) /\ SeatReleased(r, s).owner[s] = Nobody
<1> USE RosterAssumption DEF Good, Room
<1> DEFINE p == r.owner[s]
<1>1. CASE p = Nobody
  BY <1>1 DEF SeatReleased
<1>2. CASE p # Nobody
  <2> DEFINE next == NextSeatOf(r, p, s)
  <2> DEFINE end == [r EXCEPT !.owner[s] = Nobody,
                       !.selected[p] = IF @ = s THEN next ELSE @]
  <2>1. SeatReleased(r, s) = end
    BY <1>2 DEF SeatReleased
  <2>2. p \in Participant
    BY <1>2
  <2>3. \/ SeatsOf(r, p) \ {s} = {} /\ next = Nobody
        \/ next \in Seat /\ next # s /\ r.owner[next] = p
    BY <2>2, NextSeatIsOwned
  <2> HIDE DEF next
  <2>4. end \in Room
    BY <2>2, <2>3
  <2>5. /\ end.owner = [r.owner EXCEPT ![s] = Nobody]
        /\ end.selected = [r.selected EXCEPT ![p] =
                             IF r.selected[p] = s THEN next ELSE r.selected[p]]
        /\ end.status = r.status /\ end.host = r.host /\ end.run = r.run
        /\ end.concluded = r.concluded /\ end.correction = r.correction
    OBVIOUS
  <2> HIDE DEF end
  <2>6. Members(end) = Members(r)
    BY <2>5 DEF Members
  <2>7. /\ WithinCapacity(end) /\ OwnersListed(end)
        /\ OneSeatInNormalMode(end) /\ HostApproved(end)
    BY <2>5, <2>6 DEF ValidRoom, WithinCapacity, OwnersListed,
                      OneSeatInNormalMode, HostApproved
  <2>8. SelectedSeatOwned(end)
    BY <2>2, <2>3, <2>5 DEF ValidRoom, SelectedSeatOwned
  <2>9. Roles(end) /\ Hostless(end) /\ Final(end)
    BY <2>5 DEF Roles, Hostless, Final
  <2>10. Selection(end)
    <3>1. SUFFICES ASSUME NEW q \in Participant
                   PROVE  end.selected[q] = Nobody <=> SeatsOf(end, q) = {}
      BY DEF Selection
    <3>2. CASE q # p
      BY <2>5, <3>2 DEF Selection, SeatsOf
    <3>3. CASE q = p
      <4>1. SeatsOf(end, q) = SeatsOf(r, p) \ {s}
        BY <2>5, <3>3, <2>2 DEF SeatsOf
      <4>2. CASE r.selected[p] = s
        <5>1. end.selected[q] = next
          BY <2>2, <2>5, <3>3, <4>2
        <5>2. next \in Seat => next # Nobody
          BY DEF Seat
        <5>3. next \in Seat /\ next # s /\ r.owner[next] = p
                => next \in SeatsOf(r, p) \ {s}
          BY DEF SeatsOf
        <5>4. QED
          BY <2>3, <4>1, <5>1, <5>2, <5>3
      <4>3. CASE r.selected[p] # s
        <5>1. s \in SeatsOf(r, p) /\ r.selected[p] # Nobody
          BY <2>2 DEF SeatsOf, Selection
        <5>2. r.selected[p] \in SeatsOf(r, p) \ {s}
          BY <2>2, <4>3, <5>1 DEF ValidRoom, SelectedSeatOwned, SeatsOf
        <5>3. QED
          BY <2>2, <2>5, <3>3, <4>1, <4>3, <5>1, <5>2
      <4>4. QED
        BY <4>2, <4>3
    <3>4. QED
      BY <3>2, <3>3
  <2>11. QED
    BY <2>1, <2>4, <2>5, <2>7, <2>8, <2>9, <2>10 DEF ValidRoom
<1>3. QED
  BY <1>1, <1>2

\* seat_assigned, of a free seat to an approved participant within the limit.
LEMMA SeatAssignedGood ==
  ASSUME NEW r, Good(r), NEW s \in Seat, NEW p \in Participant,
         r.status[p] = "approved", r.owner[s] = Nobody,
         Mode = "normal" => SeatsOf(r, p) = {}
  PROVE  Good(SeatAssigned(r, s, p))
<1> USE RosterAssumption DEF Good, Room
<1> DEFINE end == SeatAssigned(r, s, p)
<1>1. /\ end.owner = [r.owner EXCEPT ![s] = p]
      /\ end.selected = [r.selected EXCEPT ![p] =
                           IF r.selected[p] = Nobody THEN s ELSE r.selected[p]]
      /\ end.status = r.status /\ end.host = r.host /\ end.run = r.run
      /\ end.concluded = r.concluded /\ end.correction = r.correction
      /\ end \in Room
  BY DEF SeatAssigned
<1> HIDE DEF end
<1>2. Members(end) = Members(r) /\ p \in Members(r)
  BY <1>1 DEF Members
<1>3. WithinCapacity(end) /\ OwnersListed(end) /\ HostApproved(end)
  BY <1>1, <1>2 DEF ValidRoom, WithinCapacity, OwnersListed, HostApproved
<1>4. OneSeatInNormalMode(end)
  BY <1>1 DEF ValidRoom, OneSeatInNormalMode, SeatsOf
<1>5. SelectedSeatOwned(end)
  BY <1>1 DEF ValidRoom, SelectedSeatOwned
<1>6. Roles(end) /\ Hostless(end) /\ Final(end)
  BY <1>1 DEF Roles, Hostless, Final
<1>7. Selection(end)
  <2>1. SUFFICES ASSUME NEW q \in Participant
                 PROVE  end.selected[q] = Nobody <=> SeatsOf(end, q) = {}
    BY DEF Selection
  <2>2. CASE q # p
    BY <1>1, <2>2 DEF Selection, SeatsOf
  <2>3. CASE q = p
    <3>1. s \in SeatsOf(end, q) /\ end.selected[q] # Nobody
      BY <1>1, <2>3 DEF SeatsOf, Seat
    <3>2. QED
      BY <3>1
  <2>4. QED
    BY <2>2, <2>3
<1>8. QED
  BY <1>1, <1>3, <1>4, <1>5, <1>6, <1>7 DEF ValidRoom, end

-----------------------------------------------------------------------------
(* Events that touch neither seats nor approvals.                          *)

\* selected_seat_changed, to a seat of the participant.
LEMMA SeatSelectedGood ==
  ASSUME NEW r, Good(r), NEW p \in Participant, NEW s \in Seat,
         r.owner[s] = p
  PROVE  Good(SeatSelected(r, p, s))
<1> USE RosterAssumption DEF Good, Room, SeatSelected
<1>1. SeatSelected(r, p, s) \in Room
  OBVIOUS
<1>2. Members(SeatSelected(r, p, s)) = Members(r)
  BY DEF Members
<1>3. ValidRoom(SeatSelected(r, p, s))
  BY <1>2 DEF ValidRoom, WithinCapacity, OwnersListed, OneSeatInNormalMode,
              SelectedSeatOwned, HostApproved
<1>4. Roles(SeatSelected(r, p, s)) /\ Hostless(SeatSelected(r, p, s))
        /\ Final(SeatSelected(r, p, s))
  BY DEF Roles, Hostless, Final
<1>5. SeatsOf(r, p) # {} /\ s # Nobody
  BY DEF SeatsOf, Seat
<1>6. Selection(SeatSelected(r, p, s))
  BY <1>5 DEF Selection, SeatsOf
<1>7. QED
  BY <1>1, <1>3, <1>4, <1>6

\* run_status_changed, before the room is completed and with a host.
LEMMA RunChangedGood ==
  ASSUME NEW r, Good(r), r.run # "completed", r.host # Nobody,
         NEW status \in {"active", "suspended"}
  PROVE  Good(RunChanged(r, status))
<1> USE RosterAssumption DEF Good, Room, RunChanged
<1>1. RunChanged(r, status) \in Room
  OBVIOUS
<1>2. ValidRoom(RunChanged(r, status))
  BY DEF ValidRoom, WithinCapacity, OwnersListed, OneSeatInNormalMode,
         SelectedSeatOwned, HostApproved, Members
<1>3. Roles(RunChanged(r, status)) /\ Hostless(RunChanged(r, status))
        /\ Final(RunChanged(r, status)) /\ Selection(RunChanged(r, status))
  BY DEF Roles, Hostless, Final, Selection, SeatsOf
<1>4. QED
  BY <1>1, <1>2, <1>3

\* correction_requested by an approved participant.
LEMMA CorrectionRequestedGood ==
  ASSUME NEW r, Good(r), NEW p \in Participant, r.status[p] = "approved"
  PROVE  Good(CorrectionRequested(r, p))
<1> USE RosterAssumption DEF Good, Room, CorrectionRequested
<1>1. CorrectionRequested(r, p) \in Room
  OBVIOUS
<1>2. ValidRoom(CorrectionRequested(r, p))
  BY DEF ValidRoom, WithinCapacity, OwnersListed, OneSeatInNormalMode,
         SelectedSeatOwned, HostApproved, Members
<1>3. /\ Roles(CorrectionRequested(r, p)) /\ Hostless(CorrectionRequested(r, p))
      /\ Final(CorrectionRequested(r, p))
      /\ Selection(CorrectionRequested(r, p))
  BY DEF Roles, Hostless, Final, Selection, SeatsOf
<1>4. QED
  BY <1>1, <1>2, <1>3

\* correction_resolved.
LEMMA CorrectionResolvedGood ==
  ASSUME NEW r, Good(r)
  PROVE  Good(CorrectionResolved(r))
<1> USE RosterAssumption DEF Good, Room, CorrectionResolved
<1>1. CorrectionResolved(r) \in Room
  OBVIOUS
<1>2. ValidRoom(CorrectionResolved(r))
  BY DEF ValidRoom, WithinCapacity, OwnersListed, OneSeatInNormalMode,
         SelectedSeatOwned, HostApproved, Members
<1>3. Roles(CorrectionResolved(r)) /\ Hostless(CorrectionResolved(r))
        /\ Final(CorrectionResolved(r)) /\ Selection(CorrectionResolved(r))
  BY DEF Roles, Hostless, Final, Selection, SeatsOf
<1>4. QED
  BY <1>1, <1>2, <1>3

\* room_conclusion_recorded, with a host.
LEMMA ConcludedGood ==
  ASSUME NEW r, Good(r), r.host # Nobody
  PROVE  Good(Concluded(r))
<1> USE RosterAssumption DEF Good, Room, Concluded
<1>1. Concluded(r) \in Room
  OBVIOUS
<1>2. ValidRoom(Concluded(r))
  BY DEF ValidRoom, WithinCapacity, OwnersListed, OneSeatInNormalMode,
         SelectedSeatOwned, HostApproved, Members
<1>3. Roles(Concluded(r)) /\ Hostless(Concluded(r))
        /\ Final(Concluded(r)) /\ Selection(Concluded(r))
  BY DEF Roles, Hostless, Final, Selection, SeatsOf
<1>4. QED
  BY <1>1, <1>2, <1>3

-----------------------------------------------------------------------------
(* The inductive invariant.                                                *)

\* Room and history, the part of IInv an action may disturb.
Sound == Good(room) /\ AcceptedNeverThrows

\* Good of the next room, with the prime at the variable.
LEMMA GoodPrime ==
  ASSUME Good(room')
  PROVE  Good(room)'
<1>1. (room \in Room)'
  BY DEF Good, Room, Seat
<1>2. ValidRoom(room)'
  BY DEF Good, ValidRoom, WithinCapacity, OwnersListed, OneSeatInNormalMode,
         SelectedSeatOwned, HostApproved, Members, Seat
<1>3. (Roles(room) /\ Hostless(room) /\ Final(room))'
  BY DEF Good, Roles, Hostless, Final, Seat
<1>4. Selection(room)'
  BY DEF Good, Selection, SeatsOf, Seat
<1>5. QED
  BY <1>1, <1>2, <1>3, <1>4 DEF Good

\* A decision whose events keep the room good commits and does not throw.
LEMMA CommitSound ==
  ASSUME IInv, NEW p \in Participant, NEW intent \in Intent, NEW path,
         NEW final, \A r \in path : ValidRoom(r), Good(final),
         Commit(p, intent, path, final)
  PROVE  Sound'
<1>1. \A r \in path \cup {final} : ValidRoom(r)
  BY DEF Good
<1>2. room' = final /\ threw' = threw
  BY <1>1 DEF Commit
<1>3. Good(room)'
  BY <1>2, GoodPrime
<1>4. AcceptedNeverThrows'
  BY <1>2 DEF IInv, AcceptedNeverThrows
<1>5. QED
  BY <1>3, <1>4 DEF Sound

LEMMA InitSound == Init => Sound
<1> SUFFICES ASSUME Init PROVE Sound
  OBVIOUS
<1> USE RosterAssumption DEF Init
<1>1. Members(room) = {}
  BY DEF Members
<1>2. WithinCapacity(room)
  <2>1. Cardinality({}) = 0
    BY FS_EmptySet
  <2>2. Cardinality(Members(room)) = 0
    BY <1>1, <2>1, Zenon
  <2>3. QED
    BY <2>2 DEF WithinCapacity
<1>3. room \in Room
  BY DEF Room
<1>4. ValidRoom(room)
  BY <1>2 DEF ValidRoom, OwnersListed, OneSeatInNormalMode, SelectedSeatOwned,
              HostApproved
<1>5. Roles(room) /\ Selection(room) /\ Hostless(room) /\ Final(room)
  BY DEF Roles, Selection, SeatsOf, Hostless, Final
<1>6. AcceptedNeverThrows
  BY DEF AcceptedNeverThrows
<1>7. QED
  BY <1>3, <1>4, <1>5, <1>6 DEF Sound, Good

\* The variables an action leaves alone keep their types, and so does the
\* answer it gives.
LEMMA RestOfTypes ==
  ASSUME IInv, Next, Good(room)', AcceptedNeverThrows'
  PROVE  TypeOK'
<1> USE RosterAssumption DEF IInv, TypeOK
<1>1. room' \in Room /\ threw' \subseteq Intent
  BY DEF Good, Room, Seat, AcceptedNeverThrows, Intent
<1>2. busy' \in BOOLEAN /\ code' \in BOOLEAN
  BY DEF Next, Roster, Control, HostAndStart, Around, Refused, RequestJoin,
     Judge, TransferHost, ReassignSeat, ClaimHero, ReleaseSeat, SelectSeat,
     ChangeRun, RequestCorrection, CancelCorrection, ConfirmCorrection,
     Bootstrap, Bootstraps, BootstrapUnrelayed, RecoverHost, StartRun,
     StartInterrupted, WorkflowStarts, WorkflowSettles, Conclude, IssueCode,
     LoseCode, Decided
<1>3. materialized' \subseteq Seat
  BY DEF Next, Roster, Control, HostAndStart, Around, Refused, RequestJoin,
     Judge, TransferHost, ReassignSeat, ClaimHero, ReleaseSeat, SelectSeat,
     ChangeRun, RequestCorrection, CancelCorrection, ConfirmCorrection,
     Bootstrap, Bootstraps, BootstrapUnrelayed, RecoverHost, StartRun,
     StartInterrupted, WorkflowStarts, WorkflowSettles, Conclude, IssueCode,
     LoseCode, Decided, Claimed
<1>4. answer' \in [by : Participant \cup {Nobody}, intent : Intent \cup {"none"},
                   verdict : {"accepted", "rejected", "none"},
                   announced : {"corrected", "none"}]
  <2> DEFINE Answers ==
        [by : Participant \cup {Nobody}, intent : Intent \cup {"none"},
         verdict : {"accepted", "rejected", "none"},
         announced : {"corrected", "none"}]
  <2>1. NoAnswer \in Answers
    BY DEF NoAnswer
  <2>2. ASSUME NEW p \in Participant, NEW intent \in Intent, NEW path,
               NEW final, Commit(p, intent, path, final)
        PROVE  answer' \in Answers
    BY <2>1, <2>2 DEF Commit, Said
  <2>3. ASSUME NEW p \in Participant, Roster(p)
        PROVE  answer' \in Answers
    BY <2>2, <2>3 DEF Roster, RequestJoin, Judge, TransferHost, ReassignSeat,
       ClaimHero, ReleaseSeat, SelectSeat, Decided, Intent
  <2>4. ASSUME NEW p \in Participant, Control(p)
        PROVE  answer' \in Answers
    <3>1. CASE \E undone \in BOOLEAN : ConfirmCorrection(p, undone)
      BY <3>1 DEF ConfirmCorrection, Intent
    <3>2. QED
      BY <2>2, <2>4, <3>1 DEF Control, ChangeRun, RequestCorrection,
         CancelCorrection, Decided, Intent
  <2>5. ASSUME NEW p \in Participant, HostAndStart(p)
        PROVE  answer' \in Answers
    <3>1. CASE Bootstrap(p) \/ StartRun(p)
      BY <2>2, <3>1 DEF Bootstrap, StartRun, Intent
    <3>2. CASE \E s \in Seat : StartInterrupted(p, s)
      BY <2>1, <3>2 DEF StartInterrupted
    <3>3. CASE BootstrapUnrelayed(p)
                 \/ \E stale \in BOOLEAN : RecoverHost(p, stale)
      BY <3>3 DEF BootstrapUnrelayed, RecoverHost, Said, Intent
    <3>4. QED
      BY <2>5, <3>1, <3>2, <3>3 DEF HostAndStart
  <2>6. CASE Refused \/ Around
    BY <2>1, <2>6 DEF Refused, Around, WorkflowStarts, WorkflowSettles,
       Conclude, IssueCode, LoseCode
  <2>7. QED
    BY <2>3, <2>4, <2>5, <2>6 DEF Next
<1>5. QED
  BY <1>1, <1>2, <1>3, <1>4

\* A command about participants and seats.
LEMMA RosterSound ==
  ASSUME IInv, NEW p \in Participant, Roster(p)
  PROVE  Sound'
<1> USE RosterAssumption DEF Decided
<1> Good(room)
  BY DEF IInv
<1>1. CASE RequestJoin(p)
  <2>1. CASE WithinCapacity(Joined(room, p))
    BY <1>1, <2>1, JoinedGood, CommitSound DEF RequestJoin, Intent
  <2>2. CASE ~WithinCapacity(Joined(room, p))
    <3>1. room' = room /\ threw' = threw \cup {"request_join"}
      BY <1>1, <2>2 DEF RequestJoin, Commit, ValidRoom
    <3>2. Good(room)'
      BY <3>1, GoodPrime
    <3>3. AcceptedNeverThrows'
      BY <3>1 DEF IInv, AcceptedNeverThrows
    <3>4. QED
      BY <3>2, <3>3 DEF Sound
  <2>3. QED
    BY <2>1, <2>2
<1>2. ASSUME NEW q \in Participant, NEW intent \in Intent,
             NEW verdict \in {"approved", "rejected"},
             Judge(p, q, intent, verdict)
      PROVE  Sound'
  <2>1. Good(Judged(room, q, verdict))
    BY <1>2, JudgedGood DEF Judge
  <2>2. QED
    BY <1>2, <2>1, CommitSound DEF Judge
<1>3. ASSUME NEW q \in Participant, TransferHost(p, q)
      PROVE  Sound'
  <2>1. Good(HostAssigned(room, q))
    BY <1>3, HostAssignedGood DEF TransferHost, Transferable
  <2>2. QED
    BY <1>3, <2>1, CommitSound DEF TransferHost, Intent
<1>4. ASSUME NEW q \in Participant, NEW s \in Seat, ReassignSeat(p, q, s)
      PROVE  Sound'
  <2> DEFINE freed == SeatReleased(room, s)
  <2>1. Good(freed) /\ freed.owner[s] = Nobody
    BY SeatReleasedGood
  <2>2. freed.status = room.status
    BY DEF SeatReleased, Good, Room
  <2>3. Mode = "normal" => SeatsOf(freed, q) = {}
    <3>1. ASSUME NEW t \in Seat, t # s
          PROVE  freed.owner[t] = room.owner[t]
      BY <3>1 DEF SeatReleased, Good, Room
    <3>2. QED
      BY <1>4, <2>1, <3>1 DEF ReassignSeat, Reassignable, SeatsOf
  <2> HIDE DEF freed
  <2>4. Good(SeatAssigned(freed, s, q))
    BY <1>4, <2>1, <2>2, <2>3, SeatAssignedGood DEF ReassignSeat, Reassignable
  <2>5. ValidRoom(freed)
    BY <2>1 DEF Good
  <2>6. Commit(p, "reassign_seat", {freed}, SeatAssigned(freed, s, q))
    BY <1>4 DEF ReassignSeat, freed
  <2>7. QED
    BY <2>4, <2>5, <2>6, CommitSound DEF Intent
<1>5. ASSUME NEW s \in Seat, ClaimHero(p, s)
      PROVE  Sound'
  <2>1. Good(SeatAssigned(room, s, p))
    BY <1>5, SeatAssignedGood DEF ClaimHero, Claimable
  <2>2. QED
    BY <1>5, <2>1, CommitSound DEF ClaimHero, Intent
<1>6. ASSUME NEW s \in Seat, ReleaseSeat(p, s)
      PROVE  Sound'
  <2>1. Good(SeatReleased(room, s))
    BY SeatReleasedGood
  <2>2. QED
    BY <1>6, <2>1, CommitSound DEF ReleaseSeat, Intent
<1>7. ASSUME NEW s \in Seat, SelectSeat(p, s)
      PROVE  Sound'
  <2>1. Good(SeatSelected(room, p, s))
    BY <1>7, SeatSelectedGood DEF SelectSeat
  <2>2. QED
    BY <1>7, <2>1, CommitSound DEF SelectSeat, Intent
<1>8. QED
  BY <1>1, <1>2, <1>3, <1>4, <1>5, <1>6, <1>7 DEF Roster, Intent

\* A command about the run or the correction request.
LEMMA ControlSound ==
  ASSUME IInv, NEW p \in Participant, Control(p)
  PROVE  Sound'
<1> USE RosterAssumption DEF Decided
<1> Good(room)
  BY DEF IInv
<1>1. ASSUME NEW intent \in Intent, NEW status \in {"active", "suspended"},
             ChangeRun(p, intent, status)
      PROVE  Sound'
  <2>1. Good(RunChanged(room, status))
    BY <1>1, RunChangedGood DEF ChangeRun, Found
  <2>2. QED
    BY <1>1, <2>1, CommitSound DEF ChangeRun
<1>2. CASE RequestCorrection(p)
  <2>1. Good(CorrectionRequested(room, p))
    BY <1>2, CorrectionRequestedGood DEF RequestCorrection
  <2>2. QED
    BY <1>2, <2>1, CommitSound DEF RequestCorrection, Intent
<1>3. CASE CancelCorrection(p)
  BY <1>3, CorrectionResolvedGood, CommitSound DEF CancelCorrection, Intent
<1>4. ASSUME NEW undone \in BOOLEAN, ConfirmCorrection(p, undone)
      PROVE  Sound'
  <2>1. room' = CorrectionResolved(room) /\ threw' = threw
    BY <1>4 DEF ConfirmCorrection
  <2>2. Good(room)'
    BY <2>1, CorrectionResolvedGood, GoodPrime
  <2>3. AcceptedNeverThrows'
    BY <2>1 DEF IInv, AcceptedNeverThrows
  <2>4. QED
    BY <2>2, <2>3 DEF Sound
<1>5. QED
  BY <1>1, <1>2, <1>3, <1>4 DEF Control, Intent

\* The bootstrap, the recovery and the start of the run.
LEMMA HostAndStartSound ==
  ASSUME IInv, NEW p \in Participant, HostAndStart(p)
  PROVE  Sound'
<1> USE RosterAssumption
<1> Good(room)
  BY DEF IInv
<1>1. CASE Bootstrap(p)
  BY <1>1, BootstrapGood, CommitSound DEF Bootstrap, Bootstraps, Intent
<1>2. CASE BootstrapUnrelayed(p)
  <2>1. Good(room')
    BY <1>2, BootstrapGood DEF BootstrapUnrelayed, Bootstraps
  <2>2. AcceptedNeverThrows'
    BY <1>2 DEF BootstrapUnrelayed, IInv, AcceptedNeverThrows
  <2>3. QED
    BY <2>1, <2>2, GoodPrime DEF Sound
<1>3. ASSUME NEW stale \in BOOLEAN, RecoverHost(p, stale)
      PROVE  Sound'
  <2>1. Good(HostAssigned(room, p))
    BY <1>3, HostAssignedGood DEF RecoverHost
  <2>2. Good(room')
    BY <1>3, <2>1 DEF RecoverHost
  <2>3. AcceptedNeverThrows'
    BY <1>3 DEF RecoverHost, IInv, AcceptedNeverThrows
  <2>4. QED
    BY <2>2, <2>3, GoodPrime DEF Sound
<1>4. CASE StartRun(p)
  <2>1. Good(RunChanged(room, "active"))
    BY <1>4, RunChangedGood DEF StartRun, Startable
  <2>2. QED
    BY <1>4, <2>1, CommitSound DEF StartRun, Intent
<1>5. ASSUME NEW s \in Seat, StartInterrupted(p, s)
      PROVE  Sound'
  <2>1. room' = room /\ threw' = threw
    BY <1>5 DEF StartInterrupted
  <2>2. AcceptedNeverThrows'
    BY <2>1 DEF IInv, AcceptedNeverThrows
  <2>3. QED
    BY <2>1, <2>2, GoodPrime DEF Sound
<1>6. QED
  BY <1>1, <1>2, <1>3, <1>4, <1>5 DEF HostAndStart

\* Whatever moves the room without a client.
LEMMA AroundSound ==
  ASSUME IInv, Refused \/ Around
  PROVE  Sound'
<1> Good(room)
  BY DEF IInv
<1>1. CASE Conclude
  <2>1. Good(room')
    BY <1>1, ConcludedGood DEF Conclude
  <2>2. AcceptedNeverThrows'
    BY <1>1 DEF Conclude, IInv, AcceptedNeverThrows
  <2>3. QED
    BY <2>1, <2>2, GoodPrime DEF Sound
<1>2. CASE ~Conclude
  <2>1. room' = room /\ threw' = threw
    BY <1>2 DEF Refused, Around, WorkflowStarts, WorkflowSettles, IssueCode,
       LoseCode
  <2>2. AcceptedNeverThrows'
    BY <2>1 DEF IInv, AcceptedNeverThrows
  <2>3. QED
    BY <2>1, <2>2, GoodPrime DEF Sound
<1>3. QED
  BY <1>1, <1>2

-----------------------------------------------------------------------------
(* The theorems.                                                           *)

\* IInv holds initially and every step keeps it.
LEMMA InitInductive == Init => IInv
<1> SUFFICES ASSUME Init PROVE IInv
  OBVIOUS
<1>1. Sound
  BY InitSound
<1>2. TypeOK
  BY <1>1 DEF Sound, Good, TypeOK, Init, NoAnswer
<1>3. QED
  BY <1>1, <1>2 DEF Sound, IInv

LEMMA StepInductive == IInv /\ [Next]_vars => IInv'
<1> SUFFICES ASSUME IInv, [Next]_vars PROVE IInv'
  OBVIOUS
<1>1. CASE Next
  <2>1. Sound'
    BY <1>1, RosterSound, ControlSound, HostAndStartSound, AroundSound DEF Next
  <2>2. Good(room)' /\ AcceptedNeverThrows'
    BY <2>1 DEF Sound
  <2>3. TypeOK'
    BY <1>1, <2>2, RestOfTypes
  <2>4. QED
    BY <2>2, <2>3 DEF IInv
<1>2. CASE UNCHANGED vars
  <2>1. TypeOK' /\ AcceptedNeverThrows'
    BY <1>2 DEF vars, IInv, TypeOK, AcceptedNeverThrows
  <2>2. Good(room)'
    BY <1>2, GoodPrime DEF vars, IInv
  <2>3. QED
    BY <2>1, <2>2 DEF IInv
<1>3. QED
  BY <1>1, <1>2

LEMMA Inductive == Spec => []IInv
  BY InitInductive, StepInductive, PTL DEF Spec

\* The committed room, the answers and the memory of the host keep their types.
THEOREM RosterTypeCorrect == Spec => []TypeOK
<1>1. IInv => TypeOK
  BY DEF IInv
<1>2. QED
  BY <1>1, Inductive, PTL

\* decideRoomOnlyCommand accepts nothing that validateRoomState refuses,
\* except a join of a full room.
THEOREM DecisionsCoverValidation == Spec => []AcceptedNeverThrows
<1>1. IInv => AcceptedNeverThrows
  BY DEF IInv
<1>2. QED
  BY <1>1, Inductive, PTL

\* Until a player-host is established the room holds pending joins only.
THEOREM HostFirst == Spec => []HostlessRoomUntouched
<1>1. IInv => HostlessRoomUntouched
  BY DEF IInv, Good, Hostless, HostlessRoomUntouched, Claimed
<1>2. QED
  BY <1>1, Inductive, PTL

\* Seats are owned and corrections requested by approved participants.
THEOREM OnlyApprovedHaveRoles == Spec => []RolesApproved
<1>1. IInv => RolesApproved
  BY DEF IInv, Good, Roles, RolesApproved
<1>2. QED
  BY <1>1, Inductive, PTL

\* A participant selects one of its seats exactly when it owns one.
THEOREM SelectionSound == Spec => []SelectionFollowsOwnership
<1>1. IInv => SelectionFollowsOwnership
  BY DEF IInv, Good, Selection, SelectionFollowsOwnership
<1>2. QED
  BY <1>1, Inductive, PTL

\* A concluded room stays completed.
THEOREM ConclusionStays == Spec => []ConclusionIsFinal
<1>1. IInv => ConclusionIsFinal
  BY DEF IInv, Good, Final, ConclusionIsFinal
<1>2. QED
  BY <1>1, Inductive, PTL

-----------------------------------------------------------------------------
(* What a step may do.                                                     *)

\* Heroes join the mechanical party only before the run starts.
THEOREM PartyGrowsFirst == Spec => PartyGrowsInLobby
<1>1. ASSUME [Next]_vars
      PROVE  materialized' # materialized => room.run = "lobby"
  BY <1>1 DEF vars, Next, Roster, Control, HostAndStart, Around, Refused,
     RequestJoin, Judge, TransferHost, ReassignSeat, ClaimHero, ReleaseSeat,
     SelectSeat, ChangeRun, RequestCorrection, CancelCorrection,
     ConfirmCorrection, Bootstrap, Bootstraps, BootstrapUnrelayed, RecoverHost,
     StartRun, Startable, StartInterrupted, WorkflowStarts, WorkflowSettles,
     Conclude, IssueCode, LoseCode, Decided
<1>2. QED
  BY <1>1, PTL DEF Spec, PartyGrowsInLobby

\* What TakenByAuthority says of one step.
Authorised ==
  /\ \A s \in Seat :
       room.owner[s] # Nobody /\ room'.owner[s] # room.owner[s]
         => answer'.by \in {room.owner[s], room.host}
  /\ answer'.intent = "cancel_correction" /\ answer'.verdict = "accepted"
       => answer'.by \in {room.correction, room.host}

\* A step that keeps the owners and cancels nothing.
LEMMA OwnersKept ==
  ASSUME room'.owner = room.owner, answer'.intent # "cancel_correction"
  PROVE  Authorised
  BY DEF Authorised

\* A commit that answers p and takes seats from owners p may take them from.
LEMMA CommitAuthorised ==
  ASSUME NEW p, NEW intent, NEW path, NEW final,
         Commit(p, intent, path, final),
         \A s \in Seat : room.owner[s] # Nobody
                           /\ final.owner[s] # room.owner[s]
                             => p \in {room.owner[s], room.host},
         intent = "cancel_correction" => p \in {room.correction, room.host}
  PROVE  Authorised
  BY DEF Commit, Said, NoAnswer, Authorised

LEMMA RosterAuthorised ==
  ASSUME IInv, NEW p \in Participant, Roster(p)
  PROVE  Authorised
<1> USE RosterAssumption DEF Decided
<1> Good(room) /\ room \in Room
  BY DEF IInv, Good
<1>1. CASE RequestJoin(p)
  <2> DEFINE end == Joined(room, p)
  <2>1. end.owner = room.owner
    BY DEF Joined, Room
  <2>2. Commit(p, "request_join", {}, end)
    BY <1>1 DEF RequestJoin
  <2> HIDE DEF end
  <2>3. QED
    BY <2>1, <2>2, CommitAuthorised
<1>2. ASSUME NEW q \in Participant, NEW intent \in Intent, NEW verdict,
             Judge(p, q, intent, verdict), intent # "cancel_correction"
      PROVE  Authorised
  BY <1>2, CommitAuthorised DEF Judge, Judged, Room
<1>3. ASSUME NEW q \in Participant, TransferHost(p, q)
      PROVE  Authorised
  BY <1>3, CommitAuthorised DEF TransferHost, HostAssigned, Room
<1>4. ASSUME NEW q \in Participant, NEW s \in Seat, ReassignSeat(p, q, s)
      PROVE  Authorised
  <2> DEFINE freed == SeatReleased(room, s)
  <2> DEFINE end == SeatAssigned(freed, s, q)
  <2>1. Commit(p, "reassign_seat", {freed}, end) /\ p = room.host
    BY <1>4 DEF ReassignSeat
  <2> HIDE DEF end, freed
  <2>2. QED
    BY <2>1, CommitAuthorised
<1>5. ASSUME NEW s \in Seat, ClaimHero(p, s)
      PROVE  Authorised
  <2>1. \A t \in Seat : room.owner[t] # Nobody
          => SeatAssigned(room, s, p).owner[t] = room.owner[t]
    BY <1>5 DEF ClaimHero, Claimable, SeatAssigned, Room
  <2>2. QED
    BY <1>5, <2>1, CommitAuthorised DEF ClaimHero
<1>6. ASSUME NEW s \in Seat, ReleaseSeat(p, s)
      PROVE  Authorised
  <2>1. \A t \in Seat : t # s
          => SeatReleased(room, s).owner[t] = room.owner[t]
    BY DEF SeatReleased, Room
  <2>2. p \in {room.owner[s], room.host}
    BY <1>6 DEF ReleaseSeat, Releasable
  <2>3. QED
    BY <1>6, <2>1, <2>2, CommitAuthorised DEF ReleaseSeat
<1>7. ASSUME NEW s \in Seat, SelectSeat(p, s)
      PROVE  Authorised
  BY <1>7, CommitAuthorised DEF SelectSeat, SeatSelected, Room
<1>8. QED
  BY <1>1, <1>2, <1>3, <1>4, <1>5, <1>6, <1>7 DEF Roster, Intent

LEMMA ControlAuthorised ==
  ASSUME IInv, NEW p \in Participant, Control(p)
  PROVE  Authorised
<1> USE RosterAssumption DEF Decided
<1> room \in Room
  BY DEF IInv, Good
<1>1. ASSUME NEW intent, NEW status, ChangeRun(p, intent, status),
             intent # "cancel_correction"
      PROVE  Authorised
  BY <1>1, CommitAuthorised DEF ChangeRun, RunChanged, Room
<1>2. CASE RequestCorrection(p)
  BY <1>2, CommitAuthorised DEF RequestCorrection, CorrectionRequested, Room
<1>3. CASE CancelCorrection(p)
  BY <1>3, CommitAuthorised
  DEF CancelCorrection, Cancellable, CorrectionResolved, Room
<1>4. ASSUME NEW undone \in BOOLEAN, ConfirmCorrection(p, undone)
      PROVE  Authorised
  BY <1>4, OwnersKept DEF ConfirmCorrection, CorrectionResolved, Room
<1>5. QED
  BY <1>1, <1>2, <1>3, <1>4 DEF Control

LEMMA HostAndStartAuthorised ==
  ASSUME IInv, NEW p \in Participant, HostAndStart(p)
  PROVE  Authorised
<1> USE RosterAssumption
<1> room \in Room
  BY DEF IInv, Good
<1>1. CASE Bootstrap(p)
  <2> DEFINE mid == Judged(room, p, "approved")
  <2> DEFINE end == HostAssigned(mid, p)
  <2>1. end.owner = room.owner
    BY DEF Judged, HostAssigned, Room
  <2>2. Commit(p, "recover_player_host", {mid}, end)
    BY <1>1 DEF Bootstrap
  <2> HIDE DEF mid, end
  <2>3. QED
    BY <2>1, <2>2, CommitAuthorised
<1>2. CASE BootstrapUnrelayed(p)
  BY <1>2, OwnersKept DEF BootstrapUnrelayed, Judged, HostAssigned, Said, Room
<1>3. ASSUME NEW stale \in BOOLEAN, RecoverHost(p, stale)
      PROVE  Authorised
  BY <1>3, OwnersKept DEF RecoverHost, HostAssigned, Said, Room
<1>4. CASE StartRun(p)
  BY <1>4, CommitAuthorised DEF StartRun, RunChanged, Room
<1>5. ASSUME NEW s \in Seat, StartInterrupted(p, s)
      PROVE  Authorised
  BY <1>5, OwnersKept DEF StartInterrupted, NoAnswer
<1>6. QED
  BY <1>1, <1>2, <1>3, <1>4, <1>5 DEF HostAndStart

\* An owned seat leaves its owner, and a request is cancelled, only by a
\* command of that participant or of the player-host.
THEOREM AuthorityRespected == Spec => TakenByAuthority
<1>1. ASSUME IInv, [Next]_vars
      PROVE  [Authorised]_vars
  <2>1. CASE Refused \/ Around
    <3>1. answer' = NoAnswer /\ room' \in {room, Concluded(room)}
      BY <2>1 DEF Refused, Around, WorkflowStarts, WorkflowSettles, Conclude,
         IssueCode, LoseCode
    <3>2. Concluded(room).owner = room.owner
      BY <1>1 DEF Concluded, IInv, Good, Room
    <3>3. QED
      BY <3>1, <3>2, OwnersKept DEF NoAnswer
  <2>2. QED
    BY <1>1, <2>1, RosterAuthorised, ControlAuthorised, HostAndStartAuthorised
    DEF Next
<1>2. QED
  BY <1>1, Inductive, PTL DEF Spec, TakenByAuthority, Authorised
=============================================================================
