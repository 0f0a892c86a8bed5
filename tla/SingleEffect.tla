---------------------------- MODULE SingleEffect ----------------------------
(***************************************************************************)
(* What the durable workflow promises, without streams, revisions, rows or *)
(* crashes: a mechanical command is refused, or opened, given at most one  *)
(* effect by the rules engine, and closed; a room has one open command at  *)
(* a time.  A command whose engine call could not commit is stuck.         *)
(***************************************************************************)
CONSTANT Mechanic      \* the commands that need the engine

VARIABLES
  phase,               \* where each command is
  effect               \* what the engine recorded for it

Phases == {"new", "refused", "open", "stuck", "closed"}
Effects == {"none", "accepted", "rejected"}
Occupied == \E c \in Mechanic : phase[c] \in {"open", "stuck"}

Init ==
  /\ phase = [c \in Mechanic |-> "new"]
  /\ effect = [c \in Mechanic |-> "none"]

Refuse(c) ==
  /\ phase[c] = "new"
  /\ phase' = [phase EXCEPT ![c] = "refused"]
  /\ UNCHANGED effect

Open(c) ==
  /\ phase[c] = "new"
  /\ ~Occupied
  /\ phase' = [phase EXCEPT ![c] = "open"]
  /\ UNCHANGED effect

\* The engine records one outcome for a command the room has opened.
Apply(c) ==
  /\ phase[c] \in {"open", "stuck"}
  /\ effect[c] = "none"
  /\ \E outcome \in Effects \ {"none"} :
       effect' = [effect EXCEPT ![c] = outcome]
  /\ UNCHANGED phase

Close(c) ==
  /\ phase[c] = "open"
  /\ effect[c] # "none"
  /\ phase' = [phase EXCEPT ![c] = "closed"]
  /\ UNCHANGED effect

Fail(c) ==
  /\ phase[c] = "open"
  /\ phase' = [phase EXCEPT ![c] = "stuck"]
  /\ UNCHANGED effect

Next ==
  \E c \in Mechanic : Refuse(c) \/ Open(c) \/ Apply(c) \/ Close(c) \/ Fail(c)

Spec == Init /\ [][Next]_<<phase, effect>>
=============================================================================
