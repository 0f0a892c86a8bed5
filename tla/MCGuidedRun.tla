---------------------------- MODULE MCGuidedRun -----------------------------
(* Two heroes, both of whom the ritual needs, for TLC. *)
EXTENDS GuidedRun
=============================================================================
