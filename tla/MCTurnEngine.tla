---------------------------- MODULE MCTurnEngine ----------------------------
(* Instances of TurnEngine for TLC. *)
EXTENDS TurnEngine
=============================================================================
