---------------------------- MODULE MCModelCall -----------------------------
(* Instances of ModelCall for TLC. *)
EXTENDS ModelCall
=============================================================================
