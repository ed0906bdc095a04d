-------------------------- MODULE MCSessionStore ---------------------------
(* Instances of SessionStore for TLC. *)
EXTENDS SessionStore, TLC

CONSTANTS
  Talkative,   \* an id that has a conversation
  Length       \* its length; the other ids have none

ASSUME TalkativeAssumption == Talkative \in Ids /\ Length \in Nat

Conversations == [s \in Ids |-> IF s = Talkative THEN Length ELSE 0]

(* Request slots differ only by name. *)
Symmetry == Permutations(Requests)
=============================================================================
