-------------------------- MODULE MCSessionMemory --------------------------
(* Instances of SessionMemory for TLC. *)
EXTENDS SessionMemory, SequencesExt

Numbered(n) == [i \in 1..n |-> i]

(* The closed form of the trimming loop against the loop of short.go: as   *)
(* long as there are too many messages, drop the two oldest.               *)
TrimLoop[first \in 0..(2 * MaxSize), last \in 0..(2 * MaxSize)] ==
  IF last - first > MaxSize THEN TrimLoop[first + 2, last] ELSE first

ASSUME TrimIsTheLoop ==
  \A n \in 0..(MaxSize + 4) : Dropped(n) = TrimLoop[0, n]

(* sessionFromSnapshot appends the saved messages one at a time; that      *)
(* leaves what trimming the whole sequence leaves.                         *)
ASSUME ReloadIsRepeatedAppend ==
  \A n \in 0..(MaxSize + 4) :
    FoldLeft(AppendMessage, <<>>, Numbered(n)) = Trim(Numbered(n))
=============================================================================
