----------------------------- MODULE RecentTurns -----------------------------
(***************************************************************************)
(* What a MetricsStore promises: the metrics of the last Capacity turns,   *)
(* newest first.                                                           *)
(***************************************************************************)
EXTENDS Integers, Sequences

CONSTANTS
  Capacity,   \* how many it keeps
  Entry       \* metrics of a turn

VARIABLE recent

Init == recent = <<>>

Record(m) ==
  recent' = SubSeq(<<m>> \o recent, 1,
                   IF Len(recent) < Capacity THEN Len(recent) + 1 ELSE Capacity)

Next == \E m \in Entry : Record(m)

Spec == Init /\ [][Next]_recent
=============================================================================
