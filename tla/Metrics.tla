------------------------------- MODULE Metrics -------------------------------
(***************************************************************************)
(* MetricsStore (obs/store.go): a ring of the metrics of the last turns.   *)
(* Both operations run under its lock, so each is one step.                *)
(***************************************************************************)
EXTENDS Integers, Sequences

CONSTANTS
  RingSize,   \* maxSize (200)
  Measures    \* the values of TurnMetrics, as far as a run tells them apart

ASSUME RingSizeAssumption == RingSize \in Nat \ {0}

VARIABLES
  ring,       \* the slots
  head,       \* the slot of the next Push
  count       \* how many slots are filled

store == <<ring, head, count>>

(* The zero value of TurnMetrics, in the slots never pushed to. *)
NoMeasure == [turn |-> "none"]

(* NewMetricsStore *)
StoreInit ==
  /\ ring = [slot \in 0..(RingSize - 1) |-> NoMeasure]
  /\ head = 0 /\ count = 0

PushKeepsCount(m) ==
  /\ ring' = [ring EXCEPT ![head] = m]
  /\ head' = (head + 1) % RingSize
  /\ count' = IF count =< RingSize THEN count + 1 ELSE count
Push(m) ==
  /\ ring' = [ring EXCEPT ![head] = m]
  /\ head' = (head + 1) % RingSize
  /\ count' = IF count < RingSize THEN count + 1 ELSE count

(* The slot of the i-th newest entry, from 0. *)
SlotWithoutWrap(i) == IF head - 1 - i < 0 THEN 0 ELSE head - 1 - i
Slot(i) == ((head - 1 - i) + RingSize) % RingSize

(* Recent(n): the n newest entries, or all of them. *)
Recent(n) ==
  [i \in 1..(IF n =< 0 \/ n > count THEN count ELSE n) |-> ring[Slot(i - 1)]]

StoreNext == \E m \in Measures : Push(m)

StoreSpec == StoreInit /\ [][StoreNext]_store

-----------------------------------------------------------------------------
List == INSTANCE RecentTurns WITH
  Capacity <- RingSize, Entry <- Measures, recent <- Recent(0)

(* The ring is the list of the last turns: whatever its fill level and     *)
(* wherever its head, the backward walk of Recent yields the newest        *)
(* RingSize entries, none twice and none skipped.                          *)
IsTheLastTurns == List!Spec

StoreTypeOK ==
  /\ ring \in [0..(RingSize - 1) -> Measures \union {NoMeasure}]
  /\ head \in 0..(RingSize - 1)
  /\ count \in 0..RingSize
=============================================================================
