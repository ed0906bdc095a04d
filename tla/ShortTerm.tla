----------------------------- MODULE ShortTerm -----------------------------
(***************************************************************************)
(* The sequence operations of internal/memory/short.go and the history     *)
(* window of internal/prompt/builder.go.  A history is a sequence of       *)
(* messages, oldest first; nothing here looks inside a message.            *)
(***************************************************************************)
EXTENDS Integers, Sequences

CONSTANTS
  MaxSize,      \* capacity of a session's short-term memory (50 in NewSession)
  MaxHistory    \* messages of history a prompt may carry (20 in builder.New)

(* NewShortTerm and builder.New replace a size that is not positive by a   *)
(* default, so the sizes in force are always positive.                     *)
ASSUME MaxSizeAssumption == MaxSize \in Nat \ {0}
ASSUME MaxHistoryAssumption == MaxHistory \in Nat \ {0}

(* How many messages the trimming loop of Append drops from a history of n *)
(* messages: two at a time, until at most MaxSize are left.                *)
Dropped(n) == IF n > MaxSize THEN 2 * ((n - MaxSize + 1) \div 2) ELSE 0

Trim(history) == SubSeq(history, Dropped(Len(history)) + 1, Len(history))

(* ShortTermMemory.Append *)
AppendMessage(history, message) == Trim(Append(history, message))

(* The thresholds runTurn computes from MaxSize(): int(0.8 * maxSize) and  *)
(* int(0.4 * maxSize).                                                     *)
ThresholdAtCapacity == MaxSize
Threshold == (MaxSize * 8) \div 10
DrainCount == (MaxSize * 4) \div 10

(* DrainOldestIfAbove(Threshold, DrainCount): how many messages it takes   *)
(* from a history of n messages, rounded down to whole pairs.              *)
DrainLenUnrounded(n) == IF n > Threshold /\ DrainCount =< n THEN DrainCount ELSE 0
DrainLenInverted(n) == IF n > Threshold /\ n =< DrainCount THEN DrainCount ELSE 0
DrainLen(n) ==
  LET pairs == DrainCount - (DrainCount % 2)
  IN IF n > Threshold /\ pairs =< n THEN pairs ELSE 0

Drained(history) == SubSeq(history, 1, DrainLen(Len(history)))
RemainingOverlaps(history) ==
  SubSeq(history, IF DrainLen(Len(history)) = 0 THEN 1 ELSE DrainLen(Len(history)), Len(history))
Remaining(history) == SubSeq(history, DrainLen(Len(history)) + 1, Len(history))

(* The messages of the history that Build and BuildWithSummary put in the  *)
(* prompt: the last MaxHistory of them.                                    *)
WindowOneShort(history) ==
  SubSeq(history, IF Len(history) > MaxHistory THEN Len(history) - MaxHistory + 2 ELSE 1,
         Len(history))
Window(history) ==
  SubSeq(history, IF Len(history) > MaxHistory THEN Len(history) - MaxHistory + 1 ELSE 1,
         Len(history))
=============================================================================
