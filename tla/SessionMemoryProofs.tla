------------------------ MODULE SessionMemoryProofs ------------------------
(***************************************************************************)
(* Theorems about SessionMemory, for every capacity of at least 6 and      *)
(* conversations of any length.                                            *)
(*                                                                         *)
(* NoSilentLoss is not inductive: Append drops messages when the history   *)
(* is full.  The invariant adds how much room each phase of a turn leaves  *)
(* (Room), that messages come in pairs (Pairs), and that the saved row has *)
(* the same properties (SavedIsWhole), since a reload continues from it.   *)
(***************************************************************************)
EXTENDS SessionMemory, ShortTermProofs

Room ==
  /\ Len(history) =< Threshold + 2
  /\ phase = "half" => Len(history) =< Threshold + 1
  /\ phase \notin {"half", "stored"} => Len(history) =< Threshold

Pairs ==
  /\ drained % 2 = 0
  /\ count % 2 = IF phase = "half" THEN 1 ELSE 0

BatchIsUsed == phase # "compressing" => batch = <<>>

Inv ==
  /\ TypeOK
  /\ NoSilentLoss
  /\ SummaryPrecedesHistory
  /\ Room
  /\ Pairs
  /\ SavedIsWhole
  /\ BatchIsUsed

LEMMA Parity ==
  ASSUME NEW m \in Nat, NEW n \in Nat
  PROVE  /\ m % 2 = 0 \/ m % 2 = 1
         /\ m % 2 = 0 => (m + n) % 2 = n % 2
         /\ m % 2 = 0 => (m + 1) % 2 = 1
         /\ m % 2 = 1 => (m + 1) % 2 = 0
OBVIOUS

USE MaxSizeAssumption

LEMMA InitInv ==
  ASSUME MaxSize >= 6, Init
  PROVE  Inv
BY Capacity DEF Init, Inv, TypeOK, Phases, NoSilentLoss, Consecutive,
   SummaryPrecedesHistory, Room, Pairs, SavedIsWhole, BatchIsUsed

(* One message more: AppendUser and AppendAssistant. *)
LEMMA AppendInv ==
  ASSUME MaxSize >= 6, Inv, AppendUser \/ AppendAssistant
  PROVE  Inv'
<1>1. Threshold \in Nat /\ Threshold + 2 =< MaxSize
  BY Capacity
<1>2. TypeOK /\ NoSilentLoss /\ Room /\ Pairs /\ SummaryPrecedesHistory /\ SavedIsWhole /\ BatchIsUsed
  BY DEF Inv
<1>3. Len(history) < MaxSize /\ Len(history) \in Nat
  BY <1>1, <1>2 DEF Room, AppendUser, AppendAssistant, TypeOK
<1>4. count + 1 \in Nat
  BY <1>2 DEF TypeOK
<1>5. /\ history' \in Seq(Nat)
      /\ Len(history') = Len(history) + 1
      /\ \A i \in 1..Len(history) : history'[i] = history[i]
      /\ history'[Len(history) + 1] = count + 1
  <2>1. history' = AppendMessage(history, count + 1) /\ history \in Seq(Nat)
    BY <1>2 DEF AppendUser, AppendAssistant, TypeOK
  <2> DEFINE longer == AppendMessage(history, count + 1)
  <2>2. /\ longer \in Seq(Nat)
        /\ Len(longer) = Len(history) + 1
        /\ \A i \in 1..Len(history) : longer[i] = history[i]
        /\ longer[Len(history) + 1] = count + 1
    BY <1>3, <1>4, <2>1, AppendKeeps, Zenon
  <2> QED
    BY <2>1, <2>2
<1>6. TypeOK'
  BY <1>2, <1>4, <1>5 DEF TypeOK, AppendUser, AppendAssistant, Phases
<1>7. NoSilentLoss'
  <2>1. count' = count + 1 /\ drained' = drained /\ count \in Nat /\ drained \in Nat
    BY <1>2 DEF AppendUser, AppendAssistant, TypeOK
  <2>2. drained + Len(history) = count
        /\ \A i \in 1..Len(history) : history[i] = drained + i
    BY <1>2 DEF NoSilentLoss, Consecutive
  <2>3. ASSUME NEW i \in 1..(Len(history) + 1)
        PROVE  history'[i] = drained + i
    <3>1. CASE i \in 1..Len(history)
      BY <1>5, <2>2, <3>1
    <3>2. CASE i = Len(history) + 1
      BY <1>3, <1>5, <2>1, <2>2, <3>2
    <3> QED
      BY <1>3, <3>1, <3>2
  <2> QED
    BY <1>3, <1>5, <2>1, <2>2, <2>3 DEF NoSilentLoss, Consecutive
<1>8. Room'
  BY <1>1, <1>2, <1>5 DEF Room, AppendUser, AppendAssistant
<1>9. Pairs'
  BY <1>2, Parity DEF Pairs, AppendUser, AppendAssistant, TypeOK
<1>10. SummaryPrecedesHistory' /\ SavedIsWhole' /\ BatchIsUsed'
  BY <1>2 DEF SummaryPrecedesHistory, SavedIsWhole, BatchIsUsed, Consecutive,
              AppendUser, AppendAssistant
<1> QED
  BY <1>6, <1>7, <1>8, <1>9, <1>10 DEF Inv

LEMMA DrainInv ==
  ASSUME MaxSize >= 6, Inv, DrainOldestIfAbove
  PROVE  Inv'
<1> DEFINE n == DrainLen(Len(history))
<1>1. TypeOK /\ NoSilentLoss /\ Room /\ Pairs /\ SummaryPrecedesHistory /\ SavedIsWhole /\ BatchIsUsed
  BY DEF Inv
<1>2. Threshold \in Nat /\ Len(history) \in Nat /\ Len(history) =< Threshold + 2
  BY <1>1, Capacity DEF Room, DrainOldestIfAbove, TypeOK
<1>3. /\ n \in Nat /\ n =< Len(history) /\ n % 2 = 0
      /\ Len(history) - n =< Threshold
  BY <1>2, DrainLenFacts
<1>4. /\ Drained(history) \in Seq(Nat) /\ Remaining(history) \in Seq(Nat)
      /\ Len(Drained(history)) = n
      /\ Len(Remaining(history)) = Len(history) - n
      /\ \A i \in 1..n : Drained(history)[i] = history[i]
      /\ \A i \in 1..(Len(history) - n) : Remaining(history)[i] = history[n + i]
  BY <1>1, <1>2, DrainSplits DEF TypeOK
<1> HIDE DEF n
<1>5. batch' = Drained(history) /\ history' = Remaining(history) /\ drained' = drained + n
  BY <1>4 DEF DrainOldestIfAbove
<1>12. /\ drained \in Nat /\ drained + Len(history) = count
       /\ \A i \in 1..Len(history) : history[i] = drained + i
  BY <1>1 DEF NoSilentLoss, Consecutive, TypeOK
<1>6. TypeOK'
  BY <1>1, <1>3, <1>4, <1>5 DEF TypeOK, DrainOldestIfAbove, Phases
<1>7. NoSilentLoss'
  <2>1. ASSUME NEW i \in 1..(Len(history) - n)
        PROVE  history'[i] = drained' + i
    <3>1. n + i \in 1..Len(history)
      BY <1>2, <1>3
    <3> QED
      BY <1>2, <1>3, <1>4, <1>5, <1>12, <3>1
  <2>2. drained' + Len(history') = count' /\ Len(history') = Len(history) - n
    BY <1>2, <1>3, <1>4, <1>5, <1>12 DEF DrainOldestIfAbove
  <2> QED
    BY <2>1, <2>2 DEF NoSilentLoss, Consecutive
<1>8. SummaryPrecedesHistory'
  <2>1. Len(batch') = n /\ drained' - Len(batch') = drained
    BY <1>3, <1>4, <1>5, <1>12
  <2>2. Consecutive(batch', drained)
    <3>1. ASSUME NEW i \in 1..n
          PROVE  batch'[i] = drained + i
      BY <1>2, <1>3, <1>4, <1>5, <1>12
    <3> QED
      BY <2>1, <3>1 DEF Consecutive
  <2>3. summary' \subseteq 1..drained
    BY <1>1 DEF SummaryPrecedesHistory, TypeOK, DrainOldestIfAbove
  <2> QED
    BY <1>1, <1>3, <1>5, <2>1, <2>2, <2>3 DEF SummaryPrecedesHistory, Consecutive, TypeOK
<1>9. Room'
  BY <1>2, <1>3, <1>4, <1>5 DEF Room, DrainOldestIfAbove
<1>10. Pairs'
  <2>1. drained % 2 = 0 /\ count % 2 = 0 /\ phase' # "half" /\ count' = count
    BY <1>1 DEF Pairs, DrainOldestIfAbove
  <2>2. (drained + n) % 2 = 0
    BY <1>3, <1>12, <2>1, Parity
  <2> QED
    BY <1>5, <2>1, <2>2 DEF Pairs
<1>11. SavedIsWhole' /\ BatchIsUsed'
  BY <1>1, <1>5 DEF SavedIsWhole, BatchIsUsed, Consecutive, DrainOldestIfAbove
<1> QED
  BY <1>6, <1>7, <1>8, <1>9, <1>10, <1>11 DEF Inv

LEMMA CompressInv ==
  ASSUME MaxSize >= 6, Inv, CompressOk \/ CompressBlank \/ CompressFails
  PROVE  Inv'
<1>1. TypeOK /\ NoSilentLoss /\ Room /\ Pairs /\ SummaryPrecedesHistory /\ SavedIsWhole /\ BatchIsUsed
  BY DEF Inv
<1>2. EndCompress /\ summary' \subseteq summary \union Range(batch)
  BY DEF CompressOk, CompressBlank, CompressFails
<1>3. Len(batch) \in Nat /\ \A i \in 1..Len(batch) : batch[i] \in 1..drained
  BY <1>1 DEF TypeOK, SummaryPrecedesHistory, Consecutive
<1>4. Range(batch) \subseteq 1..drained
  BY <1>1, <1>3 DEF Range, TypeOK
<1>5. summary' \subseteq 1..drained
  BY <1>1, <1>2, <1>3, <1>4 DEF TypeOK, SummaryPrecedesHistory
<1>6. TypeOK'
  BY <1>1, <1>2, <1>5 DEF TypeOK, EndCompress, Phases
<1>7. NoSilentLoss'
  BY <1>1, <1>2 DEF NoSilentLoss, Consecutive, EndCompress
<1>8. SummaryPrecedesHistory'
  BY <1>1, <1>2, <1>5 DEF SummaryPrecedesHistory, Consecutive, EndCompress, TypeOK
<1>9. Room' /\ Pairs' /\ SavedIsWhole' /\ BatchIsUsed'
  BY <1>1, <1>2 DEF Room, Pairs, SavedIsWhole, BatchIsUsed, Consecutive, EndCompress
<1> QED
  BY <1>6, <1>7, <1>8, <1>9 DEF Inv

LEMMA PersistInv ==
  ASSUME MaxSize >= 6, Inv, Persist
  PROVE  Inv'
<1>1. TypeOK /\ NoSilentLoss /\ Room /\ Pairs /\ SummaryPrecedesHistory /\ SavedIsWhole /\ BatchIsUsed
  BY DEF Inv
<1>2. Snap \in Snapshot
  BY <1>1 DEF Snap, Snapshot, TypeOK
<1>3. TypeOK'
  BY <1>1, <1>2 DEF TypeOK, Persist, Phases
<1>4. NoSilentLoss' /\ SummaryPrecedesHistory' /\ Room' /\ Pairs' /\ BatchIsUsed'
  BY <1>1 DEF NoSilentLoss, SummaryPrecedesHistory, Consecutive, Room, Pairs,
              BatchIsUsed, Persist
<1>5. summary \subseteq 1..drained
  BY <1>1 DEF SummaryPrecedesHistory, TypeOK
<1>6. SavedIsWhole'
  BY <1>1, <1>5 DEF SavedIsWhole, NoSilentLoss, Consecutive, Room, Pairs, Persist, Snap
<1> QED
  BY <1>3, <1>4, <1>6 DEF Inv

LEMMA ReloadInv ==
  ASSUME MaxSize >= 6, Inv, Reload
  PROVE  Inv'
<1>1. TypeOK /\ SavedIsWhole /\ BatchIsUsed
  BY DEF Inv
<1>2. PICK row \in saved :
        /\ history' = Trim(row.history) /\ summary' = row.summary
        /\ count' = row.count /\ drained' = row.drained
  BY DEF Reload
<1>3. /\ row.history \in Seq(Nat) /\ row.summary \in SUBSET Nat
      /\ row.count \in Nat /\ row.drained \in Nat
  BY <1>1 DEF TypeOK, Snapshot
<1>4. /\ Consecutive(row.history, row.drained)
      /\ row.drained + Len(row.history) = row.count
      /\ row.count % 2 = 0 /\ row.drained % 2 = 0
      /\ row.summary \subseteq 1..row.drained
      /\ Len(row.history) =< Threshold
  BY <1>1 DEF SavedIsWhole
<1>5. history' = row.history
  <2>1. Len(row.history) =< MaxSize
    BY <1>3, <1>4, Capacity
  <2> QED
    BY <1>2, <1>3, <2>1, TrimKeeps
<1>6. phase' = "idle" /\ batch' = <<>> /\ saved' = saved
  BY <1>1 DEF Reload, BatchIsUsed
<1>7. TypeOK'
  BY <1>1, <1>2, <1>3, <1>5, <1>6 DEF TypeOK, Phases
<1>8. NoSilentLoss'
  BY <1>2, <1>4, <1>5 DEF NoSilentLoss, Consecutive
<1>9. SummaryPrecedesHistory'
  BY <1>2, <1>3, <1>4, <1>6 DEF SummaryPrecedesHistory, Consecutive
<1>10. Room' /\ Pairs' /\ BatchIsUsed'
  BY <1>2, <1>3, <1>4, <1>5, <1>6, Capacity DEF Room, Pairs, BatchIsUsed
<1>11. SavedIsWhole'
  BY <1>1, <1>6 DEF SavedIsWhole, Consecutive
<1> QED
  BY <1>7, <1>8, <1>9, <1>10, <1>11 DEF Inv

(* The actions that leave the memory alone, or empty it. *)
LEMMA OtherInv ==
  ASSUME MaxSize >= 6, Inv,
         \/ BeginTurn \/ TurnFails \/ PersistSkipped \/ Forget \/ Crash
         \/ UNCHANGED vars
  PROVE  Inv'
<1>1. TypeOK /\ NoSilentLoss /\ Room /\ Pairs /\ SummaryPrecedesHistory
      /\ SavedIsWhole /\ BatchIsUsed
  BY DEF Inv
<1>2. CASE BeginTurn \/ TurnFails \/ PersistSkipped \/ UNCHANGED vars
  BY <1>1, <1>2 DEF Inv, TypeOK, Phases, NoSilentLoss, SummaryPrecedesHistory, Room, Pairs,
     SavedIsWhole, BatchIsUsed, Consecutive, BeginTurn, TurnFails, PersistSkipped, vars
<1>3. CASE Forget
  BY <1>1, <1>3 DEF Inv, TypeOK, Phases, NoSilentLoss, SummaryPrecedesHistory, Room, Pairs,
     SavedIsWhole, BatchIsUsed, Consecutive, Forget
<1>4. CASE Crash
  BY <1>1, <1>4, Capacity DEF Inv, TypeOK, Phases, NoSilentLoss, SummaryPrecedesHistory,
     Room, Pairs, SavedIsWhole, BatchIsUsed, Consecutive, Crash
<1> QED
  BY <1>2, <1>3, <1>4

(* The invariant holds in every behaviour. *)
THEOREM MemoryInvariant == MaxSize >= 6 => (Spec => []Inv)
<1> SUFFICES ASSUME MaxSize >= 6
             PROVE  Spec => []Inv
  OBVIOUS
<1>1. Init => Inv
  BY InitInv
<1>2. Inv /\ [Next]_vars => Inv'
  BY AppendInv, DrainInv, CompressInv, PersistInv, ReloadInv, OtherInv DEF Next
<1> QED
  BY <1>1, <1>2, PTL DEF Spec

(* Types, and at most one row on disk. *)
THEOREM MemoryTypeOK == MaxSize >= 6 => (Spec => []TypeOK)
<1>1. Inv => TypeOK
  BY DEF Inv
<1> QED
  BY <1>1, MemoryInvariant, PTL

(* A message leaves the history only through DrainOldestIfAbove: the       *)
(* trimming in Append, which would drop it without a trace, never runs.    *)
THEOREM MemoryNoSilentLoss == MaxSize >= 6 => (Spec => []NoSilentLoss)
<1>1. Inv => NoSilentLoss
  BY DEF Inv
<1> QED
  BY <1>1, MemoryInvariant, PTL

(* Summary, batch and history follow one another without overlap. *)
THEOREM MemorySummaryPrecedesHistory == MaxSize >= 6 => (Spec => []SummaryPrecedesHistory)
<1>1. Inv => SummaryPrecedesHistory
  BY DEF Inv
<1> QED
  BY <1>1, MemoryInvariant, PTL

(* The history is at most 80% full when a turn begins. *)
THEOREM MemoryDrainKeepsUp == MaxSize >= 6 => (Spec => []DrainKeepsUp)
<1>1. Inv => DrainKeepsUp
  BY DEF Inv, Room, DrainKeepsUp
<1> QED
  BY <1>1, MemoryInvariant, PTL

(* The row on disk is a session between two turns, whenever the process    *)
(* dies, and a reload gets all of it back.                                 *)
THEOREM MemorySavedIsWhole == MaxSize >= 6 => (Spec => []SavedIsWhole)
<1>1. Inv => SavedIsWhole
  BY DEF Inv
<1> QED
  BY <1>1, MemoryInvariant, PTL

(* With an even window (builder.New's 20), the prompt alternates between   *)
(* user and assistant, and starts and ends with the user.                  *)
THEOREM MemoryPromptAlternates == MaxSize >= 6 /\ MaxHistory % 2 = 0 => (Spec => []PromptAlternates)
<1> SUFFICES ASSUME MaxSize >= 6, MaxHistory % 2 = 0
             PROVE  Spec => []PromptAlternates
  OBVIOUS
<1>1. ASSUME Inv, phase = "generating"
      PROVE  LET prompt == Append(Window(history), count + 1)
             IN \A i \in 1..Len(prompt) : prompt[i] % 2 = i % 2
  <2> DEFINE start == IF Len(history) > MaxHistory THEN Len(history) - MaxHistory ELSE 0
             window == SubSeq(history, start + 1, Len(history))
  <2>1. /\ history \in Seq(Nat) /\ count \in Nat /\ drained \in Nat
        /\ \A i \in 1..Len(history) : history[i] = drained + i
        /\ drained + Len(history) = count
        /\ drained % 2 = 0 /\ count % 2 = 0
    BY <1>1 DEF Inv, TypeOK, NoSilentLoss, Consecutive, Pairs
  <2>2. Len(history) \in Nat /\ Len(history) % 2 = 0
    BY <2>1, Parity
  <2>3. start \in Nat /\ start =< Len(history) /\ start % 2 = 0
    <3>1. MaxHistory \in Nat /\ MaxHistory % 2 = 0
      BY MaxHistoryAssumption
    <3>2. CASE Len(history) > MaxHistory
      <4> DEFINE rest == Len(history) - MaxHistory
      <4>1. rest \in Nat /\ start = rest /\ MaxHistory + rest = Len(history)
        BY <2>2, <3>1, <3>2
      <4> HIDE DEF rest
      <4>2. (MaxHistory + rest) % 2 = rest % 2
        BY <3>1, <4>1, Parity
      <4> QED
        <5>1. start % 2 = 0
          BY <2>2, <3>1, <4>1, <4>2
        <5>2. start \in Nat /\ start =< Len(history)
          BY <2>2, <3>1, <4>1
        <5> QED
          BY <5>1, <5>2
    <3>3. CASE ~(Len(history) > MaxHistory)
      BY <2>2, <3>3
    <3> QED
      BY <3>2, <3>3
  <2>4. Window(history) = window
    BY <2>2, MaxHistoryAssumption DEF Window
  <2> HIDE DEF start
  <2>5. \A i \in (start + 1)..Len(history) : history[i] \in Nat
    BY <2>1, <2>2, <2>3
  <2>6. /\ window \in Seq(Nat)
        /\ Len(window) = Len(history) - start
        /\ \A i \in 1..(Len(history) - start) : window[i] = history[start + i]
    BY <2>2, <2>3, <2>5, SubSeqProperties
  <2> HIDE DEF window
  <2>7. \A i \in 1..Len(window) : window[i] = drained + start + i
    BY <2>1, <2>2, <2>3, <2>6
  <2>8. drained + start \in Nat /\ (drained + start) % 2 = 0
    BY <2>1, <2>3, Parity
  <2>9. ASSUME NEW i \in 1..Len(window)
        PROVE  window[i] % 2 = i % 2
    <3>1. i \in Nat /\ window[i] = (drained + start) + i
      BY <2>1, <2>3, <2>6, <2>7
    <3> HIDE DEF start
    <3> QED
      BY <2>8, <3>1, Parity
  <2>10. Len(window) \in Nat /\ Len(window) % 2 = 0
    <3>1. Len(window) \in Nat /\ start + Len(window) = Len(history)
      BY <2>2, <2>3, <2>6
    <3> QED
      BY <2>2, <2>3, <3>1, Parity
  <2>11. (count + 1) % 2 = (Len(window) + 1) % 2
    BY <2>1, <2>10, Parity
  <2>12. ASSUME NEW i \in 1..(Len(window) + 1)
         PROVE  Append(window, count + 1)[i] % 2 = i % 2
    <3>1. CASE i \in 1..Len(window)
      BY <2>6, <2>9, <3>1
    <3>2. CASE i = Len(window) + 1
      BY <2>6, <2>11, <3>2
    <3> QED
      BY <2>10, <3>1, <3>2
  <2>13. Len(Append(window, count + 1)) = Len(window) + 1
    BY <2>1, <2>6
  <2>14. \A i \in 1..Len(Append(window, count + 1)) :
           Append(window, count + 1)[i] % 2 = i % 2
    BY <2>12, <2>13
  <2> QED
    BY <2>4, <2>14, Zenon
<1>2. Inv => PromptAlternates
  BY <1>1 DEF PromptAlternates
<1> QED
  BY <1>2, MemoryInvariant, PTL
=============================================================================
