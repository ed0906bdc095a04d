-------------------------- MODULE ShortTermProofs --------------------------
(* Lemmas about the operators of ShortTerm, for every capacity. *)
EXTENDS ShortTerm, SequenceTheorems, TLAPS

(***************************************************************************)
(* The capacities for which a history that is drained after every turn     *)
(* never overflows: two messages fit above the threshold, and a drain      *)
(* takes at least two.  NewSession's 50 is one of them, 5 is not.          *)
(***************************************************************************)
LEMMA Capacity ==
  ASSUME MaxSize >= 6
  PROVE  /\ Threshold \in Nat /\ DrainCount \in Nat
         /\ Threshold + 2 =< MaxSize
         /\ DrainCount >= 2
         /\ DrainCount =< Threshold
BY MaxSizeAssumption DEF Threshold, DrainCount

(* A drain takes whole pairs, never more than there is, and brings a       *)
(* history that has grown by one turn back to the threshold.               *)
LEMMA DrainLenFacts ==
  ASSUME MaxSize >= 6, NEW n \in Nat, n =< Threshold + 2
  PROVE  /\ DrainLen(n) \in Nat
         /\ DrainLen(n) =< n
         /\ DrainLen(n) % 2 = 0
         /\ n - DrainLen(n) =< Threshold
<1>1. /\ Threshold \in Nat /\ DrainCount \in Nat
      /\ DrainCount >= 2 /\ DrainCount =< Threshold
  BY Capacity
<1> QED
  BY <1>1 DEF DrainLen

(* A history within capacity is not trimmed: Append keeps it whole, and a  *)
(* reload restores it as it was saved.                                     *)
LEMMA TrimKeeps ==
  ASSUME NEW S, NEW h \in Seq(S), Len(h) =< MaxSize
  PROVE  Trim(h) = h
<1>1. Dropped(Len(h)) = 0
  BY MaxSizeAssumption DEF Dropped
<1> QED
  BY <1>1, SubSeqFull DEF Trim

LEMMA AppendKeeps ==
  ASSUME NEW S, NEW h \in Seq(S), NEW m \in S, Len(h) < MaxSize
  PROVE  /\ AppendMessage(h, m) \in Seq(S)
         /\ Len(AppendMessage(h, m)) = Len(h) + 1
         /\ \A i \in 1..Len(h) : AppendMessage(h, m)[i] = h[i]
         /\ AppendMessage(h, m)[Len(h) + 1] = m
<1>1. Append(h, m) \in Seq(S) /\ Len(Append(h, m)) = Len(h) + 1
  OBVIOUS
<1>2. Len(Append(h, m)) =< MaxSize
  BY <1>1, MaxSizeAssumption
<1>3. AppendMessage(h, m) = Append(h, m)
  BY <1>1, <1>2, TrimKeeps DEF AppendMessage
<1> QED
  BY <1>1, <1>3

(* DrainOldestIfAbove splits the history: what it returns and what it      *)
(* leaves are its beginning and its end.                                   *)
LEMMA DrainSplits ==
  ASSUME MaxSize >= 6, NEW S, NEW h \in Seq(S), Len(h) =< Threshold + 2
  PROVE  LET n == DrainLen(Len(h))
         IN /\ Drained(h) \in Seq(S) /\ Remaining(h) \in Seq(S)
            /\ Len(Drained(h)) = n
            /\ Len(Remaining(h)) = Len(h) - n
            /\ \A i \in 1..n : Drained(h)[i] = h[i]
            /\ \A i \in 1..(Len(h) - n) : Remaining(h)[i] = h[n + i]
<1> DEFINE n == DrainLen(Len(h))
<1>1. Len(h) \in Nat /\ n \in Nat /\ n =< Len(h)
  BY DrainLenFacts
<1>2. \A i \in 1..n : h[i] \in S
  BY <1>1, ElementOfSeq
<1>3. \A i \in (n + 1)..Len(h) : h[i] \in S
  BY <1>1, ElementOfSeq
<1> HIDE DEF n
<1>4. /\ SubSeq(h, 1, n) \in Seq(S)
      /\ Len(SubSeq(h, 1, n)) = n
      /\ \A i \in 1..n : SubSeq(h, 1, n)[i] = h[i]
  BY <1>1, <1>2, SubSeqProperties
<1>5. /\ SubSeq(h, n + 1, Len(h)) \in Seq(S)
      /\ Len(SubSeq(h, n + 1, Len(h))) = Len(h) - n
      /\ \A i \in 1..(Len(h) - n) : SubSeq(h, n + 1, Len(h))[i] = h[n + i]
  BY <1>1, <1>3, SubSeqProperties
<1> QED
  BY <1>4, <1>5 DEF Drained, Remaining, n

(* For any capacity, also those that do lose messages, what the operations *)
(* return is again a history.                                              *)
LEMMA HistoryTypes ==
  ASSUME NEW S, NEW h \in Seq(S), NEW m \in S
  PROVE  /\ Trim(h) \in Seq(S) /\ AppendMessage(h, m) \in Seq(S)
         /\ Drained(h) \in Seq(S) /\ Remaining(h) \in Seq(S)
<1>1. \A n \in Nat : Dropped(n) \in Nat /\ Dropped(n) =< n
  BY MaxSizeAssumption DEF Dropped
<1>2. \A n \in Nat : DrainLen(n) \in Nat /\ DrainLen(n) =< n
  BY MaxSizeAssumption DEF DrainLen, DrainCount, Threshold
<1>3. ASSUME NEW s \in Seq(S), NEW n \in Nat, n =< Len(s)
      PROVE  SubSeq(s, n + 1, Len(s)) \in Seq(S) /\ SubSeq(s, 1, n) \in Seq(S)
  <2>1. \A i \in 1..Len(s) : s[i] \in S
    BY ElementOfSeq
  <2> QED
    BY <1>3, <2>1, SubSeqProperties
<1>4. ASSUME NEW s \in Seq(S)
      PROVE  Trim(s) \in Seq(S)
  BY <1>1, <1>3 DEF Trim
<1>5. Append(h, m) \in Seq(S) /\ Len(h) \in Nat
  OBVIOUS
<1> QED
  BY <1>2, <1>3, <1>4, <1>5 DEF AppendMessage, Drained, Remaining
=============================================================================
