---------------------------- MODULE AnswerProofs -----------------------------
(***************************************************************************)
(* From the raw answer to the client and the metrics, for any turns, any   *)
(* structured responses and any size of the ring.                          *)
(***************************************************************************)
EXTENDS Answer, SequenceTheorems, TLAPS

-----------------------------------------------------------------------------
(* The ring of a MetricsStore is the list of the last turns, whatever is   *)
(* pushed.                                                                 *)

(* A partly filled ring has been filled from its first slot on. *)
StoreInv ==
  /\ StoreTypeOK
  /\ count < RingSize => head = count

(* The remainder of a number that is less than twice the divisor. *)
LEMMA Wrap ==
  ASSUME NEW x \in Nat, x < 2 * RingSize
  PROVE  x % RingSize = IF x < RingSize THEN x ELSE x - RingSize
<1>1. RingSize \in Nat \ {0}
  BY RingSizeAssumption
<1>2. CASE x < RingSize
  BY <1>1, <1>2
<1>3. CASE x >= RingSize
  BY <1>1, <1>3
<1> QED
  BY <1>1, <1>2, <1>3

(* The slots walked by Recent, without the remainder. *)
LEMMA SlotIs ==
  ASSUME StoreTypeOK, NEW i \in 0..(RingSize - 1)
  PROVE  /\ Slot(i) = IF i < head THEN head - 1 - i ELSE head - 1 - i + RingSize
         /\ Slot(i) \in 0..(RingSize - 1)
<1>1. RingSize \in Nat \ {0} /\ head \in 0..(RingSize - 1)
  BY RingSizeAssumption DEF StoreTypeOK
<1> DEFINE x == (head - 1 - i) + RingSize
<1>2. x \in Nat /\ x < 2 * RingSize
  BY <1>1
<1>3. Slot(i) = x % RingSize
  BY DEF Slot
<1>4. x % RingSize = IF x < RingSize THEN x ELSE x - RingSize
  <2> HIDE DEF x
  <2> QED
    BY <1>2, Wrap
<1> QED
  BY <1>1, <1>3, <1>4

LEMMA PushInv ==
  ASSUME StoreInv, NEW m \in Measures, Push(m)
  PROVE  StoreInv'
<1>1. RingSize \in Nat \ {0} /\ head \in 0..(RingSize - 1) /\ count \in 0..RingSize
  BY RingSizeAssumption DEF StoreInv, StoreTypeOK
<1>2. head' = IF head + 1 < RingSize THEN head + 1 ELSE 0
  BY <1>1, Wrap DEF Push
<1>3. count' \in 0..RingSize /\ head' \in 0..(RingSize - 1)
  BY <1>1, <1>2 DEF Push
<1>4. ring' \in [0..(RingSize - 1) -> Measures \union {NoMeasure}]
  BY DEF StoreInv, StoreTypeOK, Push
<1>5. count' < RingSize => head' = count'
  BY <1>1, <1>2 DEF StoreInv, Push
<1> QED
  BY <1>3, <1>4, <1>5 DEF StoreInv, StoreTypeOK

LEMMA StoreInvInit == StoreInit => StoreInv
BY RingSizeAssumption DEF StoreInit, StoreInv, StoreTypeOK

LEMMA StoreInvariant == StoreSpec => []StoreInv
<1>1. StoreInv /\ [StoreNext]_store => StoreInv'
  <2>1. ASSUME StoreInv, UNCHANGED store
        PROVE  StoreInv'
    BY <2>1 DEF StoreInv, StoreTypeOK, store
  <2> QED
    BY <2>1, PushInv DEF StoreNext
<1> QED
  BY <1>1, StoreInvInit, PTL DEF StoreSpec

-----------------------------------------------------------------------------
LEMMA RecentType ==
  ASSUME StoreInv
  PROVE  /\ Recent(0) \in Seq(Measures \union {NoMeasure})
         /\ Len(Recent(0)) = count
         /\ \A i \in 1..count : Recent(0)[i] = ring[Slot(i - 1)]
<1>1. RingSize \in Nat \ {0} /\ count \in 0..RingSize
  BY RingSizeAssumption DEF StoreInv, StoreTypeOK
<1>2. Recent(0) = [i \in 1..count |-> ring[Slot(i - 1)]]
  BY <1>1 DEF Recent
<1>3. \A i \in 1..count : ring[Slot(i - 1)] \in Measures \union {NoMeasure}
  BY <1>1, SlotIs DEF StoreInv, StoreTypeOK
<1> QED
  BY <1>1, <1>2, <1>3

(* After a Push the newest entry comes first and the others follow, the    *)
(* oldest of a full ring excepted.                                         *)
LEMMA PushRecent ==
  ASSUME StoreInv, NEW m \in Measures, Push(m)
  PROVE  /\ Len(Recent(0)') = count'
         /\ \A i \in 1..count' : Recent(0)'[i] = IF i = 1 THEN m ELSE Recent(0)[i - 1]
<1>1. StoreInv'
  BY PushInv
<1>2. RingSize \in Nat \ {0} /\ head \in 0..(RingSize - 1) /\ count \in 0..RingSize
  BY RingSizeAssumption DEF StoreInv, StoreTypeOK
<1>3. head' = IF head + 1 < RingSize THEN head + 1 ELSE 0
  BY <1>2, Wrap DEF Push
<1>4. StoreTypeOK /\ StoreTypeOK' /\ count' \in 1..RingSize /\ count' =< count + 1
  BY <1>1, <1>2 DEF StoreInv, Push
<1>5. Recent(0)' = [i \in 1..count' |-> ring'[Slot(i - 1)']]
  BY <1>4 DEF Recent
<1>6. \A i \in 0..(RingSize - 1) :
         Slot(i)' = IF i < head' THEN head' - 1 - i ELSE head' - 1 - i + RingSize
  <2>1. ASSUME NEW i \in 0..(RingSize - 1)
        PROVE  (head' - 1 - i) + RingSize \in Nat /\ (head' - 1 - i) + RingSize < 2 * RingSize
    BY <1>2, <1>3
  <2> QED
    BY <1>2, <1>3, <2>1, Wrap DEF Slot
<1>7. ASSUME NEW i \in 1..count'
      PROVE  Recent(0)'[i] = IF i = 1 THEN m ELSE Recent(0)[i - 1]
  <2>1. Recent(0)'[i] = ring'[Slot(i - 1)']
    BY <1>5
  <2>2. CASE i = 1
    <3>1. Slot(0)' = head
      BY <1>2, <1>3, <1>6
    <3>2. ring'[head] = m
      BY <1>2 DEF Push, StoreInv, StoreTypeOK
    <3> QED
      BY <2>1, <2>2, <3>1, <3>2
  <2>3. CASE i # 1
    <3>1. i - 1 \in 1..count /\ i - 2 \in 0..(RingSize - 1) /\ i - 1 \in 1..(RingSize - 1)
      BY <1>2, <1>4, <2>3
    <3>2. Slot(i - 2) = IF i - 2 < head THEN head - 1 - (i - 2) ELSE head - 1 - (i - 2) + RingSize
      BY <1>4, <3>1, SlotIs
    <3>3. Slot(i - 1)' = Slot(i - 2) /\ Slot(i - 2) # head /\ Slot(i - 2) \in 0..(RingSize - 1)
      BY <1>2, <1>3, <1>6, <3>1, <3>2
    <3>4. ring'[Slot(i - 2)] = ring[Slot(i - 2)]
      BY <3>3 DEF Push, StoreInv, StoreTypeOK
    <3>5. Recent(0)[i - 1] = ring[Slot((i - 1) - 1)] /\ (i - 1) - 1 = i - 2
      BY <3>1, RecentType
    <3> QED
      BY <2>1, <2>3, <3>3, <3>4, <3>5
  <2> QED
    BY <2>2, <2>3
<1>8. Len(Recent(0)') = count'
  BY <1>4, <1>5
<1> QED
  BY <1>7, <1>8

(* A Push of the ring is a Record of the list. *)
LEMMA PushIsRecord ==
  ASSUME StoreInv, NEW m \in Measures, Push(m)
  PROVE  List!Record(m)
<1> DEFINE S == Measures \union {NoMeasure}
           longer == <<m>> \o Recent(0)
           new == SubSeq(longer, 1,
                    IF Len(Recent(0)) < RingSize THEN Len(Recent(0)) + 1 ELSE RingSize)
<1>0. /\ Len(Recent(0)') = count'
      /\ \A i \in 1..count' : Recent(0)'[i] = IF i = 1 THEN m ELSE Recent(0)[i - 1]
  BY PushRecent
<1>1. /\ RingSize \in Nat \ {0} /\ count \in 0..RingSize /\ count' \in 1..RingSize
      /\ count' =< count + 1
  BY RingSizeAssumption, PushInv DEF StoreInv, StoreTypeOK, Push
<1>2. Recent(0) \in Seq(S) /\ Len(Recent(0)) = count /\ <<m>> \in Seq(S)
  BY RecentType
<1>3. /\ longer \in Seq(S) /\ Len(longer) = count + 1
      /\ \A i \in 1..(count + 1) : longer[i] = IF i = 1 THEN m ELSE Recent(0)[i - 1]
  BY <1>1, <1>2
<1>4. count' = IF Len(Recent(0)) < RingSize THEN Len(Recent(0)) + 1 ELSE RingSize
  BY <1>1, <1>2 DEF Push
<1>5. new = SubSeq(longer, 1, count')
  BY <1>4
<1> HIDE DEF longer, new
<1>6. /\ new \in Seq(S) /\ Len(new) = count' /\ \A i \in 1..count' : new[i] = longer[i]
  BY <1>1, <1>2, <1>3, <1>4, <1>5
<1>7. Recent(0)' \in Seq(S) /\ Len(Recent(0)') = count'
  <2>1. StoreInv'
    BY PushInv
  <2>2. Recent(0)' = [i \in 1..count' |-> ring'[Slot(i - 1)']]
    BY <1>1 DEF Recent
  <2>3. \A i \in 1..count' : Recent(0)'[i] \in S
    <3>1. ASSUME NEW i \in 1..count', i # 1
          PROVE  i - 1 \in 1..Len(Recent(0))
      BY <1>1, <1>2, <3>1
    <3>2. \A i \in 1..Len(Recent(0)) : Recent(0)[i] \in S
      BY <1>2
    <3> QED
      BY <1>0, <3>1, <3>2
  <2> QED
    BY <1>0, <1>1, <2>2, <2>3
<1>8. \A i \in 1..count' : Recent(0)'[i] = new[i]
  BY <1>0, <1>1, <1>3, <1>6
<1>9. Recent(0)' = new
  BY <1>1, <1>6, <1>7, <1>8, SeqEqual
<1> QED
  BY <1>9 DEF List!Record, longer, new

(* A MetricsStore implements the list of the last turns: at every fill     *)
(* level, Recent walks back over the newest entries, none twice, none      *)
(* skipped, and never over a slot that was not pushed to.                  *)
THEOREM RingIsTheLastTurns == StoreSpec => IsTheLastTurns
<1>1. StoreInit => List!Init
  BY DEF StoreInit, List!Init, Recent
<1>2. StoreInv /\ [StoreNext]_store => [List!Next]_(Recent(0))
  <2>1. UNCHANGED store => Recent(0)' = Recent(0)
    BY DEF store, Recent, Slot
  <2> QED
    BY <2>1, PushIsRecord DEF StoreNext, List!Next
<1> QED
  BY <1>1, <1>2, StoreInvariant, PTL DEF StoreSpec, IsTheLastTurns, List!Spec

-----------------------------------------------------------------------------

(* What is true of a turn, by the statement it has come to. *)
Ended == {"measuring", "reporting", "replied"}

NotStyledYet(r) ==
  /\ r.at \in {"asking", "answered", "routing", "rewriting", "storing"} =>
       ~r.error /\ r.remembered = {}
  /\ r.at \in {"asking", "answered", "routing", "rewriting"} => ~r.applied /\ r.fallback = ""
  /\ r.at \in {"asking", "answered", "routing"} => ~r.rewrite
  /\ r.at \in {"asking", "answered"} => r.output = ""
  /\ r.at = "asking" => r.raw = ""

Allowed(r) ==
  /\ MayRewrite(r.structured)
  /\ r.structured.risk = "high" => r.profile = "plain"

Styling(r, configured) ==
  /\ r.at \in {"routing", "rewriting"} => configured /\ (r.output = "" <=> r.raw = "")
  /\ r.at = "rewriting" => r.rewrite /\ Allowed(r)
  /\ r.at \in {"storing"} \union Ended =>
       /\ r.applied <=> r.rewrite /\ r.fallback = ""
       /\ r.applied => /\ configured /\ Allowed(r)
                       /\ r.structured.must \subseteq r.kept
                       /\ r.output = "rewritten"
  /\ r.at = "storing" /\ ~r.applied => (r.output = "" <=> r.raw = "")

Ending(r) ==
  /\ r.at \in Ended =>
       /\ r.output = "" <=> r.error \/ (r.raw = "" /\ ~r.applied)
       /\ r.error <=> r.remembered = {}
       /\ r.remembered \subseteq {r.raw}
  /\ r.raw = "raw" => r.streamed # <<>> /\ r.streamed[Len(r.streamed)] = "raw"

Sound(r, configured) == NotStyledYet(r) /\ Styling(r, configured) /\ Ending(r)

(* The metrics of a turn are its own, and it goes on only after them. *)
Measured(t) ==
  /\ turn[t].at \in {"reporting", "replied"} => \E n \in 1..Len(pushed) : pushed[n].turn = t
  /\ \A n \in 1..Len(pushed) :
       pushed[n].turn = t =>
         /\ turn[t].at \in {"reporting", "replied"}
         /\ pushed[n].rewrite = turn[t].rewrite /\ pushed[n].fallback = turn[t].fallback

(* The ring holds the end of what was pushed, the newest first. *)
RingInv ==
  /\ pushed \in Seq(Measures) /\ StoreInv
  /\ count = IF Len(pushed) < RingSize THEN Len(pushed) ELSE RingSize
  /\ \A i \in 1..count : Recent(0)[i] = pushed[Len(pushed) - i + 1]

TurnsInv ==
  /\ processor \in BOOLEAN
  /\ turn \in [TurnIds -> TurnRecord]
  /\ \A t \in TurnIds : Sound(turn[t], processor)

AnswerInv ==
  /\ TurnsInv /\ RingInv
  /\ \A t \in TurnIds : Measured(t)

-----------------------------------------------------------------------------
LEMMA PlainIsStructured ==
  ASSUME NEW raw \in {"", "raw"}
  PROVE  Plainly(raw) \in StructuredResponse /\ Plainly(raw).final = raw
BY DEF Plainly, StructuredResponse, Risks, Scenes, Modes

LEMMA NewTurnIsSound ==
  ASSUME NEW configured \in BOOLEAN
  PROVE  NewTurn \in TurnRecord /\ Sound(NewTurn, configured)
<1>1. Plainly("") \in StructuredResponse
  BY PlainIsStructured
<1>2. NewTurn \in TurnRecord
  <2>1. <<>> \in Seq({"aside", "part", "raw"})
    OBVIOUS
  <2> QED
    BY <1>1, <2>1 DEF NewTurn, TurnRecord, Texts, Reasons
<1>3. Sound(NewTurn, configured)
  BY DEF NewTurn, Sound, NotStyledYet, Styling, Ending, Ended
<1> QED
  BY <1>2, <1>3

(* Steps of the model's rounds. *)
LEMMA RoundStep ==
  ASSUME TurnsInv, NEW t \in TurnIds,
         ToolRound(t) \/ AnswerComes(t) \/ NoAnswer(t) \/ TurnErrors(t)
  PROVE  \E r \in TurnRecord :
           Sound(r, processor) /\ Step(t, "asking", r) /\ r.at \notin {"reporting", "replied"}
<1> DEFINE s == turn[t]
<1>0. s \in TurnRecord /\ Sound(s, processor) /\ s.streamed \in Seq({"aside", "part", "raw"})
  BY DEF TurnsInv, TurnRecord
<1>1. CASE ToolRound(t)
  <2> DEFINE r == [s EXCEPT !.streamed = <<"aside">>]
  <2>1. Step(t, "asking", r) /\ s.at = "asking"
    BY <1>1 DEF ToolRound, Step
  <2>2. r \in TurnRecord
    <3>1. <<"aside">> \in Seq({"aside", "part", "raw"})
      OBVIOUS
    <3> QED
      BY <1>0, <3>1 DEF TurnRecord
  <2>3. Sound(r, processor) /\ r.at = "asking"
    BY <1>0, <2>1 DEF Sound, NotStyledYet, Styling, Ending, Ended, TurnRecord
  <2> HIDE DEF r
  <2> QED
    BY <2>1, <2>2, <2>3
<1>2. CASE AnswerComes(t)
  <2> DEFINE r == [s EXCEPT !.at = "answered", !.raw = "raw", !.streamed = Append(@, "raw")]
  <2>1. Step(t, "asking", r) /\ s.at = "asking"
    BY <1>2 DEF AnswerComes, Step
  <2>2. /\ Append(s.streamed, "raw") \in Seq({"aside", "part", "raw"})
        /\ Append(s.streamed, "raw") # <<>>
        /\ Append(s.streamed, "raw")[Len(Append(s.streamed, "raw"))] = "raw"
    BY <1>0
  <2>3. r \in TurnRecord /\ r.streamed = Append(s.streamed, "raw")
    BY <1>0, <2>2 DEF TurnRecord
  <2>4. Sound(r, processor) /\ r.at = "answered"
    BY <1>0, <2>1, <2>2, <2>3 DEF Sound, NotStyledYet, Styling, Ending, Ended, TurnRecord
  <2> HIDE DEF r
  <2> QED
    BY <2>1, <2>3, <2>4
<1>3. CASE NoAnswer(t)
  <2> DEFINE r == [s EXCEPT !.at = "answered"]
  <2>1. Step(t, "asking", r) /\ s.at = "asking"
    BY <1>3 DEF NoAnswer, Step
  <2>2. r \in TurnRecord
    BY <1>0 DEF TurnRecord
  <2>3. Sound(r, processor) /\ r.at = "answered"
    BY <1>0, <2>1 DEF Sound, NotStyledYet, Styling, Ending, Ended, TurnRecord
  <2> HIDE DEF r
  <2> QED
    BY <2>1, <2>2, <2>3
<1>4. CASE TurnErrors(t)
  <2>1. PICK part \in {<<>>, <<"part">>} :
          Step(t, "asking", [s EXCEPT !.at = "measuring", !.error = TRUE, !.streamed = @ \o part])
    BY <1>4 DEF TurnErrors
  <2> DEFINE r == [s EXCEPT !.at = "measuring", !.error = TRUE, !.streamed = @ \o part]
  <2>2. s.at = "asking"
    BY <2>1 DEF Step
  <2>3. s.streamed \o part \in Seq({"aside", "part", "raw"})
    <3>1. part \in Seq({"aside", "part", "raw"})
      <4>1. <<>> \in Seq({"aside", "part", "raw"}) /\ <<"part">> \in Seq({"aside", "part", "raw"})
        OBVIOUS
      <4> QED
        BY <4>1
    <3> HIDE DEF s
    <3> QED
      BY <1>0, <3>1
  <2>4. r \in TurnRecord
    BY <1>0, <2>3 DEF TurnRecord
  <2>5. Sound(r, processor) /\ r.at = "measuring"
    BY <1>0, <2>2 DEF Sound, NotStyledYet, Styling, Ending, Ended, TurnRecord
  <2> HIDE DEF r
  <2> QED
    BY <2>1, <2>4, <2>5 DEF r
<1> QED
  BY <1>1, <1>2, <1>3, <1>4

(* Steps of structurize and the style layer. *)
LEMMA StructuredStep ==
  ASSUME TurnsInv, NEW t \in TurnIds, NEW sr \in StructuredResponse, Structured(t, sr),
         sr.final = "" <=> turn[t].raw = ""
  PROVE  \E r \in TurnRecord :
           Sound(r, processor) /\ Step(t, "answered", r) /\ r.at \notin {"reporting", "replied"}
<1> DEFINE s == turn[t]
           r == [s EXCEPT !.at = "routing", !.structured = sr, !.output = sr.final]
<1>0. s \in TurnRecord /\ Sound(s, processor)
  BY DEF TurnsInv
<1>1. Step(t, "answered", r) /\ s.at = "answered" /\ processor
  BY DEF Structured, Step
<1>2. r \in TurnRecord
  BY <1>0 DEF TurnRecord, StructuredResponse, Texts
<1>3. Sound(r, processor) /\ r.at = "routing"
  BY <1>0, <1>1 DEF Sound, NotStyledYet, Styling, Ending, Ended, TurnRecord
<1> HIDE DEF r
<1> QED
  BY <1>1, <1>2, <1>3

LEMMA StructurizeStep ==
  ASSUME TurnsInv, NEW t \in TurnIds, StructurizeFails(t) \/ StructurizeOk(t)
  PROVE  \E r \in TurnRecord :
           Sound(r, processor) /\ Step(t, "answered", r) /\ r.at \notin {"reporting", "replied"}
<1>0. turn[t].raw \in {"", "raw"}
  BY DEF TurnsInv, TurnRecord
<1>1. CASE StructurizeFails(t)
  BY <1>0, <1>1, PlainIsStructured, StructuredStep DEF StructurizeFails
<1>2. CASE StructurizeOk(t)
  <2>1. turn[t].raw = "raw"
    BY <1>0, <1>2 DEF StructurizeOk
  <2>2. PICK given \in Structures :
          Structured(t, [given EXCEPT !.final = IF @ = "" THEN turn[t].raw ELSE @])
    BY <1>2 DEF StructurizeOk
  <2> DEFINE sr == [given EXCEPT !.final = IF @ = "" THEN turn[t].raw ELSE @]
  <2>3. sr \in StructuredResponse /\ sr.final # ""
    BY <2>1, StructuresAssumption DEF StructuredResponse
  <2> HIDE DEF sr
  <2> QED
    BY <2>1, <2>2, <2>3, StructuredStep DEF sr
<1> QED
  BY <1>1, <1>2

LEMMA StyleStep ==
  ASSUME TurnsInv, NEW t \in TurnIds,
         \/ NoProcessor(t) \/ Bypass(t) \/ StartRewrite(t) \/ RewriteFails(t) \/ RewriteBlank(t)
         \/ \E kept \in SUBSET Items : RewriteOk(t, kept) \/ RewriteRejected(t, kept)
  PROVE  \E r \in TurnRecord :
           /\ Sound(r, processor) /\ Step(t, turn[t].at, r)
           /\ turn[t].at \notin {"reporting", "replied"} /\ r.at \notin {"reporting", "replied"}
<1> DEFINE s == turn[t]
<1>0. s \in TurnRecord /\ Sound(s, processor)
  BY DEF TurnsInv
<1>1. CASE NoProcessor(t)
  <2> DEFINE r == [s EXCEPT !.at = "storing", !.output = s.raw]
  <2>1. Step(t, s.at, r) /\ s.at = "answered"
    BY <1>1 DEF NoProcessor, Step
  <2>2. r \in TurnRecord
    BY <1>0 DEF TurnRecord, Texts
  <2>3. Sound(r, processor) /\ r.at = "storing"
    BY <1>0, <2>1 DEF Sound, NotStyledYet, Styling, Ending, Ended, TurnRecord
  <2> HIDE DEF r
  <2> QED
    BY <2>1, <2>2, <2>3
<1>2. CASE Bypass(t)
  <2> DEFINE r == [s EXCEPT !.at = "storing"]
  <2>1. Step(t, s.at, r) /\ s.at = "routing"
    BY <1>2 DEF Bypass, Step
  <2>2. r \in TurnRecord
    BY <1>0 DEF TurnRecord
  <2>3. Sound(r, processor) /\ r.at = "storing"
    BY <1>0, <2>1 DEF Sound, NotStyledYet, Styling, Ending, Ended, TurnRecord
  <2> HIDE DEF r
  <2> QED
    BY <2>1, <2>2, <2>3
<1>3. CASE StartRewrite(t)
  <2> DEFINE profile == ResolveProfile(s.structured.scene, s.structured.risk)
             r == [s EXCEPT !.at = "rewriting", !.rewrite = TRUE, !.profile = profile]
  <2>1. Step(t, s.at, r) /\ s.at = "routing" /\ MayRewrite(s.structured)
    BY <1>3 DEF StartRewrite, Step
  <2>2. profile \in {"plain", "sharp", "blunt"} /\ (s.structured.risk = "high" => profile = "plain")
    BY DEF ResolveProfile
  <2> HIDE DEF profile
  <2>3. r \in TurnRecord
    BY <1>0, <2>2 DEF TurnRecord
  <2>4. Allowed(r) /\ r.at = "rewriting"
    BY <1>0, <2>1, <2>2 DEF Allowed, TurnRecord
  <2>5. Sound(r, processor)
    BY <1>0, <2>1, <2>4 DEF Sound, NotStyledYet, Styling, Ending, Ended, TurnRecord
  <2> HIDE DEF r
  <2> QED
    BY <2>1, <2>3, <2>4, <2>5
<1>4. CASE RewriteFails(t) \/ RewriteBlank(t) \/ \E kept \in SUBSET Items : RewriteRejected(t, kept)
  <2>1. PICK reason \in Reasons \ {""} : Fallback(t, reason)
    BY <1>4 DEF RewriteFails, RewriteBlank, RewriteRejected, Reasons
  <2> DEFINE r == [s EXCEPT !.at = "storing", !.fallback = reason]
  <2>2. Step(t, s.at, r) /\ s.at = "rewriting"
    BY <2>1 DEF Fallback, Step
  <2>3. r \in TurnRecord
    BY <1>0 DEF TurnRecord
  <2>4. Sound(r, processor) /\ r.at = "storing"
    BY <1>0, <2>2 DEF Sound, NotStyledYet, Styling, Ending, Ended, TurnRecord
  <2> HIDE DEF r
  <2> QED
    BY <2>2, <2>3, <2>4
<1>5. CASE \E kept \in SUBSET Items : RewriteOk(t, kept)
  <2>1. PICK kept \in SUBSET Items : RewriteOk(t, kept)
    BY <1>5
  <2> DEFINE r == [s EXCEPT !.at = "storing", !.output = "rewritten", !.applied = TRUE, !.kept = kept]
  <2>2. Step(t, s.at, r) /\ s.at = "rewriting" /\ s.structured.must \subseteq kept
    BY <2>1 DEF RewriteOk, Step
  <2>3. r \in TurnRecord
    BY <1>0 DEF TurnRecord, Texts
  <2>4. Allowed(r) /\ r.at = "storing" /\ r.structured.must \subseteq r.kept
    BY <1>0, <2>2 DEF Sound, Styling, Allowed, TurnRecord
  <2>5. Sound(r, processor)
    BY <1>0, <2>2, <2>4 DEF Sound, NotStyledYet, Styling, Ending, Ended, TurnRecord
  <2> HIDE DEF r
  <2> QED
    BY <2>2, <2>3, <2>4, <2>5
<1> QED
  BY <1>1, <1>2, <1>3, <1>4, <1>5

LEMMA EndStep ==
  ASSUME TurnsInv, NEW t \in TurnIds, StoreTurn(t)
  PROVE  \E r \in TurnRecord :
           Sound(r, processor) /\ Step(t, "storing", r) /\ r.at \notin {"reporting", "replied"}
<1> DEFINE s == turn[t]
           output == IF s.output = "" THEN s.raw ELSE s.output
           r == [s EXCEPT !.at = "measuring", !.remembered = {s.raw}, !.output = output]
<1>0. s \in TurnRecord /\ Sound(s, processor)
  BY DEF TurnsInv
<1>1. Step(t, "storing", r) /\ s.at = "storing"
  BY DEF StoreTurn, Step
<1>2. r \in TurnRecord
  BY <1>0 DEF TurnRecord, Texts
<1>3. s.applied => output = "rewritten"
  BY <1>0, <1>1 DEF Sound, Styling
<1>4. ~s.applied => (output = "" <=> s.raw = "")
  BY <1>0, <1>1 DEF Sound, Styling
<1> HIDE DEF output
<1>5. Allowed(r) <=> Allowed(s)
  BY <1>0 DEF Allowed, TurnRecord
<1>6. Sound(r, processor) /\ r.at = "measuring"
  BY <1>0, <1>1, <1>3, <1>4, <1>5 DEF Sound, NotStyledYet, Styling, Ending, Ended, TurnRecord
<1> HIDE DEF r
<1> QED
  BY <1>1, <1>2, <1>6

(* A change of one turn within these bounds keeps the turns' invariant, *)
(* and one before its metrics keeps those too.                          *)
LEMMA TurnChanged ==
  ASSUME TurnsInv, NEW t \in TurnIds, NEW r \in TurnRecord, Sound(r, processor),
         turn' = [turn EXCEPT ![t] = r], processor' = processor
  PROVE  TurnsInv'
BY DEF TurnsInv

LEMMA StepKeeps ==
  ASSUME AnswerInv, NEW t \in TurnIds, NEW r \in TurnRecord, Sound(r, processor),
         Step(t, turn[t].at, r),
         turn[t].at \notin {"reporting", "replied"} /\ r.at \notin {"reporting", "replied"}
  PROVE  AnswerInv'
<1>1. turn' = [turn EXCEPT ![t] = r] /\ UNCHANGED <<processor, pushed, store>>
  BY DEF Step
<1>2. TurnsInv'
  BY <1>1, TurnChanged DEF AnswerInv
<1>3. RingInv'
  BY <1>1 DEF AnswerInv, RingInv, StoreInv, StoreTypeOK, store, Recent, Slot
<1>4. ASSUME NEW u \in TurnIds
      PROVE  Measured(u)'
  <2>1. CASE u = t
    BY <1>1, <2>1 DEF AnswerInv, TurnsInv, Measured
  <2>2. CASE u # t
    BY <1>1, <2>2 DEF AnswerInv, TurnsInv, Measured
  <2> QED
    BY <2>1, <2>2
<1> QED
  BY <1>2, <1>3, <1>4 DEF AnswerInv

(* What is pushed comes first in Recent, the rest moves on. *)
LEMMA PushKeepsRing ==
  ASSUME RingInv, NEW m \in Measures, Push(m), pushed' = Append(pushed, m)
  PROVE  RingInv'
<1> DEFINE len == Len(pushed)
<1>1. /\ len \in Nat /\ pushed' \in Seq(Measures) /\ Len(pushed') = len + 1
      /\ pushed'[len + 1] = m /\ \A n \in 1..len : pushed'[n] = pushed[n]
  BY DEF RingInv
<1>2. StoreInv'
  BY PushInv DEF RingInv
<1>3. RingSize \in Nat \ {0} /\ count = (IF len < RingSize THEN len ELSE RingSize)
  BY RingSizeAssumption DEF RingInv
<1> HIDE DEF len
<1>4. /\ count' = (IF len + 1 < RingSize THEN len + 1 ELSE RingSize)
      /\ count' =< count + 1 /\ count =< len /\ count \in Nat /\ count' \in Nat
  BY <1>1, <1>3 DEF Push
<1>5. ASSUME NEW i \in 1..count'
      PROVE  Recent(0)'[i] = pushed'[(len + 1) - i + 1]
  <2>1. Recent(0)'[i] = IF i = 1 THEN m ELSE Recent(0)[i - 1]
    BY PushRecent DEF RingInv
  <2>2. CASE i = 1
    <3>1. (len + 1) - i + 1 = len + 1
      BY <1>1, <2>2
    <3> QED
      BY <1>1, <2>1, <2>2, <3>1
  <2>3. CASE i # 1
    <3>1. i - 1 \in 1..count
      BY <1>4, <2>3
    <3>2. (len + 1) - i + 1 \in 1..len /\ len - (i - 1) + 1 = (len + 1) - i + 1
      BY <1>1, <1>4, <3>1
    <3>3. Recent(0)[i - 1] = pushed[len - (i - 1) + 1]
      BY <3>1 DEF RingInv, len
    <3> QED
      BY <1>1, <2>1, <2>3, <3>2, <3>3
  <2> QED
    BY <2>2, <2>3
<1> QED
  BY <1>1, <1>2, <1>4, <1>5 DEF RingInv

LEMMA MeasureType ==
  ASSUME TurnsInv, NEW t \in TurnIds
  PROVE  MeasureOf(t) \in Measures
<1>1. MeasureOf(t) \in [turn : TurnIds, rewrite : BOOLEAN, fallback : Reasons]
  BY DEF TurnsInv, TurnRecord, MeasureOf
<1> QED
  BY <1>1, MeasuresAssumption

LEMMA MeasureStep ==
  ASSUME AnswerInv, NEW t \in TurnIds, Measure(t)
  PROVE  AnswerInv'
<1> DEFINE r == [turn[t] EXCEPT !.at = "reporting"]
           m == MeasureOf(t)
<1>1. /\ turn[t].at = "measuring" /\ processor' = processor
      /\ Push(m) /\ pushed' = Append(pushed, m) /\ turn' = [turn EXCEPT ![t] = r]
  BY DEF Measure
<1>2. turn[t] \in TurnRecord /\ Sound(turn[t], processor) /\ turn \in [TurnIds -> TurnRecord]
  BY DEF AnswerInv, TurnsInv
<1>3. r \in TurnRecord /\ r.at = "reporting" /\ r.rewrite = turn[t].rewrite /\ r.fallback = turn[t].fallback
  BY <1>2 DEF TurnRecord
<1>4. Sound(r, processor)
  <2>1. Allowed(r) <=> Allowed(turn[t])
    BY <1>2 DEF Allowed, TurnRecord
  <2> QED
    BY <1>1, <1>2, <2>1 DEF Sound, NotStyledYet, Styling, Ending, Ended, TurnRecord
<1>5. m \in Measures /\ m.turn = t /\ m.rewrite = r.rewrite /\ m.fallback = r.fallback
  BY <1>3, MeasureType DEF AnswerInv, MeasureOf
<1> HIDE DEF r, m
<1>6. TurnsInv'
  BY <1>1, <1>3, <1>4, TurnChanged DEF AnswerInv
<1>7. RingInv'
  BY <1>1, <1>5, PushKeepsRing DEF AnswerInv
<1>8. /\ Len(pushed) \in Nat /\ Len(pushed') = Len(pushed) + 1 /\ pushed'[Len(pushed) + 1] = m
      /\ \A n \in 1..Len(pushed) : pushed'[n] = pushed[n]
      /\ \A n \in 1..Len(pushed') : n \in 1..Len(pushed) \/ n = Len(pushed) + 1
      /\ \A n \in 1..Len(pushed) : n \in 1..Len(pushed')
      /\ Len(pushed) + 1 \in 1..Len(pushed')
  BY <1>1, <1>5 DEF AnswerInv, RingInv
<1>9. ASSUME NEW u \in TurnIds
      PROVE  Measured(u)'
  <2>1. CASE u = t
    <3>1. turn'[u] = r
      BY <1>1, <1>2, <2>1
    <3>2. \A n \in 1..Len(pushed) : pushed[n].turn # t
      BY <1>1 DEF AnswerInv, Measured
    <3> QED
      BY <1>3, <1>5, <1>8, <2>1, <3>1, <3>2 DEF Measured
  <2>2. CASE u # t
    <3>1. turn'[u] = turn[u]
      BY <1>1, <1>2, <2>2
    <3>2. Measured(u)
      BY DEF AnswerInv
    <3> QED
      BY <1>5, <1>8, <2>2, <3>1, <3>2 DEF Measured
  <2> QED
    BY <2>1, <2>2
<1> QED
  BY <1>6, <1>7, <1>9 DEF AnswerInv

LEMMA OtherStep ==
  ASSUME AnswerInv, OtherTurnMeasured
  PROVE  AnswerInv'
<1>1. /\ UNCHANGED <<processor, turn>>
      /\ Push(OtherMeasure) /\ pushed' = Append(pushed, OtherMeasure)
      /\ OtherMeasure \in Measures /\ OtherMeasure.turn \notin TurnIds
  BY MeasuresAssumption DEF OtherTurnMeasured, OtherMeasure
<1>2. TurnsInv'
  BY <1>1 DEF AnswerInv, TurnsInv
<1>3. RingInv'
  BY <1>1, PushKeepsRing DEF AnswerInv
<1>4. /\ pushed'[Len(pushed) + 1] = OtherMeasure
      /\ \A n \in 1..Len(pushed) : pushed'[n] = pushed[n]
      /\ \A n \in 1..Len(pushed') : n \in 1..Len(pushed) \/ n = Len(pushed) + 1
      /\ \A n \in 1..Len(pushed) : n \in 1..Len(pushed')
  BY <1>1 DEF AnswerInv, RingInv
<1>5. \A u \in TurnIds : Measured(u)'
  BY <1>1, <1>4 DEF AnswerInv, Measured
<1> QED
  BY <1>2, <1>3, <1>5 DEF AnswerInv

LEMMA ReplyStep ==
  ASSUME AnswerInv, NEW t \in TurnIds, Reply(t)
  PROVE  AnswerInv'
<1> DEFINE r == [turn[t] EXCEPT !.at = "replied"]
<1>1. /\ turn[t].at = "reporting" /\ UNCHANGED <<processor, pushed, store>>
      /\ turn' = [turn EXCEPT ![t] = r]
  BY DEF Reply, Step
<1>2. turn[t] \in TurnRecord /\ Sound(turn[t], processor) /\ turn \in [TurnIds -> TurnRecord]
  BY DEF AnswerInv, TurnsInv
<1>3. r \in TurnRecord /\ r.at = "replied" /\ r.rewrite = turn[t].rewrite /\ r.fallback = turn[t].fallback
  BY <1>2 DEF TurnRecord
<1>4. Sound(r, processor)
  <2>1. Allowed(r) <=> Allowed(turn[t])
    BY <1>2 DEF Allowed, TurnRecord
  <2> QED
    BY <1>1, <1>2, <2>1 DEF Sound, NotStyledYet, Styling, Ending, Ended, TurnRecord
<1> HIDE DEF r
<1>5. TurnsInv'
  BY <1>1, <1>3, <1>4, TurnChanged DEF AnswerInv
<1>6. RingInv'
  BY <1>1 DEF AnswerInv, RingInv, StoreInv, StoreTypeOK, store, Recent, Slot
<1>7. \A u \in TurnIds : Measured(u)'
  BY <1>1, <1>2, <1>3 DEF AnswerInv, Measured
<1> QED
  BY <1>5, <1>6, <1>7 DEF AnswerInv

LEMMA AnswerInit == Init => AnswerInv
<1> SUFFICES ASSUME Init
             PROVE  AnswerInv
  OBVIOUS
<1>1. TurnsInv
  BY NewTurnIsSound DEF Init, TurnsInv
<1>2. RingInv
  BY StoreInvInit, RingSizeAssumption DEF Init, RingInv, StoreInit
<1>3. \A t \in TurnIds : Measured(t)
  <2>1. \A t \in TurnIds : turn[t].at = "asking"
    BY DEF Init, NewTurn
  <2>2. 1..Len(pushed) = {}
    BY DEF Init
  <2> QED
    BY <2>1, <2>2 DEF Measured
<1> QED
  BY <1>1, <1>2, <1>3 DEF AnswerInv

LEMMA AnswerInvariant == Spec => []AnswerInv
<1>1. AnswerInv /\ [Next]_vars => AnswerInv'
  <2> SUFFICES ASSUME AnswerInv, [Next]_vars
               PROVE  AnswerInv'
    OBVIOUS
  <2>1. CASE OtherTurnMeasured
    BY <2>1, OtherStep
  <2>2. ASSUME NEW t \in TurnIds, TurnNext(t)
        PROVE  AnswerInv'
    <3>0. TurnsInv
      BY DEF AnswerInv
    <3>1. CASE ToolRound(t) \/ AnswerComes(t) \/ NoAnswer(t) \/ TurnErrors(t)
      <4>1. PICK r \in TurnRecord : /\ Sound(r, processor) /\ Step(t, "asking", r)
                                    /\ r.at \notin {"reporting", "replied"}
        BY <3>0, <3>1, RoundStep
      <4> QED
        BY <4>1, StepKeeps DEF Step
    <3>2. CASE StructurizeFails(t) \/ StructurizeOk(t)
      <4>1. PICK r \in TurnRecord : /\ Sound(r, processor) /\ Step(t, "answered", r)
                                    /\ r.at \notin {"reporting", "replied"}
        BY <3>0, <3>2, StructurizeStep
      <4> QED
        BY <4>1, StepKeeps DEF Step
    <3>3. CASE \/ NoProcessor(t) \/ Bypass(t) \/ StartRewrite(t) \/ RewriteFails(t) \/ RewriteBlank(t)
               \/ \E kept \in SUBSET Items : RewriteOk(t, kept) \/ RewriteRejected(t, kept)
      BY <3>0, <3>3, StyleStep, StepKeeps
    <3>4. CASE StoreTurn(t)
      <4>1. PICK r \in TurnRecord : /\ Sound(r, processor) /\ Step(t, "storing", r)
                                    /\ r.at \notin {"reporting", "replied"}
        BY <3>0, <3>4, EndStep
      <4> QED
        BY <4>1, StepKeeps DEF Step
    <3>5. CASE Measure(t) \/ Reply(t)
      BY <3>5, MeasureStep, ReplyStep
    <3> QED
      BY <2>2, <3>1, <3>2, <3>3, <3>4, <3>5 DEF TurnNext
  <2>3. CASE UNCHANGED vars
    <3>1. UNCHANGED <<processor, turn, pushed, store>>
      BY <2>3 DEF vars
    <3>2. RingInv'
      BY <3>1 DEF AnswerInv, RingInv, StoreInv, StoreTypeOK, store, Recent, Slot
    <3> QED
      BY <3>1, <3>2 DEF AnswerInv, TurnsInv, Measured
  <2> QED
    BY <2>1, <2>2, <2>3 DEF Next
<1> QED
  BY <1>1, AnswerInit, PTL DEF Spec

-----------------------------------------------------------------------------
(* Every variable keeps its type. *)
THEOREM AnswerTypeOK == Spec => []TypeOK
<1>1. AnswerInv => TypeOK
  BY DEF AnswerInv, TurnsInv, RingInv, StoreInv, TypeOK
<1> QED
  BY <1>1, AnswerInvariant, PTL

(* What goes out as styled was allowed to be, keeps its literals, and is   *)
(* plain where the risk is high.                                           *)
THEOREM AnswerStyledIsChecked == Spec => []StyledIsChecked
<1>1. AnswerInv => StyledIsChecked
  BY DEF AnswerInv, TurnsInv, StyledIsChecked, Replied, Sound, Styling, Allowed, MayRewrite, Ended
<1> QED
  BY <1>1, AnswerInvariant, PTL

(* An output is empty only after an error or without an answer, and an     *)
(* error stores nothing.                                                   *)
THEOREM AnswerEmptyOutputMeansNoAnswer == Spec => []EmptyOutputMeansNoAnswer
<1>1. AnswerInv => EmptyOutputMeansNoAnswer
  BY DEF AnswerInv, TurnsInv, EmptyOutputMeansNoAnswer, Replied, Sound, Ending, Ended
<1> QED
  BY <1>1, AnswerInvariant, PTL

(* What the history keeps is what was streamed last. *)
THEOREM AnswerRememberedIsStreamed == Spec => []RememberedIsStreamed
<1>1. AnswerInv => RememberedIsStreamed
  <2> SUFFICES ASSUME AnswerInv, NEW t \in TurnIds
               PROVE  /\ turn[t].remembered \subseteq {"", "raw"}
                      /\ "raw" \in turn[t].remembered =>
                           \E n \in 1..Len(turn[t].streamed) :
                             n = Len(turn[t].streamed) /\ turn[t].streamed[n] = "raw"
    BY DEF RememberedIsStreamed
  <2>1. turn[t] \in TurnRecord /\ NotStyledYet(turn[t]) /\ Ending(turn[t])
    BY DEF AnswerInv, TurnsInv, Sound
  <2>2. turn[t].remembered = {} \/ turn[t].at \in Ended
    BY <2>1 DEF TurnRecord, NotStyledYet, Ended
  <2>3. turn[t].remembered \subseteq {turn[t].raw} /\ turn[t].raw \in {"", "raw"}
    BY <2>1, <2>2 DEF Ending, TurnRecord
  <2>4. ASSUME "raw" \in turn[t].remembered
        PROVE  \E n \in 1..Len(turn[t].streamed) :
                 n = Len(turn[t].streamed) /\ turn[t].streamed[n] = "raw"
    <3>1. turn[t].streamed \in Seq({"aside", "part", "raw"})
      BY <2>1 DEF TurnRecord
    <3>2. turn[t].streamed # <<>> /\ turn[t].streamed[Len(turn[t].streamed)] = "raw"
      BY <2>1, <2>3, <2>4 DEF Ending
    <3>3. Len(turn[t].streamed) \in 1..Len(turn[t].streamed)
      BY <3>1, <3>2
    <3> QED
      BY <3>2, <3>3
  <2> QED
    BY <2>3, <2>4
<1> QED
  BY <1>1, AnswerInvariant, PTL

(* The metrics tell what became of the style layer. *)
THEOREM AnswerMetricsExplainStyle == Spec => []MetricsExplainStyle
<1>1. AnswerInv => MetricsExplainStyle
  <2> SUFFICES ASSUME AnswerInv, NEW t \in Replied, NEW n \in 1..Len(pushed), pushed[n].turn = t
               PROVE  turn[t].applied <=> pushed[n].rewrite /\ pushed[n].fallback = ""
    BY DEF MetricsExplainStyle
  <2>1. pushed[n].rewrite = turn[t].rewrite /\ pushed[n].fallback = turn[t].fallback
    BY DEF AnswerInv, Measured, Replied
  <2>2. turn[t].applied <=> turn[t].rewrite /\ turn[t].fallback = ""
    BY DEF AnswerInv, TurnsInv, Replied, Sound, Styling, Ended
  <2> QED
    BY <2>1, <2>2
<1> QED
  BY <1>1, AnswerInvariant, PTL

(* A turn that has been answered is in the metrics, and is listed until as *)
(* many others have followed as the ring holds.                            *)
THEOREM AnswerAnsweredIsMeasured == Spec => []AnsweredIsMeasured
<1>1. AnswerInv => AnsweredIsMeasured
  <2> SUFFICES ASSUME AnswerInv, NEW t \in Replied
               PROVE  \E n \in 1..Len(pushed) :
                        /\ pushed[n].turn = t
                        /\ n > Len(pushed) - RingSize =>
                             Recent(0)[Len(pushed) - n + 1] = pushed[n]
    BY DEF AnsweredIsMeasured
  <2>1. PICK n \in 1..Len(pushed) : pushed[n].turn = t
    BY DEF AnswerInv, Measured, Replied
  <2>2. /\ RingSize \in Nat \ {0} /\ Len(pushed) \in Nat
        /\ count = IF Len(pushed) < RingSize THEN Len(pushed) ELSE RingSize
    BY RingSizeAssumption DEF AnswerInv, RingInv
  <2>3. ASSUME n > Len(pushed) - RingSize
        PROVE  Recent(0)[Len(pushed) - n + 1] = pushed[n]
    <3>1. /\ Len(pushed) - n + 1 \in 1..count
          /\ Len(pushed) - (Len(pushed) - n + 1) + 1 = n
      BY <2>2, <2>3
    <3>2. \A i \in 1..count : Recent(0)[i] = pushed[Len(pushed) - i + 1]
      BY DEF AnswerInv, RingInv
    <3> QED
      BY <3>1, <3>2
  <2> QED
    BY <2>1, <2>3
<1> QED
  BY <1>1, AnswerInvariant, PTL

(* The ring of a process that answers turns is a list of the last turns. *)
THEOREM AnswerIsTheLastTurns == Spec => IsTheLastTurns
<1>1. Init => StoreInit
  BY DEF Init
<1>2. AnswerInv /\ [Next]_vars => [StoreNext]_store
  <2> SUFFICES ASSUME AnswerInv, Next, store' # store
               PROVE  StoreNext
    BY DEF vars
  <2>1. CASE OtherTurnMeasured
    BY <2>1, MeasuresAssumption DEF OtherTurnMeasured, StoreNext
  <2>2. ASSUME NEW t \in TurnIds, TurnNext(t)
        PROVE  StoreNext
    <3>1. Measure(t)
      BY <2>2 DEF TurnNext, ToolRound, AnswerComes, NoAnswer, TurnErrors, NoProcessor, StructurizeFails,
         StructurizeOk, Structured, Bypass, StartRewrite, RewriteFails, RewriteBlank, RewriteOk,
         RewriteRejected, Fallback, StoreTurn, Reply, Step
    <3> QED
      BY <3>1, MeasureType DEF AnswerInv, Measure, StoreNext
  <2> QED
    BY <2>1, <2>2 DEF Next
<1>3. Spec => StoreSpec
  BY <1>1, <1>2, AnswerInvariant, PTL DEF Spec, StoreSpec
<1> QED
  BY <1>3, RingIsTheLastTurns
=============================================================================
