--------------------------- MODULE ModelCallProofs ---------------------------
(***************************************************************************)
(* One call of a model, for any number of attempts, any reply and any      *)
(* number of tool calls in it: what is tried again, and that a reply       *)
(* reaches the engine once, whole and in order.                            *)
(***************************************************************************)
EXTENDS ModelCall, SequenceTheorems, TLAPS

(* Control: where the call is, and whether its stream is open.             *)
Control ==
  /\ TypeOK
  /\ at \in {"attempting", "waiting"} => producer = "off"
  /\ at = "receiving" => producer # "off"
  /\ at = "waiting" => attempt < MaxAttempts - 1

LEMMA ControlInit == Init => Control
<1> SUFFICES ASSUME Init
             PROVE  Control
  OBVIOUS
<1>1. cancelled \in BOOLEAN /\ indexed \in BOOLEAN /\ streaming \in BOOLEAN
  BY DEF Init
<1>2. causes \in Seq(Causes) /\ Len(causes) = 0
  BY DEF Init
<1>3. attempt = 0 /\ 0 \in 0..(MaxAttempts - 1)
  BY MaxAttemptsAssumption DEF Init
<1>4. client \in {"openai", "compat"} /\ at = "attempting" /\ producer = "off"
  BY DEF Init
<1> QED
  BY <1>1, <1>2, <1>3, <1>4 DEF Control, TypeOK

LEMMA FailControl ==
  ASSUME Control, NEW err, NEW cause \in Causes, Fail(err, cause)
  PROVE  Control'
<1>1. /\ attempt \in 0..(MaxAttempts - 1) /\ MaxAttempts \in Nat \ {0}
      /\ Len(causes) = attempt /\ causes \in Seq(Causes) /\ producer = "off"
  BY MaxAttemptsAssumption DEF Control, TypeOK, Fail
<1>2. /\ at' \in {"waiting", "failed"}
      /\ at' = "waiting" => attempt < MaxAttempts - 1
      /\ UNCHANGED <<client, streaming, attempt, cancelled, indexed, producer>>
  BY DEF Fail, call, reply
<1>3. causes' \in Seq(Causes) /\ Len(causes') = attempt + 1
  BY <1>1 DEF Fail
<1> QED
  BY <1>1, <1>2, <1>3 DEF Control, TypeOK

(* What makes an attempt fail, and whether it is tried again. *)
FailsBecause(err, cause) ==
  \/ err = NetworkError /\ cause = "network"
  \/ err = ContextError /\ cause = "cancelled" /\ cancelled
  \/ err = PlainError /\ cause = "body"
  \/ \E readable \in BOOLEAN : cause \in Statuses /\ err = StatusError(cause, readable)

Fails ==
  \/ ConnectionFails \/ AttemptAborted \/ StatusNotOK \/ BodyUnusable

LEMMA FailsIsFail ==
  ASSUME Fails
  PROVE  \E err, cause : cause \in Causes /\ Fail(err, cause) /\ FailsBecause(err, cause)
<1>1. CASE ConnectionFails
  BY <1>1 DEF ConnectionFails, FailsBecause, Causes
<1>2. CASE AttemptAborted
  BY <1>2 DEF AttemptAborted, FailsBecause, Causes
<1>3. CASE StatusNotOK
  BY <1>3 DEF StatusNotOK, FailsBecause, Causes
<1>4. CASE BodyUnusable
  BY <1>4 DEF BodyUnusable, FailsBecause, Causes
<1> QED
  BY <1>1, <1>2, <1>3, <1>4 DEF Fails

(* Steps of the open stream. *)
Streams ==
  \/ ReadEvent \/ EventUnusable \/ ReadAborted \/ StreamEnds
  \/ ReceiveChunk \/ ReceiveError \/ ReceiveEnd

LEMMA NextCases ==
  ASSUME [Next]_vars
  PROVE  \/ Fails \/ Streams \/ StreamOpens
         \/ Cancel \/ ResponseDecoded \/ DelayOver \/ DelayCancelled \/ UNCHANGED vars
BY DEF Next, Local, Provider, Fails, Streams

LEMMA ControlInvariant == Spec => []Control
<1>1. ASSUME Control, [Next]_vars
      PROVE  Control'
  <2>1. MaxAttempts \in Nat \ {0}
    BY MaxAttemptsAssumption
  <2>2. CASE Fails
    BY <1>1, <2>2, FailsIsFail, FailControl
  <2>3. CASE Streams
    <3>1. /\ UNCHANGED <<client, streaming, attempt, causes, cancelled, indexed>>
          /\ at' \in {at, "failed", "returned"} /\ at \in {"receiving", "returned", "failed"}
          /\ producer' \in {producer, "exited"} /\ producer # "off"
      BY <1>1, <2>3 DEF Control, TypeOK, Streams, ReadEvent, EventUnusable, ReadFails,
         ReadAborted, StreamEnds, ReceiveChunk, ReceiveError, ReceiveEnd, call, reply
    <3> QED
      BY <1>1, <3>1 DEF Control, TypeOK
  <2>4. CASE StreamOpens
    BY <1>1, <2>4 DEF Control, TypeOK, StreamOpens, call
  <2>5. CASE DelayOver
    BY <1>1, <2>1, <2>5 DEF Control, TypeOK, DelayOver, call, reply
  <2>6. CASE Cancel \/ ResponseDecoded \/ DelayCancelled \/ UNCHANGED vars
    BY <1>1, <2>6 DEF Control, TypeOK, Cancel, ResponseDecoded, DelayCancelled, call, reply, vars
  <2> QED
    BY <1>1, <2>2, <2>3, <2>4, <2>5, <2>6, NextCases
<1> QED
  BY <1>1, ControlInit, PTL DEF Spec

(* The number of attempts is bounded, and one cause is on record for each  *)
(* attempt that failed, whatever the provider answers.                     *)
THEOREM CallTypeOK == Spec => []TypeOK
<1>1. Control => TypeOK
  BY DEF Control
<1> QED
  BY <1>1, ControlInvariant, PTL

-----------------------------------------------------------------------------
(* What withRetry knows when it waits: the last error may pass. *)
RetryInv ==
  /\ RepeatedOnlyWhileTransient
  /\ at = "waiting" => causes[attempt + 1] \in Transient

LEMMA RetryableIsTransient ==
  ASSUME NEW err, NEW cause, FailsBecause(err, cause)
  PROVE  /\ IsRetryable(err) => cause \in Transient
         /\ cause = "network" => IsRetryable(err)
<1>1. /\ ~IsRetryable(ContextError) /\ ~IsRetryable(PlainError) /\ IsRetryable(NetworkError)
  BY DEF IsRetryable, ContextError, PlainError, NetworkError, Err
<1>2. Statuses = {"refused", "limited", "unavailable"}
  BY DEF Statuses, CodeOf
<1>3. ~IsRetryable(Err(FALSE, FALSE, 400))
  BY DEF IsRetryable, Err
<1>4. CodeOf["refused"] = 400
  BY DEF CodeOf
<1>5. \A readable \in BOOLEAN : ~IsRetryable(StatusError("refused", readable))
  BY <1>1, <1>3, <1>4 DEF StatusError
<1> QED
  BY <1>1, <1>2, <1>5 DEF FailsBecause, Transient

LEMMA RetryInvariant == Spec => []RetryInv
<1>1. Init => RetryInv
  BY DEF Init, RetryInv, RepeatedOnlyWhileTransient
<1>2. ASSUME Control, RetryInv, [Next]_vars
      PROVE  RetryInv'
  <2>1. /\ MaxAttempts \in Nat \ {0} /\ attempt \in 0..(MaxAttempts - 1)
        /\ causes \in Seq(Causes)
        /\ Len(causes) = attempt + (IF at = "waiting" \/ (at = "failed" /\ producer = "off")
                                    THEN 1 ELSE 0)
    BY <1>2, MaxAttemptsAssumption DEF Control, TypeOK
  <2>2. CASE Fails
    <3>1. PICK err, cause : Fail(err, cause) /\ FailsBecause(err, cause)
      BY <2>2, FailsIsFail
    <3>2. /\ causes' = Append(causes, cause) /\ UNCHANGED <<attempt, cancelled, producer>>
          /\ at' = IF IsRetryable(err) /\ attempt < MaxAttempts - 1 THEN "waiting" ELSE "failed"
          /\ Len(causes) = attempt
      BY <1>2, <2>1, <3>1 DEF Fail, reply, Control
    <3>3. cause \in Causes
      BY <3>1 DEF FailsBecause, Causes
    <3>4. /\ Len(causes') = attempt + 1 /\ causes'[attempt + 1] = cause /\ Last(causes') = cause
          /\ \A n \in 1..attempt : causes'[n] = causes[n]
      BY <2>1, <3>2, <3>3 DEF Last
    <3> QED
      BY <1>2, <2>1, <3>1, <3>2, <3>4, RetryableIsTransient
         DEF RetryInv, RepeatedOnlyWhileTransient
  <2>3. CASE Streams
    <3>1. producer # "off" /\ producer' # "off" /\ at # "waiting" /\ at' # "waiting"
      BY <1>2, <2>3 DEF Control, Streams, ReadEvent, EventUnusable, ReadFails,
         ReadAborted, StreamEnds, ReceiveChunk, ReceiveError, ReceiveEnd, reply
    <3>2. UNCHANGED <<attempt, causes, cancelled>>
      BY <2>3 DEF Streams, ReadEvent, EventUnusable, ReadFails,
         ReadAborted, StreamEnds, ReceiveChunk, ReceiveError, ReceiveEnd
    <3> QED
      BY <1>2, <3>1, <3>2 DEF RetryInv, RepeatedOnlyWhileTransient
  <2>4. CASE StreamOpens \/ ResponseDecoded
    <3>1. at' \in {"receiving", "returned"} /\ UNCHANGED <<attempt, causes, cancelled>>
      BY <2>4 DEF StreamOpens, ResponseDecoded
    <3> QED
      BY <1>2, <3>1 DEF RetryInv, RepeatedOnlyWhileTransient
  <2>5. CASE DelayOver
    <3>1. /\ at = "waiting" /\ at' = "attempting" /\ attempt' = attempt + 1
          /\ causes' = causes
      BY <2>5 DEF DelayOver
    <3>2. \A n \in 1..(attempt + 1) : n \in 1..attempt \/ n = attempt + 1
      BY <2>1
    <3> QED
      BY <1>2, <3>1, <3>2 DEF RetryInv, RepeatedOnlyWhileTransient
  <2>6. CASE DelayCancelled
    BY <1>2, <2>6 DEF RetryInv, RepeatedOnlyWhileTransient, DelayCancelled, reply
  <2>7. CASE Cancel
    BY <1>2, <2>7 DEF RetryInv, RepeatedOnlyWhileTransient, Cancel, reply
  <2>8. CASE UNCHANGED vars
    BY <1>2, <2>8 DEF RetryInv, RepeatedOnlyWhileTransient, vars, reply
  <2> QED
    BY <1>2, <2>2, <2>3, <2>4, <2>5, <2>6, <2>7, <2>8, NextCases
<1> QED
  BY <1>1, <1>2, ControlInvariant, PTL DEF Spec

(* A request is repeated only after an error that may pass, and a network  *)
(* error ends an uncancelled call only at its last attempt: for every      *)
(* number of attempts and either client.                                   *)
THEOREM CallRepeatedOnlyWhileTransient == Spec => []RepeatedOnlyWhileTransient
<1>1. RetryInv => RepeatedOnlyWhileTransient
  BY DEF RetryInv
<1> QED
  BY <1>1, RetryInvariant, PTL

-----------------------------------------------------------------------------
(* The stream.  The channel holds the chunks of the events that have not   *)
(* arrived, in order, and perhaps the error after which nothing comes.     *)

Replies == [text : BOOLEAN, deltas : Seq(Indices)]

Chunks ==
  [kind : {"chunk", "error"}, text : Seq(Nat),
   delta : [index : Nat, opens : SUBSET Indices, at : Nat]]

(* The chunk of the n-th event, made when there were no later ones. *)
DeltaAt(events, ix, n) ==
  Delta(IF ix THEN Last(events[n].deltas) ELSE 0,
        IF Last(events[n].deltas) \in Opened(SubSeq(events, 1, n - 1))
        THEN {} ELSE {Last(events[n].deltas)},
        n)

IsChunkAt(chunk, events, ix, n) ==
  /\ chunk.text = IF events[n].text THEN <<n>> ELSE <<>>
  /\ chunk.delta = IF events[n].deltas = <<>> THEN NoDelta ELSE DeltaAt(events, ix, n)

StreamInv ==
  /\ sent \in Seq(Replies) /\ channel \in Seq(Chunks) /\ text \in Seq(Nat)
  /\ Arrived \in 0..Len(sent)
  /\ \A i \in 1..Len(channel) :
       IF channel[i].kind = "error" THEN i = Len(channel) /\ producer = "exited"
       ELSE Arrived + i =< Len(sent) /\ IsChunkAt(channel[i], sent, indexed, Arrived + i)
  /\ producer = "off" => sent = <<>> /\ channel = <<>> /\ text = <<>> /\ toolCallMap = <<>>

LEMMA ArrivedType ==
  ASSUME StreamInv
  PROVE  /\ Len(sent) \in Nat /\ Len(channel) \in Nat /\ Arrived \in Nat
         /\ Arrived = Len(sent) - Len(channel)
                       + (IF channel # <<>> /\ channel[Len(channel)].kind = "error" THEN 1 ELSE 0)
BY DEF StreamInv, Arrived, Last

LEMMA DeltasType == Deltas \subseteq Seq(Indices)
<1>1. \A c \in Indices : <<c>> \in Seq(Indices)
  OBVIOUS
<1>2. \A c, d \in Indices : <<c, d>> \in Seq(Indices)
  OBVIOUS
<1>3. \A pair \in Indices \X Indices :
        pair[1] \in Indices /\ pair[2] \in Indices /\ pair = <<pair[1], pair[2]>>
  OBVIOUS
<1>4. <<>> \in Seq(Indices)
  OBVIOUS
<1>5. ASSUME NEW deltas \in Deltas
      PROVE  \/ deltas = <<>> \/ \E c \in Indices : deltas = <<c>>
             \/ \E c, d \in Indices : deltas = <<c, d>>
  BY <1>3, <1>5 DEF Deltas
<1> QED
  BY <1>1, <1>2, <1>4, <1>5

LEMMA ChunkType ==
  ASSUME NEW event \in Replies, NEW n \in Nat
  PROVE  ChunkOf(event, n) \in Chunks
<1>1. NoDelta \in [index : Nat, opens : SUBSET Indices, at : Nat]
  BY DEF NoDelta, Delta
<1>2. ASSUME event.deltas # <<>>
      PROVE  Last(event.deltas) \in Indices
  BY <1>2 DEF Replies, Last
<1>3. \A c \in Indices, opens \in SUBSET Indices :
        Delta(IF indexed THEN c ELSE 0, opens, n) \in [index : Nat, opens : SUBSET Indices, at : Nat]
  BY IndicesAssumption DEF Delta
<1>4. (IF event.text THEN <<n>> ELSE <<>>) \in Seq(Nat)
  OBVIOUS
<1> QED
  BY <1>1, <1>2, <1>3, <1>4 DEF ChunkOf, Chunks

(* A further event does not change what the chunks before it are made of. *)
LEMMA EventsBefore ==
  ASSUME NEW events \in Seq(Replies), NEW event \in Replies, NEW ix,
         NEW n \in 1..Len(events), NEW chunk
  PROVE  IsChunkAt(chunk, Append(events, event), ix, n) <=> IsChunkAt(chunk, events, ix, n)
<1>1. Append(events, event)[n] = events[n]
  OBVIOUS
<1>2. SubSeq(Append(events, event), 1, n - 1) = SubSeq(events, 1, n - 1)
  OBVIOUS
<1> QED
  BY <1>1, <1>2 DEF IsChunkAt, DeltaAt

(* The chunk that ReadEvent makes. *)
LEMMA NewestChunk ==
  ASSUME sent \in Seq(Replies), NEW event \in Replies
  PROVE  IsChunkAt(ChunkOf(event, Len(sent) + 1), Append(sent, event), indexed, Len(sent) + 1)
<1> DEFINE events == Append(sent, event)
           n == Len(sent) + 1
<1>1. events[n] = event
  OBVIOUS
<1>2. SubSeq(events, 1, n - 1) = sent
  OBVIOUS
<1> HIDE DEF events, n
<1> QED
  BY <1>1, <1>2 DEF IsChunkAt, DeltaAt, ChunkOf, events, n

LEMMA ReadKeepsStream ==
  ASSUME StreamInv, ReadEvent
  PROVE  StreamInv' /\ Arrived' = Arrived
<1>1. PICK hasText \in BOOLEAN, deltas \in Deltas :
        /\ sent' = Append(sent, Event(hasText, deltas))
        /\ channel' = Append(channel, ChunkOf(Event(hasText, deltas), Len(sent) + 1))
  BY DEF ReadEvent
<1> DEFINE event == Event(hasText, deltas)
           chunk == ChunkOf(event, Len(sent) + 1)
<1>2. event \in Replies
  BY DeltasType DEF Event, Replies
<1>3. /\ producer = "reading" /\ producer' = "reading"
      /\ UNCHANGED <<indexed, text, toolCallMap>>
  BY DEF ReadEvent, message
<1>4. /\ Len(sent) \in Nat /\ Len(channel) \in Nat /\ Arrived \in Nat
      /\ Arrived = Len(sent) - Len(channel)
      /\ \A i \in 1..Len(channel) :
           channel[i].kind # "error" /\ IsChunkAt(channel[i], sent, indexed, Arrived + i)
  BY <1>3, ArrivedType DEF StreamInv
<1>5. sent \in Seq(Replies) /\ channel \in Seq(Chunks) /\ chunk \in Chunks
  BY <1>2, <1>4, ChunkType DEF StreamInv
<1>6. chunk.kind = "chunk" /\ IsChunkAt(chunk, sent', indexed, Len(sent) + 1)
  BY <1>1, <1>2, <1>5, NewestChunk DEF ChunkOf
<1>7. \A i \in 1..Len(channel) : IsChunkAt(channel[i], sent', indexed, Arrived + i)
  <2> TAKE i \in 1..Len(channel)
  <2>1. Arrived + i \in 1..Len(sent) /\ IsChunkAt(channel[i], sent, indexed, Arrived + i)
    BY <1>4
  <2> HIDE DEF event
  <2> QED
    BY <1>1, <1>2, <1>5, <2>1, EventsBefore DEF event
<1> HIDE DEF event, chunk
<1>8. /\ sent' \in Seq(Replies) /\ Len(sent') = Len(sent) + 1
      /\ channel' \in Seq(Chunks) /\ Len(channel') = Len(channel) + 1
      /\ channel'[Len(channel) + 1] = chunk
      /\ \A i \in 1..Len(channel) : channel'[i] = channel[i]
  BY <1>1, <1>2, <1>5 DEF event, chunk
<1>9. Arrived' = Arrived
  BY <1>4, <1>6, <1>8 DEF Arrived, Last
<1>10. ASSUME NEW i \in 1..Len(channel')
       PROVE  /\ channel'[i].kind # "error"
              /\ Arrived' + i =< Len(sent')
              /\ IsChunkAt(channel'[i], sent', indexed', Arrived' + i)
  <2>1. CASE i \in 1..Len(channel)
    BY <1>3, <1>4, <1>7, <1>8, <1>9, <2>1
  <2>2. CASE i = Len(channel) + 1
    BY <1>3, <1>4, <1>6, <1>8, <1>9, <2>2
  <2> QED
    BY <1>4, <1>8, <2>1, <2>2
<1>11. Arrived' \in 0..Len(sent')
  BY <1>4, <1>8, <1>9 
<1>12. text' \in Seq(Nat)
  BY <1>3 DEF StreamInv
<1> QED
  BY <1>3, <1>8, <1>9, <1>10, <1>11, <1>12 DEF StreamInv

LEMMA FailKeepsStream ==
  ASSUME StreamInv, ReadFails
  PROVE  StreamInv' /\ Arrived' = Arrived
<1>1. /\ producer = "reading" /\ producer' = "exited"
      /\ UNCHANGED <<indexed, sent, text, toolCallMap>>
      /\ channel' = Append(channel, ErrorChunk)
  BY DEF ReadFails, message
<1>2. /\ Len(sent) \in Nat /\ Len(channel) \in Nat /\ Arrived \in Nat
      /\ Arrived = Len(sent) - Len(channel)
      /\ \A i \in 1..Len(channel) :
           /\ channel[i].kind # "error" /\ Arrived + i =< Len(sent)
           /\ IsChunkAt(channel[i], sent, indexed, Arrived + i)
  BY <1>1, ArrivedType DEF StreamInv
<1>3. ErrorChunk \in Chunks /\ ErrorChunk.kind = "error"
  BY DEF ErrorChunk, Chunks, NoDelta, Delta
<1>4. /\ channel' \in Seq(Chunks) /\ Len(channel') = Len(channel) + 1
      /\ channel'[Len(channel) + 1] = ErrorChunk
      /\ \A i \in 1..Len(channel) : channel'[i] = channel[i]
  BY <1>1, <1>3 DEF StreamInv
<1>5. Arrived' = Arrived
  BY <1>1, <1>2, <1>3, <1>4 DEF Arrived, Last
<1>6. ASSUME NEW i \in 1..Len(channel')
      PROVE  IF channel'[i].kind = "error" THEN i = Len(channel') /\ producer' = "exited"
             ELSE /\ Arrived' + i =< Len(sent')
                  /\ IsChunkAt(channel'[i], sent', indexed', Arrived' + i)
  <2>1. CASE i \in 1..Len(channel)
    BY <1>1, <1>2, <1>4, <1>5, <2>1
  <2>2. CASE i = Len(channel) + 1
    BY <1>1, <1>3, <1>4, <2>2
  <2> QED
    BY <1>2, <1>4, <2>1, <2>2
<1> QED
  BY <1>1, <1>2, <1>4, <1>5, <1>6 DEF StreamInv

(* The engine takes the oldest chunk: the next event has arrived. *)
LEMMA ReceiveKeepsStream ==
  ASSUME StreamInv, ReceiveChunk
  PROVE  /\ StreamInv' /\ Arrived' = Arrived + 1 /\ Arrived + 1 \in 1..Len(sent)
         /\ IsChunkAt(Head(channel), sent, indexed, Arrived + 1)
<1>1. /\ channel # <<>> /\ Head(channel).kind = "chunk" /\ channel' = Tail(channel)
      /\ indexed' = indexed /\ sent' = sent /\ producer' = producer
      /\ text' = text \o Head(channel).text
  BY DEF ReceiveChunk
<1>2. /\ Len(sent) \in Nat /\ Len(channel) \in Nat /\ Len(channel) >= 1 /\ Arrived \in Nat
      /\ sent \in Seq(Replies) /\ channel \in Seq(Chunks) /\ text \in Seq(Nat)
  BY <1>1, ArrivedType DEF StreamInv
<1>3. Head(channel) = channel[1] /\ Head(channel) \in Chunks /\ 1 \in 1..Len(channel)
  BY <1>1, <1>2
<1>4. Arrived + 1 =< Len(sent) /\ IsChunkAt(Head(channel), sent, indexed, Arrived + 1)
  BY <1>1, <1>2, <1>3 DEF StreamInv
<1>5. /\ channel' \in Seq(Chunks) /\ Len(channel') = Len(channel) - 1
      /\ \A i \in 1..Len(channel') : channel'[i] = channel[i + 1]
  BY <1>1, <1>2
<1>6. Arrived' = Arrived + 1
  <2>1. CASE Len(channel) = 1
    <3>1. Last(channel).kind # "error"
      BY <1>1, <1>3, <2>1 DEF Last
    <3>2. Arrived = Len(sent) - 1
      BY <1>2, <2>1, <3>1 DEF Arrived
    <3>3. channel' = <<>> /\ Len(channel') = 0
      BY <1>5, <2>1
    <3>4. Arrived' = Len(sent') - Len(channel') + 0
      BY <3>3 DEF Arrived
    <3>5. Len(sent') = Len(sent) /\ Len(sent) \in Nat
      BY <1>1, <1>2
    <3> QED
      BY <3>2, <3>3, <3>4, <3>5
  <2>2. CASE Len(channel) # 1
    <3>1. channel' # <<>> /\ Last(channel') = Last(channel)
      BY <1>2, <1>5, <2>2 DEF Last
    <3> QED
      BY <1>1, <1>2, <1>5, <3>1 DEF Arrived
  <2> QED
    BY <2>1, <2>2
<1>7. ASSUME NEW i \in 1..Len(channel')
      PROVE  IF channel'[i].kind = "error" THEN i = Len(channel') /\ producer' = "exited"
             ELSE /\ Arrived' + i =< Len(sent')
                  /\ IsChunkAt(channel'[i], sent', indexed', Arrived' + i)
  <2>1. i + 1 \in 1..Len(channel) /\ channel'[i] = channel[i + 1]
    BY <1>2, <1>5
  <2>2. IF channel[i + 1].kind = "error" THEN i + 1 = Len(channel) /\ producer = "exited"
        ELSE /\ Arrived + (i + 1) =< Len(sent)
             /\ IsChunkAt(channel[i + 1], sent, indexed, Arrived + (i + 1))
    BY <2>1 DEF StreamInv
  <2>3. Arrived' + i = Arrived + (i + 1)
    BY <1>2, <1>6
  <2>4. CASE channel[i + 1].kind = "error"
    <3>1. Len(channel) \in Nat /\ Len(channel') = Len(channel) - 1 /\ i \in Nat
      BY <1>2, <1>5
    <3>2. i + 1 = Len(channel) /\ producer = "exited"
      BY <2>2, <2>4
    <3>3. i = Len(channel')
      BY <3>1, <3>2
    <3> QED
      BY <1>1, <2>1, <2>4, <3>2, <3>3
  <2>5. CASE channel[i + 1].kind # "error"
    <3>1. IsChunkAt(channel'[i], sent', indexed', Arrived' + i)
      BY <1>1, <2>1, <2>2, <2>3, <2>5
    <3> QED
      BY <1>1, <2>1, <2>2, <2>3, <2>5, <3>1
  <2> QED
    BY <2>4, <2>5
<1>8. producer' # "off"
  BY <1>1 DEF StreamInv
<1>9. text' \in Seq(Nat)
  BY <1>1, <1>2, <1>3 DEF Chunks
<1>10. sent' \in Seq(Replies) /\ Arrived' \in 0..Len(sent')
  BY <1>1, <1>2, <1>4, <1>6
<1>11. StreamInv'
  BY <1>5, <1>7, <1>8, <1>9, <1>10 DEF StreamInv
<1> QED
  BY <1>2, <1>4, <1>6, <1>11

LEMMA ErrorKeepsStream ==
  ASSUME StreamInv, ReceiveError
  PROVE  StreamInv' /\ Arrived' = Arrived
<1>1. /\ channel # <<>> /\ Head(channel).kind = "error" /\ channel' = Tail(channel)
      /\ indexed' = indexed /\ sent' = sent /\ producer' = producer
      /\ text' = text /\ toolCallMap' = toolCallMap
  BY DEF ReceiveError, message
<1>2. /\ channel \in Seq(Chunks) /\ Len(channel) \in Nat /\ 1 \in 1..Len(channel)
      /\ Head(channel) = channel[1] /\ Len(sent) \in Nat
  BY <1>1 DEF StreamInv
<1>3. Len(channel) = 1
  BY <1>1, <1>2 DEF StreamInv
<1>4. channel' = <<>> /\ Len(channel') = 0 /\ channel' \in Seq(Chunks)
  BY <1>1, <1>2, <1>3
<1>5. Arrived = Len(sent)
  BY <1>1, <1>2, <1>3 DEF Arrived, Last
<1>6. Arrived' = Len(sent)
  <2>1. Arrived' = Len(sent') - Len(channel') + 0
    BY <1>4 DEF Arrived
  <2>2. Len(sent') = Len(sent) /\ Len(sent) \in Nat /\ Len(channel') = 0
    BY <1>1, <1>2, <1>4
  <2> QED
    BY <2>1, <2>2
<1>7. \A i \in 1..Len(channel') : FALSE
  BY <1>4
<1>8. sent' \in Seq(Replies) /\ text' \in Seq(Nat) /\ Arrived' \in 0..Len(sent')
  BY <1>1, <1>2, <1>6 DEF StreamInv
<1>9. producer' # "off"
  BY <1>1 DEF StreamInv
<1>10. StreamInv'
  BY <1>4, <1>7, <1>8, <1>9 DEF StreamInv
<1> QED
  BY <1>5, <1>6, <1>10

LEMMA QuietStream ==
  ASSUME StreamInv, UNCHANGED <<indexed, sent, channel, text, toolCallMap>>,
         producer' = producer \/ (producer = "reading" /\ producer' = "exited")
  PROVE  StreamInv' /\ Arrived' = Arrived
<1>1. Arrived' = Arrived
  BY DEF Arrived
<1> QED
  BY <1>1 DEF StreamInv

LEMMA OpenedStream ==
  ASSUME StreamInv, producer = "off", StreamOpens
  PROVE  StreamInv' /\ Arrived' = Arrived /\ sent = <<>> /\ sent' = <<>> /\ Arrived = 0
<1>1. /\ sent = <<>> /\ channel = <<>> /\ sent' = <<>> /\ channel' = <<>> /\ producer' = "reading"
      /\ UNCHANGED <<text, toolCallMap>>
  BY DEF StreamInv, StreamOpens, message
<1>2. Arrived = 0 /\ Arrived' = 0
  BY <1>1 DEF Arrived
<1> QED
  BY <1>1, <1>2 DEF StreamInv

(* The steps that leave the stream's variables alone but for its end. *)
Quiet ==
  /\ UNCHANGED <<indexed, sent, channel, text, toolCallMap>>
  /\ producer' = producer \/ (producer = "reading" /\ producer' = "exited")

LEMMA StreamCases ==
  ASSUME Control, [Next]_vars
  PROVE  \/ ReadEvent \/ ReadFails \/ ReceiveChunk \/ ReceiveError
         \/ (producer = "off" /\ StreamOpens) \/ Quiet
<1>1. CASE Fails
  BY <1>1, FailsIsFail DEF Fail, Quiet, reply, message
<1>2. CASE Streams
  BY <1>2 DEF Streams, EventUnusable, ReadAborted, StreamEnds, ReceiveEnd, Quiet, reply, message
<1>3. CASE StreamOpens
  BY <1>3 DEF Control, StreamOpens
<1>4. CASE Cancel \/ ResponseDecoded \/ DelayOver \/ DelayCancelled \/ UNCHANGED vars
  BY <1>4 DEF Cancel, ResponseDecoded, DelayOver, DelayCancelled, Quiet, vars, reply, message
<1> QED
  BY <1>1, <1>2, <1>3, <1>4, NextCases

LEMMA StreamInit == Init => StreamInv
<1> SUFFICES ASSUME Init
             PROVE  StreamInv
  OBVIOUS
<1>1. sent = <<>> /\ channel = <<>> /\ text = <<>> /\ toolCallMap = <<>>
  BY DEF Init
<1>2. Arrived = 0
  BY <1>1 DEF Arrived
<1> QED
  BY <1>1, <1>2 DEF StreamInv

LEMMA StreamInvariant == Spec => []StreamInv
<1>1. Control /\ StreamInv /\ [Next]_vars => StreamInv'
  BY StreamCases, ReadKeepsStream, FailKeepsStream, ReceiveKeepsStream, ErrorKeepsStream,
     OpenedStream, QuietStream DEF Quiet
<1> QED
  BY <1>1, StreamInit, ControlInvariant, PTL DEF Spec

-----------------------------------------------------------------------------
(* What has arrived. *)

LEMMA EnumeratesAppend ==
  ASSUME NEW q \in Seq(Nat), NEW numbers, NEW n \in Nat, Enumerates(q, numbers),
         \A m \in numbers : m < n
  PROVE  Enumerates(Append(q, n), numbers \union {n})
<1> DEFINE p == Append(q, n)
<1>1. /\ Len(p) = Len(q) + 1 /\ p[Len(q) + 1] = n /\ DOMAIN p = 1..(Len(q) + 1)
      /\ \A i \in 1..Len(q) : p[i] = q[i]
  OBVIOUS
<1>2. /\ Len(q) \in Nat /\ DOMAIN q = 1..Len(q)
      /\ \A i \in 1..Len(q) : q[i] \in numbers /\ q[i] \in Nat
      /\ \A m \in numbers : \E i \in 1..Len(q) : q[i] = m
  BY DEF Enumerates, Range
<1> HIDE DEF p
<1>3. ASSUME NEW i \in 1..Len(p), NEW j \in 1..Len(p), i < j
      PROVE  p[i] < p[j]
  <2>1. i \in 1..Len(q) /\ p[i] = q[i]
    BY <1>1, <1>2, <1>3
  <2>2. CASE j \in 1..Len(q)
    BY <1>1, <1>3, <2>1, <2>2 DEF Enumerates
  <2>3. CASE j = Len(q) + 1
    BY <1>1, <1>2, <2>1, <2>3
  <2> QED
    BY <1>1, <1>2, <2>2, <2>3
<1>4. Range(p) = numbers \union {n}
  <2>1. ASSUME NEW m \in Range(p)
        PROVE  m \in numbers \union {n}
    <3>1. PICK i \in 1..(Len(q) + 1) : m = p[i]
      BY <1>1 DEF Range
    <3> QED
      BY <1>1, <1>2, <3>1
  <2>2. ASSUME NEW m \in numbers
        PROVE  m \in Range(p)
    <3>1. PICK i \in 1..Len(q) : q[i] = m
      BY <1>2
    <3>2. i \in DOMAIN p /\ p[i] = m
      BY <1>1, <1>2, <3>1
    <3> QED
      BY <3>2 DEF Range
  <2>3. n \in Range(p)
    <3>1. Len(q) + 1 \in DOMAIN p
      BY <1>1, <1>2
    <3> QED
      BY <1>1, <3>1 DEF Range
  <2> QED
    BY <2>1, <2>2, <2>3
<1> QED
  BY <1>3, <1>4 DEF Enumerates, p

(* The steps at which nothing arrives: what has arrived stays as it is. *)
Waits ==
  \/ ReadEvent \/ ReadFails \/ ReceiveError
  \/ (producer = "off" /\ StreamOpens) \/ Quiet

LEMMA WaitsKeep ==
  ASSUME StreamInv, Waits
  PROVE  /\ Arrived' = Arrived /\ text' = text /\ toolCallMap' = toolCallMap
         /\ \A n \in 1..Arrived : sent'[n] = sent[n]
         /\ SubSeq(sent', 1, Arrived) = SubSeq(sent, 1, Arrived)
         /\ OneDeltaPerEvent' => OneDeltaPerEvent \/ (Arrived = 0 /\ toolCallMap = <<>>)
<1>1. CASE ReadEvent
  <2>1. PICK event \in Replies : sent' = Append(sent, event)
    BY <1>1, DeltasType DEF ReadEvent, Event, Replies
  <2>2. sent \in Seq(Replies) /\ Len(sent) \in Nat /\ Arrived \in 0..Len(sent)
    BY ArrivedType DEF StreamInv
  <2>3. Len(sent') = Len(sent) + 1 /\ \A n \in 1..Len(sent) : sent'[n] = sent[n]
    BY <2>1, <2>2
  <2>4. SubSeq(sent', 1, Arrived) = SubSeq(sent, 1, Arrived)
    BY <2>1, <2>2
  <2>5. OneDeltaPerEvent' => OneDeltaPerEvent
    BY <1>1, <2>2, <2>3 DEF OneDeltaPerEvent, ReadEvent
  <2>6. text' = text /\ toolCallMap' = toolCallMap
    BY <1>1 DEF ReadEvent, message
  <2>7. Arrived' = Arrived
    BY <1>1, ReadKeepsStream
  <2>8. \A n \in 1..Arrived : sent'[n] = sent[n]
    BY <2>2, <2>3
  <2> QED
    BY <2>4, <2>5, <2>6, <2>7, <2>8
<1>2. CASE ReadFails \/ ReceiveError \/ Quiet
  <2>1. UNCHANGED <<indexed, sent, text, toolCallMap>>
    BY <1>2 DEF ReadFails, ReceiveError, Quiet, message
  <2>2. Arrived' = Arrived
    BY <1>2, FailKeepsStream, ErrorKeepsStream, QuietStream DEF Quiet
  <2> QED
    BY <2>1, <2>2 DEF OneDeltaPerEvent
<1>3. CASE producer = "off" /\ StreamOpens
  <2>1. sent' = sent /\ Arrived' = Arrived /\ Arrived = 0 /\ toolCallMap = <<>>
    BY <1>3, OpenedStream DEF StreamInv
  <2>2. text' = text /\ toolCallMap' = toolCallMap
    BY <1>3 DEF StreamOpens, message
  <2> QED
    BY <2>1, <2>2
<1> QED
  BY <1>1, <1>2, <1>3 DEF Waits

LEMMA WaitsOrReceives ==
  ASSUME Control, [Next]_vars
  PROVE  Waits \/ ReceiveChunk
BY StreamCases DEF Waits

LEMMA TextStep ==
  ASSUME StreamInv, TextIsShownOnce, Waits \/ ReceiveChunk
  PROVE  TextIsShownOnce'
<1>1. CASE Waits
  <2>1. Arrived' = Arrived /\ text' = text /\ \A n \in 1..Arrived : sent'[n] = sent[n]
    BY <1>1, WaitsKeep
  <2>2. {n \in 1..Arrived' : sent'[n].text} = {n \in 1..Arrived : sent[n].text}
    BY <2>1
  <2> QED
    BY <2>1, <2>2 DEF TextIsShownOnce
<1>2. CASE ReceiveChunk
  <2> DEFINE n == Arrived + 1
             shown == {k \in 1..Arrived : sent[k].text}
  <2>1. /\ Arrived' = n /\ n \in 1..Len(sent) /\ IsChunkAt(Head(channel), sent, indexed, n)
        /\ Arrived \in Nat /\ text \in Seq(Nat)
    BY <1>2, ReceiveKeepsStream, ArrivedType DEF StreamInv
  <2>2. sent' = sent /\ text' = text \o Head(channel).text
    BY <1>2 DEF ReceiveChunk
  <2>3. TextIsShownOnce' = Enumerates(text', {k \in 1..n : sent[k].text})
    BY <2>1, <2>2 DEF TextIsShownOnce
  <2>4. CASE sent[n].text
    <3>1. text' = Append(text, n)
      <4>1. text' = text \o <<n>>
        BY <2>1, <2>2, <2>4 DEF IsChunkAt
      <4> HIDE DEF n
      <4> QED
        BY <2>1, <4>1, AppendIsConcat
    <3>2. {k \in 1..n : sent[k].text} = shown \union {n}
      BY <2>1, <2>4
    <3>3. Enumerates(text, shown) /\ n \in Nat /\ \A m \in shown : m < n
      BY <2>1 DEF TextIsShownOnce
    <3> HIDE DEF n, shown
    <3> QED
      BY <2>1, <2>3, <3>1, <3>2, <3>3, EnumeratesAppend
  <2>5. CASE ~sent[n].text
    <3>1. text' = text
      BY <2>1, <2>2, <2>5 DEF IsChunkAt
    <3>2. {k \in 1..n : sent[k].text} = shown
      BY <2>1, <2>5
    <3> QED
      BY <2>3, <3>1, <3>2 DEF TextIsShownOnce
  <2> QED
    BY <2>4, <2>5
<1> QED
  BY <1>1, <1>2

(* The text shown to the client is what has arrived of one reply, in       *)
(* order, nothing twice and nothing left out, for replies of any length    *)
(* and any number of attempts.                                             *)
THEOREM CallTextIsShownOnce == Spec => []TextIsShownOnce
<1>1. Init => TextIsShownOnce
  <2> SUFFICES ASSUME Init
               PROVE  TextIsShownOnce
    OBVIOUS
  <2>1. text = <<>> /\ Arrived = 0
    BY DEF Init, Arrived
  <2> QED
    BY <2>1 DEF TextIsShownOnce, Enumerates, Range
<1>2. Control /\ StreamInv /\ TextIsShownOnce /\ [Next]_vars => TextIsShownOnce'
  BY WaitsOrReceives, TextStep
<1> QED
  BY <1>1, <1>2, ControlInvariant, StreamInvariant, PTL DEF Spec

-----------------------------------------------------------------------------
(* The tool calls. *)

CallsInv ==
  /\ CallsAreAssembled
  /\ OneDeltaPerEvent => \A c \in DOMAIN toolCallMap : toolCallMap[c].args \in Seq(Nat)

FragmentsOf(c, n) == {k \in 1..n : sent[k].deltas = <<c>>}

LEMMA OpenedIff ==
  ASSUME sent \in Seq(Replies), NEW n \in 0..Len(sent), NEW c
  PROVE  c \in Opened(SubSeq(sent, 1, n)) <=> \E k \in 1..n : c \in Range(sent[k].deltas)
<1>1. Len(SubSeq(sent, 1, n)) = n /\ \A k \in 1..n : SubSeq(sent, 1, n)[k] = sent[k]
  OBVIOUS
<1> QED
  BY <1>1 DEF Opened

LEMMA RangeOfOne ==
  ASSUME NEW c
  PROVE  Range(<<c>>) = {c} /\ Range(<<>>) = {}
<1>1. DOMAIN <<c>> = {1} /\ <<c>>[1] = c
  OBVIOUS
<1> QED
  BY <1>1 DEF Range

LEMMA AtMostOne ==
  ASSUME NEW q \in Seq(Indices), q # <<>>, Len(q) =< 1
  PROVE  \E c : q = <<c>>
<1>1. Len(q) = 1
  <2>1. Len(q) # 0
    BY EmptySeq
  <2>2. \A n \in Nat : n # 0 /\ n =< 1 => n = 1
    OBVIOUS
  <2>3. Len(q) \in Nat
    OBVIOUS
  <2> QED
    BY <2>1, <2>2, <2>3
<1>2. q = <<q[1]>>
  BY <1>1
<1> QED
  BY <1>2

(* An event without deltas brings nothing. *)
LEMMA NoDeltaStep ==
  ASSUME StreamInv, NEW n \in 1..Len(sent), sent[n].deltas = <<>>
  PROVE  /\ Opened(SubSeq(sent, 1, n)) = Opened(SubSeq(sent, 1, n - 1))
         /\ \A c : FragmentsOf(c, n) = FragmentsOf(c, n - 1)
<1>1. Len(sent) \in Nat /\ sent \in Seq(Replies) /\ n - 1 \in 0..Len(sent) /\ n \in 0..Len(sent)
  BY ArrivedType DEF StreamInv
<1>2. Range(sent[n].deltas) = {}
  BY RangeOfOne
<1>3. \A k \in 1..n : k \in 1..(n - 1) \/ k = n
  BY <1>1
<1>4. \A k \in 1..(n - 1) : k \in 1..n
  BY <1>1
<1>5. ASSUME NEW c
      PROVE  c \in Opened(SubSeq(sent, 1, n)) <=> c \in Opened(SubSeq(sent, 1, n - 1))
  <2>1. c \in Opened(SubSeq(sent, 1, n)) <=> \E k \in 1..n : c \in Range(sent[k].deltas)
    BY <1>1, OpenedIff
  <2>2. c \in Opened(SubSeq(sent, 1, n - 1)) <=> \E k \in 1..(n - 1) : c \in Range(sent[k].deltas)
    BY <1>1, OpenedIff
  <2> QED
    BY <1>2, <1>3, <1>4, <2>1, <2>2
<1>6. ASSUME NEW c
      PROVE  FragmentsOf(c, n) = FragmentsOf(c, n - 1)
  <2>1. sent[n].deltas # <<c>>
    OBVIOUS
  <2> QED
    BY <1>3, <1>4, <2>1 DEF FragmentsOf
<1> QED
  BY <1>5, <1>6

(* An event with a delta of call c brings a fragment of c. *)
LEMMA DeltaStep ==
  ASSUME StreamInv, NEW n \in 1..Len(sent), NEW c, sent[n].deltas = <<c>>
  PROVE  /\ Opened(SubSeq(sent, 1, n)) = Opened(SubSeq(sent, 1, n - 1)) \union {c}
         /\ FragmentsOf(c, n) = FragmentsOf(c, n - 1) \union {n}
         /\ \A d : d # c => FragmentsOf(d, n) = FragmentsOf(d, n - 1)
<1>1. Len(sent) \in Nat /\ sent \in Seq(Replies) /\ n - 1 \in 0..Len(sent) /\ n \in 0..Len(sent)
  BY ArrivedType DEF StreamInv
<1>2. Range(sent[n].deltas) = {c}
  BY RangeOfOne
<1>3. \A k \in 1..n : k \in 1..(n - 1) \/ k = n
  BY <1>1
<1>4. \A k \in 1..(n - 1) : k \in 1..n
  BY <1>1
<1>5. ASSUME NEW d
      PROVE  d \in Opened(SubSeq(sent, 1, n)) <=> d \in Opened(SubSeq(sent, 1, n - 1)) \union {c}
  <2>1. d \in Opened(SubSeq(sent, 1, n)) <=> \E k \in 1..n : d \in Range(sent[k].deltas)
    BY <1>1, OpenedIff
  <2>2. d \in Opened(SubSeq(sent, 1, n - 1)) <=> \E k \in 1..(n - 1) : d \in Range(sent[k].deltas)
    BY <1>1, OpenedIff
  <2> QED
    BY <1>2, <1>3, <1>4, <2>1, <2>2
<1>6. FragmentsOf(c, n) = FragmentsOf(c, n - 1) \union {n}
  BY <1>3, <1>4 DEF FragmentsOf
<1>7. ASSUME NEW d, d # c
      PROVE  FragmentsOf(d, n) = FragmentsOf(d, n - 1)
  <2>1. sent[n].deltas # <<d>>
    BY <1>7
  <2> QED
    BY <1>3, <1>4, <2>1 DEF FragmentsOf
<1> QED
  BY <1>5, <1>6, <1>7

(* The fragments of a call that was never opened: none. *)
LEMMA NotOpened ==
  ASSUME StreamInv, NEW n \in 0..Len(sent), NEW c, c \notin Opened(SubSeq(sent, 1, n))
  PROVE  FragmentsOf(c, n) = {}
<1>1. \A k \in 1..n : c \notin Range(sent[k].deltas)
  BY OpenedIff DEF StreamInv
<1>2. \A k \in 1..n : sent[k].deltas = <<c>> => c \in Range(sent[k].deltas)
  BY RangeOfOne
<1> QED
  BY <1>1, <1>2 DEF FragmentsOf

(* The engine merges the delta of an event that has arrived. *)
LEMMA MergeStep ==
  ASSUME StreamInv, CallsInv, OneDeltaPerEvent, Arrived + 1 \in 1..Len(sent), NEW c,
         sent[Arrived + 1].deltas = <<c>>,
         toolCallMap' = WithDelta(DeltaAt(sent, TRUE, Arrived + 1))
  PROVE  /\ DOMAIN toolCallMap' = Opened(SubSeq(sent, 1, Arrived + 1))
         /\ \A d \in DOMAIN toolCallMap' :
              /\ toolCallMap'[d].id = {d}
              /\ toolCallMap'[d].args \in Seq(Nat)
              /\ Enumerates(toolCallMap'[d].args, FragmentsOf(d, Arrived + 1))
<1> DEFINE n == Arrived + 1
           before == Opened(SubSeq(sent, 1, Arrived))
           opens == IF c \in before THEN {} ELSE {c}
<1>1. /\ Arrived \in Nat /\ n \in Nat /\ n - 1 = Arrived /\ Arrived \in 0..Len(sent)
      /\ n \in 1..Len(sent)
  BY ArrivedType DEF StreamInv
<1>2. Last(sent[n].deltas) = c
  BY DEF Last
<1>3. DeltaAt(sent, TRUE, n) = [index |-> c, opens |-> opens, at |-> n]
  BY <1>1, <1>2 DEF DeltaAt, Delta
<1>4. /\ DOMAIN toolCallMap = before
      /\ \A d \in DOMAIN toolCallMap :
           /\ toolCallMap[d].id = {d} /\ toolCallMap[d].args \in Seq(Nat)
           /\ Enumerates(toolCallMap[d].args, FragmentsOf(d, Arrived))
  BY DEF CallsInv, CallsAreAssembled, FragmentsOf
<1>5. /\ Opened(SubSeq(sent, 1, n)) = before \union {c}
      /\ FragmentsOf(c, n) = FragmentsOf(c, Arrived) \union {n}
      /\ \A d : d # c => FragmentsOf(d, n) = FragmentsOf(d, Arrived)
  BY <1>1, DeltaStep
<1> DEFINE pending == PendingAt(c)
<1>6. /\ pending.args \in Seq(Nat)
      /\ Enumerates(pending.args, FragmentsOf(c, Arrived))
      /\ c \in before => pending.id = {c}
  <2>1. CASE c \in before
    BY <1>4, <2>1 DEF PendingAt
  <2>2. CASE c \notin before
    <3>1. pending.args = <<>>
      BY <1>4, <2>2 DEF PendingAt, NoCall
    <3>2. FragmentsOf(c, Arrived) = {}
      BY <1>1, <2>2, NotOpened
    <3>3. Enumerates(<<>>, {}) /\ <<>> \in Seq(Nat)
      BY DEF Enumerates, Range
    <3> QED
      BY <2>2, <3>1, <3>2, <3>3
  <2> QED
    BY <2>1, <2>2
<1>7. /\ Append(pending.args, n) \in Seq(Nat)
      /\ Enumerates(Append(pending.args, n), FragmentsOf(c, n))
  <2>1. \A m \in FragmentsOf(c, Arrived) : m < n
    BY <1>1 DEF FragmentsOf
  <2> HIDE DEF n, pending
  <2> QED
    BY <1>1, <1>5, <1>6, <2>1, EnumeratesAppend
<1> DEFINE merged == [id |-> IF opens # {} THEN opens ELSE pending.id,
                      args |-> Append(pending.args, n)]
<1>8. toolCallMap' = [d \in DOMAIN toolCallMap \union {c} |->
                        IF d = c THEN merged ELSE toolCallMap[d]]
  <2> DEFINE delta == DeltaAt(sent, TRUE, n)
  <2>1. delta.index = c /\ delta.opens = opens /\ delta.at = n
    <3> HIDE DEF delta, n, opens
    <3>1. delta = [index |-> c, opens |-> opens, at |-> n]
      BY <1>3 DEF delta
    <3> QED
      BY <3>1
  <2>2. toolCallMap' = WithDelta(delta)
    OBVIOUS
  <2> HIDE DEF delta, n, before, opens, pending
  <2> QED
    BY <2>1, <2>2 DEF WithDelta, pending
<1>9. merged.id = {c} /\ merged.args = Append(pending.args, n)
  BY <1>6
<1> HIDE DEF n, merged, pending, before, opens
<1>10. DOMAIN toolCallMap' = Opened(SubSeq(sent, 1, n))
  BY <1>4, <1>5, <1>8
<1>11. ASSUME NEW d \in DOMAIN toolCallMap'
       PROVE  /\ toolCallMap'[d].id = {d}
              /\ toolCallMap'[d].args \in Seq(Nat)
              /\ Enumerates(toolCallMap'[d].args, FragmentsOf(d, n))
  <2>1. CASE d = c
    BY <1>7, <1>8, <1>9, <2>1
  <2>2. CASE d # c
    <3>1. d \in DOMAIN toolCallMap /\ toolCallMap'[d] = toolCallMap[d]
      BY <1>8, <2>2
    <3>2. FragmentsOf(d, n) = FragmentsOf(d, Arrived)
      BY <1>5, <2>2
    <3> QED
      BY <1>4, <3>1, <3>2
  <2> QED
    BY <2>1, <2>2
<1> QED
  BY <1>10, <1>11 DEF n

LEMMA CallsStep ==
  ASSUME StreamInv, CallsInv, Waits \/ ReceiveChunk
  PROVE  CallsInv'
<1>1. CASE Waits
  <2>1. /\ Arrived' = Arrived /\ toolCallMap' = toolCallMap
        /\ \A n \in 1..Arrived : sent'[n] = sent[n]
        /\ SubSeq(sent', 1, Arrived) = SubSeq(sent, 1, Arrived)
        /\ OneDeltaPerEvent' => OneDeltaPerEvent \/ (Arrived = 0 /\ toolCallMap = <<>>)
    BY <1>1, WaitsKeep
  <2>2. \A c : {n \in 1..Arrived' : sent'[n].deltas = <<c>>} = FragmentsOf(c, Arrived)
    BY <2>1 DEF FragmentsOf
  <2>3. CASE OneDeltaPerEvent
    BY <2>1, <2>2, <2>3 DEF CallsInv, CallsAreAssembled, FragmentsOf
  <2>4. CASE Arrived = 0 /\ toolCallMap = <<>>
    <3>1. DOMAIN toolCallMap = {}
      BY <2>4
    <3>2. Opened(SubSeq(sent, 1, 0)) = {}
      BY OpenedIff, ArrivedType DEF StreamInv
    <3> QED
      BY <2>1, <2>4, <3>1, <3>2 DEF CallsInv, CallsAreAssembled
  <2>5. CASE ~OneDeltaPerEvent'
    BY <2>5 DEF CallsInv, CallsAreAssembled
  <2> QED
    BY <2>1, <2>3, <2>4, <2>5
<1>2. CASE ReceiveChunk
  <2>1. /\ Arrived' = Arrived + 1 /\ Arrived + 1 \in 1..Len(sent)
        /\ IsChunkAt(Head(channel), sent, indexed, Arrived + 1)
    BY <1>2, ReceiveKeepsStream
  <2>2. /\ sent' = sent /\ indexed' = indexed
        /\ toolCallMap' = IF Head(channel).delta = NoDelta THEN toolCallMap
                                                          ELSE WithDelta(Head(channel).delta)
    BY <1>2 DEF ReceiveChunk
  <2>3. OneDeltaPerEvent' <=> OneDeltaPerEvent
    BY <2>2 DEF OneDeltaPerEvent
  <2>4. SUFFICES ASSUME OneDeltaPerEvent
                 PROVE  /\ DOMAIN toolCallMap' = Opened(SubSeq(sent, 1, Arrived + 1))
                        /\ \A d \in DOMAIN toolCallMap' :
                             /\ toolCallMap'[d].id = {d}
                             /\ toolCallMap'[d].args \in Seq(Nat)
                             /\ Enumerates(toolCallMap'[d].args, FragmentsOf(d, Arrived + 1))
    BY <2>1, <2>2, <2>3 DEF CallsInv, CallsAreAssembled, FragmentsOf
  <2>5. Arrived \in Nat /\ (Arrived + 1) - 1 = Arrived
    BY ArrivedType
  <2>6. CASE sent[Arrived + 1].deltas = <<>>
    <3>1. toolCallMap' = toolCallMap
      BY <2>1, <2>2, <2>6 DEF IsChunkAt
    <3>2. /\ Opened(SubSeq(sent, 1, Arrived + 1)) = Opened(SubSeq(sent, 1, Arrived))
          /\ \A c : FragmentsOf(c, Arrived + 1) = FragmentsOf(c, Arrived)
      BY <2>1, <2>5, <2>6, NoDeltaStep
    <3>3. /\ DOMAIN toolCallMap = Opened(SubSeq(sent, 1, Arrived))
          /\ \A d \in DOMAIN toolCallMap :
               /\ toolCallMap[d].id = {d} /\ toolCallMap[d].args \in Seq(Nat)
               /\ Enumerates(toolCallMap[d].args, FragmentsOf(d, Arrived))
      BY <2>4 DEF CallsInv, CallsAreAssembled, FragmentsOf
    <3> QED
      BY <3>1, <3>2, <3>3
  <2>7. CASE sent[Arrived + 1].deltas # <<>>
    <3>1. Len(sent[Arrived + 1].deltas) =< 1 /\ indexed
      BY <2>1, <2>4 DEF OneDeltaPerEvent
    <3>2. sent[Arrived + 1] \in Replies
      BY <2>1 DEF StreamInv
    <3>3. PICK c : sent[Arrived + 1].deltas = <<c>>
      BY <2>7, <3>1, <3>2, AtMostOne DEF Replies
    <3>4. Head(channel).delta = DeltaAt(sent, indexed, Arrived + 1)
      BY <2>1, <2>7 DEF IsChunkAt
    <3>5. DeltaAt(sent, indexed, Arrived + 1) = DeltaAt(sent, TRUE, Arrived + 1)
      BY <3>1 DEF DeltaAt
    <3>6. DeltaAt(sent, TRUE, Arrived + 1) # NoDelta
      BY <2>5 DEF DeltaAt, NoDelta, Delta
    <3>7. toolCallMap' = WithDelta(DeltaAt(sent, TRUE, Arrived + 1))
      BY <2>2, <3>4, <3>5, <3>6
    <3> QED
      BY <2>1, <2>4, <3>3, <3>7, MergeStep
  <2> QED
    BY <2>6, <2>7
<1> QED
  BY <1>1, <1>2

(* The calls the engine goes on with are those the model has asked for,    *)
(* each under its own id and with all its fragments in order, however many *)
(* calls there are and however their deltas are interleaved.               *)
THEOREM CallCallsAreAssembled == Spec => []CallsAreAssembled
<1>1. Init => CallsInv
  <2> SUFFICES ASSUME Init
               PROVE  CallsInv
    OBVIOUS
  <2>1. sent = <<>> /\ toolCallMap = <<>> /\ Arrived = 0
    BY DEF Init, Arrived
  <2>2. DOMAIN toolCallMap = {}
    BY <2>1
  <2>3. Opened(SubSeq(sent, 1, 0)) = {}
    BY <2>1, OpenedIff
  <2> QED
    BY <2>1, <2>2, <2>3 DEF CallsInv, CallsAreAssembled
<1>2. Control /\ StreamInv /\ CallsInv /\ [Next]_vars => CallsInv'
  BY WaitsOrReceives, CallsStep
<1>3. CallsInv => CallsAreAssembled
  BY DEF CallsInv
<1> QED
  BY <1>1, <1>2, <1>3, ControlInvariant, StreamInvariant, PTL DEF Spec
=============================================================================
