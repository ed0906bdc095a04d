------------------------------ MODULE ModelCall ------------------------------
(***************************************************************************)
(* One call of a model: Generate, or Stream and the engine's loop over its *)
(* chunks.                                                                 *)
(*                                                                         *)
(* An attempt is one HTTP request.  What comes back is turned into an      *)
(* error by the client (compat.go, openai.go), withRetry decides by that   *)
(* error whether there is another attempt (retry.go), and once a stream is *)
(* open its events become chunks, from which the engine puts the message   *)
(* together (engine.go).  The context may be cancelled at any time.        *)
(*                                                                         *)
(* The n-th event of a stream is known by n: a text delta is the number of *)
(* its event, a fragment of a tool call's arguments too.                   *)
(***************************************************************************)
EXTENDS Integers, Sequences, FiniteSets, SequencesExt

CONSTANTS
  MaxAttempts,   \* retryMaxAttempts (3)
  MaxEvents,     \* bound: events in one reply of the model
  Indices        \* bound: indices of the tool calls in one reply

ASSUME MaxAttemptsAssumption == MaxAttempts \in Nat \ {0}
ASSUME MaxEventsAssumption == MaxEvents \in Nat
ASSUME IndicesAssumption == Indices \subseteq Nat /\ 0 \in Indices

VARIABLES
  client,      \* "openai" or "compat" (which the Ollama and Anthropic clients wrap)
  streaming,   \* Stream was called, not Generate
  at,          \* what the call is doing
  attempt,     \* the attempt of withRetry, from 0
  causes,      \* why each failed attempt failed
  cancelled,   \* the context is done
  indexed,     \* the model sends the index of a tool call with each delta
  sent,        \* the events of the reply, as the model sent them
  channel,     \* the chunks in the stream's channel
  producer,    \* its goroutine: "off", "reading" or "exited" (the channel is closed)
  text,        \* contentBuf
  toolCallMap  \* what the engine has of each tool call

call == <<client, streaming>>
reply == <<indexed, sent, channel, producer>>
message == <<text, toolCallMap>>
vars == <<call, at, attempt, causes, cancelled, reply, message>>

-----------------------------------------------------------------------------
(* An error, as far as isRetryable looks into it: does its chain hold the  *)
(* context's error, a net.Error, an *openai.APIError with a status code?   *)
Err(ctx, net, code) == [ctx |-> ctx, net |-> net, code |-> code]

PlainError == Err(FALSE, FALSE, 0)
NetworkError == Err(FALSE, TRUE, 0)

(* http.Client.Do wraps the context's error in a url.Error, which is a     *)
(* net.Error whatever it wraps.                                            *)
ContextError == Err(TRUE, TRUE, 0)

IsRetryableUnlessPlain(err) == err.net \/ err.code = 429 \/ err.code >= 500
IsRetryable(err) == ~err.ctx /\ (err.net \/ err.code = 429 \/ err.code >= 500)

CodeOf == [refused |-> 400, limited |-> 429, unavailable |-> 500]
Statuses == DOMAIN CodeOf

(* A status other than 200.  The library of the OpenAI client makes an     *)
(* APIError of it if the body can be read; the compatible client makes a   *)
(* plain error of all of them.                                             *)
StatusError(status, readable) ==
  IF client = "openai" /\ readable THEN Err(FALSE, FALSE, CodeOf[status]) ELSE PlainError

-----------------------------------------------------------------------------
Init ==
  /\ client \in {"openai", "compat"} /\ streaming \in BOOLEAN
  /\ at = "attempting" /\ attempt = 0 /\ causes = <<>> /\ cancelled = FALSE
  /\ indexed = TRUE /\ sent = <<>> /\ channel = <<>> /\ producer = "off"
  /\ text = <<>> /\ toolCallMap = <<>>

Cancel ==
  /\ ~cancelled
  /\ cancelled' = TRUE
  /\ UNCHANGED <<call, at, attempt, causes, reply, message>>

FailOneAttemptMore(err, cause) ==
  /\ at = "attempting"
  /\ causes' = Append(causes, cause)
  /\ at' = IF IsRetryable(err) /\ attempt < MaxAttempts THEN "waiting" ELSE "failed"
  /\ UNCHANGED <<call, attempt, cancelled, reply, message>>
(* withRetry gets an error from an attempt. *)
Fail(err, cause) ==
  /\ at = "attempting"
  /\ causes' = Append(causes, cause)
  /\ at' = IF IsRetryable(err) /\ attempt < MaxAttempts - 1 THEN "waiting" ELSE "failed"
  /\ UNCHANGED <<call, attempt, cancelled, reply, message>>

(* No connection, or it breaks before the answer is there; a Generate call *)
(* reads the body too before it returns.                                   *)
ConnectionFails == Fail(NetworkError, "network")

AttemptNeverAborts == FALSE /\ UNCHANGED vars
AttemptAborted == cancelled /\ Fail(ContextError, "cancelled")

StatusNotOK ==
  \E status \in Statuses, readable \in BOOLEAN :
    Fail(StatusError(status, readable), status)

(* Generate only: the body ends early or is not the JSON expected, it is   *)
(* an API error under status 200, or it has no choices.                    *)
BodyUnusable == ~streaming /\ Fail(PlainError, "body")

(* Generate decodes a whole response. *)
ResponseDecoded ==
  /\ at = "attempting"
  /\ ~streaming
  /\ at' = "returned"
  /\ UNCHANGED <<call, attempt, causes, cancelled, reply, message>>

(* select of time.After and ctx.Done. *)
DelayOver ==
  /\ at = "waiting"
  /\ at' = "attempting" /\ attempt' = attempt + 1
  /\ UNCHANGED <<call, causes, cancelled, reply, message>>

DelayCancelled ==
  /\ at = "waiting"
  /\ cancelled
  /\ at' = "failed"
  /\ UNCHANGED <<call, attempt, causes, cancelled, reply, message>>

-----------------------------------------------------------------------------
(* The stream.  A clean first status ends withRetry: from here on nothing  *)
(* is tried again.                                                         *)

StreamOpens ==
  /\ at = "attempting"
  /\ streaming
  /\ at' = "receiving"
  /\ indexed' \in BOOLEAN
  /\ sent' = <<>> /\ channel' = <<>> /\ producer' = "reading"
  /\ UNCHANGED <<call, attempt, causes, cancelled, message>>

(* An event has text or not, and deltas of some tool calls.  A call is     *)
(* opened, with its id and name, by its first delta.                       *)
Event(hasText, deltas) == [text |-> hasText, deltas |-> deltas]

Opened(events) == UNION {Range(events[n].deltas) : n \in 1..Len(events)}

Delta(index, opens, n) == [index |-> index, opens |-> opens, at |-> n]
NoDelta == Delta(0, {}, 0)

(* The chunk made of event n: the loop over the deltas keeps the last one, *)
(* and a delta without an index counts as index 0.                         *)
ChunkOf(event, n) ==
  [kind |-> "chunk",
   text |-> IF event.text THEN <<n>> ELSE <<>>,
   delta |-> IF event.deltas = <<>> THEN NoDelta
             ELSE LET c == Last(event.deltas)
                  IN Delta(IF indexed THEN c ELSE 0,
                           IF c \in Opened(sent) THEN {} ELSE {c}, n)]

ErrorChunk == [kind |-> "error", text |-> <<>>, delta |-> NoDelta]

Deltas ==
  {<<>>} \union {<<c>> : c \in Indices}
         \union {pair \in Indices \X Indices : pair[1] # pair[2]}

ReadEvent ==
  /\ producer = "reading"
  /\ Len(sent) < MaxEvents
  /\ \E hasText \in BOOLEAN, deltas \in Deltas :
       /\ sent' = Append(sent, Event(hasText, deltas))
       /\ channel' = Append(channel, ChunkOf(Event(hasText, deltas), Len(sent) + 1))
  /\ UNCHANGED <<call, at, attempt, causes, cancelled, indexed, producer, message>>

ReadFails ==
  /\ producer = "reading"
  /\ channel' = Append(channel, ErrorChunk)
  /\ producer' = "exited"
  /\ UNCHANGED <<call, at, attempt, causes, cancelled, indexed, sent, message>>

(* An event that cannot be parsed, an API error, a broken connection. *)
EventUnusable == ReadFails

(* The body of a request whose context is done. *)
ReadAborted == cancelled /\ ReadFails

(* [DONE]; or the connection ends without it, which no client notices. *)
StreamEnds ==
  /\ producer = "reading"
  /\ producer' = "exited"
  /\ UNCHANGED <<call, at, attempt, causes, cancelled, indexed, sent, channel, message>>

-----------------------------------------------------------------------------
(* The engine puts the message together. *)

NoCall == [id |-> {}, args |-> <<>>]

PendingAt(index) ==
  IF index \in DOMAIN toolCallMap THEN toolCallMap[index] ELSE NoCall

WithDeltaReplacing(delta) ==
  [i \in DOMAIN toolCallMap \union {delta.index} |->
     IF i # delta.index THEN toolCallMap[i]
     ELSE [id |-> IF delta.opens # {} THEN delta.opens ELSE PendingAt(i).id,
           args |-> <<delta.at>>]]
(* An id replaces the one before; the arguments are concatenated. *)
WithDelta(delta) ==
  LET pending == PendingAt(delta.index)
      merged == [id |-> IF delta.opens # {} THEN delta.opens ELSE pending.id,
                 args |-> Append(pending.args, delta.at)]
  IN [i \in DOMAIN toolCallMap \union {delta.index} |->
        IF i = delta.index THEN merged ELSE toolCallMap[i]]

(* Chunks with nothing in them change nothing. *)
ReceiveChunk ==
  /\ at = "receiving"
  /\ channel # <<>>
  /\ Head(channel).kind = "chunk"
  /\ channel' = Tail(channel)
  /\ text' = text \o Head(channel).text
  /\ toolCallMap' = IF Head(channel).delta = NoDelta THEN toolCallMap
                                                     ELSE WithDelta(Head(channel).delta)
  /\ UNCHANGED <<call, at, attempt, causes, cancelled, indexed, sent, producer>>

ReceiveErrorRetries ==
  /\ at = "receiving"
  /\ channel # <<>>
  /\ Head(channel).kind = "error"
  /\ channel' = Tail(channel)
  /\ at' = IF attempt < MaxAttempts - 1 THEN "waiting" ELSE "failed"
  /\ UNCHANGED <<call, attempt, causes, cancelled, indexed, sent, producer, message>>
ReceiveError ==
  /\ at = "receiving"
  /\ channel # <<>>
  /\ Head(channel).kind = "error"
  /\ channel' = Tail(channel)
  /\ at' = "failed"
  /\ UNCHANGED <<call, attempt, causes, cancelled, indexed, sent, producer, message>>

ReceiveEnd ==
  /\ at = "receiving"
  /\ channel = <<>> /\ producer = "exited"
  /\ at' = "returned"
  /\ UNCHANGED <<call, attempt, causes, cancelled, reply, message>>

-----------------------------------------------------------------------------
(* What the program does by itself, and what the provider does. *)
Local ==
  \/ AttemptAborted \/ DelayOver \/ DelayCancelled
  \/ ReadAborted \/ ReceiveChunk \/ ReceiveError \/ ReceiveEnd

Provider ==
  \/ ConnectionFails \/ StatusNotOK \/ BodyUnusable \/ ResponseDecoded
  \/ StreamOpens \/ ReadEvent \/ EventUnusable \/ StreamEnds

Next == Local \/ Provider \/ Cancel

Spec == Init /\ [][Next]_vars

(* The clients set no timeout, so the provider may be silent for ever;     *)
(* what the program and net/http do by themselves they do.                 *)
FairSpec ==
  /\ Spec
  /\ WF_vars(AttemptAborted) /\ WF_vars(ReadAborted)
  /\ WF_vars(DelayOver \/ DelayCancelled)
  /\ WF_vars(ReceiveChunk \/ ReceiveError \/ ReceiveEnd)

-----------------------------------------------------------------------------
Causes == {"network", "cancelled", "body"} \union Statuses
Transient == {"network", "limited", "unavailable"}

TypeOK ==
  /\ client \in {"openai", "compat"}
  /\ streaming \in BOOLEAN /\ cancelled \in BOOLEAN /\ indexed \in BOOLEAN
  /\ at \in {"attempting", "waiting", "receiving", "returned", "failed"}
  /\ attempt \in 0..(MaxAttempts - 1)
  /\ causes \in Seq(Causes)
  /\ producer \in {"off", "reading", "exited"}
  /\ Len(causes) = attempt + (IF at = "waiting" \/ (at = "failed" /\ producer = "off")
                              THEN 1 ELSE 0)

(* A request goes out again only after an error that may pass: never after *)
(* the context was done, and never when the answer was just unusable.  And *)
(* the one kind every client reports as what it is, a network error, ends  *)
(* the call only when all attempts are used up or the call was cancelled.  *)
RepeatedOnlyWhileTransient ==
  /\ \A n \in 1..attempt : causes[n] \in Transient
  /\ at = "failed" /\ ~cancelled /\ producer = "off" /\ Last(causes) = "network" =>
       attempt = MaxAttempts - 1

(* How many events of the reply have reached the engine. *)
Arrived ==
  Len(sent) - Len(channel)
    + (IF channel # <<>> /\ Last(channel).kind = "error" THEN 1 ELSE 0)

Enumerates(q, numbers) ==
  /\ \A i, j \in 1..Len(q) : i < j => q[i] < q[j]
  /\ Range(q) = numbers

(* The text shown to the client is, at any moment, what has arrived of one *)
(* reply: retries never show a text twice, nor glue two replies together.  *)
TextIsShownOnce == Enumerates(text, {n \in 1..Arrived : sent[n].text})

(* The calls the engine will run are those the model has asked for, each   *)
(* with its own id and all fragments of its arguments in order, however    *)
(* their deltas are interleaved, as long as the model gives each delta its *)
(* index and an event of its own.                                          *)
OneDeltaPerEvent == indexed /\ \A n \in 1..Len(sent) : Len(sent[n].deltas) =< 1

CallsAreAssembled ==
  OneDeltaPerEvent =>
    /\ DOMAIN toolCallMap = Opened(SubSeq(sent, 1, Arrived))
    /\ \A c \in DOMAIN toolCallMap :
         /\ toolCallMap[c].id = {c}
         /\ Enumerates(toolCallMap[c].args, {n \in 1..Arrived : sent[n].deltas = <<c>>})

(* When the client leaves, the call comes to its end, whatever the         *)
(* provider does or does not do: a silent provider cannot hold the turn.   *)
CancelEndsCall == cancelled ~> at \in {"returned", "failed"}

(* "Retry on: net.Error, HTTP 429, 5xx": a call of the compatible client    *)
(* fails after one of these only when it has used up its attempts.         *)
TransientIsRetried ==
  client = "compat" /\ at = "failed" /\ ~cancelled /\ producer = "off" /\ Last(causes) \in Transient =>
    attempt = MaxAttempts - 1
=============================================================================
