----------------------------- MODULE TurnEngine -----------------------------
(***************************************************************************)
(* One turn: the goroutines that run between the handler's ProcessTurn     *)
(* call and its answer.                                                    *)
(*                                                                         *)
(*   engine     runTurn: asks the model round after round, runs the tools  *)
(*              it asks for, styles and stores the answer                  *)
(*   producer   the goroutine of Stream that parses the model's reply and  *)
(*              sends its chunks (one per round; compat.go, openai.go)     *)
(*   tools      the goroutines of ExecuteMany, one per call of a round     *)
(*   handler    streamSSE or collectBlocking, draining the event channel   *)
(*                                                                         *)
(* The client may go away at any time, which cancels the context.  Text is *)
(* abstracted to whether there is any.                                     *)
(***************************************************************************)
EXTENDS Integers, Sequences, FiniteSets, Functions

CONSTANTS
  MaxRounds,     \* maxToolRounds (10)
  EventCap,      \* capacity of eventCh (32)
  StreamCap,     \* capacity of a stream's channel (64)
  MaxChunks,     \* bound: events in one reply of the model
  Indices        \* bound: indices of the tool calls in one reply

ASSUME MaxRoundsAssumption == MaxRounds \in Nat \ {0}
ASSUME CapAssumption == EventCap \in Nat \ {0} /\ StreamCap \in Nat \ {0}
ASSUME MaxChunksAssumption == MaxChunks \in Nat
ASSUME IndicesAssumption == Indices \subseteq Nat /\ IsFiniteSet(Indices)

VARIABLES
  at,           \* the engine's next statement
  round,        \* the round of the loop, from 1
  cancelled,    \* the request's context is done
  stream,       \* the round's channel of chunks
  producer,     \* "off", "reading", "sending" or "exited" (the channel is closed)
  parsed,       \* the chunk it is sending
  chunks,       \* how many events the producer has read this round
  content,      \* contentBuf holds text
  toolCallMap,  \* the indices accumulated by the engine
  calls,        \* the round's calls, in the order they are run
  next,         \* position in calls of the next event to send
  tool,         \* what the goroutine of each position in calls is doing
  results,      \* ExecuteMany's results, as messages; the zero value has no call
  msgs,         \* the messages of the next request, without their texts
  eventCh,      \* ProcessTurn's channel
  received,     \* what the handler has received from it
  rawAnswer, finalAnswer,    \* whether there is a text
  stored,       \* the turn was appended to the session's history
  replied       \* the handler has answered the client

loop == <<round, content, toolCallMap, calls, next>>
reply == <<stream, producer, parsed, chunks>>
tools == <<tool, results>>
answer == <<rawAnswer, finalAnswer, stored>>
vars == <<at, loop, cancelled, reply, tools, msgs, eventCh, received, answer, replied>>

NoCall == <<>>
Event(type) == [type |-> type, call |-> NoCall]
ToolEvent(type, call) == [type |-> type, call |-> <<round>> \o call]

Message(role, indices) == [role |-> role, calls |-> indices]

Chunk(kind, index) == [kind |-> kind, index |-> index]

Init ==
  /\ at = "requesting" /\ round = 1
  /\ cancelled = FALSE
  /\ stream = <<>> /\ producer = "off" /\ parsed = Chunk("error", 0) /\ chunks = 0
  /\ content = FALSE /\ toolCallMap = {} /\ calls = <<>> /\ next = 1
  /\ tool = <<>> /\ results = <<>>
  /\ msgs = <<Message("user", <<>>)>>
  /\ eventCh = <<>> /\ received = <<>>
  /\ rawAnswer = FALSE /\ finalAnswer = FALSE /\ stored = FALSE
  /\ replied = FALSE

-----------------------------------------------------------------------------
(* The model's reply. *)

(* Stream succeeds and starts the producer, or it fails after its retries; *)
(* it always fails when the context is done.                               *)
Request ==
  /\ at = "requesting"
  /\ ~cancelled
  /\ at' = "receiving"
  /\ stream' = <<>> /\ producer' = "reading" /\ chunks' = 0
  /\ UNCHANGED parsed
  /\ content' = FALSE /\ toolCallMap' = {} /\ calls' = <<>> /\ next' = 1
  /\ UNCHANGED <<round, cancelled, tools, msgs, eventCh, received, answer, replied>>

RequestFails ==
  /\ at = "requesting"
  /\ at' = "failing"
  /\ UNCHANGED <<loop, cancelled, reply, tools, msgs, eventCh, received, answer, replied>>

(* The producer reads an event of the reply and makes a chunk of it. *)
Parse(chunk) ==
  /\ producer = "reading"
  /\ producer' = "sending"
  /\ parsed' = chunk
  /\ chunks' = chunks + 1
  /\ UNCHANGED <<at, loop, cancelled, stream, tools, msgs, eventCh, received, answer, replied>>

ParseText ==
  /\ chunks < MaxChunks
  /\ Parse(Chunk("text", 0))

(* One event of the reply may carry the deltas of several tool calls; the  *)
(* chunk keeps the last of them.                                           *)
ParseToolDeltas ==
  /\ chunks < MaxChunks
  /\ \E last \in Indices : Parse(Chunk("tool", last))

(* The reply is malformed, the connection breaks, or the context is done. *)
ParseError ==
  /\ Parse(Chunk("error", 0))

(* The producer sends on its channel; when that is full it waits, context  *)
(* or not.  After an error it closes the channel.                          *)
SendChunk ==
  /\ producer = "sending"
  /\ Len(stream) < StreamCap
  /\ stream' = Append(stream, parsed)
  /\ producer' = IF parsed.kind = "error" THEN "exited" ELSE "reading"
  /\ UNCHANGED <<at, loop, cancelled, parsed, chunks, tools, msgs, eventCh,
                 received, answer, replied>>

(* [DONE], or the end of the response. *)
ReplyEnds ==
  /\ producer = "reading"
  /\ producer' = "exited"
  /\ UNCHANGED <<at, loop, cancelled, stream, parsed, chunks, tools, msgs, eventCh,
                 received, answer, replied>>

-----------------------------------------------------------------------------
(* The engine's loop. *)

ReceiveChunk ==
  /\ at = "receiving"
  /\ stream # <<>>
  /\ stream' = Tail(stream)
  /\ LET chunk == Head(stream)
     IN /\ at' = CASE chunk.kind = "error" -> "failing"
                   [] chunk.kind = "text" -> "texting"
                   [] chunk.kind = "tool" -> "receiving"
        /\ content' = (content \/ chunk.kind = "text")
        /\ toolCallMap' = IF chunk.kind = "tool" THEN toolCallMap \union {chunk.index}
                                                 ELSE toolCallMap
  /\ UNCHANGED <<round, cancelled, producer, parsed, chunks, calls, next, tools, msgs,
                 eventCh, received, answer, replied>>

(* eventCh <- e, once there is room. *)
Send(e) ==
  /\ Len(eventCh) < EventCap
  /\ eventCh' = Append(eventCh, e)

SendText ==
  /\ at = "texting"
  /\ Send(Event("text"))
  /\ at' = "receiving"
  /\ UNCHANGED <<loop, cancelled, reply, tools, msgs, received, answer, replied>>

(* The other branch of each select: runTurn returns ctx.Err(). *)
GiveUpWhileExecuting ==
  /\ at \in {"texting", "starting", "executing", "reporting"}
  /\ at \in {"starting", "reporting"} => next =< Len(calls)
  /\ cancelled
  /\ at' = "failing"
  /\ UNCHANGED <<loop, cancelled, reply, tools, msgs, eventCh, received, answer, replied>>
GiveUp ==
  /\ at \in {"texting", "starting", "reporting"}
  /\ at \in {"starting", "reporting"} => next =< Len(calls)
  /\ cancelled
  /\ at' = "failing"
  /\ UNCHANGED <<loop, cancelled, reply, tools, msgs, eventCh, received, answer, replied>>

(* The channel is closed and empty.  for idx < len(toolCallMap): the calls *)
(* in the order of their indices, of which those beyond the number of      *)
(* calls are passed over.  There is one such sequence.                     *)
CallsOf(indices) ==
  LET called == {i \in indices : i < Cardinality(indices)}
  IN {q \in [1..Cardinality(called) -> called] : \A j, k \in DOMAIN q : j < k => q[j] < q[k]}

StreamEnds ==
  /\ at = "receiving"
  /\ stream = <<>> /\ producer = "exited"
  /\ calls' \in CallsOf(toolCallMap)
  /\ msgs' = Append(msgs, Message("assistant", calls'))
  /\ next' = 1
  /\ IF toolCallMap = {}
     THEN at' = "answering" /\ rawAnswer' = content
     ELSE at' = "starting" /\ UNCHANGED rawAnswer
  /\ UNCHANGED <<round, content, toolCallMap, cancelled, reply, tools, eventCh,
                 received, finalAnswer, stored, replied>>

SendToolStart ==
  /\ at = "starting"
  /\ next =< Len(calls)
  /\ Send(ToolEvent("tool_start", <<calls[next]>>))
  /\ next' = next + 1
  /\ UNCHANGED <<at, round, content, toolCallMap, calls, cancelled, reply, tools, msgs,
                 received, answer, replied>>

(* ExecuteMany starts a goroutine per call, each with its place in the     *)
(* results.  A handler that does not look at its context and blocks hangs  *)
(* for ever ...                                                            *)
StartTools ==
  /\ at = "starting"
  /\ next > Len(calls)
  /\ tool' \in [1..Len(calls) -> {"running", "hung"}]
  /\ results' = [k \in 1..Len(calls) |-> Message("tool", <<>>)]
  /\ at' = "executing"
  /\ UNCHANGED <<loop, cancelled, reply, msgs, eventCh, received, answer, replied>>

(* ... the others end with an output, an error, or at the timeout ...      *)
ToolReturnsAppends(k) ==
  /\ k \in DOMAIN tool /\ tool[k] = "running"
  /\ tool' = [tool EXCEPT ![k] = "done"]
  /\ LET place == Cardinality({j \in DOMAIN tool : tool[j] = "done"}) + 1
     IN results' = [results EXCEPT ![place] = Message("tool", <<calls[k]>>)]
  /\ UNCHANGED <<at, loop, cancelled, reply, msgs, eventCh, received, answer, replied>>
ToolReturns(k) ==
  /\ k \in DOMAIN tool /\ tool[k] = "running"
  /\ tool' = [tool EXCEPT ![k] = "done"]
  /\ results' = [results EXCEPT ![k] = Message("tool", <<calls[k]>>)]
  /\ UNCHANGED <<at, loop, cancelled, reply, msgs, eventCh, received, answer, replied>>

(* ... and waits for all of them. *)
WaitToolsNoBarrier ==
  /\ at = "executing"
  /\ at' = "reporting"
  /\ next' = 1
  /\ UNCHANGED <<round, content, toolCallMap, calls, cancelled, reply, tools, msgs,
                 eventCh, received, answer, replied>>
WaitTools ==
  /\ at = "executing"
  /\ Range(tool) \subseteq {"done"}
  /\ at' = "reporting"
  /\ next' = 1
  /\ UNCHANGED <<round, content, toolCallMap, calls, cancelled, reply, tools, msgs,
                 eventCh, received, answer, replied>>

SendToolDone ==
  /\ at = "reporting"
  /\ next =< Len(calls)
  /\ Send(ToolEvent("tool_done", results[next].calls))
  /\ msgs' = Append(msgs, results[next])
  /\ next' = next + 1
  /\ UNCHANGED <<at, round, content, toolCallMap, calls, cancelled, reply, tools,
                 received, answer, replied>>

(* Without an answer after the last round rawAnswer is still "". *)
EndRoundOffByOne ==
  /\ at = "reporting"
  /\ next > Len(calls)
  /\ tool' = <<>> /\ results' = <<>>
  /\ IF round =< MaxRounds THEN at' = "requesting" /\ round' = round + 1
                           ELSE at' = "answering" /\ UNCHANGED round
  /\ UNCHANGED <<content, toolCallMap, calls, next, cancelled, reply, msgs, eventCh,
                 received, answer, replied>>
EndRound ==
  /\ at = "reporting"
  /\ next > Len(calls)
  /\ tool' = <<>> /\ results' = <<>>
  /\ IF round < MaxRounds THEN at' = "requesting" /\ round' = round + 1
                          ELSE at' = "answering" /\ UNCHANGED round
  /\ UNCHANGED <<content, toolCallMap, calls, next, cancelled, reply, msgs, eventCh,
                 received, answer, replied>>

-----------------------------------------------------------------------------
(* The answer: structurize, style, store.                                  *)

(* No style processor is configured; as a turn comes by here once, both     *)
(* configurations are behaviours of one model.                             *)
Bare ==
  /\ at = "answering"
  /\ at' = "storing"
  /\ UNCHANGED <<loop, cancelled, reply, tools, msgs, eventCh, received, answer, replied>>

(* structurize fails at once on an empty raw answer, and what runTurn then *)
(* goes on with allows a light rewrite; else it asks the model ...         *)
AskStructured ==
  /\ at = "answering"
  /\ at' = IF rawAnswer THEN "structuring" ELSE "styling"
  /\ UNCHANGED <<loop, cancelled, reply, tools, msgs, eventCh, received, answer, replied>>

(* ... and replaces an empty final answer by the raw one, as runTurn does  *)
(* when the call fails.                                                    *)
Structurize ==
  /\ at = "structuring"
  /\ finalAnswer' = rawAnswer
  /\ at' \in {"styling", "storing"}
  /\ UNCHANGED <<loop, cancelled, reply, tools, msgs, eventCh, received,
                 rawAnswer, stored, replied>>

(* The style model answers, or its failure is logged. *)
Rewrite ==
  /\ at = "styling"
  /\ at' = "storing"
  /\ UNCHANGED <<loop, cancelled, reply, tools, msgs, eventCh, received, answer, replied>>

(* Append both messages, and ask the model for a summary if that fills the *)
(* history too much: SessionStore has the steps.                           *)
StoreTurn ==
  /\ at = "storing"
  /\ stored' = TRUE
  /\ at' \in {"compressing", "finishing"}
  /\ UNCHANGED <<loop, cancelled, reply, tools, msgs, eventCh, received,
                 rawAnswer, finalAnswer, replied>>

CompressErrorReturned ==
  /\ at = "compressing"
  /\ at' \in {"finishing", "failing"}
  /\ UNCHANGED <<loop, cancelled, reply, tools, msgs, eventCh, received, answer, replied>>
(* The summary comes, or its failure is logged. *)
Compress ==
  /\ at = "compressing"
  /\ at' = "finishing"
  /\ UNCHANGED <<loop, cancelled, reply, tools, msgs, eventCh, received, answer, replied>>

(* The end of ProcessTurn's goroutine; these sends do not watch the context. *)
SendErrorCloses ==
  /\ at = "failing"
  /\ Send(Event("error"))
  /\ at' = "closing"
  /\ UNCHANGED <<loop, cancelled, reply, tools, msgs, received, answer, replied>>
SendError ==
  /\ at = "failing"
  /\ Send(Event("error"))
  /\ at' = "finishing"
  /\ UNCHANGED <<loop, cancelled, reply, tools, msgs, received, answer, replied>>

SendDone ==
  /\ at = "finishing"
  /\ Send(Event("done"))
  /\ at' = "closing"
  /\ UNCHANGED <<loop, cancelled, reply, tools, msgs, received, answer, replied>>

CloseEvents ==
  /\ at = "closing"
  /\ at' = "closed"
  /\ UNCHANGED <<loop, cancelled, reply, tools, msgs, eventCh, received, answer, replied>>

-----------------------------------------------------------------------------
(* The handler and its client. *)

(* Errors of writing to the client are ignored, so the handler drains the  *)
(* channel even when nobody listens any more.                              *)
ReceiveEventWhileConnected ==
  /\ ~replied /\ ~cancelled
  /\ eventCh # <<>>
  /\ received' = Append(received, Head(eventCh))
  /\ eventCh' = Tail(eventCh)
  /\ UNCHANGED <<at, loop, cancelled, reply, tools, msgs, answer, replied>>
ReceiveEvent ==
  /\ ~replied
  /\ eventCh # <<>>
  /\ received' = Append(received, Head(eventCh))
  /\ eventCh' = Tail(eventCh)
  /\ UNCHANGED <<at, loop, cancelled, reply, tools, msgs, answer, replied>>

Reply ==
  /\ ~replied
  /\ eventCh = <<>> /\ at = "closed"
  /\ replied' = TRUE
  /\ cancelled' = TRUE      \* net/http cancels the context when the handler returns
  /\ UNCHANGED <<at, loop, reply, tools, msgs, eventCh, received, answer>>

ClientLeaves ==
  /\ ~cancelled
  /\ cancelled' = TRUE
  /\ UNCHANGED <<at, loop, reply, tools, msgs, eventCh, received, answer, replied>>

-----------------------------------------------------------------------------
Producer == ParseText \/ ParseToolDeltas \/ ParseError \/ SendChunk \/ ReplyEnds

(* The engine's calls of the model, and what it does by itself. *)
ModelAnswers == Request \/ RequestFails \/ Structurize \/ Rewrite \/ Compress

Works ==
  \/ ReceiveChunk \/ SendText \/ GiveUp \/ StreamEnds
  \/ SendToolStart \/ StartTools \/ WaitTools \/ SendToolDone \/ EndRound
  \/ Bare \/ AskStructured \/ StoreTurn
  \/ SendError \/ SendDone \/ CloseEvents

Engine == ModelAnswers \/ Works

Handler == ReceiveEvent \/ Reply

Next ==
  \/ Producer \/ Engine \/ Handler \/ ClientLeaves
  \/ \E k \in 1..Cardinality(Indices) : ToolReturns(k)

Spec == Init /\ [][Next]_vars

(* A call of the model, or the reading of a reply, whose context is done:  *)
(* net/http aborts it, and it ends with an error.                          *)
CallAborted == cancelled /\ (RequestFails \/ Structurize \/ Rewrite \/ Compress)
ReadAborted == cancelled /\ ParseError

(* Goroutines that can run do run, and a tool that honours its context     *)
(* returns by its timeout.  Nothing is assumed of the provider, since the  *)
(* clients set no timeout: a call may never return and a reply may stop    *)
(* coming, unless the context is done.  The client may stay or leave, and  *)
(* a hung tool may hang for ever.                                          *)
FairSpec ==
  /\ Spec
  /\ WF_vars(Works) /\ WF_vars(SendChunk) /\ WF_vars(Handler)
  /\ WF_vars(CallAborted) /\ WF_vars(ReadAborted)
  /\ \A k \in 1..Cardinality(Indices) : WF_vars(ToolReturns(k))

-----------------------------------------------------------------------------
CallIds == (1..MaxRounds) \X Indices
Log == received \o eventCh

Events == INSTANCE EventStream WITH
  Calls <- CallIds, NoCall <- NoCall, events <- Log, closed <- (at = "closed")

(* ProcessTurn keeps the promise of EventStream. *)
KeepsEventPromise == Events!Spec

Messages == [role : {"user", "assistant", "tool"}, calls : Seq(Indices)]

Chunks == [kind : {"text", "error"}, index : {0}] \union [kind : {"tool"}, index : Indices]

TypeOK ==
  /\ at \in {"requesting", "receiving", "texting", "starting", "executing", "reporting",
             "answering", "structuring", "styling", "storing", "compressing",
             "failing", "finishing", "closing", "closed"}
  /\ round \in 1..MaxRounds
  /\ cancelled \in BOOLEAN /\ replied \in BOOLEAN
  /\ stream \in Seq(Chunks) /\ parsed \in Chunks
  /\ Len(stream) =< StreamCap
  /\ producer \in {"off", "reading", "sending", "exited"} /\ chunks \in 0..(MaxChunks + 1)
  /\ toolCallMap \subseteq Indices
  /\ calls \in Seq(Indices) /\ next \in 1..(Len(calls) + 1)
  /\ tool \in Seq({"running", "hung", "done"}) /\ results \in Seq(Messages)
  /\ msgs \in Seq(Messages)
  /\ eventCh \in Seq(Events!Event) /\ Len(eventCh) =< EventCap
  /\ received \in Seq(Events!Event)
  /\ {content, rawAnswer, finalAnswer, stored} \subseteq BOOLEAN

(* Every request to the model is well formed: an assistant message with    *)
(* tool calls is followed by the results of exactly these calls, in order, *)
(* and no result stands anywhere else.                                     *)
RequestsWellFormed ==
  at = "requesting" =>
    \A i \in 1..Len(msgs) :
      /\ msgs[i].role = "assistant" =>
           \A k \in 1..Len(msgs[i].calls) :
             /\ i + k =< Len(msgs)
             /\ msgs[i + k] = Message("tool", <<msgs[i].calls[k]>>)
      /\ msgs[i].role = "tool" =>
           \E j \in 1..(i - 1) :
             msgs[j].role = "assistant" /\ i - j =< Len(msgs[j].calls)

(* The client is told of the results in the order of the calls, each after *)
(* its call and once; and all of them, unless the turn ends with an error. *)
ResultsFollowCalls ==
  LET started == {i \in 1..Len(Log) : Log[i].type = "tool_start"}
      done == {i \in 1..Len(Log) : Log[i].type = "tool_done"}
      SameCall(i, j) == Log[i].call = Log[j].call
  IN /\ \A i, j \in started : SameCall(i, j) => i = j
     /\ \A i, j \in done : SameCall(i, j) => i = j
     /\ \A j \in done : \E i \in started : i < j /\ SameCall(i, j)
     /\ \A i, k \in started, l \in done :
          i < k /\ SameCall(k, l) => \E j \in done : j < l /\ SameCall(i, j)
     /\ at \in {"requesting", "answering", "storing"} =>
          \A i \in started : \E j \in done : SameCall(i, j)

(* No tool goroutine outlives the turn that started it, or even its round. *)
NoToolOutlivesItsRound ==
  at # "executing" => Range(tool) \subseteq {"done"}

(* The client sees an error exactly when the turn left no trace in the     *)
(* session, so sending the message again does not store it twice.          *)
ErrorMeansNotStored ==
  at \in {"closing", "closed"} =>
    (stored <=> \A i \in 1..Len(Log) : Log[i].type # "error")

(* The provider is to answer a call or go on with its reply, and nothing   *)
(* else is left to do.                                                     *)
AwaitsModel ==
  \/ at \in {"requesting", "structuring", "styling", "compressing"}
  \/ at = "receiving" /\ stream = <<>> /\ producer = "reading"

(* A turn comes to its end, and its handler to the deferred ReleaseTurn,   *)
(* with two exceptions only: a tool's handler that blocks and ignores its  *)
(* timeout, and a provider that stays silent while the client stays.  Full *)
(* channels, the sends that watch no context, a stream that nobody reads   *)
(* any more and a client that leaves at any moment hold up nothing; and    *)
(* once the client has left, the provider cannot either.                   *)
TurnEnds ==
  \/ <>(replied \/ "hung" \in Range(tool))
  \/ <>[](AwaitsModel /\ ~cancelled)

(* "The channel is closed when the response is complete or an error        *)
(* occurs": after an error the producer's goroutine comes to its end.      *)
StreamIsClosed ==
  producer = "sending" /\ parsed.kind = "error" ~> producer = "exited"
=============================================================================
