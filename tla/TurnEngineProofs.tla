--------------------------- MODULE TurnEngineProofs ---------------------------
(***************************************************************************)
(* One turn, for any number of rounds, calls and chunks and any capacities *)
(* of the channels.                                                        *)
(***************************************************************************)
EXTENDS TurnEngine, SequenceTheorems, FiniteSetTheorems, TLAPS

(* A reply within its bound, and the results of the calls in their places. *)
ReplyInv ==
  /\ producer = "reading" => chunks =< MaxChunks
  /\ producer = "sending" /\ parsed.kind # "error" => chunks =< MaxChunks

ToolsInv ==
  at \in {"executing", "reporting"} =>
    /\ Len(tool) = Len(calls) /\ Len(results) = Len(calls)
    /\ \A k \in 1..Len(calls) :
         tool[k] = "done" => results[k] = Message("tool", <<calls[k]>>)

Statements ==
  {"requesting", "receiving", "texting", "starting", "executing", "reporting",
   "answering", "structuring", "styling", "storing", "compressing",
   "failing", "finishing", "closing", "closed"}

AnEvent == Events!Event

LoopType ==
  /\ at \in Statements /\ round \in 1..MaxRounds
  /\ toolCallMap \subseteq Indices
  /\ calls \in Seq(Indices) /\ next \in 1..(Len(calls) + 1)

ReplyType ==
  /\ stream \in Seq(Chunks) /\ parsed \in Chunks /\ Len(stream) =< StreamCap
  /\ producer \in {"off", "reading", "sending", "exited"} /\ chunks \in 0..(MaxChunks + 1)

ToolsType == tool \in Seq({"running", "hung", "done"}) /\ results \in Seq(Messages)

MsgsType == msgs \in Seq(Messages)

EventsType ==
  /\ eventCh \in Seq(AnEvent) /\ Len(eventCh) =< EventCap
  /\ received \in Seq(AnEvent)

FlagsType ==
  /\ cancelled \in BOOLEAN /\ replied \in BOOLEAN
  /\ content \in BOOLEAN /\ rawAnswer \in BOOLEAN /\ finalAnswer \in BOOLEAN /\ stored \in BOOLEAN

TurnInv ==
  /\ LoopType /\ ReplyType /\ ToolsType /\ MsgsType /\ EventsType /\ FlagsType
  /\ ReplyInv /\ ToolsInv /\ NoToolOutlivesItsRound

LEMMA TurnInvTypes == TurnInv => TypeOK
BY DEF TurnInv, TypeOK, LoopType, ReplyType, ToolsType, MsgsType, EventsType, FlagsType,
   Statements, AnEvent

LEMMA Assumptions ==
  /\ MaxRounds \in Nat \ {0} /\ EventCap \in Nat \ {0} /\ StreamCap \in Nat \ {0}
  /\ MaxChunks \in Nat /\ Indices \subseteq Nat /\ IsFiniteSet(Indices)
BY MaxRoundsAssumption, CapAssumption, MaxChunksAssumption, IndicesAssumption

(* What Next is made of, by the variables a step changes. *)
OnlyStatement ==
  \/ RequestFails \/ GiveUp \/ Bare \/ AskStructured \/ Structurize \/ Rewrite
  \/ StoreTurn \/ Compress
  \/ CloseEvents \/ Reply \/ ClientLeaves

LEMMA NextCases ==
  ASSUME [Next]_vars
  PROVE  \/ OnlyStatement \/ Producer
         \/ Request \/ ReceiveChunk \/ StreamEnds \/ StartTools \/ WaitTools \/ EndRound
         \/ SendText \/ SendToolStart \/ SendToolDone \/ SendError \/ SendDone \/ ReceiveEvent
         \/ (\E k \in 1..Cardinality(Indices) : ToolReturns(k)) \/ UNCHANGED vars
BY DEF Next, Engine, ModelAnswers, Works, Handler, OnlyStatement

LEMMA TurnInit == Init => TurnInv
<1> SUFFICES ASSUME Init
             PROVE  TurnInv
  OBVIOUS
<1>1. LoopType
  BY Assumptions DEF Init, LoopType, Statements
<1>2. ReplyType /\ ReplyInv
  BY Assumptions DEF Init, ReplyType, ReplyInv, Chunks, Chunk
<1>3. ToolsType /\ ToolsInv
  BY DEF Init, ToolsType, ToolsInv
<1>4. NoToolOutlivesItsRound
  BY DEF Init, NoToolOutlivesItsRound, Range
<1>5. MsgsType
  <2>1. Message("user", <<>>) \in Messages
    BY DEF Message, Messages
  <2> QED
    BY <2>1 DEF Init, MsgsType
<1>6. EventsType
  BY Assumptions DEF Init, EventsType
<1>7. FlagsType
  BY DEF Init, FlagsType
<1> QED
  BY <1>1, <1>2, <1>3, <1>4, <1>5, <1>6, <1>7 DEF TurnInv

LEMMA StatementStep ==
  ASSUME TurnInv, OnlyStatement \/ UNCHANGED vars
  PROVE  TurnInv'
<1>1. UNCHANGED <<loop, reply, tools, msgs, eventCh, received>>
  BY DEF OnlyStatement, RequestFails, GiveUp, Bare, AskStructured, Structurize, Rewrite,
     StoreTurn, Compress, CloseEvents, Reply, ClientLeaves, vars
<1>2. /\ at' \in Statements
      /\ at' = "executing" <=> at = "executing"
      /\ at' = "reporting" => at = "reporting"
  BY DEF OnlyStatement, RequestFails, GiveUp, Bare, AskStructured, Structurize, Rewrite,
     StoreTurn, Compress, CloseEvents, Reply, ClientLeaves, vars, TurnInv, LoopType, Statements
<1>3. FlagsType'
  BY <1>1 DEF OnlyStatement, RequestFails, GiveUp, Bare, AskStructured, Structurize, Rewrite,
     StoreTurn, Compress, CloseEvents, Reply, ClientLeaves, vars, TurnInv, FlagsType, answer, loop
<1>4. LoopType' /\ ReplyType' /\ ToolsType' /\ MsgsType' /\ EventsType' /\ ReplyInv'
  BY <1>1, <1>2 DEF TurnInv, LoopType, ReplyType, ToolsType, MsgsType, EventsType, ReplyInv,
     loop, reply, tools
<1>5. ToolsInv' /\ NoToolOutlivesItsRound'
  BY <1>1, <1>2 DEF TurnInv, ToolsInv, NoToolOutlivesItsRound, loop, tools
<1> QED
  BY <1>3, <1>4, <1>5 DEF TurnInv

LEMMA ProducerStep ==
  ASSUME TurnInv, Producer
  PROVE  TurnInv'
<1>1. UNCHANGED <<at, loop, cancelled, tools, msgs, eventCh, received, answer, replied>>
  BY DEF Producer, ParseText, ParseToolDeltas, ParseError, Parse, SendChunk, ReplyEnds
<1>2. ReplyType' /\ ReplyInv'
  <2>1. CASE ParseText \/ ParseToolDeltas \/ ParseError
    <3>1. PICK chunk \in Chunks : Parse(chunk) /\ (chunk.kind # "error" => chunks < MaxChunks)
      <4>1. Chunk("text", 0) \in Chunks /\ Chunk("error", 0) \in Chunks
        BY DEF Chunks, Chunk
      <4>2. \A last \in Indices : Chunk("tool", last) \in Chunks
        BY Assumptions DEF Chunks, Chunk
      <4>3. Chunk("error", 0).kind = "error"
        BY DEF Chunk
      <4> QED
        BY <2>1, <4>1, <4>2, <4>3 DEF ParseText, ParseToolDeltas, ParseError
    <3>2. chunks \in 0..(MaxChunks + 1) /\ chunks =< MaxChunks
      BY <3>1 DEF TurnInv, ReplyType, ReplyInv, Parse
    <3> QED
      BY <3>1, <3>2, Assumptions DEF Parse, TurnInv, ReplyType, ReplyInv
  <2>2. CASE SendChunk
    <3>1. /\ stream \in Seq(Chunks) /\ parsed \in Chunks /\ Len(stream) < StreamCap
          /\ stream' = Append(stream, parsed)
          /\ producer' \in {"exited", "reading"} /\ chunks' = chunks /\ parsed' = parsed
          /\ producer' = "reading" => chunks =< MaxChunks
      BY <2>2 DEF SendChunk, TurnInv, ReplyType, ReplyInv
    <3>2. stream' \in Seq(Chunks) /\ Len(stream') =< StreamCap
      BY <3>1, Assumptions
    <3> QED
      BY <3>1, <3>2 DEF TurnInv, ReplyType, ReplyInv
  <2>3. CASE ReplyEnds
    BY <2>3 DEF ReplyEnds, TurnInv, ReplyType, ReplyInv
  <2> QED
    BY <2>1, <2>2, <2>3 DEF Producer
<1>3. LoopType' /\ ToolsType' /\ MsgsType' /\ EventsType' /\ FlagsType'
  BY <1>1 DEF TurnInv, LoopType, ToolsType, MsgsType, EventsType, FlagsType, loop, tools, answer
<1>4. ToolsInv' /\ NoToolOutlivesItsRound'
  BY <1>1 DEF TurnInv, ToolsInv, NoToolOutlivesItsRound, loop, tools
<1> QED
  BY <1>2, <1>3, <1>4 DEF TurnInv

(* A step that leaves the tools alone and is not within a round's tools. *)
LEMMA ToolsKept ==
  ASSUME TurnInv, UNCHANGED tools, at # "executing", at' \notin {"executing", "reporting"}
  PROVE  ToolsType' /\ ToolsInv' /\ NoToolOutlivesItsRound'
BY DEF TurnInv, ToolsType, ToolsInv, NoToolOutlivesItsRound, tools

LEMMA RequestStep ==
  ASSUME TurnInv, Request
  PROVE  TurnInv'
<1>1. ToolsType' /\ ToolsInv' /\ NoToolOutlivesItsRound'
  BY ToolsKept DEF Request
<1>2. LoopType'
  BY DEF Request, TurnInv, LoopType, Statements
<1>3. ReplyType' /\ ReplyInv'
  BY Assumptions DEF Request, TurnInv, ReplyType, ReplyInv
<1>4. MsgsType' /\ EventsType'
  BY DEF Request, TurnInv, MsgsType, EventsType
<1>5. FlagsType'
  BY DEF Request, TurnInv, FlagsType, answer
<1> QED
  BY <1>1, <1>2, <1>3, <1>4, <1>5 DEF TurnInv

LEMMA ReceiveChunkStep ==
  ASSUME TurnInv, ReceiveChunk
  PROVE  TurnInv'
<1>1. stream \in Seq(Chunks) /\ stream # <<>> /\ stream' = Tail(stream) /\ Len(stream) =< StreamCap
  BY DEF ReceiveChunk, TurnInv, ReplyType
<1>2. Head(stream) \in Chunks /\ stream' \in Seq(Chunks) /\ Len(stream') =< StreamCap
  BY <1>1, Assumptions
<1>3. /\ Head(stream).kind \in {"text", "tool", "error"}
      /\ at = "receiving" /\ at' \in {"failing", "texting", "receiving"}
  BY <1>2 DEF ReceiveChunk, Chunks
<1>4. ToolsType' /\ ToolsInv' /\ NoToolOutlivesItsRound'
  BY <1>3, ToolsKept DEF ReceiveChunk
<1>5. LoopType'
  <2>1. toolCallMap' \subseteq Indices
    <3>1. CASE Head(stream).kind # "tool"
      BY <3>1 DEF ReceiveChunk, TurnInv, LoopType
    <3>2. CASE Head(stream).kind = "tool"
      BY <1>2, <3>2 DEF ReceiveChunk, TurnInv, LoopType, Chunks
    <3> QED
      BY <3>1, <3>2
  <2> QED
    BY <1>3, <2>1 DEF ReceiveChunk, TurnInv, LoopType, Statements
<1>6. ReplyType' /\ ReplyInv'
  BY <1>2 DEF ReceiveChunk, TurnInv, ReplyType, ReplyInv
<1>7. MsgsType' /\ EventsType'
  BY DEF ReceiveChunk, TurnInv, MsgsType, EventsType
<1>8. FlagsType'
  BY DEF ReceiveChunk, TurnInv, FlagsType, answer
<1> QED
  BY <1>4, <1>5, <1>6, <1>7, <1>8 DEF TurnInv

(* The calls of a round, one per index the model has used. *)
LEMMA CallSequences ==
  ASSUME NEW indices, NEW q, indices \subseteq Indices, q \in CallsOf(indices)
  PROVE  /\ q \in Seq(Indices)
         /\ \A j, k \in 1..Len(q) : j < k => q[j] < q[k]
<1> DEFINE called == {i \in indices : i < Cardinality(indices)}
<1>1. IsFiniteSet(called) /\ called \subseteq Indices
  BY Assumptions, FS_Subset
<1>2. Cardinality(called) \in Nat
  BY <1>1, FS_CardinalityType
<1>3. /\ q \in [1..Cardinality(called) -> called]
      /\ \A j, k \in DOMAIN q : j < k => q[j] < q[k]
  BY DEF CallsOf
<1> HIDE DEF called
<1>4. q \in Seq(Indices) /\ Len(q) = Cardinality(called) /\ DOMAIN q = 1..Cardinality(called)
  BY <1>1, <1>2, <1>3
<1> QED
  BY <1>3, <1>4

LEMMA StreamEndsStep ==
  ASSUME TurnInv, StreamEnds
  PROVE  TurnInv'
<1>1. calls' \in Seq(Indices)
  <2>1. toolCallMap \subseteq Indices /\ calls' \in CallsOf(toolCallMap)
    BY DEF StreamEnds, TurnInv, LoopType
  <2> QED
    BY <2>1, CallSequences
<1>2. at = "receiving" /\ at' \in {"answering", "starting"} /\ rawAnswer' \in {rawAnswer, content}
  BY DEF StreamEnds
<1>3. ToolsType' /\ ToolsInv' /\ NoToolOutlivesItsRound'
  BY <1>2, ToolsKept DEF StreamEnds
<1>4. LoopType'
  BY <1>1, <1>2 DEF StreamEnds, TurnInv, LoopType, Statements
<1>5. ReplyType' /\ ReplyInv'
  BY DEF StreamEnds, TurnInv, ReplyType, ReplyInv, reply
<1>6. MsgsType'
  <2>1. Message("assistant", calls') \in Messages
    BY <1>1 DEF Message, Messages
  <2>2. msgs' = Append(msgs, Message("assistant", calls'))
    BY DEF StreamEnds
  <2> QED
    BY <2>1, <2>2 DEF TurnInv, MsgsType
<1>7. EventsType'
  BY DEF StreamEnds, TurnInv, EventsType
<1>8. FlagsType'
  BY <1>2 DEF StreamEnds, TurnInv, FlagsType
<1> QED
  BY <1>3, <1>4, <1>5, <1>6, <1>7, <1>8 DEF TurnInv

LEMMA ResultType ==
  /\ Message("tool", <<>>) \in Messages
  /\ \A c \in Indices : Message("tool", <<c>>) \in Messages
BY DEF Message, Messages

LEMMA StartToolsStep ==
  ASSUME TurnInv, StartTools
  PROVE  TurnInv'
<1>1. calls \in Seq(Indices) /\ Len(calls) \in Nat
  BY DEF TurnInv, LoopType
<1>2. /\ at = "starting" /\ at' = "executing" /\ UNCHANGED <<loop, reply, msgs, eventCh, received>>
      /\ tool' \in [1..Len(calls) -> {"running", "hung"}]
      /\ results' = [k \in 1..Len(calls) |-> Message("tool", <<>>)]
  BY DEF StartTools
<1>3. /\ ToolsType' /\ Len(tool') = Len(calls) /\ Len(results') = Len(calls)
      /\ \A k \in 1..Len(calls) : tool'[k] # "done"
  <2>1. Message("tool", <<>>) \in Messages
    BY ResultType
  <2> QED
    BY <1>1, <1>2, <2>1 DEF ToolsType
<1>4. ToolsInv' /\ NoToolOutlivesItsRound'
  BY <1>2, <1>3 DEF ToolsInv, NoToolOutlivesItsRound, loop
<1>5. LoopType' /\ ReplyType' /\ ReplyInv' /\ MsgsType' /\ EventsType'
  BY <1>2 DEF TurnInv, LoopType, ReplyType, ReplyInv, MsgsType, EventsType, loop, reply, Statements
<1>6. FlagsType'
  BY DEF StartTools, TurnInv, FlagsType, answer, loop
<1> QED
  BY <1>3, <1>4, <1>5, <1>6 DEF TurnInv

(* While a tool runs the engine waits. *)
LEMMA RunningMeansExecuting ==
  ASSUME TurnInv, NEW k, k \in DOMAIN tool, tool[k] = "running"
  PROVE  at = "executing"
BY DEF TurnInv, NoToolOutlivesItsRound, Range

LEMMA ToolReturnsStep ==
  ASSUME TurnInv, NEW k \in 1..Cardinality(Indices), ToolReturns(k)
  PROVE  TurnInv'
<1>1. /\ at = "executing" /\ at' = at
      /\ UNCHANGED <<loop, reply, msgs, eventCh, received>>
  BY RunningMeansExecuting DEF ToolReturns
<1>2. /\ tool \in Seq({"running", "hung", "done"}) /\ results \in Seq(Messages)
      /\ Len(tool) = Len(calls) /\ Len(results) = Len(calls) /\ calls \in Seq(Indices)
      /\ k \in 1..Len(calls)
  BY <1>1 DEF ToolReturns, TurnInv, ToolsType, ToolsInv, LoopType
<1>3. Message("tool", <<calls[k]>>) \in Messages
  <2>1. calls[k] \in Indices
    BY <1>2
  <2> QED
    BY <2>1, ResultType
<1>4. /\ tool' = [tool EXCEPT ![k] = "done"]
      /\ results' = [results EXCEPT ![k] = Message("tool", <<calls[k]>>)]
  BY DEF ToolReturns
<1>5. /\ tool' \in Seq({"running", "hung", "done"}) /\ Len(tool') = Len(calls)
      /\ results' \in Seq(Messages) /\ Len(results') = Len(calls)
  BY <1>2, <1>3, <1>4
<1>6. ASSUME NEW j \in 1..Len(calls), tool'[j] = "done"
      PROVE  results'[j] = Message("tool", <<calls[j]>>)
  BY <1>1, <1>2, <1>4, <1>6 DEF TurnInv, ToolsInv
<1>7. ToolsType' /\ ToolsInv' /\ NoToolOutlivesItsRound'
  BY <1>1, <1>5, <1>6 DEF ToolsType, ToolsInv, NoToolOutlivesItsRound, loop
<1>8. LoopType' /\ ReplyType' /\ ReplyInv' /\ MsgsType' /\ EventsType'
  BY <1>1 DEF TurnInv, LoopType, ReplyType, ReplyInv, MsgsType, EventsType, loop, reply
<1>9. FlagsType'
  BY DEF ToolReturns, TurnInv, FlagsType, answer, loop
<1> QED
  BY <1>7, <1>8, <1>9 DEF TurnInv

LEMMA WaitToolsStep ==
  ASSUME TurnInv, WaitTools
  PROVE  TurnInv'
<1>1. /\ at = "executing" /\ at' = "reporting" /\ Range(tool) \subseteq {"done"}
      /\ UNCHANGED <<round, content, toolCallMap, calls, reply, tools, msgs, eventCh, received>>
      /\ next' = 1
  BY DEF WaitTools
<1>2. ToolsType' /\ ToolsInv' /\ NoToolOutlivesItsRound'
  BY <1>1 DEF TurnInv, ToolsType, ToolsInv, NoToolOutlivesItsRound, tools
<1>3. LoopType' /\ ReplyType' /\ ReplyInv' /\ MsgsType' /\ EventsType'
  BY <1>1 DEF TurnInv, LoopType, ReplyType, ReplyInv, MsgsType, EventsType, reply, Statements
<1>4. FlagsType'
  BY DEF WaitTools, TurnInv, FlagsType, answer
<1> QED
  BY <1>2, <1>3, <1>4 DEF TurnInv

LEMMA EndRoundStep ==
  ASSUME TurnInv, EndRound
  PROVE  TurnInv'
<1>1. /\ at = "reporting" /\ at' \in {"requesting", "answering"} /\ tool' = <<>> /\ results' = <<>>
      /\ UNCHANGED <<content, toolCallMap, calls, next, reply, msgs, eventCh, received>>
      /\ (round' = round + 1 /\ round < MaxRounds) \/ round' = round
  BY DEF EndRound
<1>2. ToolsType' /\ ToolsInv' /\ NoToolOutlivesItsRound'
  BY <1>1 DEF ToolsType, ToolsInv, NoToolOutlivesItsRound, Range
<1>3. LoopType'
  BY <1>1, Assumptions DEF TurnInv, LoopType, Statements
<1>4. ReplyType' /\ ReplyInv' /\ MsgsType' /\ EventsType'
  BY <1>1 DEF TurnInv, ReplyType, ReplyInv, MsgsType, EventsType, reply
<1>5. FlagsType'
  BY DEF EndRound, TurnInv, FlagsType, answer
<1> QED
  BY <1>2, <1>3, <1>4, <1>5 DEF TurnInv

-----------------------------------------------------------------------------
(* The sends. *)

LEMMA SendType ==
  ASSUME EventsType, NEW e \in AnEvent, Send(e), UNCHANGED received
  PROVE  EventsType'
<1>1. eventCh' \in Seq(AnEvent) /\ Len(eventCh') =< EventCap
  BY Assumptions DEF EventsType, Send
<1> QED
  BY <1>1 DEF EventsType

LEMMA PlainEvents ==
  ASSUME NEW type \in {"text", "error", "done"}
  PROVE  Event(type) \in AnEvent
BY DEF Event, AnEvent, Events!Event

LEMMA CallEvents ==
  ASSUME LoopType, NEW type \in {"tool_start", "tool_done"}, NEW c \in Indices
  PROVE  /\ ToolEvent(type, <<c>>) = [type |-> type, call |-> <<round, c>>]
         /\ <<round, c>> \in CallIds /\ ToolEvent(type, <<c>>) \in AnEvent
<1>1. <<round>> \o <<c>> = <<round, c>>
  <2>1. round \in Nat /\ c \in Nat
    BY Assumptions DEF LoopType
  <2>2. <<round>> \in Seq(Nat) /\ <<c>> \in Seq(Nat) /\ Len(<<round>>) = 1 /\ Len(<<c>>) = 1
    BY <2>1
  <2>3. <<round>> \o <<c>> \in Seq(Nat) /\ Len(<<round>> \o <<c>>) = 2
    BY <2>2
  <2>4. (<<round>> \o <<c>>)[1] = round /\ (<<round>> \o <<c>>)[2] = c
    BY <2>2
  <2>5. /\ <<round, c>> \in Seq(Nat) /\ Len(<<round, c>>) = 2
        /\ <<round, c>>[1] = round /\ <<round, c>>[2] = c
    BY <2>1
  <2>6. \A i \in 1..2 : i = 1 \/ i = 2
    OBVIOUS
  <2>7. \A i \in 1..2 : (<<round>> \o <<c>>)[i] = <<round, c>>[i]
    BY <2>4, <2>5, <2>6
  <2> QED
    BY <2>3, <2>5, <2>7, SeqEqual
<1>2. <<round, c>> \in CallIds
  BY DEF LoopType, CallIds
<1> QED
  BY <1>1, <1>2 DEF ToolEvent, AnEvent, Events!Event

(* What the engine is about to report of a finished round. *)
LEMMA ReportedResult ==
  ASSUME TurnInv, at = "reporting", NEW k \in 1..Len(calls)
  PROVE  results[k] = Message("tool", <<calls[k]>>) /\ calls[k] \in Indices
<1>1. /\ tool \in Seq({"running", "hung", "done"}) /\ Len(tool) = Len(calls) /\ calls \in Seq(Indices)
      /\ Range(tool) \subseteq {"done"}
  BY DEF TurnInv, ToolsInv, ToolsType, LoopType, NoToolOutlivesItsRound
<1>2. tool[k] = "done"
  BY <1>1 DEF Range
<1> QED
  BY <1>1, <1>2 DEF TurnInv, ToolsInv

LEMMA PlainSendStep ==
  ASSUME TurnInv, SendText \/ SendError \/ SendDone
  PROVE  TurnInv'
<1>1. /\ UNCHANGED <<loop, cancelled, reply, tools, msgs, received, answer, replied>>
      /\ at' \in {"receiving", "finishing", "closing"} /\ at \in {"texting", "failing", "finishing"}
  BY DEF SendText, SendError, SendDone
<1>2. PICK type \in {"text", "error", "done"} : Send(Event(type))
  BY DEF SendText, SendError, SendDone
<1>3. EventsType'
  BY <1>1, <1>2, PlainEvents, SendType DEF TurnInv
<1>4. ToolsType' /\ ToolsInv' /\ NoToolOutlivesItsRound'
  BY <1>1, ToolsKept
<1>5. LoopType' /\ ReplyType' /\ ReplyInv' /\ MsgsType' /\ FlagsType'
  BY <1>1 DEF TurnInv, LoopType, ReplyType, ReplyInv, MsgsType, FlagsType, loop, reply, answer,
     Statements
<1> QED
  BY <1>3, <1>4, <1>5 DEF TurnInv

LEMMA SendToolStartStep ==
  ASSUME TurnInv, SendToolStart
  PROVE  TurnInv'
<1>1. /\ UNCHANGED <<at, round, content, toolCallMap, calls, cancelled, reply, tools, msgs, received,
                     answer, replied>>
      /\ at = "starting" /\ next =< Len(calls) /\ next' = next + 1
      /\ Send(ToolEvent("tool_start", <<calls[next]>>))
  BY DEF SendToolStart
<1>2. next \in 1..Len(calls) /\ calls[next] \in Indices
  BY <1>1 DEF TurnInv, LoopType
<1>3. EventsType'
  BY <1>1, <1>2, CallEvents, SendType DEF TurnInv
<1>4. ToolsType' /\ ToolsInv' /\ NoToolOutlivesItsRound'
  BY <1>1, ToolsKept
<1>5. LoopType'
  BY <1>1, <1>2 DEF TurnInv, LoopType
<1>6. ReplyType' /\ ReplyInv' /\ MsgsType' /\ FlagsType'
  BY <1>1 DEF TurnInv, ReplyType, ReplyInv, MsgsType, FlagsType, reply, answer
<1> QED
  BY <1>3, <1>4, <1>5, <1>6 DEF TurnInv

LEMMA SendToolDoneStep ==
  ASSUME TurnInv, SendToolDone
  PROVE  TurnInv'
<1>1. /\ UNCHANGED <<at, round, content, toolCallMap, calls, cancelled, reply, tools, received,
                     answer, replied>>
      /\ at = "reporting" /\ next =< Len(calls) /\ next' = next + 1
      /\ Send(ToolEvent("tool_done", results[next].calls)) /\ msgs' = Append(msgs, results[next])
  BY DEF SendToolDone
<1>2. next \in 1..Len(calls) /\ calls[next] \in Indices /\ results[next] = Message("tool", <<calls[next]>>)
  BY <1>1, ReportedResult DEF TurnInv, LoopType
<1>3. results[next].calls = <<calls[next]>> /\ results[next] \in Messages
  BY <1>2, ResultType DEF Message
<1>4. EventsType'
  BY <1>1, <1>2, <1>3, CallEvents, SendType DEF TurnInv
<1>5. MsgsType'
  BY <1>1, <1>3 DEF TurnInv, MsgsType
<1>6. ToolsType' /\ ToolsInv' /\ NoToolOutlivesItsRound'
  BY <1>1 DEF TurnInv, ToolsType, ToolsInv, NoToolOutlivesItsRound, tools
<1>7. LoopType'
  BY <1>1, <1>2 DEF TurnInv, LoopType
<1>8. ReplyType' /\ ReplyInv' /\ FlagsType'
  BY <1>1 DEF TurnInv, ReplyType, ReplyInv, FlagsType, reply, answer
<1> QED
  BY <1>4, <1>5, <1>6, <1>7, <1>8 DEF TurnInv

LEMMA ReceiveEventStep ==
  ASSUME TurnInv, ReceiveEvent
  PROVE  TurnInv'
<1>1. /\ eventCh \in Seq(AnEvent) /\ eventCh # <<>> /\ received \in Seq(AnEvent)
      /\ Len(eventCh) =< EventCap
      /\ received' = Append(received, Head(eventCh)) /\ eventCh' = Tail(eventCh)
  BY DEF ReceiveEvent, TurnInv, EventsType
<1>2. eventCh' \in Seq(AnEvent) /\ Len(eventCh') =< EventCap /\ received' \in Seq(AnEvent)
  BY <1>1, Assumptions
<1>3. UNCHANGED <<at, loop, cancelled, reply, tools, msgs, answer, replied>>
  BY DEF ReceiveEvent
<1>4. LoopType' /\ ReplyType' /\ ReplyInv' /\ MsgsType' /\ FlagsType' /\ ToolsType'
  BY <1>3 DEF TurnInv, LoopType, ReplyType, ReplyInv, MsgsType, FlagsType, ToolsType, loop, reply,
     answer, tools
<1>5. ToolsInv' /\ NoToolOutlivesItsRound'
  BY <1>3 DEF TurnInv, ToolsInv, NoToolOutlivesItsRound, loop, tools
<1> QED
  BY <1>2, <1>4, <1>5 DEF TurnInv, EventsType

LEMMA TurnInvariant == Spec => []TurnInv
<1>1. TurnInv /\ [Next]_vars => TurnInv'
  BY NextCases, StatementStep, ProducerStep, RequestStep, ReceiveChunkStep, StreamEndsStep,
     StartToolsStep, WaitToolsStep, EndRoundStep, PlainSendStep, SendToolStartStep,
     SendToolDoneStep, ReceiveEventStep, ToolReturnsStep
<1> QED
  BY <1>1, TurnInit, PTL DEF Spec

(* Every variable keeps its type, and both channels their capacity. *)
THEOREM TurnTypeOK == Spec => []TypeOK
BY TurnInvariant, TurnInvTypes, PTL

(* No goroutine of a tool is left when the engine goes on, gives up or     *)
(* fails: for any number of calls and rounds.                              *)
THEOREM TurnNoToolOutlivesItsRound == Spec => []NoToolOutlivesItsRound
<1>1. TurnInv => NoToolOutlivesItsRound
  BY DEF TurnInv
<1> QED
  BY <1>1, TurnInvariant, PTL

-----------------------------------------------------------------------------
(* What has been sent to the handler, received or still in the channel. *)

LEMMA LogType ==
  ASSUME EventsType
  PROVE  Log \in Seq(AnEvent) /\ Len(Log) \in Nat
<1>1. Log \in Seq(AnEvent)
  BY DEF EventsType, Log
<1> QED
  BY <1>1

LEMMA LogSend ==
  ASSUME EventsType, NEW e \in AnEvent, Send(e), UNCHANGED received
  PROVE  Log' = Append(Log, e)
<1>1. received \in Seq(AnEvent) /\ eventCh \in Seq(AnEvent) /\ <<e>> \in Seq(AnEvent)
  BY DEF EventsType
<1>2. eventCh' = eventCh \o <<e>>
  BY <1>1, AppendIsConcat DEF Send
<1>3. Log' = received \o (eventCh \o <<e>>)
  BY <1>2 DEF Log
<1>4. Log' = Log \o <<e>>
  BY <1>1, <1>3, ConcatAssociative DEF Log
<1> QED
  BY <1>4, LogType, AppendIsConcat

LEMMA LogReceive ==
  ASSUME EventsType, ReceiveEvent
  PROVE  Log' = Log
<1>1. /\ received \in Seq(AnEvent) /\ eventCh \in Seq(AnEvent) /\ eventCh # <<>>
      /\ received' = Append(received, Head(eventCh)) /\ eventCh' = Tail(eventCh)
  BY DEF EventsType, ReceiveEvent
<1>2. Head(eventCh) \in AnEvent /\ Tail(eventCh) \in Seq(AnEvent) /\ <<Head(eventCh)>> \in Seq(AnEvent)
  BY <1>1
<1>3. received' = received \o <<Head(eventCh)>>
  BY <1>1, <1>2, AppendIsConcat
<1>4. Log' = received \o (<<Head(eventCh)>> \o Tail(eventCh))
  BY <1>1, <1>2, <1>3, ConcatAssociative DEF Log
<1>5. <<Head(eventCh)>> \o Tail(eventCh) = eventCh
  <2>1. /\ Len(<<Head(eventCh)>> \o Tail(eventCh)) = Len(eventCh)
        /\ <<Head(eventCh)>> \o Tail(eventCh) \in Seq(AnEvent)
    BY <1>1, <1>2
  <2>2. \A i \in 1..Len(eventCh) : (<<Head(eventCh)>> \o Tail(eventCh))[i] = eventCh[i]
    BY <1>1, <1>2
  <2> QED
    BY <1>1, <2>1, <2>2, SeqEqual
<1> QED
  BY <1>4, <1>5 DEF Log

Ends == {"compressing", "finishing", "closing", "closed"}

(* One error at most, then one done, then the end; and stored exactly when *)
(* there is no error.                                                      *)
EventInv ==
  /\ at \notin Ends => ~Events!Sent("error") /\ ~stored
  /\ at \in Ends => (stored <=> ~Events!Sent("error"))
  /\ Events!Sent("done") <=> at \in {"closing", "closed"}

LEMMA SentAppend ==
  ASSUME EventsType, NEW e \in AnEvent, Log' = Append(Log, e), NEW type
  PROVE  Events!Sent(type)' <=> Events!Sent(type) \/ e.type = type
<1>1. /\ Len(Log') = Len(Log) + 1 /\ Log'[Len(Log) + 1] = e /\ Len(Log) \in Nat
      /\ \A i \in 1..Len(Log) : Log'[i] = Log[i]
  BY LogType
<1>2. \A i \in 1..Len(Log') : i \in 1..Len(Log) \/ i = Len(Log) + 1
  BY <1>1
<1>3. \A i \in 1..Len(Log) : i \in 1..Len(Log')
  BY <1>1
<1>4. Len(Log) + 1 \in 1..Len(Log')
  BY <1>1
<1> QED
  BY <1>1, <1>2, <1>3, <1>4 DEF Events!Sent

(* A step sends one event or none.  Those that send none: *)
Silent ==
  /\ Log' = Log
  /\ \/ stored' = stored /\ at \notin Ends /\ at' \notin Ends
     \/ stored' = stored /\ at' = at
     \/ stored' = TRUE /\ at = "storing" /\ at' \in {"compressing", "finishing"}
     \/ stored' = stored /\ at = "compressing" /\ at' = "finishing"
     \/ stored' = stored /\ at = "closing" /\ at' = "closed"

(* Those that send an event of the turn: *)
Sends(e) ==
  /\ Log' = Append(Log, e) /\ e \in AnEvent
  /\ stored' = stored
  /\ \/ e.type \in {"text", "tool_start", "tool_done"} /\ at \notin Ends /\ at' \notin Ends
     \/ e.type = "error" /\ at = "failing" /\ at' = "finishing"
     \/ e.type = "done" /\ at = "finishing" /\ at' = "closing"

LEMMA SilentStatements ==
  ASSUME OnlyStatement \/ UNCHANGED vars
  PROVE  Silent
<1>1. Log' = Log
  BY DEF OnlyStatement, RequestFails, GiveUp, Bare, AskStructured, Structurize, Rewrite,
     StoreTurn, Compress, CloseEvents, Reply, ClientLeaves, vars, Log
<1>2. CASE RequestFails \/ GiveUp \/ Bare \/ AskStructured \/ Structurize \/ Rewrite
  BY <1>1, <1>2 DEF RequestFails, GiveUp, Bare, AskStructured, Structurize, Rewrite, answer, Silent, Ends
<1>3. CASE StoreTurn \/ Compress \/ CloseEvents
  BY <1>1, <1>3 DEF StoreTurn, Compress, CloseEvents, answer, Silent
<1>4. CASE Reply \/ ClientLeaves \/ UNCHANGED vars
  BY <1>1, <1>4 DEF Reply, ClientLeaves, vars, answer, Silent
<1> QED
  BY <1>2, <1>3, <1>4 DEF OnlyStatement

LEMMA SilentRound ==
  ASSUME TurnInv,
         \/ Producer \/ Request \/ ReceiveChunk \/ StreamEnds \/ StartTools \/ WaitTools \/ EndRound
         \/ \E k \in 1..Cardinality(Indices) : ToolReturns(k)
  PROVE  Silent
<1>1. CASE Producer \/ \E k \in 1..Cardinality(Indices) : ToolReturns(k)
  BY <1>1 DEF Producer, ParseText, ParseToolDeltas, ParseError, Parse, SendChunk, ReplyEnds,
     ToolReturns, answer, Log, Silent
<1>2. CASE Request \/ StreamEnds \/ StartTools \/ WaitTools \/ EndRound
  BY <1>2 DEF Request, StreamEnds, StartTools, WaitTools, EndRound, answer, Log, Silent, Ends
<1>3. CASE ReceiveChunk
  <2>1. stream \in Seq(Chunks) /\ stream # <<>>
    BY <1>3 DEF ReceiveChunk, TurnInv, ReplyType
  <2>2. Head(stream) \in Chunks
    BY <2>1
  <2>3. Head(stream).kind \in {"text", "tool", "error"}
    BY <2>2 DEF Chunks
  <2>4. at = "receiving" /\ at' \in {"failing", "texting", "receiving"}
    BY <1>3, <2>3 DEF ReceiveChunk
  <2>5. Log' = Log /\ stored' = stored
    BY <1>3 DEF ReceiveChunk, Log, answer
  <2> QED
    BY <2>4, <2>5 DEF Silent, Ends
<1> QED
  BY <1>1, <1>2, <1>3

LEMMA SilentReceive ==
  ASSUME TurnInv, ReceiveEvent
  PROVE  Silent
<1>1. Log' = Log
  BY LogReceive DEF TurnInv
<1> QED
  BY <1>1 DEF ReceiveEvent, answer, Silent

LEMMA SendingSteps ==
  ASSUME TurnInv, SendText \/ SendToolStart \/ SendToolDone \/ SendError \/ SendDone
  PROVE  \E e \in AnEvent : Sends(e)
<1>0. EventsType /\ LoopType /\ calls \in Seq(Indices)
  BY DEF TurnInv, LoopType
<1>1. CASE SendText \/ SendError \/ SendDone
  <2>1. PICK e \in AnEvent : /\ Send(e) /\ UNCHANGED <<received, stored>>
                             /\ \/ e.type = "text" /\ at = "texting" /\ at' = "receiving"
                                \/ e.type = "error" /\ at = "failing" /\ at' = "finishing"
                                \/ e.type = "done" /\ at = "finishing" /\ at' = "closing"
    <3>1. \A type \in {"text", "error", "done"} : Event(type) \in AnEvent /\ Event(type).type = type
      BY PlainEvents DEF Event
    <3> QED
      BY <1>1, <3>1 DEF SendText, SendError, SendDone, answer
  <2>2. Log' = Append(Log, e)
    BY <1>0, <2>1, LogSend
  <2> QED
    BY <2>1, <2>2 DEF Sends, Ends
<1>2. CASE SendToolStart
  <2>1. next \in 1..Len(calls)
    BY <1>0, <1>2 DEF SendToolStart, LoopType
  <2>2. calls[next] \in Indices
    BY <1>0, <2>1
  <2> DEFINE e == ToolEvent("tool_start", <<calls[next]>>)
  <2>3. e \in AnEvent /\ e.type = "tool_start"
    BY <1>0, <2>2, CallEvents DEF ToolEvent, TurnInv
  <2>4. Send(e) /\ UNCHANGED <<received, stored>> /\ at = "starting" /\ at' = at
    BY <1>2 DEF SendToolStart, answer
  <2> HIDE DEF e
  <2>5. Log' = Append(Log, e)
    BY <1>0, <2>3, <2>4, LogSend
  <2> QED
    BY <2>3, <2>4, <2>5 DEF Sends, Ends
<1>3. CASE SendToolDone
  <2>1. next \in 1..Len(calls) /\ at = "reporting"
    BY <1>0, <1>3 DEF SendToolDone, LoopType
  <2>2. calls[next] \in Indices /\ results[next] = Message("tool", <<calls[next]>>)
    BY <1>0, <2>1, ReportedResult
  <2>3. results[next].calls = <<calls[next]>>
    BY <2>2 DEF Message
  <2> DEFINE e == ToolEvent("tool_done", results[next].calls)
  <2>4. e \in AnEvent /\ e.type = "tool_done"
    BY <1>0, <2>2, <2>3, CallEvents DEF ToolEvent, TurnInv
  <2>5. Send(e) /\ UNCHANGED <<received, stored>> /\ at' = at
    BY <1>3 DEF SendToolDone, answer
  <2> HIDE DEF e
  <2>6. Log' = Append(Log, e)
    BY <1>0, <2>4, <2>5, LogSend
  <2> QED
    BY <2>1, <2>4, <2>5, <2>6 DEF Sends, Ends
<1> QED
  BY <1>1, <1>2, <1>3

LEMMA SendsOne ==
  ASSUME TurnInv, [Next]_vars
  PROVE  Silent \/ \E e \in AnEvent : Sends(e)
BY NextCases, SilentStatements, SilentRound, SilentReceive, SendingSteps

(* A silent step is a stutter of the event stream, or closes it. *)
LEMMA SilentStep ==
  ASSUME EventInv, Silent
  PROVE  EventInv' /\ [Events!Next]_(Events!vars)
<1>1. \A type : Events!Sent(type)' <=> Events!Sent(type)
  BY DEF Silent, Events!Sent
<1>2. EventInv'
  BY <1>1 DEF Silent, EventInv, Ends
<1>3. CASE at' = "closed" <=> at = "closed"
  <2>1. (at = "closed")' = (at = "closed")
    BY <1>3, Zenon
  <2>2. UNCHANGED Events!vars
    BY <2>1 DEF Silent, Events!vars
  <2> QED
    BY <1>2, <2>2
<1>4. CASE at = "closing" /\ at' = "closed"
  <2>1. (at = "closed")' = TRUE
    BY <1>4, Zenon
  <2>2. ~(at = "closed") /\ Events!Sent("done") /\ UNCHANGED Log
    BY <1>4 DEF Silent, EventInv
  <2>3. Events!Close
    BY <2>1, <2>2 DEF Events!Close
  <2> QED
    BY <1>2, <2>3 DEF Events!Next
<1> QED
  BY <1>3, <1>4 DEF Silent, Ends

LEMMA SendingStep ==
  ASSUME EventsType, EventInv, NEW e \in AnEvent, Sends(e)
  PROVE  EventInv' /\ [Events!Next]_(Events!vars)
<1>1. \A type : Events!Sent(type)' <=> Events!Sent(type) \/ e.type = type
  <2> SUFFICES ASSUME NEW type
               PROVE  Events!Sent(type)' <=> Events!Sent(type) \/ e.type = type
    OBVIOUS
  <2> QED
    BY SentAppend DEF Sends
<1>2. EventInv'
  BY <1>1 DEF Sends, EventInv, Ends
<1>3. Events!Emit(e)
  BY DEF Sends, EventInv, Ends, Events!Emit
<1> QED
  BY <1>2, <1>3 DEF Events!Next, AnEvent

LEMMA EventInit == Init => EventInv /\ Events!Init
<1> SUFFICES ASSUME Init
             PROVE  EventInv /\ Events!Init
  OBVIOUS
<1>1. Log = <<>> /\ at = "requesting" /\ ~stored
  BY DEF Init, Log
<1> QED
  BY <1>1 DEF EventInv, Ends, Events!Sent, Events!Init

LEMMA EventInvariant ==
  Spec => [](TurnInv /\ EventInv) /\ [][Events!Next]_(Events!vars)
<1>1. TurnInv /\ EventInv /\ [Next]_vars => EventInv' /\ [Events!Next]_(Events!vars)
  <2> SUFFICES ASSUME TurnInv, EventInv, [Next]_vars
               PROVE  EventInv' /\ [Events!Next]_(Events!vars)
    OBVIOUS
  <2>1. EventsType
    BY DEF TurnInv
  <2> QED
    BY <2>1, SendsOne, SilentStep, SendingStep
<1> QED
  BY <1>1, EventInit, TurnInvariant, PTL DEF Spec

(* A turn ends with an error exactly when its messages were not stored. *)
THEOREM TurnErrorMeansNotStored == Spec => []ErrorMeansNotStored
<1>1. EventInv => ErrorMeansNotStored
  BY DEF EventInv, Ends, ErrorMeansNotStored, Events!Sent
<1> QED
  BY <1>1, EventInvariant, PTL

(* ProcessTurn implements EventStream: whatever the model, the tools and   *)
(* the client do, one done event is the last, after an error at most, and  *)
(* then the channel is closed.                                             *)
THEOREM TurnKeepsEventPromise == Spec => KeepsEventPromise
BY EventInit, EventInvariant, PTL DEF Spec, KeepsEventPromise, Events!Spec

-----------------------------------------------------------------------------
(* The messages of the next request.  Position i is in order when a call   *)
(* there is followed by its results, and a result there has its call.      *)

InOrder(m, i) ==
  /\ m[i].role = "assistant" =>
       \A k \in 1..Len(m[i].calls) :
         i + k =< Len(m) /\ m[i + k] = Message("tool", <<m[i].calls[k]>>)
  /\ m[i].role = "tool" =>
       \E j \in 1..(i - 1) : m[j].role = "assistant" /\ i - j =< Len(m[j].calls)

(* The last call is at a, and n of its results have been appended. *)
Appending(m, a, n) ==
  /\ a \in 1..Len(m) /\ n \in Nat /\ a + n = Len(m) /\ n =< Len(calls)
  /\ m[a].role = "assistant" /\ m[a].calls = calls
  /\ \A k \in 1..n : m[a + k] = Message("tool", <<calls[k]>>)
  /\ \A i \in 1..Len(m) : i # a => InOrder(m, i)

MsgsInv ==
  /\ at \in {"requesting", "receiving", "texting"} => \A i \in 1..Len(msgs) : InOrder(msgs, i)
  /\ at \in {"starting", "executing"} => \E a \in 1..Len(msgs) : Appending(msgs, a, 0)
  /\ at = "reporting" => \E a \in 1..Len(msgs) : Appending(msgs, a, next - 1)

LEMMA InOrderAppend ==
  ASSUME NEW m \in Seq(Messages), NEW e \in Messages, NEW i \in 1..Len(m), InOrder(m, i)
  PROVE  InOrder(Append(m, e), i)
<1> DEFINE n == Append(m, e)
<1>1. /\ Len(m) \in Nat /\ Len(n) = Len(m) + 1 /\ \A j \in 1..Len(m) : n[j] = m[j]
  OBVIOUS
<1> HIDE DEF n
<1>2. n[i] = m[i]
  BY <1>1
<1>3. ASSUME n[i].role = "assistant", NEW k \in 1..Len(n[i].calls)
      PROVE  i + k =< Len(n) /\ n[i + k] = Message("tool", <<n[i].calls[k]>>)
  <2>1. i + k =< Len(m) /\ m[i + k] = Message("tool", <<m[i].calls[k]>>)
    BY <1>2, <1>3 DEF InOrder
  <2>2. m[i].calls \in Seq(Indices)
    <3>1. m[i] \in Messages
      BY ElementOfSeq
    <3> QED
      BY <3>1 DEF Messages
  <2>3. k \in Nat /\ k >= 1
    BY <1>2, <1>3, <2>2
  <2>4. i + k \in 1..Len(m) /\ i + k =< Len(n)
    BY <1>1, <2>1, <2>3
  <2> QED
    BY <1>1, <1>2, <2>1, <2>4
<1>4. ASSUME n[i].role = "tool"
      PROVE  \E j \in 1..(i - 1) : n[j].role = "assistant" /\ i - j =< Len(n[j].calls)
  <2>1. PICK j \in 1..(i - 1) : m[j].role = "assistant" /\ i - j =< Len(m[j].calls)
    BY <1>2, <1>4 DEF InOrder
  <2>2. n[j] = m[j]
    BY <1>1
  <2> QED
    BY <2>1, <2>2
<1> QED
  BY <1>3, <1>4 DEF InOrder, n

LEMMA MsgsInit == Init => MsgsInv
<1> SUFFICES ASSUME Init
             PROVE  MsgsInv
  OBVIOUS
<1>1. Len(msgs) = 1 /\ msgs[1].role = "user" /\ at = "requesting"
  BY DEF Init, Message
<1>2. \A i \in 1..Len(msgs) : i = 1
  BY <1>1
<1> QED
  BY <1>1, <1>2 DEF MsgsInv, InOrder

(* The steps that leave the messages alone. *)
LEMMA MsgsKept ==
  ASSUME TurnInv, MsgsInv, [Next]_vars, ~StreamEnds, ~SendToolDone, ~EndRound
  PROVE  MsgsInv'
<1>1. \/ UNCHANGED <<at, msgs, calls, next>>
      \/ UNCHANGED <<msgs, calls>> /\ at' \in {"starting", "executing"} /\ at \in {"starting", "executing"}
      \/ UNCHANGED <<msgs, calls>> /\ at = "executing" /\ at' = "reporting" /\ next' = 1
      \/ UNCHANGED msgs /\ at' \in {"receiving", "texting"} /\ at \in {"requesting", "receiving", "texting"}
      \/ at' \in {"answering", "structuring", "styling", "storing", "compressing",
                "failing", "finishing", "closing", "closed"}
  <2>1. CASE OnlyStatement \/ UNCHANGED vars
    BY <2>1 DEF OnlyStatement, RequestFails, GiveUp, Bare, AskStructured, Structurize, Rewrite,
     StoreTurn, Compress, CloseEvents, Reply, ClientLeaves, vars, loop
  <2>2. CASE Producer \/ ReceiveEvent \/ \E k \in 1..Cardinality(Indices) : ToolReturns(k)
    BY <2>2 DEF Producer, ParseText, ParseToolDeltas, ParseError, Parse, SendChunk, ReplyEnds,
       ToolReturns, ReceiveEvent, loop
  <2>3. CASE SendText \/ SendToolStart \/ SendError \/ SendDone
    BY <2>3 DEF SendText, SendToolStart, SendError, SendDone, loop
  <2>4. CASE Request \/ StartTools \/ WaitTools
    BY <2>4 DEF Request, StartTools, WaitTools, loop
  <2>5. CASE ReceiveChunk
    <3>1. stream \in Seq(Chunks) /\ stream # <<>>
      BY <2>5 DEF ReceiveChunk, TurnInv, ReplyType
    <3>2. Head(stream) \in Chunks
      BY <3>1
    <3>3. Head(stream).kind \in {"text", "tool", "error"}
      BY <3>2 DEF Chunks
    <3>4. at = "receiving" /\ at' \in {"failing", "texting", "receiving"}
      BY <2>5, <3>3 DEF ReceiveChunk
    <3> QED
      BY <2>5, <3>4 DEF ReceiveChunk
  <2> QED
    BY <2>1, <2>2, <2>3, <2>4, <2>5, NextCases
<1>2. \A a, n : UNCHANGED <<msgs, calls>> => (Appending(msgs, a, n)' <=> Appending(msgs, a, n))
  BY DEF Appending
<1>3. next' = 1 => next' - 1 = 0
  OBVIOUS
<1>4. CASE UNCHANGED <<at, msgs, calls, next>>
  BY <1>4 DEF MsgsInv, Appending
<1>5. CASE UNCHANGED <<msgs, calls>> /\ at' \in {"starting", "executing"} /\ at \in {"starting", "executing"}
  BY <1>2, <1>5 DEF MsgsInv
<1>6. CASE UNCHANGED <<msgs, calls>> /\ at = "executing" /\ at' = "reporting" /\ next' = 1
  <2>1. PICK a \in 1..Len(msgs) : Appending(msgs, a, 0)
    BY <1>6 DEF MsgsInv
  <2>2. Appending(msgs, a, next - 1)'
    BY <1>3, <1>6, <2>1 DEF Appending
  <2> QED
    BY <1>6, <2>2 DEF MsgsInv
<1>7. CASE UNCHANGED msgs /\ at' \in {"receiving", "texting"} /\ at \in {"requesting", "receiving", "texting"}
  BY <1>7 DEF MsgsInv
<1>8. CASE at' \in {"answering", "structuring", "styling", "storing", "compressing",
                "failing", "finishing", "closing", "closed"}
  BY <1>8 DEF MsgsInv
<1> QED
  BY <1>1, <1>4, <1>5, <1>6, <1>7, <1>8

(* The message with the calls: no result has been appended yet. *)
LEMMA MsgsStreamEnds ==
  ASSUME TurnInv, MsgsInv, StreamEnds
  PROVE  MsgsInv'
<1> DEFINE e == Message("assistant", calls')
<1>1. calls' \in Seq(Indices)
  <2>1. toolCallMap \subseteq Indices /\ calls' \in CallsOf(toolCallMap)
    BY DEF StreamEnds, TurnInv, LoopType
  <2> QED
    BY <2>1, CallSequences
<1>2. msgs \in Seq(Messages) /\ e \in Messages /\ e.role = "assistant" /\ e.calls = calls'
  BY <1>1 DEF TurnInv, MsgsType, Message, Messages
<1>3. /\ at = "receiving" /\ at' \in {"answering", "starting"} /\ msgs' = Append(msgs, e)
      /\ \A i \in 1..Len(msgs) : InOrder(msgs, i)
  BY DEF StreamEnds, MsgsInv
<1> HIDE DEF e
<1>9. PICK a : a = Len(msgs) + 1
  OBVIOUS
<1>4. /\ Len(msgs') = a /\ a \in 1..Len(msgs') /\ a + 0 = Len(msgs') /\ msgs'[a] = e
      /\ \A i \in 1..Len(msgs') : i # a => i \in 1..Len(msgs)
  BY <1>2, <1>3, <1>9
<1>5. \A i \in 1..Len(msgs) : InOrder(Append(msgs, e), i)
  BY <1>2, <1>3, InOrderAppend
<1>6. \A i \in 1..Len(msgs') : i # a => InOrder(msgs', i)
  BY <1>3, <1>4, <1>5
<1>7. 0 \in Nat /\ 0 =< Len(calls') /\ 1..0 = {}
  BY <1>1
<1>8. Appending(msgs, a, 0)'
  BY <1>2, <1>4, <1>6, <1>7 DEF Appending
<1> QED
  BY <1>3, <1>4, <1>8 DEF MsgsInv

(* One more result: it belongs to the call at a. *)
LEMMA MsgsToolDone ==
  ASSUME TurnInv, MsgsInv, SendToolDone
  PROVE  MsgsInv'
<1> DEFINE e == Message("tool", <<calls[next]>>)
           n == next - 1
<1>1. /\ at = "reporting" /\ at' = at /\ next =< Len(calls) /\ next' = next + 1 /\ calls' = calls
      /\ next \in 1..(Len(calls) + 1) /\ calls \in Seq(Indices) /\ msgs \in Seq(Messages)
      /\ msgs' = Append(msgs, results[next])
  BY DEF SendToolDone, TurnInv, LoopType, MsgsType
<1>2. results[next] = e /\ calls[next] \in Indices
  BY <1>1, ReportedResult
<1>3. e \in Messages /\ e.role = "tool"
  BY <1>2 DEF Message, Messages
<1>4. PICK a \in 1..Len(msgs) : Appending(msgs, a, n)
  BY <1>1 DEF MsgsInv
<1>5. next' - 1 = n + 1 /\ n \in Nat /\ next = n + 1 /\ n + 1 =< Len(calls)
  BY <1>1
<1> HIDE DEF e, n
<1>14. msgs' = Append(msgs, e) /\ msgs \in Seq(Messages) /\ e \in Messages
  BY <1>1, <1>2, <1>3
<1>6. /\ Len(msgs') = Len(msgs) + 1 /\ Len(msgs) \in Nat /\ msgs'[Len(msgs) + 1] = e
      /\ \A i \in 1..Len(msgs) : msgs'[i] = msgs[i]
      /\ \A i \in 1..Len(msgs') : i \in 1..Len(msgs) \/ i = Len(msgs) + 1
  BY <1>14
<1>7. a + n = Len(msgs) /\ a \in Nat /\ a >= 1 /\ n =< Len(calls) /\ Len(calls) \in Nat
  BY <1>1, <1>4 DEF Appending
<1>8. /\ a \in 1..Len(msgs') /\ n + 1 \in Nat /\ a + (n + 1) = Len(msgs') /\ n + 1 =< Len(calls)
      /\ a + (n + 1) = Len(msgs) + 1
  BY <1>5, <1>6, <1>7
<1>9. msgs'[a] = msgs[a] /\ msgs[a].role = "assistant" /\ msgs[a].calls = calls
  BY <1>4, <1>6 DEF Appending
<1>10. ASSUME NEW k \in 1..(n + 1)
       PROVE  msgs'[a + k] = Message("tool", <<calls[k]>>)
  <2>1. CASE k = n + 1
    BY <1>5, <1>6, <1>8, <2>1 DEF e
  <2>2. CASE k # n + 1
    <3>1. k \in 1..n /\ a + k \in 1..Len(msgs)
      BY <1>5, <1>7, <2>2
    <3> QED
      BY <1>4, <1>6, <3>1 DEF Appending
  <2> QED
    BY <2>1, <2>2
<1>11. ASSUME NEW i \in 1..Len(msgs'), i # a
       PROVE  InOrder(msgs', i)
  <2>1. CASE i \in 1..Len(msgs)
    <3>1. InOrder(msgs, i)
      BY <1>4, <1>11, <2>1 DEF Appending
    <3>2. InOrder(Append(msgs, e), i)
      BY <1>1, <1>3, <2>1, <3>1, InOrderAppend
    <3> QED
      BY <1>1, <1>2, <3>2
  <2>2. CASE i = Len(msgs) + 1
    <3>1. msgs'[i].role = "tool"
      BY <1>3, <1>6, <2>2
    <3>2. a \in 1..(i - 1) /\ i - a =< Len(calls)
      BY <1>7, <1>8, <2>2
    <3>3. msgs'[a].role = "assistant" /\ i - a =< Len(msgs'[a].calls)
      BY <1>9, <3>2
    <3> QED
      BY <3>1, <3>2, <3>3 DEF InOrder
  <2> QED
    BY <1>6, <2>1, <2>2
<1>12. Appending(msgs', a, n + 1)
  BY <1>8, <1>9, <1>10, <1>11 DEF Appending
<1>13. Appending(msgs, a, next - 1)'
  BY <1>1, <1>5, <1>12 DEF Appending
<1> QED
  BY <1>1, <1>8, <1>13 DEF MsgsInv

(* All the results are there. *)
LEMMA MsgsEndRound ==
  ASSUME TurnInv, MsgsInv, EndRound
  PROVE  MsgsInv'
<1>1. /\ at = "reporting" /\ at' \in {"requesting", "answering"} /\ msgs' = msgs
      /\ next > Len(calls) /\ next \in 1..(Len(calls) + 1) /\ Len(calls) \in Nat
  BY DEF EndRound, TurnInv, LoopType
<1>2. PICK a \in 1..Len(msgs) : Appending(msgs, a, next - 1)
  BY <1>1 DEF MsgsInv
<1>3. next - 1 = Len(calls)
  BY <1>1
<1>4. InOrder(msgs, a)
  <2>1. ASSUME NEW k \in 1..Len(msgs[a].calls)
        PROVE  a + k =< Len(msgs) /\ msgs[a + k] = Message("tool", <<msgs[a].calls[k]>>)
    <3>1. k \in 1..Len(calls) /\ msgs[a].calls = calls /\ a + Len(calls) = Len(msgs)
      BY <1>2, <1>3, <2>1 DEF Appending
    <3>2. a + k =< Len(msgs)
      BY <1>1, <3>1
    <3> QED
      BY <1>2, <1>3, <3>1, <3>2 DEF Appending
  <2>2. msgs[a].role # "tool"
    BY <1>2 DEF Appending
  <2> QED
    BY <2>1, <2>2 DEF InOrder
<1>5. \A i \in 1..Len(msgs) : InOrder(msgs, i)
  BY <1>2, <1>4 DEF Appending
<1> QED
  BY <1>1, <1>5 DEF MsgsInv

(* Every request to the model is well formed: the results of the calls     *)
(* follow them, all of them, in their order, and nothing else does.        *)
THEOREM TurnRequestsWellFormed == Spec => []RequestsWellFormed
<1>1. TurnInv /\ MsgsInv /\ [Next]_vars => MsgsInv'
  BY MsgsKept, MsgsStreamEnds, MsgsToolDone, MsgsEndRound
<1>2. MsgsInv => RequestsWellFormed
  BY DEF MsgsInv, InOrder, RequestsWellFormed
<1> QED
  BY <1>1, <1>2, MsgsInit, TurnInvariant, PTL DEF Spec

-----------------------------------------------------------------------------
(* The events of the tools.  Calls are told of round by round, and within  *)
(* a round in the order of their indices.                                  *)

Told(type) == {i \in 1..Len(Log) : Log[i].type = type}

CallsTold(type) == {Log[i].call : i \in Told(type)}

Started == CallsTold("tool_start")

Finished == CallsTold("tool_done")

Before(b, c) == b[1] < c[1] \/ (b[1] = c[1] /\ b[2] < c[2])

Ascending(type) == \A i, j \in Told(type) : i < j => Before(Log[i].call, Log[j].call)

OrderInv ==
  /\ Ascending("tool_start") /\ Ascending("tool_done")
  /\ \A j \in Told("tool_done") :
       \E i \in Told("tool_start") : i < j /\ Log[i].call = Log[j].call
  /\ \A b \in Started, c \in Finished : Before(b, c) => b \in Finished

(* The calls of earlier rounds, which are all finished, and the first      *)
(* calls of this one: s of them are started, d of them finished.           *)
Earlier == {c \in Finished : c[1] < round}

FirstCalls(n) == {<<round, calls[k]>> : k \in 1..n}

Progress(s, d) == Started = Earlier \union FirstCalls(s) /\ Finished = Earlier \union FirstCalls(d)

PhaseInv ==
  /\ at \in {"starting", "executing", "reporting"} =>
       \A j, k \in 1..Len(calls) : j < k => calls[j] < calls[k]
  /\ at = "executing" => next = Len(calls) + 1
  /\ at \in {"requesting", "receiving", "texting"} => Progress(0, 0)
  /\ at \in {"starting", "executing"} => Progress(next - 1, 0)
  /\ at = "reporting" => Progress(Len(calls), next - 1)
  /\ at \in {"answering", "structuring", "styling", "storing"} => Started = Finished

LEMMA ResultsInit == Init => OrderInv /\ PhaseInv
<1> SUFFICES ASSUME Init
             PROVE  OrderInv /\ PhaseInv
  OBVIOUS
<1>1. Log = <<>> /\ at = "requesting"
  BY DEF Init, Log
<1>2. \A type : Told(type) = {} /\ CallsTold(type) = {}
  BY <1>1 DEF Told, CallsTold
<1>3. Started = {} /\ Finished = {} /\ Earlier = {} /\ FirstCalls(0) = {}
  BY <1>2 DEF Started, Finished, Earlier, FirstCalls
<1> QED
  BY <1>1, <1>2, <1>3 DEF OrderInv, Ascending, PhaseInv, Progress

(* The calls in the events, as pairs of a round and an index. *)
LEMMA CallsToldType ==
  ASSUME EventsType, NEW type \in {"tool_start", "tool_done"}
  PROVE  /\ \A i \in Told(type) : i \in 1..Len(Log) /\ Log[i].call \in CallIds
         /\ CallsTold(type) \subseteq CallIds
<1>1. Log \in Seq(AnEvent)
  BY LogType
<1>2. ASSUME NEW i \in Told(type)
      PROVE  i \in 1..Len(Log) /\ Log[i].call \in CallIds
  <2>1. i \in 1..Len(Log) /\ Log[i].type = type
    BY DEF Told
  <2>2. Log[i] \in AnEvent
    BY <1>1, <2>1
  <2> QED
    BY <2>1, <2>2 DEF AnEvent, Events!Event
<1> QED
  BY <1>2 DEF CallsTold

LEMMA CallIdsType ==
  ASSUME NEW c \in CallIds
  PROVE  c[1] \in Nat /\ c[1] \in 1..MaxRounds /\ c[2] \in Nat /\ c[2] \in Indices /\ c = <<c[1], c[2]>>
<1>1. c[1] \in 1..MaxRounds /\ c[2] \in Indices /\ c = <<c[1], c[2]>>
  BY DEF CallIds
<1>2. \A n \in 1..MaxRounds : n \in Nat
  BY Assumptions
<1>3. \A i \in Indices : i \in Nat
  BY Assumptions
<1> QED
  BY <1>1, <1>2, <1>3

(* One more event. *)
LEMMA ToldAppend ==
  ASSUME EventsType, NEW e \in AnEvent, Log' = Append(Log, e), NEW type
  PROVE  /\ e.type # type => Told(type)' = Told(type) /\ CallsTold(type)' = CallsTold(type)
         /\ e.type = type => /\ Told(type)' = Told(type) \union {Len(Log) + 1}
                             /\ CallsTold(type)' = CallsTold(type) \union {e.call}
         /\ \A i \in Told(type) : i \in 1..Len(Log) /\ Log'[i] = Log[i]
         /\ Log'[Len(Log) + 1] = e /\ Len(Log) \in Nat
<1>1. /\ Len(Log') = Len(Log) + 1 /\ Log'[Len(Log) + 1] = e /\ Len(Log) \in Nat
      /\ \A i \in 1..Len(Log) : Log'[i] = Log[i]
      /\ \A i : i \in 1..Len(Log') <=> i \in 1..Len(Log) \/ i = Len(Log) + 1
  BY LogType
<1>2. \A i \in Told(type) : i \in 1..Len(Log) /\ Log'[i] = Log[i]
  BY <1>1 DEF Told
<1>3. CASE e.type # type
  <2>1. Told(type)' = Told(type)
    BY <1>1, <1>3 DEF Told
  <2>2. CallsTold(type)' = CallsTold(type)
    BY <1>2, <2>1 DEF CallsTold
  <2> QED
    BY <1>1, <1>2, <1>3, <2>1, <2>2
<1>4. CASE e.type = type
  <2>1. Told(type)' = Told(type) \union {Len(Log) + 1}
    BY <1>1, <1>4 DEF Told
  <2>2. CallsTold(type)' = CallsTold(type) \union {e.call}
    BY <1>1, <1>2, <2>1 DEF CallsTold
  <2> QED
    BY <1>1, <1>2, <1>4, <2>1, <2>2
<1> QED
  BY <1>3, <1>4

(* A new call comes after all that were told of. *)
LEMMA AscendingAppend ==
  ASSUME EventsType, NEW e \in AnEvent, Log' = Append(Log, e), NEW type, Ascending(type),
         e.type = type => \A b \in CallsTold(type) : Before(b, e.call)
  PROVE  Ascending(type)'
<1> SUFFICES ASSUME NEW i \in Told(type)', NEW j \in Told(type)', i < j
             PROVE  Before(Log'[i].call, Log'[j].call)
  BY DEF Ascending, Before
<1>1. /\ \A n \in Told(type) : n \in 1..Len(Log) /\ Log'[n] = Log[n]
      /\ Log'[Len(Log) + 1] = e /\ Len(Log) \in Nat
      /\ e.type # type => Told(type)' = Told(type)
      /\ e.type = type => Told(type)' = Told(type) \union {Len(Log) + 1}
  BY ToldAppend
<1>2. CASE j \in Told(type)
  <2>1. i \in Told(type)
    BY <1>1, <1>2
  <2> QED
    BY <1>1, <1>2, <2>1 DEF Ascending
<1>3. CASE j \notin Told(type)
  <2>1. j = Len(Log) + 1 /\ e.type = type /\ i \in Told(type)
    BY <1>1, <1>3
  <2>2. Log[i].call \in CallsTold(type)
    BY <2>1 DEF CallsTold
  <2> QED
    BY <1>1, <2>1, <2>2
<1> QED
  BY <1>2, <1>3

(* The steps that tell of no tool. *)
LEMMA OrderKept ==
  ASSUME EventsType, OrderInv,
         Log' = Log \/ \E e \in AnEvent : Log' = Append(Log, e) /\ e.type \notin {"tool_start", "tool_done"}
  PROVE  OrderInv' /\ Started' = Started /\ Finished' = Finished
<1>1. CASE Log' = Log
  <2>1. \A type : Told(type)' = Told(type)
    BY <1>1 DEF Told
  <2>2. \A type : CallsTold(type)' = CallsTold(type)
    BY <1>1, <2>1 DEF CallsTold
  <2>3. Started' = Started /\ Finished' = Finished
    BY <2>2 DEF Started, Finished
  <2> QED
    BY <1>1, <2>1, <2>3 DEF OrderInv, Ascending, Before
<1>2. CASE \E e \in AnEvent : Log' = Append(Log, e) /\ e.type \notin {"tool_start", "tool_done"}
  <2>1. PICK e \in AnEvent : Log' = Append(Log, e) /\ e.type \notin {"tool_start", "tool_done"}
    BY <1>2
  <2>2. /\ Told("tool_start")' = Told("tool_start") /\ Told("tool_done")' = Told("tool_done")
        /\ Started' = Started /\ Finished' = Finished
    BY <2>1, ToldAppend DEF Started, Finished
  <2>3. \A i \in Told("tool_start") \union Told("tool_done") : Log'[i] = Log[i]
    BY <2>1, ToldAppend
  <2>4. Ascending("tool_start")' /\ Ascending("tool_done")'
    BY <2>1, AscendingAppend DEF OrderInv
  <2> QED
    BY <2>2, <2>3, <2>4 DEF OrderInv, Before
<1> QED
  BY <1>1, <1>2

(* Nothing is told of: the progress of the round as the statement sees it. *)
LEMMA PhaseKept ==
  ASSUME TurnInv, PhaseInv, [Next]_vars, ~SendToolStart, ~SendToolDone,
         Started' = Started, Finished' = Finished
  PROVE  PhaseInv'
<1> DEFINE Asking == {"requesting", "receiving", "texting"}
           Ending == {"answering", "structuring", "styling", "storing"}
           Gone == {"compressing", "failing", "finishing", "closing", "closed"}
<1>0. round \in Nat /\ next \in Nat /\ Len(calls) \in Nat
  BY Assumptions DEF TurnInv, LoopType
<1>1. \/ UNCHANGED <<at, round, calls, next>>
      \/ at \in Asking /\ at' \in Asking /\ round' = round
      \/ StreamEnds
      \/ at = "starting" /\ at' = "executing" /\ next > Len(calls) /\ UNCHANGED <<round, calls, next>>
      \/ at = "executing" /\ at' = "reporting" /\ next' = 1 /\ UNCHANGED <<round, calls>>
      \/ EndRound
      \/ at \in Ending /\ at' \in Ending
      \/ at' \in Gone
  <2>1. CASE OnlyStatement \/ UNCHANGED vars
    BY <2>1 DEF OnlyStatement, RequestFails, GiveUp, Bare, AskStructured, Structurize, Rewrite,
     StoreTurn, Compress, CloseEvents, Reply, ClientLeaves, vars, loop
  <2>2. CASE Producer \/ ReceiveEvent \/ \E k \in 1..Cardinality(Indices) : ToolReturns(k)
    BY <2>2 DEF Producer, ParseText, ParseToolDeltas, ParseError, Parse, SendChunk, ReplyEnds,
       ToolReturns, ReceiveEvent, loop
  <2>3. CASE SendText \/ SendError \/ SendDone
    BY <2>3 DEF SendText, SendError, SendDone, loop
  <2>4. CASE Request \/ StartTools \/ WaitTools
    BY <2>4 DEF Request, StartTools, WaitTools, loop
  <2>5. CASE ReceiveChunk
    <3>1. stream \in Seq(Chunks) /\ stream # <<>>
      BY <2>5 DEF ReceiveChunk, TurnInv, ReplyType
    <3>2. Head(stream) \in Chunks
      BY <3>1
    <3>3. Head(stream).kind \in {"text", "tool", "error"}
      BY <3>2 DEF Chunks
    <3>4. at = "receiving" /\ at' \in {"failing", "texting", "receiving"}
      BY <2>5, <3>3 DEF ReceiveChunk
    <3> QED
      BY <2>5, <3>4 DEF ReceiveChunk
  <2> QED
    BY <2>1, <2>2, <2>3, <2>4, <2>5, NextCases
<1>2. FirstCalls(0) = {} /\ FirstCalls(0)' = {} /\ \A d : d = 0 => FirstCalls(d)' = {}
  BY DEF FirstCalls
<1>3. round' = round => Earlier' = Earlier
  BY DEF Earlier
<1>4. CASE UNCHANGED <<at, round, calls, next>>
  BY <1>3, <1>4 DEF PhaseInv, Progress, FirstCalls
<1>5. CASE at \in Asking /\ at' \in Asking /\ round' = round
  BY <1>2, <1>3, <1>5 DEF PhaseInv, Progress
<1>6. CASE StreamEnds
  <2>1. /\ at = "receiving" /\ at' \in {"answering", "starting"} /\ next' = 1 /\ round' = round
        /\ Started = Finished /\ Progress(0, 0)
    BY <1>2, <1>6 DEF StreamEnds, PhaseInv, Progress
  <2>2. \A j, k \in 1..Len(calls') : j < k => calls'[j] < calls'[k]
    <3>1. toolCallMap \subseteq Indices /\ calls' \in CallsOf(toolCallMap)
      BY <1>6 DEF StreamEnds, TurnInv, LoopType
    <3> QED
      BY <3>1, CallSequences
  <2>3. next' - 1 = 0
    BY <2>1
  <2>4. Progress(next - 1, 0)'
    BY <1>2, <1>3, <2>1, <2>3 DEF Progress
  <2> QED
    BY <2>1, <2>2, <2>4 DEF PhaseInv
<1>7. CASE at = "starting" /\ at' = "executing" /\ next > Len(calls) /\ UNCHANGED <<round, calls, next>>
  <2>1. next = Len(calls) + 1
    BY <1>0, <1>7 DEF TurnInv, LoopType
  <2>2. Progress(next - 1, 0)'
    BY <1>3, <1>7 DEF PhaseInv, Progress, FirstCalls
  <2> QED
    BY <1>7, <2>1, <2>2 DEF PhaseInv
<1>8. CASE at = "executing" /\ at' = "reporting" /\ next' = 1 /\ UNCHANGED <<round, calls>>
  <2>1. next - 1 = Len(calls) /\ next' - 1 = 0
    BY <1>0, <1>8 DEF PhaseInv
  <2>2. Progress(Len(calls), 0)
    BY <1>8, <2>1 DEF PhaseInv
  <2>3. Progress(Len(calls), next - 1)'
    BY <1>2, <1>3, <1>8, <2>1, <2>2 DEF Progress, FirstCalls
  <2> QED
    BY <1>8, <2>3 DEF PhaseInv
<1>9. CASE EndRound
  <2>1. at = "reporting" /\ at' \in {"requesting", "answering"} /\ next > Len(calls)
    BY <1>9 DEF EndRound
  <2>2. next - 1 = Len(calls)
    BY <1>0, <2>1 DEF TurnInv, LoopType
  <2>3. Progress(Len(calls), Len(calls))
    BY <2>1, <2>2 DEF PhaseInv
  <2>4. Started = Finished /\ \A c \in Finished : c[1] =< round
    <3>1. \A c \in Earlier : c[1] < round
      BY DEF Earlier
    <3>2. \A c \in Earlier : c \in CallIds
      BY CallsToldType DEF Earlier, Finished, TurnInv
    <3>3. \A c \in Earlier : c[1] =< round
      BY <1>0, <3>1, <3>2, CallIdsType
    <3>4. \A c \in FirstCalls(Len(calls)) : c[1] =< round
      BY <1>0 DEF FirstCalls
    <3> QED
      BY <2>3, <3>3, <3>4 DEF Progress
  <2>5. ASSUME at' = "requesting"
        PROVE  Progress(0, 0)'
    <3>1. round' = round + 1
      BY <2>5, <1>9 DEF EndRound
    <3>2. \A c \in Finished : c[1] < round'
      BY <1>0, <2>4, <3>1, CallsToldType, CallIdsType DEF Finished, TurnInv
    <3>3. Earlier' = Finished
      BY <3>2 DEF Earlier
    <3> QED
      BY <1>2, <2>4, <3>3 DEF Progress
  <2> QED
    BY <2>1, <2>4, <2>5 DEF PhaseInv
<1>10. CASE at \in Ending /\ at' \in Ending
  BY <1>10 DEF PhaseInv
<1>11. CASE at' \in Gone
  BY <1>11 DEF PhaseInv
<1> QED
  BY <1>1, <1>4, <1>5, <1>6, <1>7, <1>8, <1>9, <1>10, <1>11

(* What the two sends of the engine about its tools append to the log. *)
LEMMA TellsOf ==
  ASSUME TurnInv, NEW type \in {"tool_start", "tool_done"},
         type = "tool_start" => SendToolStart, type = "tool_done" => SendToolDone
  PROVE  /\ next \in 1..Len(calls) /\ next' = next + 1 /\ UNCHANGED <<at, round, calls>>
         /\ <<round, calls[next]>> \in CallIds
         /\ \E e \in AnEvent : e.type = type /\ e.call = <<round, calls[next]>> /\ Log' = Append(Log, e)
<1>0. EventsType /\ LoopType /\ calls \in Seq(Indices)
  BY DEF TurnInv, LoopType
<1>1. /\ next \in 1..Len(calls) /\ next' = next + 1 /\ UNCHANGED <<at, round, calls, received>>
  BY <1>0 DEF SendToolStart, SendToolDone, LoopType
<1>2. calls[next] \in Indices
  BY <1>0, <1>1
<1> DEFINE e == ToolEvent(type, <<calls[next]>>)
<1>3. e \in AnEvent /\ e.type = type /\ e.call = <<round, calls[next]>> /\ <<round, calls[next]>> \in CallIds
  <2>1. /\ e = [type |-> type, call |-> <<round, calls[next]>>]
        /\ e \in AnEvent /\ <<round, calls[next]>> \in CallIds
    BY <1>0, <1>2, CallEvents
  <2> HIDE DEF e
  <2> QED
    BY <2>1
<1>4. Send(e)
  <2>1. CASE type = "tool_start"
    BY <2>1 DEF SendToolStart
  <2>2. CASE type = "tool_done"
    <3>1. results[next] = Message("tool", <<calls[next]>>)
      BY <1>1, <2>2, ReportedResult DEF SendToolDone
    <3>2. results[next].calls = <<calls[next]>>
      BY <3>1 DEF Message
    <3> QED
      BY <2>2, <3>2 DEF SendToolDone
  <2> QED
    BY <2>1, <2>2
<1> HIDE DEF e
<1>5. Log' = Append(Log, e)
  BY <1>0, <1>1, <1>3, <1>4, LogSend
<1> QED
  BY <1>1, <1>3, <1>5

(* The first calls of a round, and the next. *)
LEMMA FirstCallsNext ==
  ASSUME TurnInv, next \in 1..Len(calls),
         \A j, k \in 1..Len(calls) : j < k => calls[j] < calls[k]
  PROVE  /\ FirstCalls(next) = FirstCalls(next - 1) \union {<<round, calls[next]>>}
         /\ \A b \in Earlier \union FirstCalls(next - 1) : Before(b, <<round, calls[next]>>)
         /\ \A b \in FirstCalls(Len(calls)) :
              Before(b, <<round, calls[next]>>) => b \in FirstCalls(next - 1)
         /\ \A b \in Earlier : ~Before(<<round, calls[next]>>, b)
<1>0. next \in Nat /\ round \in Nat /\ Len(calls) \in Nat /\ \A k \in 1..Len(calls) : calls[k] \in Nat
  <2>1. calls \in Seq(Indices) /\ next \in Nat /\ round \in Nat
    BY Assumptions DEF TurnInv, LoopType
  <2>2. Len(calls) \in Nat /\ \A k \in 1..Len(calls) : calls[k] \in Indices
    BY <2>1
  <2>3. \A i \in Indices : i \in Nat
    BY Assumptions
  <2> QED
    BY <2>1, <2>2, <2>3
<1>1. FirstCalls(next) = FirstCalls(next - 1) \union {<<round, calls[next]>>}
  <2>1. \A k : k \in 1..next <=> k \in 1..(next - 1) \/ k = next
    BY <1>0
  <2> QED
    BY <2>1 DEF FirstCalls
<1>2. \A b \in Earlier : b[1] \in Nat /\ b[1] < round
  BY CallsToldType, CallIdsType DEF Earlier, Finished, TurnInv
<1>3. ASSUME NEW b \in FirstCalls(next - 1)
      PROVE  Before(b, <<round, calls[next]>>)
  <2>1. PICK k \in 1..(next - 1) : b = <<round, calls[k]>>
    BY DEF FirstCalls
  <2>2. k \in 1..Len(calls) /\ k < next
    BY <1>0
  <2> QED
    BY <2>1, <2>2 DEF Before
<1>4. ASSUME NEW b \in FirstCalls(Len(calls)), Before(b, <<round, calls[next]>>)
      PROVE  b \in FirstCalls(next - 1)
  <2>1. PICK k \in 1..Len(calls) : b = <<round, calls[k]>>
    BY DEF FirstCalls
  <2>2. calls[k] < calls[next]
    BY <1>0, <1>4, <2>1 DEF Before
  <2>3. ~(next < k) /\ k # next
    BY <1>0, <2>2
  <2>4. k \in 1..(next - 1)
    BY <1>0, <2>3
  <2> QED
    BY <2>1, <2>4 DEF FirstCalls
<1> QED
  BY <1>0, <1>1, <1>2, <1>3, <1>4 DEF Before

LEMMA ResultsToolStart ==
  ASSUME TurnInv, OrderInv, PhaseInv, SendToolStart
  PROVE  OrderInv' /\ PhaseInv'
<1> DEFINE c == <<round, calls[next]>>
<1>1. PICK e \in AnEvent : e.type = "tool_start" /\ e.call = c /\ Log' = Append(Log, e)
  BY TellsOf
<1>2. /\ next \in 1..Len(calls) /\ next' = next + 1 /\ UNCHANGED <<at, round, calls>> /\ c \in CallIds
      /\ at = "starting" /\ EventsType
  BY TellsOf DEF SendToolStart, TurnInv
<1>3. \A j, k \in 1..Len(calls) : j < k => calls[j] < calls[k]
  BY <1>2 DEF PhaseInv
<1>4. Started = Earlier \union FirstCalls(next - 1) /\ Finished = Earlier
  <2>1. Progress(next - 1, 0)
    BY <1>2 DEF PhaseInv
  <2>2. FirstCalls(0) = {}
    BY DEF FirstCalls
  <2> QED
    BY <2>1, <2>2 DEF Progress
<1>5. /\ FirstCalls(next) = FirstCalls(next - 1) \union {c}
      /\ \A b \in Started : Before(b, c)
      /\ \A b \in Finished : ~Before(c, b)
  BY <1>2, <1>3, <1>4, FirstCallsNext
<1> HIDE DEF c
<1>6. /\ Started' = Started \union {c} /\ Finished' = Finished
      /\ Told("tool_start")' = Told("tool_start") \union {Len(Log) + 1}
      /\ Told("tool_done")' = Told("tool_done")
      /\ \A i \in Told("tool_start") \union Told("tool_done") : Log'[i] = Log[i]
  BY <1>1, <1>2, ToldAppend DEF Started, Finished
<1>7. Ascending("tool_start")' /\ Ascending("tool_done")'
  BY <1>1, <1>2, <1>5, AscendingAppend DEF OrderInv, Started
<1>8. OrderInv'
  <2>1. \A j \in Told("tool_done")' :
          \E i \in Told("tool_start")' : i < j /\ Log'[i].call = Log'[j].call
    BY <1>6 DEF OrderInv
  <2>2. ASSUME NEW b \in Started', NEW d \in Finished', Before(b, d)
        PROVE  b \in Finished'
    BY <1>5, <1>6, <2>2 DEF OrderInv
  <2> QED
    BY <1>7, <2>1, <2>2 DEF OrderInv, Before
<1>9. Progress(next - 1, 0)'
  <2>1. Earlier' = Earlier /\ FirstCalls(0) = {} /\ FirstCalls(0)' = {}
    BY <1>2, <1>6 DEF Earlier, FirstCalls
  <2>2. next' - 1 = next
    BY <1>2
  <2>3. FirstCalls(next - 1)' = FirstCalls(next)
    BY <1>2, <2>2 DEF FirstCalls
  <2> QED
    BY <1>4, <1>5, <1>6, <2>1, <2>3 DEF Progress
<1> QED
  BY <1>2, <1>3, <1>8, <1>9 DEF PhaseInv

LEMMA ResultsToolDone ==
  ASSUME TurnInv, OrderInv, PhaseInv, SendToolDone
  PROVE  OrderInv' /\ PhaseInv'
<1> DEFINE c == <<round, calls[next]>>
<1>1. PICK e \in AnEvent : e.type = "tool_done" /\ e.call = c /\ Log' = Append(Log, e)
  BY TellsOf
<1>2. /\ next \in 1..Len(calls) /\ next' = next + 1 /\ UNCHANGED <<at, round, calls>> /\ c \in CallIds
      /\ at = "reporting" /\ EventsType
  BY TellsOf DEF SendToolDone, TurnInv
<1>3. \A j, k \in 1..Len(calls) : j < k => calls[j] < calls[k]
  BY <1>2 DEF PhaseInv
<1>4. /\ Started = Earlier \union FirstCalls(Len(calls))
      /\ Finished = Earlier \union FirstCalls(next - 1)
  BY <1>2 DEF PhaseInv, Progress
<1>5. /\ FirstCalls(next) = FirstCalls(next - 1) \union {c}
      /\ \A b \in Finished : Before(b, c)
      /\ \A b \in FirstCalls(Len(calls)) : Before(b, c) => b \in FirstCalls(next - 1)
  BY <1>2, <1>3, <1>4, FirstCallsNext
<1>6. c \in Started
  BY <1>2, <1>4 DEF FirstCalls
<1>7. c[1] = round /\ round \in Nat
  BY Assumptions DEF TurnInv, LoopType
<1> HIDE DEF c
<1>8. /\ Started' = Started /\ Finished' = Finished \union {c}
      /\ Told("tool_start")' = Told("tool_start")
      /\ Told("tool_done")' = Told("tool_done") \union {Len(Log) + 1}
      /\ \A i \in Told("tool_start") \union Told("tool_done") : Log'[i] = Log[i] /\ i \in 1..Len(Log)
      /\ Log'[Len(Log) + 1] = e /\ Len(Log) \in Nat
  BY <1>1, <1>2, ToldAppend DEF Started, Finished
<1>9. Ascending("tool_start")' /\ Ascending("tool_done")'
  BY <1>1, <1>2, <1>5, AscendingAppend DEF OrderInv, Finished
<1>10. OrderInv'
  <2>1. ASSUME NEW j \in Told("tool_done")'
        PROVE  \E i \in Told("tool_start")' : i < j /\ Log'[i].call = Log'[j].call
    <3>1. CASE j \in Told("tool_done")
      BY <1>8, <3>1 DEF OrderInv
    <3>2. CASE j = Len(Log) + 1
      <4>1. PICK i \in Told("tool_start") : Log[i].call = c
        BY <1>6 DEF Started, CallsTold
      <4>2. i < j /\ Log'[i].call = Log'[j].call
        BY <1>1, <1>8, <3>2, <4>1
      <4> QED
        BY <1>8, <4>2
    <3> QED
      BY <1>8, <3>1, <3>2
  <2>2. ASSUME NEW b \in Started', NEW d \in Finished', Before(b, d)
        PROVE  b \in Finished'
    BY <1>4, <1>5, <1>8, <2>2 DEF OrderInv
  <2> QED
    BY <1>9, <2>1, <2>2 DEF OrderInv, Before
<1>11. Progress(Len(calls), next - 1)'
  <2>1. Earlier' = Earlier
    <3>1. ~(c[1] < round)
      BY <1>7
    <3> QED
      BY <1>2, <1>8, <3>1 DEF Earlier
  <2>2. next' - 1 = next
    BY <1>2
  <2>3. FirstCalls(next - 1)' = FirstCalls(next) /\ FirstCalls(Len(calls))' = FirstCalls(Len(calls))
    BY <1>2, <2>2 DEF FirstCalls
  <2> QED
    BY <1>4, <1>5, <1>8, <2>1, <2>3 DEF Progress
<1> QED
  BY <1>2, <1>3, <1>11, <1>10 DEF PhaseInv

LEMMA ResultsStep ==
  ASSUME TurnInv, OrderInv, PhaseInv, [Next]_vars
  PROVE  OrderInv' /\ PhaseInv'
<1>1. CASE SendToolStart
  BY <1>1, ResultsToolStart
<1>2. CASE SendToolDone
  BY <1>2, ResultsToolDone
<1>3. CASE ~SendToolStart /\ ~SendToolDone
  <2>0. EventsType
    BY DEF TurnInv
  <2>1. Log' = Log \/ \E e \in AnEvent : Log' = Append(Log, e) /\ e.type \notin {"tool_start", "tool_done"}
    <3>1. CASE SendText \/ SendError \/ SendDone
      <4>1. PICK type \in {"text", "error", "done"} : Send(Event(type)) /\ UNCHANGED received
        BY <3>1 DEF SendText, SendError, SendDone
      <4>2. Event(type) \in AnEvent /\ Event(type).type = type
        BY PlainEvents DEF Event
      <4> QED
        BY <2>0, <4>1, <4>2, LogSend
    <3>2. CASE ~(SendText \/ SendError \/ SendDone)
      <4>1. Silent
        BY <1>3, <3>2, NextCases, SilentStatements, SilentRound, SilentReceive
      <4> QED
        BY <4>1 DEF Silent
    <3> QED
      BY <3>1, <3>2
  <2>2. OrderInv' /\ Started' = Started /\ Finished' = Finished
    BY <2>0, <2>1, OrderKept
  <2> QED
    BY <1>3, <2>2, PhaseKept
<1> QED
  BY <1>1, <1>2, <1>3

(* Calls come before one another in one direction only, and a call of one  *)
(* position is that of no other.                                           *)
LEMMA BeforeIsStrict ==
  ASSUME NEW b \in CallIds, NEW c \in CallIds, Before(b, c)
  PROVE  b # c /\ ~Before(c, b)
BY CallIdsType DEF Before

(* The client is told of the results in the order of the calls, each after *)
(* its call and once, and of all of them before the engine goes on: for    *)
(* any number of rounds and calls, and however the tools finish.           *)
THEOREM TurnResultsFollowCalls == Spec => []ResultsFollowCalls
<1>1. TurnInv /\ OrderInv /\ PhaseInv => ResultsFollowCalls
  <2> SUFFICES ASSUME TurnInv, OrderInv, PhaseInv
               PROVE  ResultsFollowCalls
    OBVIOUS
  <2> DEFINE started == Told("tool_start")
             done == Told("tool_done")
  <2>0. /\ \A i \in started : i \in 1..Len(Log) /\ Log[i].call \in CallIds /\ Log[i].call \in Started
        /\ \A i \in done : i \in 1..Len(Log) /\ Log[i].call \in CallIds /\ Log[i].call \in Finished
        /\ Len(Log) \in Nat
    BY CallsToldType, LogType DEF TurnInv, Started, Finished, CallsTold
  <2>1. /\ \A i, j \in started : i < j => Before(Log[i].call, Log[j].call)
        /\ \A i, j \in done : i < j => Before(Log[i].call, Log[j].call)
    BY DEF OrderInv, Ascending
  <2>2. \A b \in Finished : \E j \in done : Log[j].call = b
    BY DEF Finished, CallsTold
  <2>3. \A j \in done : \E i \in started : i < j /\ Log[i].call = Log[j].call
    BY DEF OrderInv
  <2>4. at \in {"requesting", "answering", "storing"} => Started = Finished
    BY DEF PhaseInv, Progress
  <2>5. \A b \in Started, c \in Finished : Before(b, c) => b \in Finished
    BY DEF OrderInv
  <2>6. /\ started = {i \in 1..Len(Log) : Log[i].type = "tool_start"}
        /\ done = {i \in 1..Len(Log) : Log[i].type = "tool_done"}
    BY DEF Told
  <2> HIDE DEF started, done
  <2>7. ASSUME NEW i \in 1..Len(Log), NEW j \in 1..Len(Log), Log[i].call = Log[j].call,
               (i \in started /\ j \in started) \/ (i \in done /\ j \in done)
        PROVE  i = j
    <3>1. ~(i < j) /\ ~(j < i)
      BY <2>0, <2>1, <2>7, BeforeIsStrict
    <3> QED
      BY <2>0, <3>1
  <2>8. ASSUME NEW i \in started, NEW k \in started, NEW l \in done, i < k, Log[k].call = Log[l].call
        PROVE  \E j \in done : j < l /\ Log[i].call = Log[j].call
    <3>1. Before(Log[i].call, Log[l].call)
      BY <2>1, <2>8
    <3>2. Log[i].call \in Finished
      BY <2>0, <2>5, <3>1
    <3>3. PICK j \in done : Log[j].call = Log[i].call
      BY <2>2, <3>2
    <3>4. ~(l < j) /\ j # l
      BY <2>0, <2>1, <3>1, <3>3, BeforeIsStrict
    <3> QED
      BY <2>0, <3>3, <3>4
  <2>9. ASSUME at \in {"requesting", "answering", "storing"}, NEW i \in started
        PROVE  \E j \in done : Log[i].call = Log[j].call
    BY <2>0, <2>2, <2>4, <2>9
  <2>10. \A i, j \in started : Log[i].call = Log[j].call => i = j
    BY <2>0, <2>7
  <2>11. \A i, j \in done : Log[i].call = Log[j].call => i = j
    BY <2>0, <2>7
  <2> QED
    BY <2>3, <2>6, <2>8, <2>9, <2>10, <2>11 DEF ResultsFollowCalls
<1> QED
  BY <1>1, ResultsInit, ResultsStep, TurnInvariant, PTL DEF Spec
=============================================================================
