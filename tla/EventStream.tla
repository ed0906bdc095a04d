---------------------------- MODULE EventStream ----------------------------
(***************************************************************************)
(* What ProcessTurn promises of the channel it returns, whatever the model *)
(* and the tools do: text and tool events, then, if the turn failed, one   *)
(* error, then exactly one done event, and then the channel is closed.     *)
(* TurnEngine implements it.                                               *)
(***************************************************************************)
EXTENDS Integers, Sequences

CONSTANTS
  Calls,      \* the tool calls a turn may make
  NoCall      \* the call field of an event that is not about a tool

VARIABLES
  events,     \* the events sent so far
  closed      \* the channel is closed

vars == <<events, closed>>

Event == [type : {"text", "error", "done"}, call : {NoCall}]
           \union [type : {"tool_start", "tool_done"}, call : Calls]

Sent(type) == \E i \in 1..Len(events) : events[i].type = type

Init == events = <<>> /\ closed = FALSE

(* After an error only the final event may follow, after that nothing. *)
Emit(e) ==
  /\ ~closed
  /\ ~Sent("done")
  /\ Sent("error") => e.type = "done"
  /\ events' = Append(events, e)
  /\ UNCHANGED closed

Close ==
  /\ ~closed
  /\ Sent("done")
  /\ closed' = TRUE
  /\ UNCHANGED events

Next == (\E e \in Event : Emit(e)) \/ Close

Spec == Init /\ [][Next]_vars
=============================================================================
