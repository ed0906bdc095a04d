--------------------------- MODULE SessionMemory ---------------------------
(***************************************************************************)
(* What one session remembers, and the copy of it on disk.                 *)
(*                                                                         *)
(* A turn appends a user and an assistant message to the history, drains   *)
(* the oldest messages when the history is long, asks the model to fold    *)
(* them into the summary, and saves the session.  The turns of a session   *)
(* follow one another here: SessionStore shows that its concurrent         *)
(* handlers implement this machine for every session, SessionMemory is     *)
(* what they promise.                                                      *)
(*                                                                         *)
(* A message is its position in the conversation: odd ones are the user's, *)
(* even ones the assistant's.  A summary is the set of the messages it was *)
(* made from; the empty summary string is the empty set.                   *)
(***************************************************************************)
EXTENDS ShortTerm, Functions

CONSTANT MaxMessages      \* bound: a conversation ends after so many messages

VARIABLES
  phase,      \* where the session's turn is; "absent" when no process holds it
  history,    \* ShortTermMemory.messages
  summary,    \* SummaryMemory.summary, as the messages it covers
  batch,      \* drained messages that Compress works on
  count,      \* messages exchanged so far
  drained,    \* how many of them DrainOldestIfAbove has taken out of the history
  saved       \* the session's row in the bolt bucket: no or one snapshot

vars == <<phase, history, summary, batch, count, drained, saved>>

Phases == {"unsaved", "idle", "generating", "half", "stored", "compressing", "absent"}

Snapshot == [history : Seq(Nat), summary : SUBSET Nat, count : Nat, drained : Nat]

(* sessionToSnapshot *)
Snap == [history |-> history, summary |-> summary, count |-> count, drained |-> drained]

(* Create has put an empty session in the map and has yet to save it. *)
Init ==
  /\ phase = "unsaved"
  /\ history = <<>> /\ summary = {} /\ batch = <<>>
  /\ count = 0 /\ drained = 0
  /\ saved = {}

-----------------------------------------------------------------------------
(* The turn: runTurn from reading the history to the end of Compress.      *)

(* runTurn reads history and summary, and the model is asked for an answer. *)
BeginTurn ==
  /\ phase = "idle"
  /\ count + 2 =< MaxMessages
  /\ phase' = "generating"
  /\ UNCHANGED <<history, summary, batch, count, drained, saved>>

(* runTurn returns an error before it stores anything; the handler still   *)
(* persists the session when the final event arrives.                      *)
TurnFails ==
  /\ phase = "generating"
  /\ phase' = "unsaved"
  /\ UNCHANGED <<history, summary, batch, count, drained, saved>>

AppendUser ==
  /\ phase = "generating"
  /\ phase' = "half"
  /\ history' = AppendMessage(history, count + 1)
  /\ count' = count + 1
  /\ UNCHANGED <<summary, batch, drained, saved>>

AppendAssistant ==
  /\ phase = "half"
  /\ phase' = "stored"
  /\ history' = AppendMessage(history, count + 1)
  /\ count' = count + 1
  /\ UNCHANGED <<summary, batch, drained, saved>>

DrainOldestIfAbove ==
  /\ phase = "stored"
  /\ phase' = IF Drained(history) = <<>> THEN "unsaved" ELSE "compressing"
  /\ batch' = Drained(history)
  /\ history' = Remaining(history)
  /\ drained' = drained + Len(Drained(history))
  /\ UNCHANGED <<summary, count, saved>>

EndCompress ==
  /\ phase = "compressing"
  /\ phase' = "unsaved"
  /\ batch' = <<>>
  /\ UNCHANGED <<history, count, drained, saved>>

(* The model answers with a text that covers the old summary and the batch. *)
CompressOk == EndCompress /\ summary' = summary \union Range(batch)

(* The model answers with white space: the summary is set to "". *)
CompressBlank == EndCompress /\ summary' = {}

(* Generate fails: the summary stays, and the batch is gone. *)
CompressFails == EndCompress /\ UNCHANGED summary

-----------------------------------------------------------------------------
(* The row on disk, and the process around the session.                    *)

PersistAppends ==
  /\ phase = "unsaved"
  /\ phase' = "idle"
  /\ saved' = saved \union {Snap}
  /\ UNCHANGED <<history, summary, batch, count, drained>>
Persist ==
  /\ phase = "unsaved"
  /\ phase' = "idle"
  /\ saved' = {Snap}
  /\ UNCHANGED <<history, summary, batch, count, drained>>

(* There is no persister, the session was deleted, or the write fails. *)
PersistSkipped ==
  /\ phase = "unsaved"
  /\ phase' = "idle"
  /\ UNCHANGED <<history, summary, batch, count, drained, saved>>

(* Delete removes the row, whatever the session is doing. *)
Forget ==
  /\ phase # "absent"
  /\ saved # {}
  /\ saved' = {}
  /\ UNCHANGED <<phase, history, summary, batch, count, drained>>

Crash ==
  /\ phase # "absent"
  /\ phase' = "absent"
  /\ history' = <<>> /\ summary' = {} /\ batch' = <<>>
  /\ count' = 0 /\ drained' = 0
  /\ UNCHANGED saved

(* sessionFromSnapshot appends the saved messages one by one. *)
Reload ==
  /\ phase = "absent"
  /\ phase' = "idle"
  /\ \E row \in saved :
       /\ history' = Trim(row.history)
       /\ summary' = row.summary
       /\ count' = row.count
       /\ drained' = row.drained
  /\ UNCHANGED <<batch, saved>>

Next ==
  \/ BeginTurn \/ TurnFails \/ AppendUser \/ AppendAssistant
  \/ DrainOldestIfAbove \/ CompressOk \/ CompressBlank \/ CompressFails
  \/ Persist \/ PersistSkipped \/ Forget \/ Crash \/ Reload

Spec == Init /\ [][Next]_vars

-----------------------------------------------------------------------------
TypeOK ==
  /\ phase \in Phases
  /\ history \in Seq(Nat) /\ summary \in SUBSET Nat /\ batch \in Seq(Nat)
  /\ count \in Nat /\ drained \in Nat
  /\ saved \in SUBSET Snapshot
  /\ \A row, other \in saved : row = other

(* The messages from the first one on that was not drained to the last. *)
Consecutive(messages, before) ==
  \A i \in 1..Len(messages) : messages[i] = before + i

(* A message leaves the history only through DrainOldestIfAbove: the       *)
(* history is exactly the messages exchanged since the last drained one,   *)
(* in order.  In particular the silent trimming in Append never runs,      *)
(* because a turn appends two messages and drains before the next turn.    *)
NoSilentLoss ==
  /\ Consecutive(history, drained)
  /\ drained + Len(history) = count

(* What the summary covers is older than the batch being compressed, and   *)
(* the batch is older than the history: a prompt that puts the summary     *)
(* before the history tells the conversation in order, and nothing twice.  *)
SummaryPrecedesHistory ==
  /\ Len(batch) =< drained
  /\ Consecutive(batch, drained - Len(batch))
  /\ summary \subseteq 1..(drained - Len(batch))

(* Between turns the history is at most 80% full, so the two messages of   *)
(* the next turn always fit.                                               *)
DrainKeepsUp == phase \in {"idle", "generating"} => Len(history) =< Threshold

(* Whatever crash comes when, the row on disk is a session between two     *)
(* turns: whole question and answer pairs, no gap after the drained ones,  *)
(* a summary of drained messages only, and nothing a reload would trim.    *)
SavedIsWhole ==
  \A row \in saved :
    /\ Consecutive(row.history, row.drained)
    /\ row.drained + Len(row.history) = row.count
    /\ row.count % 2 = 0 /\ row.drained % 2 = 0
    /\ row.summary \subseteq 1..row.drained
    /\ Len(row.history) =< Threshold

(* The prompt's messages, window and new user message, alternate between   *)
(* user and assistant and start with the user (the history keeps pairs).   *)
PromptAlternates ==
  phase = "generating" =>
    LET prompt == Append(Window(history), count + 1)
    IN \A i \in 1..Len(prompt) : prompt[i] % 2 = i % 2

(* The rolling summary stands in for what the prompt no longer carries:    *)
(* every earlier message is in the window or in the summary.               *)
ContextComplete ==
  phase = "generating" => 1..count \subseteq Range(Window(history)) \union summary
=============================================================================
